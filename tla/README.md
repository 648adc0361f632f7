# A verification project for ibmcloud-local

ibmcloud-local emulates the IBM Cloud APIs for virtual private clouds, load
balancers, transit gateways, resource groups and IAM: one Python process, one
asyncio event loop, one dictionary of dictionaries that every handler reads and
writes. This directory holds TLA+ modules that model it, TLC configurations that
check them on small instances, and TLAPS proofs of what matters most.

Paths below are relative to `src/src/` (`providers/vpc.py`, `state/store.py`, ...).

## 1. The system

### How it runs

Handlers are coroutines of one event loop, so a handler is atomic between two
awaits. Almost all of them have one await, that of the request body. Where it
comes first, the rest of the handler is one step. Where a handler looks
something up, awaits the body, and then goes on with what it found, other
handlers run in between, and the model has two actions, `Begin...` and
`Finish...`. Background tasks (booting an instance, carrying out an action,
removing a deleted instance, activating a load balancer) sleep on the same loop
and write to the store when they wake.

The store's lock protects each call of `put`, `get`, `update`, `delete`; it
protects no handler, which makes several calls, and objects are handed out by
reference: a handler that found an object holds the stored one, not a copy, and
goes on holding it when it was removed from the store.

### Components

| Component | State | Operations | Interacts with | What is hard |
|---|---|---|---|---|
| State store, `state/store.py` | `_data`, `_metadata`, `_request_log` | put, get, list, update, delete, reset, snapshot, restore, log | everything | data and metadata are two dictionaries that a restore leaves unequal; put raises between writing one and the other |
| Instances, `providers/vpc.py` | namespace `instances`, sleeping tasks | create, delete, actions, rename | the event loop; the store | several tasks may be asleep for one instance; deletion is delayed; tasks outlive what they are about |
| VPCs, subnets, floating IPs, `providers/vpc.py` | namespaces `vpcs`, `subnets`, `floating_ips` | create, delete, rename | subnets name VPCs, ACLs and gateways; instances name subnets | address overlap, counts, deletion of what is referred to |
| Network ACLs, `providers/network_acl.py` | namespace `network_acls` | create, rename, delete; rules | created by `create_subnet` too | rules edited across an await |
| Public gateways, `providers/public_gateway.py` | namespace `public_gateways` | create, rename, delete, attach, detach | writes `floating_ips` and `subnets` | one per zone; attachment across an await |
| Security groups, `providers/vpc.py` | namespace `security_groups` | create, delete; rules | created by `create_vpc` too | rules edited across an await |
| Load balancers, `providers/load_balancer.py` | namespace `load_balancers`, nested lists, activation tasks | CRUD of balancer, listener, pool, member | the event loop | nested lists rewritten whole across an await |
| Transit gateways, `providers/transit_gateway.py` | namespace of gateways, and one of connections for each gateway | CRUD of both | resets of one namespace | cached counts of connections |
| Resource manager, `providers/resource_manager.py` | namespace `resource_groups` | CRUD, default group | startup | default group and restore in one startup; rename across an await |
| Lifespan and control plane, `server.py` | up or down; the snapshot file | start, stop, reset, reset of one namespace | the store | order at startup; what a restart loses |
| Request log, `middleware/request_logger.py`, `state/store.py` | a capped list | append, read the latest | every request | order of answers, cap, handlers that raise |
| Authentication and authorisation, `middleware/auth.py`, `iam/` | the environment of the process; a policy file read anew for every request | a verdict on every request | the key of the IAM provider; the table of actions | what precedes what; expiry compared in two places; a table kept by hand beside the routes |
| IAM tokens, `providers/iam.py` | a key pair for each process | issue a token, in strict mode after asking IBM Cloud | IBM Cloud | an answer awaited, late, refused or of no use; tokens outlive the process that signed them |
| Pagination, `providers/base.py` | none | cut a list into a page, with its length and links | the list handlers | no handler passes on a limit or an offset |
| Route registry, `routing.py`, `providers/base.py` | the routes, filled at import | list the routes | the dashboard; FastAPI's router serves; the table of actions | routes and table are kept apart |
| Models, `models/`; command line, `cli/` | none that changes | | | |

### What makes each component correct

- Instances: an instance on its way between two states has exactly one task that
  will move it on; clients see only the steps the API names; a deleted instance
  goes.
- Network: subnets of one VPC share no address; a zone of a VPC has one gateway; what was
  deleted stays deleted; a subnet outlives neither its VPC nor what is attached to it,
  where the code guards it; a subnet's count of free addresses is never too high.
- Server and store: data and metadata agree, so that no `put` raises half-way; a
  VPC is never served without its default group, nor a server without its default
  resource group; what was deleted stays deleted.
- Load balancers and rules: no concurrent edit is lost or undone, none revives what
  another deleted, fields of one rule set by two PATCHes both count, order is kept; rules
  are as if each request took effect at once.
- Transit gateways: a connection has a gateway, and a network is attached once.
- Request log: it is the latest requests whose handler returned, in order, and the feed
  begins with the newest.
- Access: in strict mode only tokens of this process pass, of somebody IBM Cloud
  has answered for; a token works until it expires; where policies are enforced
  the rank of a role decides, on every route of the VPC service, by the file
  as it is at that moment.
- Snapshot: a process begins with exactly what was saved, or does not start.

The hazards behind these, each at its line, are in `PROJECT.json`.

## 2. The modules

| Module | Models | Extends |
|---|---|---|
| `StateStore` | the dictionaries of the store as values: buckets, `Put`, `Delete`, `Update`, `ResetNamespace`, `Restored` | |
| `InstanceContract` | what the API promises of an instance: phases and steps | |
| `InstanceLifecycle` | instance handlers, tasks, time; implements `InstanceContract` | |
| `VpcNetwork` | VPCs, subnets, ACLs, gateways, floating IPs, instances' references | `StateStore` |
| `ServerLifecycle` | process, store with metadata, snapshot, resource groups, VPCs with their default security groups | `StateStore` |
| `LoadBalancer` | balancers and what they hold, activation | `StateStore` |
| `RuleTable` | what clients may take rules to be: a table of rows, edited at once | |
| `RuleList` | rules of security groups and network ACLs; implements `RuleTable` | `StateStore` |
| `TransitGateway` | gateways and connections | `StateStore` |
| `RequestLog` | request log and feed | |
| `ActionMap` | the routes of the providers, and the table that says which IAM action a request is | |
| `PolicyStore` | what roles on services allow, by their suffixes and by their rank | |
| `Access` | tokens, keys, modes, the policy file, and the verdict on a request | `ActionMap`, `PolicyStore` |
| `Listing` | `collection_response` and the list handlers that call it | |
| `MCVpcNetwork`, `MCAccess` | address blocks, and policies, for TLC | `VpcNetwork`, `Access` |
| `MCTransitLog` | transit gateways and the request log in one process, which a reset and a restart empty together, for TLC | `TransitGateway`, `RequestLog` |
| `...Proofs` | theorems of the module named | TLAPS |

### State and actions against the code

**InstanceLifecycle.** `status[i]` is the `status` field of the object of
instance `i`, which exists from its creation on, stored or not (`"unused"`
before). `stored` is the keys of `store._data["instances"]`. `timers` are the
coroutines asleep in `asyncio.sleep`, with the half seconds left. `pending[c]`
is the local variable `instance` of an `instance_action` that awaits its body.
`CreateInstance`, `DeleteInstance`, `BeginAction`/`FinishAction` are the
handlers; `BootStarting`, `BootRunning`, `ActionDone`, `Cleanup` what the tasks do
on waking; `Tick` lets half a second pass. All sleeps of the code are multiples of
half a second, so a unit of one half second tells all orders of waking apart,
and `MaxLag` lets the loop be late. Two tasks of one kind, instance and deadline
(two DELETEs in one half second) are one member of `timers`: the second finds
nothing left to do. A PATCH of an instance renames it and is left out. `namespace` is how
`instances` came to be in the store: not at all, by a `put`, or by a restore, which
leaves it without metadata, so that the `put` of `CreateInstance` raises after it stored
the object and no boot task is created. `snapshot` is the file as far as it is about this
namespace. `Restart` ends the process and starts the next one: in memory mode with
nothing, in disk mode with the store as it is (a stop saves it), with what was saved last
(a crash does not) or with nothing (the file was removed).

**VpcNetwork.** One variable for each namespace. A subnet holds its VPC, block,
ACL, gateway and count of available addresses; an instance its VPC and subnet. A
block is a first address and a size in a space of a few addresses; `Overlaps` is the
test of `ipaddress`. `pending[c]` is the subnet that an
`attach_subnet_gateway` has found. Private addresses are drawn at random by the
code and are modelled by whether there is one to draw (`HasPrivateIp`). The
`floating_ip` that the body of a new gateway may name is parsed and never read,
in the code as in `CreatePublicGateway`.

**ServerLifecycle.** `store` is the data and the metadata of the process,
`snapshot` the file, `up` whether the lifespan handler has yielded. `Start` is
`ensure_default_resource_group` and then, in disk mode, the restore. `Stop` ends
the process by way of the handler's shutdown, `Crash` without it, and
`CrashWhileSaving` in the middle of it: the file is opened for writing, which empties
it, so what is left is torn, and the `json.loads` of a `Start` raises on it before the
handler yields. There is no `Start` then until the file is gone
(`RemoveSnapshot`). `saved` is a history of what the last save of a whole file
was of. `CreateVpc` is the three store calls of `create_vpc`, with the outcomes of
the `put` that raises.

**LoadBalancer.** `balancers` maps an id to its object with its lists as buckets,
`activating` the sleeping `_activate_lb` tasks. `pending[c]` is what a POST or
PATCH has found. `namespace`, `snapshot` and `Restart` are as in `InstanceLifecycle`:
after a restore the `put` of `CreateLoadBalancer` raises with the balancer stored, and its
activation is not scheduled.

**RuleList.** `groups` holds both kinds of group, with their rules as sequences of
ids and fields. A request in flight is the group, the rule and which
fields its body gives. `subnets` is there for the guard of `delete_network_acl`.
`Without` is the list comprehension of the DELETEs, by way of `Kept`, which says what
it keeps of each beginning of the list: a recursive function, so that it can be
proved about.

**RuleTable.** A group is a table, from the id of a rule to its fields; there are no
lists, and no objects that a handler could go on holding. A client asks (`Ask`), and
when it is answered its request is one edit of one row as the table is by then (`Add`,
`Change`), or none, when row or group has gone (`Miss`). `RuleList` implements it with
`GroupRows`, which forgets the order of a list, for `table` and `pending` for `calls`; the
order is what `OrderKept` is about.

**TransitGateway.** `gateways` with their cached `connection_count`, and
`connections`, which the code keeps in one namespace for each gateway.
`GetGateway` is an action: the GET writes the count into the stored object.

**RequestLog.** `log` is `_request_log`, `inflight[c]` the request for which
`dispatch` awaits its handler, `returned` a history of the requests whose handler
returned since the log was last emptied. A request whose handler raises is answered 500 by the server
around the middleware, and is in neither (`Raise`): what is said of the log is said of
the requests that return.

**Access.** `key` is the private key of the IAM provider, `auth` and `authz` the
environment of the process, `policyFile` what the file holds, `tokens` those that
clients have, from this process, an earlier one or IBM Cloud, `verifying[c]` the
API key that an `issue_token` in strict mode awaits IBM Cloud's answer about.
`BeginVerify` and the three `Finish...` are the two halves of that handler,
`IssueToken` the handler in permissive mode, `Restart` a new process, in any mode, and
`EditPolicies` an export of the policies while the server runs. `Verdict` is
`dispatch`, which awaits nothing before it lets a request through: an operator, which
the invariants apply to every token and every route.

**ActionMap.** A path is the sequence of its segments, the `/v1` or `/v2` in front
left out. `Routes` is what the providers register, `ACTION_MAP` the table, each with its
regularities (`Crud`; `Own` and `Part`) written once. The code has two paths of a request:
`request.url.path`, which the middleware reads and which Starlette puts together anew, and
the path that FastAPI's router matches. For ids that the server hands out (letters, digits,
dashes) they are the same, and the module has one. For a segment like `%23`, which ends the
path of a URL once it is decoded, they are not, and nothing here is said of such requests:
`Requests` has one for each route, with an ordinary id.

**PolicyStore.** `Allows` compares suffixes of actions as the code does,
`Outranks` is the reference definition: roles have ranks, and verbs need one.

**Listing.** `resources` is a namespace in the order of the dictionary, `reply[c]`
the last page and count a client was given. The links of the envelope are left out: that
the one to the next page would show the first again, since no handler reads `start`, is read
off the code.

### Abstractions and assumptions

- A uuid is a number, drawn in order and never twice: `minted` counts them, and
  `MaxId` bounds it. (In `InstanceLifecycle` they are model values.)
- A request that is refused changes nothing, and its conditions are guards. That
  is how the handlers are written: every early return precedes the first write.
- PATCH bodies hold the fields that the API documents. The code merges any body
  into the object (`patch_public_gateway` among others), so a client could overwrite an `id`
  or a `status`; that is no behaviour the models have.
- `POST /_emulator/reset/{namespace}` (`ResetOne`) removes one namespace from under
  the references of others. The history variable `intact` of `VpcNetwork` and
  `TransitGateway` says that this has not happened since the whole store was empty;
  properties about references are stated where it holds, all others without it.
- A process whose start loaded a snapshot has data without metadata. The
  snapshot changes only when a process stops, so `IsRestored(snapshot)` tells of a
  running process whether it is one; what is promised of the others only is
  stated with it.
- The lifespan handler awaits nothing before or after it yields: starting and
  stopping are a step each, and stopping ends what is in flight.
- CRNs, hrefs, names that nothing compares, timestamps and status codes are left out.
- A token is the key that signed it, whom it names and when it expires. Cryptography
  is perfect: a token verifies under the key that signed it and no other. Permissive
  mode verifies no signature, so a client could write its own token there; `tokens`
  holds issued ones only, and no property of permissive mode is about who a
  client is. A token without an expiry, which permissive mode accepts, is left out.
- A request without a token, or with one that cannot be decoded, is answered 401 in
  both modes, and is left out.
- The policy file can be read or it cannot: missing, not configured, half-written
  and not JSON are one case, as they are in `_check_authz`.

### Fairness

Only what the event loop does by itself is fair: `WF(WakeAny)` and `WF(Tick)` in
`InstanceLifecycle` (asyncio wakes the sleeper with the earliest deadline when it
has passed, and time passes), `WF(Activate(lb))` for each balancer in
`LoadBalancer`. Clients owe nothing: a body may never arrive. Other modules
have no liveness property, and no fairness.

## 3. The runs

| Run | Bounds | What it shows |
|---|---|---|
| `lifecycle` | 2 instances, 2 clients, sleepers woken on time, memory mode | `SingleDriver`: one task at most drives an instance, and the right one, with actions decided on a status read after an await; `ContractSpec`: the lifecycle implements `InstanceContract`, progress included |
| `network` | 5 ids, 4 blocks in 16 addresses, 1 zone | disjoint subnets, one gateway per zone and counts not overstated, whatever is reset; an attachment in flight does not bring back its subnet; references kept until a namespace is reset alone |
| `server` | 4 ids, disk mode | resource groups can be created after any restore and nothing returns; a process begins with what was saved, saves cut short among them; in a process that was not restored data and metadata agree and VPCs have their group |
| `balancer` | 3 ids, 2 clients, 2 values, memory mode | nothing created is lost, nothing deleted returns, and what changes is what a PATCH names; every balancer becomes active or goes |
| `rule_edits` | 4 ids, 2 clients, 2 fields | `TableSpec`: the lists implement `RuleTable`, so that no rule and no field is lost and none returns; order kept |
| `transit_log` | 4 ids, 2 names, 2 networks; cap 2, 4 requests, 2 clients | a network is attached once, whatever is reset; connections have a gateway until a namespace is reset alone; the log is the latest of the requests that return, with gateways changing and resets between; the feed begins with the newest |
| `access` | 1 client, 1 identity, 3 policies, tokens of 1 second, 2 seconds, 2 processes | each token, on each route, gets the verdict that mode, key, expiry and policies call for; every VPC route has an entry in the table of actions, with a verb of its kind |

Each property of these runs has one or more mutants in `PROJECT.json`, operators next to
the definitions they replace, which TLC shows to violate the property.

Why the bounds are enough: an interleaving hazard of these handlers is between
two of them, so two clients and one object reach it, and a second object or
instance shows that nothing leaks between objects. Four blocks are the cases of
`Overlaps`: equal, equal but for host bits, one around the other, disjoint. Five ids
make a VPC with a subnet, its ACL, and a gateway with its floating IP, or a gateway, a
subnet and an instance, or two VPCs and three subnets under no ACL; three make a balancer with two listeners, with a listener and
a pool, or with a pool and a member, and two values tell a resource that was patched from
its neighbour; four make a group with three rules, the least in which an order can be lost
beside a deletion; four make two transit gateways with a connection each, or one with three.
In four ids a server creates a VPC
before a stop and another after the restore. A log of two is filled twice over, with two
requests in flight that return in either order.
Disk mode has the steps of memory mode for as long as no process ends. The runs
`lifecycle` and `balancer` are of memory mode, since progress is not to be had in disk
mode (below); the theorems about `LoadBalancer`, and the types of `InstanceLifecycle`,
are of both. For access, a token of a second and a clock of two have a token before, at and
after its expiry; two processes have a token that outlives the one that signed it, in
each pair of modes; requests for tokens share the sets of tokens and of confirmed
identities, which only grow, so that one client does for TLC, and the theorems are
for any number; three policies, in any
combination, give an identity no role, one without a rank, one on another service and
one that suffices; the routes are all of them. The theorems below hold without bounds, and for a loop that is late.

### Where the code and its documents disagree

These runs are expected to find a violation; `PROJECT.json` quotes the line
that says otherwise.

| Run | What it shows |
|---|---|
| `boot_after_delete` | a boot task overwrites the status `deleting` |
| `boot_after_restart` | in disk mode an instance saved while it boots stays `pending` |
| `vpc_after_restore` | after a restore `create_vpc` raises half-way, and the VPC has no default group |
| `default_group_gone` | in disk mode a reset, a stop and a start leave a server without its default resource group |
| `list_cut` | a list is cut at its limit |

Others are in the models, and can be read off one definition without a run:

- `DeleteVpc` looks for subnets only, and leaves instances without their VPC
  (`providers/vpc.py:280`: "you can't delete a VPC that still has subnets,
  instances, etc. We enforce that check here").
- `AuthenticIn` compares the expiry in permissive mode too, where the repository's
  `README.md:157` says that it is not (`docs/development-status.md:286` says it is).
- `ResolveAction` is `Unmapped` for transit gateways and resource groups, which have no
  entry in the table: they are let through with policies enforced.
- `FinishUnreadable` gives a token for an unknown identity when IBM Cloud answers
  with a status that is none of those looked for, 404 or 429 say.
- `CrashWhileSaving` leaves a file that stops every start, until somebody removes it.
- `Accept` takes an action on an instance that was removed while the body was
  awaited: the answer is 201, and nothing happens.
- `CreatePublicGateway` reserves a new address whatever `floating_ip` says
  (`models/public_gateway.py:15`: "may be pre-specified").
- `DeleteLoadBalancer` has no guard (`docs/development-status.md:264`: "rejects with
  409 if listeners or pools still exist on the balancer").
- `Activate` of a balancer is lost in a restart in disk mode, like the tasks of an
  instance: it stays in `create_pending`. So do an instance and a balancer whose `put`
  raises after a restore (`CreateInstance`, `CreateLoadBalancer`): they are stored, and no
  task is created for them.
- The count of available addresses goes below zero, and stays low when instances go
  (`CreateInstance` and `RemoveInstance` of `VpcNetwork`).
- `LastOf(s, 0)` is the whole log: a feed limited to 0 is not.
- `Raise` logs nothing (`middleware/request_logger.py:2` and `:4`: "captures every API call",
  "Every HTTP request gets logged").

## 4. The proofs

Every theorem holds for any value of the constants the module's `ASSUME` admits.

- **InstanceLifecycleProofs.** `TypeCorrect`; `SingleDriverCorrect` (memory mode);
  `ContractSafety` (memory mode: the initial state and every step map to
  `InstanceContract`, or stutter). `SingleDriver` is not inductive
  as it stands: an id that is fresh must have no task and no request (`FreshUntouched`),
  or the boot task of a new instance could be its second; and in memory mode nothing may
  be restored (`Unsaved`), or a new instance could be without a task. `DriverStep` then goes
  action by action; the frame lemmas say that a step which leaves an instance's
  status and tasks alone leaves it driven.
- **VpcNetworkProofs.** `OverlapsCorrect` (the test on four ends finds every
  common address); `TypeCorrect`; `SubnetsDisjointCorrect` and
  `OneGatewayPerZoneCorrect`, resets of one namespace included; `SubnetsInVpcCorrect` and
  `AttachmentsKeptCorrect`, while `intact`, proved together as `References`; `AddressesCorrect`, for which instances must refer to ids that
  were drawn (`SubnetRefsDrawn`): otherwise a new subnet could have instances already;
  `NothingReturnsCorrect`, an action property (`StoredStep`).
- **ServerLifecycleProofs.** Lemmas say of each store operation what it does to
  data and metadata; `StoreStep` says that every step of the server is one of them.
  `GroupsWritableCorrect` rests on `WritableInv` (the namespace of resource groups has
  metadata from startup on or no data at all), `MetadataAgreesCorrect` and
  `FreshVpcHasDefaultGroupCorrect` on `FreshInv` (both hold of a process that was not
  restored, and the snapshot changes only as the store is emptied: `SnapshotStep`).
  `NoResurrectionCorrect` is an action property. In memory mode no process is
  restored, so there these hold throughout. `RestartServesSavedCorrect` rests on
  `SavedInv` (a whole file is of what was last saved) and `DownInv`; `TypeCorrect` on
  `TypeInv`, which follows the types of what handlers write through put, update,
  delete, reset, save and restore.
- **LoadBalancerProofs.** `TypeCorrect`, `NothingLostCorrect`,
  `NothingReturnsCorrect` and `NoChangeUndoneCorrect`, by `LoadBalancerInv`: types, the fields that every balancer
  and pool has (`Shaped`), and that a request about a pool or a member has found a pool
  (`RequestsOK`), since the properties tell listeners from pools by whether there is
  one. `StepCases` says that a step rewrites one balancer, by a handler's write
  or by a DELETE, or creates, removes or resets balancers whole; `RewrittenHeld` what
  rewriting one does to what is held. `NoChangeUndoneCorrect` needs in addition
  that a request's path ends where its resource is (`PathsOK`): `ChangedPath` finds the
  balancer in which a changed path lies, the `Differs...` lemmas what the old and the new one
  can disagree about when one field, one list or one pool was assigned, and there is a lemma
  for each handler. A restart is excepted in these two: what a process starts with after a
  crash is what was saved last. Its file is well formed (`FileStep`, `StartedFrom`).
- **RuleListProofs.** `TypeCorrect`, `RuleIdsUniqueCorrect`, `OrderKeptCorrect`,
  `NoRuleLostCorrect`, `NoRuleReturnsCorrect`, `NoFieldLostCorrect`, for lists of any
  length. What `Without` keeps is shown by induction on the length of the list
  (`WithoutKeeps`); the induction is derived from `WFMin`, that a set of numbers has a
  least element (`LeastNumber`, `Induction`), since the library's induction theorems
  take an operator. `StepEdits` says that a step edits one group at most, that
  what is new in it is on new uuids, that what is gone was deleted, and that a field that
  changed was given by a PATCH: the invariant (`RuleListInv`: types, unique ids, order) and
  the action properties all follow from it. Order makes ids unique within a
  group, new uuids make them unique across groups. `TableCorrect` is the refinement of
  `RuleTable`: `RowsOfAppended`, `RowsOfPatched` and `RowsOfWithout` say what appending to a
  list, patching it and filtering it do to its rows, which needs that ids in a list are
  unique (`RuleListInv`), and `TableStep` maps each action of `RuleList` to the
  action of `RuleTable` it is, or to a stutter. That no rule and no field is lost and no
  rule returns is what a table that is edited at once comes to: the run checks `TableSpec`
  alone, and the bugs that would break one of the three break it.
- **AccessProofs.** `TypeCorrect`; `StrictMeansConfirmedCorrect`, by
  `SignedForConfirmed` (a token of this process in strict mode is of somebody
  confirmed); `FreshTokensWorkCorrect`; `StrictIsStricterCorrect`;
  `EnforcedByRankCorrect`, for any policies, from the verbs of the table
  (`ActionVerbs`) and what each role's suffixes are (`SuffixesByRank`);
  `ViewersChangeNothingCorrect` and `StrangersSeeNothingCorrect`, for any policies.
  These two are about the table entry by entry. The routes
  and the table are built of the same few shapes of path (`Crud`, `Own`, `Part`),
  so that the lemmas go shape by shape: every route of the service has an
  entry (`ServiceEntered`), which is one of a change if the request is
  (`ChangingEntries`).
- **TransitGatewayProofs.** `TypeCorrect`, for which there must be finitely many
  connections to count; `ConnectionsOwnedCorrect`, while `intact`;
  `NetworkAttachedOnceCorrect`.
- **RequestLogProofs.** `TypeCorrect`; `LogIsLatestCorrect`, for any cap, where TLC
  fills one of two and the code has one of a thousand; `FeedNewestFirstCorrect`, for any
  limit but 0.

Only model-checked: liveness (the progress of `ContractSpec`, and
`ActivationCompletes`), which is beyond the prover. Every other property of the runs that
pass is a theorem; `SingleDriver` and the safety of `ContractSpec` are theorems of memory
mode, in which they are checked.

## 5. Not modelled

- Request and response models, command line: they keep no state that a handler
  changes, or are formatting and I/O. Error envelopes, and the JWKS document, which shows
  the key: formatting.
- The order of middlewares. Authentication is outside of CORS (`server.py:126`), so
  that a preflight request, which carries no token, is answered 401.
- The classification of a request in the log, which knows load balancers and
  transit gateways as "unknown" services.
- PATCH handlers that rename a VPC, a subnet, a gateway, an ACL, an instance: they
  change nothing a property is about.
- Reads (`list_...`, `get_...`), but for the GET of a transit gateway, which writes.

## 6. The plan

In order of what matters most. Done:

1. `InstanceLifecycle` with `InstanceContract`: the concurrent core. Proved.
2. `VpcNetwork`: references and addresses. Proved.
3. `StateStore`, `ServerLifecycle`: crash, also in the middle of a save, restart,
   metadata. Proved.
4. `LoadBalancer`, `RuleList`, and `RuleTable` as what the latter promises: edits across
   an await. Proved.
5. `TransitGateway`, `RequestLog`. Proved.
6. `ActionMap`, `PolicyStore`, `Access`: who may do what. Proved.
7. `Listing`: a disagreement with the documentation.

Left:

8. Restarts of what the other modules model: `TransitGateway` over
   `ServerLifecycle` in disk mode, whose counts and metadata come back differently.
9. The answers of handlers that finish without what they found (201 and 200 for
   nothing): an outcome in `RuleList`, `LoadBalancer` and `ServerLifecycle`.
10. A rename of a transit gateway, which compares no names where a create does.
11. The services of the router that authorisation leaves alone (transit gateways,
    resource groups), as a property of the table, once it has entries for them.
