----------------------------- MODULE LoadBalancer -----------------------------
(***************************************************************************)
(* Load balancers with their listeners, pools and members, as the handlers *)
(* of src/providers/load_balancer.py keep them: lists inside the object of *)
(* the balancer, rewritten whole by every handler.                         *)
(*                                                                         *)
(* POST and PATCH on something that exists look it up, await the body, and *)
(* then rewrite the lists as they are by then: Begin, and a Finish action  *)
(* for each handler.  A DELETE awaits nothing.  The fields a client sets   *)
(* are one value per resource.  The subnets a balancer is created in are   *)
(* left out: the handlers never look at them again.                        *)
(***************************************************************************)
EXTENDS Integers, StateStore

CONSTANTS Client,        \* connections with a POST or PATCH in flight
          Value,         \* what a body may set the fields of a resource to
          Persistence,   \* IBMCLOUD_LOCAL_PERSISTENCE: "memory" or "disk"
          MaxId          \* bound: how many uuids are drawn

ASSUME BalancerAssumption ==
    /\ Persistence \in {"memory", "disk"}
    /\ MaxId \in Nat

VARIABLES
    balancers,    \* the store's "load_balancers" namespace
    activating,   \* the balancers whose _activate_lb task is asleep
    pending,      \* what each in-flight handler found, awaiting its body
    minted,       \* how many uuids were drawn
    namespace,    \* how that namespace came to be: absent, put or restored
    snapshot      \* the namespace in the file, as a restart would have it

file == <<namespace, snapshot>>

vars == <<balancers, activating, pending, minted, namespace, snapshot>>

Id == Nat \ {0}
None == 0

Request(op, lb, pool, item) == [op |-> op, lb |-> lb, pool |-> pool, item |-> item]

NoRequest == Request("none", None, None, None)

\* Mutant: a resource that is not in the list any more is added to it.
ReplacedOrAdded(list, id, object) == BucketPut(list, id, object)

\* Mutant: the filter of a lookup, where the replacement is meant.
ReplacedAlone(list, id, object) == [x \in DOMAIN list \cap {id} |-> object]

\* Mutant: every item of the list is replaced.
ReplacedAll(list, id, object) == [x \in DOMAIN list |-> object]

\* [object if item["id"] == id else item for item in list]
Replaced(list, id, object) ==
    [x \in DOMAIN list |-> IF x = id THEN object ELSE list[x]]

\* There is no file, or none of the namespace in it.
NoSnapshot == [namespace |-> "absent", balancers |-> EmptyBucket]

Init == /\ balancers = EmptyBucket
        /\ activating = {}
        /\ pending = [c \in Client |-> NoRequest]
        /\ minted = 0
        /\ namespace = "absent"
        /\ snapshot = NoSnapshot

\* Mutant: an id that was drawn is drawn again.
DrawStuck == minted < MaxId /\ UNCHANGED minted

Draw == minted < MaxId /\ minted' = minted + 1

-----------------------------------------------------------------------------
NewBalancer(value) == [value |-> value, provisioning_status |-> "create_pending",
                       listeners |-> EmptyBucket, pools |-> EmptyBucket]

\* Mutant: the balancer is stored, and its activation never scheduled.
CreateUnscheduled(value) ==
    /\ Draw
    /\ balancers' = BucketPut(balancers, minted + 1, NewBalancer(value))
    /\ namespace' = "put"
    /\ UNCHANGED <<activating, pending, snapshot>>

\* A namespace that was restored has no metadata: put raises with the balancer stored,
\* and no activation is scheduled.
CreateLoadBalancer(value) ==
    /\ Draw
    /\ balancers' = BucketPut(balancers, minted + 1, NewBalancer(value))
    /\ \/ namespace = "restored" /\ UNCHANGED <<namespace, activating>>
       \/ /\ namespace # "restored"
          /\ namespace' = "put"
          /\ activating' = activating \cup {minted + 1}
    /\ UNCHANGED <<pending, snapshot>>

\* The end of _activate_lb, two seconds later.
Activate(lb) ==
    /\ lb \in activating
    /\ balancers' = IF lb \in DOMAIN balancers
                    THEN [balancers EXCEPT ![lb].provisioning_status = "active"]
                    ELSE balancers
    /\ activating' = activating \ {lb}
    /\ UNCHANGED <<pending, minted, file>>

\* Nothing asks for its listeners and pools, which go with it.
DeleteLoadBalancer(lb) ==
    /\ lb \in DOMAIN balancers
    /\ balancers' = BucketDelete(balancers, lb)
    /\ UNCHANGED <<activating, pending, minted, file>>

DeleteListener(lb, listener) ==
    /\ lb \in DOMAIN balancers
    /\ listener \in DOMAIN balancers[lb].listeners
    /\ balancers' = [balancers EXCEPT ![lb].listeners = BucketDelete(@, listener)]
    /\ UNCHANGED <<activating, pending, minted, file>>

DeletePool(lb, pool) ==
    /\ lb \in DOMAIN balancers
    /\ pool \in DOMAIN balancers[lb].pools
    /\ balancers' = [balancers EXCEPT ![lb].pools = BucketDelete(@, pool)]
    /\ UNCHANGED <<activating, pending, minted, file>>

DeleteMember(lb, pool, member) ==
    /\ lb \in DOMAIN balancers
    /\ pool \in DOMAIN balancers[lb].pools
    /\ member \in DOMAIN balancers[lb].pools[pool].members
    /\ balancers' =
         [balancers EXCEPT ![lb].pools[pool].members = BucketDelete(@, member)]
    /\ UNCHANGED <<activating, pending, minted, file>>

-----------------------------------------------------------------------------
\* The requests on a balancer that pass the lookups before the body.
Requests(lb) ==
    {Request(op, lb, None, None) : op \in {"patch_load_balancer", "create_listener",
                                           "create_pool"}}
    \cup {Request("patch_listener", lb, None, l) : l \in DOMAIN balancers[lb].listeners}
    \cup UNION {{Request("patch_pool", lb, p, None), Request("create_member", lb, p, None)}
                \cup {Request("patch_member", lb, p, m) :
                         m \in DOMAIN balancers[lb].pools[p].members} :
                p \in DOMAIN balancers[lb].pools}

Begin(c, lb) ==
    /\ pending[c] = NoRequest
    /\ lb \in DOMAIN balancers
    /\ \E r \in Requests(lb) : pending' = [pending EXCEPT ![c] = r]
    /\ UNCHANGED <<balancers, activating, minted, file>>

\* The body has arrived.
Resumed(c, op) ==
    /\ pending[c].op = op
    /\ pending' = [pending EXCEPT ![c] = NoRequest]
    /\ UNCHANGED <<activating, file>>

\* What it found is still in the store: its balancer, and its pool if it has one.
Reachable(c) ==
    /\ pending[c].lb \in DOMAIN balancers
    /\ pending[c].pool \in DOMAIN balancers[pending[c].lb].pools \cup {None}

\* Otherwise the handler writes to objects that nobody else can see.  A PATCH of
\* the balancer fails on the None of store.update; the others answer as if they
\* had been carried out.
FinishUnreachable(c) ==
    /\ pending[c] # NoRequest
    /\ ~Reachable(c)
    /\ Resumed(c, pending[c].op)
    /\ UNCHANGED <<balancers, minted>>

FinishPatchLoadBalancer(c, value) ==
    /\ Resumed(c, "patch_load_balancer") /\ Reachable(c)
    /\ balancers' = [balancers EXCEPT ![pending[c].lb].value = value]
    /\ UNCHANGED minted

FinishCreateListener(c, value) ==
    /\ Resumed(c, "create_listener") /\ Reachable(c)
    /\ Draw
    /\ balancers' = [balancers EXCEPT
                       ![pending[c].lb].listeners = BucketPut(@, minted + 1, value)]

FinishPatchListener(c, value) ==
    /\ Resumed(c, "patch_listener") /\ Reachable(c)
    /\ balancers' = [balancers EXCEPT
                       ![pending[c].lb].listeners = Replaced(@, pending[c].item, value)]
    /\ UNCHANGED minted

NewPool(value) == [value |-> value, members |-> EmptyBucket]

FinishCreatePool(c, value) ==
    /\ Resumed(c, "create_pool") /\ Reachable(c)
    /\ Draw
    /\ balancers' = [balancers EXCEPT
                       ![pending[c].lb].pools = BucketPut(@, minted + 1, NewPool(value))]

FinishPatchPool(c, value) ==
    /\ Resumed(c, "patch_pool") /\ Reachable(c)
    /\ balancers' = [balancers EXCEPT ![pending[c].lb].pools[pending[c].pool].value = value]
    /\ UNCHANGED minted

FinishCreateMember(c, value) ==
    /\ Resumed(c, "create_member") /\ Reachable(c)
    /\ Draw
    /\ balancers' = [balancers EXCEPT ![pending[c].lb].pools[pending[c].pool].members =
                       BucketPut(@, minted + 1, value)]

FinishPatchMember(c, value) ==
    /\ Resumed(c, "patch_member") /\ Reachable(c)
    /\ balancers' = [balancers EXCEPT ![pending[c].lb].pools[pending[c].pool].members =
                       Replaced(@, pending[c].item, value)]
    /\ UNCHANGED minted

-----------------------------------------------------------------------------
\* POST /_emulator/reset: the activation tasks stay asleep.
Reset == /\ balancers' = EmptyBucket
         /\ namespace' = "absent"
         /\ UNCHANGED <<activating, pending, minted, snapshot>>

\* What a save writes: the balancers as they are.
Saved == IF namespace = "absent" THEN NoSnapshot
         ELSE [namespace |-> "restored", balancers |-> balancers]

\* A process starts from a file.  Tasks and requests died with the last one.
Started(from) == /\ balancers' = from.balancers
                 /\ namespace' = from.namespace
                 /\ activating' = {}
                 /\ pending' = [c \in Client |-> NoRequest]
                 /\ snapshot' = from
                 /\ UNCHANGED minted

\* The process ends and another starts.  In disk mode the end is a stop, which saves,
\* or a crash, which leaves what was saved last; somebody may have removed the file.
Restart ==
    \E from \in IF Persistence = "disk" THEN {Saved, snapshot, NoSnapshot} ELSE {NoSnapshot} :
        Started(from)

DeleteAny(lb) ==
    \/ DeleteLoadBalancer(lb)
    \/ \E l \in DOMAIN balancers[lb].listeners : DeleteListener(lb, l)
    \/ \E p \in DOMAIN balancers[lb].pools :
          \/ DeletePool(lb, p)
          \/ \E m \in DOMAIN balancers[lb].pools[p].members : DeleteMember(lb, p, m)

Finish(c, value) ==
    \/ FinishPatchLoadBalancer(c, value)
    \/ FinishCreateListener(c, value) \/ FinishPatchListener(c, value)
    \/ FinishCreatePool(c, value) \/ FinishPatchPool(c, value)
    \/ FinishCreateMember(c, value) \/ FinishPatchMember(c, value)

Next == \/ \E v \in Value : CreateLoadBalancer(v)
        \/ \E lb \in DOMAIN balancers : DeleteAny(lb)
        \/ \E c \in Client, lb \in DOMAIN balancers : Begin(c, lb)
        \/ \E c \in Client : FinishUnreachable(c) \/ \E v \in Value : Finish(c, v)
        \/ \E lb \in activating : Activate(lb)
        \/ Reset \/ Restart

\* The event loop wakes the activation tasks; clients owe nothing.
Spec == Init /\ [][Next]_vars /\ \A lb \in 1 .. MaxId : WF_vars(Activate(lb))

-----------------------------------------------------------------------------
Drawn == {i \in Id : i <= minted}

Ref == Drawn \cup {None}

PoolOK(pool) == /\ pool.value \in Value
                /\ DOMAIN pool.members \subseteq Drawn
                /\ \A m \in DOMAIN pool.members : pool.members[m] \in Value

BalancerOK(b) ==
    /\ b.value \in Value
    /\ b.provisioning_status \in {"create_pending", "active"}
    /\ DOMAIN b.listeners \subseteq Drawn
    /\ \A l \in DOMAIN b.listeners : b.listeners[l] \in Value
    /\ DOMAIN b.pools \subseteq Drawn
    /\ \A p \in DOMAIN b.pools : PoolOK(b.pools[p])

BalancersOK(bucket) == /\ DOMAIN bucket \subseteq Drawn
                       /\ \A lb \in DOMAIN bucket : BalancerOK(bucket[lb])

TypeOK ==
    /\ minted \in Nat
    /\ BalancersOK(balancers)
    /\ namespace \in {"absent", "put", "restored"}
    /\ snapshot.namespace \in {"absent", "restored"}
    /\ BalancersOK(snapshot.balancers)
    /\ activating \subseteq Drawn
    /\ \A c \in Client : pending[c].lb \in Ref /\ pending[c].pool \in Ref
                           /\ pending[c].item \in Ref

\* What a balancer holds, as paths <<balancer, pool or None, item>>.
Nested(lb) ==
    {<<lb, None, l>> : l \in DOMAIN balancers[lb].listeners}
    \cup {<<lb, p, None>> : p \in DOMAIN balancers[lb].pools}
    \cup UNION {{<<lb, p, m>> : m \in DOMAIN balancers[lb].pools[p].members} :
                   p \in DOMAIN balancers[lb].pools}

Held == UNION {Nested(lb) : lb \in DOMAIN balancers}

\* Every handler rewrites whole lists, some of them found before an await, and
\* none loses what another handler did: a listener, pool or member that was
\* created stays until it, or what holds it, is deleted.
NothingLost ==
    [][\A x \in Held \ Held' :
          \/ Reset \/ Restart
          \/ DeleteLoadBalancer(x[1])
          \/ DeleteListener(x[1], x[3])
          \/ DeletePool(x[1], x[2])
          \/ DeleteMember(x[1], x[2], x[3])]_vars

\* And none brings back what another one deleted: a step of a handler adds one
\* resource at most, under an id that was not used before.  A process that starts
\* after a crash has what was saved, deleted since or not.
NothingReturns ==
    [][\A x \in Held' \ Held :
          Restart \/ (minted' > minted /\ minted' \in {x[2], x[3]})]_vars

\* What a PATCH of a path sets: of a balancer (None, None), of a listener (None, id), of a
\* pool (id, None) or of a member of it.
ValueIn(b, pool, item) ==
    IF pool = None
    THEN IF item = None THEN b.value ELSE b.listeners[item]
    ELSE IF item = None THEN b.pools[pool].value ELSE b.pools[pool].members[item]

ValueAt(x) == ValueIn(balancers[x[1]], x[2], x[3])

Stored == Held \cup {<<lb, None, None>> : lb \in DOMAIN balancers}

Patches == {"patch_load_balancer", "patch_listener", "patch_pool", "patch_member"}

Patched(x) ==
    \E c \in Client :
       /\ pending[c].op \in Patches /\ pending'[c] = NoRequest
       /\ x = <<pending[c].lb, pending[c].pool, pending[c].item>>

\* And none undoes what another one set: whatever lists and objects a handler writes back,
\* what changes in what stays is the resource that its PATCH names, and nothing else.
NoChangeUndone ==
    [][\A x \in Stored \cap Stored' :
          ValueAt(x)' # ValueAt(x) => Patched(x) \/ Restart]_vars

\* development-status.md: "transitions provisioning_status from create_pending to
\* active asynchronously (~2s)", here with the emulator restarted finitely often.
ActivationCompletes ==
    <>[][~Restart]_vars =>
        \A lb \in 1 .. MaxId :
            lb \in DOMAIN balancers ~>
               lb \notin DOMAIN balancers \/ balancers[lb].provisioning_status = "active"
=============================================================================
