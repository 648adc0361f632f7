---------------------------- MODULE ServerLifecycle ----------------------------
(***************************************************************************)
(* The process around the store: the lifespan handler and the control      *)
(* plane of src/server.py, with the handlers of resource_manager.py and    *)
(* the handlers of vpc.py that write VPCs and security groups.  The store  *)
(* is the one of StateStore, metadata included.                            *)
(*                                                                         *)
(* The lifespan handler awaits nothing before it serves nor after, and     *)
(* create_vpc awaits nothing after its body: each is one step.  What       *)
(* update_resource_group finds may be gone when the body has arrived.      *)
(***************************************************************************)
EXTENDS Integers, StateStore

CONSTANTS Client,        \* connections with a PATCH in flight
          Name,          \* what a client may call a resource group
          Persistence,   \* IBMCLOUD_LOCAL_PERSISTENCE: "memory" or "disk"
          MaxId          \* bound: how many uuids are drawn

ASSUME ServerAssumption ==
    /\ Persistence \in {"memory", "disk"}
    /\ MaxId \in Nat

VARIABLES
    up,        \* the server is serving
    store,     \* the module-level store of the process
    snapshot,  \* /tmp/ibmcloud-local-state.json
    pending,   \* the group each in-flight update_resource_group has found
    minted,    \* how many uuids were drawn
    saved      \* history: the data that the last save of a whole file was of

vars == <<up, store, snapshot, pending, minted, saved>>

Namespace == {"resource_groups", "vpcs", "security_groups"}

DefaultGroup == 0    \* DEFAULT_RESOURCE_GROUP_ID
None == -1           \* no reference, and no request

Id == Nat \ {0}

NoSnapshot == [exists |-> FALSE, torn |-> FALSE, data |-> EmptyBucket]

WholeSnapshot(data) == [exists |-> TRUE, torn |-> FALSE, data |-> data]

\* What a process leaves that is killed between opening the file, which empties
\* it, and writing it: JSON that json.loads raises on.
TornSnapshot == [exists |-> TRUE, torn |-> TRUE, data |-> EmptyBucket]

-----------------------------------------------------------------------------
EnsureDefaultGroup(s) ==
    IF DefaultGroup \in Ids(s, "resource_groups") THEN s
    ELSE Put(s, "resource_groups", DefaultGroup, "Default")

\* A process that starts with this file serves what it holds.  The file changes
\* when a process stops, so a running process was restored if this holds of it.
IsRestored(file) == Persistence = "disk" /\ file.exists

RestoredFrom(file, s) == IF IsRestored(file) THEN Restored(s, file.data) ELSE s

\* Mutant: the default group is made sure of after the restore.
StartedRestoreFirst(file) == EnsureDefaultGroup(RestoredFrom(file, EmptyStore))

\* The store a new process serves.
Started(file) == RestoredFrom(file, EnsureDefaultGroup(EmptyStore))

\* The server is started once before anything can be asked of it.
Init == /\ up = FALSE
        /\ store = EmptyStore
        /\ snapshot = NoSnapshot
        /\ pending = [c \in Client |-> None]
        /\ minted = 0
        /\ saved = Started(NoSnapshot).data

\* Mutant: a file that cannot be read is passed over.
StartAnyway == /\ ~up
               /\ up' = TRUE
               /\ store' = Started(snapshot)
               /\ UNCHANGED <<snapshot, pending, minted, saved>>

\* With a torn file lifespan raises before it yields, and the server never serves.
Start == /\ ~up
         /\ ~snapshot.torn
         /\ up' = TRUE
         /\ store' = Started(snapshot)
         /\ UNCHANGED <<snapshot, pending, minted, saved>>

Down == /\ up
        /\ up' = FALSE
        /\ store' = EmptyStore
        /\ pending' = [c \in Client |-> None]
        /\ UNCHANGED minted

\* The end of lifespan; only the data is saved.
Stop == /\ Down
        /\ IF Persistence = "disk"
           THEN /\ snapshot' = WholeSnapshot(store.data)
                /\ saved' = store.data
           ELSE UNCHANGED <<snapshot, saved>>

\* Killed while snapshot_to_disk writes the file in place.
CrashWhileSaving == /\ Persistence = "disk"
                    /\ Down
                    /\ snapshot' = TornSnapshot
                    /\ UNCHANGED saved

\* Killed: lifespan never ends.
Crash == Down /\ UNCHANGED <<snapshot, saved>>

\* Somebody empties /tmp.  With a process running this shows when it is killed
\* only, and is then the same as afterwards.
RemoveSnapshot == /\ ~up
                  /\ snapshot.exists
                  /\ snapshot' = NoSnapshot
                  /\ saved' = Started(NoSnapshot).data
                  /\ UNCHANGED <<up, store, pending, minted>>

\* POST /_emulator/reset and /_emulator/reset/{namespace}.
Reset == /\ up
         /\ \/ store' = EmptyStore
            \/ \E ns \in Namespace : store' = ResetNamespace(store, ns)
         /\ UNCHANGED <<up, snapshot, pending, minted, saved>>

-----------------------------------------------------------------------------
\* Mutant: one uuid is drawn, however many are asked for.
DrawOne(n) == /\ minted + n <= MaxId
              /\ minted' = minted + 1

Draw(n) == /\ minted + n <= MaxId
           /\ minted' = minted + n

CreateResourceGroup(name) ==
    /\ up
    /\ Draw(1)
    /\ store' = Put(store, "resource_groups", minted + 1, name)
    /\ UNCHANGED <<up, snapshot, pending, saved>>

BeginRename(c, g) ==
    /\ up
    /\ pending[c] = None
    /\ g \in Ids(store, "resource_groups")
    /\ pending' = [pending EXCEPT ![c] = g]
    /\ UNCHANGED <<up, store, snapshot, minted, saved>>

\* Mutant: the write after the await stores the group again.
FinishRenameByPut(c, name) ==
    /\ pending[c] # None
    /\ store' = Put(store, "resource_groups", pending[c], name)
    /\ pending' = [pending EXCEPT ![c] = None]
    /\ UNCHANGED <<up, snapshot, minted, saved>>

\* The group is not looked up again: if it is gone the answer is 200 and null.
FinishRename(c, name) ==
    /\ pending[c] # None
    /\ store' = Update(store, "resource_groups", pending[c], name)
    /\ pending' = [pending EXCEPT ![c] = None]
    /\ UNCHANGED <<up, snapshot, minted, saved>>

\* 409 for the default group, whatever its name is by then.
DeleteResourceGroup(g) ==
    /\ up
    /\ g # DefaultGroup
    /\ g \in Ids(store, "resource_groups")
    /\ store' = Delete(store, "resource_groups", g)
    /\ UNCHANGED <<up, snapshot, pending, minted, saved>>

-----------------------------------------------------------------------------
\* Mutant: the VPC is not told which security group is its default.
CreateVpcUnlinked ==
    /\ up
    /\ Draw(2)
    /\ store' = Put(Put(store, "vpcs", minted + 1, None),
                    "security_groups", minted + 2, minted + 1)
    /\ UNCHANGED <<up, snapshot, pending, saved>>

\* create_vpc: put the VPC, put its default security group, then refer the one
\* to the other.  A put that raises ends it with a 500 where it stands.
CreateVpc ==
    LET v == minted + 1
        g == minted + 2
        alone == Put(store, "vpcs", v, None)
        both == Put(alone, "security_groups", g, v)
    IN
    /\ up
    /\ \/ /\ PutRaises(store, "vpcs")
          /\ store' = alone
          /\ Draw(1)
       \/ /\ ~PutRaises(store, "vpcs") /\ PutRaises(alone, "security_groups")
          /\ store' = both
          /\ Draw(2)
       \/ /\ ~PutRaises(store, "vpcs") /\ ~PutRaises(alone, "security_groups")
          /\ store' = Update(both, "vpcs", v, g)
          /\ Draw(2)
    /\ UNCHANGED <<up, snapshot, pending, saved>>

\* Of a VPC without subnets.
DeleteVpc(v) ==
    /\ up
    /\ v \in Ids(store, "vpcs")
    /\ store' = Delete(store, "vpcs", v)
    /\ UNCHANGED <<up, snapshot, pending, minted, saved>>

CreateSecurityGroup(v) ==
    /\ up
    /\ v \in Ids(store, "vpcs")
    /\ Draw(1)
    /\ store' = Put(store, "security_groups", minted + 1, v)
    /\ UNCHANGED <<up, snapshot, pending, saved>>

\* Nothing asks whether it is the default of its VPC.
DeleteSecurityGroup(g) ==
    /\ up
    /\ g \in Ids(store, "security_groups")
    /\ store' = Delete(store, "security_groups", g)
    /\ UNCHANGED <<up, snapshot, pending, minted, saved>>

Next ==
    \/ Start \/ Stop \/ Crash \/ CrashWhileSaving \/ RemoveSnapshot
    \/ Reset \/ CreateVpc
    \/ \E n \in Name : CreateResourceGroup(n)
    \/ \E c \in Client, g \in Ids(store, "resource_groups") : BeginRename(c, g)
    \/ \E c \in Client, n \in Name : FinishRename(c, n)
    \/ \E g \in Ids(store, "resource_groups") : DeleteResourceGroup(g)
    \/ \E v \in Ids(store, "vpcs") : DeleteVpc(v) \/ CreateSecurityGroup(v)
    \/ \E g \in Ids(store, "security_groups") : DeleteSecurityGroup(g)

Spec == Init /\ [][Next]_vars

-----------------------------------------------------------------------------
Drawn == {i \in Id : i <= minted}

\* What the data of the store, or of the snapshot, looks like.
DataOK(data) ==
    /\ DOMAIN data \subseteq Namespace
    /\ "resource_groups" \in DOMAIN data =>
         /\ DOMAIN data["resource_groups"] \subseteq Drawn \cup {DefaultGroup}
         /\ \A g \in DOMAIN data["resource_groups"] :
               data["resource_groups"][g] \in Name \cup {"Default"}
    /\ "vpcs" \in DOMAIN data =>
         /\ DOMAIN data["vpcs"] \subseteq Drawn
         /\ \A v \in DOMAIN data["vpcs"] : data["vpcs"][v] \in Drawn \cup {None}
    /\ "security_groups" \in DOMAIN data =>
         /\ DOMAIN data["security_groups"] \subseteq Drawn
         /\ \A g \in DOMAIN data["security_groups"] : data["security_groups"][g] \in Drawn

TypeOK ==
    /\ up \in BOOLEAN
    /\ minted \in Nat
    /\ DataOK(store.data)
    /\ {snapshot.exists, snapshot.torn} \subseteq BOOLEAN
    /\ DataOK(snapshot.data)
    /\ DataOK(saved)
    /\ pending \in [Client -> Drawn \cup {DefaultGroup, None}]

\* In a process that was not restored every resource has its metadata and nothing
\* else has, whatever puts, deletes and resets came in which order: no put raises.
MetadataAgrees ==
    ~IsRestored(snapshot) =>
        /\ DOMAIN store.meta = DOMAIN store.data
        /\ \A ns \in DOMAIN store.data : store.meta[ns] = DOMAIN store.data[ns]

\* Creating a resource group never raises, after a restore either: the default
\* group is put before the data is replaced, which leaves its metadata behind.
GroupsWritable == ~PutRaises(store, "resource_groups")

\* Nothing comes back while the server runs: what appears in the store is new,
\* however late the write of a request that found it before it went.
NoResurrection ==
    [][up /\ up' =>
         \A ns \in Namespace :
            Ids(store', ns) \ Ids(store, ns) \subseteq {i \in Id : i > minted}]_vars

\* A process begins with exactly what the last one saved, or afresh when there is no
\* file: a save that was cut short is never served, nor is what was lost with it
\* passed over in silence.  Where the default group was reset away before the save,
\* that is a start without it, which DefaultGroupAtStartup is about.
RestartServesSaved == [][~up /\ up' => store'.data = saved]_vars

\* ensure_default_resource_group: "Called from the server lifespan so it's always
\* present at startup": a process that begins to serve has the default group.
DefaultGroupAtStartup ==
    [][~up /\ up' => DefaultGroup \in Ids(store', "resource_groups")]_vars

\* create_vpc: "We simulate the default security group creation": a VPC without
\* the reference to its default group is never served.
VpcHasDefaultGroup ==
    \A v \in Ids(store, "vpcs") : Get(store, "vpcs", v) # None

\* So it is in a process that was not restored: none of the puts of create_vpc
\* raises, and no delete or reset comes between the VPC and its reference.
FreshVpcHasDefaultGroup == ~IsRestored(snapshot) => VpcHasDefaultGroup
=============================================================================
