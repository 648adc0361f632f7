------------------------- MODULE ServerLifecycleProofs -------------------------
(***************************************************************************)
(* What holds of ServerLifecycle for every value of its constants.  The    *)
(* operations of StateStore are described first, by the ids they leave in  *)
(* a namespace and by the namespaces they leave in either dictionary.      *)
(***************************************************************************)
EXTENDS ServerLifecycle, TLAPS

IsStore(s) == s = [data |-> s.data, meta |-> s.meta]

LEMMA EmptyStoreFacts ==
    /\ IsStore(EmptyStore)
    /\ DOMAIN EmptyStore.data = {} /\ DOMAIN EmptyStore.meta = {}
    /\ \A ns : Ids(EmptyStore, ns) = {}
BY DEF IsStore, EmptyStore, EmptyBucket, Ids

LEMMA OpenedFacts ==
    ASSUME NEW s, IsStore(s), NEW ns
    PROVE  /\ IsStore(Opened(s, ns))
           /\ DOMAIN Opened(s, ns).data = DOMAIN s.data \cup {ns}
           /\ ns \notin DOMAIN s.data =>
                /\ DOMAIN Opened(s, ns).meta = DOMAIN s.meta \cup {ns}
                /\ Opened(s, ns).meta[ns] = {}
                /\ \A m \in DOMAIN s.meta \ {ns} : Opened(s, ns).meta[m] = s.meta[m]
           /\ ns \in DOMAIN s.data => Opened(s, ns) = s
           /\ \A m : Ids(Opened(s, ns), m) = Ids(s, m)
           /\ \A m \in DOMAIN s.data : Opened(s, ns).data[m] = s.data[m]
BY DEF IsStore, Opened, Ids, BucketPut, EmptyBucket

LEMMA WrittenFacts ==
    ASSUME NEW s, IsStore(s), NEW ns \in DOMAIN s.data, NEW id, NEW object
    PROVE  /\ IsStore(Written(s, ns, id, object))
           /\ DOMAIN Written(s, ns, id, object).data = DOMAIN s.data
           /\ Written(s, ns, id, object).meta = s.meta
           /\ Written(s, ns, id, object).data[ns] = BucketPut(s.data[ns], id, object)
           /\ \A m \in DOMAIN s.data \ {ns} :
                 Written(s, ns, id, object).data[m] = s.data[m]
<1> DEFINE d == [s.data EXCEPT ![ns] = BucketPut(s.data[ns], id, object)]
<1>1. Written(s, ns, id, object) = [data |-> d, meta |-> s.meta]
  BY DEF IsStore, Written
<1>2. /\ DOMAIN d = DOMAIN s.data
      /\ d[ns] = BucketPut(s.data[ns], id, object)
      /\ \A m \in DOMAIN s.data \ {ns} : d[m] = s.data[m]
  OBVIOUS
<1> QED
  BY <1>1, <1>2 DEF IsStore

LEMMA PutFacts ==
    ASSUME NEW s, IsStore(s), NEW ns, NEW id, NEW object
    PROVE  /\ IsStore(Put(s, ns, id, object))
           /\ DOMAIN Put(s, ns, id, object).data = DOMAIN s.data \cup {ns}
           /\ ns \in DOMAIN s.data =>
                DOMAIN Put(s, ns, id, object).meta = DOMAIN s.meta
           /\ ns \notin DOMAIN s.data =>
                DOMAIN Put(s, ns, id, object).meta = DOMAIN s.meta \cup {ns}
           /\ Ids(Put(s, ns, id, object), ns) = Ids(s, ns) \cup {id}
           /\ \A m : m # ns => Ids(Put(s, ns, id, object), m) = Ids(s, m)
           /\ Put(s, ns, id, object).data[ns][id] = object
           /\ \A x \in Ids(s, ns) \ {id} :
                 Put(s, ns, id, object).data[ns][x] = s.data[ns][x]
           /\ \A m \in DOMAIN s.data \ {ns} :
                 Put(s, ns, id, object).data[m] = s.data[m]
<1>1. PICK o : o = Opened(s, ns)
  OBVIOUS
<1>2. PICK w : w = Written(o, ns, id, object)
  OBVIOUS
<1>3. /\ IsStore(o) /\ ns \in DOMAIN o.data
      /\ DOMAIN o.data = DOMAIN s.data \cup {ns}
      /\ \A m : Ids(o, m) = Ids(s, m)
      /\ \A m \in DOMAIN s.data : o.data[m] = s.data[m]
      /\ DOMAIN o.meta =
           IF ns \in DOMAIN s.data THEN DOMAIN s.meta ELSE DOMAIN s.meta \cup {ns}
  <2>1. IsStore(o) /\ DOMAIN o.data = DOMAIN s.data \cup {ns}
    BY <1>1, OpenedFacts
  <2>2. (\A m : Ids(o, m) = Ids(s, m)) /\ (\A m \in DOMAIN s.data : o.data[m] = s.data[m])
    BY <1>1, OpenedFacts
  <2>3. CASE ns \in DOMAIN s.data
    BY <1>1, <2>1, <2>2, <2>3, OpenedFacts
  <2>4. CASE ns \notin DOMAIN s.data
    <3>1. DOMAIN o.meta = DOMAIN s.meta \cup {ns}
      BY <1>1, <2>4, OpenedFacts
    <3> QED
      BY <2>1, <2>2, <2>4, <3>1
  <2> QED
    BY <2>3, <2>4
<1>4. /\ IsStore(w) /\ DOMAIN w.data = DOMAIN o.data /\ w.meta = o.meta
      /\ w.data[ns] = BucketPut(o.data[ns], id, object)
      /\ \A m \in DOMAIN o.data \ {ns} : w.data[m] = o.data[m]
  BY <1>2, <1>3, WrittenFacts
<1>5. /\ IsStore(Put(s, ns, id, object))
      /\ Put(s, ns, id, object).data = w.data
      /\ DOMAIN Put(s, ns, id, object).meta = DOMAIN w.meta
  BY <1>1, <1>2, <1>4 DEF Put, IsStore
<1>6. /\ DOMAIN w.data[ns] = DOMAIN o.data[ns] \cup {id}
      /\ w.data[ns][id] = object
      /\ \A x \in DOMAIN o.data[ns] \ {id} : w.data[ns][x] = o.data[ns][x]
  BY <1>4 DEF BucketPut
<1>7. DOMAIN o.data[ns] = Ids(s, ns)
  BY <1>3 DEF Ids
<1>8. Ids(Put(s, ns, id, object), ns) = Ids(s, ns) \cup {id}
  BY <1>3, <1>4, <1>5, <1>6, <1>7 DEF Ids
<1>9. ASSUME NEW m, m # ns PROVE Ids(Put(s, ns, id, object), m) = Ids(s, m)
  BY <1>3, <1>4, <1>5, <1>9 DEF Ids
<1>10. \A x \in Ids(s, ns) \ {id} : Put(s, ns, id, object).data[ns][x] = s.data[ns][x]
  BY <1>3, <1>5, <1>6, <1>7 DEF Ids
<1> QED
  BY <1>3, <1>4, <1>5, <1>6, <1>8, <1>9, <1>10

LEMMA DeleteFacts ==
    ASSUME NEW s, IsStore(s), NEW ns, NEW id
    PROVE  /\ IsStore(Delete(s, ns, id))
           /\ DOMAIN Delete(s, ns, id).data = DOMAIN s.data
           /\ DOMAIN Delete(s, ns, id).meta = DOMAIN s.meta
           /\ \A m : Ids(Delete(s, ns, id), m) =
                       IF m = ns THEN Ids(s, m) \ {id} ELSE Ids(s, m)
           /\ \A m \in DOMAIN s.data : \A x :
                 x \in Ids(Delete(s, ns, id), m) =>
                   Delete(s, ns, id).data[m][x] = s.data[m][x]
<1>1. CASE id \notin Ids(s, ns)
  BY <1>1 DEF Delete, Ids
<1>2. CASE id \in Ids(s, ns)
  <2>1. ns \in DOMAIN s.data
    BY <1>2 DEF Ids
  <2>2. PICK d : d = [s.data EXCEPT ![ns] = BucketDelete(s.data[ns], id)]
    OBVIOUS
  <2>3. /\ DOMAIN d = DOMAIN s.data
        /\ d[ns] = BucketDelete(s.data[ns], id)
        /\ \A m \in DOMAIN s.data \ {ns} : d[m] = s.data[m]
    BY <2>1, <2>2
  <2>4. PICK e : e = IF ns \in DOMAIN s.meta
                     THEN [s.meta EXCEPT ![ns] = s.meta[ns] \ {id}] ELSE s.meta
    OBVIOUS
  <2>5. DOMAIN e = DOMAIN s.meta
    BY <2>4
  <2>6. Delete(s, ns, id) = [data |-> d, meta |-> e]
    BY <1>2, <2>2, <2>4 DEF Delete
  <2>7. /\ DOMAIN d[ns] = DOMAIN s.data[ns] \ {id}
        /\ \A x \in DOMAIN d[ns] : d[ns][x] = s.data[ns][x]
    BY <2>3 DEF BucketDelete
  <2> QED
    BY <2>1, <2>3, <2>5, <2>6, <2>7 DEF Ids, IsStore
<1> QED
  BY <1>1, <1>2

LEMMA UpdateFacts ==
    ASSUME NEW s, IsStore(s), NEW ns, NEW id, NEW object
    PROVE  /\ IsStore(Update(s, ns, id, object))
           /\ DOMAIN Update(s, ns, id, object).data = DOMAIN s.data
           /\ Update(s, ns, id, object).meta = s.meta
           /\ \A m : Ids(Update(s, ns, id, object), m) = Ids(s, m)
           /\ id \in Ids(s, ns) => Update(s, ns, id, object).data[ns][id] = object
           /\ \A x \in Ids(s, ns) \ {id} :
                 Update(s, ns, id, object).data[ns][x] = s.data[ns][x]
           /\ \A m \in DOMAIN s.data \ {ns} :
                 Update(s, ns, id, object).data[m] = s.data[m]
<1>1. CASE id \notin Ids(s, ns)
  BY <1>1 DEF Update
<1>2. CASE id \in Ids(s, ns)
  <2>1. ns \in DOMAIN s.data /\ id \in DOMAIN s.data[ns]
    BY <1>2 DEF Ids
  <2>2. PICK w : w = Written(s, ns, id, object)
    OBVIOUS
  <2>3. /\ IsStore(w) /\ DOMAIN w.data = DOMAIN s.data /\ w.meta = s.meta
        /\ w.data[ns] = BucketPut(s.data[ns], id, object)
        /\ \A m \in DOMAIN s.data \ {ns} : w.data[m] = s.data[m]
    BY <2>1, <2>2, WrittenFacts
  <2>4. /\ DOMAIN w.data[ns] = DOMAIN s.data[ns]
        /\ w.data[ns][id] = object
        /\ \A x \in DOMAIN s.data[ns] \ {id} : w.data[ns][x] = s.data[ns][x]
    BY <2>1, <2>3 DEF BucketPut
  <2>5. Update(s, ns, id, object) = w
    BY <1>2, <2>2 DEF Update
  <2> QED
    BY <2>1, <2>3, <2>4, <2>5 DEF Ids
<1> QED
  BY <1>1, <1>2

LEMMA ResetFacts ==
    ASSUME NEW s, IsStore(s), NEW ns
    PROVE  /\ IsStore(ResetNamespace(s, ns))
           /\ DOMAIN ResetNamespace(s, ns).data = DOMAIN s.data \ {ns}
           /\ DOMAIN ResetNamespace(s, ns).meta = DOMAIN s.meta \ {ns}
           /\ \A m : Ids(ResetNamespace(s, ns), m) \subseteq Ids(s, m)
           /\ \A m \in DOMAIN s.data \ {ns} :
                 ResetNamespace(s, ns).data[m] = s.data[m]
           /\ \A m \in DOMAIN s.meta \ {ns} :
                 ResetNamespace(s, ns).meta[m] = s.meta[m]
BY DEF ResetNamespace, BucketDelete, IsStore, Ids

LEMMA RaisesFacts ==
    ASSUME NEW s, IsStore(s), NEW ns
    PROVE  PutRaises(s, ns) <=> ns \in DOMAIN s.data /\ ns \notin DOMAIN s.meta
BY OpenedFacts DEF PutRaises

-----------------------------------------------------------------------------
\* The store of a new process before the snapshot is looked for.
LEMMA EnsuredFacts ==
    /\ EnsureDefaultGroup(EmptyStore) =
         Put(EmptyStore, "resource_groups", DefaultGroup, "Default")
    /\ IsStore(EnsureDefaultGroup(EmptyStore))
    /\ DOMAIN EnsureDefaultGroup(EmptyStore).data = {"resource_groups"}
    /\ DOMAIN EnsureDefaultGroup(EmptyStore).meta = {"resource_groups"}
<1>1. EnsureDefaultGroup(EmptyStore) =
         Put(EmptyStore, "resource_groups", DefaultGroup, "Default")
  BY EmptyStoreFacts DEF EnsureDefaultGroup
<1>2. PICK p : p = Put(EmptyStore, "resource_groups", DefaultGroup, "Default")
  OBVIOUS
<1>3. IsStore(p) /\ DOMAIN p.data = DOMAIN EmptyStore.data \cup {"resource_groups"}
  BY <1>2, EmptyStoreFacts, PutFacts
<1>4. DOMAIN p.meta = DOMAIN EmptyStore.meta \cup {"resource_groups"}
  BY <1>2, EmptyStoreFacts, PutFacts
<1> QED
  BY <1>1, <1>2, <1>3, <1>4, EmptyStoreFacts

LEMMA StartedFacts ==
    /\ IsStore(Started(snapshot))
    /\ DOMAIN Started(snapshot).meta = {"resource_groups"}
    /\ ~IsRestored(snapshot) => Started(snapshot) = EnsureDefaultGroup(EmptyStore)
<1>1. PICK e : e = EnsureDefaultGroup(EmptyStore)
  OBVIOUS
<1>2. /\ IsStore(e) /\ DOMAIN e.meta = {"resource_groups"}
  BY <1>1, EnsuredFacts
<1>3. Started(snapshot) = e \/ Started(snapshot) = [e EXCEPT !.data = snapshot.data]
  BY <1>1 DEF Started, RestoredFrom, Restored
<1>4. CASE Started(snapshot) = [e EXCEPT !.data = snapshot.data]
  <2>1. Started(snapshot) = [data |-> snapshot.data, meta |-> e.meta]
    BY <1>2, <1>4 DEF IsStore
  <2> QED
    BY <1>1, <1>2, <2>1 DEF IsStore, Started, RestoredFrom
<1>5. CASE Started(snapshot) = e
  BY <1>1, <1>2, <1>5
<1> QED
  BY <1>3, <1>4, <1>5

\* The store after a step, by the operation that made it.
StartStep == ~up /\ store' = Started(snapshot)
EmptyStep == store' = EmptyStore
ResetStep == \E ns \in Namespace : store' = ResetNamespace(store, ns)
DeleteStep == \E ns, id : store' = Delete(store, ns, id)
RenameStep == \E id, name : /\ name \in Name
                            /\ store' = Update(store, "resource_groups", id, name)
PutStep == /\ Draw(1)
           /\ \E ns, object : /\ \/ ns = "resource_groups" /\ object \in Name
                                 \/ ns = "security_groups" /\ object \in Ids(store, "vpcs")
                              /\ store' = Put(store, ns, minted + 1, object)

LEMMA StoreStep ==
    ASSUME [Next]_vars
    PROVE  \/ store' = store \/ StartStep \/ EmptyStep \/ ResetStep
           \/ DeleteStep \/ RenameStep \/ PutStep \/ CreateVpc
<1> USE DEF StartStep, EmptyStep, ResetStep, DeleteStep, RenameStep, PutStep
<1>1. CASE Start
  BY <1>1 DEF Start
<1>2. CASE Stop \/ Crash \/ CrashWhileSaving
  BY <1>2 DEF Stop, Crash, CrashWhileSaving, Down
<1>3. CASE Reset
  BY <1>3 DEF Reset
<1>4. ASSUME NEW n \in Name, CreateResourceGroup(n) PROVE PutStep
  BY <1>4 DEF CreateResourceGroup
<1>5. ASSUME NEW c, NEW g, BeginRename(c, g) PROVE store' = store
  BY <1>5 DEF BeginRename
<1>6. ASSUME NEW c, NEW n \in Name, FinishRename(c, n) PROVE RenameStep
  BY <1>6 DEF FinishRename
<1>7. ASSUME NEW g, DeleteResourceGroup(g) PROVE DeleteStep
  BY <1>7 DEF DeleteResourceGroup
<1>8. ASSUME NEW v, DeleteVpc(v) PROVE DeleteStep
  BY <1>8 DEF DeleteVpc
<1>9. ASSUME NEW v, CreateSecurityGroup(v) PROVE PutStep
  BY <1>9 DEF CreateSecurityGroup
<1>10. ASSUME NEW g, DeleteSecurityGroup(g) PROVE DeleteStep
  BY <1>10 DEF DeleteSecurityGroup
<1>11. CASE RemoveSnapshot
  BY <1>11 DEF RemoveSnapshot
<1>12. CASE UNCHANGED vars
  BY <1>12 DEF vars
<1> HIDE DEF StartStep, EmptyStep, ResetStep, DeleteStep, RenameStep, PutStep
<1> QED
  BY <1>1, <1>2, <1>3, <1>4, <1>5, <1>6, <1>7, <1>8, <1>9, <1>10, <1>11, <1>12 DEF Next

\* The stores create_vpc goes through.
LEMMA CreateVpcSteps ==
    ASSUME CreateVpc
    PROVE  \E alone, both :
              /\ alone = Put(store, "vpcs", minted + 1, None)
              /\ both = Put(alone, "security_groups", minted + 2, minted + 1)
              /\ \/ PutRaises(store, "vpcs") /\ store' = alone
                 \/ /\ ~PutRaises(store, "vpcs") /\ PutRaises(alone, "security_groups")
                    /\ store' = both
                 \/ /\ ~PutRaises(store, "vpcs") /\ ~PutRaises(alone, "security_groups")
                    /\ store' = Update(both, "vpcs", minted + 1, minted + 2)
BY DEF CreateVpc

-----------------------------------------------------------------------------
\* A new process opens the metadata of the resource groups before it replaces the
\* data, and from then on the two namespaces come and go together.
GroupsOpen(s) == "resource_groups" \in DOMAIN s.data => "resource_groups" \in DOMAIN s.meta

WritableInv == IsStore(store) /\ GroupsOpen(store)

LEMMA WritableStep == WritableInv /\ [Next]_vars => WritableInv'
<1> SUFFICES ASSUME WritableInv, [Next]_vars PROVE IsStore(store') /\ GroupsOpen(store')
  BY DEF WritableInv
<1>0. IsStore(store) /\ GroupsOpen(store)
  BY DEF WritableInv
<1>1. CASE StartStep
  BY <1>1, StartedFacts DEF StartStep, GroupsOpen
<1>2. CASE EmptyStep
  BY <1>2, EmptyStoreFacts DEF EmptyStep, GroupsOpen
<1>3. CASE ResetStep
  <2>1. PICK ns \in Namespace : store' = ResetNamespace(store, ns)
    BY <1>3 DEF ResetStep
  <2> QED
    BY <1>0, <2>1, ResetFacts DEF GroupsOpen
<1>4. CASE DeleteStep
  <2>1. PICK ns, id : store' = Delete(store, ns, id)
    BY <1>4 DEF DeleteStep
  <2> QED
    BY <1>0, <2>1, DeleteFacts DEF GroupsOpen
<1>5. CASE RenameStep
  <2>1. PICK id, name : store' = Update(store, "resource_groups", id, name)
    BY <1>5 DEF RenameStep
  <2> QED
    BY <1>0, <2>1, UpdateFacts DEF GroupsOpen
<1>6. ASSUME NEW s, IsStore(s), GroupsOpen(s), NEW ns, NEW id, NEW object
      PROVE  IsStore(Put(s, ns, id, object)) /\ GroupsOpen(Put(s, ns, id, object))
  <2>1. PICK p : p = Put(s, ns, id, object)
    OBVIOUS
  <2>2. IsStore(p) /\ DOMAIN p.data = DOMAIN s.data \cup {ns}
    BY <1>6, <2>1, PutFacts
  <2>3. (DOMAIN p.meta = DOMAIN s.meta /\ ns \in DOMAIN s.data)
        \/ DOMAIN p.meta = DOMAIN s.meta \cup {ns}
    BY <1>6, <2>1, PutFacts
  <2> QED
    BY <1>6, <2>1, <2>2, <2>3 DEF GroupsOpen
<1>7. CASE PutStep
  BY <1>0, <1>6, <1>7 DEF PutStep
<1>8. CASE CreateVpc
  <2>1. PICK alone, both :
              /\ alone = Put(store, "vpcs", minted + 1, None)
              /\ both = Put(alone, "security_groups", minted + 2, minted + 1)
              /\ \/ store' = alone
                 \/ store' = both
                 \/ store' = Update(both, "vpcs", minted + 1, minted + 2)
    BY <1>8, CreateVpcSteps
  <2>2. IsStore(alone) /\ GroupsOpen(alone)
    BY <1>0, <1>6, <2>1
  <2>3. IsStore(both) /\ GroupsOpen(both)
    BY <1>6, <2>1, <2>2
  <2>4. PICK u : u = Update(both, "vpcs", minted + 1, minted + 2)
    OBVIOUS
  <2>5. IsStore(u) /\ GroupsOpen(u)
    BY <2>3, <2>4, UpdateFacts DEF GroupsOpen
  <2> QED
    BY <2>1, <2>2, <2>3, <2>4, <2>5
<1> QED
  BY <1>0, <1>1, <1>2, <1>3, <1>4, <1>5, <1>7, <1>8, StoreStep

LEMMA WritableCorrect == Spec => []WritableInv
<1>1. Init => WritableInv
  BY EmptyStoreFacts DEF Init, WritableInv, GroupsOpen
<1> QED
  BY <1>1, WritableStep, PTL DEF Spec

\* Creating a resource group never raises, in either mode.
THEOREM GroupsWritableCorrect == Spec => []GroupsWritable
<1>1. WritableInv => GroupsWritable
  BY RaisesFacts DEF WritableInv, GroupsOpen, GroupsWritable
<1> QED
  BY <1>1, WritableCorrect, PTL

-----------------------------------------------------------------------------
MintedOK == minted \in Nat

LEMMA MintedCorrect == Spec => []MintedOK
<1>1. Init => MintedOK
  BY DEF Init, MintedOK
<1>2. MintedOK /\ [Next]_vars => MintedOK'
  BY DEF MintedOK, Next, vars, Draw, Start, Stop, Crash, CrashWhileSaving, Down,
         RemoveSnapshot, Reset, CreateVpc,
         CreateResourceGroup, BeginRename, FinishRename, DeleteResourceGroup, DeleteVpc,
         CreateSecurityGroup, DeleteSecurityGroup
<1> QED
  BY <1>1, <1>2, PTL DEF Spec

\* What appears in a namespace of the running server has a new id: only a put adds
\* one, and every put outside the start of a process draws its id.
THEOREM NoResurrectionCorrect == Spec => NoResurrection
<1> DEFINE New == {i \in Id : i > minted}
<1>1. ASSUME IsStore(store), minted \in Nat, [Next]_vars, up, up', NEW ns \in Namespace
      PROVE  Ids(store', ns) \ Ids(store, ns) \subseteq New
  <2>0. minted + 1 \in New /\ minted + 2 \in New
    BY <1>1 DEF Id
  <2> HIDE DEF New
  <2>1. CASE store' = store
    BY <2>1
  <2>2. CASE StartStep
    BY <1>1, <2>2 DEF StartStep
  <2>3. CASE EmptyStep
    BY <2>3, EmptyStoreFacts DEF EmptyStep
  <2>4. CASE ResetStep
    BY <1>1, <2>4, ResetFacts DEF ResetStep
  <2>5. CASE DeleteStep
    <3>1. PICK m, id : store' = Delete(store, m, id)
      BY <2>5 DEF DeleteStep
    <3>2. Ids(store', ns) = IF ns = m THEN Ids(store, ns) \ {id} ELSE Ids(store, ns)
      BY <1>1, <3>1, DeleteFacts
    <3> QED
      BY <3>2
  <2>6. CASE RenameStep
    BY <1>1, <2>6, UpdateFacts DEF RenameStep
  <2>7. ASSUME NEW s, IsStore(s), NEW m, NEW id, NEW object
        PROVE  /\ IsStore(Put(s, m, id, object))
               /\ Ids(Put(s, m, id, object), ns) \subseteq Ids(s, ns) \cup {id}
    <3>1. CASE m = ns
      BY <2>7, <3>1, PutFacts
    <3>2. CASE m # ns
      BY <2>7, <3>2, PutFacts
    <3> QED
      BY <3>1, <3>2
  <2>8. CASE PutStep
    <3>1. PICK m, object : store' = Put(store, m, minted + 1, object)
      BY <2>8 DEF PutStep
    <3>2. Ids(store', ns) \subseteq Ids(store, ns) \cup {minted + 1}
      BY <1>1, <2>7, <3>1
    <3> QED
      BY <2>0, <3>2
  <2>9. CASE CreateVpc
    <3>1. PICK alone, both :
                /\ alone = Put(store, "vpcs", minted + 1, None)
                /\ both = Put(alone, "security_groups", minted + 2, minted + 1)
                /\ \/ store' = alone
                   \/ store' = both
                   \/ store' = Update(both, "vpcs", minted + 1, minted + 2)
      BY <2>9, CreateVpcSteps
    <3>2. IsStore(alone) /\ Ids(alone, ns) \subseteq Ids(store, ns) \cup {minted + 1}
      BY <1>1, <2>7, <3>1
    <3>3. IsStore(both) /\ Ids(both, ns) \subseteq Ids(alone, ns) \cup {minted + 2}
      BY <2>7, <3>1, <3>2
    <3>4. Ids(Update(both, "vpcs", minted + 1, minted + 2), ns) = Ids(both, ns)
      BY <3>3, UpdateFacts
    <3> QED
      BY <2>0, <3>1, <3>2, <3>3, <3>4
  <2> QED
    BY <1>1, <2>1, <2>2, <2>3, <2>4, <2>5, <2>6, <2>8, <2>9, StoreStep
<1>2. WritableInv /\ MintedOK /\ [Next]_vars =>
        [up /\ up' => \A ns \in Namespace :
            Ids(store', ns) \ Ids(store, ns) \subseteq {i \in Id : i > minted}]_vars
  BY <1>1 DEF WritableInv, MintedOK
<1> QED
  BY <1>2, WritableCorrect, MintedCorrect, PTL DEF Spec, NoResurrection

-----------------------------------------------------------------------------
\* In a process that was not restored the two dictionaries never part.
Agrees(s) == /\ DOMAIN s.meta = DOMAIN s.data
             /\ \A ns \in DOMAIN s.data : s.meta[ns] = DOMAIN s.data[ns]

LEMMA AgreesPut ==
    ASSUME NEW s, IsStore(s), Agrees(s), NEW ns, NEW id, NEW object
    PROVE  IsStore(Put(s, ns, id, object)) /\ Agrees(Put(s, ns, id, object))
<1>1. PICK o : o = Opened(s, ns)
  OBVIOUS
<1>2. IsStore(o) /\ Agrees(o) /\ ns \in DOMAIN o.data
  <2>1. CASE ns \in DOMAIN s.data
    BY <1>1, <2>1 DEF Opened
  <2>2. CASE ns \notin DOMAIN s.data
    BY <1>1, <2>2 DEF Opened, Agrees, IsStore, BucketPut, EmptyBucket
  <2> QED
    BY <2>1, <2>2
<1>3. PICK w : w = Written(o, ns, id, object)
  OBVIOUS
<1>4. /\ IsStore(w) /\ DOMAIN w.data = DOMAIN o.data /\ w.meta = o.meta
      /\ w.data[ns] = BucketPut(o.data[ns], id, object)
      /\ \A m \in DOMAIN o.data \ {ns} : w.data[m] = o.data[m]
  BY <1>2, <1>3, WrittenFacts
<1>5. DOMAIN w.data[ns] = DOMAIN o.data[ns] \cup {id}
  BY <1>4 DEF BucketPut
<1>6. PICK e : e = [w.meta EXCEPT ![ns] = w.meta[ns] \cup {id}]
  OBVIOUS
<1>7. ~PutRaises(s, ns)
  BY RaisesFacts DEF Agrees
<1>8. Put(s, ns, id, object) = [data |-> w.data, meta |-> e]
  BY <1>1, <1>3, <1>4, <1>6, <1>7 DEF Put, IsStore
<1>9. /\ DOMAIN e = DOMAIN w.data
      /\ e[ns] = DOMAIN w.data[ns]
      /\ \A m \in DOMAIN w.data \ {ns} : e[m] = DOMAIN w.data[m]
  BY <1>2, <1>4, <1>5, <1>6 DEF Agrees
<1> QED
  BY <1>8, <1>9 DEF IsStore, Agrees

LEMMA AgreesDelete ==
    ASSUME NEW s, IsStore(s), Agrees(s), NEW ns, NEW id
    PROVE  Agrees(Delete(s, ns, id))
<1>1. CASE id \notin Ids(s, ns)
  BY <1>1 DEF Delete
<1>2. CASE id \in Ids(s, ns)
  <2>1. ns \in DOMAIN s.data /\ ns \in DOMAIN s.meta
    BY <1>2 DEF Ids, Agrees
  <2>2. PICK d, e : /\ d = [s.data EXCEPT ![ns] = BucketDelete(s.data[ns], id)]
                    /\ e = [s.meta EXCEPT ![ns] = s.meta[ns] \ {id}]
    OBVIOUS
  <2>3. Delete(s, ns, id) = [data |-> d, meta |-> e]
    BY <1>2, <2>1, <2>2 DEF Delete
  <2>4. DOMAIN d[ns] = DOMAIN s.data[ns] \ {id}
    BY <2>1, <2>2 DEF BucketDelete
  <2>5. /\ DOMAIN e = DOMAIN d
        /\ \A m \in DOMAIN d : e[m] = DOMAIN d[m]
    BY <2>1, <2>2, <2>4 DEF Agrees
  <2> QED
    BY <2>3, <2>5 DEF Agrees
<1> QED
  BY <1>1, <1>2

LEMMA AgreesUpdate ==
    ASSUME NEW s, IsStore(s), Agrees(s), NEW ns, NEW id, NEW object
    PROVE  Agrees(Update(s, ns, id, object))
<1>1. PICK u : u = Update(s, ns, id, object)
  OBVIOUS
<1>2. DOMAIN u.data = DOMAIN s.data /\ u.meta = s.meta /\ \A m : Ids(u, m) = Ids(s, m)
  BY <1>1, UpdateFacts
<1> QED
  BY <1>1, <1>2 DEF Agrees, Ids

LEMMA AgreesReset ==
    ASSUME NEW s, IsStore(s), Agrees(s), NEW ns
    PROVE  Agrees(ResetNamespace(s, ns))
BY DEF Agrees, ResetNamespace, BucketDelete

\* And the VPCs have the default group that create_vpc gives them: none of its
\* puts raises.
Linked(s) == \A v \in Ids(s, "vpcs") : s.data["vpcs"][v] # None

FreshInv == ~IsRestored(snapshot) => Agrees(store) /\ Linked(store)

LEMMA FreshStart ==
    ASSUME ~IsRestored(snapshot)
    PROVE  /\ IsStore(Started(snapshot))
           /\ Agrees(Started(snapshot))
           /\ Linked(Started(snapshot))
<1>1. Started(snapshot) = Put(EmptyStore, "resource_groups", DefaultGroup, "Default")
  BY StartedFacts, EnsuredFacts
<1>2. IsStore(EmptyStore) /\ Agrees(EmptyStore) /\ Ids(EmptyStore, "vpcs") = {}
  BY EmptyStoreFacts DEF Agrees
<1>3. Ids(Started(snapshot), "vpcs") = {}
  BY <1>1, <1>2, PutFacts
<1> QED
  BY <1>1, <1>2, <1>3, AgreesPut DEF Linked

\* The snapshot changes with the end of a process, or without a process.
LEMMA SnapshotStep ==
    [Next]_vars => EmptyStep \/ UNCHANGED snapshot \/ (~up /\ UNCHANGED store)
BY DEF EmptyStep, Next, vars, Start, Stop, Crash, CrashWhileSaving, Down, RemoveSnapshot,
       Reset, CreateVpc, CreateResourceGroup, BeginRename, FinishRename,
       DeleteResourceGroup, DeleteVpc, CreateSecurityGroup, DeleteSecurityGroup

\* Without a process there is no store, and no request to write to one.
DownInv == ~up => store = EmptyStore /\ \A c \in Client : pending[c] = None

LEMMA DownStep == DownInv /\ [Next]_vars => DownInv'
<1> SUFFICES ASSUME DownInv, [Next]_vars PROVE DownInv'
  OBVIOUS
<1> USE DEF DownInv
<1>1. CASE Start
  BY <1>1 DEF Start
<1>2. CASE Stop \/ Crash \/ CrashWhileSaving
  BY <1>2 DEF Stop, Crash, CrashWhileSaving, Down
<1>3. CASE RemoveSnapshot
  BY <1>3 DEF RemoveSnapshot
<1>4. CASE UNCHANGED vars
  BY <1>4 DEF vars
<1>5. ASSUME NEW c \in Client, NEW n, FinishRename(c, n) PROVE DownInv'
  BY <1>5 DEF FinishRename
<1>6. CASE up /\ UNCHANGED up
  BY <1>6
<1> QED
  BY <1>1, <1>2, <1>3, <1>4, <1>5, <1>6
     DEF Next, Reset, CreateVpc, CreateResourceGroup, BeginRename, DeleteResourceGroup,
         DeleteVpc, CreateSecurityGroup, DeleteSecurityGroup

LEMMA DownCorrect == Spec => []DownInv
<1>1. Init => DownInv
  BY DEF Init, DownInv
<1> QED
  BY <1>1, DownStep, PTL DEF Spec

LEMMA FreshStep ==
    WritableInv /\ FreshInv /\ MintedOK /\ DownInv /\ [Next]_vars => FreshInv'
<1> SUFFICES ASSUME WritableInv, FreshInv, MintedOK, DownInv, [Next]_vars,
                    UNCHANGED snapshot, ~IsRestored(snapshot)
             PROVE  Agrees(store') /\ Linked(store')
  BY SnapshotStep, EmptyStoreFacts DEF FreshInv, DownInv, EmptyStep, Agrees, Linked
<1>0. IsStore(store) /\ Agrees(store) /\ Linked(store)
  BY DEF WritableInv, FreshInv
<1>1. CASE StartStep
  BY <1>1, FreshStart DEF StartStep
<1>2. CASE EmptyStep
  BY <1>2, EmptyStoreFacts DEF EmptyStep, Agrees, Linked
<1>3. CASE ResetStep
  <2>1. PICK ns \in Namespace : store' = ResetNamespace(store, ns)
    BY <1>3 DEF ResetStep
  <2>2. IsStore(store') /\ Agrees(store')
    BY <1>0, <2>1, ResetFacts, AgreesReset
  <2>3. Linked(store')
    BY <1>0, <2>1 DEF ResetNamespace, BucketDelete, Linked, Ids
  <2> QED
    BY <2>2, <2>3
<1>4. CASE DeleteStep
  <2>1. PICK ns, id : store' = Delete(store, ns, id)
    BY <1>4 DEF DeleteStep
  <2>2. IsStore(store') /\ Agrees(store')
    BY <1>0, <2>1, DeleteFacts, AgreesDelete
  <2>3. ASSUME NEW v \in Ids(store', "vpcs") PROVE store'.data["vpcs"][v] # None
    <3>1. v \in Ids(store, "vpcs")
      BY <1>0, <2>1, <2>3, DeleteFacts
    <3>2. "vpcs" \in DOMAIN store.data
      BY <3>1 DEF Ids
    <3>3. store'.data["vpcs"][v] = store.data["vpcs"][v]
      BY <1>0, <2>1, <2>3, <3>2, DeleteFacts
    <3> QED
      BY <1>0, <3>1, <3>3 DEF Linked
  <2> QED
    BY <2>2, <2>3 DEF Linked
<1>5. CASE RenameStep
  <2>1. PICK id, name : store' = Update(store, "resource_groups", id, name)
    BY <1>5 DEF RenameStep
  <2>2. IsStore(store') /\ Agrees(store')
    BY <1>0, <2>1, UpdateFacts, AgreesUpdate
  <2>3. Ids(store', "vpcs") = Ids(store, "vpcs")
    BY <1>0, <2>1, UpdateFacts
  <2>4. "vpcs" \in DOMAIN store.data => store'.data["vpcs"] = store.data["vpcs"]
    BY <1>0, <2>1, UpdateFacts
  <2>5. Linked(store')
    BY <1>0, <2>3, <2>4 DEF Linked, Ids
  <2> QED
    BY <2>2, <2>5
<1>6. ASSUME NEW s, IsStore(s), NEW ns, ns # "vpcs", NEW id, NEW object
      PROVE  /\ Ids(Put(s, ns, id, object), "vpcs") = Ids(s, "vpcs")
             /\ "vpcs" \in DOMAIN s.data =>
                  Put(s, ns, id, object).data["vpcs"] = s.data["vpcs"]
  BY <1>6, PutFacts
<1>7. CASE PutStep
  <2>1. PICK ns, object : /\ ns \in {"resource_groups", "security_groups"}
                          /\ store' = Put(store, ns, minted + 1, object)
    BY <1>7 DEF PutStep
  <2>2. IsStore(store') /\ Agrees(store')
    BY <1>0, <2>1, AgreesPut
  <2>3. /\ Ids(store', "vpcs") = Ids(store, "vpcs")
        /\ "vpcs" \in DOMAIN store.data => store'.data["vpcs"] = store.data["vpcs"]
    BY <1>0, <1>6, <2>1
  <2>4. Linked(store')
    BY <1>0, <2>3 DEF Linked, Ids
  <2> QED
    BY <2>2, <2>4
<1>8. CASE CreateVpc
  <2>1. PICK alone, both :
              /\ alone = Put(store, "vpcs", minted + 1, None)
              /\ both = Put(alone, "security_groups", minted + 2, minted + 1)
              /\ \/ PutRaises(store, "vpcs")
                 \/ PutRaises(alone, "security_groups")
                 \/ store' = Update(both, "vpcs", minted + 1, minted + 2)
    BY <1>8, CreateVpcSteps
  <2>2. IsStore(alone) /\ Agrees(alone)
    BY <1>0, <2>1, AgreesPut
  <2>3. IsStore(both) /\ Agrees(both)
    BY <2>1, <2>2, AgreesPut
  <2>4. store' = Update(both, "vpcs", minted + 1, minted + 2)
    BY <1>0, <2>1, <2>2, RaisesFacts DEF Agrees
  <2>5. IsStore(store') /\ Agrees(store')
    BY <2>3, <2>4, UpdateFacts, AgreesUpdate
  <2>6. /\ Ids(alone, "vpcs") = Ids(store, "vpcs") \cup {minted + 1}
        /\ \A v \in Ids(store, "vpcs") \ {minted + 1} :
              alone.data["vpcs"][v] = store.data["vpcs"][v]
        /\ "vpcs" \in DOMAIN alone.data
    BY <1>0, <2>1, PutFacts
  <2>7. Ids(both, "vpcs") = Ids(alone, "vpcs") /\ both.data["vpcs"] = alone.data["vpcs"]
    BY <1>6, <2>1, <2>2, <2>6
  <2>8. /\ Ids(store', "vpcs") = Ids(both, "vpcs")
        /\ minted + 1 \in Ids(both, "vpcs") =>
              store'.data["vpcs"][minted + 1] = minted + 2
        /\ \A v \in Ids(both, "vpcs") \ {minted + 1} :
              store'.data["vpcs"][v] = both.data["vpcs"][v]
    BY <2>3, <2>4, UpdateFacts
  <2>9. minted + 2 # None
    BY DEF None, MintedOK
  <2> QED
    BY <1>0, <2>5, <2>6, <2>7, <2>8, <2>9 DEF Linked
<1> QED
  BY <1>0, <1>1, <1>2, <1>3, <1>4, <1>5, <1>7, <1>8, StoreStep

LEMMA FreshCorrect == Spec => []FreshInv
<1>1. Init => FreshInv
  BY EmptyStoreFacts DEF Init, FreshInv, Agrees, Linked
<1> QED
  BY <1>1, FreshStep, WritableCorrect, MintedCorrect, DownCorrect, PTL DEF Spec

\* In a process that was not restored metadata and data agree, and so no put raises.
THEOREM MetadataAgreesCorrect == Spec => []MetadataAgrees
<1>1. FreshInv => MetadataAgrees
  BY DEF FreshInv, Agrees, MetadataAgrees
<1> QED
  BY <1>1, FreshCorrect, PTL

\* In a process that was not restored every VPC names its default security group.
THEOREM FreshVpcHasDefaultGroupCorrect == Spec => []FreshVpcHasDefaultGroup
<1>1. FreshInv => FreshVpcHasDefaultGroup
  BY DEF FreshInv, Linked, FreshVpcHasDefaultGroup, VpcHasDefaultGroup, Get
<1> QED
  BY <1>1, FreshCorrect, PTL

-----------------------------------------------------------------------------
\* What a whole file makes a process begin with is what was saved: by the last
\* process that ended of itself, with nothing lost after it but whole processes.
SavedInv == ~snapshot.torn => saved = Started(snapshot).data

LEMMA StartedWhole ==
    ASSUME Persistence = "disk", NEW data
    PROVE  Started(WholeSnapshot(data)).data = data
<1>1. PICK e : e = EnsureDefaultGroup(EmptyStore)
  OBVIOUS
<1>2. IsStore(e)
  BY <1>1, EnsuredFacts
<1> QED
  BY <1>1, <1>2 DEF Started, RestoredFrom, IsRestored, Restored, WholeSnapshot, IsStore

LEMMA SavedStep == SavedInv /\ [Next]_vars => SavedInv'
<1> SUFFICES ASSUME SavedInv, [Next]_vars PROVE SavedInv'
  OBVIOUS
<1>1. CASE Stop /\ Persistence = "disk"
  <2>1. PICK data : data = store.data
    OBVIOUS
  <2>2. snapshot' = WholeSnapshot(data) /\ saved' = data
    BY <1>1, <2>1 DEF Stop
  <2> QED
    BY <1>1, <2>2, StartedWhole DEF SavedInv
<1>2. CASE Stop /\ Persistence # "disk"
  BY <1>2 DEF Stop, SavedInv
<1>3. CASE CrashWhileSaving
  BY <1>3 DEF CrashWhileSaving, TornSnapshot, SavedInv
<1>4. CASE RemoveSnapshot
  BY <1>4 DEF RemoveSnapshot, SavedInv
<1>5. CASE UNCHANGED <<snapshot, saved>>
  BY <1>5 DEF SavedInv
<1> QED
  BY <1>1, <1>2, <1>3, <1>4, <1>5
     DEF Next, vars, Start, Crash, Reset, CreateVpc, CreateResourceGroup, BeginRename,
         FinishRename, DeleteResourceGroup, DeleteVpc, CreateSecurityGroup,
         DeleteSecurityGroup

\* A process never begins with a part of what was saved, nor with anything older
\* or newer than that.
THEOREM RestartServesSavedCorrect == Spec => RestartServesSaved
<1>1. Init => SavedInv
  BY DEF Init, SavedInv
<1>2. ASSUME SavedInv, [Next]_vars, ~up, up' PROVE store'.data = saved
  <2>1. Start
    BY <1>2 DEF Next, vars, Stop, Crash, CrashWhileSaving, Down, RemoveSnapshot, Reset,
                CreateVpc, CreateResourceGroup, BeginRename, FinishRename,
                DeleteResourceGroup, DeleteVpc, CreateSecurityGroup, DeleteSecurityGroup
  <2> QED
    BY <1>2, <2>1 DEF Start, SavedInv
<1>3. SavedInv /\ [Next]_vars => [~up /\ up' => store'.data = saved]_vars
  BY <1>2
<1> QED
  BY <1>1, <1>3, SavedStep, PTL DEF Spec, RestartServesSaved

-----------------------------------------------------------------------------
\* Types, by the entries of a namespace over a set of ids.
EntryIn(drawn, ns, id, object) ==
    \/ /\ ns = "resource_groups"
       /\ id \in drawn \cup {DefaultGroup} /\ object \in Name \cup {"Default"}
    \/ ns = "vpcs" /\ id \in drawn /\ object \in drawn \cup {None}
    \/ ns = "security_groups" /\ id \in drawn /\ object \in drawn

DataIn(drawn, data) ==
    /\ DOMAIN data \subseteq Namespace
    /\ \A ns \in DOMAIN data : \A id \in DOMAIN data[ns] :
          EntryIn(drawn, ns, id, data[ns][id])

LEMMA DataOKIs == ASSUME NEW data, DataIn(Drawn, data) PROVE DataOK(data)
BY DEF DataIn, EntryIn, DataOK, Namespace

LEMMA DataGrows ==
    ASSUME NEW drawn, NEW more, drawn \subseteq more, NEW data, DataIn(drawn, data)
    PROVE  DataIn(more, data)
BY DEF DataIn, EntryIn

StoreIn(drawn, s) == IsStore(s) /\ DataIn(drawn, s.data)

LEMMA StoreInIds ==
    ASSUME NEW drawn, NEW s, StoreIn(drawn, s), NEW ns
    PROVE  \A id \in Ids(s, ns) : ns \in DOMAIN s.data /\ EntryIn(drawn, ns, id, s.data[ns][id])
BY DEF StoreIn, DataIn, Ids

LEMMA StoreInFromIds ==
    ASSUME NEW drawn, NEW s, IsStore(s), DOMAIN s.data \subseteq Namespace,
           \A ns \in DOMAIN s.data : \A id \in Ids(s, ns) :
              EntryIn(drawn, ns, id, s.data[ns][id])
    PROVE  StoreIn(drawn, s)
BY DEF StoreIn, DataIn, Ids

LEMMA PutIn ==
    ASSUME NEW drawn, NEW s, StoreIn(drawn, s), NEW ns \in Namespace, NEW id, NEW object,
           EntryIn(drawn, ns, id, object)
    PROVE  StoreIn(drawn, Put(s, ns, id, object))
<1>1. PICK p : p = Put(s, ns, id, object)
  OBVIOUS
<1>2. IsStore(s) /\ DOMAIN s.data \subseteq Namespace
  BY DEF StoreIn, DataIn
<1>3. IsStore(p) /\ DOMAIN p.data = DOMAIN s.data \cup {ns}
  BY <1>1, <1>2, PutFacts
<1>4. ASSUME NEW m \in DOMAIN p.data, NEW x \in Ids(p, m)
      PROVE  EntryIn(drawn, m, x, p.data[m][x])
  <2>1. CASE m # ns
    <3>1. m \in DOMAIN s.data /\ Ids(p, m) = Ids(s, m)
      BY <1>1, <1>2, <1>3, <2>1, PutFacts
    <3>2. p.data[m] = s.data[m]
      BY <1>1, <1>2, <2>1, <3>1, PutFacts
    <3> QED
      BY <3>1, <3>2, StoreInIds
  <2>2. CASE m = ns /\ x = id
    <3>1. p.data[ns][id] = object
      BY <1>1, <1>2, PutFacts
    <3> QED
      BY <2>2, <3>1
  <2>3. CASE m = ns /\ x # id
    <3>1. Ids(p, ns) = Ids(s, ns) \cup {id}
      BY <1>1, <1>2, PutFacts
    <3>2. x \in Ids(s, ns) \ {id}
      BY <2>3, <3>1
    <3>3. p.data[ns][x] = s.data[ns][x]
      BY <1>1, <1>2, <3>2, PutFacts
    <3> QED
      BY <2>3, <3>2, <3>3, StoreInIds
  <2> QED
    BY <2>1, <2>2, <2>3
<1> QED
  BY <1>1, <1>2, <1>3, <1>4, StoreInFromIds

LEMMA DeleteIn ==
    ASSUME NEW drawn, NEW s, StoreIn(drawn, s), NEW ns, NEW id
    PROVE  StoreIn(drawn, Delete(s, ns, id))
<1>1. PICK d : d = Delete(s, ns, id)
  OBVIOUS
<1>2. IsStore(s) /\ DOMAIN s.data \subseteq Namespace
  BY DEF StoreIn, DataIn
<1>3. /\ IsStore(d) /\ DOMAIN d.data = DOMAIN s.data
      /\ \A m : Ids(d, m) = IF m = ns THEN Ids(s, m) \ {id} ELSE Ids(s, m)
      /\ \A m \in DOMAIN s.data : \A x : x \in Ids(d, m) => d.data[m][x] = s.data[m][x]
  BY <1>1, <1>2, DeleteFacts
<1>4. ASSUME NEW m \in DOMAIN d.data, NEW x \in Ids(d, m)
      PROVE  EntryIn(drawn, m, x, d.data[m][x])
  BY <1>3, StoreInIds
<1> QED
  BY <1>1, <1>2, <1>3, <1>4, StoreInFromIds

LEMMA UpdateIn ==
    ASSUME NEW drawn, NEW s, StoreIn(drawn, s), NEW ns, NEW id, NEW object,
           id \in Ids(s, ns) => EntryIn(drawn, ns, id, object)
    PROVE  StoreIn(drawn, Update(s, ns, id, object))
<1>1. PICK u : u = Update(s, ns, id, object)
  OBVIOUS
<1>2. IsStore(s) /\ DOMAIN s.data \subseteq Namespace
  BY DEF StoreIn, DataIn
<1>3. /\ IsStore(u) /\ DOMAIN u.data = DOMAIN s.data
      /\ \A m : Ids(u, m) = Ids(s, m)
      /\ id \in Ids(s, ns) => u.data[ns][id] = object
      /\ \A x \in Ids(s, ns) \ {id} : u.data[ns][x] = s.data[ns][x]
      /\ \A m \in DOMAIN s.data \ {ns} : u.data[m] = s.data[m]
  BY <1>1, <1>2, UpdateFacts
<1>4. ASSUME NEW m \in DOMAIN u.data, NEW x \in Ids(u, m)
      PROVE  EntryIn(drawn, m, x, u.data[m][x])
  <2>1. x \in Ids(s, m) /\ m \in DOMAIN s.data /\ EntryIn(drawn, m, x, s.data[m][x])
    BY <1>3, StoreInIds
  <2>2. CASE m = ns /\ x = id
    BY <1>3, <2>1, <2>2
  <2>3. CASE m # ns \/ x # id
    <3>1. u.data[m][x] = s.data[m][x]
      BY <1>3, <2>1, <2>3
    <3> QED
      BY <2>1, <3>1
  <2> QED
    BY <2>2, <2>3
<1> QED
  BY <1>1, <1>2, <1>3, <1>4, StoreInFromIds

LEMMA ResetIn ==
    ASSUME NEW drawn, NEW s, StoreIn(drawn, s), NEW ns
    PROVE  StoreIn(drawn, ResetNamespace(s, ns))
<1>1. IsStore(s)
  BY DEF StoreIn
<1>2. PICK r : r = ResetNamespace(s, ns)
  OBVIOUS
<1>3. /\ IsStore(r) /\ DOMAIN r.data = DOMAIN s.data \ {ns}
      /\ \A m \in DOMAIN s.data \ {ns} : r.data[m] = s.data[m]
  BY <1>1, <1>2, ResetFacts
<1> QED
  BY <1>2, <1>3 DEF StoreIn, DataIn

LEMMA EnsuredIn ==
    ASSUME NEW drawn
    PROVE  StoreIn(drawn, EmptyStore) /\ StoreIn(drawn, EnsureDefaultGroup(EmptyStore))
<1>1. StoreIn(drawn, EmptyStore)
  BY EmptyStoreFacts DEF StoreIn, DataIn
<1>2. EntryIn(drawn, "resource_groups", DefaultGroup, "Default")
  BY DEF EntryIn
<1>3. "resource_groups" \in Namespace
  BY DEF Namespace
<1> QED
  BY <1>1, <1>2, <1>3, PutIn, EnsuredFacts

\* The ids of a step that draws none, one or two.
LEMMA DrawnIds ==
    ASSUME minted \in Nat, [Next]_vars
    PROVE  /\ minted' \in {minted, minted + 1, minted + 2}
           /\ Drawn \subseteq Drawn'
           /\ minted' \in {minted + 1, minted + 2} => minted + 1 \in Drawn'
           /\ minted' = minted + 2 => minted + 2 \in Drawn'
<1>1. minted' \in {minted, minted + 1, minted + 2}
  BY DEF Next, vars, Draw, Start, Stop, Crash, CrashWhileSaving, Down,
         RemoveSnapshot, Reset, CreateVpc,
         CreateResourceGroup, BeginRename, FinishRename, DeleteResourceGroup, DeleteVpc,
         CreateSecurityGroup, DeleteSecurityGroup
<1> QED
  BY <1>1 DEF Drawn, Id

FilesOK == /\ {snapshot.exists, snapshot.torn} \subseteq BOOLEAN
           /\ DataIn(Drawn, snapshot.data)
           /\ DataIn(Drawn, saved)

TypeInv == /\ up \in BOOLEAN
           /\ minted \in Nat
           /\ StoreIn(Drawn, store)
           /\ FilesOK
           /\ pending \in [Client -> Drawn \cup {DefaultGroup, None}]

LEMMA StartedIn ==
    ASSUME NEW drawn, DataIn(drawn, snapshot.data)
    PROVE  StoreIn(drawn, Started(snapshot)) /\ StoreIn(drawn, Started(NoSnapshot))
<1>1. PICK e : e = EnsureDefaultGroup(EmptyStore)
  OBVIOUS
<1>2. StoreIn(drawn, e) /\ e = [data |-> e.data, meta |-> e.meta]
  BY <1>1, EnsuredIn DEF StoreIn, IsStore
<1>3. [e EXCEPT !.data = snapshot.data] = [data |-> snapshot.data, meta |-> e.meta]
  BY <1>2
<1>4. StoreIn(drawn, [e EXCEPT !.data = snapshot.data])
  BY <1>3 DEF StoreIn, IsStore
<1>5. Started(snapshot) \in {e, [e EXCEPT !.data = snapshot.data]}
  BY <1>1 DEF Started, RestoredFrom, Restored
<1>6. Started(NoSnapshot) = e
  BY <1>1 DEF Started, RestoredFrom, IsRestored, NoSnapshot
<1> QED
  BY <1>2, <1>4, <1>5, <1>6

LEMMA StoreTyped ==
    ASSUME TypeInv, [Next]_vars
    PROVE  StoreIn(Drawn', store')
<1>1. PICK drawn : drawn = Drawn'
  OBVIOUS
<1>2. /\ StoreIn(drawn, store) /\ DataIn(drawn, snapshot.data) /\ minted \in Nat
      /\ minted' = minted + 1 => minted + 1 \in drawn
      /\ minted' = minted + 2 => minted + 1 \in drawn /\ minted + 2 \in drawn
  BY <1>1, DrawnIds, DataGrows DEF TypeInv, FilesOK, StoreIn
<1> SUFFICES StoreIn(drawn, store')
  BY <1>1
<1>3. CASE store' = store
  BY <1>2, <1>3
<1>4. CASE StartStep
  BY <1>2, <1>4, StartedIn DEF StartStep
<1>5. CASE EmptyStep
  BY <1>5, EnsuredIn DEF EmptyStep
<1>6. CASE ResetStep
  BY <1>2, <1>6, ResetIn DEF ResetStep
<1>7. CASE DeleteStep
  BY <1>2, <1>7, DeleteIn DEF DeleteStep
<1>8. CASE RenameStep
  <2>1. PICK id, name : /\ name \in Name
                        /\ store' = Update(store, "resource_groups", id, name)
    BY <1>8 DEF RenameStep
  <2>2. id \in Ids(store, "resource_groups") => EntryIn(drawn, "resource_groups", id, name)
    BY <1>2, <2>1, StoreInIds DEF EntryIn
  <2> QED
    BY <1>2, <2>1, <2>2, UpdateIn
<1>9. CASE PutStep
  <2>1. PICK ns, object : /\ \/ ns = "resource_groups" /\ object \in Name
                             \/ ns = "security_groups" /\ object \in Ids(store, "vpcs")
                          /\ store' = Put(store, ns, minted + 1, object)
    BY <1>9 DEF PutStep
  <2>2. minted + 1 \in drawn
    BY <1>2, <1>9 DEF PutStep, Draw
  <2>3. Ids(store, "vpcs") \subseteq drawn
    BY <1>2, StoreInIds DEF EntryIn
  <2>4. EntryIn(drawn, ns, minted + 1, object) /\ ns \in Namespace
    BY <2>1, <2>2, <2>3 DEF EntryIn, Namespace
  <2> QED
    BY <1>2, <2>1, <2>4, PutIn
<1>10. CASE CreateVpc
  <2>1. PICK v, g : v = minted + 1 /\ g = minted + 2
    OBVIOUS
  <2>2. PICK alone, both : /\ alone = Put(store, "vpcs", v, None)
                           /\ both = Put(alone, "security_groups", g, v)
    OBVIOUS
  <2>3. \/ Draw(1) /\ store' = alone
        \/ Draw(2) /\ store' = both
        \/ Draw(2) /\ store' = Update(both, "vpcs", v, g)
    BY <1>10, <2>1, <2>2 DEF CreateVpc
  <2>4. v \in drawn
    BY <1>2, <2>1, <2>3 DEF Draw
  <2>5. {"vpcs", "security_groups"} \subseteq Namespace
    BY DEF Namespace
  <2>6. StoreIn(drawn, alone)
    <3>1. EntryIn(drawn, "vpcs", v, None)
      BY <2>4 DEF EntryIn
    <3> QED
      BY <1>2, <2>2, <2>5, <3>1, PutIn
  <2>7. ASSUME Draw(2)
        PROVE  StoreIn(drawn, both) /\ StoreIn(drawn, Update(both, "vpcs", v, g))
    <3>1. g \in drawn
      BY <1>2, <2>1, <2>7 DEF Draw
    <3>2. EntryIn(drawn, "security_groups", g, v) /\ EntryIn(drawn, "vpcs", v, g)
      BY <2>4, <3>1 DEF EntryIn
    <3>3. StoreIn(drawn, both)
      BY <2>2, <2>5, <2>6, <3>2, PutIn
    <3> QED
      BY <3>2, <3>3, UpdateIn
  <2> QED
    BY <2>3, <2>6, <2>7
<1> QED
  BY <1>1, <1>3, <1>4, <1>5, <1>6, <1>7, <1>8, <1>9, <1>10, StoreStep

LEMMA FilesTyped ==
    ASSUME TypeInv, [Next]_vars
    PROVE  FilesOK'
<1>1. PICK drawn : drawn = Drawn'
  OBVIOUS
<1>2. /\ {snapshot.exists, snapshot.torn} \subseteq BOOLEAN
      /\ DataIn(drawn, store.data) /\ DataIn(drawn, snapshot.data) /\ DataIn(drawn, saved)
      /\ DataIn(drawn, Started(NoSnapshot).data)
  BY <1>1, DrawnIds, DataGrows, StartedIn DEF TypeInv, FilesOK, StoreIn
<1>3. DataIn(drawn, EmptyBucket)
  BY DEF DataIn, EmptyBucket
<1>4. /\ {snapshot'.exists, snapshot'.torn} \subseteq BOOLEAN
      /\ DataIn(drawn, snapshot'.data) /\ DataIn(drawn, saved')
  <2>1. CASE Stop
    <3>1. PICK data : data = store.data
      OBVIOUS
    <3>2. \/ snapshot' = WholeSnapshot(data) /\ saved' = data
          \/ UNCHANGED <<snapshot, saved>>
      BY <2>1, <3>1 DEF Stop
    <3>3. CASE UNCHANGED <<snapshot, saved>>
      BY <1>2, <3>3
    <3>4. CASE snapshot' = WholeSnapshot(data) /\ saved' = data
      <4>1. snapshot'.data = data /\ snapshot'.exists = TRUE /\ snapshot'.torn = FALSE
        BY <3>4 DEF WholeSnapshot
      <4>2. DataIn(drawn, data)
        BY <1>2, <3>1
      <4> QED
        BY <3>4, <4>1, <4>2
    <3> QED
      BY <3>2, <3>3, <3>4
  <2>2. CASE CrashWhileSaving
    BY <1>2, <1>3, <2>2 DEF CrashWhileSaving, TornSnapshot
  <2>3. CASE RemoveSnapshot
    BY <1>2, <1>3, <2>3 DEF RemoveSnapshot, NoSnapshot
  <2>4. CASE UNCHANGED <<snapshot, saved>>
    BY <1>2, <2>4
  <2> QED
    BY <2>1, <2>2, <2>3, <2>4
       DEF Next, vars, Start, Crash, Reset, CreateVpc, CreateResourceGroup, BeginRename,
           FinishRename, DeleteResourceGroup, DeleteVpc, CreateSecurityGroup,
           DeleteSecurityGroup
<1> QED
  BY <1>1, <1>4 DEF FilesOK

LEMMA PendingTyped ==
    ASSUME TypeInv, [Next]_vars
    PROVE  pending' \in [Client -> Drawn' \cup {DefaultGroup, None}]
<1>1. PICK refs : refs = Drawn' \cup {DefaultGroup, None}
  OBVIOUS
<1>2. pending \in [Client -> refs] /\ None \in refs /\ Drawn \cup {DefaultGroup} \subseteq refs
  BY <1>1, DrawnIds DEF TypeInv
<1> SUFFICES pending' \in [Client -> refs]
  BY <1>1
<1>3. CASE UNCHANGED pending
  BY <1>2, <1>3
<1>4. CASE pending' = [c \in Client |-> None]
  BY <1>2, <1>4
<1>5. ASSUME NEW c \in Client, NEW g \in Ids(store, "resource_groups"), BeginRename(c, g)
      PROVE  pending' \in [Client -> refs]
  <2>1. g \in refs
    BY <1>2, StoreInIds DEF TypeInv, EntryIn
  <2> QED
    BY <1>2, <1>5, <2>1 DEF BeginRename
<1>6. ASSUME NEW c \in Client, NEW n \in Name, FinishRename(c, n)
      PROVE  pending' \in [Client -> refs]
  BY <1>2, <1>6 DEF FinishRename
<1> QED
  BY <1>3, <1>4, <1>5, <1>6
     DEF Next, vars, Start, Stop, Crash, CrashWhileSaving, Down, RemoveSnapshot, Reset,
         CreateVpc, CreateResourceGroup, DeleteResourceGroup, DeleteVpc,
         CreateSecurityGroup, DeleteSecurityGroup

\* The store, the file and what was saved hold the namespaces and ids that the
\* handlers write, for any number of ids, and in either mode.
THEOREM TypeCorrect == Spec => []TypeOK
<1>1. Init => TypeInv
  <2>1. ASSUME Init
        PROVE  StoreIn(Drawn, store) /\ FilesOK
    <3>1. PICK drawn : drawn = Drawn
      OBVIOUS
    <3>2. DataIn(drawn, EmptyBucket) /\ NoSnapshot.data = EmptyBucket
      BY DEF DataIn, EmptyBucket, NoSnapshot
    <3>3. Started(NoSnapshot) = EnsureDefaultGroup(EmptyStore)
      BY DEF Started, RestoredFrom, IsRestored, NoSnapshot
    <3>4. StoreIn(drawn, EmptyStore) /\ DataIn(drawn, Started(NoSnapshot).data)
      BY <3>3, EnsuredIn DEF StoreIn
    <3> QED
      BY <2>1, <3>1, <3>2, <3>4 DEF Init, FilesOK, NoSnapshot
  <2>2. ASSUME Init
        PROVE  /\ up \in BOOLEAN /\ minted \in Nat
               /\ pending \in [Client -> Drawn \cup {DefaultGroup, None}]
    BY <2>2 DEF Init
  <2> QED
    BY <2>1, <2>2 DEF TypeInv
<1>2. TypeInv /\ [Next]_vars => TypeInv'
  <2> SUFFICES ASSUME TypeInv, [Next]_vars PROVE TypeInv'
    OBVIOUS
  <2>1. minted' \in Nat
    BY DrawnIds DEF TypeInv
  <2>2. up' \in BOOLEAN
    BY DEF TypeInv, Next, vars, Start, Stop, Crash, CrashWhileSaving, Down,
           RemoveSnapshot, Reset, CreateVpc, CreateResourceGroup, BeginRename,
           FinishRename, DeleteResourceGroup, DeleteVpc, CreateSecurityGroup,
           DeleteSecurityGroup
  <2> QED
    BY <2>1, <2>2, StoreTyped, FilesTyped, PendingTyped DEF TypeInv
<1>3. TypeInv => TypeOK
  <2> SUFFICES ASSUME TypeInv PROVE TypeOK
    OBVIOUS
  <2>1. PICK data, file, last : data = store.data /\ file = snapshot.data /\ last = saved
    OBVIOUS
  <2>2. DataOK(data) /\ DataOK(file) /\ DataOK(last)
    BY <2>1, DataOKIs DEF TypeInv, FilesOK, StoreIn
  <2> QED
    BY <2>1, <2>2 DEF TypeInv, FilesOK, TypeOK
<1> QED
  BY <1>1, <1>2, <1>3, PTL DEF Spec
=============================================================================
