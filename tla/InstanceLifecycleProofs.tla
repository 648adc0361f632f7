------------------------ MODULE InstanceLifecycleProofs ------------------------
(***************************************************************************)
(* Proofs about InstanceLifecycle, for any set of instances and clients,   *)
(* any lag of the event loop and either kind of persistence.               *)
(***************************************************************************)
EXTENDS InstanceLifecycle, TLAPS

\* An id that was never drawn is nowhere: not in the store, in no task, in no
\* handler.  This is what makes a new instance start with no task of its own.
FreshUntouched ==
    \A i \in InstanceId : Fresh(i) =>
        /\ i \notin stored
        /\ \A t \in timers : t.inst # i
        /\ \A c \in Client : pending[c] # i

\* In memory mode there is never a file, so nothing is ever restored.
Unsaved ==
    Persistence = "memory" => snapshot = NoSnapshot /\ namespace # "restored"

IInv == TypeOK /\ FreshUntouched /\ Unsaved

Timers == [task : Task, inst : InstanceId, left : Int]

\* A new task is a well-formed timer.
LEMMA TimerType ==
    ASSUME NEW task \in Task, NEW i \in InstanceId
    PROVE  /\ Timer(task, i) \in Timers
           /\ Timer(task, i).task = task
           /\ Timer(task, i).inst = i
BY DEF Timer, Timers, Task, Sleep

\* One half second leaves each task what it was, but for the time it has left.
LEMMA TickTimers ==
    ASSUME TypeOK, Tick
    PROVE  /\ timers' \subseteq Timers
           /\ \A t \in timers : \E u \in timers' : u.task = t.task /\ u.inst = t.inst
           /\ \A u \in timers' : \E t \in timers : /\ u.task = t.task
                                                   /\ u.inst = t.inst
                                                   /\ u = [t EXCEPT !.left = @ - 1]
<1>1. timers' = {[t EXCEPT !.left = @ - 1] : t \in timers}
  BY DEF Tick
<1>2. \A t \in timers : t \in Timers
  BY DEF TypeOK, Timers
<1>3. ASSUME NEW t \in timers
      PROVE  /\ [t EXCEPT !.left = @ - 1] \in Timers
             /\ [t EXCEPT !.left = @ - 1].task = t.task
             /\ [t EXCEPT !.left = @ - 1].inst = t.inst
  BY <1>2 DEF Timers
<1>4. QED
  BY <1>1, <1>3

\* The statuses in a file are those of instances.
SnapshotOK(file) ==
    /\ file.namespace \in {"absent", "restored"}
    /\ DOMAIN file.status \subseteq InstanceId
    /\ file.status \in [DOMAIN file.status -> Status]

LEMMA NoSnapshotOK == /\ SnapshotOK(NoSnapshot)
                      /\ DOMAIN NoSnapshot.status = {} /\ NoSnapshot.namespace = "absent"
BY DEF NoSnapshot, SnapshotOK

\* Whatever a save writes, and whatever a process starts from, is well-formed.
LEMMA SavedOK ==
    ASSUME TypeOK, FreshUntouched
    PROVE  SnapshotOK(Saved)
<1>1. ASSUME NEW i \in stored
      PROVE  i \in InstanceId /\ status[i] \in Status
  BY <1>1 DEF TypeOK, FreshUntouched, Fresh
<1>2. CASE namespace = "absent"
  BY <1>2, NoSnapshotOK DEF Saved
<1>3. CASE namespace # "absent"
  <2> DEFINE file == [namespace |-> "restored", status |-> [i \in stored |-> status[i]]]
  <2>1. SnapshotOK(file)
    BY <1>1 DEF SnapshotOK
  <2> QED
    BY <1>3, <2>1 DEF Saved
<1> QED
  BY <1>2, <1>3

LEMMA StartedOK ==
    ASSUME TypeOK, FreshUntouched, Restart
    PROVE  \E file : /\ Started(file) /\ SnapshotOK(file)
                     /\ Persistence = "memory" => file = NoSnapshot
<1>1. SnapshotOK(snapshot)
  BY DEF TypeOK, SnapshotOK
<1>2. PICK file \in IF Persistence = "disk" THEN {Saved, snapshot, NoSnapshot}
                    ELSE {NoSnapshot} : Started(file)
  BY DEF Restart
<1> QED
  BY <1>1, <1>2, SavedOK, NoSnapshotOK

LEMMA TypeStep == TypeOK /\ FreshUntouched /\ [Next]_vars => TypeOK'
<1> SUFFICES ASSUME TypeOK, FreshUntouched, [Next]_vars
             PROVE  TypeOK'
  OBVIOUS
<1> USE DEF TypeOK
<1>1. ASSUME NEW i \in InstanceId, CreateInstance(i)
      PROVE  TypeOK'
  BY <1>1, TimerType DEF CreateInstance, Status, Task, Timers
<1>2. ASSUME NEW i \in InstanceId, DeleteInstance(i)
      PROVE  TypeOK'
  BY <1>2, TimerType DEF DeleteInstance, Status, Task, Timers
<1>3. ASSUME NEW c \in Client, NEW i \in InstanceId, BeginAction(c, i)
      PROVE  TypeOK'
  BY <1>3 DEF BeginAction
<1>4. ASSUME NEW c \in Client, FinishAction(c)
      PROVE  TypeOK'
  <2>1. pending[c] \in InstanceId
    BY <1>4 DEF FinishAction
  <2>2. /\ pending' \in [Client -> InstanceId \cup {NoRequest}] /\ stored' = stored
        /\ namespace' = namespace /\ snapshot' = snapshot
    BY <1>4 DEF FinishAction
  <2>3. ASSUME NEW to \in Status, NEW from \in Status, NEW task \in Task,
               Accept(pending[c], from, to, task)
        PROVE  /\ status' \in [InstanceId -> Status \cup {"unused"}]
               /\ timers' \subseteq Timers
    BY <2>1, <2>3, TimerType DEF Accept, Updated, Timers
  <2>4. CASE Reject(pending[c])
    BY <2>2, <2>4 DEF Reject
  <2>5. CASE \/ Accept(pending[c], "stopped", "starting", "start")
             \/ Accept(pending[c], "running", "stopping", "stop")
             \/ Accept(pending[c], "running", "restarting", "reboot")
    BY <2>2, <2>3, <2>5 DEF Status, Task, Timers
  <2>6. QED
    BY <1>4, <2>4, <2>5 DEF FinishAction
<1>5. ASSUME NEW t \in timers, Wake(t)
      PROVE  TypeOK'
  <2>1. /\ t.inst \in InstanceId /\ pending' = pending
        /\ namespace' = namespace /\ snapshot' = snapshot
    BY <1>5 DEF Wake
  <2>2. \A s \in Status : Updated(t.inst, s) \in [InstanceId -> Status \cup {"unused"}]
    BY <2>1 DEF Updated
  <2>3. CASE BootStarting(t)
    BY <2>1, <2>2, <2>3, TimerType DEF BootStarting, Status, Task, Timers
  <2>4. CASE BootRunning(t)
    BY <2>1, <2>2, <2>4 DEF BootRunning, Status
  <2>5. CASE ActionDone(t)
    BY <2>1, <2>2, <2>5 DEF ActionDone, Status
  <2>6. CASE Cleanup(t)
    BY <2>1, <2>6 DEF Cleanup
  <2>7. QED
    BY <1>5, <2>3, <2>4, <2>5, <2>6 DEF Wake
<1>6. CASE Tick
  <2>1. /\ status' = status /\ stored' = stored /\ pending' = pending
        /\ namespace' = namespace /\ snapshot' = snapshot
    BY <1>6 DEF Tick
  <2>2. QED
    BY <1>6, <2>1, TickTimers DEF Timers
<1>7. CASE Reset
  BY <1>7 DEF Reset
<1>8. CASE Restart
  <2>1. PICK file : Started(file) /\ SnapshotOK(file)
    BY <1>8, StartedOK
  <2>2. /\ stored' \subseteq InstanceId
        /\ status' \in [InstanceId -> Status \cup {"unused"}]
    BY <2>1 DEF Started, SnapshotOK
  <2>3. QED
    BY <2>1, <2>2 DEF Started, SnapshotOK
<1>9. CASE UNCHANGED vars
  BY <1>9 DEF vars
<1>10. QED
  BY <1>1, <1>2, <1>3, <1>4, <1>5, <1>6, <1>7, <1>8, <1>9 DEF Next

-----------------------------------------------------------------------------
\* A step creates tasks only for an instance it creates, one in the store, one
\* an action handler holds, or one a task was already working for.
LEMMA FreshStep == IInv /\ [Next]_vars => FreshUntouched'
<1> SUFFICES ASSUME IInv, [Next]_vars, NEW j \in InstanceId, Fresh(j)'
             PROVE  /\ j \notin stored'
                    /\ \A t \in timers' : t.inst # j
                    /\ \A c \in Client : pending'[c] # j
  BY DEF FreshUntouched
<1> USE DEF IInv
<1>a. status'[j] = "unused"
  BY DEF Fresh
<1>b. status[j] = "unused" =>
        /\ j \notin stored
        /\ \A t \in timers : t.inst # j
        /\ \A c \in Client : pending[c] # j
  BY DEF FreshUntouched, Fresh
<1>1. ASSUME NEW i \in InstanceId, CreateInstance(i)
      PROVE  /\ j \notin stored' /\ \A t \in timers' : t.inst # j
             /\ \A c \in Client : pending'[c] # j
  <2>1. j # i /\ status[j] = "unused"
    BY <1>1, <1>a DEF CreateInstance, TypeOK
  <2>2. Timer("boot_starting", i).inst = i
    BY TimerType DEF Task
  <2>3. QED
    BY <1>1, <1>b, <2>1, <2>2 DEF CreateInstance
<1>2. ASSUME NEW i \in InstanceId, DeleteInstance(i)
      PROVE  /\ j \notin stored' /\ \A t \in timers' : t.inst # j
             /\ \A c \in Client : pending'[c] # j
  <2>1. j # i /\ status[j] = "unused"
    BY <1>2, <1>a DEF DeleteInstance, TypeOK
  <2>2. Timer("cleanup", i).inst = i
    BY TimerType DEF Task
  <2>3. QED
    BY <1>2, <1>b, <2>1, <2>2 DEF DeleteInstance
<1>3. ASSUME NEW c \in Client, NEW i \in InstanceId, BeginAction(c, i)
      PROVE  /\ j \notin stored' /\ \A t \in timers' : t.inst # j
             /\ \A d \in Client : pending'[d] # j
  BY <1>3, <1>a, <1>b DEF BeginAction, TypeOK
<1>4. ASSUME NEW c \in Client, FinishAction(c)
      PROVE  /\ j \notin stored' /\ \A t \in timers' : t.inst # j
             /\ \A d \in Client : pending'[d] # j
  <2>1. pending[c] \in InstanceId /\ stored' = stored
    BY <1>4 DEF FinishAction, TypeOK
  <2>2. \A d \in Client : pending'[d] = pending[d] \/ pending'[d] = NoRequest
    BY <1>4 DEF FinishAction, TypeOK
  <2>3. NoRequest # j
    BY LifecycleAssumption
  <2>4. ASSUME NEW from \in Status, NEW to \in Status, NEW task \in Task,
               Accept(pending[c], from, to, task)
        PROVE  /\ status[j] = "unused"
               /\ \A t \in timers' : t.inst # j
    <3>1. status[pending[c]] # "unused"
      BY <2>4 DEF Accept, Status
    <3>2. status[j] = "unused"
      BY <2>1, <2>4, <1>a DEF Accept, Updated, TypeOK, Status
    <3>3. Timer(task, pending[c]).inst = pending[c]
      BY <2>1, TimerType
    <3>4. QED
      BY <1>b, <2>4, <3>1, <3>2, <3>3 DEF Accept
  <2>5. CASE Reject(pending[c])
    BY <1>a, <1>b, <2>1, <2>2, <2>3, <2>5 DEF Reject
  <2>6. CASE \/ Accept(pending[c], "stopped", "starting", "start")
             \/ Accept(pending[c], "running", "stopping", "stop")
             \/ Accept(pending[c], "running", "restarting", "reboot")
    BY <1>b, <2>1, <2>2, <2>3, <2>4, <2>6 DEF Status, Task
  <2>7. QED
    BY <1>4, <2>5, <2>6 DEF FinishAction
<1>5. ASSUME NEW t \in timers, Wake(t)
      PROVE  /\ j \notin stored' /\ \A u \in timers' : u.inst # j
             /\ \A c \in Client : pending'[c] # j
  <2>1. t.inst \in InstanceId /\ pending' = pending
    BY <1>5 DEF Wake, TypeOK
  <2>2. status[j] = "unused"
    BY <1>5, <1>a, <2>1
       DEF Wake, BootStarting, BootRunning, ActionDone, Cleanup, Updated, TypeOK
  <2>3. stored' \subseteq stored
    BY <1>5 DEF Wake, BootStarting, BootRunning, ActionDone, Cleanup
  <2>4. Timer("boot_running", t.inst).inst = t.inst
    BY <2>1, TimerType DEF Task
  <2>5. \A u \in timers' : u \in timers \/ u = Timer("boot_running", t.inst)
    BY <1>5 DEF Wake, BootStarting, BootRunning, ActionDone, Cleanup
  <2>6. QED
    BY <1>b, <2>1, <2>2, <2>3, <2>4, <2>5
<1>6. CASE Tick
  <2>1. status' = status /\ stored' = stored /\ pending' = pending
    BY <1>6 DEF Tick
  <2>2. QED
    BY <1>6, <1>a, <1>b, <2>1, TickTimers
<1>7. CASE Reset
  BY <1>7, <1>a, <1>b DEF Reset
<1>8. CASE Restart
  <2>1. NoRequest # j
    BY LifecycleAssumption
  <2>2. PICK file : Started(file) /\ SnapshotOK(file)
    BY <1>8, StartedOK
  <2>3. j \notin DOMAIN file.status
    BY <1>a, <2>2 DEF Started, SnapshotOK, Status
  <2>4. QED
    BY <2>1, <2>2, <2>3 DEF Started
<1>9. CASE UNCHANGED vars
  BY <1>9, <1>a, <1>b DEF vars
<1>10. QED
  BY <1>1, <1>2, <1>3, <1>4, <1>5, <1>6, <1>7, <1>8, <1>9 DEF Next

LEMMA UnsavedStep == IInv /\ [Next]_vars => Unsaved'
<1> SUFFICES ASSUME IInv, [Next]_vars, Persistence = "memory"
             PROVE  snapshot' = NoSnapshot /\ namespace' # "restored"
  BY DEF Unsaved
<1>1. snapshot = NoSnapshot /\ namespace # "restored"
  BY DEF IInv, Unsaved
<1>2. CASE Restart
  <2>1. Started(NoSnapshot)
    BY <1>2, StartedOK DEF IInv
  <2> QED
    BY <2>1, NoSnapshotOK DEF Started
<1>3. CASE ~Restart
  BY <1>1, <1>3 DEF Next, vars, CreateInstance, DeleteInstance, BeginAction, FinishAction,
                    Wake, Tick, Reset
<1> QED
  BY <1>2, <1>3

LEMMA Invariance == Spec => []IInv
<1>1. Init => IInv
  BY LifecycleAssumption, NoSnapshotOK
     DEF Init, IInv, TypeOK, FreshUntouched, Unsaved, SnapshotOK
<1>2. IInv /\ [Next]_vars => IInv'
  BY TypeStep, FreshStep, UnsavedStep DEF IInv
<1>3. QED
  BY <1>1, <1>2, PTL DEF Spec

\* Every field keeps to its type, in either mode, through any saves and restarts.
THEOREM TypeCorrect == Spec => []TypeOK
<1>1. IInv => TypeOK
  BY DEF IInv
<1>2. QED
  BY <1>1, Invariance, PTL

-----------------------------------------------------------------------------
(* One driver per instance on its way, none at rest. *)

\* The tasks asleep for an instance, the cleanup tasks aside, decide whether it
\* is driven: a step that keeps them and the status keeps it driven.
LEMMA DrivenFrame ==
    ASSUME NEW i,
           status'[i] = status[i], Driven(i),
           \A t : t \in Drivers(i) <=> t \in Drivers(i)'
    PROVE  Driven(i)'
<1>1. Drivers(i)' = Drivers(i)
  BY DEF Drivers
<1>2. \A t \in Drivers(i) : t \in timers'
  BY <1>1 DEF Drivers
<1>3. QED
  BY <1>1, <1>2 DEF Driven

\* Tick renames the timers without changing what they are for.
LEMMA DrivenTick ==
    ASSUME TypeOK, Tick, NEW i \in InstanceId, Driven(i)
    PROVE  Driven(i)'
<1>1. status' = status
  BY DEF Tick
<1>2. ASSUME Drivers(i) = {}
      PROVE  Drivers(i)' = {}
  BY <1>2, TickTimers DEF Drivers
<1>3. ASSUME NEW t \in timers, Drivers(i) = {t}
      PROVE  \E u \in timers' : u.task = t.task /\ Drivers(i)' = {u}
  <2>1. t.inst = i /\ t.task # "cleanup"
    BY <1>3 DEF Drivers
  <2>2. PICK u \in timers' : u.task = t.task /\ u.inst = t.inst
    BY TickTimers
  <2>3. u \in Drivers(i)'
    BY <2>1, <2>2 DEF Drivers
  <2>4. ASSUME NEW v \in Drivers(i)'
        PROVE  v = [t EXCEPT !.left = @ - 1]
    <3>1. PICK w \in timers : /\ v.task = w.task /\ v.inst = w.inst
                              /\ v = [w EXCEPT !.left = @ - 1]
      BY TickTimers DEF Drivers
    <3>2. w \in Drivers(i)
      BY <3>1 DEF Drivers
    <3>3. QED
      BY <1>3, <3>1, <3>2
  <2>5. QED
    BY <2>2, <2>3, <2>4
<1>4. QED
  BY <1>1, <1>2, <1>3 DEF Driven

LEMMA DriverStep ==
    Persistence = "memory" /\ IInv /\ SingleDriver /\ [Next]_vars => SingleDriver'
<1> SUFFICES ASSUME Persistence = "memory", IInv, SingleDriver, [Next]_vars,
                    NEW j \in stored'
             PROVE  (DeleteRequested(j) \/ Driven(j))'
  BY DEF SingleDriver
<1> USE DEF IInv
<1>0. /\ stored \subseteq InstanceId
      /\ \A t \in timers : t \in Timers
      /\ j \in stored => DeleteRequested(j) \/ Driven(j)
  BY DEF TypeOK, SingleDriver, Timers
<1>1. ASSUME NEW i \in InstanceId, CreateInstance(i)
      PROVE  (DeleteRequested(j) \/ Driven(j))'
  <2> DEFINE new == Timer("boot_starting", i)
  <2>1. /\ new.inst = i /\ new.task = "boot_starting"
        /\ timers' = timers \cup {new}
        /\ status' = [status EXCEPT ![i] = "pending"]
    BY <1>1, TimerType DEF CreateInstance, Task, Unsaved
  <2>2. CASE j = i
    <3>1. Drivers(i)' = {new}
      BY <1>1, <2>1 DEF CreateInstance, FreshUntouched, Drivers
    <3>2. status'[i] = "pending" /\ new \in timers'
      BY <2>1 DEF TypeOK
    <3>3. QED
      BY <2>1, <2>2, <3>1, <3>2 DEF Driven, Transitional, MovedBy
  <2>3. CASE j # i
    <3>1. j \in stored /\ status'[j] = status[j]
      BY <1>1, <2>1, <2>3 DEF CreateInstance, TypeOK
    <3>2. \A t : t \in Drivers(j) <=> t \in Drivers(j)'
      BY <2>1, <2>3 DEF Drivers
    <3>3. CASE DeleteRequested(j)
      BY <2>1, <3>3 DEF DeleteRequested
    <3>4. CASE Driven(j)
      BY <3>1, <3>2, <3>4, DrivenFrame
    <3>5. QED
      BY <1>0, <3>1, <3>3, <3>4
  <2>4. QED
    BY <2>2, <2>3
<1>2. ASSUME NEW i \in InstanceId, DeleteInstance(i)
      PROVE  (DeleteRequested(j) \/ Driven(j))'
  <2> DEFINE new == Timer("cleanup", i)
  <2>1. /\ new.inst = i /\ new.task = "cleanup"
        /\ timers' = timers \cup {new}
        /\ status' = [status EXCEPT ![i] = "deleting"]
        /\ stored' = stored
    BY <1>2, TimerType DEF DeleteInstance, Task
  <2>2. CASE j = i
    BY <2>1, <2>2 DEF DeleteRequested
  <2>3. CASE j # i
    <3>1. status'[j] = status[j]
      BY <2>1, <2>3 DEF TypeOK
    <3>2. \A t : t \in Drivers(j) <=> t \in Drivers(j)'
      BY <2>1 DEF Drivers
    <3>3. CASE DeleteRequested(j)
      BY <2>1, <3>3 DEF DeleteRequested
    <3>4. CASE Driven(j)
      BY <3>1, <3>2, <3>4, DrivenFrame
    <3>5. QED
      BY <1>0, <2>1, <3>3, <3>4
  <2>4. QED
    BY <2>2, <2>3
<1>3. ASSUME NEW c \in Client, NEW i \in InstanceId, BeginAction(c, i)
      PROVE  (DeleteRequested(j) \/ Driven(j))'
  BY <1>0, <1>3 DEF BeginAction, DeleteRequested, Driven, Drivers
<1>4. ASSUME NEW c \in Client, FinishAction(c)
      PROVE  (DeleteRequested(j) \/ Driven(j))'
  <2>0. PICK i \in InstanceId : i = pending[c]
    BY <1>4 DEF FinishAction, TypeOK
  <2>1. stored' = stored
    BY <1>4 DEF FinishAction
  <2>2. CASE Reject(i)
    BY <1>0, <2>1, <2>2 DEF Reject, DeleteRequested, Driven, Drivers
  <2>3. ASSUME NEW from \in {"stopped", "running"}, NEW to \in Status,
               NEW task \in Task \ {"cleanup"},
               Accept(i, from, to, task),
               to \in Transitional /\ task \in MovedBy[to]
        PROVE  (DeleteRequested(j) \/ Driven(j))'
    <3> DEFINE new == Timer(task, i)
    <3>1. /\ new.inst = i /\ new.task = task
          /\ timers' = timers \cup {new}
      BY <2>3, TimerType DEF Accept
    <3>2. CASE DeleteRequested(j)
      BY <3>1, <3>2 DEF DeleteRequested
    <3>3. CASE Driven(j) /\ j = i
      <4>1. status'[i] = to
        BY <2>1, <2>3, <3>3 DEF Accept, Updated, TypeOK
      <4>2. Drivers(i) = {}
        BY <2>3, <3>3 DEF Driven, Accept, Transitional
      <4>3. Drivers(i)' = {new} /\ new \in timers'
        BY <2>3, <3>1, <4>2 DEF Drivers
      <4>4. Driven(i)'
        BY <2>3, <3>1, <4>1, <4>3 DEF Driven
      <4>5. QED
        BY <3>3, <4>4
    <3>4. CASE Driven(j) /\ j # i
      <4>1. status'[j] = status[j]
        BY <2>3, <3>4 DEF Accept, Updated, TypeOK
      <4>2. \A t : t \in Drivers(j) <=> t \in Drivers(j)'
        BY <3>1, <3>4 DEF Drivers
      <4>3. QED
        BY <3>4, <4>1, <4>2, DrivenFrame
    <3>5. QED
      BY <1>0, <2>1, <3>2, <3>3, <3>4
  <2>4. /\ "start" \in MovedBy["starting"] /\ "stop" \in MovedBy["stopping"]
        /\ "reboot" \in MovedBy["restarting"]
    BY DEF MovedBy
  <2>5. CASE \/ Accept(i, "stopped", "starting", "start")
             \/ Accept(i, "running", "stopping", "stop")
             \/ Accept(i, "running", "restarting", "reboot")
    BY <2>3, <2>4, <2>5 DEF Status, Task, Transitional
  <2>6. QED
    BY <1>4, <2>0, <2>2, <2>5 DEF FinishAction
<1>5. ASSUME NEW t \in timers, Wake(t)
      PROVE  (DeleteRequested(j) \/ Driven(j))'
  <2> DEFINE i == t.inst
  <2>1. i \in InstanceId /\ t.task \in Task /\ t \in Timers
    BY <1>0 DEF Timers
  <2>2. CASE Cleanup(t)
    <3>1. j \in stored /\ j # i /\ status' = status /\ timers' = timers \ {t}
      BY <2>2 DEF Cleanup
    <3>2. CASE DeleteRequested(j)
      BY <3>1, <3>2 DEF DeleteRequested
    <3>3. \A u : u \in Drivers(j) <=> u \in Drivers(j)'
      BY <3>1 DEF Drivers
    <3>4. CASE Driven(j)
      BY <3>1, <3>3, <3>4, DrivenFrame
    <3>5. QED
      BY <1>0, <3>1, <3>2, <3>4
  <2>3. ASSUME NEW to \in Status, t.task # "cleanup",
               stored' = stored, status' = Updated(i, to),
               \A u : u.inst # i => (u \in timers <=> u \in timers'),
               \A u \in timers : u.task = "cleanup" => u \in timers',
               i \in stored /\ Drivers(i) = {t} /\ status'[i] = to => Driven(i)'
        PROVE  (DeleteRequested(j) \/ Driven(j))'
    <3>1. CASE DeleteRequested(j)
      BY <2>3, <3>1 DEF DeleteRequested
    <3>2. CASE Driven(j) /\ j # i
      <4>1. status'[j] = status[j]
        BY <2>3, <3>2 DEF Updated, TypeOK
      <4>2. \A u : u \in Drivers(j) <=> u \in Drivers(j)'
        BY <2>3, <3>2 DEF Drivers
      <4>3. QED
        BY <3>2, <4>1, <4>2, DrivenFrame
    <3>3. CASE Driven(j) /\ j = i
      <4>1. status'[i] = to
        BY <2>1, <2>3, <3>3 DEF Updated, TypeOK
      <4>2. t \in Drivers(i)
        BY <2>3 DEF Drivers
      <4>3. Drivers(i) = {t}
        BY <3>3, <4>2 DEF Driven
      <4>4. Driven(i)'
        BY <2>3, <3>3, <4>1, <4>3
      <4>5. QED
        BY <3>3, <4>4
    <3>4. QED
      BY <1>0, <2>3, <3>1, <3>2, <3>3
  <2>4. CASE BootStarting(t)
    <3>1. /\ Timer("boot_running", i).inst = i
          /\ Timer("boot_running", i).task = "boot_running"
      BY <2>1, TimerType DEF Task
    <3>2. /\ stored' = stored /\ status' = Updated(i, "starting")
          /\ t.task = "boot_starting"
          /\ \A u : u.inst # i => (u \in timers <=> u \in timers')
          /\ \A u \in timers : u.task = "cleanup" => u \in timers'
      BY <2>4, <3>1 DEF BootStarting
    <3>3. ASSUME i \in stored, Drivers(i) = {t}, status'[i] = "starting"
          PROVE  Driven(i)'
      <4>1. timers' = (timers \ {t}) \cup {Timer("boot_running", i)}
        BY <2>4, <3>3 DEF BootStarting
      <4>2. /\ Drivers(i)' = {Timer("boot_running", i)}
            /\ Timer("boot_running", i) \in timers'
        BY <3>1, <3>3, <4>1 DEF Drivers
      <4>3. QED
        BY <3>1, <3>3, <4>2 DEF Driven, Transitional, MovedBy
    <3>4. QED
      BY <2>3, <3>2, <3>3 DEF Status
  <2>5. CASE BootRunning(t) \/ ActionDone(t)
    <3>1. PICK to \in {"running", "stopped"} : status' = Updated(i, to)
      BY <2>5 DEF BootRunning, ActionDone
    <3>2. /\ stored' = stored /\ timers' = timers \ {t} /\ t.task # "cleanup"
      BY <2>5 DEF BootRunning, ActionDone
    <3>3. ASSUME i \in stored, Drivers(i) = {t}, status'[i] = to
          PROVE  Driven(i)'
      <4>1. Drivers(i)' = {}
        BY <3>2, <3>3 DEF Drivers
      <4>2. QED
        BY <3>1, <3>3, <4>1 DEF Driven
    <3>4. to \in Status
      BY DEF Status
    <3>5. QED
      BY <2>3, <3>1, <3>2, <3>3, <3>4
  <2>6. QED
    BY <1>5, <2>2, <2>4, <2>5 DEF Wake
<1>6. CASE Tick
  <2>1. stored' = stored
    BY <1>6 DEF Tick
  <2>2. CASE DeleteRequested(j)
    BY <1>6, <2>2, TickTimers DEF DeleteRequested
  <2>3. CASE Driven(j)
    BY <1>0, <1>6, <2>1, <2>3, DrivenTick
  <2>4. QED
    BY <1>0, <2>1, <2>2, <2>3
<1>7. CASE Reset
  BY <1>7 DEF Reset
<1>8. CASE Restart
  <2>1. Started(NoSnapshot)
    BY <1>8, StartedOK
  <2>2. QED
    BY <2>1, NoSnapshotOK DEF Started
<1>9. CASE UNCHANGED vars
  BY <1>0, <1>9 DEF vars, DeleteRequested, Driven, Drivers
<1>10. QED
  BY <1>1, <1>2, <1>3, <1>4, <1>5, <1>6, <1>7, <1>8, <1>9 DEF Next

\* While the process keeps its state in memory only, an instance on its way has
\* exactly one task that will move it on, and an instance at rest has none.
THEOREM SingleDriverCorrect ==
    ASSUME Persistence = "memory"
    PROVE  Spec => []SingleDriver
<1>1. Init => SingleDriver
  BY DEF Init, SingleDriver
<1>2. IInv /\ SingleDriver /\ [Next]_vars => SingleDriver'
  BY DriverStep
<1>3. QED
  BY <1>1, <1>2, Invariance, PTL DEF Spec

-----------------------------------------------------------------------------
(* The tasks and handlers implement the contract: the safety half. *)

ContractPhase == [i \in InstanceId |-> Phase(i)]

\* The phase of an instance depends on its object, on whether it is stored and
\* on whether a cleanup task is asleep for it.
LEMMA PhaseFrame ==
    ASSUME NEW i, status'[i] = status[i], i \in stored <=> i \in stored',
           DeleteRequested(i) <=> DeleteRequested(i)'
    PROVE  Phase(i)' = Phase(i)
BY DEF Phase, Fresh

\* A step that changes the phase of one instance is a move of the contract.
LEMMA PhaseMove ==
    ASSUME NEW i \in InstanceId, NEW from, NEW to, Phase(i) = from, Phase(i)' = to,
           \A k \in InstanceId \ {i} : Phase(k)' = Phase(k)
    PROVE  Contract!Move(i, from, to)
BY DEF Contract!Move

\* The handlers and tasks that change the status of one stored instance and
\* neither the store nor the cleanup tasks.
LEMMA OneStatus ==
    ASSUME TypeOK, NEW i \in InstanceId, NEW to \in Status,
           status' = Updated(i, to), stored' = stored, i \in stored => status[i] # "unused",
           \A k \in InstanceId : DeleteRequested(k) <=> DeleteRequested(k)'
    PROVE  /\ \A k \in InstanceId \ {i} : Phase(k)' = Phase(k)
           /\ i \notin stored \/ DeleteRequested(i) => Phase(i)' = Phase(i)
           /\ i \in stored /\ ~DeleteRequested(i) =>
                Phase(i) = status[i] /\ Phase(i)' = to
<1>1. \A k \in InstanceId \ {i} : status'[k] = status[k]
  BY DEF Updated, TypeOK
<1>2. i \in stored => status'[i] = to
  BY DEF Updated, TypeOK
<1>3. i \notin stored => status'[i] = status[i]
  BY DEF Updated
<1>4. to # "unused"
  BY DEF Status
<1>5. \A k \in InstanceId \ {i} : Phase(k)' = Phase(k)
  BY <1>1, PhaseFrame
<1>6. QED
  BY <1>2, <1>3, <1>4, <1>5 DEF Phase, Fresh

LEMMA ContractStep ==
    ASSUME Persistence = "memory", IInv, SingleDriver, [Next]_vars
    PROVE  [Contract!Next]_ContractPhase
<1> USE DEF IInv
<1>0. /\ \A i \in stored : i \in InstanceId /\ status[i] # "unused"
      /\ \A t \in timers : t.inst \in InstanceId /\ t.task \in Task
  BY DEF TypeOK, FreshUntouched, Fresh
<1>a. ASSUME \A k \in InstanceId : Phase(k)' = Phase(k)
      PROVE  UNCHANGED ContractPhase
  BY <1>a DEF ContractPhase
<1>b. ASSUME \A k \in InstanceId :
               /\ Phase(k) \in {"absent", "gone"} => Phase(k)' = Phase(k)
               /\ Phase(k) \notin {"absent", "gone"} => Phase(k)' = "gone"
      PROVE  Contract!WipeAll
  BY <1>b DEF Contract!WipeAll, Contract!Live
<1>1. ASSUME NEW i \in InstanceId, CreateInstance(i)
      PROVE  Contract!Create(i)
  <2>1. Timer("boot_starting", i).task = "boot_starting"
    BY TimerType DEF Task
  <2>2. \A k \in InstanceId : DeleteRequested(k) <=> DeleteRequested(k)'
    BY <1>1, <2>1 DEF CreateInstance, DeleteRequested
  <2>3. \A k \in InstanceId \ {i} : Phase(k)' = Phase(k)
    BY <1>1, <2>2, PhaseFrame DEF CreateInstance, TypeOK
  <2>4. ~DeleteRequested(i)
    BY <1>1 DEF CreateInstance, FreshUntouched, DeleteRequested
  <2>5. Phase(i) = "absent" /\ Phase(i)' = "pending"
    BY <1>1, <2>2, <2>4 DEF CreateInstance, Phase, Fresh, TypeOK
  <2>6. QED
    BY <2>3, <2>5, PhaseMove DEF Contract!Create
<1>2. ASSUME NEW i \in InstanceId, DeleteInstance(i)
      PROVE  Contract!Delete(i)
  <2>1. Timer("cleanup", i).task = "cleanup" /\ Timer("cleanup", i).inst = i
    BY TimerType DEF Task
  <2>2. DeleteRequested(i)'
    BY <1>2, <2>1 DEF DeleteInstance, DeleteRequested
  <2>3. \A k \in InstanceId \ {i} : DeleteRequested(k) <=> DeleteRequested(k)'
    BY <1>2, <2>1 DEF DeleteInstance, DeleteRequested
  <2>4. \A k \in InstanceId \ {i} : Phase(k)' = Phase(k)
    BY <1>2, <2>3, PhaseFrame DEF DeleteInstance, TypeOK
  <2>5. Phase(i)' = "deleting"
    BY <1>2, <2>2 DEF DeleteInstance, Phase, Fresh, TypeOK
  <2>6. Phase(i) \notin {"absent", "gone"}
    BY <1>0, <1>2 DEF DeleteInstance, Phase, Fresh, TypeOK, Status
  <2>7. QED
    BY <2>4, <2>5, <2>6 DEF Contract!Delete, Contract!Live
<1>3. ASSUME NEW c \in Client, NEW i \in InstanceId, BeginAction(c, i)
      PROVE  UNCHANGED ContractPhase
  BY <1>a, <1>3, PhaseFrame DEF BeginAction, DeleteRequested
<1>4. ASSUME NEW c \in Client, FinishAction(c)
      PROVE  [Contract!Next]_ContractPhase
  <2>0. PICK i \in InstanceId : i = pending[c]
    BY <1>4 DEF FinishAction, TypeOK
  <2>1. stored' = stored
    BY <1>4 DEF FinishAction
  <2>2. CASE Reject(i)
    BY <1>a, <2>1, <2>2, PhaseFrame DEF Reject, DeleteRequested
  <2>3. ASSUME NEW from \in Status, NEW to \in Status, NEW task \in Task,
               task # "cleanup", Accept(i, from, to, task)
        PROVE  UNCHANGED ContractPhase \/ Contract!Move(i, from, to)
    <3>1. Timer(task, i).task = task
      BY TimerType
    <3>2. \A k \in InstanceId : DeleteRequested(k) <=> DeleteRequested(k)'
      BY <2>3, <3>1 DEF Accept, DeleteRequested
    <3>3. /\ \A k \in InstanceId \ {i} : Phase(k)' = Phase(k)
          /\ i \notin stored \/ DeleteRequested(i) => Phase(i)' = Phase(i)
          /\ i \in stored /\ ~DeleteRequested(i) =>
               Phase(i) = status[i] /\ Phase(i)' = to
      BY <1>0, <2>1, <2>3, <3>2, OneStatus DEF Accept
    <3>4. CASE i \in stored /\ ~DeleteRequested(i)
      BY <2>3, <3>3, <3>4, PhaseMove DEF Accept
    <3>5. CASE i \notin stored \/ DeleteRequested(i)
      BY <1>a, <3>3, <3>5
    <3>6. QED
      BY <3>4, <3>5
  <2>4. CASE \/ Accept(i, "stopped", "starting", "start")
             \/ Accept(i, "running", "stopping", "stop")
             \/ Accept(i, "running", "restarting", "reboot")
    <3>1. UNCHANGED ContractPhase \/ Contract!Request(i)
      BY <2>3, <2>4 DEF Status, Task, Contract!Request
    <3>2. QED
      BY <3>1 DEF Contract!Next
  <2>5. QED
    BY <1>4, <2>0, <2>2, <2>4 DEF FinishAction
<1>5. ASSUME NEW t \in timers, Wake(t)
      PROVE  [Contract!Next]_ContractPhase
  <2> DEFINE i == t.inst
  <2>1. i \in InstanceId /\ t.task \in Task
    BY <1>0
  <2>2. CASE Cleanup(t)
    <3>1. timers' = timers \ {t} /\ status' = status /\ stored' = stored \ {i}
      BY <2>2 DEF Cleanup
    <3>2. ASSUME NEW k \in InstanceId \ {i}
          PROVE  Phase(k)' = Phase(k)
      <4>1. DeleteRequested(k) <=> DeleteRequested(k)'
        BY <3>1 DEF DeleteRequested
      <4>2. QED
        BY <3>1, <4>1, PhaseFrame
    <3>3. CASE i \in stored
      <4>1. Phase(i) = "deleting" /\ Phase(i)' = "gone"
        BY <1>0, <2>2, <3>1, <3>3 DEF Cleanup, Phase, Fresh, DeleteRequested
      <4>2. Contract!Remove(i)
        BY <2>1, <3>2, <4>1, PhaseMove DEF Contract!Remove
      <4>3. QED
        BY <2>1, <4>2 DEF Contract!Next
    <3>4. CASE i \notin stored
      <4>1. Phase(i)' = Phase(i)
        BY <3>1, <3>4 DEF Phase, Fresh
      <4>2. QED
        BY <1>a, <3>2, <4>1
    <3>5. QED
      BY <3>3, <3>4
  <2>3. ASSUME NEW to \in Status, t.task # "cleanup",
               stored' = stored, status' = Updated(i, to),
               \A u \in timers : u.task = "cleanup" <=> u \in timers' /\ u.task = "cleanup",
               \A u \in timers' : u \in timers \/ u.task # "cleanup",
               i \in stored /\ Driven(i) =>
                  \/ status[i] = "pending" /\ to = "starting"
                  \/ status[i] = "starting" /\ to = "running"
                  \/ status[i] = "stopping" /\ to = "stopped"
                  \/ status[i] = "restarting" /\ to = "running"
        PROVE  [Contract!Next]_ContractPhase
    <3>1. \A k \in InstanceId : DeleteRequested(k) <=> DeleteRequested(k)'
      BY <2>3 DEF DeleteRequested
    <3>2. /\ \A k \in InstanceId \ {i} : Phase(k)' = Phase(k)
          /\ i \notin stored \/ DeleteRequested(i) => Phase(i)' = Phase(i)
          /\ i \in stored /\ ~DeleteRequested(i) =>
               Phase(i) = status[i] /\ Phase(i)' = to
      BY <1>0, <2>1, <2>3, <3>1, OneStatus
    <3>3. CASE i \in stored /\ ~DeleteRequested(i)
      <4>1. Contract!Move(i, status[i], to)
        BY <2>1, <3>2, <3>3, PhaseMove
      <4>2. Driven(i)
        BY <3>3 DEF SingleDriver
      <4>3. Contract!Settle(i)
        BY <2>3, <3>3, <4>1, <4>2 DEF Contract!Settle
      <4>4. QED
        BY <2>1, <4>3 DEF Contract!Next
    <3>4. CASE i \notin stored \/ DeleteRequested(i)
      BY <1>a, <3>2, <3>4
    <3>5. QED
      BY <3>3, <3>4
  <2>4. ASSUME i \in stored, Driven(i), t.task # "cleanup"
        PROVE  status[i] \in Transitional /\ t.task \in MovedBy[status[i]]
    <3>1. t \in Drivers(i)
      BY <2>4 DEF Drivers
    <3>2. QED
      BY <2>4, <3>1 DEF Driven
  <2>5. CASE BootStarting(t)
    <3>1. Timer("boot_running", i).task = "boot_running"
      BY <2>1, TimerType DEF Task
    <3>2. /\ stored' = stored /\ status' = Updated(i, "starting")
          /\ t.task = "boot_starting"
          /\ \A u \in timers : u.task = "cleanup" <=> u \in timers' /\ u.task = "cleanup"
          /\ \A u \in timers' : u \in timers \/ u.task # "cleanup"
      BY <2>5, <3>1 DEF BootStarting
    <3>3. i \in stored /\ Driven(i) => status[i] = "pending"
      BY <2>4, <3>2 DEF Transitional, MovedBy
    <3>4. QED
      BY <2>3, <3>2, <3>3 DEF Status
  <2>6. CASE BootRunning(t) \/ ActionDone(t)
    <3>1. PICK to \in {"running", "stopped"} :
             /\ status' = Updated(i, to)
             /\ to = "running" => t.task \in {"boot_running", "start", "reboot"}
             /\ to = "stopped" => t.task = "stop"
      BY <2>6 DEF BootRunning, ActionDone
    <3>2. stored' = stored /\ timers' = timers \ {t} /\ t.task # "cleanup"
      BY <2>6 DEF BootRunning, ActionDone
    <3>3. i \in stored /\ Driven(i) =>
             \/ status[i] = "starting" /\ to = "running"
             \/ status[i] = "stopping" /\ to = "stopped"
             \/ status[i] = "restarting" /\ to = "running"
      BY <2>4, <3>1, <3>2 DEF Transitional, MovedBy
    <3>4. to \in Status
      BY DEF Status
    <3>5. QED
      BY <2>3, <3>1, <3>2, <3>3, <3>4
  <2>7. QED
    BY <1>5, <2>2, <2>5, <2>6 DEF Wake
<1>6. CASE Tick
  <2>1. \A k \in InstanceId : DeleteRequested(k) <=> DeleteRequested(k)'
    BY <1>6, TickTimers DEF DeleteRequested
  <2>2. QED
    BY <1>a, <1>6, <2>1, PhaseFrame DEF Tick
<1>7. ASSUME stored' = {}, \A i \in InstanceId : status'[i] = status[i]
      PROVE  Contract!WipeAll
  <2>1. ASSUME NEW k \in InstanceId
        PROVE  /\ Phase(k) \in {"absent", "gone"} => Phase(k)' = Phase(k)
               /\ Phase(k) \notin {"absent", "gone"} => Phase(k)' = "gone"
    BY <1>0, <1>7 DEF Phase, Fresh, TypeOK, Status
  <2>2. QED
    BY <1>b, <2>1
<1>8. CASE Reset
  BY <1>7, <1>8 DEF Reset, Contract!Next
<1>9. CASE Restart
  <2>1. Started(NoSnapshot)
    BY <1>9, StartedOK
  <2>2. stored' = {}
    BY <2>1, NoSnapshotOK DEF Started
  <2>3. \A i \in InstanceId : status'[i] = status[i]
    BY <2>1, NoSnapshotOK DEF Started
  <2>4. QED
    BY <1>7, <2>2, <2>3 DEF Contract!Next
<1>10. CASE UNCHANGED vars
  BY <1>a, <1>10, PhaseFrame DEF vars, DeleteRequested
<1>11. QED
  BY <1>1, <1>2, <1>3, <1>4, <1>5, <1>6, <1>8, <1>9, <1>10 DEF Next, Contract!Next

\* Every behaviour of the handlers and tasks is one the lifecycle contract
\* allows (its fairness is left to the model checker).
THEOREM ContractSafety ==
    ASSUME Persistence = "memory"
    PROVE  Spec => Contract!Init /\ [][Contract!Next]_ContractPhase
<1>1. Init => Contract!Init
  BY DEF Init, Contract!Init, Phase, Fresh
<1>2. IInv /\ SingleDriver /\ [Next]_vars => [Contract!Next]_ContractPhase
  BY ContractStep
<1>3. QED
  BY <1>1, <1>2, Invariance, SingleDriverCorrect, PTL DEF Spec
=============================================================================
