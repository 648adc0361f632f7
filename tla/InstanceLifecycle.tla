--------------------------- MODULE InstanceLifecycle ---------------------------
(***************************************************************************)
(* The life of virtual server instances in src/providers/vpc.py: the       *)
(* handlers create_instance, delete_instance and instance_action, and the  *)
(* background tasks they start on the event loop.                          *)
(*                                                                         *)
(* Everything runs on one event loop, so a handler or a task is atomic     *)
(* between two awaits.  instance_action looks the instance up, awaits the  *)
(* body of the request, and only then reads the status of the object it    *)
(* found: it is split into BeginAction and FinishAction.  The other two    *)
(* handlers touch the store on one side of their await only.               *)
(*                                                                         *)
(* Time is counted in half seconds.  A task that sleeps is a member of     *)
(* timers whose left counts down to 0 and below: the loop wakes sleepers   *)
(* in the order of their deadlines, and may be late by MaxLag ticks (a     *)
(* handler that blocks it).                                                *)
(*                                                                         *)
(* Of the store there is the namespace of the instances, and of the file   *)
(* that disk mode saves to and restores from, what it has of them.         *)
(***************************************************************************)
EXTENDS Integers

CONSTANTS InstanceId,    \* the uuids the emulator may generate
          Client,        \* connections with a POST .../actions in flight
          Persistence,   \* IBMCLOUD_LOCAL_PERSISTENCE: "memory" or "disk"
          MaxLag         \* bound: by how many ticks a task may wake late

NoRequest == "none"

ASSUME LifecycleAssumption ==
    /\ NoRequest \notin InstanceId
    /\ Persistence \in {"memory", "disk"}
    /\ MaxLag \in Nat

VARIABLES
    status,   \* the "status" field of each instance object
    stored,   \* the keys of the store's "instances" namespace
    namespace, \* how that namespace came to be: absent, put or restored
    timers,   \* the background tasks, asleep
    pending,  \* what each in-flight action handler found, awaiting its body
    snapshot  \* the namespace in the file, as a restart would have it

vars == <<status, stored, namespace, timers, pending, snapshot>>

Status == {"pending", "starting", "running", "stopping", "stopped",
           "restarting", "deleting"}

\* What a task does when it wakes.
Task == {"boot_starting", "boot_running", "start", "stop", "reboot", "cleanup"}

\* asyncio.sleep of each task, in half seconds.
Sleep == [boot_starting |-> 2, boot_running |-> 2, start |-> 2, stop |-> 2,
          reboot |-> 3, cleanup |-> 1]

Timer(task, i) == [task |-> task, inst |-> i, left |-> Sleep[task]]

\* A uuid4 is never drawn twice: an id that was ever used keeps its object.
Fresh(i) == status[i] = "unused"

\* The object written by store.update, a no-op once the id is not stored.
Updated(i, s) == IF i \in stored THEN [status EXCEPT ![i] = s] ELSE status

\* There is no file, or none of the namespace in it.
NoSnapshot == [namespace |-> "absent", status |-> [i \in {} |-> "unused"]]

-----------------------------------------------------------------------------
Init == /\ status = [i \in InstanceId |-> "unused"]
        /\ stored = {}
        /\ namespace = "absent"
        /\ timers = {}
        /\ pending = [c \in Client |-> NoRequest]
        /\ snapshot = NoSnapshot

\* POST /v1/instances: put the object, then create the boot task.  A namespace that
\* was restored has no metadata: put raises with the object stored, and no task is
\* created.
CreateInstance(i) ==
    /\ Fresh(i)
    /\ status' = [status EXCEPT ![i] = "pending"]
    /\ stored' = stored \cup {i}
    /\ \/ namespace = "restored" /\ UNCHANGED <<namespace, timers>>
       \/ /\ namespace # "restored"
          /\ namespace' = "put"
          /\ timers' = timers \cup {Timer("boot_starting", i)}
    /\ UNCHANGED <<pending, snapshot>>

\* Mutants of DeleteInstance and Accept: a delete that never starts its cleanup
\* task, an action that is taken in any status, and one that stores the name of
\* its task as the status.
DeleteUnscheduled(i) ==
    /\ i \in stored
    /\ status' = [status EXCEPT ![i] = "deleting"]
    /\ UNCHANGED <<stored, namespace, timers, pending, snapshot>>

AcceptAnyStatus(i, from, to, task) ==
    /\ status' = Updated(i, to)
    /\ timers' = timers \cup {Timer(task, i)}

AcceptTaskName(i, from, to, task) ==
    /\ status[i] = from
    /\ status' = Updated(i, task)
    /\ timers' = timers \cup {Timer(task, i)}

\* DELETE /v1/instances/{id}: nothing checks the status the instance is in,
\* and the tasks already asleep stay asleep.
DeleteInstance(i) ==
    /\ i \in stored
    /\ status' = [status EXCEPT ![i] = "deleting"]
    /\ timers' = timers \cup {Timer("cleanup", i)}
    /\ UNCHANGED <<stored, namespace, pending, snapshot>>

\* POST /v1/instances/{id}/actions up to the await of the body.
BeginAction(c, i) ==
    /\ pending[c] = NoRequest
    /\ i \in stored
    /\ pending' = [pending EXCEPT ![c] = i]
    /\ UNCHANGED <<status, stored, namespace, timers, snapshot>>

\* After the await.  The status is read from the object that was looked up,
\* which outlives its removal from the store.
Accept(i, from, to, task) ==
    /\ status[i] = from
    /\ status' = Updated(i, to)
    /\ timers' = timers \cup {Timer(task, i)}

Reject(i) ==      \* 400: an unknown type, or one this status does not allow
    UNCHANGED <<status, timers>>

FinishAction(c) ==
    /\ pending[c] # NoRequest
    /\ LET i == pending[c] IN
         \/ Accept(i, "stopped", "starting", "start")
         \/ Accept(i, "running", "stopping", "stop")
         \/ Accept(i, "running", "restarting", "reboot")
         \/ Reject(i)
    /\ pending' = [pending EXCEPT ![c] = NoRequest]
    /\ UNCHANGED <<stored, namespace, snapshot>>

-----------------------------------------------------------------------------
\* The event loop wakes the sleeper with the earliest deadline that has passed.
Due(t) == t.left <= 0 /\ \A u \in timers : t.left <= u.left

\* The first half of _instance_state_machine: it sleeps again only if the
\* instance is still in the store.
BootStarting(t) ==
    /\ t.task = "boot_starting"
    /\ status' = Updated(t.inst, "starting")
    /\ timers' = (timers \ {t}) \cup
                   IF t.inst \in stored THEN {Timer("boot_running", t.inst)} ELSE {}
    /\ UNCHANGED stored

BootRunning(t) ==
    /\ t.task = "boot_running"
    /\ status' = Updated(t.inst, "running")
    /\ timers' = timers \ {t}
    /\ UNCHANGED stored

\* The closures _start, _stop and _reboot write their status unconditionally.
ActionDone(t) ==
    /\ \/ t.task \in {"start", "reboot"} /\ status' = Updated(t.inst, "running")
       \/ t.task = "stop" /\ status' = Updated(t.inst, "stopped")
    /\ timers' = timers \ {t}
    /\ UNCHANGED stored

Cleanup(t) ==
    /\ t.task = "cleanup"
    /\ stored' = stored \ {t.inst}
    /\ timers' = timers \ {t}
    /\ UNCHANGED status

Wake(t) == /\ Due(t)
           /\ BootStarting(t) \/ BootRunning(t) \/ ActionDone(t) \/ Cleanup(t)
           /\ UNCHANGED <<namespace, pending, snapshot>>

\* Half a second passes, unless that would make a sleeper later than MaxLag.
Tick == /\ timers # {}
        /\ \A t \in timers : t.left > -MaxLag
        /\ timers' = {[t EXCEPT !.left = @ - 1] : t \in timers}
        /\ UNCHANGED <<status, stored, namespace, pending, snapshot>>

-----------------------------------------------------------------------------
\* POST /_emulator/reset, or /_emulator/reset/instances: the store forgets,
\* the background tasks do not.
Reset == /\ stored' = {}
         /\ namespace' = "absent"
         /\ UNCHANGED <<status, timers, pending, snapshot>>

\* What a save writes: the instances as they are.
Saved == IF namespace = "absent" THEN NoSnapshot
         ELSE [namespace |-> "restored", status |-> [i \in stored |-> status[i]]]

\* A process starts from the file.  Background tasks and requests died with the last.
Started(file) ==
    /\ stored' = DOMAIN file.status
    /\ status' = [i \in InstanceId |-> IF i \in DOMAIN file.status THEN file.status[i]
                                                                ELSE status[i]]
    /\ namespace' = file.namespace
    /\ timers' = {}
    /\ pending' = [c \in Client |-> NoRequest]
    /\ snapshot' = file

\* The process ends and another starts.  In disk mode the end is a stop, which saves,
\* or a crash, which leaves what was saved last; somebody may have removed the file.
Restart ==
    \E file \in IF Persistence = "disk" THEN {Saved, snapshot, NoSnapshot} ELSE {NoSnapshot} :
        Started(file)

Next == \/ \E i \in InstanceId : CreateInstance(i) \/ DeleteInstance(i)
        \/ \E c \in Client, i \in InstanceId : BeginAction(c, i)
        \/ \E c \in Client : FinishAction(c)
        \/ \E t \in timers : Wake(t)
        \/ Tick
        \/ Reset
        \/ Restart

WakeAny == \E t \in timers : Wake(t)

\* The event loop runs what is due and time passes.  Nothing is assumed of the
\* clients: a body may never arrive, and a request may never be made.
Spec == Init /\ [][Next]_vars /\ WF_vars(WakeAny) /\ WF_vars(Tick)

-----------------------------------------------------------------------------
Transitional == {"pending", "starting", "stopping", "restarting"}

DeleteRequested(i) == \E t \in timers : t.inst = i /\ t.task = "cleanup"

Drivers(i) == {t \in timers : t.inst = i /\ t.task # "cleanup"}

\* The tasks that move an instance out of a status.
MovedBy == [pending |-> {"boot_starting"}, starting |-> {"boot_running", "start"},
            stopping |-> {"stop"}, restarting |-> {"reboot"}]

TypeOK == /\ status \in [InstanceId -> Status \cup {"unused"}]
          /\ stored \subseteq InstanceId
          /\ namespace \in {"absent", "put", "restored"}
          /\ timers \subseteq [task : Task, inst : InstanceId, left : Int]
          /\ pending \in [Client -> InstanceId \cup {NoRequest}]
          /\ snapshot.namespace \in {"absent", "restored"}
          /\ DOMAIN snapshot.status \subseteq InstanceId
          /\ snapshot.status \in [DOMAIN snapshot.status -> Status]

\* The tasks of vpc.py write a status without looking at the one they replace,
\* so all of the lifecycle rests on this: until a delete is asked for, an
\* instance on its way between two states has exactly one task asleep that will
\* move it on, the right one, and an instance at rest has none.
Driven(i) ==
    \/ /\ status[i] \in Transitional
       /\ \E t \in timers : Drivers(i) = {t} /\ t.task \in MovedBy[status[i]]
    \/ /\ status[i] \in {"running", "stopped"}
       /\ Drivers(i) = {}

SingleDriver == \A i \in stored : DeleteRequested(i) \/ Driven(i)

\* The phase a client should see: a delete that was acknowledged hides what the
\* tasks still write.
Phase(i) == IF Fresh(i) THEN "absent"
            ELSE IF i \notin stored THEN "gone"
            ELSE IF DeleteRequested(i) THEN "deleting"
            ELSE status[i]

Contract == INSTANCE InstanceContract
              WITH phase <- [i \in InstanceId |-> Phase(i)]

\* The tasks, timers and handlers of vpc.py implement the lifecycle its
\* docstrings promise, safety and progress, as long as no restart loses the
\* tasks of instances that survive it.
ContractSpec == Contract!Spec

\* _instance_state_machine: "If the instance was deleted while booting, stop".
BootStopsOnDelete ==
    [][\A i \in InstanceId : status[i] = "deleting" => status'[i] = "deleting"]_vars

\* create_instance: "we fire off a background task that transitions it through:
\* pending -> starting -> running", here for a process that is not restarted for
\* ever.
BootCompletes ==
    <>[][~Restart]_vars =>
        \A i \in InstanceId : i \in stored /\ status[i] = "pending"
                                ~> i \notin stored \/ status[i] = "running"
=============================================================================
