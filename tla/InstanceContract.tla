--------------------------- MODULE InstanceContract ---------------------------
(***************************************************************************)
(* What the instance API promises a client, after the docstrings of        *)
(* create_instance, _instance_state_machine, delete_instance and           *)
(* instance_action: the phases a virtual server goes through and the only  *)
(* steps between them.  Nothing is said of timers, of tasks or of the      *)
(* store: InstanceLifecycle is shown to implement this module.             *)
(***************************************************************************)

CONSTANT InstanceId
VARIABLE phase

Phase == {"absent", "pending", "starting", "running", "stopping", "stopped",
          "restarting", "deleting", "gone"}

Live == {i \in InstanceId : phase[i] \notin {"absent", "gone"}}

PhaseOK == phase \in [InstanceId -> Phase]

Move(i, from, to) == phase[i] = from /\ phase' = [phase EXCEPT ![i] = to]

Init == phase = [i \in InstanceId |-> "absent"]

Create(i) == Move(i, "absent", "pending")

\* What the emulator does by itself once a client has asked for it.
Settle(i) == \/ Move(i, "pending", "starting")
             \/ Move(i, "starting", "running")
             \/ Move(i, "stopping", "stopped")
             \/ Move(i, "restarting", "running")

\* The three instance actions: start, stop and reboot.
Request(i) == \/ Move(i, "stopped", "starting")
              \/ Move(i, "running", "stopping")
              \/ Move(i, "running", "restarting")

Delete(i) == /\ i \in Live
             /\ phase' = [phase EXCEPT ![i] = "deleting"]

Remove(i) == Move(i, "deleting", "gone")

\* A reset, or the end of a process that keeps its state in memory only.
WipeAll == phase' = [i \in InstanceId |-> IF i \in Live THEN "gone" ELSE phase[i]]

Next == \/ \E i \in InstanceId :
              Create(i) \/ Settle(i) \/ Request(i) \/ Delete(i) \/ Remove(i)
        \/ WipeAll

Spec == /\ Init /\ [][Next]_phase
        /\ \A i \in InstanceId : WF_phase(Settle(i)) /\ WF_phase(Remove(i))
=============================================================================
