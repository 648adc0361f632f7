----------------------------- MODULE MCTransitLog -----------------------------
(* The transit gateway handlers and the request log in one process, for TLC: gateways *)
(* change while requests are in flight, and a reset of everything, as well as a       *)
(* restart in memory mode, empties both.  Each is otherwise blind to the other.       *)
EXTENDS TransitGateway, RequestLog, TLC

\* Clients, names and networks are told apart by their own kind only.
Symmetry == Permutations(Client) \cup Permutations(Name) \cup Permutations(Network)

ProcessInit == Init /\ LogInit

ProcessNext ==
    \/ (Handle \/ ResetOne) /\ UNCHANGED logVars
    \/ (\E c \in Client : Dispatch(c)) /\ UNCHANGED vars
    \/ Reset /\ (LogRestart \/ \E c \in Client : LogReset(c))

ProcessSpec == ProcessInit /\ [][ProcessNext]_<<vars, logVars>>
=============================================================================
