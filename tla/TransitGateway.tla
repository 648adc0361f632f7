---------------------------- MODULE TransitGateway ----------------------------
(***************************************************************************)
(* Transit gateways and the networks connected to them, as the handlers of *)
(* src/providers/transit_gateway.py keep them: a namespace of gateways and *)
(* one of connections for every gateway.  FastAPI parses the body before   *)
(* it calls these handlers and they await nothing: each is one step.       *)
(***************************************************************************)
EXTENDS Integers, FiniteSets, StateStore

CONSTANTS Name,             \* what a client may call a gateway
          Network,          \* the network_ids a client may connect
          MaxId             \* bound: how many uuids are drawn

\* A connection without a network_id, and an update without a name.
NoNetwork == "none"
NoName == "none"

ASSUME TransitAssumption ==
    /\ NoNetwork \notin Network
    /\ NoName \notin Name
    /\ MaxId \in Nat

VARIABLES
    gateways,      \* the namespace "transit_gateways"
    connections,   \* the namespaces "tgw_connections_{gateway}", as one
    minted,        \* how many uuids were drawn
    intact         \* history: no namespace was emptied alone since the whole store was

vars == <<gateways, connections, minted, intact>>

Id == Nat \ {0}

\* No get_gateway has written a connection_count yet.
NoCount == -1

ConnectionsOf(g) == {c \in DOMAIN connections : connections[c].gateway = g}

-----------------------------------------------------------------------------
Init == /\ gateways = EmptyBucket
        /\ connections = EmptyBucket
        /\ minted = 0
        /\ intact = TRUE

\* Mutant: an id that was drawn is drawn again.
DrawStuck == minted < MaxId /\ UNCHANGED minted

Draw == minted < MaxId /\ minted' = minted + 1

\* 409 for a name that is in use.
CreateGateway(name) ==
    /\ \A g \in DOMAIN gateways : gateways[g].name # name
    /\ Draw
    /\ gateways' = BucketPut(gateways, minted + 1,
                             [name |-> name, connection_count |-> NoCount])
    /\ UNCHANGED <<connections, intact>>

\* A GET that writes: the count goes into the stored gateway, where a list and an
\* update show it from then on.
GetGateway(g) ==
    /\ g \in DOMAIN gateways
    /\ gateways' = [gateways EXCEPT ![g].connection_count = Cardinality(ConnectionsOf(g))]
    /\ UNCHANGED <<connections, minted, intact>>

\* The name is not compared with those in use.
UpdateGateway(g, name) ==
    /\ g \in DOMAIN gateways
    /\ gateways' = [gateways EXCEPT ![g].name = IF name = NoName THEN @ ELSE name]
    /\ UNCHANGED <<connections, minted, intact>>

\* Mutant: the count of the last GET is trusted.
DeleteByLastCount(g) ==
    /\ g \in DOMAIN gateways
    /\ gateways[g].connection_count <= 0
    /\ gateways' = BucketDelete(gateways, g)
    /\ UNCHANGED <<connections, minted, intact>>

\* The connections are counted anew.
DeleteGateway(g) ==
    /\ g \in DOMAIN gateways
    /\ ConnectionsOf(g) = {}
    /\ gateways' = BucketDelete(gateways, g)
    /\ UNCHANGED <<connections, minted, intact>>

-----------------------------------------------------------------------------
\* Mutant: one connection to another network is enough.
AttachableAny(g, network) ==
    \/ ConnectionsOf(g) = {}
    \/ \E c \in ConnectionsOf(g) : connections[c].network # network

\* 409 for a network that is attached to this gateway.
Attachable(g, network) ==
    \/ network = NoNetwork
    \/ \A c \in ConnectionsOf(g) : connections[c].network # network

NewConnection(g, network) == [gateway |-> g, network |-> network]

CreateConnection(g, network) ==
    /\ g \in DOMAIN gateways
    /\ Attachable(g, network)
    /\ Draw
    /\ connections' = BucketPut(connections, minted + 1, NewConnection(g, network))
    /\ UNCHANGED <<gateways, intact>>

\* Under the gateway named in the path: another one's connection is not found.
DeleteConnection(g, c) ==
    /\ g \in DOMAIN gateways
    /\ c \in ConnectionsOf(g)
    /\ connections' = BucketDelete(connections, c)
    /\ UNCHANGED <<gateways, minted, intact>>

Reset == /\ gateways' = EmptyBucket
         /\ connections' = EmptyBucket
         /\ intact' = TRUE
         /\ UNCHANGED minted

\* POST /_emulator/reset/{namespace}: the gateways, or the connections of one.
ResetOne ==
    /\ intact' = FALSE
    /\ \/ gateways' = EmptyBucket /\ UNCHANGED connections
       \/ \E g \in {connections[c].gateway : c \in DOMAIN connections} :
             /\ connections' = [c \in DOMAIN connections \ ConnectionsOf(g) |-> connections[c]]
             /\ UNCHANGED gateways
    /\ UNCHANGED minted

\* A handler of transit_gateway.py.
Handle ==
    \/ \E n \in Name : CreateGateway(n)
    \/ \E g \in DOMAIN gateways :
          \/ GetGateway(g) \/ DeleteGateway(g)
          \/ \E n \in Name \cup {NoName} : UpdateGateway(g, n)
          \/ \E w \in Network \cup {NoNetwork} : CreateConnection(g, w)
          \/ \E c \in ConnectionsOf(g) : DeleteConnection(g, c)

Next == Handle \/ Reset \/ ResetOne

Spec == Init /\ [][Next]_vars

-----------------------------------------------------------------------------
Drawn == {i \in Id : i <= minted}

TypeOK ==
    /\ minted \in Nat /\ intact \in BOOLEAN
    /\ DOMAIN gateways \subseteq Drawn
    /\ gateways \in [DOMAIN gateways -> [name : Name, connection_count : Nat \cup {NoCount}]]
    /\ DOMAIN connections \subseteq Drawn
    /\ connections \in [DOMAIN connections -> [gateway : Drawn,
                                              network : Network \cup {NoNetwork}]]

\* "Deleting a gateway with active connections returns 409": a connection never
\* outlives its gateway, though the count a gateway shows may be an old one,
\* unless a namespace was emptied alone.
ConnectionsOwned ==
    intact => \A c \in DOMAIN connections : connections[c].gateway \in DOMAIN gateways

\* "prevents attaching the same VPC/workspace twice": a network is attached to a
\* gateway once, in whichever order networks come, go and are reset.
NetworkAttachedOnce ==
    \A c, d \in DOMAIN connections :
        /\ connections[c].gateway = connections[d].gateway
        /\ connections[c].network = connections[d].network
        /\ connections[c].network # NoNetwork
        => c = d
=============================================================================
