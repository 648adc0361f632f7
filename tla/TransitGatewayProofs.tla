------------------------- MODULE TransitGatewayProofs -------------------------
(* What holds of TransitGateway for every value of its constants. *)
EXTENDS TransitGateway, FiniteSetTheorems, TLAPS

\* Ids are numbered as they are drawn: the next one is not in use.
LEMMA DrawOne ==
    ASSUME minted \in Nat, Draw
    PROVE  /\ minted' \in Nat
           /\ minted + 1 \in Drawn'
           /\ minted + 1 \notin Drawn
           /\ Drawn \subseteq Drawn'
BY DEF Draw, Drawn, Id

\* There are finitely many connections to count.
Finite == IsFiniteSet(DOMAIN connections)

LEMMA FiniteInit == Init => Finite
BY FS_EmptySet DEF Init, Finite, EmptyBucket

LEMMA FiniteStep == Finite /\ [Next]_vars => Finite'
<1> SUFFICES ASSUME Finite, [Next]_vars PROVE Finite'
  OBVIOUS
<1>1. ASSUME NEW g \in DOMAIN gateways, NEW w, CreateConnection(g, w) PROVE Finite'
  <2>1. DOMAIN connections' = DOMAIN connections \cup {minted + 1}
    BY <1>1 DEF CreateConnection, BucketPut
  <2> QED
    BY <2>1, FS_AddElement DEF Finite
<1>2. CASE DOMAIN connections' \subseteq DOMAIN connections
  BY <1>2, FS_Subset DEF Finite
<1>3. CASE UNCHANGED connections
  BY <1>3 DEF Finite
<1>4. ASSUME NEW g, NEW c, DeleteConnection(g, c)
      PROVE DOMAIN connections' \subseteq DOMAIN connections
  BY <1>4 DEF DeleteConnection, BucketDelete
<1>5. CASE Reset
  BY <1>2, <1>5 DEF Reset, EmptyBucket
<1>6. CASE ResetOne
  BY <1>2, <1>3, <1>6 DEF ResetOne
<1> QED
  BY <1>1, <1>2, <1>3, <1>4, <1>5, <1>6
     DEF Next, Handle, vars, CreateGateway, GetGateway, DeleteGateway, UpdateGateway

LEMMA FiniteCorrect == Spec => []Finite
BY FiniteInit, FiniteStep, PTL DEF Spec

-----------------------------------------------------------------------------
LEMMA TypeInit == Init => TypeOK
BY DEF Init, TypeOK, EmptyBucket

LEMMA TypeStep == TypeOK /\ Finite /\ [Next]_vars => TypeOK'
<1> SUFFICES ASSUME TypeOK, Finite, [Next]_vars PROVE TypeOK'
  OBVIOUS
<1> USE DEF TypeOK
<1>1. ASSUME NEW n \in Name, CreateGateway(n) PROVE TypeOK'
  <2>1. /\ DOMAIN gateways' = DOMAIN gateways \cup {minted + 1}
        /\ \A g \in DOMAIN gateways' :
              gateways'[g] \in [name : Name, connection_count : Nat \cup {NoCount}]
    BY <1>1 DEF CreateGateway, BucketPut
  <2>2. gateways' \in [DOMAIN gateways' ->
                         [name : Name, connection_count : Nat \cup {NoCount}]]
    BY <1>1, <2>1 DEF CreateGateway, BucketPut
  <2> QED
    BY <1>1, <2>1, <2>2, DrawOne DEF CreateGateway
<1>2. ASSUME NEW g \in DOMAIN gateways, GetGateway(g) PROVE TypeOK'
  <2>1. Cardinality(ConnectionsOf(g)) \in Nat
    BY FS_Subset, FS_CardinalityType DEF ConnectionsOf, Finite
  <2> QED
    BY <1>2, <2>1 DEF GetGateway, Drawn
<1>3. ASSUME NEW g \in DOMAIN gateways, NEW n \in Name \cup {NoName}, UpdateGateway(g, n)
      PROVE TypeOK'
  BY <1>3 DEF UpdateGateway, Drawn
<1>4. ASSUME NEW g \in DOMAIN gateways, DeleteGateway(g) PROVE TypeOK'
  BY <1>4 DEF DeleteGateway, BucketDelete, Drawn
<1>5. ASSUME NEW g \in DOMAIN gateways, NEW w \in Network \cup {NoNetwork},
             CreateConnection(g, w)
      PROVE TypeOK'
  <2>1. /\ DOMAIN connections' = DOMAIN connections \cup {minted + 1}
        /\ \A c \in DOMAIN connections' :
              connections'[c] \in [gateway : Drawn', network : Network \cup {NoNetwork}]
    BY <1>5, DrawOne DEF CreateConnection, BucketPut, NewConnection
  <2>2. connections' \in [DOMAIN connections' ->
                            [gateway : Drawn', network : Network \cup {NoNetwork}]]
    BY <1>5, <2>1 DEF CreateConnection, BucketPut
  <2> QED
    BY <1>5, <2>1, <2>2, DrawOne DEF CreateConnection
<1>6. ASSUME NEW g, NEW c, DeleteConnection(g, c) PROVE TypeOK'
  BY <1>6 DEF DeleteConnection, BucketDelete, Drawn
<1>7. CASE Reset
  BY <1>7 DEF Reset, EmptyBucket, Drawn
<1>8. CASE ResetOne
  BY <1>8 DEF ResetOne, EmptyBucket, Drawn
<1>9. CASE UNCHANGED vars
  BY <1>9 DEF vars, Drawn
<1> QED
  BY <1>1, <1>2, <1>3, <1>4, <1>5, <1>6, <1>7, <1>8, <1>9 DEF Next, Handle

\* The namespaces hold well-formed objects under drawn ids, and every count that a
\* GET left behind is a number.
THEOREM TypeCorrect == Spec => []TypeOK
BY TypeInit, TypeStep, FiniteCorrect, PTL DEF Spec

-----------------------------------------------------------------------------
\* A gateway goes only when nothing is connected to it by then, so no connection
\* outlives its gateway, whatever counts the gateways show, unless a namespace was
\* emptied alone.
THEOREM ConnectionsOwnedCorrect == Spec => []ConnectionsOwned
<1>1. Init => ConnectionsOwned
  BY DEF Init, ConnectionsOwned, EmptyBucket
<1>2. TypeOK /\ ConnectionsOwned /\ [Next]_vars => ConnectionsOwned'
  <2> SUFFICES ASSUME TypeOK, ConnectionsOwned, [Next]_vars PROVE ConnectionsOwned'
    OBVIOUS
  <2> USE DEF ConnectionsOwned
  <2>0. CASE ResetOne
    BY <2>0 DEF ResetOne
  <2>1. ASSUME NEW n, CreateGateway(n) PROVE ConnectionsOwned'
    BY <2>1 DEF CreateGateway, BucketPut
  <2>2. ASSUME NEW g, GetGateway(g) PROVE ConnectionsOwned'
    BY <2>2 DEF GetGateway
  <2>3. ASSUME NEW g, NEW n, UpdateGateway(g, n) PROVE ConnectionsOwned'
    BY <2>3 DEF UpdateGateway
  <2>4. ASSUME NEW g, DeleteGateway(g) PROVE ConnectionsOwned'
    BY <2>4 DEF DeleteGateway, BucketDelete, ConnectionsOf
  <2>5. ASSUME NEW g, NEW w, CreateConnection(g, w) PROVE ConnectionsOwned'
    BY <2>5 DEF CreateConnection, BucketPut, NewConnection
  <2>6. ASSUME NEW g, NEW c, DeleteConnection(g, c) PROVE ConnectionsOwned'
    BY <2>6 DEF DeleteConnection, BucketDelete
  <2>7. CASE Reset
    BY <2>7 DEF Reset, EmptyBucket
  <2>8. CASE UNCHANGED vars
    BY <2>8 DEF vars
  <2> QED
    BY <2>0, <2>1, <2>2, <2>3, <2>4, <2>5, <2>6, <2>7, <2>8 DEF Next, Handle
<1> QED
  BY <1>1, <1>2, TypeCorrect, PTL DEF Spec

\* A network is attached to a gateway once, with namespaces reset one by one too.
THEOREM NetworkAttachedOnceCorrect == Spec => []NetworkAttachedOnce
<1>1. Init => NetworkAttachedOnce
  BY DEF Init, NetworkAttachedOnce, EmptyBucket
<1>2. TypeOK /\ NetworkAttachedOnce /\ [Next]_vars => NetworkAttachedOnce'
  <2> SUFFICES ASSUME TypeOK, NetworkAttachedOnce, [Next]_vars PROVE NetworkAttachedOnce'
    OBVIOUS
  <2> USE DEF NetworkAttachedOnce
  <2>1. ASSUME NEW g, NEW w, CreateConnection(g, w) PROVE NetworkAttachedOnce'
    BY <2>1 DEF CreateConnection, BucketPut, NewConnection, Attachable, ConnectionsOf
  <2>2. ASSUME NEW g, NEW c, DeleteConnection(g, c) PROVE NetworkAttachedOnce'
    BY <2>2 DEF DeleteConnection, BucketDelete
  <2>3. CASE Reset
    BY <2>3 DEF Reset, EmptyBucket
  <2>4. CASE ResetOne
    <3>1. CASE UNCHANGED connections
      BY <3>1
    <3>2. ASSUME NEW g, connections' = [c \in DOMAIN connections \ ConnectionsOf(g) |->
                                          connections[c]]
          PROVE  NetworkAttachedOnce'
      BY <3>2
    <3> QED
      BY <2>4, <3>1, <3>2 DEF ResetOne
  <2>5. CASE UNCHANGED connections
    BY <2>5
  <2> QED
    BY <2>1, <2>2, <2>3, <2>4, <2>5
       DEF Next, Handle, vars, CreateGateway, GetGateway, DeleteGateway, UpdateGateway
<1> QED
  BY <1>1, <1>2, TypeCorrect, PTL DEF Spec
=============================================================================
