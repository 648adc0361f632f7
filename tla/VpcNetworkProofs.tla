--------------------------- MODULE VpcNetworkProofs ---------------------------
(***************************************************************************)
(* Proofs about VpcNetwork, for any set of blocks, zones and clients and   *)
(* any number of resources.                                                *)
(***************************************************************************)
EXTENDS VpcNetwork, FiniteSetTheorems, TLAPS

Cidrs == [addr : Nat, size : Nat \ {0}]

-----------------------------------------------------------------------------
(* Buckets and blocks. *)

LEMMA EmptyDef ==
    DOMAIN EmptyBucket = {} /\ \A S : EmptyBucket \in [{} -> S]
BY DEF EmptyBucket

\* A block has a first and a last address, in this order.
LEMMA BlockEnds ==
    ASSUME NEW c \in Cidrs
    PROVE  First(c) \in Int /\ Last(c) \in Int /\ First(c) <= Last(c)
<1>1. c.addr % c.size \in Int
  BY DEF Cidrs
<1>2. First(c) \in Int
  BY <1>1 DEF First, Cidrs
<1>3. QED
  BY <1>2 DEF Last, Cidrs

\* overlaps compares the ends of the two blocks only, which is enough: the
\* blocks have an address in common exactly when it answers True.
THEOREM OverlapsCorrect ==
    ASSUME NEW c \in Cidrs, NEW d \in Cidrs
    PROVE  Overlaps(c, d) <=> \E x \in Int : Holds(c, x) /\ Holds(d, x)
BY BlockEnds DEF Overlaps, Holds

-----------------------------------------------------------------------------
(* Types. *)

\* A uuid drawn in this step is one no namespace holds.
LEMMA DrawOne ==
    ASSUME minted \in Nat, Draw(1)
    PROVE  /\ minted' \in Nat /\ Drawn \subseteq Drawn'
           /\ minted + 1 \in Drawn' /\ minted + 1 \in Id /\ minted + 1 \notin Drawn
BY DEF Draw, Drawn, Id

LEMMA DrawTwo ==
    ASSUME minted \in Nat, Draw(2)
    PROVE  /\ minted' \in Nat /\ Drawn \subseteq Drawn'
           /\ minted + 1 \in Drawn' /\ minted + 1 \in Id /\ minted + 1 \notin Drawn
           /\ minted + 2 \in Drawn' /\ minted + 2 \in Id /\ minted + 2 \notin Drawn
BY DEF Draw, Drawn, Id

LEMMA CidrTypes ==
    ASSUME NEW c \in Cidr
    PROVE  c \in Cidrs /\ Usable(c) \in Nat
BY NetworkAssumption DEF Cidrs, Usable

LEMMA NewSubnetType ==
    ASSUME NEW v \in Id, NEW c \in Cidr, NEW a \in Ref
    PROVE  NewSubnet(v, c, a) \in SubnetType
BY CidrTypes DEF NewSubnet, SubnetType, Ref

\* Changing one field of a stored subnet keeps the bucket well formed.
LEMMA SubnetUpdateType ==
    ASSUME TypeOK, NEW s \in DOMAIN subnets, NEW g \in Ref
    PROVE  /\ [subnets EXCEPT ![s].pgw = g] \in [DOMAIN subnets -> SubnetType]
           /\ [subnets EXCEPT ![s].available = @ - 1] \in [DOMAIN subnets -> SubnetType]
BY DEF TypeOK, SubnetType

LEMMA TypeStep == TypeOK /\ [Next]_vars => TypeOK'
<1> SUFFICES ASSUME TypeOK, [Next]_vars
             PROVE  TypeOK'
  OBVIOUS
<1>0. /\ minted \in Nat /\ Drawn \subseteq Id /\ None \in Ref /\ Id \subseteq Ref
      /\ vpcs \subseteq Id /\ network_acls \subseteq Id
      /\ DOMAIN subnets \subseteq Id /\ DOMAIN public_gateways \subseteq Id
  BY DEF TypeOK, Drawn, Ref
<1> USE DEF TypeOK
<1>1. CASE CreateVpc
  BY <1>1, DrawOne DEF CreateVpc
<1>2. CASE CreateFloatingIp
  BY <1>2, DrawOne DEF CreateFloatingIp
<1>3. CASE Reset
  BY <1>3, EmptyDef DEF Reset, Drawn
<1>4. CASE ResetOne
  BY <1>4, EmptyDef DEF ResetOne, Drawn
<1>5. ASSUME NEW v \in vpcs, DeleteVpc(v)
      PROVE  TypeOK'
  BY <1>5 DEF DeleteVpc, Drawn
<1>6. ASSUME NEW v \in vpcs, CreateNetworkAcl(v)
      PROVE  TypeOK'
  BY <1>6, DrawOne DEF CreateNetworkAcl
<1>7. ASSUME NEW v \in vpcs, NEW c \in Cidr, CreateSubnet(v, c)
      PROVE  TypeOK'
  <2>1. NewSubnet(v, c, minted + 2) \in SubnetType
    BY <1>0, <1>7, DrawTwo, NewSubnetType DEF CreateSubnet, Ref
  <2>2. /\ subnets' \in [DOMAIN subnets' -> SubnetType]
        /\ DOMAIN subnets' = DOMAIN subnets \cup {minted + 1}
    BY <1>7, <2>1 DEF CreateSubnet, BucketPut
  <2>3. QED
    BY <1>7, <2>2, DrawTwo DEF CreateSubnet
<1>8. ASSUME NEW v \in vpcs, NEW c \in Cidr, NEW a \in network_acls \cup {None},
             CreateSubnetWithAcl(v, c, a)
      PROVE  TypeOK'
  <2>1. NewSubnet(v, c, IF a \in network_acls THEN a ELSE None) \in SubnetType
    BY <1>0, NewSubnetType
  <2>2. /\ subnets' \in [DOMAIN subnets' -> SubnetType]
        /\ DOMAIN subnets' = DOMAIN subnets \cup {minted + 1}
    BY <1>8, <2>1 DEF CreateSubnetWithAcl, BucketPut
  <2>3. QED
    BY <1>8, <2>2, DrawOne DEF CreateSubnetWithAcl
<1>9. ASSUME NEW v \in vpcs, NEW z \in Zone, CreatePublicGateway(v, z)
      PROVE  TypeOK'
  <2>1. [vpc |-> v, zone |-> z, fip |-> minted + 2] \in GatewayType
    BY <1>0, <1>9, DrawTwo DEF CreatePublicGateway, ZoneFree, GatewayType
  <2>2. /\ public_gateways' \in [DOMAIN public_gateways' -> GatewayType]
        /\ DOMAIN public_gateways' = DOMAIN public_gateways \cup {minted + 1}
    BY <1>9, <2>1 DEF CreatePublicGateway, ZoneFree, BucketPut
  <2>3. QED
    BY <1>9, <2>2, DrawTwo DEF CreatePublicGateway, ZoneFree
<1>10. ASSUME NEW v \in vpcs, NEW s \in DOMAIN subnets, CreateInstance(v, s)
       PROVE  TypeOK'
  <2>1. [vpc |-> v, subnet |-> s] \in InstanceType
    BY <1>0 DEF InstanceType
  <2>2. subnets' \in [DOMAIN subnets -> SubnetType]
    BY <1>0, <1>10, SubnetUpdateType DEF CreateInstance
  <2>3. /\ instances' \in [DOMAIN instances' -> InstanceType]
        /\ DOMAIN instances' = DOMAIN instances \cup {minted + 1}
    BY <1>10, <2>1 DEF CreateInstance, BucketPut
  <2>4. QED
    BY <1>10, <2>2, <2>3, DrawOne DEF CreateInstance
<1>11. ASSUME NEW s \in DOMAIN subnets, DeleteSubnet(s)
       PROVE  TypeOK'
  <2>1. /\ subnets' \in [DOMAIN subnets' -> SubnetType]
        /\ DOMAIN subnets' \subseteq DOMAIN subnets
    BY <1>11 DEF DeleteSubnet, BucketDelete
  <2>2. QED
    BY <1>11, <2>1 DEF DeleteSubnet, Drawn
<1>12. ASSUME NEW s \in DOMAIN subnets, DetachGateway(s)
       PROVE  TypeOK'
  <2>1. subnets' \in [DOMAIN subnets -> SubnetType]
    BY <1>0, <1>12, SubnetUpdateType DEF DetachGateway, SetGateway
  <2>2. QED
    BY <1>12, <2>1 DEF DetachGateway, Drawn
<1>13. ASSUME NEW a \in network_acls, DeleteNetworkAcl(a)
       PROVE  TypeOK'
  BY <1>13 DEF DeleteNetworkAcl, Drawn
<1>14. ASSUME NEW g \in DOMAIN public_gateways, DeletePublicGateway(g)
       PROVE  TypeOK'
  <2>1. /\ public_gateways' \in [DOMAIN public_gateways' -> GatewayType]
        /\ DOMAIN public_gateways' \subseteq DOMAIN public_gateways
    BY <1>14 DEF DeletePublicGateway, BucketDelete
  <2>2. QED
    BY <1>14, <2>1 DEF DeletePublicGateway, Drawn
<1>15. ASSUME NEW f \in floating_ips, DeleteFloatingIp(f)
       PROVE  TypeOK'
  BY <1>15 DEF DeleteFloatingIp, Drawn
<1>16. ASSUME NEW i \in DOMAIN instances, RemoveInstance(i)
       PROVE  TypeOK'
  <2>1. /\ instances' \in [DOMAIN instances' -> InstanceType]
        /\ DOMAIN instances' \subseteq DOMAIN instances
    BY <1>16 DEF RemoveInstance, BucketDelete
  <2>2. QED
    BY <1>16, <2>1 DEF RemoveInstance, Drawn
<1>17. ASSUME NEW c \in Client, NEW s \in DOMAIN subnets, BeginAttach(c, s)
       PROVE  TypeOK'
  BY <1>0, <1>17 DEF BeginAttach, Drawn
<1>18. ASSUME NEW c \in Client, NEW g \in DOMAIN public_gateways \cup {None},
              FinishAttach(c, g)
       PROVE  TypeOK'
  <2>1. g \in Ref
    BY <1>0
  <2>2. subnets' \in [DOMAIN subnets -> SubnetType]
    <3>1. CASE SetGateway(pending[c], g) /\ pending[c] \in DOMAIN subnets
      BY <2>1, <3>1, SubnetUpdateType DEF SetGateway
    <3>2. CASE SetGateway(pending[c], g) /\ pending[c] \notin DOMAIN subnets
      BY <3>2 DEF SetGateway
    <3>3. CASE UNCHANGED subnets
      BY <3>3
    <3>4. QED
      BY <1>18, <3>1, <3>2, <3>3 DEF FinishAttach
  <2>3. pending' \in [Client -> Ref]
    BY <1>0, <1>18 DEF FinishAttach
  <2>4. QED
    BY <1>18, <2>2, <2>3 DEF FinishAttach, Drawn
<1>19. CASE UNCHANGED vars
  BY <1>19 DEF vars, Drawn
<1>20. QED
  BY <1>1, <1>2, <1>3, <1>4, <1>5, <1>6, <1>7, <1>8, <1>9, <1>10, <1>11, <1>12, <1>13,
     <1>14, <1>15, <1>16, <1>17, <1>18, <1>19 DEF Next

\* Every namespace holds what it should under uuids that were drawn.
THEOREM TypeCorrect == Spec => []TypeOK
<1>1. Init => TypeOK
  BY EmptyDef DEF Init, TypeOK, Ref, None
<1>2. QED
  BY <1>1, TypeStep, PTL DEF Spec
-----------------------------------------------------------------------------
(* Address spaces. *)

SubnetsKept == /\ DOMAIN subnets' \subseteq DOMAIN subnets
               /\ \A s \in DOMAIN subnets' : /\ subnets'[s].vpc = subnets[s].vpc
                                             /\ subnets'[s].cidr = subnets[s].cidr

SubnetAdded(v, c, a) ==
    /\ SubnetFits(v, c)
    /\ minted + 1 \notin DOMAIN subnets
    /\ subnets' = BucketPut(subnets, minted + 1, NewSubnet(v, c, a))

\* A step adds one subnet that fits, or touches no block and no VPC of any.
LEMMA SubnetChange ==
    ASSUME TypeOK, [Next]_vars
    PROVE  \/ SubnetsKept
           \/ \E v \in vpcs, c \in Cidr, a \in Ref : SubnetAdded(v, c, a)
<1>0. minted \in Nat /\ DOMAIN subnets \subseteq Drawn /\ Drawn \subseteq Id
      /\ network_acls \subseteq Id /\ None \in Ref /\ Id \subseteq Ref
  BY DEF TypeOK, Drawn, Ref
<1>1. CASE UNCHANGED subnets
  BY <1>1 DEF SubnetsKept
<1>2. ASSUME NEW v \in vpcs, NEW c \in Cidr, CreateSubnet(v, c)
      PROVE  \E a \in Ref : SubnetAdded(v, c, a)
  BY <1>0, <1>2, DrawTwo DEF CreateSubnet, SubnetAdded
<1>3. ASSUME NEW v \in vpcs, NEW c \in Cidr, NEW b, CreateSubnetWithAcl(v, c, b)
      PROVE  \E a \in Ref : SubnetAdded(v, c, a)
  <2>1. (IF b \in network_acls THEN b ELSE None) \in Ref
    BY <1>0
  <2>2. QED
    BY <1>0, <1>3, <2>1, DrawOne DEF CreateSubnetWithAcl, SubnetAdded
<1>4. ASSUME NEW s \in DOMAIN subnets, DeleteSubnet(s)
      PROVE  SubnetsKept
  BY <1>4 DEF DeleteSubnet, SubnetsKept, BucketDelete
<1>5. ASSUME NEW s, NEW g, SetGateway(s, g)
      PROVE  SubnetsKept
  BY <1>5 DEF SetGateway, SubnetsKept, TypeOK, SubnetType
<1>6. ASSUME NEW v \in vpcs, NEW s \in DOMAIN subnets, CreateInstance(v, s)
      PROVE  SubnetsKept
  <2>1. /\ DOMAIN subnets' = DOMAIN subnets
        /\ \A x \in DOMAIN subnets :
              subnets'[x] = IF x = s THEN [subnets[x] EXCEPT !.available = @ - 1]
                                     ELSE subnets[x]
    BY <1>6 DEF CreateInstance, TypeOK
  <2>2. \A x \in DOMAIN subnets : subnets[x] \in SubnetType
    BY DEF TypeOK
  <2>3. \A x \in DOMAIN subnets : /\ subnets'[x].vpc = subnets[x].vpc
                                  /\ subnets'[x].cidr = subnets[x].cidr
    BY <2>1, <2>2 DEF SubnetType
  <2>4. QED
    BY <2>1, <2>3 DEF SubnetsKept
<1>7. CASE subnets' = EmptyBucket
  BY <1>7, EmptyDef DEF SubnetsKept
<1>8. QED
  BY <1>1, <1>2, <1>3, <1>4, <1>5, <1>6, <1>7
     DEF Next, vars, CreateVpc, CreateFloatingIp, Reset, ResetOne, DeleteVpc,
         CreateNetworkAcl, CreatePublicGateway, ZoneFree, DetachGateway, DeleteNetworkAcl,
         DeletePublicGateway, DeleteFloatingIp, RemoveInstance, BeginAttach, FinishAttach

Disjoint(c, d) == \A x \in First(c) .. Last(c) : ~Holds(d, x)

LEMMA DisjointIfNoOverlap ==
    ASSUME NEW c \in Cidr, NEW d \in Cidr, ~Overlaps(c, d)
    PROVE  Disjoint(c, d) /\ Disjoint(d, c)
<1>1. c \in Cidrs /\ d \in Cidrs
  BY CidrTypes
<1>2. QED
  BY <1>1, OverlapsCorrect, BlockEnds DEF Disjoint, Holds

LEMMA DisjointStep == TypeOK /\ SubnetsDisjoint /\ [Next]_vars => SubnetsDisjoint'
<1> SUFFICES ASSUME TypeOK, SubnetsDisjoint, [Next]_vars,
                    NEW s \in DOMAIN subnets', NEW t \in DOMAIN subnets',
                    s # t, subnets'[s].vpc = subnets'[t].vpc
             PROVE  Disjoint(subnets'[s].cidr, subnets'[t].cidr)
  BY DEF SubnetsDisjoint, Disjoint
<1>1. CASE SubnetsKept
  BY <1>1 DEF SubnetsKept, SubnetsDisjoint, Disjoint
<1>2. ASSUME NEW v \in vpcs, NEW c \in Cidr, NEW a \in Ref, SubnetAdded(v, c, a)
      PROVE  Disjoint(subnets'[s].cidr, subnets'[t].cidr)
  <2> DEFINE n == minted + 1
  <2>1. /\ DOMAIN subnets' = DOMAIN subnets \cup {n}
        /\ subnets'[n].vpc = v /\ subnets'[n].cidr = c
        /\ \A x \in DOMAIN subnets : subnets'[x] = subnets[x]
    <3>1. DOMAIN subnets' = DOMAIN subnets \cup {n} /\ subnets'[n] = NewSubnet(v, c, a)
      BY <1>2 DEF SubnetAdded, BucketPut
    <3>2. \A x \in DOMAIN subnets : subnets'[x] = subnets[x]
      BY <1>2 DEF SubnetAdded, BucketPut
    <3>3. QED
      BY <3>1, <3>2 DEF NewSubnet
  <2>2. \A x \in DOMAIN subnets : subnets[x].cidr \in Cidr
    BY DEF TypeOK, SubnetType
  <2>3. ASSUME NEW x \in DOMAIN subnets, subnets[x].vpc = v
        PROVE  Disjoint(c, subnets[x].cidr) /\ Disjoint(subnets[x].cidr, c)
    <3>1. ~Overlaps(c, subnets[x].cidr)
      BY <1>2, <2>3 DEF SubnetAdded, SubnetFits, SubnetsOf
    <3>2. QED
      BY <2>2, <3>1, DisjointIfNoOverlap
  <2>4. CASE s = n
    BY <2>1, <2>3, <2>4
  <2>5. CASE t = n
    BY <2>1, <2>3, <2>5
  <2>6. CASE s # n /\ t # n
    BY <2>1, <2>6 DEF SubnetsDisjoint, Disjoint
  <2>7. QED
    BY <2>4, <2>5, <2>6
<1>3. QED
  BY <1>1, <1>2, SubnetChange

\* No two subnets of a VPC ever share an address.
THEOREM SubnetsDisjointCorrect == Spec => []SubnetsDisjoint
<1>1. Init => SubnetsDisjoint
  BY EmptyDef DEF Init, SubnetsDisjoint
<1>2. TypeOK /\ SubnetsDisjoint /\ [Next]_vars => SubnetsDisjoint'
  BY DisjointStep
<1>3. QED
  BY <1>1, <1>2, TypeCorrect, PTL DEF Spec
-----------------------------------------------------------------------------
(* Gateways. *)

LEMMA GatewayStep == TypeOK /\ OneGatewayPerZone /\ [Next]_vars => OneGatewayPerZone'
<1> SUFFICES ASSUME TypeOK, OneGatewayPerZone, [Next]_vars
             PROVE  OneGatewayPerZone'
  OBVIOUS
<1>1. ASSUME NEW v \in vpcs, NEW z \in Zone, CreatePublicGateway(v, z)
      PROVE  OneGatewayPerZone'
  <2> DEFINE n == minted + 1
  <2>1. n \notin DOMAIN public_gateways
    BY <1>1, DrawTwo DEF CreatePublicGateway, ZoneFree, TypeOK
  <2>2. /\ DOMAIN public_gateways' = DOMAIN public_gateways \cup {n}
        /\ public_gateways'[n].vpc = v /\ public_gateways'[n].zone = z
        /\ \A g \in DOMAIN public_gateways : public_gateways'[g] = public_gateways[g]
    BY <1>1, <2>1 DEF CreatePublicGateway, ZoneFree, BucketPut
  <2>3. \A g \in DOMAIN public_gateways :
           ~(public_gateways[g].vpc = v /\ public_gateways[g].zone = z)
    BY <1>1 DEF CreatePublicGateway, ZoneFree
  <2>4. QED
    BY <2>1, <2>2, <2>3 DEF OneGatewayPerZone
<1>2. ASSUME NEW g, DeletePublicGateway(g)
      PROVE  OneGatewayPerZone'
  BY <1>2 DEF DeletePublicGateway, BucketDelete, OneGatewayPerZone
<1>3. CASE public_gateways' = EmptyBucket
  BY <1>3, EmptyDef DEF OneGatewayPerZone
<1>4. CASE UNCHANGED public_gateways
  BY <1>4 DEF OneGatewayPerZone
<1>5. QED
  BY <1>1, <1>2, <1>3, <1>4
     DEF Next, vars, CreateVpc, CreateFloatingIp, Reset, ResetOne, DeleteVpc,
         CreateNetworkAcl, CreateSubnet, CreateSubnetWithAcl, CreateInstance, DeleteSubnet,
         DetachGateway, DeleteNetworkAcl, DeleteFloatingIp, RemoveInstance, BeginAttach,
         FinishAttach

\* A zone of a VPC never has two public gateways.
THEOREM OneGatewayPerZoneCorrect == Spec => []OneGatewayPerZone
<1>1. Init => OneGatewayPerZone
  BY EmptyDef DEF Init, OneGatewayPerZone
<1>2. TypeOK /\ OneGatewayPerZone /\ [Next]_vars => OneGatewayPerZone'
  BY GatewayStep
<1>3. QED
  BY <1>1, <1>2, TypeCorrect, PTL DEF Spec

-----------------------------------------------------------------------------
(* What was deleted stays deleted. *)

\* The step of a handler on one namespace: what is new in it was drawn.
LEMMA StoredStep ==
    ASSUME TypeOK, [Next]_vars
    PROVE  \A id \in Stored' \ Stored : id > minted
<1>1. minted \in Nat /\ minted + 1 > minted /\ minted + 2 > minted
  BY DEF TypeOK
<1>2. CASE \/ \E v \in vpcs, c \in Cidr :
               \/ CreateSubnet(v, c)
               \/ \E a \in network_acls \cup {None} : CreateSubnetWithAcl(v, c, a)
           \/ \E v \in vpcs, s \in DOMAIN subnets : CreateInstance(v, s)
           \/ \E v \in vpcs, z \in Zone : CreatePublicGateway(v, z)
           \/ CreateVpc \/ CreateFloatingIp \/ \E v \in vpcs : CreateNetworkAcl(v)
  <2>1. Stored' \subseteq Stored \cup {minted + 1, minted + 2}
    BY <1>2 DEF CreateSubnet, CreateSubnetWithAcl, CreateInstance, CreatePublicGateway,
                CreateVpc, CreateFloatingIp, CreateNetworkAcl, BucketPut, Stored
  <2> QED
    BY <1>1, <2>1
<1>3. \A s, g : SetGateway(s, g) => DOMAIN subnets' = DOMAIN subnets
  BY DEF SetGateway
<1>4. CASE \/ \E c \in Client, g \in DOMAIN public_gateways \cup {None} : FinishAttach(c, g)
           \/ \E s \in DOMAIN subnets : DetachGateway(s)
  BY <1>3, <1>4 DEF FinishAttach, DetachGateway, Stored
<1>5. CASE Reset \/ ResetOne
  <2>1. DOMAIN EmptyBucket = {}
    BY EmptyDef
  <2> QED
    BY <1>5, <2>1 DEF Reset, ResetOne, Stored
<1>6. CASE \/ \E v \in vpcs : DeleteVpc(v)
           \/ \E a \in network_acls : DeleteNetworkAcl(a)
           \/ \E f \in floating_ips : DeleteFloatingIp(f)
  BY <1>6 DEF DeleteVpc, DeleteNetworkAcl, DeleteFloatingIp, Stored
<1>7. \A bucket, id : DOMAIN BucketDelete(bucket, id) \subseteq DOMAIN bucket
  BY DEF BucketDelete
<1>8. CASE \/ \E s \in DOMAIN subnets : DeleteSubnet(s)
           \/ \E g \in DOMAIN public_gateways : DeletePublicGateway(g)
           \/ \E i \in DOMAIN instances : RemoveInstance(i)
  BY <1>7, <1>8 DEF DeleteSubnet, DeletePublicGateway, RemoveInstance, Stored
<1>9. CASE \/ \E c \in Client, s \in DOMAIN subnets : BeginAttach(c, s)
           \/ UNCHANGED vars
  BY <1>9 DEF BeginAttach, vars, Stored
<1> QED
  BY <1>2, <1>4, <1>5, <1>6, <1>8, <1>9 DEF Next

\* No handler brings back what another one deleted: what appears in a namespace carries a
\* uuid that was not drawn before, an attachment in flight or not.
THEOREM NothingReturnsCorrect == Spec => NothingReturns
<1>1. TypeOK /\ [Next]_vars => [\A id \in Stored' \ Stored : id > minted]_vars
  BY StoredStep
<1> QED
  BY <1>1, TypeCorrect, PTL DEF Spec, NothingReturns

-----------------------------------------------------------------------------
(* References: what a subnet names is in the store. *)

References == SubnetsInVpc /\ AttachmentsKept

LEMMA ReferenceStep ==
    TypeOK /\ References /\ [Next]_vars => References'
<1> SUFFICES ASSUME TypeOK, References, [Next]_vars, intact', subnets' # EmptyBucket
             PROVE  References'
  BY EmptyDef DEF References, SubnetsInVpc, AttachmentsKept
<1>a. intact /\ ~Reset /\ ~ResetOne
  BY DEF Reset, ResetOne, Next, vars, CreateVpc, CreateFloatingIp, DeleteVpc, CreateNetworkAcl,
         CreateSubnet, CreateSubnetWithAcl, CreatePublicGateway, ZoneFree, CreateInstance,
         DeleteSubnet, DetachGateway, DeleteNetworkAcl, DeletePublicGateway, DeleteFloatingIp,
         RemoveInstance, BeginAttach, FinishAttach
<1> USE DEF References
<1>0. \A s \in DOMAIN subnets : subnets[s] \in SubnetType
  BY DEF TypeOK
<1>1. ASSUME \A s \in DOMAIN subnets' :
                /\ s \in DOMAIN subnets /\ subnets'[s] = subnets[s]
                /\ subnets[s].vpc \in vpcs'
                /\ subnets[s].acl \in network_acls' \cup {None}
                /\ subnets[s].pgw \in DOMAIN public_gateways' \cup {None}
      PROVE  References'
  BY <1>1 DEF SubnetsInVpc, AttachmentsKept
<1>2. \A s \in DOMAIN subnets :
         /\ subnets[s].vpc \in vpcs
         /\ subnets[s].acl \in network_acls \cup {None}
         /\ subnets[s].pgw \in DOMAIN public_gateways \cup {None}
  BY <1>a DEF SubnetsInVpc, AttachmentsKept
<1>3. ASSUME NEW v \in vpcs, NEW c, NEW a, minted + 1 \notin DOMAIN subnets,
             subnets' = BucketPut(subnets, minted + 1, NewSubnet(v, c, a)),
             vpcs' = vpcs, network_acls \subseteq network_acls',
             a \in network_acls' \cup {None}, public_gateways' = public_gateways
      PROVE  References'
  BY <1>2, <1>3 DEF BucketPut, NewSubnet, SubnetsInVpc, AttachmentsKept
<1>4. ASSUME NEW s, NEW g \in DOMAIN public_gateways \cup {None}, SetGateway(s, g),
             vpcs' = vpcs, network_acls' = network_acls, public_gateways' = public_gateways
      PROVE  References'
  <2>1. DOMAIN subnets' = DOMAIN subnets
    BY <1>4 DEF SetGateway
  <2>2. \A x \in DOMAIN subnets :
           /\ subnets'[x].vpc = subnets[x].vpc /\ subnets'[x].acl = subnets[x].acl
           /\ subnets'[x].pgw = subnets[x].pgw \/ subnets'[x].pgw = g
    BY <1>0, <1>4 DEF SetGateway, SubnetType
  <2>3. QED
    BY <1>2, <1>4, <2>1, <2>2 DEF SubnetsInVpc, AttachmentsKept
<1>5. ASSUME NEW v \in vpcs, DeleteVpc(v)
      PROVE  References'
  BY <1>1, <1>2, <1>5 DEF DeleteVpc, SubnetsOf
<1>6. ASSUME NEW a, DeleteNetworkAcl(a)
      PROVE  References'
  BY <1>1, <1>2, <1>6 DEF DeleteNetworkAcl
<1>7. ASSUME NEW g, DeletePublicGateway(g)
      PROVE  References'
  BY <1>1, <1>2, <1>7 DEF DeletePublicGateway, BucketDelete
<1>8. ASSUME NEW s, DeleteSubnet(s)
      PROVE  References'
  BY <1>1, <1>2, <1>8 DEF DeleteSubnet, BucketDelete
<1>9. ASSUME NEW v \in vpcs, NEW z, CreatePublicGateway(v, z)
      PROVE  References'
  BY <1>1, <1>2, <1>9 DEF CreatePublicGateway, ZoneFree, BucketPut
<1>10. ASSUME NEW v \in vpcs, NEW c \in Cidr, CreateSubnet(v, c)
       PROVE  References'
  <2>1. minted + 1 \notin DOMAIN subnets
    BY <1>10, DrawTwo DEF CreateSubnet, TypeOK
  <2>2. QED
    BY <1>3, <1>10, <2>1 DEF CreateSubnet
<1>11. ASSUME NEW v \in vpcs, NEW c \in Cidr, NEW a, CreateSubnetWithAcl(v, c, a)
       PROVE  References'
  <2>1. minted + 1 \notin DOMAIN subnets
    BY <1>11, DrawOne DEF CreateSubnetWithAcl, TypeOK
  <2>2. QED
    BY <1>3, <1>11, <2>1 DEF CreateSubnetWithAcl
<1>12. ASSUME NEW v, NEW s \in DOMAIN subnets, CreateInstance(v, s)
       PROVE  References'
  <2>1. \A x \in DOMAIN subnets :
           /\ subnets'[x].vpc = subnets[x].vpc /\ subnets'[x].acl = subnets[x].acl
           /\ subnets'[x].pgw = subnets[x].pgw
    BY <1>0, <1>12 DEF CreateInstance, SubnetType
  <2>2. QED
    BY <1>2, <1>12, <2>1 DEF CreateInstance, SubnetsInVpc, AttachmentsKept
<1>13. ASSUME NEW s \in DOMAIN subnets, DetachGateway(s)
       PROVE  References'
  BY <1>4, <1>13 DEF DetachGateway
<1>14. ASSUME NEW c, NEW g, FinishAttach(c, g)
       PROVE  References'
  <2>1. CASE UNCHANGED subnets
    BY <1>1, <1>2, <1>14, <2>1 DEF FinishAttach
  <2>2. CASE g \in DOMAIN public_gateways /\ SetGateway(pending[c], g)
    BY <1>4, <1>14, <2>2 DEF FinishAttach
  <2>3. QED
    BY <1>14, <2>1, <2>2 DEF FinishAttach
<1>15. CASE /\ UNCHANGED <<subnets, public_gateways>>
            /\ vpcs \subseteq vpcs' /\ network_acls \subseteq network_acls'
  BY <1>1, <1>2, <1>15
<1>16. QED
  BY <1>a, <1>5, <1>6, <1>7, <1>8, <1>9, <1>10, <1>11, <1>12, <1>13, <1>14, <1>15
     DEF Next, vars, CreateVpc, CreateFloatingIp, CreateNetworkAcl,
         DeleteFloatingIp, RemoveInstance, BeginAttach

LEMMA ReferencesCorrect == Spec => []References
<1>1. Init => References
  BY EmptyDef DEF Init, References, SubnetsInVpc, AttachmentsKept
<1>2. TypeOK /\ References /\ [Next]_vars => References'
  BY ReferenceStep
<1>3. QED
  BY <1>1, <1>2, TypeCorrect, PTL DEF Spec

\* Unless a namespace was emptied alone, a subnet never outlives its VPC.
THEOREM SubnetsInVpcCorrect == Spec => []SubnetsInVpc
<1>1. References => SubnetsInVpc
  BY DEF References
<1>2. QED
  BY <1>1, ReferencesCorrect, PTL

\* Nor does it outlive the ACL it is under or the gateway it is attached to.
THEOREM AttachmentsKeptCorrect == Spec => []AttachmentsKept
<1>1. References => AttachmentsKept
  BY DEF References
<1>2. QED
  BY <1>1, ReferencesCorrect, PTL

-----------------------------------------------------------------------------
(* Address counts. *)

\* An instance names a subnet whose uuid was drawn, so a new subnet has none.
SubnetRefsDrawn == \A i \in DOMAIN instances : instances[i].subnet \in Drawn

AddressInv == TypeOK /\ SubnetRefsDrawn /\ AddressesNotOverstated

LEMMA InstancesFinite ==
    ASSUME TypeOK, NEW s
    PROVE  IsFiniteSet(InstancesOf(s)) /\ Cardinality(InstancesOf(s)) \in Nat
<1>1. DOMAIN instances \in SUBSET Nat /\ \A i \in DOMAIN instances : i <= minted
  BY DEF TypeOK, Drawn, Id
<1>2. IsFiniteSet(DOMAIN instances)
  BY <1>1, FS_BoundedSetOfNaturals DEF TypeOK
<1>3. InstancesOf(s) \in SUBSET DOMAIN instances
  BY DEF InstancesOf
<1>4. QED
  BY <1>2, <1>3, FS_Subset, FS_CardinalityType

\* Fewer instances in a subnet that keeps its count leave it right.
LEMMA FewerInstances ==
    ASSUME TypeOK, AddressesNotOverstated,
           NEW s \in DOMAIN subnets, InstancesOf(s)' \subseteq InstancesOf(s)
    PROVE  subnets[s].available + Cardinality(InstancesOf(s)') <= Usable(subnets[s].cidr)
<1>1. /\ IsFiniteSet(InstancesOf(s)) /\ Cardinality(InstancesOf(s)) \in Nat
      /\ InstancesOf(s)' \in SUBSET InstancesOf(s)
  BY InstancesFinite
<1>2. /\ Cardinality(InstancesOf(s)') <= Cardinality(InstancesOf(s))
      /\ Cardinality(InstancesOf(s)') \in Nat
  BY <1>1, FS_Subset, FS_CardinalityType
<1>3. subnets[s].available \in Int /\ Usable(subnets[s].cidr) \in Nat
  BY CidrTypes DEF TypeOK, SubnetType
<1>4. QED
  BY <1>1, <1>2, <1>3 DEF AddressesNotOverstated

LEMMA AddressStep == AddressInv /\ [Next]_vars => SubnetRefsDrawn' /\ AddressesNotOverstated'
<1> SUFFICES ASSUME AddressInv, [Next]_vars
             PROVE  SubnetRefsDrawn' /\ AddressesNotOverstated'
  OBVIOUS
<1> USE DEF AddressInv
<1>0. \A x \in DOMAIN subnets : subnets[x] \in SubnetType
  BY DEF TypeOK
<1>1. ASSUME instances' = instances, Drawn \subseteq Drawn',
             \A x \in DOMAIN subnets' :
                /\ x \in DOMAIN subnets
                /\ subnets'[x].available = subnets[x].available
                /\ subnets'[x].cidr = subnets[x].cidr
      PROVE  SubnetRefsDrawn' /\ AddressesNotOverstated'
  BY <1>1 DEF SubnetRefsDrawn, AddressesNotOverstated, InstancesOf
<1>2. ASSUME NEW v, NEW c \in Cidr, NEW a, minted + 1 \notin Drawn, Drawn \subseteq Drawn',
             subnets' = BucketPut(subnets, minted + 1, NewSubnet(v, c, a)),
             instances' = instances
      PROVE  SubnetRefsDrawn' /\ AddressesNotOverstated'
  <2>0. PICK n : n = minted + 1
    OBVIOUS
  <2>1. SubnetRefsDrawn'
    BY <1>2 DEF SubnetRefsDrawn
  <2>2. /\ DOMAIN subnets' = DOMAIN subnets \cup {n}
        /\ subnets'[n] = NewSubnet(v, c, a)
        /\ \A x \in DOMAIN subnets \ {n} : subnets'[x] = subnets[x]
    BY <1>2, <2>0 DEF BucketPut
  <2>3. InstancesOf(n)' = {} /\ \A x : InstancesOf(x)' = InstancesOf(x)
    BY <1>2, <2>0 DEF InstancesOf, SubnetRefsDrawn
  <2>4. subnets'[n].available + Cardinality(InstancesOf(n)') <= Usable(subnets'[n].cidr)
    <3>1. Cardinality(InstancesOf(n)') = 0
      BY <2>3, FS_EmptySet
    <3>2. subnets'[n].available = Usable(c) /\ subnets'[n].cidr = c
      BY <2>2 DEF NewSubnet
    <3>3. QED
      BY <3>1, <3>2, CidrTypes
  <2>5. ASSUME NEW x \in DOMAIN subnets \ {n}
        PROVE  subnets'[x].available + Cardinality(InstancesOf(x)')
                 <= Usable(subnets'[x].cidr)
    BY <2>2, <2>3, <2>5 DEF AddressesNotOverstated
  <2>6. AddressesNotOverstated'
    BY <2>2, <2>4, <2>5 DEF AddressesNotOverstated
  <2>7. QED
    BY <2>1, <2>6
<1>3. ASSUME NEW v, NEW s \in DOMAIN subnets, CreateInstance(v, s)
      PROVE  SubnetRefsDrawn' /\ AddressesNotOverstated'
  <2> DEFINE n == minted + 1
  <2>1. /\ DOMAIN instances' = DOMAIN instances \cup {n}
        /\ instances'[n].subnet = s /\ n \notin DOMAIN instances
        /\ \A i \in DOMAIN instances : instances'[i] = instances[i]
    BY <1>3, DrawOne DEF CreateInstance, BucketPut, TypeOK
  <2>2. s \in Drawn /\ Drawn \subseteq Drawn'
    BY <1>3, DrawOne DEF CreateInstance, TypeOK
  <2>3. SubnetRefsDrawn'
    BY <2>1, <2>2 DEF SubnetRefsDrawn
  <2>4. /\ DOMAIN subnets' = DOMAIN subnets
        /\ \A x \in DOMAIN subnets \ {s} : subnets'[x] = subnets[x]
        /\ subnets'[s] = [subnets[s] EXCEPT !.available = @ - 1]
    BY <1>3 DEF CreateInstance, TypeOK
  <2>5. /\ InstancesOf(s)' = InstancesOf(s) \cup {n} /\ n \notin InstancesOf(s)
        /\ \A x \in DOMAIN subnets \ {s} : InstancesOf(x)' = InstancesOf(x)
    BY <2>1 DEF InstancesOf
  <2>6. subnets'[s].available + Cardinality(InstancesOf(s)') <= Usable(subnets'[s].cidr)
    <3>1. IsFiniteSet(InstancesOf(s)) /\ Cardinality(InstancesOf(s)) \in Nat
      BY InstancesFinite
    <3>2. Cardinality(InstancesOf(s)') = Cardinality(InstancesOf(s)) + 1
      BY <2>5, <3>1, FS_AddElement
    <3>3. /\ subnets'[s].available = subnets[s].available - 1
          /\ subnets'[s].cidr = subnets[s].cidr
          /\ subnets[s].available \in Int /\ Usable(subnets[s].cidr) \in Nat
      BY <1>0, <2>4, CidrTypes DEF SubnetType
    <3>4. QED
      BY <3>1, <3>2, <3>3 DEF AddressesNotOverstated
  <2>7. AddressesNotOverstated'
    BY <2>4, <2>5, <2>6 DEF AddressesNotOverstated
  <2>8. QED
    BY <2>3, <2>7
<1>4. ASSUME subnets' = subnets, Drawn' = Drawn, DOMAIN instances' \subseteq DOMAIN instances,
             \A i \in DOMAIN instances' : instances'[i] = instances[i]
      PROVE  SubnetRefsDrawn' /\ AddressesNotOverstated'
  <2>1. SubnetRefsDrawn'
    BY <1>4 DEF SubnetRefsDrawn
  <2>2. \A s : InstancesOf(s)' \subseteq InstancesOf(s)
    BY <1>4 DEF InstancesOf
  <2>3. QED
    BY <1>4, <2>1, <2>2, FewerInstances DEF AddressesNotOverstated
<1>5. ASSUME NEW s, NEW g, SetGateway(s, g), instances' = instances, minted' = minted
      PROVE  SubnetRefsDrawn' /\ AddressesNotOverstated'
  <2>1. \A x \in DOMAIN subnets' :
           /\ x \in DOMAIN subnets
           /\ subnets'[x].available = subnets[x].available
           /\ subnets'[x].cidr = subnets[x].cidr
    BY <1>0, <1>5 DEF SetGateway, SubnetType
  <2>2. QED
    BY <1>1, <1>5, <2>1 DEF Drawn
<1>6. CASE /\ subnets' = subnets \/ subnets' = EmptyBucket
           /\ instances' = instances /\ Drawn \subseteq Drawn'
  BY <1>1, <1>6, EmptyDef
<1>7. CASE subnets' = EmptyBucket /\ instances' = EmptyBucket
  BY <1>7, EmptyDef DEF SubnetRefsDrawn, AddressesNotOverstated
<1>8. CASE subnets' = subnets /\ instances' = EmptyBucket /\ minted' = minted
  BY <1>4, <1>8, EmptyDef DEF Drawn
<1>9. ASSUME NEW s, DeleteSubnet(s)
      PROVE  SubnetRefsDrawn' /\ AddressesNotOverstated'
  BY <1>1, <1>9 DEF DeleteSubnet, BucketDelete, Drawn
<1>10. ASSUME NEW i, RemoveInstance(i)
       PROVE  SubnetRefsDrawn' /\ AddressesNotOverstated'
  BY <1>4, <1>10 DEF RemoveInstance, BucketDelete, Drawn
<1>11. ASSUME NEW v, NEW c \in Cidr, CreateSubnet(v, c)
       PROVE  SubnetRefsDrawn' /\ AddressesNotOverstated'
  BY <1>2, <1>11, DrawTwo DEF CreateSubnet, TypeOK
<1>12. ASSUME NEW v, NEW c \in Cidr, NEW a, CreateSubnetWithAcl(v, c, a)
       PROVE  SubnetRefsDrawn' /\ AddressesNotOverstated'
  BY <1>2, <1>12, DrawOne DEF CreateSubnetWithAcl, TypeOK
<1>13. minted' = minted \/ Draw(1) \/ Draw(2) => Drawn \subseteq Drawn'
  BY DrawOne, DrawTwo DEF TypeOK, Drawn
<1>14. ASSUME NEW c, NEW g, FinishAttach(c, g)
       PROVE  SubnetRefsDrawn' /\ AddressesNotOverstated'
  BY <1>5, <1>6, <1>13, <1>14 DEF FinishAttach
<1>15. CASE Reset \/ ResetOne
  BY <1>6, <1>7, <1>8, <1>13, <1>15 DEF Reset, ResetOne
<1>16. ASSUME NEW s, DetachGateway(s)
       PROVE  SubnetRefsDrawn' /\ AddressesNotOverstated'
  BY <1>5, <1>16 DEF DetachGateway
<1>17. QED
  BY <1>3, <1>6, <1>9, <1>10, <1>11, <1>12, <1>13, <1>14, <1>15, <1>16
     DEF Next, vars, CreateVpc, CreateFloatingIp, DeleteVpc, CreateNetworkAcl,
         CreatePublicGateway, ZoneFree, DeleteNetworkAcl, DeletePublicGateway, DeleteFloatingIp,
         BeginAttach

\* A subnet never advertises more addresses than its instances leave it, through
\* any sequence of creations, deletions and resets.
THEOREM AddressesCorrect == Spec => []AddressesNotOverstated
<1>1. Init => AddressInv
  <2>1. Init => TypeOK
    BY EmptyDef DEF Init, TypeOK, Ref, None
  <2>2. QED
    BY <2>1, EmptyDef DEF Init, AddressInv, SubnetRefsDrawn, AddressesNotOverstated
<1>2. AddressInv /\ [Next]_vars => AddressInv'
  BY TypeStep, AddressStep DEF AddressInv
<1>3. AddressInv => AddressesNotOverstated
  BY DEF AddressInv
<1>4. QED
  BY <1>1, <1>2, <1>3, PTL DEF Spec
=============================================================================
