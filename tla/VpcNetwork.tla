------------------------------ MODULE VpcNetwork ------------------------------
(***************************************************************************)
(* The references between the resources of the VPC API: VPCs, subnets,     *)
(* network ACLs, public gateways, floating IPs and instances, with the     *)
(* handlers of src/providers/vpc.py, network_acl.py and public_gateway.py  *)
(* that create, attach and delete them.  Each variable is a namespace of   *)
(* the store.  Security groups are left to a module of their own, and the  *)
(* status of an instance to InstanceLifecycle.                             *)
(*                                                                         *)
(* A create handler awaits its body before it looks at the store, so the   *)
(* rest of it is one step.  attach_subnet_gateway finds the subnet, awaits *)
(* the body, and then finds the gateway: it is two steps.  A PATCH renames *)
(* a resource and is left out.  A request that is refused changes nothing: *)
(* its conditions are the guards.                                          *)
(***************************************************************************)
EXTENDS Integers, FiniteSets, StateStore

CONSTANTS Cidr,             \* the blocks a client may ask for
          Zone,             \* the names of the zones
          Client,           \* connections with an attachment in flight
          MaxId             \* bound: how many uuids are drawn

ASSUME NetworkAssumption ==
    /\ Cidr \subseteq [addr : Nat, size : Nat \ {0}]
    /\ MaxId \in Nat

VARIABLES
    vpcs, subnets, network_acls, public_gateways, floating_ips, instances,
    pending,   \* the subnet each in-flight attach_subnet_gateway has found
    minted,    \* how many uuids were drawn: uuids are numbered as they are drawn
    intact     \* history: no namespace was emptied alone since the whole store was

vars == <<vpcs, subnets, network_acls, public_gateways, floating_ips, instances,
          pending, minted, intact>>

Id == Nat \ {0}
None == 0      \* no reference, and no request

-----------------------------------------------------------------------------
(* ipaddress.IPv4Network(block, strict=False): a block holds size addresses, *)
(* and an address with host bits set stands for the block it lies in.        *)

First(c) == c.addr - (c.addr % c.size)
Last(c) == First(c) + c.size - 1

Holds(c, addr) == First(c) <= addr /\ addr <= Last(c)

\* Mutant: a block around the other one is not seen.
OverlapsEnds(c, d) == Holds(c, First(d)) \/ Holds(c, Last(d))

\* IPv4Network.overlaps looks at the ends of the two blocks.
Overlaps(c, d) == \/ Holds(c, First(d)) \/ Holds(c, Last(d))
                  \/ Holds(d, First(c)) \/ Holds(d, Last(c))

\* Usable addresses: all but the network, the broadcast and three reserved.
Usable(c) == IF c.size > 5 THEN c.size - 5 ELSE 0

\* _generate_private_ip draws from the fifth host on, and raises ValueError
\* when the block has fewer hosts.
HasPrivateIp(c) == c.size - 2 >= 5

-----------------------------------------------------------------------------
Init == /\ vpcs = {}
        /\ subnets = EmptyBucket
        /\ network_acls = {}
        /\ public_gateways = EmptyBucket
        /\ floating_ips = {}
        /\ instances = EmptyBucket
        /\ pending = [c \in Client |-> None]
        /\ minted = 0
        /\ intact = TRUE

\* Mutant: the last id drawn is drawn again.
DrawAgain(n) == /\ minted + n <= MaxId
                /\ minted' = minted + n - 1

Draw(n) == /\ minted + n <= MaxId
           /\ minted' = minted + n

CreateVpc == /\ Draw(1)
             /\ vpcs' = vpcs \cup {minted + 1}
             /\ UNCHANGED <<subnets, network_acls, public_gateways, floating_ips,
                            instances, pending, intact>>

SubnetsOf(v) == {s \in DOMAIN subnets : subnets[s].vpc = v}

\* Mutant: no dependants are looked for.
DeleteVpcAlways(v) ==
    /\ v \in vpcs
    /\ vpcs' = vpcs \ {v}
    /\ UNCHANGED <<subnets, network_acls, public_gateways, floating_ips,
                   instances, pending, minted, intact>>

\* The only dependants that are looked for are subnets.
DeleteVpc(v) == /\ v \in vpcs
                /\ SubnetsOf(v) = {}
                /\ vpcs' = vpcs \ {v}
                /\ UNCHANGED <<subnets, network_acls, public_gateways, floating_ips,
                               instances, pending, minted, intact>>

NewSubnet(v, c, acl) == [vpc |-> v, cidr |-> c, acl |-> acl, pgw |-> None,
                         available |-> Usable(c)]

SubnetFits(v, c) == /\ v \in vpcs
                    /\ \A s \in SubnetsOf(v) : ~Overlaps(c, subnets[s].cidr)

\* create_subnet with an ACL named in the body: an unknown one is dropped.
CreateSubnetWithAcl(v, c, acl) ==
    /\ SubnetFits(v, c)
    /\ Draw(1)
    /\ subnets' = BucketPut(subnets, minted + 1,
                            NewSubnet(v, c, IF acl \in network_acls THEN acl ELSE None))
    /\ UNCHANGED <<vpcs, network_acls, public_gateways, floating_ips,
                   instances, pending, intact>>

\* create_subnet without one: a default ACL is created for the subnet.
CreateSubnet(v, c) ==
    /\ SubnetFits(v, c)
    /\ Draw(2)
    /\ network_acls' = network_acls \cup {minted + 2}
    /\ subnets' = BucketPut(subnets, minted + 1, NewSubnet(v, c, minted + 2))
    /\ UNCHANGED <<vpcs, public_gateways, floating_ips, instances, pending, intact>>

DeleteSubnet(s) ==
    /\ s \in DOMAIN subnets
    /\ subnets' = BucketDelete(subnets, s)
    /\ UNCHANGED <<vpcs, network_acls, public_gateways, floating_ips, instances,
                   pending, minted, intact>>

-----------------------------------------------------------------------------
CreateNetworkAcl(v) ==
    /\ v \in vpcs
    /\ Draw(1)
    /\ network_acls' = network_acls \cup {minted + 1}
    /\ UNCHANGED <<vpcs, subnets, public_gateways, floating_ips, instances,
                   pending, intact>>

DeleteNetworkAcl(a) ==
    /\ a \in network_acls
    /\ \A s \in DOMAIN subnets : subnets[s].acl # a
    /\ network_acls' = network_acls \ {a}
    /\ UNCHANGED <<vpcs, subnets, public_gateways, floating_ips, instances,
                   pending, minted, intact>>

\* Mutant: only a gateway that serves a subnet occupies its zone.
ZoneUnserved(v, z) ==
    \A g \in {subnets[s].pgw : s \in DOMAIN subnets} \ {None} :
       ~(public_gateways[g].vpc = v /\ public_gateways[g].zone = z)

ZoneFree(v, z) ==
    \A g \in DOMAIN public_gateways :
       ~(public_gateways[g].vpc = v /\ public_gateways[g].zone = z)

\* A new floating IP is reserved. One named in the body is parsed and never read,
\* so the action has no such parameter.
CreatePublicGateway(v, z) ==
    /\ v \in vpcs
    /\ ZoneFree(v, z)
    /\ Draw(2)
    /\ floating_ips' = floating_ips \cup {minted + 2}
    /\ public_gateways' = BucketPut(public_gateways, minted + 1,
                                    [vpc |-> v, zone |-> z, fip |-> minted + 2])
    /\ UNCHANGED <<vpcs, subnets, network_acls, instances, pending, intact>>

\* Mutant: nothing asks whether a subnet is attached.
DeleteGatewayAlways(g) ==
    /\ g \in DOMAIN public_gateways
    /\ public_gateways' = BucketDelete(public_gateways, g)
    /\ UNCHANGED <<vpcs, subnets, network_acls, floating_ips, instances,
                   pending, minted, intact>>

DeletePublicGateway(g) ==
    /\ g \in DOMAIN public_gateways
    /\ \A s \in DOMAIN subnets : subnets[s].pgw # g
    /\ public_gateways' = BucketDelete(public_gateways, g)
    /\ UNCHANGED <<vpcs, subnets, network_acls, floating_ips, instances,
                   pending, minted, intact>>

BeginAttach(c, s) ==
    /\ pending[c] = None
    /\ s \in DOMAIN subnets
    /\ pending' = [pending EXCEPT ![c] = s]
    /\ UNCHANGED <<vpcs, subnets, network_acls, public_gateways, floating_ips,
                   instances, minted, intact>>

\* Mutant: store.put, which does not ask whether the subnet is gone.
PutGateway(s, g) ==
    \E v \in vpcs, c \in Cidr :
       subnets' = BucketPut(subnets, s, [NewSubnet(v, c, None) EXCEPT !.pgw = g])

\* store.update, a no-op when the subnet is gone.
SetGateway(s, g) ==
    subnets' = IF s \in DOMAIN subnets THEN [subnets EXCEPT ![s].pgw = g] ELSE subnets

\* With no gateway of the id in the body, the answer is 404.
FinishAttach(c, g) ==
    /\ pending[c] # None
    /\ \/ g \in DOMAIN public_gateways /\ SetGateway(pending[c], g)
       \/ g = None /\ UNCHANGED subnets
    /\ pending' = [pending EXCEPT ![c] = None]
    /\ UNCHANGED <<vpcs, network_acls, public_gateways, floating_ips,
                   instances, minted, intact>>

DetachGateway(s) ==
    /\ s \in DOMAIN subnets
    /\ SetGateway(s, None)
    /\ UNCHANGED <<vpcs, network_acls, public_gateways, floating_ips, instances,
                   pending, minted, intact>>

CreateFloatingIp ==
    /\ Draw(1)
    /\ floating_ips' = floating_ips \cup {minted + 1}
    /\ UNCHANGED <<vpcs, subnets, network_acls, public_gateways, instances,
                   pending, intact>>

\* Nothing asks whether a gateway uses it: the gateway goes on showing it.
DeleteFloatingIp(f) ==
    /\ f \in floating_ips
    /\ floating_ips' = floating_ips \ {f}
    /\ UNCHANGED <<vpcs, subnets, network_acls, public_gateways, instances,
                   pending, minted, intact>>

-----------------------------------------------------------------------------
\* Mutant: the address the instance takes is still counted as available.
CreateInstanceUncounted(v, s) ==
    /\ v \in vpcs
    /\ s \in DOMAIN subnets
    /\ HasPrivateIp(subnets[s].cidr)
    /\ Draw(1)
    /\ instances' = BucketPut(instances, minted + 1, [vpc |-> v, subnet |-> s])
    /\ UNCHANGED <<vpcs, subnets, network_acls, public_gateways, floating_ips,
                   pending, intact>>

\* The VPC and the subnet must exist; the subnet may be of another VPC.
CreateInstance(v, s) ==
    /\ v \in vpcs
    /\ s \in DOMAIN subnets
    /\ HasPrivateIp(subnets[s].cidr)
    /\ Draw(1)
    /\ instances' = BucketPut(instances, minted + 1, [vpc |-> v, subnet |-> s])
    /\ subnets' = [subnets EXCEPT ![s].available = @ - 1]
    /\ UNCHANGED <<vpcs, network_acls, public_gateways, floating_ips, pending, intact>>

\* The cleanup task of delete_instance: the address is not given back.
RemoveInstance(i) ==
    /\ i \in DOMAIN instances
    /\ instances' = BucketDelete(instances, i)
    /\ UNCHANGED <<vpcs, subnets, network_acls, public_gateways, floating_ips,
                   pending, minted, intact>>

Reset == /\ vpcs' = {} /\ subnets' = EmptyBucket /\ network_acls' = {}
         /\ public_gateways' = EmptyBucket /\ floating_ips' = {}
         /\ instances' = EmptyBucket
         /\ intact' = TRUE
         /\ UNCHANGED <<pending, minted>>

\* POST /_emulator/reset/{namespace} empties one namespace under the others.
ResetOne ==
    /\ intact' = FALSE
    /\ \/ /\ vpcs' = {}
          /\ UNCHANGED <<subnets, network_acls, public_gateways, floating_ips, instances>>
       \/ /\ subnets' = EmptyBucket
          /\ UNCHANGED <<vpcs, network_acls, public_gateways, floating_ips, instances>>
       \/ /\ network_acls' = {}
          /\ UNCHANGED <<vpcs, subnets, public_gateways, floating_ips, instances>>
       \/ /\ public_gateways' = EmptyBucket
          /\ UNCHANGED <<vpcs, subnets, network_acls, floating_ips, instances>>
       \/ /\ floating_ips' = {}
          /\ UNCHANGED <<vpcs, subnets, network_acls, public_gateways, instances>>
       \/ /\ instances' = EmptyBucket
          /\ UNCHANGED <<vpcs, subnets, network_acls, public_gateways, floating_ips>>
    /\ UNCHANGED <<pending, minted>>

Next ==
    \/ CreateVpc \/ CreateFloatingIp \/ Reset \/ ResetOne
    \/ \E v \in vpcs : DeleteVpc(v) \/ CreateNetworkAcl(v)
    \/ \E v \in vpcs, c \in Cidr :
          \/ CreateSubnet(v, c)
          \/ \E a \in network_acls \cup {None} : CreateSubnetWithAcl(v, c, a)
    \/ \E v \in vpcs, z \in Zone : CreatePublicGateway(v, z)
    \/ \E v \in vpcs, s \in DOMAIN subnets : CreateInstance(v, s)
    \/ \E s \in DOMAIN subnets : DeleteSubnet(s) \/ DetachGateway(s)
    \/ \E a \in network_acls : DeleteNetworkAcl(a)
    \/ \E g \in DOMAIN public_gateways : DeletePublicGateway(g)
    \/ \E f \in floating_ips : DeleteFloatingIp(f)
    \/ \E i \in DOMAIN instances : RemoveInstance(i)
    \/ \E c \in Client : \/ \E s \in DOMAIN subnets : BeginAttach(c, s)
                         \/ \E g \in DOMAIN public_gateways \cup {None} : FinishAttach(c, g)

Spec == Init /\ [][Next]_vars

-----------------------------------------------------------------------------
Ref == Id \cup {None}

SubnetType == [vpc : Id, cidr : Cidr, acl : Ref, pgw : Ref, available : Int]
GatewayType == [vpc : Id, zone : Zone, fip : Id]
InstanceType == [vpc : Id, subnet : Id]

Drawn == {i \in Id : i <= minted}

TypeOK ==
    /\ minted \in Nat /\ intact \in BOOLEAN
    /\ vpcs \subseteq Drawn /\ network_acls \subseteq Drawn /\ floating_ips \subseteq Drawn
    /\ DOMAIN subnets \subseteq Drawn /\ DOMAIN public_gateways \subseteq Drawn
    /\ DOMAIN instances \subseteq Drawn
    /\ subnets \in [DOMAIN subnets -> SubnetType]
    /\ public_gateways \in [DOMAIN public_gateways -> GatewayType]
    /\ instances \in [DOMAIN instances -> InstanceType]
    /\ pending \in [Client -> Ref]

\* The address spaces of the subnets of one VPC are disjoint, however many
\* subnets were created and deleted, with host bits set in a block or not.
SubnetsDisjoint ==
    \A s, t \in DOMAIN subnets :
        s # t /\ subnets[s].vpc = subnets[t].vpc =>
          \A x \in First(subnets[s].cidr) .. Last(subnets[s].cidr) :
             ~Holds(subnets[t].cidr, x)

\* create_public_gateway keeps one gateway per zone of a VPC.
OneGatewayPerZone ==
    \A g, h \in DOMAIN public_gateways :
        public_gateways[g].vpc = public_gateways[h].vpc
          /\ public_gateways[g].zone = public_gateways[h].zone => g = h

\* A subnet never outlives its VPC, unless a namespace was emptied alone.
SubnetsInVpc == intact => \A s \in DOMAIN subnets : subnets[s].vpc \in vpcs

\* Neither does it outlive the ACL it is under, nor the gateway it is attached
\* to, whatever is deleted while an attachment waits for its body.
AttachmentsKept ==
    intact => \A s \in DOMAIN subnets :
        /\ subnets[s].acl \in network_acls \cup {None}
        /\ subnets[s].pgw \in DOMAIN public_gateways \cup {None}

InstancesOf(s) == {i \in DOMAIN instances : instances[i].subnet = s}

\* A subnet never shows more available addresses than its instances leave it.
AddressesNotOverstated ==
    \A s \in DOMAIN subnets :
        subnets[s].available + Cardinality(InstancesOf(s)) <= Usable(subnets[s].cidr)

Stored == vpcs \cup DOMAIN subnets \cup network_acls \cup DOMAIN public_gateways
          \cup floating_ips \cup DOMAIN instances

\* What was deleted stays deleted: an attachment that found its subnet before the await
\* does not bring it back, and no other handler writes what it finds gone.
NothingReturns == [][\A id \in Stored' \ Stored : id > minted]_vars
=============================================================================
