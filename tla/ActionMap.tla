------------------------------- MODULE ActionMap -------------------------------
(***************************************************************************)
(* Which requests there are and which IAM action each one is: the routes   *)
(* that the providers register with src/providers/base.py, and the table   *)
(* of src/iam/vpc_action_map.py.  A path is the sequence of its segments,  *)
(* the version in front left out; in a pattern a segment may be Any.       *)
(*                                                                         *)
(* There is one path here, where the code has two.  The middleware reads   *)
(* the path of the URL that Starlette rebuilds for it (request.url.path),  *)
(* the router the path of the request itself; the two are the same for the *)
(* ids that the server hands out, which are of letters, digits and dashes. *)
(* What this module says, it says of requests with such ids.               *)
(***************************************************************************)
EXTENDS Naturals, Sequences

Any == "{id}"

\* A wildcard stands for one segment, whatever it is.
Matches(pattern, path) ==
    /\ Len(pattern) = Len(path)
    /\ \A k \in DOMAIN pattern : pattern[k] \in {Any, path[k]}

-----------------------------------------------------------------------------
(* The routes.  Most resources have the same five, and what is nested in a *)
(* resource has them again below it.                                       *)

Route(method, pattern) == [method |-> method, pattern |-> pattern]

Crud(path) == {Route(method, path) : method \in {"GET", "POST"}} \cup
              {Route(method, Append(path, Any)) : method \in {"GET", "PATCH", "DELETE"}}

RulesOf(groups) == <<groups, Any, "rules">>

InstanceActions == <<"instances", Any, "actions">>

SubnetGateway == <<"subnets", Any, "public_gateway">>

Listeners == <<"load_balancers", Any, "listeners">>
Pools     == <<"load_balancers", Any, "pools">>
Members   == <<"load_balancers", Any, "pools", Any, "members">>

VpcRoutes ==
    ((UNION {Crud(<<c>>) : c \in {"vpcs", "subnets", "instances",
                                  "security_groups", "floating_ips"}})
        \ {Route("PATCH", <<c, Any>>) : c \in {"security_groups", "floating_ips"}})
    \cup Crud(RulesOf("security_groups"))
    \cup {Route("POST", InstanceActions)}

NetworkAclRoutes == Crud(<<"network_acls">>) \cup Crud(RulesOf("network_acls"))

PublicGatewayRoutes ==
    Crud(<<"public_gateways">>) \cup
    {Route(method, SubnetGateway) : method \in {"GET", "PUT", "DELETE"}}

LoadBalancerRoutes ==
    UNION {Crud(path) : path \in {<<"load_balancers">>, Listeners, Pools, Members}}

TransitGatewayRoutes ==
    Crud(<<"transit_gateways">>) \cup
    (Crud(<<"transit_gateways", Any, "connections">>)
        \ {Route("PATCH", <<"transit_gateways", Any, "connections", Any>>)}) \cup
    {Route("GET", <<"connections">>)}

ResourceManagerRoutes == Crud(<<"resource_groups">>)

IamRoutes == {Route("POST", <<"identity", "token">>), Route("GET", <<"identity", "keys">>)}

\* The routes whose requests IAM knows as actions of the VPC service.
VpcServiceRoutes ==
    VpcRoutes \cup NetworkAclRoutes \cup PublicGatewayRoutes \cup LoadBalancerRoutes

Routes == VpcServiceRoutes \cup TransitGatewayRoutes \cup ResourceManagerRoutes \cup IamRoutes

-----------------------------------------------------------------------------
(* The table: entries of a method, a pattern and an action. *)

Action(kind, verb) == [service |-> "is", kind |-> kind, verb |-> verb]

Entry(method, pattern, kind, verb) ==
    [method |-> method, pattern |-> pattern, action |-> Action(kind, verb)]

Own(path, kind) ==
    {Entry("GET", path, kind, "list"), Entry("POST", path, kind, "create")} \cup
    {Entry("GET", Append(path, Any), kind, "read"),
     Entry("PATCH", Append(path, Any), kind, "update"),
     Entry("DELETE", Append(path, Any), kind, "delete")}

\* Mutant: only the deletion of a part is taken for a change.
PartAddable(path, kind) ==
    {Entry(method, path, kind, "read") : method \in {"GET", "POST"}} \cup
    {Entry("GET", Append(path, Any), kind, "read")} \cup
    {Entry(method, Append(path, Any), kind, "update") : method \in {"PATCH", "DELETE"}}

\* "LB sub-resources share the parent's action space", and so do rules.
Part(path, kind) ==
    {Entry("GET", path, kind, "read"), Entry("POST", path, kind, "update")} \cup
    {Entry("GET", Append(path, Any), kind, "read")} \cup
    {Entry(method, Append(path, Any), kind, "update") : method \in {"PATCH", "DELETE"}}

\* Mutant: the gateway of a subnet is forgotten about.
ACTION_MAP_CollectionsOnly ==
    (UNION {Own(<<c>>, c) : c \in {"vpcs", "subnets", "instances", "network_acls",
                                   "public_gateways", "load_balancers",
                                   "security_groups", "floating_ips"}})
    \cup Part(RulesOf("security_groups"), "security_groups")
    \cup Part(RulesOf("network_acls"), "network_acls")
    \cup (UNION {Part(path, "load_balancers") : path \in {Listeners, Pools, Members}})
    \cup {Entry("POST", InstanceActions, "instances", "operate")}

\* _ACTION_MAP
ACTION_MAP ==
    ((UNION {Own(<<c>>, c) : c \in {"vpcs", "subnets", "instances", "network_acls",
                                    "public_gateways", "load_balancers",
                                    "security_groups", "floating_ips"}})
        \ {Entry("PATCH", <<c, Any>>, c, "update") : c \in {"security_groups",
                                                            "floating_ips"}})
    \cup Part(RulesOf("security_groups"), "security_groups")
    \cup Part(RulesOf("network_acls"), "network_acls")
    \cup (UNION {Part(path, "load_balancers") : path \in {Listeners, Pools, Members}})
    \cup {Entry("POST", InstanceActions, "instances", "operate"),
          Entry("GET", SubnetGateway, "subnets", "read"),
          Entry("PUT", SubnetGateway, "subnets", "update"),
          Entry("DELETE", SubnetGateway, "subnets", "update")}

Unmapped == Action("none", "none")

Resolved(method, path) ==
    {e.action : e \in {f \in ACTION_MAP : f.method = method /\ Matches(f.pattern, path)}}

\* resolve_action
ResolveAction(method, path) ==
    LET found == Resolved(method, path) IN
    IF found = {} THEN Unmapped ELSE CHOOSE action \in found : TRUE

-----------------------------------------------------------------------------
\* A request to every route, its ids being nothing else's name.
Requests == {[method |-> r.method, path |-> r.pattern] : r \in Routes}
=============================================================================
