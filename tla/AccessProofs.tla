----------------------------- MODULE AccessProofs -----------------------------
(***************************************************************************)
(* What holds of Access for any identities, policies, lifetime and number  *)
(* of processes.                                                           *)
(***************************************************************************)
EXTENDS Access, TLAPS

-----------------------------------------------------------------------------
(* The table and the policies. *)

\* The verbs of the table are those that roles are defined by, and its service is one.
LEMMA ActionVerbs ==
    \A e \in ACTION_MAP : e.action.verb \in Verbs /\ e.action.service = "is"
<1>1. ASSUME NEW path, NEW kind, NEW e \in Own(path, kind)
      PROVE  e.action.verb \in Verbs /\ e.action.service = "is"
  BY <1>1 DEF Own, Entry, Action, Verbs
<1>2. ASSUME NEW path, NEW kind, NEW e \in Part(path, kind)
      PROVE  e.action.verb \in Verbs /\ e.action.service = "is"
  BY <1>2 DEF Part, Entry, Action, Verbs
<1> QED
  <2> SUFFICES ASSUME NEW e \in ACTION_MAP
               PROVE  e.action.verb \in Verbs /\ e.action.service = "is"
    OBVIOUS
  <2>1. CASE \E path, kind : e \in Own(path, kind)
    BY <2>1, <1>1
  <2>2. CASE \E path, kind : e \in Part(path, kind)
    BY <2>2, <1>2
  <2>3. CASE e \in {Entry("POST", InstanceActions, "instances", "operate"),
                    Entry("GET", SubnetGateway, "subnets", "read"),
                    Entry("PUT", SubnetGateway, "subnets", "update"),
                    Entry("DELETE", SubnetGateway, "subnets", "update")}
    BY <2>3 DEF Entry, Action, Verbs
  <2> QED  BY <2>1, <2>2, <2>3 DEF ACTION_MAP

LEMMA ResolvedVerb ==
    ASSUME NEW r \in Requests, ActionOf[r] # Unmapped
    PROVE  ActionOf[r].verb \in Verbs
<1> DEFINE found == Resolved(r.method, r.path)
<1>1. ActionOf[r] = ResolveAction(r.method, r.path)
  BY DEF ActionOf
<1>2. found # {}
  BY <1>1 DEF ResolveAction
<1>3. ActionOf[r] \in found
  BY <1>1, <1>2 DEF ResolveAction
<1>4. PICK e \in ACTION_MAP : ActionOf[r] = e.action
  BY <1>3 DEF Resolved
<1> QED  BY <1>4, ActionVerbs

\* The suffixes that a role has are the verbs that it ranks high enough for.
LEMMA SuffixesByRank ==
    ASSUME NEW role, NEW verb \in Verbs
    PROVE  (role = "Administrator" \/ verb \in Suffixes(role)) <=> Rank(role) >= Needed(verb)
<1>2. CASE role = "Viewer"
  <2>1. Rank(role) = 1 /\ Suffixes(role) = {"list", "read"}
    BY <1>2 DEF Rank, RANK, Suffixes, ROLE_SUFFIXES
  <2> QED  BY <2>1, <1>2 DEF Verbs, Needed
<1>3. CASE role = "Operator"
  <2>1. Rank(role) = 2 /\ Suffixes(role) = {"list", "read", "operate"}
    BY <1>3 DEF Rank, RANK, Suffixes, ROLE_SUFFIXES
  <2> QED  BY <2>1, <1>3 DEF Verbs, Needed
<1>4. CASE role = "Editor"
  <2>1. Rank(role) = 3 /\ Suffixes(role) = Verbs
    BY <1>4 DEF Rank, RANK, Suffixes, ROLE_SUFFIXES, Verbs
  <2> QED  BY <2>1, <1>4 DEF Needed
<1>5. CASE role = "Administrator"
  <2>1. Rank(role) = 4
    BY <1>5 DEF Rank, RANK
  <2> QED  BY <2>1, <1>5 DEF Needed
<1>6. CASE role \notin {"Viewer", "Operator", "Editor", "Administrator"}
  <2>1. Rank(role) = 0
    BY <1>6 DEF Rank, RANK
  <2>2. Suffixes(role) = {}
    BY <1>6 DEF Suffixes, ROLE_SUFFIXES
  <2> QED  BY <2>1, <2>2, <1>6 DEF Needed
<1> QED  BY <1>2, <1>3, <1>4, <1>5, <1>6

LEMMA AllowsByRank ==
    ASSUME NEW policies, NEW iam_id, NEW action, action.verb \in Verbs
    PROVE  Allows(policies, iam_id, action) <=> Outranks(policies, iam_id, action)
<1>1. \A role : (role = "Administrator" \/ action.verb \in Suffixes(role))
                  <=> Rank(role) >= Needed(action.verb)
  BY SuffixesByRank
<1>2. Allows(policies, iam_id, action)
        <=> \E p \in policies : /\ iam_id \in p.subjects /\ action.service \in p.services
                                /\ \E role \in p.roles : Rank(role) >= Needed(action.verb)
  BY <1>1, Zenon DEF Allows, PoliciesFor
<1>3. Outranks(policies, iam_id, action)
        <=> \E p \in policies : /\ iam_id \in p.subjects /\ action.service \in p.services
                                /\ \E role \in p.roles : Rank(role) >= Needed(action.verb)
  BY Zenon DEF Outranks, RolesOn
<1> QED  BY <1>2, <1>3

-----------------------------------------------------------------------------
(* Types. *)

LEMMA TypeInit == Init => TypeOK
BY AccessAssumption DEF Init, TypeOK, Token, CloudKey

LEMMA TypeStep == TypeOK /\ [Next]_vars => TypeOK'
<1> SUFFICES ASSUME TypeOK, [Next]_vars  PROVE TypeOK'
  OBVIOUS
<1> USE AccessAssumption DEF TypeOK
<1>1. CASE IssueToken
  BY <1>1 DEF IssueToken, Issue, Expiry, Token
<1>2. CASE Tick
  BY <1>2 DEF Tick
<1>3. CASE EditPolicies
  BY <1>3 DEF EditPolicies
<1>4. CASE Restart
  BY <1>4 DEF Restart
<1>5. ASSUME NEW c \in Client, NEW i \in Identity \cup {Nobody}, BeginVerify(c, i)
      PROVE  TypeOK'
  BY <1>5 DEF BeginVerify
<1>6. ASSUME NEW c \in Client, FinishRefused(c)  PROVE TypeOK'
  BY <1>6 DEF FinishRefused, Answered
<1>7. ASSUME NEW c \in Client, FinishConfirmed(c)  PROVE TypeOK'
  BY <1>7 DEF FinishConfirmed, Answered, Issue, Expiry, Token, Idle
<1>8. ASSUME NEW c \in Client, FinishUnreadable(c)  PROVE TypeOK'
  BY <1>8 DEF FinishUnreadable, Answered, Issue, Expiry, Token
<1>9. CASE UNCHANGED vars
  BY <1>9 DEF vars
<1> QED  BY <1>1, <1>2, <1>3, <1>4, <1>5, <1>6, <1>7, <1>8, <1>9 DEF Next

\* Every variable keeps its type: no token is of a process that is yet to start, or
\* lives longer than a lifetime from now.
THEOREM TypeCorrect == Spec => []TypeOK
<1>1. Init => TypeOK
  BY TypeInit
<1>2. TypeOK /\ [Next]_vars => TypeOK'
  BY TypeStep
<1> QED  BY <1>1, <1>2, PTL DEF Spec

-----------------------------------------------------------------------------
(* Strict mode. *)

\* A process in strict mode signs for those it has asked about, and no other does.
SignedForConfirmed ==
    auth = "strict" =>
        \A t \in tokens : t.key = key => t.iam_id \in confirmed \cup {Unknown}

LEMMA SignedInit == Init => SignedForConfirmed
BY DEF Init, SignedForConfirmed, Token, CloudKey

LEMMA SignedStep ==
    TypeOK /\ SignedForConfirmed /\ [Next]_vars => SignedForConfirmed'
<1> SUFFICES ASSUME TypeOK, SignedForConfirmed, [Next]_vars  PROVE SignedForConfirmed'
  OBVIOUS
<1> USE DEF SignedForConfirmed
<1>1. CASE IssueToken
  BY <1>1 DEF IssueToken
<1>2. CASE Tick
  BY <1>2 DEF Tick
<1>3. CASE EditPolicies
  BY <1>3 DEF EditPolicies
<1>4. CASE Restart
  \* The new key has signed nothing.
  <2>1. \A t \in tokens : t.key <= key
    BY DEF TypeOK
  <2> QED  BY <1>4, <2>1 DEF Restart, TypeOK
<1>5. ASSUME NEW c \in Client, NEW i \in Identity \cup {Nobody}, BeginVerify(c, i)
      PROVE  SignedForConfirmed'
  BY <1>5 DEF BeginVerify
<1>6. ASSUME NEW c \in Client, FinishRefused(c)  PROVE SignedForConfirmed'
  BY <1>6 DEF FinishRefused, Answered
<1>7. ASSUME NEW c \in Client, FinishConfirmed(c)  PROVE SignedForConfirmed'
  BY <1>7 DEF FinishConfirmed, Answered, Issue, Token
<1>8. ASSUME NEW c \in Client, FinishUnreadable(c)  PROVE SignedForConfirmed'
  BY <1>8 DEF FinishUnreadable, Answered, Issue, Token
<1>9. CASE UNCHANGED vars
  BY <1>9 DEF vars
<1> QED  BY <1>1, <1>2, <1>3, <1>4, <1>5, <1>6, <1>7, <1>8, <1>9 DEF Next

\* In strict mode only the confirmed are let through, with a token of this process
\* that has not expired.
THEOREM StrictMeansConfirmedCorrect == Spec => []StrictMeansConfirmed
<1>1. Init => TypeOK /\ SignedForConfirmed
  BY TypeInit, SignedInit
<1>2. TypeOK /\ SignedForConfirmed /\ [Next]_vars => (TypeOK /\ SignedForConfirmed)'
  BY TypeStep, SignedStep
<1>3. ASSUME TypeOK, SignedForConfirmed, auth = "strict", NEW t \in tokens, Authentic(t)
      PROVE  /\ t.key = key
             /\ t.iam_id \in confirmed \cup {Unknown}
             /\ now < t.exp /\ t.exp <= now + Lifetime
  <2>1. t.key = key /\ ~(t.exp <= now)
    BY <1>3 DEF Authentic, AuthenticIn, VerifyingKey, ExpiredVerified
  <2>2. t.exp \in 0 .. now + Lifetime /\ now \in Nat
    BY <1>3 DEF TypeOK
  <2>3. t.iam_id \in confirmed \cup {Unknown}
    BY <1>3, <2>1 DEF SignedForConfirmed
  <2>4. now < t.exp /\ t.exp <= now + Lifetime
    BY <2>1, <2>2, AccessAssumption
  <2> QED  BY <2>1, <2>3, <2>4
<1>4. ASSUME NEW t, NEW r \in Guarded, Verdict(t, r) = "let through"
      PROVE  Authentic(t)
  BY <1>4 DEF Verdict, Guarded
<1>5. TypeOK /\ SignedForConfirmed => StrictMeansConfirmed
  BY <1>3, <1>4 DEF StrictMeansConfirmed
<1> QED  BY <1>1, <1>2, <1>5, PTL DEF Spec

-----------------------------------------------------------------------------
(* The verdict. *)

\* A token works in the process that issued it until it expires.
THEOREM FreshTokensWorkCorrect == Spec => []FreshTokensWork
<1>1. TypeOK => FreshTokensWork
  <2> SUFFICES ASSUME TypeOK, NEW t \in tokens, NEW r \in Requests, t.key = key, now < t.exp
               PROVE  Verdict(t, r) # "401"
    BY DEF FreshTokensWork
  <2>1. now \in Nat /\ t.exp \in Int
    BY AccessAssumption DEF TypeOK
  <2>2. Authentic(t)
    BY <2>1 DEF Authentic, AuthenticIn, VerifyingKey, ExpiredVerified, ExpiredUnverified
  <2> QED  BY <2>2 DEF Verdict
<1> QED  BY <1>1, TypeCorrect, PTL

\* Strict mode accepts no token that permissive mode would not.
THEOREM StrictIsStricterCorrect == Spec => []StrictIsStricter
<1>1. TypeOK => StrictIsStricter
  BY AccessAssumption DEF TypeOK, StrictIsStricter, AuthenticIn, ExpiredVerified,
     ExpiredUnverified
<1> QED  BY <1>1, TypeCorrect, PTL

LEMMA EnforcedHolds == EnforcedByRank
<1>1. ASSUME authz = "enforce", policyFile.readable, NEW t \in tokens, NEW r \in Guarded,
             Authentic(t), ActionOf[r] # Unmapped
      PROVE  Verdict(t, r) = "let through"
               <=> Outranks(policyFile.policies, t.iam_id, ActionOf[r])
  <2>1. r \in Requests /\ ~Bypassed(r)
    BY DEF Guarded
  <2>2. ActionOf[r].verb \in Verbs
    BY <1>1, <2>1, ResolvedVerb
  <2>3. \A policies, iam_id, action : action.verb \in Verbs =>
           (Allows(policies, iam_id, action) <=> Outranks(policies, iam_id, action))
    BY AllowsByRank
  <2>4. Allows(policyFile.policies, t.iam_id, ActionOf[r])
           <=> Outranks(policyFile.policies, t.iam_id, ActionOf[r])
    BY <2>2, <2>3
  <2> QED  BY <1>1, <2>1, <2>4 DEF Verdict, Denied
<1> QED
  BY <1>1 DEF EnforcedByRank

\* Whatever the policies are, enforcement lets through those that rank high enough
\* and no others.
THEOREM EnforcedByRankCorrect == Spec => []EnforcedByRank
<1>1. EnforcedByRank
  BY EnforcedHolds
<1> QED  BY <1>1, PTL

-----------------------------------------------------------------------------
(* The table, entry by entry: every route of the VPC service has an action, *)
(* and one that changes something has an action that changes something.     *)

Changing == Verbs \ {"list", "read"}

\* Whatever is not a GET is an action above that of a Viewer.
LEMMA ChangingEntries ==
    \A e \in ACTION_MAP : e.method # "GET" => e.action.verb \in Changing
<1>1. ASSUME NEW path, NEW kind, NEW e \in Own(path, kind), e.method # "GET"
      PROVE  e.action.verb \in Changing
  BY <1>1 DEF Own, Entry, Action, Verbs, Changing
<1>2. ASSUME NEW path, NEW kind, NEW e \in Part(path, kind), e.method # "GET"
      PROVE  e.action.verb \in Changing
  BY <1>2 DEF Part, Entry, Action, Verbs, Changing
<1> SUFFICES ASSUME NEW e \in ACTION_MAP, e.method # "GET"
             PROVE  e.action.verb \in Changing
  OBVIOUS
<1>3. CASE \E path, kind : e \in Own(path, kind)
  BY <1>1, <1>3
<1>4. CASE \E path, kind : e \in Part(path, kind)
  BY <1>2, <1>4
<1>5. CASE e \in {Entry("POST", InstanceActions, "instances", "operate"),
                  Entry("GET", SubnetGateway, "subnets", "read"),
                  Entry("PUT", SubnetGateway, "subnets", "update"),
                  Entry("DELETE", SubnetGateway, "subnets", "update")}
  BY <1>5 DEF Entry, Action, Verbs, Changing
<1> QED
  BY <1>3, <1>4, <1>5 DEF ACTION_MAP

\* An entry for this very route.
Entered(r, entries) == \E e \in entries : e.method = r.method /\ e.pattern = r.pattern

LEMMA OwnEntered ==
    ASSUME NEW path, NEW kind, NEW r \in Crud(path)
    PROVE  Entered(r, Own(path, kind))
  BY DEF Crud, Own, Entry, Route, Entered

LEMMA PartEntered ==
    ASSUME NEW path, NEW kind, NEW r \in Crud(path)
    PROVE  Entered(r, Part(path, kind))
<1>1. ASSUME NEW e \in Part(path, kind), e.method = r.method, e.pattern = r.pattern
      PROVE  Entered(r, Part(path, kind))
  BY <1>1 DEF Entered
<1>2. ASSUME NEW method \in {"GET", "POST"}, r = Route(method, path)
      PROVE  Entered(r, Part(path, kind))
  <2>1. PICK verb : Entry(method, path, kind, verb) \in Part(path, kind)
    BY DEF Part
  <2> QED
    BY <1>1, <1>2, <2>1 DEF Entry, Route
<1>3. ASSUME NEW method \in {"GET", "PATCH", "DELETE"}, r = Route(method, Append(path, Any))
      PROVE  Entered(r, Part(path, kind))
  <2>1. PICK verb : Entry(method, Append(path, Any), kind, verb) \in Part(path, kind)
    BY DEF Part
  <2> QED
    BY <1>1, <1>3, <2>1 DEF Entry, Route
<1> QED
  BY <1>2, <1>3 DEF Crud

\* What is left out of the table is left out of the routes.
Unpatched == {"security_groups", "floating_ips"}

Collections == {"vpcs", "subnets", "instances", "network_acls", "public_gateways",
                "load_balancers", "security_groups", "floating_ips"}

LEMMA CollectionEntered ==
    ASSUME NEW c \in Collections, NEW r \in Crud(<<c>>),
           c \in Unpatched => r # Route("PATCH", <<c, Any>>)
    PROVE  Entered(r, ACTION_MAP)
<1>1. PICK e \in Own(<<c>>, c) : e.method = r.method /\ e.pattern = r.pattern
  BY OwnEntered DEF Entered
<1>2. e.action.kind = c
  BY <1>1 DEF Own, Entry, Action
<1>3. r = Route(r.method, r.pattern)
  BY DEF Crud, Route
<1>4. ASSUME NEW d \in Unpatched, e = Entry("PATCH", <<d, Any>>, d, "update")
      PROVE  FALSE
  <2>1. e.action.kind = d /\ e.method = "PATCH" /\ e.pattern = <<d, Any>>
    BY <1>4 DEF Entry, Action
  <2> QED
    BY <1>1, <1>2, <1>3, <2>1
<1>5. e \in ACTION_MAP
  BY <1>1, <1>4 DEF ACTION_MAP, Collections, Unpatched
<1> QED
  BY <1>1, <1>5 DEF Entered

LEMMA ServiceEntered ==
    ASSUME NEW r \in VpcServiceRoutes
    PROVE  Entered(r, ACTION_MAP)
<1>1. ASSUME NEW c \in Collections, r \in Crud(<<c>>),
             c \in Unpatched => r # Route("PATCH", <<c, Any>>)
      PROVE  Entered(r, ACTION_MAP)
  BY <1>1, CollectionEntered
<1>2. CASE r \in Crud(RulesOf("security_groups"))
  <2>1. Entered(r, Part(RulesOf("security_groups"), "security_groups"))
    BY <1>2, PartEntered
  <2> QED
    BY <2>1 DEF Entered, ACTION_MAP
<1>3. CASE r \in Crud(RulesOf("network_acls"))
  <2>1. Entered(r, Part(RulesOf("network_acls"), "network_acls"))
    BY <1>3, PartEntered
  <2> QED
    BY <2>1 DEF Entered, ACTION_MAP
<1>4. ASSUME NEW path \in {Listeners, Pools, Members}, r \in Crud(path)
      PROVE  Entered(r, ACTION_MAP)
  <2>1. Entered(r, Part(path, "load_balancers"))
    BY <1>4, PartEntered
  <2> QED
    BY <2>1 DEF Entered, ACTION_MAP
<1>5. CASE r = Route("POST", InstanceActions)
  <2>1. Entry("POST", InstanceActions, "instances", "operate") \in ACTION_MAP
    BY DEF ACTION_MAP
  <2> QED
    BY <1>5, <2>1 DEF Entered, Entry, Route
<1>6. ASSUME NEW method \in {"GET", "PUT", "DELETE"}, r = Route(method, SubnetGateway)
      PROVE  Entered(r, ACTION_MAP)
  <2>1. \E verb : Entry(method, SubnetGateway, "subnets", verb) \in ACTION_MAP
    BY DEF ACTION_MAP
  <2> QED
    BY <1>6, <2>1 DEF Entered, Entry, Route
<1>7. CASE r \in VpcRoutes
  <2>1. CASE \E c \in {"vpcs", "subnets", "instances", "security_groups",
                       "floating_ips"} :
                r \in Crud(<<c>>) /\ (c \in Unpatched => r # Route("PATCH", <<c, Any>>))
    BY <1>1, <2>1 DEF Collections
  <2> QED
    BY <1>2, <1>5, <1>7, <2>1 DEF VpcRoutes, Unpatched
<1>8. CASE r \in NetworkAclRoutes
  BY <1>1, <1>3, <1>8 DEF NetworkAclRoutes, Collections, Unpatched
<1>9. CASE r \in PublicGatewayRoutes
  BY <1>1, <1>6, <1>9 DEF PublicGatewayRoutes, Collections, Unpatched
<1>10. CASE r \in LoadBalancerRoutes
  BY <1>1, <1>4, <1>10 DEF LoadBalancerRoutes, Collections, Unpatched
<1> QED
  BY <1>7, <1>8, <1>9, <1>10 DEF VpcServiceRoutes

-----------------------------------------------------------------------------
(* Requests to the VPC service. *)

\* The segments of its paths.
Segments == Collections \cup {"rules", "listeners", "pools", "members", Any}

\* Nothing that IAM knows as an action is a request for a token.
LEMMA GuardedService ==
    ASSUME NEW r \in Requests, Route(r.method, r.path) \in VpcServiceRoutes
    PROVE  r \in Guarded
<1> SUFFICES ASSUME r.path[1] = "identity"  PROVE FALSE
  BY DEF Guarded, Bypassed
<1>1. PICK e \in ACTION_MAP : e.method = r.method /\ e.pattern = r.path
  BY ServiceEntered DEF Entered, Route
<1>2. e.pattern[1] = "identity"
  BY <1>1
<1>3. ASSUME NEW path, path \in Seq(Segments), Len(path) >= 1, path[1] # "identity",
             NEW kind, e \in Own(path, kind) \/ e \in Part(path, kind)
      PROVE  e.pattern[1] # "identity"
  <2>1. e.pattern \in {path, Append(path, Any)}
    BY <1>3 DEF Own, Part, Entry
  <2>2. Append(path, Any)[1] = path[1]
    BY <1>3
  <2> QED
    BY <1>3, <2>1, <2>2
<1>4. CASE \E c \in Collections : e \in Own(<<c>>, c)
  <2>1. PICK c \in Collections : e \in Own(<<c>>, c)
    BY <1>4
  <2>2. PICK path : path = <<c>>
    OBVIOUS
  <2>3. path \in Seq(Segments) /\ Len(path) >= 1 /\ path[1] # "identity"
    BY <2>2 DEF Segments, Collections
  <2>4. e \in Own(path, c)
    BY <2>1, <2>2
  <2> QED
    BY <1>2, <1>3, <2>3, <2>4
<1>5. ASSUME NEW path \in {RulesOf("security_groups"), RulesOf("network_acls"), Listeners,
                          Pools, Members},
             NEW kind, e \in Part(path, kind)
      PROVE  FALSE
  <2>1. path \in Seq(Segments) /\ Len(path) >= 1
    <3>1. \A c, d \in Segments : <<c, Any, d>> \in Seq(Segments) /\ Len(<<c, Any, d>>) >= 1
      BY DEF Segments
    <3>2. \A c, d, p \in Segments : /\ <<c, Any, d, Any, p>> \in Seq(Segments)
                                    /\ Len(<<c, Any, d, Any, p>>) >= 1
      BY DEF Segments
    <3>3. CASE path = Members
      BY <3>2, <3>3 DEF Members, Segments, Collections
    <3>4. CASE path # Members
      BY <3>1, <3>4 DEF RulesOf, Listeners, Pools, Segments, Collections
    <3> QED
      BY <3>3, <3>4
  <2>2. path[1] # "identity"
    BY DEF RulesOf, Listeners, Pools, Members
  <2> QED
    BY <1>2, <1>3, <1>5, <2>1, <2>2
<1>6. CASE e \in {Entry("POST", InstanceActions, "instances", "operate"),
                  Entry("GET", SubnetGateway, "subnets", "read"),
                  Entry("PUT", SubnetGateway, "subnets", "update"),
                  Entry("DELETE", SubnetGateway, "subnets", "update")}
  <2>1. e.pattern \in {InstanceActions, SubnetGateway}
    BY <1>6 DEF Entry
  <2> QED
    BY <1>2, <2>1 DEF InstanceActions, SubnetGateway
<1> QED
  BY <1>4, <1>5, <1>6 DEF ACTION_MAP, Collections

\* The table has an action for the request, and one that is as much of a change.
LEMMA ServiceAction ==
    ASSUME NEW r \in Requests, Route(r.method, r.path) \in VpcServiceRoutes
    PROVE  /\ ActionOf[r] # Unmapped
           /\ ActionOf[r].service = "is" /\ ActionOf[r].verb \in Verbs
           /\ r.method # "GET" => ActionOf[r].verb \in Changing
<1>1. PICK f \in ACTION_MAP : f.method = r.method /\ f.pattern = r.path
  BY ServiceEntered DEF Entered, Route
<1>2. Matches(f.pattern, r.path)
  BY <1>1 DEF Matches
<1>3. f.action \in Resolved(r.method, r.path)
  BY <1>1, <1>2 DEF Resolved
<1>4. ActionOf[r] \in Resolved(r.method, r.path)
  BY <1>3 DEF ActionOf, ResolveAction
<1>5. PICK e \in ACTION_MAP : e.method = r.method /\ ActionOf[r] = e.action
  BY <1>4 DEF Resolved
<1>6. ActionOf[r].service = "is" /\ ActionOf[r].verb \in Verbs
  BY <1>5, ActionVerbs
<1>7. Unmapped.verb \notin Verbs
  BY DEF Unmapped, Action, Verbs
<1> QED
  BY <1>5, <1>6, <1>7, ChangingEntries

\* Somebody with no role that ranks high enough is not let through.
LEMMA Outranked ==
    ASSUME authz = "enforce", policyFile.readable, NEW t \in tokens, NEW r \in Requests,
           Route(r.method, r.path) \in VpcServiceRoutes,
           ~Outranks(policyFile.policies, t.iam_id, ActionOf[r])
    PROVE  Verdict(t, r) \in {"401", "403"}
<1>1. r \in Guarded /\ ActionOf[r] # Unmapped
  BY GuardedService, ServiceAction
<1>2. EnforcedByRank
  BY EnforcedHolds
<1> QED
  BY <1>1, <1>2 DEF EnforcedByRank, Verdict, Guarded

\* A role of Viewer ranks below every change.
LEMMA ViewerChangesNothing == \A verb \in Changing : Rank("Viewer") < Needed(verb)
<1>1. Rank("Viewer") = 1
  BY DEF Rank, RANK
<1> QED
  BY <1>1 DEF Changing, Verbs, Needed

\* A Viewer of the service changes nothing in it, whatever route he tries.
THEOREM ViewersChangeNothingCorrect == Spec => []ViewersChangeNothing
<1>1. ASSUME authz = "enforce", policyFile.readable, NEW t \in tokens, NEW r \in Requests,
             RolesOn(policyFile.policies, t.iam_id, "is") \subseteq {"Viewer"},
             r.method # "GET", Route(r.method, r.path) \in VpcServiceRoutes
      PROVE  Verdict(t, r) # "let through"
  <2>1. ActionOf[r].service = "is" /\ ActionOf[r].verb \in Changing
    BY <1>1, ServiceAction
  <2>2. ~(Rank("Viewer") >= Needed(ActionOf[r].verb))
    BY <2>1, ViewerChangesNothing DEF Rank, RANK, Needed
  <2>3. ~Outranks(policyFile.policies, t.iam_id, ActionOf[r])
    BY <1>1, <2>1, <2>2 DEF Outranks
  <2> QED
    BY <1>1, <2>3, Outranked
<1>2. ViewersChangeNothing
  BY <1>1 DEF ViewersChangeNothing
<1> QED
  BY <1>2, PTL

\* Whoever has no role on the service is turned away from every route of it.
THEOREM StrangersSeeNothingCorrect == Spec => []StrangersSeeNothing
<1>1. ASSUME authz = "enforce", policyFile.readable, NEW t \in tokens, NEW r \in Requests,
             RolesOn(policyFile.policies, t.iam_id, "is") = {},
             Route(r.method, r.path) \in VpcServiceRoutes
      PROVE  Verdict(t, r) \in {"401", "403"}
  <2>1. ActionOf[r].service = "is"
    BY <1>1, ServiceAction
  <2>2. ~Outranks(policyFile.policies, t.iam_id, ActionOf[r])
    BY <1>1, <2>1 DEF Outranks
  <2> QED
    BY <1>1, <2>2, Outranked
<1>2. StrangersSeeNothing
  BY <1>1 DEF StrangersSeeNothing
<1> QED
  BY <1>2, PTL
=============================================================================
