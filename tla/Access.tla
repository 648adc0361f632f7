-------------------------------- MODULE Access --------------------------------
(***************************************************************************)
(* Who may make a request: the tokens of src/providers/iam.py and the      *)
(* verdict of src/middleware/auth.py on them, with the IAM policies of a   *)
(* file that is read anew for every request.                               *)
(*                                                                         *)
(* issue_token in strict mode awaits the answer of IBM Cloud: it is two    *)
(* steps.  dispatch awaits nothing before it lets a request through, so    *)
(* its verdict is an operator of the state, over every token and request.  *)
(* The environment of a process is what it was started with, and its key   *)
(* pair is its own.                                                        *)
(***************************************************************************)
EXTENDS Integers, ActionMap, PolicyStore

CONSTANTS Client,      \* connections with an issue_token in flight
          Identity,    \* who has an API key of IBM Cloud
          Policy,      \* the policies that may be in the file
          Lifetime,    \* of a token: 3600 seconds
          MaxTime,     \* bound: of the clock, in seconds
          MaxProcess   \* bound: how many processes are started

ASSUME AccessAssumption ==
    /\ Lifetime \in Nat \ {0} /\ MaxTime \in Nat /\ MaxProcess \in Nat \ {0}

Unknown == "iam-ServiceId-unknown"
Local   == "iam-ServiceId-local"

ASSUME IdentityAssumption == Unknown \notin Identity /\ Local \notin Identity

VARIABLES
    key,        \* _private_key: processes have theirs numbered
    auth,       \* IBMCLOUD_LOCAL_AUTH
    authz,      \* IBMCLOUD_LOCAL_AUTHZ
    policyFile, \* what IBMCLOUD_LOCAL_POLICY_FILE holds
    now,        \* the clock
    tokens,     \* the tokens that clients have
    verifying,  \* whose API key each in-flight issue_token asks IBM Cloud about
    confirmed   \* history: for whom IBM Cloud answered this process

vars == <<key, auth, authz, policyFile, now, tokens, verifying, confirmed>>

Idle == "idle"        \* no request
Nobody == "nobody"    \* whose key IBM Cloud does not know

\* The file may be missing, not configured, or half-written.
Unreadable == [readable |-> FALSE, policies |-> {}]
Holding(policies) == [readable |-> TRUE, policies |-> policies]

Token(k, iam_id, exp) == [key |-> k, iam_id |-> iam_id, exp |-> exp]

\* Clients may have tokens of IBM Cloud itself, which no process here has signed.
CloudKey == 0

Init == /\ key = 1
        /\ auth \in {"permissive", "strict"}
        /\ authz \in {"off", "enforce"}
        /\ policyFile = Unreadable
        /\ now = 0
        /\ tokens = {Token(CloudKey, i, Lifetime) : i \in Identity}
        /\ verifying = [c \in Client |-> Idle]
        /\ confirmed = {}

-----------------------------------------------------------------------------
\* Mutant: a token lives from the next second on.
ExpiryLate == now + 1 + Lifetime

Expiry == now + Lifetime

\* _issue_local_jwt
Issue(iam_id) == tokens' = tokens \cup {Token(key, iam_id, Expiry)}

IssueToken ==
    /\ auth = "permissive"
    /\ Issue(Local)
    /\ UNCHANGED <<key, auth, authz, policyFile, now, verifying, confirmed>>

\* _verify_with_ibm_cloud posts the API key.
BeginVerify(c, i) ==
    /\ auth = "strict"
    /\ verifying[c] = Idle
    /\ verifying' = [verifying EXCEPT ![c] = i]
    /\ UNCHANGED <<key, auth, authz, policyFile, now, tokens, confirmed>>

Answered(c) == /\ verifying[c] # Idle
               /\ verifying' = [verifying EXCEPT ![c] = Idle]
               /\ UNCHANGED <<key, auth, authz, policyFile, now>>

\* Unreachable, late or failing, or the key refused: 503 or 401, and no token.
FinishRefused(c) == Answered(c) /\ UNCHANGED <<tokens, confirmed>>

\* The token of IBM Cloud names whose key it is.
FinishConfirmed(c) ==
    /\ Answered(c)
    /\ verifying[c] # Nobody
    /\ Issue(verifying[c])
    /\ confirmed' = confirmed \cup {verifying[c]}

\* Its token cannot be read, or the status is none of those that are looked for.
FinishUnreadable(c) ==
    /\ Answered(c)
    /\ Issue(Unknown)
    /\ UNCHANGED confirmed

Tick == /\ now < MaxTime
        /\ now' = now + 1
        /\ UNCHANGED <<key, auth, authz, policyFile, tokens, verifying, confirmed>>

\* The file is exported again, in place, while the server runs.
EditPolicies ==
    /\ \/ policyFile' = Unreadable
       \/ \E policies \in SUBSET Policy : policyFile' = Holding(policies)
    /\ UNCHANGED <<key, auth, authz, now, tokens, verifying, confirmed>>

\* Mutant: the key pair is one that the last process left.
RestartSameKey ==
    /\ key < MaxProcess
    /\ auth' \in {"permissive", "strict"}
    /\ authz' \in {"off", "enforce"}
    /\ verifying' = [c \in Client |-> Idle]
    /\ confirmed' = {}
    /\ UNCHANGED <<key, policyFile, now, tokens>>

\* A new process: what it knew dies with the old one, but clients keep their tokens.
Restart ==
    /\ key < MaxProcess
    /\ key' = key + 1
    /\ auth' \in {"permissive", "strict"}
    /\ authz' \in {"off", "enforce"}
    /\ verifying' = [c \in Client |-> Idle]
    /\ confirmed' = {}
    /\ UNCHANGED <<policyFile, now, tokens>>

Next ==
    \/ IssueToken \/ Tick \/ EditPolicies \/ Restart
    \/ \E c \in Client :
          \/ \E i \in Identity \cup {Nobody} : BeginVerify(c, i)
          \/ FinishRefused(c) \/ FinishConfirmed(c) \/ FinishUnreadable(c)

Spec == Init /\ [][Next]_vars

-----------------------------------------------------------------------------
\* _is_bypass_path: the token endpoints; the control plane and the dashboard are
\* not among the routes of the providers.
Bypassed(r) == r.path[1] = "identity"

\* Mutant: the key is the one that the first process had.
VerifyingFirstKey == 1

\* set_iam_provider: the middleware has the provider that issues the tokens.
VerifyingKey == key

\* jwt.decode with verify_exp: from its expiry on a token is refused.
ExpiredVerified(t) == t.exp <= now

\* Mutant: a token is refused for a second too many.
ExpiredEarly(t) == now + 1 >= t.exp

\* Without verification, it is the second after its expiry.
ExpiredUnverified(t) == now > t.exp

AuthenticIn(mode, t) ==
    IF mode = "strict" THEN t.key = VerifyingKey /\ ~ExpiredVerified(t)
    ELSE ~ExpiredUnverified(t)

Authentic(t) == AuthenticIn(auth, t)

ActionOf == [r \in Requests |-> ResolveAction(r.method, r.path)]

\* _check_authz lets through what it cannot decide.
Denied(iam_id, action) ==
    /\ policyFile.readable
    /\ action # Unmapped
    /\ ~Allows(policyFile.policies, iam_id, action)

\* dispatch
Verdict(t, r) ==
    IF Bypassed(r) THEN "let through"
    ELSE IF ~Authentic(t) THEN "401"
    ELSE IF authz = "enforce" /\ Denied(t.iam_id, ActionOf[r]) THEN "403"
    ELSE "let through"

-----------------------------------------------------------------------------
TypeOK ==
    /\ key \in Nat \ {0} /\ now \in Nat
    /\ auth \in {"permissive", "strict"} /\ authz \in {"off", "enforce"}
    /\ policyFile \in {Unreadable} \cup {Holding(policies) : policies \in SUBSET Policy}
    /\ tokens \subseteq [key : 0 .. key, iam_id : Identity \cup {Unknown, Local},
                         exp : 0 .. now + Lifetime]
    /\ verifying \in [Client -> Identity \cup {Nobody, Idle}]
    /\ confirmed \subseteq Identity

Guarded == {r \in Requests : ~Bypassed(r)}

\* In strict mode a token that is let through was issued by this very process, to
\* somebody it has asked IBM Cloud about (or IBM Cloud left open who), less than a
\* lifetime ago: no restart, change of mode or late answer lets an older one through.
StrictMeansConfirmed ==
    auth = "strict" =>
        \A t \in tokens : \A r \in Guarded :
            Verdict(t, r) = "let through" =>
                /\ t.key = key
                /\ t.iam_id \in confirmed \cup {Unknown}
                /\ now < t.exp /\ t.exp <= now + Lifetime

\* A token of this process works from its issue to its expiry, in either mode.
FreshTokensWork ==
    \A t \in tokens : \A r \in Requests :
        t.key = key /\ now < t.exp => Verdict(t, r) # "401"

\* A token that strict mode accepts is accepted in permissive mode at that moment: the
\* library and the handler each compare the expiry with a clock of their own.
StrictIsStricter ==
    \A t \in tokens : AuthenticIn("strict", t) => AuthenticIn("permissive", t)

\* Where policies are enforced, and can be read, the request of an authentic token
\* to a VPC service is let through if and only if a role of its subject ranks high
\* enough, by the file as it is at that moment.
EnforcedByRank ==
    authz = "enforce" /\ policyFile.readable =>
        \A t \in tokens : \A r \in Guarded :
            Authentic(t) /\ ActionOf[r] # Unmapped =>
                (Verdict(t, r) = "let through"
                   <=> Outranks(policyFile.policies, t.iam_id, ActionOf[r]))

\* Who has no role but Viewer on the service changes nothing in it.
ViewersChangeNothing ==
    authz = "enforce" /\ policyFile.readable =>
        \A t \in tokens : \A r \in Requests :
            /\ RolesOn(policyFile.policies, t.iam_id, "is") \subseteq {"Viewer"}
            /\ r.method # "GET"
            /\ Route(r.method, r.path) \in VpcServiceRoutes
            => Verdict(t, r) # "let through"

\* Who has no role at all on the service is answered nothing by it, whatever the
\* route: there is none that the table of actions has no entry for.
StrangersSeeNothing ==
    authz = "enforce" /\ policyFile.readable =>
        \A t \in tokens : \A r \in Requests :
            /\ RolesOn(policyFile.policies, t.iam_id, "is") = {}
            /\ Route(r.method, r.path) \in VpcServiceRoutes
            => Verdict(t, r) \in {"401", "403"}
=============================================================================
