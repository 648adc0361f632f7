------------------------------ MODULE PolicyStore ------------------------------
(***************************************************************************)
(* What a set of IAM policies grants: src/iam/policy_store.py.  A policy   *)
(* gives subjects roles on services, each a set.                           *)
(***************************************************************************)
EXTENDS Naturals

\* _ROLE_SUFFIXES; the last is looked at on its own.
ROLE_SUFFIXES ==
    [Viewer        |-> {"list", "read"},
     Operator      |-> {"list", "read", "operate"},
     Editor        |-> {"list", "read", "operate", "create", "update", "delete"},
     Administrator |-> {}]

\* A role that is not listed has none.
Suffixes(role) == IF role \in DOMAIN ROLE_SUFFIXES THEN ROLE_SUFFIXES[role] ELSE {}

PoliciesFor(policies, iam_id) == {p \in policies : iam_id \in p.subjects}

\* Mutant: the service of a policy is not compared.
AllowsAnyService(policies, iam_id, action) ==
    \E p \in PoliciesFor(policies, iam_id) :
        \E role \in p.roles : role = "Administrator" \/ action.verb \in Suffixes(role)

Allows(policies, iam_id, action) ==
    \E p \in PoliciesFor(policies, iam_id) :
        /\ action.service \in p.services
        /\ \E role \in p.roles : role = "Administrator" \/ action.verb \in Suffixes(role)

-----------------------------------------------------------------------------
(* The same, by rank: a role grants what the roles below it grant. *)

Verbs == {"list", "read", "operate", "create", "update", "delete"}

RANK == [Viewer |-> 1, Operator |-> 2, Editor |-> 3, Administrator |-> 4]

Rank(role) == IF role \in DOMAIN RANK THEN RANK[role] ELSE 0

Needed(verb) ==
    IF verb \in {"list", "read"} THEN 1 ELSE IF verb = "operate" THEN 2 ELSE 3

\* What the policies give an identity on a service.
RolesOn(policies, iam_id, service) ==
    UNION {p.roles : p \in {q \in policies : iam_id \in q.subjects /\ service \in q.services}}

Outranks(policies, iam_id, action) ==
    \E role \in RolesOn(policies, iam_id, action.service) : Rank(role) >= Needed(action.verb)
=============================================================================
