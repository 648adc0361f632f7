------------------------------- MODULE RuleList -------------------------------
(***************************************************************************)
(* The rules of security groups (src/providers/vpc.py) and of network ACLs *)
(* (src/providers/network_acl.py): a list inside the object of the group,  *)
(* in the order the API lists it.  The two providers treat rules alike, so *)
(* a group here is of one kind or the other.                               *)
(*                                                                         *)
(* POST and PATCH of a rule find the group, and the rule, before they      *)
(* await the body: Begin, and a Finish action each.  What they hold on to  *)
(* then is the stored object itself, and not a copy.  The VPC a group      *)
(* names is left out, no handler of rules looks at it.                     *)
(***************************************************************************)
EXTENDS Integers, Sequences, StateStore

CONSTANTS Client,      \* connections with a POST or PATCH of a rule in flight
          Field,       \* the fields of a rule
          Value,       \* what a body may set a field to
          Default,     \* what a field is that no body has set
          MaxId        \* bound: how many uuids are drawn

ASSUME RuleAssumption == Default \in Value /\ MaxId \in Nat

VARIABLES
    groups,    \* the namespaces "security_groups" and "network_acls"
    subnets,   \* the network ACL of each subnet
    pending,   \* what each in-flight handler found, awaiting its body, and the
               \* fields that the body gives
    minted     \* how many uuids were drawn

vars == <<groups, subnets, pending, minted>>

Kind == {"security_groups", "network_acls"}
Id == Nat \ {0}
None == 0

Request(group, rule, gives) == [group |-> group, rule |-> rule, gives |-> gives]

NoRequest == Request(None, None, {})

\* A body gives some of the fields.
Body == UNION {[fields -> Value] : fields \in SUBSET Field}

Merged(fields, body) ==
    [f \in Field |-> IF f \in DOMAIN body THEN body[f] ELSE fields[f]]

AllDefault == [f \in Field |-> Default]

Rule(id, body) == [id |-> id, fields |-> Merged(AllDefault, body)]

RuleIds(rules) == {rules[i].id : i \in DOMAIN rules}

Init == /\ groups = EmptyBucket
        /\ subnets = EmptyBucket
        /\ pending = [c \in Client |-> NoRequest]
        /\ minted = 0

\* Mutant: an id that was drawn is drawn again.
DrawStuck(n) == minted + n <= MaxId /\ UNCHANGED minted

Draw(n) == minted + n <= MaxId /\ minted' = minted + n

-----------------------------------------------------------------------------
\* Mutant: one id for all the rules of a group.
NewGroupOneId(kind, id, bodies) ==
    [kind |-> kind, rules |-> [i \in DOMAIN bodies |-> Rule(id + 1, bodies[i])]]

\* A group with the rules that the bodies give, on ids that follow.
NewGroup(kind, id, bodies) ==
    [kind |-> kind, rules |-> [i \in DOMAIN bodies |-> Rule(id + i, bodies[i])]]

AllowAll == <<AllDefault, AllDefault>>

\* POST /v1/security_groups.
CreateSecurityGroup(bodies) ==
    /\ Draw(1 + Len(bodies))
    /\ groups' = BucketPut(groups, minted + 1,
                           NewGroup("security_groups", minted + 1, bodies))
    /\ UNCHANGED <<subnets, pending>>

\* POST /v1/network_acls: without rules it gets one to allow all each way.
CreateNetworkAcl(bodies) ==
    LET seeded == IF bodies = <<>> THEN AllowAll ELSE bodies IN
    /\ Draw(1 + Len(seeded))
    /\ groups' = BucketPut(groups, minted + 1,
                           NewGroup("network_acls", minted + 1, seeded))
    /\ UNCHANGED <<subnets, pending>>

\* POST /v1/subnets with a network_acl.  A subnet that names one that is not there
\* is created without, and is left out.
CreateSubnetWithAcl(acl) ==
    /\ Draw(1)
    /\ acl \in DOMAIN groups /\ groups[acl].kind = "network_acls"
    /\ subnets' = BucketPut(subnets, minted + 1, acl)
    /\ UNCHANGED <<groups, pending>>

\* POST /v1/subnets without one: it is given a network ACL of its own.
CreateSubnet ==
    /\ Draw(4)
    /\ groups' = BucketPut(groups, minted + 2,
                           NewGroup("network_acls", minted + 2, AllowAll))
    /\ subnets' = BucketPut(subnets, minted + 1, minted + 2)
    /\ UNCHANGED pending

DeleteSubnet(s) ==
    /\ subnets' = BucketDelete(subnets, s)
    /\ UNCHANGED <<groups, pending, minted>>

\* A network ACL is not deleted while a subnet has it.
DeleteGroup(g) ==
    /\ groups[g].kind = "network_acls" => \A s \in DOMAIN subnets : subnets[s] # g
    /\ groups' = BucketDelete(groups, g)
    /\ UNCHANGED <<subnets, pending, minted>>

\* Mutant: the filter of the lookup, where the others are meant.
WithoutOthers(rules, rule) ==
    LET Is(r) == r.id = rule IN SelectSeq(rules, Is)

\* What a filter that drops one rule keeps of the first n, for every n.  (Nothing
\* can be proved of SelectSeq, of which the prover has no definition.)
Kept(rules, rule) ==
    LET kept[n \in 0 .. Len(rules)] ==
            IF n = 0 THEN <<>>
            ELSE IF rules[n].id = rule THEN kept[n - 1]
            ELSE Append(kept[n - 1], rules[n])
    IN kept

\* [r for r in rules if r["id"] != rule_id]
Without(rules, rule) == Kept(rules, rule)[Len(rules)]

DeleteRule(g, rule) ==
    /\ rule \in RuleIds(groups[g].rules)
    /\ groups' = [groups EXCEPT ![g].rules = Without(@, rule)]
    /\ UNCHANGED <<subnets, pending, minted>>

-----------------------------------------------------------------------------
\* A POST looks for the group, a PATCH for the rule as well.
Begin(c, g, rule, gives) ==
    /\ pending[c] = NoRequest
    /\ rule \in RuleIds(groups[g].rules) \cup {None}
    /\ pending' = [pending EXCEPT ![c] = Request(g, rule, gives)]
    /\ UNCHANGED <<groups, subnets, minted>>

\* The body has arrived.
Resumed(c) == /\ pending[c] # NoRequest
              /\ pending' = [pending EXCEPT ![c] = NoRequest]
              /\ UNCHANGED subnets

\* Mutant: store.put, in place of store.update, puts the group back.
FinishPuttingGroup(c) ==
    /\ Resumed(c)
    /\ pending[c].group \notin DOMAIN groups
    /\ groups' = BucketPut(groups, pending[c].group, NewGroup("security_groups", 0, <<>>))
    /\ UNCHANGED minted

\* The group went meanwhile: store.update finds nothing, and the rule is
\* answered with although it is in no list.
FinishWithoutGroup(c) ==
    /\ Resumed(c)
    /\ pending[c].group \notin DOMAIN groups
    /\ UNCHANGED <<groups, minted>>

\* The list is read after the await.
FinishCreateRule(c, body) ==
    /\ Resumed(c)
    /\ pending[c].rule = None
    /\ pending[c].group \in DOMAIN groups
    /\ Draw(1)
    /\ groups' = [groups EXCEPT ![pending[c].group].rules =
                    Append(@, Rule(minted + 1, body))]

\* Mutant: the rule is built from the body, as a POST does.
PatchedAnew(rules, rule, body) ==
    [i \in DOMAIN rules |-> IF rules[i].id = rule THEN Rule(rule, body) ELSE rules[i]]

\* Mutant: the rule is taken out and put back at the end.
PatchedLast(rules, rule, body) ==
    LET Is(r) == r.id = rule
        Patch(r) == [r EXCEPT !.fields = Merged(@, body)]
        found == SelectSeq(rules, Is)
    IN Without(rules, rule) \o [i \in DOMAIN found |-> Patch(found[i])]

\* Mutant: the rule is put into the list whether it is still there or not.
PatchedOrAdded(rules, rule, body) ==
    IF rule \in RuleIds(rules)
    THEN [i \in DOMAIN rules |->
             IF rules[i].id = rule THEN [rules[i] EXCEPT !.fields = Merged(@, body)]
             ELSE rules[i]]
    ELSE Append(rules, Rule(rule, body))

\* rule.update(body), and [rule if r["id"] == rule_id else r for r in rules]
Patched(rules, rule, body) ==
    [i \in DOMAIN rules |->
        IF rules[i].id = rule THEN [rules[i] EXCEPT !.fields = Merged(@, body)]
        ELSE rules[i]]

FinishPatchRule(c, body) ==
    /\ Resumed(c)
    /\ pending[c].rule # None
    /\ pending[c].group \in DOMAIN groups
    /\ groups' = [groups EXCEPT ![pending[c].group].rules =
                    Patched(@, pending[c].rule, body)]
    /\ UNCHANGED minted

-----------------------------------------------------------------------------
\* POST /_emulator/reset.
Reset == /\ groups' = EmptyBucket
         /\ subnets' = EmptyBucket
         /\ UNCHANGED <<pending, minted>>

\* POST /_emulator/reset/{namespace}.
ResetOne(kind) ==
    /\ groups' = [g \in {h \in DOMAIN groups : groups[h].kind # kind} |-> groups[g]]
    /\ subnets' = IF kind = "subnets" THEN EmptyBucket ELSE subnets
    /\ UNCHANGED <<pending, minted>>

\* Up to one rule comes with a group.
Bodies == {<<>>} \cup {<<body>> : body \in Body}

Finish(c) == \/ FinishWithoutGroup(c)
             \/ \E body \in [pending[c].gives -> Value] :
                   FinishCreateRule(c, body) \/ FinishPatchRule(c, body)

Next ==
    \/ \E bodies \in Bodies : CreateSecurityGroup(bodies) \/ CreateNetworkAcl(bodies)
    \/ CreateSubnet
    \/ \E acl \in DOMAIN groups : CreateSubnetWithAcl(acl)
    \/ \E s \in DOMAIN subnets : DeleteSubnet(s)
    \/ \E g \in DOMAIN groups :
          \/ DeleteGroup(g)
          \/ \E rule \in RuleIds(groups[g].rules) : DeleteRule(g, rule)
    \/ \E c \in Client, g \in DOMAIN groups :
          \E rule \in RuleIds(groups[g].rules) \cup {None}, gives \in SUBSET Field :
             Begin(c, g, rule, gives)
    \/ \E c \in Client : Finish(c)
    \/ Reset \/ \E kind \in Kind \cup {"subnets"} : ResetOne(kind)

Spec == Init /\ [][Next]_vars

-----------------------------------------------------------------------------
Drawn == {i \in Id : i <= minted}

GroupOK(g) ==
    g \in [kind : Kind, rules : Seq([id : Drawn, fields : [Field -> Value]])]

TypeOK ==
    /\ minted \in Nat
    /\ DOMAIN groups \subseteq Drawn
    /\ \A g \in DOMAIN groups : GroupOK(groups[g])
    /\ DOMAIN subnets \subseteq Drawn
    /\ \A s \in DOMAIN subnets : subnets[s] \in Drawn
    /\ pending \in [Client -> [group : Drawn \cup {None}, rule : Drawn \cup {None},
                               gives : SUBSET Field]]

\* A rule has an id that no other rule of any group has, so a PATCH and a DELETE
\* by id concern one rule.
RuleIdsUnique ==
    \A g, h \in DOMAIN groups :
        \A i \in DOMAIN groups[g].rules, j \in DOMAIN groups[h].rules :
            groups[g].rules[i].id = groups[h].rules[j].id => g = h /\ i = j

HeldBy(g) == RuleIds(groups[g].rules)

\* A rule goes with a DELETE of it, or with its group, and never because another
\* handler wrote the list back as it had found it.
NoRuleLost ==
    [][\A g \in DOMAIN groups \cap DOMAIN groups' :
          \A rule \in HeldBy(g) \ HeldBy(g)' : DeleteRule(g, rule)]_vars

\* A rule that was deleted stays deleted, whatever PATCH of it is still in flight.
NoRuleReturns ==
    [][\A g \in DOMAIN groups \cap DOMAIN groups' :
          \A rule \in HeldBy(g)' \ HeldBy(g) : rule > minted]_vars

\* Rules are listed in the order they were added: edits never reorder the others.
\* Ids are drawn in that order.
OrderKept ==
    \A g \in DOMAIN groups :
        \A i, j \in DOMAIN groups[g].rules :
            i < j => groups[g].rules[i].id < groups[g].rules[j].id

\* A step that carries out a PATCH of the rule which gives these fields.
PatchOf(rule, fields) ==
    \E c \in Client : /\ pending'[c] # pending[c]
                      /\ pending[c].rule = rule
                      /\ fields \subseteq pending[c].gives

Changed(old, new) == {f \in Field : old.fields[f] # new.fields[f]}

\* Two PATCHes of a rule in flight at once both count: each changes the fields
\* its own body gives, and no others.
NoFieldLost ==
    [][\A g \in DOMAIN groups \cap DOMAIN groups' :
          \A i \in DOMAIN groups[g].rules, j \in DOMAIN groups'[g].rules :
             LET old == groups[g].rules[i]
                 new == groups'[g].rules[j]
             IN old.id = new.id /\ Changed(old, new) # {}
                   => PatchOf(old.id, Changed(old, new))]_vars

-----------------------------------------------------------------------------
\* A list, as rows by their ids.
Rows(rules) ==
    [id \in RuleIds(rules) |-> rules[CHOOSE i \in DOMAIN rules : rules[i].id = id].fields]

GroupRows == [g \in DOMAIN groups |-> Rows(groups[g].rules)]

Table == INSTANCE RuleTable WITH table <- GroupRows, calls <- pending

\* Whatever handlers hold on to while they await a body, every request takes effect as
\* one edit of a table of rows at the moment it is answered: with OrderKept, the lists
\* are that table, in the order of its ids.
TableSpec == Table!Spec
=============================================================================
