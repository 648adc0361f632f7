------------------------------- MODULE RuleTable -------------------------------
(***************************************************************************)
(* What clients may take the rules of RuleList to be: a table of rows in   *)
(* every group, where a request takes effect at once, when it is answered. *)
(* There are no lists here, no objects that handlers hold on to, and a     *)
(* request knows of a row by its id alone.                                 *)
(***************************************************************************)
EXTENDS Integers

CONSTANTS Client, Field, Value, Default

VARIABLES
    table,     \* the rows of each group: the fields of a rule, by its id
    calls,     \* what each client waits for an answer to
    minted     \* ids up to this one have been given out

None == 0

Call(group, rule, gives) == [group |-> group, rule |-> rule, gives |-> gives]

NoCall == Call(None, None, {})

Row == [Field -> Value]

AllDefault == [f \in Field |-> Default]

\* A row with the fields of a body.
With(row, body) == [f \in Field |-> IF f \in DOMAIN body THEN body[f] ELSE row[f]]

Put(rows, id, row) == [x \in DOMAIN rows \cup {id} |-> IF x = id THEN row ELSE rows[x]]

Init == /\ table = [g \in {} |-> g]
        /\ calls = [c \in Client |-> NoCall]
        /\ minted = 0

-----------------------------------------------------------------------------
Fresh == minted + 1 .. minted'

\* Ids are given out, to a group with rows or to something else.
Mint == /\ minted <= minted'
        /\ UNCHANGED <<calls, table>>

CreateGroup(g) ==
    /\ UNCHANGED calls
    /\ \E ids \in SUBSET (Fresh \ {g}) : \E rows \in [ids -> Row] : table' = Put(table, g, rows)

\* Groups go, some or all, with their rows.
DropGroups == /\ UNCHANGED <<calls, minted>>
              /\ DOMAIN table' \subseteq DOMAIN table
              /\ table' = [g \in DOMAIN table' |-> table[g]]

DeleteRow(g, rule) ==
    /\ UNCHANGED <<calls, minted>>
    /\ table' = [table EXCEPT ![g] = [r \in DOMAIN table[g] \ {rule} |-> table[g][r]]]

\* A client asks for a rule to be added, or for one that is there to be changed.
Ask(c, g, rule, gives) ==
    /\ calls[c] = NoCall
    /\ calls' = [calls EXCEPT ![c] = Call(g, rule, gives)]
    /\ UNCHANGED <<minted, table>>

Answer(c) == calls[c] # NoCall /\ calls' = [calls EXCEPT ![c] = NoCall]

Add(c, body) ==
    LET g == calls[c].group IN
    /\ Answer(c)
    /\ calls[c].rule = None /\ g \in DOMAIN table
    /\ minted' = minted + 1
    /\ table' = [table EXCEPT ![g] = Put(table[g], minted + 1, With(AllDefault, body))]

Change(c, body) ==
    LET g == calls[c].group
        rule == calls[c].rule
    IN /\ Answer(c)
       /\ g \in DOMAIN table /\ rule \in DOMAIN table[g]
       /\ table' = [table EXCEPT ![g] = Put(table[g], rule, With(table[g][rule], body))]
       /\ UNCHANGED minted

\* The group or the row has gone meanwhile: whatever the answer, nothing is edited.
Miss(c) ==
    LET g == calls[c].group
        rule == calls[c].rule
    IN /\ Answer(c)
       /\ g \in DOMAIN table => rule # None /\ rule \notin DOMAIN table[g]
       /\ UNCHANGED <<table, minted>>

Next ==
    \/ DropGroups
    \/ \E g \in DOMAIN table : \E rule \in DOMAIN table[g] : DeleteRow(g, rule)
    \/ \E c \in Client :
          \/ \E g \in DOMAIN table :
                \E rule \in DOMAIN table[g] \cup {None}, gives \in SUBSET Field :
                   Ask(c, g, rule, gives)
          \/ Miss(c)
          \/ \E body \in [calls[c].gives -> Value] : Add(c, body) \/ Change(c, body)
    \/ Mint \/ \E g \in Fresh : CreateGroup(g)

Spec == Init /\ [][Next]_<<table, calls, minted>>
=============================================================================
