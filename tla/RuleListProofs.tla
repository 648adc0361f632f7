---------------------------- MODULE RuleListProofs ----------------------------
(***************************************************************************)
(* What holds of RuleList for every value of its constants, and for lists  *)
(* of any length.  What the filter of a DELETE keeps is found by induction *)
(* on the length of the list.  The theorems of the library that state      *)
(* induction take an operator, which the provers cannot instantiate, so it *)
(* is derived from the least element that a set of numbers has.            *)
(***************************************************************************)
EXTENDS RuleList, WellFoundedInduction, TLAPS

LEMMA LeastNumber ==
    ASSUME NEW T, T \subseteq Nat, T # {}
    PROVE  \E x \in T : \A y \in T : x <= y
<1>1. IsWellFoundedOn(OpToRel(<, Nat), Nat)
  BY NatLessThanWellFounded
<1>2. PICK x \in T : \A y \in T : <<y, x>> \notin OpToRel(<, Nat)
  BY <1>1, WFMin
<1>3. ASSUME NEW y \in T
      PROVE  x <= y
  <2>1. x \in Nat /\ y \in Nat
    OBVIOUS
  <2>2. y < x => <<y, x>> \in OpToRel(<, Nat)
    BY <2>1 DEF OpToRel
  <2>3. ~(y < x)
    BY <1>2, <2>2
  <2> QED
    BY <2>1, <2>3
<1> QED
  BY <1>3

LEMMA Induction ==
    ASSUME NEW P, 0 \in P, \A n \in Nat : n \in P => n + 1 \in P
    PROVE  Nat \subseteq P
<1> SUFFICES ASSUME ~(Nat \subseteq P) PROVE FALSE
  OBVIOUS
<1>1. PICK T : T = Nat \ P
  OBVIOUS
<1>2. PICK x \in T : \A y \in T : x <= y
  BY <1>1, LeastNumber
<1>3. x \in Nat /\ x \notin P /\ x # 0
  BY <1>1, <1>2
<1>4. x - 1 \in P
  BY <1>1, <1>2, <1>3
<1> QED
  BY <1>3, <1>4

-----------------------------------------------------------------------------
\* The function that Kept chooses: there is one.
IsKept(f, rules, rule, m) ==
    f = [n \in 0 .. m |-> IF n = 0 THEN <<>>
                          ELSE IF rules[n].id = rule THEN f[n - 1]
                          ELSE Append(f[n - 1], rules[n])]

LEMMA KeptExists ==
    ASSUME NEW rules, NEW rule
    PROVE  \A m \in Nat : \E f : IsKept(f, rules, rule, m)
<1>1. PICK P : P = {m \in Nat : \E f : IsKept(f, rules, rule, m)}
  OBVIOUS
<1>2. 0 \in P
  <2>1. PICK f : f = [n \in 0 .. 0 |-> <<>>]
    OBVIOUS
  <2>2. IsKept(f, rules, rule, 0)
    BY <2>1 DEF IsKept
  <2> QED
    BY <1>1, <2>2
<1>3. ASSUME NEW m \in Nat, m \in P
      PROVE  m + 1 \in P
  <2>1. PICK f : IsKept(f, rules, rule, m)
    BY <1>1, <1>3
  <2>2. PICK last : last = IF rules[m + 1].id = rule THEN f[m]
                           ELSE Append(f[m], rules[m + 1])
    OBVIOUS
  <2>3. PICK g : g = [n \in 0 .. m + 1 |-> IF n = m + 1 THEN last ELSE f[n]]
    OBVIOUS
  <2>4. \A n \in 0 .. m : f[n] = IF n = 0 THEN <<>>
                                 ELSE IF rules[n].id = rule THEN f[n - 1]
                                 ELSE Append(f[n - 1], rules[n])
    BY <2>1 DEF IsKept
  <2>5. ASSUME NEW n \in 0 .. m + 1
        PROVE  g[n] = IF n = 0 THEN <<>>
                      ELSE IF rules[n].id = rule THEN g[n - 1]
                      ELSE Append(g[n - 1], rules[n])
    <3>1. CASE n = m + 1
      <4>1. g[n] = last /\ g[n - 1] = f[m]
        BY <2>3, <3>1
      <4> QED
        BY <2>2, <3>1, <4>1
    <3>2. CASE n \in 0 .. m
      <4>1. g[n] = f[n] /\ (n # 0 => g[n - 1] = f[n - 1])
        BY <2>3, <3>2
      <4> QED
        BY <2>4, <3>2, <4>1
    <3> QED
      BY <3>1, <3>2
  <2>6. IsKept(g, rules, rule, m + 1)
    BY <2>3, <2>5 DEF IsKept
  <2> QED
    BY <1>1, <2>6
<1> QED
  BY <1>1, <1>2, <1>3, Induction

LEMMA KeptIs ==
    ASSUME NEW rules, NEW rule, Len(rules) \in Nat
    PROVE  /\ Kept(rules, rule)[0] = <<>>
           /\ \A n \in 1 .. Len(rules) :
                 Kept(rules, rule)[n] = IF rules[n].id = rule THEN Kept(rules, rule)[n - 1]
                                        ELSE Append(Kept(rules, rule)[n - 1], rules[n])
<1>1. \E f : IsKept(f, rules, rule, Len(rules))
  BY KeptExists
<1>2. Kept(rules, rule) = CHOOSE f : IsKept(f, rules, rule, Len(rules))
  BY DEF Kept, IsKept
<1>3. IsKept(Kept(rules, rule), rules, rule, Len(rules))
  BY <1>1, <1>2
<1>4. PICK f : f = Kept(rules, rule)
  OBVIOUS
<1>5. f = [n \in 0 .. Len(rules) |-> IF n = 0 THEN <<>>
                                     ELSE IF rules[n].id = rule THEN f[n - 1]
                                     ELSE Append(f[n - 1], rules[n])]
  BY <1>3, <1>4 DEF IsKept
<1>6. f[0] = <<>>
  BY <1>5
<1>7. ASSUME NEW n \in 1 .. Len(rules)
      PROVE  f[n] = IF rules[n].id = rule THEN f[n - 1] ELSE Append(f[n - 1], rules[n])
  <2>1. n \in 0 .. Len(rules) /\ n # 0
    OBVIOUS
  <2> QED
    BY <1>5, <2>1
<1> QED
  BY <1>4, <1>6, <1>7

-----------------------------------------------------------------------------
\* What is kept is what does not have the id, in the same order.
Keeps(kept, rules, n, rule) ==
    /\ \A i \in DOMAIN kept : \E k \in 1 .. n : kept[i] = rules[k] /\ rules[k].id # rule
    /\ \A k \in 1 .. n : rules[k].id # rule => \E i \in DOMAIN kept : kept[i] = rules[k]
    /\ \A i, j \in DOMAIN kept : i < j =>
          \E k, l \in 1 .. n : k < l /\ kept[i] = rules[k] /\ kept[j] = rules[l]

LEMMA AppendFacts ==
    ASSUME NEW S, NEW s \in Seq(S), NEW x \in S
    PROVE  /\ Append(s, x) \in Seq(S)
           /\ Len(s) \in Nat /\ DOMAIN s = 1 .. Len(s)
           /\ DOMAIN Append(s, x) = 1 .. Len(s) + 1
           /\ Append(s, x)[Len(s) + 1] = x
           /\ \A i \in DOMAIN s : Append(s, x)[i] = s[i]
  OBVIOUS

LEMMA KeepsMore ==
    ASSUME NEW S, NEW kept \in Seq(S), NEW rules \in Seq(S), NEW rule, NEW n \in Nat,
           n + 1 \in 1 .. Len(rules), Keeps(kept, rules, n, rule)
    PROVE  IF rules[n + 1].id = rule THEN Keeps(kept, rules, n + 1, rule)
           ELSE Keeps(Append(kept, rules[n + 1]), rules, n + 1, rule)
<1>1. CASE rules[n + 1].id = rule
  <2>1. 1 .. n + 1 = (1 .. n) \cup {n + 1}
    OBVIOUS
  <2> QED
    BY <1>1, <2>1 DEF Keeps
<1>2. CASE rules[n + 1].id # rule
  <2>1. PICK x \in S : x = rules[n + 1]
    OBVIOUS
  <2>2. PICK more : more = Append(kept, x)
    OBVIOUS
  <2>3. PICK m \in Nat : m = Len(kept)
    OBVIOUS
  <2>4. /\ DOMAIN kept = 1 .. m /\ DOMAIN more = 1 .. m + 1
        /\ more[m + 1] = x
        /\ \A i \in 1 .. m : more[i] = kept[i]
    BY <2>1, <2>2, <2>3, AppendFacts
  <2>5. /\ 1 .. n + 1 = (1 .. n) \cup {n + 1}
        /\ 1 .. m + 1 = (1 .. m) \cup {m + 1}
        /\ \A k \in 1 .. n : k < n + 1
    OBVIOUS
  <2>6. \A i \in DOMAIN more : \E k \in 1 .. n + 1 :
           more[i] = rules[k] /\ rules[k].id # rule
    BY <1>2, <2>1, <2>4, <2>5 DEF Keeps
  <2>7. \A k \in 1 .. n + 1 : rules[k].id # rule =>
           \E i \in DOMAIN more : more[i] = rules[k]
    BY <1>2, <2>1, <2>4, <2>5 DEF Keeps
  <2>8. ASSUME NEW i \in DOMAIN more, NEW j \in DOMAIN more, i < j
        PROVE  \E k, l \in 1 .. n + 1 :
                  k < l /\ more[i] = rules[k] /\ more[j] = rules[l]
    <3>1. i \in 1 .. m
      BY <2>4, <2>8
    <3>2. CASE j \in 1 .. m
      BY <2>4, <2>5, <2>8, <3>1, <3>2 DEF Keeps
    <3>3. CASE j = m + 1
      <4>1. PICK k \in 1 .. n : kept[i] = rules[k]
        BY <2>4, <3>1 DEF Keeps
      <4>2. more[i] = rules[k] /\ more[j] = rules[n + 1] /\ k < n + 1
        BY <2>1, <2>4, <3>1, <3>3, <4>1
      <4> QED
        BY <2>5, <4>2
    <3> QED
      BY <2>4, <3>2, <3>3
  <2>9. Keeps(more, rules, n + 1, rule)
    BY <2>6, <2>7, <2>8 DEF Keeps
  <2> QED
    BY <1>2, <2>1, <2>2, <2>9
<1> QED
  BY <1>1, <1>2

\* The filter returns a list of the same kind, of all but the rule, in order.
LEMMA WithoutKeeps ==
    ASSUME NEW S, NEW rules \in Seq(S), NEW rule
    PROVE  /\ Without(rules, rule) \in Seq(S)
           /\ Keeps(Without(rules, rule), rules, Len(rules), rule)
<1>1. PICK len \in Nat : len = Len(rules)
  OBVIOUS
<1>2. PICK f : f = Kept(rules, rule)
  OBVIOUS
<1>3. /\ f[0] = <<>>
      /\ \A n \in 1 .. len : f[n] = IF rules[n].id = rule THEN f[n - 1]
                                    ELSE Append(f[n - 1], rules[n])
  BY <1>1, <1>2, KeptIs
<1>4. PICK P : P = {n \in Nat : n <= len => f[n] \in Seq(S) /\ Keeps(f[n], rules, n, rule)}
  OBVIOUS
<1>5. 0 \in P
  <2>1. f[0] \in Seq(S) /\ DOMAIN f[0] = {}
    BY <1>3
  <2> QED
    BY <1>4, <2>1 DEF Keeps
<1>6. ASSUME NEW n \in Nat, n \in P
      PROVE  n + 1 \in P
  <2>1. SUFFICES ASSUME n + 1 <= len
                 PROVE  f[n + 1] \in Seq(S) /\ Keeps(f[n + 1], rules, n + 1, rule)
    BY <1>4
  <2>2. f[n] \in Seq(S) /\ Keeps(f[n], rules, n, rule)
    BY <1>4, <1>6, <2>1
  <2>3. f[n + 1] = IF rules[n + 1].id = rule THEN f[n] ELSE Append(f[n], rules[n + 1])
    BY <1>3, <2>1
  <2>4. rules[n + 1] \in S /\ n + 1 \in 1 .. Len(rules)
    BY <1>1, <2>1
  <2>5. PICK kept : kept = f[n]
    OBVIOUS
  <2>6. f[n + 1] \in Seq(S)
    BY <2>2, <2>3, <2>4, AppendFacts
  <2>7. IF rules[n + 1].id = rule THEN Keeps(kept, rules, n + 1, rule)
        ELSE Keeps(Append(kept, rules[n + 1]), rules, n + 1, rule)
    BY <2>2, <2>4, <2>5, KeepsMore
  <2> QED
    BY <2>3, <2>5, <2>6, <2>7
<1>7. len \in P
  BY <1>5, <1>6, Induction
<1> QED
  BY <1>1, <1>2, <1>4, <1>7 DEF Without

-----------------------------------------------------------------------------
\* The invariant speaks of the uuids drawn, and of the order of each list.
DrawnTo(n) == {i \in Id : i <= n}

RuleTo(n) == [id : DrawnTo(n), fields : [Field -> Value]]

Ordered(rules) == \A i, j \in DOMAIN rules : i < j => rules[i].id < rules[j].id

RuleListInv == TypeOK /\ RuleIdsUnique /\ OrderKept

LEMMA MergedFacts ==
    ASSUME NEW fields \in [Field -> Value], NEW gives \in SUBSET Field,
           NEW body \in [gives -> Value]
    PROVE  /\ Merged(fields, body) \in [Field -> Value]
           /\ \A f \in Field \ gives : Merged(fields, body)[f] = fields[f]
  BY DEF Merged

LEMMA RuleFacts ==
    ASSUME NEW n \in Nat, NEW id \in DrawnTo(n), NEW gives \in SUBSET Field,
           NEW body \in [gives -> Value]
    PROVE  Rule(id, body) \in RuleTo(n) /\ Rule(id, body).id = id
<1>1. AllDefault \in [Field -> Value]
  BY RuleAssumption DEF AllDefault
<1>2. Merged(AllDefault, body) \in [Field -> Value]
  BY <1>1, MergedFacts
<1> QED
  BY <1>2 DEF Rule, RuleTo

LEMMA SeqGrows ==
    ASSUME NEW S, NEW T, S \subseteq T, NEW s \in Seq(S)
    PROVE  s \in Seq(T)
<1>1. PICK len \in Nat : len = Len(s)
  OBVIOUS
<1>2. s = [i \in 1 .. len |-> s[i]] /\ \A i \in 1 .. len : s[i] \in T
  BY <1>1
<1> QED
  BY <1>2

LEMMA RulesGrow ==
    ASSUME NEW n \in Nat, NEW m \in Nat, n <= m, NEW rules \in Seq(RuleTo(n))
    PROVE  rules \in Seq(RuleTo(m))
<1>1. RuleTo(n) \subseteq RuleTo(m)
  BY DEF RuleTo, DrawnTo, Id
<1> QED
  BY <1>1, SeqGrows

LEMMA RulesFacts ==
    ASSUME NEW n \in Nat, NEW rules \in Seq(RuleTo(n))
    PROVE  \A i \in DOMAIN rules : /\ i \in Nat /\ rules[i] \in RuleTo(n)
                                  /\ rules[i].id \in DrawnTo(n)
                                  /\ rules[i].id \in Nat /\ rules[i].id <= n
<1>1. \A r \in RuleTo(n) : r.id \in DrawnTo(n) /\ r.id \in Nat /\ r.id <= n
  BY DEF RuleTo, DrawnTo, Id
<1>2. \A i \in DOMAIN rules : i \in Nat /\ rules[i] \in RuleTo(n)
  OBVIOUS
<1> QED
  BY <1>1, <1>2

LEMMA OrderedOnce ==
    ASSUME NEW n \in Nat, NEW rules \in Seq(RuleTo(n)), Ordered(rules),
           NEW i \in DOMAIN rules, NEW j \in DOMAIN rules, rules[i].id = rules[j].id
    PROVE  i = j
<1>1. i \in Nat /\ j \in Nat /\ rules[i].id \in Nat
  BY RulesFacts
<1>2. ~(i < j) /\ ~(j < i)
  BY <1>1 DEF Ordered
<1> QED
  BY <1>1, <1>2

\* A group starts on ids that no rule had, in order.
LEMMA NewRules ==
    ASSUME NEW id \in Nat, NEW n \in Nat, NEW bodies \in Seq(Body), id + Len(bodies) <= n,
           NEW rules, rules = [i \in DOMAIN bodies |-> Rule(id + i, bodies[i])]
    PROVE  /\ rules \in Seq(RuleTo(n))
           /\ Ordered(rules)
           /\ \A r \in RuleIds(rules) : r > id
<1>1. PICK len \in Nat : len = Len(bodies)
  OBVIOUS
<1>2. DOMAIN bodies = 1 .. len
  BY <1>1
<1>3. ASSUME NEW i \in 1 .. len
      PROVE  rules[i] \in RuleTo(n) /\ rules[i].id = id + i
  <2>1. bodies[i] \in Body
    BY <1>1
  <2>2. PICK gives \in SUBSET Field : bodies[i] \in [gives -> Value]
    BY <2>1 DEF Body
  <2>3. id + i \in DrawnTo(n)
    BY <1>1 DEF DrawnTo, Id
  <2>4. PICK body, new : body = bodies[i] /\ new = id + i
    OBVIOUS
  <2>5. rules[i] = Rule(new, body)
    BY <1>2, <2>4
  <2>6. Rule(new, body) \in RuleTo(n) /\ Rule(new, body).id = new
    BY <2>2, <2>3, <2>4, RuleFacts
  <2> QED
    BY <2>4, <2>5, <2>6
<1>4. rules = [i \in 1 .. len |-> rules[i]]
  BY <1>2
<1>5. rules \in Seq(RuleTo(n)) /\ DOMAIN rules = 1 .. len
  BY <1>3, <1>4
<1>6. Ordered(rules)
  BY <1>3, <1>5 DEF Ordered
<1>7. \A r \in RuleIds(rules) : r > id
  BY <1>3, <1>5 DEF RuleIds
<1> QED
  BY <1>5, <1>6, <1>7

\* A POST adds a rule at the end, with an id that no rule had.
LEMMA AppendedRules ==
    ASSUME NEW n \in Nat, NEW rules \in Seq(RuleTo(n)), Ordered(rules),
           NEW new \in RuleTo(n + 1), new.id = n + 1
    PROVE  /\ Append(rules, new) \in Seq(RuleTo(n + 1))
           /\ Ordered(Append(rules, new))
           /\ DOMAIN rules \subseteq DOMAIN Append(rules, new)
           /\ \A i \in DOMAIN rules : Append(rules, new)[i] = rules[i]
           /\ \A i \in DOMAIN Append(rules, new) : 
                 i \in DOMAIN rules \/ Append(rules, new)[i].id = n + 1
<1>1. rules \in Seq(RuleTo(n + 1))
  BY RulesGrow
<1>2. PICK more : more = Append(rules, new)
  OBVIOUS
<1>3. PICK m \in Nat : m = Len(rules)
  OBVIOUS
<1>4. /\ more \in Seq(RuleTo(n + 1))
      /\ DOMAIN rules = 1 .. m /\ DOMAIN more = 1 .. m + 1
      /\ more[m + 1] = new
      /\ \A i \in 1 .. m : more[i] = rules[i]
  BY <1>1, <1>2, <1>3, AppendFacts
<1>5. \A i \in 1 .. m : rules[i].id \in Nat /\ rules[i].id <= n
  BY <1>4, RulesFacts
<1>6. \A i \in DOMAIN more : i \in DOMAIN rules \/ i = m + 1
  BY <1>4
<1>7. ASSUME NEW i \in DOMAIN more, NEW j \in DOMAIN more, i < j
      PROVE  more[i].id < more[j].id
  <2>1. i \in 1 .. m
    BY <1>4, <1>7
  <2>2. CASE j \in 1 .. m
    BY <1>4, <1>7, <2>1, <2>2 DEF Ordered
  <2>3. CASE j = m + 1
    BY <1>4, <1>5, <2>1, <2>3
  <2> QED
    BY <1>4, <2>2, <2>3
<1>8. Ordered(more)
  BY <1>7 DEF Ordered
<1> QED
  BY <1>2, <1>4, <1>6, <1>8

\* A DELETE leaves the other rules as they were, in their order.
LEMMA RulesWithout ==
    ASSUME NEW n \in Nat, NEW rules \in Seq(RuleTo(n)), Ordered(rules), NEW rule
    PROVE  /\ Without(rules, rule) \in Seq(RuleTo(n))
           /\ Ordered(Without(rules, rule))
           /\ \A i \in DOMAIN Without(rules, rule) : \E k \in DOMAIN rules :
                 Without(rules, rule)[i] = rules[k]
           /\ \A k \in DOMAIN rules : rules[k].id # rule =>
                 \E i \in DOMAIN Without(rules, rule) : Without(rules, rule)[i] = rules[k]
<1>1. PICK kept : kept = Without(rules, rule)
  OBVIOUS
<1>2. kept \in Seq(RuleTo(n)) /\ Keeps(kept, rules, Len(rules), rule)
  BY <1>1, WithoutKeeps
<1>3. DOMAIN rules = 1 .. Len(rules)
  OBVIOUS
<1>4. Ordered(kept)
  <2> SUFFICES ASSUME NEW i \in DOMAIN kept, NEW j \in DOMAIN kept, i < j
               PROVE  kept[i].id < kept[j].id
    BY DEF Ordered
  <2>1. PICK k, l \in 1 .. Len(rules) :
           k < l /\ kept[i] = rules[k] /\ kept[j] = rules[l]
    BY <1>2 DEF Keeps
  <2> QED
    BY <1>3, <2>1 DEF Ordered
<1>5. \A i \in DOMAIN kept : \E k \in DOMAIN rules : kept[i] = rules[k]
  BY <1>2, <1>3 DEF Keeps
<1>6. \A k \in DOMAIN rules : rules[k].id # rule =>
         \E i \in DOMAIN kept : kept[i] = rules[k]
  BY <1>2, <1>3 DEF Keeps
<1> QED
  BY <1>1, <1>2, <1>4, <1>5, <1>6

\* A PATCH leaves every rule where it is, and changes the fields it gives of one.
LEMMA RulesPatched ==
    ASSUME NEW n \in Nat, NEW rules \in Seq(RuleTo(n)), Ordered(rules), NEW rule,
           NEW gives \in SUBSET Field, NEW body \in [gives -> Value]
    PROVE  /\ Patched(rules, rule, body) \in Seq(RuleTo(n))
           /\ Ordered(Patched(rules, rule, body))
           /\ DOMAIN Patched(rules, rule, body) = DOMAIN rules
           /\ \A i \in DOMAIN rules :
                 /\ Patched(rules, rule, body)[i].id = rules[i].id
                 /\ rules[i].id # rule => Patched(rules, rule, body)[i] = rules[i]
                 /\ Changed(rules[i], Patched(rules, rule, body)[i]) \subseteq gives
<1>1. PICK new : new = Patched(rules, rule, body)
  OBVIOUS
<1>2. PICK len \in Nat : len = Len(rules)
  OBVIOUS
<1>3. DOMAIN rules = 1 .. len /\ DOMAIN new = 1 .. len
  BY <1>1, <1>2 DEF Patched
<1>4. ASSUME NEW i \in 1 .. len
      PROVE  /\ new[i] \in RuleTo(n) /\ new[i].id = rules[i].id
             /\ rules[i].id # rule => new[i] = rules[i]
             /\ Changed(rules[i], new[i]) \subseteq gives
  <2>1. PICK old \in RuleTo(n) : old = rules[i]
    BY <1>2
  <2>2. PICK before, fields : before = old.fields /\ fields = Merged(before, body)
    OBVIOUS
  <2>3. before \in [Field -> Value] /\ old = [id |-> old.id, fields |-> before]
    BY <2>2 DEF RuleTo
  <2>4. /\ fields \in [Field -> Value]
        /\ \A f \in Field \ gives : fields[f] = before[f]
    <3>1. /\ Merged(before, body) \in [Field -> Value]
          /\ \A f \in Field \ gives : Merged(before, body)[f] = before[f]
      BY <2>3, MergedFacts
    <3> QED
      BY <2>2, <3>1
  <2>5. new[i] = IF old.id = rule THEN [old EXCEPT !.fields = fields] ELSE old
    BY <1>1, <1>3, <2>1, <2>2 DEF Patched
  <2>6. CASE old.id = rule
    <3>1. new[i] = [id |-> old.id, fields |-> fields]
      BY <2>3, <2>5, <2>6
    <3>2. new[i] \in RuleTo(n) /\ new[i].id = old.id /\ new[i].fields = fields
      BY <2>4, <3>1 DEF RuleTo
    <3> QED
      BY <2>1, <2>2, <2>4, <2>6, <3>2 DEF Changed
  <2>7. CASE old.id # rule
    BY <2>1, <2>5, <2>7 DEF Changed
  <2> QED
    BY <2>6, <2>7
<1>5. new = [i \in 1 .. len |-> new[i]]
  BY <1>1, <1>3 DEF Patched
<1>6. new \in Seq(RuleTo(n))
  BY <1>4, <1>5
<1>7. Ordered(new)
  BY <1>3, <1>4 DEF Ordered
<1> QED
  BY <1>1, <1>3, <1>4, <1>6, <1>7

-----------------------------------------------------------------------------
GroupTo(n) == [kind : Kind, rules : Seq(RuleTo(n))]

\* What a step makes of a group: its rules are in order, and those it did not have
\* are on uuids that the step drew.
Arranged(e) ==
    /\ e \in DrawnTo(minted')
    /\ groups'[e] \in GroupTo(minted')
    /\ Ordered(groups'[e].rules)
    /\ \A r \in RuleIds(groups'[e].rules) :
          r > minted \/ (e \in DOMAIN groups /\ r \in RuleIds(groups[e].rules))

\* What a step takes from a group that stays: a rule it deletes, and the fields of
\* a rule that a PATCH gives.
Accounted(e) ==
    /\ \A r \in RuleIds(groups[e].rules) \ RuleIds(groups'[e].rules) : DeleteRule(e, r)
    /\ \A i \in DOMAIN groups[e].rules : \A j \in DOMAIN groups'[e].rules :
          /\ groups[e].rules[i].id = groups'[e].rules[j].id
          /\ Changed(groups[e].rules[i], groups'[e].rules[j]) # {}
          => PatchOf(groups[e].rules[i].id,
                     Changed(groups[e].rules[i], groups'[e].rules[j]))

\* A step edits one group e at most, and leaves the others or deletes them.
Edits(e) ==
    /\ minted' \in Nat /\ minted <= minted'
    /\ \A g \in DOMAIN groups' \ {e} : g \in DOMAIN groups /\ groups'[g] = groups[g]
    /\ e \in DOMAIN groups' => Arranged(e)
    /\ e \in DOMAIN groups \cap DOMAIN groups' => Accounted(e)

LEMMA GroupFacts ==
    ASSUME TypeOK, NEW g \in DOMAIN groups
    PROVE  /\ groups[g] \in GroupTo(minted)
           /\ groups[g].rules \in Seq(RuleTo(minted))
           /\ g \in DrawnTo(minted)
<1>1. g \in Drawn /\ GroupOK(groups[g])
  BY DEF TypeOK
<1>2. Drawn = DrawnTo(minted)
  BY DEF Drawn, DrawnTo
<1>3. groups[g] \in GroupTo(minted)
  BY <1>1, <1>2 DEF GroupOK, GroupTo, RuleTo
<1> QED
  BY <1>1, <1>2, <1>3 DEF GroupTo

\* A step that edits no group.
LEMMA EditsNone ==
    ASSUME TypeOK, minted' \in Nat, minted <= minted',
           \A g \in DOMAIN groups' : g \in DOMAIN groups /\ groups'[g] = groups[g]
    PROVE  \E e : Edits(e)
<1>1. 0 \notin DOMAIN groups
  BY DEF TypeOK, Drawn, Id
<1>2. 0 \notin DOMAIN groups'
  BY <1>1
<1>3. Edits(0)
  BY <1>1, <1>2 DEF Edits
<1> QED
  BY <1>3

\* A step that puts a new group.
LEMMA EditsNew ==
    ASSUME TypeOK, NEW k \in {1, 2}, NEW kind \in Kind, NEW bodies \in Seq(Body),
           minted' \in Nat, minted + k + Len(bodies) <= minted',
           groups' = BucketPut(groups, minted + k, NewGroup(kind, minted + k, bodies))
    PROVE  \E e : Edits(e)
<1>1. PICK low \in Nat : low = minted
  BY DEF TypeOK
<1>2. PICK high \in Nat : high = minted'
  OBVIOUS
<1>3. PICK e \in Nat : e = low + k
  BY <1>1
<1>4. PICK len \in Nat : len = Len(bodies)
  OBVIOUS
<1>5. low < e /\ e + len <= high /\ e <= high /\ low <= high
  BY <1>1, <1>2, <1>3, <1>4
<1>6. PICK rules : rules = [i \in DOMAIN bodies |-> Rule(e + i, bodies[i])]
  OBVIOUS
<1>7. /\ rules \in Seq(RuleTo(high))
      /\ Ordered(rules)
      /\ \A r \in RuleIds(rules) : r > e
  BY <1>4, <1>5, <1>6, NewRules
<1>8. groups' = BucketPut(groups, e, [kind |-> kind, rules |-> rules])
  BY <1>1, <1>3, <1>6 DEF NewGroup
<1>9. /\ groups'[e] = [kind |-> kind, rules |-> rules]
      /\ \A g \in DOMAIN groups' \ {e} : g \in DOMAIN groups /\ groups'[g] = groups[g]
  BY <1>8 DEF BucketPut
<1>10. e \notin DOMAIN groups
  BY <1>1, <1>5 DEF TypeOK, Drawn
<1>11. groups'[e] \in GroupTo(high) /\ groups'[e].rules = rules
  BY <1>7, <1>9 DEF GroupTo
<1>12. \A r \in RuleIds(rules) : r > low
  <2> SUFFICES ASSUME NEW r \in RuleIds(rules) PROVE r > low
    OBVIOUS
  <2>1. PICK i \in DOMAIN rules : r = rules[i].id
    BY DEF RuleIds
  <2>2. r \in Nat /\ r > e
    BY <1>7, <2>1, RulesFacts
  <2> QED
    BY <1>5, <2>2
<1>13. e \in DrawnTo(high)
  BY <1>5 DEF DrawnTo, Id
<1>14. Arranged(e)
  BY <1>1, <1>2, <1>7, <1>11, <1>12, <1>13 DEF Arranged
<1>15. Edits(e)
  BY <1>1, <1>2, <1>5, <1>9, <1>10, <1>14 DEF Edits
<1> QED
  BY <1>15

\* What one group becomes when its rules are written.
LEMMA RulesWritten ==
    ASSUME TypeOK, NEW e \in DOMAIN groups, NEW n \in Nat, NEW rules \in Seq(RuleTo(n)),
           groups' = [groups EXCEPT ![e].rules = rules]
    PROVE  /\ DOMAIN groups' = DOMAIN groups
           /\ groups'[e] \in GroupTo(n) /\ groups'[e].rules = rules
           /\ \A g \in DOMAIN groups \ {e} : groups'[g] = groups[g]
<1>1. PICK group : group = groups[e]
  OBVIOUS
<1>2. group \in GroupTo(minted)
  BY <1>1, GroupFacts
<1>3. groups'[e] = [group EXCEPT !.rules = rules]
  BY <1>1
<1>4. [group EXCEPT !.rules = rules] = [kind |-> group.kind, rules |-> rules]
  BY <1>2 DEF GroupTo
<1>5. groups'[e] \in GroupTo(n) /\ groups'[e].rules = rules
  BY <1>2, <1>3, <1>4 DEF GroupTo
<1> QED
  BY <1>5

LEMMA EditsDelete ==
    ASSUME TypeOK, OrderKept, NEW e \in DOMAIN groups,
           NEW rule \in RuleIds(groups[e].rules), DeleteRule(e, rule)
    PROVE  \E g : Edits(g)
<1>1. PICK n \in Nat : n = minted
  BY DEF TypeOK
<1>2. n = minted'
  BY <1>1 DEF DeleteRule
<1>3. PICK old : old = groups[e].rules
  OBVIOUS
<1>4. old \in Seq(RuleTo(n)) /\ Ordered(old) /\ e \in DrawnTo(n)
  BY <1>1, <1>3, GroupFacts DEF OrderKept, Ordered
<1>5. PICK new : new = Without(old, rule)
  OBVIOUS
<1>6. /\ new \in Seq(RuleTo(n))
      /\ Ordered(new)
      /\ \A i \in DOMAIN new : \E k \in DOMAIN old : new[i] = old[k]
      /\ \A k \in DOMAIN old : old[k].id # rule => \E i \in DOMAIN new : new[i] = old[k]
  BY <1>4, <1>5, RulesWithout
<1>7. groups' = [groups EXCEPT ![e].rules = new]
  BY <1>3, <1>5 DEF DeleteRule
<1>8. /\ DOMAIN groups' = DOMAIN groups
      /\ groups'[e] \in GroupTo(n) /\ groups'[e].rules = new
      /\ \A g \in DOMAIN groups \ {e} : groups'[g] = groups[g]
  BY <1>6, <1>7, RulesWritten
<1>9. RuleIds(new) \subseteq RuleIds(old) /\ RuleIds(old) \ RuleIds(new) \subseteq {rule}
  BY <1>6 DEF RuleIds
<1>10. Arranged(e)
  BY <1>2, <1>3, <1>4, <1>6, <1>8, <1>9 DEF Arranged
<1>11. ASSUME NEW i \in DOMAIN old, NEW j \in DOMAIN new, old[i].id = new[j].id
       PROVE  Changed(old[i], new[j]) = {}
  <2>1. PICK k \in DOMAIN old : new[j] = old[k]
    BY <1>6
  <2>2. i = k
    BY <1>4, <1>11, <2>1, OrderedOnce
  <2> QED
    BY <2>1, <2>2 DEF Changed
<1>12. Accounted(e)
  <2>1. \A r \in RuleIds(old) \ RuleIds(new) : DeleteRule(e, r)
    BY <1>9
  <2> QED
    BY <1>3, <1>8, <1>11, <2>1 DEF Accounted
<1>13. Edits(e)
  BY <1>1, <1>2, <1>8, <1>10, <1>12 DEF Edits
<1> QED
  BY <1>13

LEMMA EditsCreate ==
    ASSUME TypeOK, OrderKept, NEW c \in Client,
           NEW body \in [pending[c].gives -> Value], FinishCreateRule(c, body)
    PROVE  \E g : Edits(g)
<1>1. PICK n \in Nat : n = minted
  BY DEF TypeOK
<1>2. minted' = n + 1
  BY <1>1 DEF FinishCreateRule, Draw
<1>3. PICK gives \in SUBSET Field : body \in [gives -> Value]
  BY DEF TypeOK
<1>4. PICK e \in DOMAIN groups : e = pending[c].group
  BY DEF FinishCreateRule
<1>5. PICK old : old = groups[e].rules
  OBVIOUS
<1>6. old \in Seq(RuleTo(n)) /\ Ordered(old) /\ e \in DrawnTo(n)
  BY <1>1, <1>5, GroupFacts DEF OrderKept, Ordered
<1>7. PICK id : id = n + 1
  OBVIOUS
<1>8. PICK added : added = Rule(id, body)
  OBVIOUS
<1>9. added \in RuleTo(n + 1) /\ added.id = n + 1
  <2>1. id \in DrawnTo(n + 1)
    BY <1>7 DEF DrawnTo, Id
  <2> QED
    BY <1>3, <1>7, <1>8, <2>1, RuleFacts
<1>10. PICK new : new = Append(old, added)
  OBVIOUS
<1>11. /\ new \in Seq(RuleTo(n + 1))
       /\ Ordered(new)
       /\ DOMAIN old \subseteq DOMAIN new
       /\ \A i \in DOMAIN old : new[i] = old[i]
       /\ \A i \in DOMAIN new : i \in DOMAIN old \/ new[i].id = n + 1
  BY <1>6, <1>9, <1>10, AppendedRules
<1>12. groups' = [groups EXCEPT ![e].rules = new]
  BY <1>1, <1>4, <1>5, <1>7, <1>8, <1>10 DEF FinishCreateRule
<1>13. /\ DOMAIN groups' = DOMAIN groups
       /\ groups'[e] \in GroupTo(n + 1) /\ groups'[e].rules = new
       /\ \A g \in DOMAIN groups \ {e} : groups'[g] = groups[g]
  <2>1. PICK m \in Nat : m = n + 1
    OBVIOUS
  <2>2. new \in Seq(RuleTo(m))
    BY <1>11, <2>1
  <2>3. /\ DOMAIN groups' = DOMAIN groups
        /\ groups'[e] \in GroupTo(m) /\ groups'[e].rules = new
        /\ \A g \in DOMAIN groups \ {e} : groups'[g] = groups[g]
    BY <1>12, <2>2, RulesWritten
  <2> QED
    BY <2>1, <2>3
<1>14. RuleIds(old) \subseteq RuleIds(new) /\ RuleIds(new) \subseteq RuleIds(old) \cup {n + 1}
  BY <1>11 DEF RuleIds
<1>15. e \in DrawnTo(n + 1)
  BY <1>6 DEF DrawnTo, Id
<1>16. \A r \in RuleIds(new) : r > n \/ r \in RuleIds(old)
  BY <1>14
<1>17. Arranged(e)
  BY <1>1, <1>2, <1>5, <1>11, <1>13, <1>15, <1>16 DEF Arranged
<1>18. ASSUME NEW i \in DOMAIN old, NEW j \in DOMAIN new, old[i].id = new[j].id
       PROVE  Changed(old[i], new[j]) = {}
  <2>1. old[i].id \in Nat /\ old[i].id <= n
    BY <1>6, RulesFacts
  <2>2. j \in DOMAIN old
    BY <1>11, <1>18, <2>1
  <2>3. i = j
    BY <1>6, <1>11, <1>18, <2>2, OrderedOnce
  <2> QED
    BY <1>11, <2>3 DEF Changed
<1>19. Accounted(e)
  BY <1>5, <1>13, <1>14, <1>18 DEF Accounted
<1>20. Edits(e)
  BY <1>1, <1>2, <1>13, <1>17, <1>19 DEF Edits
<1> QED
  BY <1>20

LEMMA EditsPatch ==
    ASSUME TypeOK, OrderKept, NEW c \in Client,
           NEW body \in [pending[c].gives -> Value], FinishPatchRule(c, body)
    PROVE  \E g : Edits(g)
<1>1. PICK n \in Nat : n = minted
  BY DEF TypeOK
<1>2. minted' = n
  BY <1>1 DEF FinishPatchRule
<1>3. PICK rule, gives : rule = pending[c].rule /\ gives = pending[c].gives
  OBVIOUS
<1>4. gives \in SUBSET Field /\ body \in [gives -> Value]
  BY <1>3 DEF TypeOK
<1>5. PICK e \in DOMAIN groups : e = pending[c].group
  BY DEF FinishPatchRule
<1>6. PICK old : old = groups[e].rules
  OBVIOUS
<1>7. old \in Seq(RuleTo(n)) /\ Ordered(old) /\ e \in DrawnTo(n)
  BY <1>1, <1>6, GroupFacts DEF OrderKept, Ordered
<1>8. PICK new : new = Patched(old, rule, body)
  OBVIOUS
<1>9. /\ new \in Seq(RuleTo(n))
      /\ Ordered(new)
      /\ DOMAIN new = DOMAIN old
      /\ \A i \in DOMAIN old : /\ new[i].id = old[i].id
                               /\ old[i].id # rule => new[i] = old[i]
                               /\ Changed(old[i], new[i]) \subseteq gives
  BY <1>4, <1>7, <1>8, RulesPatched
<1>10. groups' = [groups EXCEPT ![e].rules = new]
  BY <1>3, <1>5, <1>6, <1>8 DEF FinishPatchRule
<1>11. /\ DOMAIN groups' = DOMAIN groups
       /\ groups'[e] \in GroupTo(n) /\ groups'[e].rules = new
       /\ \A g \in DOMAIN groups \ {e} : groups'[g] = groups[g]
  BY <1>9, <1>10, RulesWritten
<1>12. RuleIds(new) = RuleIds(old)
  BY <1>9 DEF RuleIds
<1>13. Arranged(e)
  BY <1>2, <1>6, <1>7, <1>9, <1>11, <1>12 DEF Arranged
<1>14. pending'[c] # pending[c]
  BY DEF FinishPatchRule, Resumed, TypeOK
<1>15. ASSUME NEW i \in DOMAIN old, NEW j \in DOMAIN new, old[i].id = new[j].id,
              Changed(old[i], new[j]) # {}
       PROVE  PatchOf(old[i].id, Changed(old[i], new[j]))
  <2>1. i = j
    BY <1>7, <1>9, <1>15, OrderedOnce
  <2>2. old[i].id = rule
    BY <1>9, <1>15, <2>1 DEF Changed
  <2>3. Changed(old[i], new[j]) \subseteq gives
    BY <1>9, <2>1
  <2> QED
    BY <1>3, <1>14, <2>2, <2>3 DEF PatchOf
<1>16. Accounted(e)
  BY <1>6, <1>11, <1>12, <1>15 DEF Accounted
<1>17. Edits(e)
  BY <1>1, <1>2, <1>11, <1>13, <1>16 DEF Edits
<1> QED
  BY <1>17

LEMMA BodiesFacts ==
    ASSUME NEW bodies \in Bodies
    PROVE  bodies \in Seq(Body)
<1>1. CASE bodies = <<>>
  <2>1. <<>> \in Seq(Body)
    OBVIOUS
  <2> QED
    BY <1>1, <2>1
<1>2. CASE bodies \in {<<body>> : body \in Body}
  <2>1. PICK body \in Body : bodies = <<body>>
    BY <1>2
  <2>2. <<body>> \in Seq(Body)
    OBVIOUS
  <2> QED
    BY <2>1, <2>2
<1> QED
  BY <1>1, <1>2 DEF Bodies

LEMMA StepEdits ==
    ASSUME RuleListInv, [Next]_vars
    PROVE  \E e : Edits(e)
<1> USE DEF RuleListInv
<1>1. minted \in Nat
  BY DEF TypeOK
<1>2. CASE UNCHANGED vars
  BY <1>1, <1>2, EditsNone DEF vars
<1>3. ASSUME NEW bodies \in Bodies, CreateSecurityGroup(bodies)
      PROVE  \E e : Edits(e)
  <2>1. bodies \in Seq(Body)
    BY BodiesFacts
  <2>2. minted' \in Nat /\ minted + 1 + Len(bodies) <= minted'
    BY <1>1, <1>3, <2>1 DEF CreateSecurityGroup, Draw
  <2>3. groups' = BucketPut(groups, minted + 1,
                            NewGroup("security_groups", minted + 1, bodies))
    BY <1>3 DEF CreateSecurityGroup
  <2>4. "security_groups" \in Kind
    BY DEF Kind
  <2> QED
    BY <2>1, <2>2, <2>3, <2>4, EditsNew
<1>4. AllowAll \in Seq(Body) /\ Len(AllowAll) = 2
  <2>1. AllDefault \in [Field -> Value]
    BY RuleAssumption DEF AllDefault
  <2>2. AllDefault \in Body
    BY <2>1 DEF Body
  <2> QED
    BY <2>2 DEF AllowAll
<1>5. ASSUME NEW bodies \in Bodies, CreateNetworkAcl(bodies)
      PROVE  \E e : Edits(e)
  <2>1. bodies \in Seq(Body)
    BY BodiesFacts
  <2>2. PICK seeded : seeded = IF bodies = <<>> THEN AllowAll ELSE bodies
    OBVIOUS
  <2>3. seeded \in Seq(Body)
    BY <1>4, <2>1, <2>2
  <2>4. minted' \in Nat /\ minted + 1 + Len(seeded) <= minted'
    <3>1. Len(seeded) \in Nat
      BY <2>3
    <3>2. minted' = minted + (1 + Len(seeded))
      BY <1>5, <2>2 DEF CreateNetworkAcl, Draw
    <3> QED
      BY <1>1, <3>1, <3>2
  <2>5. groups' = BucketPut(groups, minted + 1,
                            NewGroup("network_acls", minted + 1, seeded))
    BY <1>5, <2>2 DEF CreateNetworkAcl
  <2>6. "network_acls" \in Kind
    BY DEF Kind
  <2> QED
    BY <2>3, <2>4, <2>5, <2>6, EditsNew
<1>6. ASSUME CreateSubnet
      PROVE  \E e : Edits(e)
  <2>1. minted' \in Nat /\ minted + 2 + Len(AllowAll) <= minted'
    BY <1>1, <1>4, <1>6 DEF CreateSubnet, Draw
  <2>2. groups' = BucketPut(groups, minted + 2,
                            NewGroup("network_acls", minted + 2, AllowAll))
    BY <1>6 DEF CreateSubnet
  <2>3. "network_acls" \in Kind
    BY DEF Kind
  <2> QED
    BY <1>4, <2>1, <2>2, <2>3, EditsNew
<1>7. ASSUME NEW acl \in DOMAIN groups, CreateSubnetWithAcl(acl)
      PROVE  \E e : Edits(e)
  BY <1>1, <1>7, EditsNone DEF CreateSubnetWithAcl, Draw
<1>8. ASSUME NEW s \in DOMAIN subnets, DeleteSubnet(s)
      PROVE  \E e : Edits(e)
  BY <1>1, <1>8, EditsNone DEF DeleteSubnet
<1>9. ASSUME NEW g \in DOMAIN groups, DeleteGroup(g)
      PROVE  \E e : Edits(e)
  BY <1>1, <1>9, EditsNone DEF DeleteGroup, BucketDelete
<1>10. ASSUME NEW g \in DOMAIN groups, NEW rule \in RuleIds(groups[g].rules),
              DeleteRule(g, rule)
       PROVE  \E e : Edits(e)
  BY <1>10, EditsDelete
<1>11. ASSUME NEW c \in Client, NEW g \in DOMAIN groups,
              NEW rule \in RuleIds(groups[g].rules) \cup {None},
              NEW gives \in SUBSET Field, Begin(c, g, rule, gives)
       PROVE  \E e : Edits(e)
  BY <1>1, <1>11, EditsNone DEF Begin
<1>12. ASSUME NEW c \in Client, Finish(c)
       PROVE  \E e : Edits(e)
  <2>1. CASE FinishWithoutGroup(c)
    BY <1>1, <2>1, EditsNone DEF FinishWithoutGroup
  <2>2. ASSUME NEW body \in [pending[c].gives -> Value], FinishCreateRule(c, body)
        PROVE  \E e : Edits(e)
    BY <2>2, EditsCreate
  <2>3. ASSUME NEW body \in [pending[c].gives -> Value], FinishPatchRule(c, body)
        PROVE  \E e : Edits(e)
    BY <2>3, EditsPatch
  <2> QED
    BY <1>12, <2>1, <2>2, <2>3 DEF Finish
<1>13. CASE Reset
  BY <1>1, <1>13, EditsNone DEF Reset, EmptyBucket
<1>14. ASSUME NEW kind, ResetOne(kind)
       PROVE  \E e : Edits(e)
  BY <1>1, <1>14, EditsNone DEF ResetOne
<1> QED
  BY <1>2, <1>3, <1>5, <1>6, <1>7, <1>8, <1>9, <1>10, <1>11, <1>12, <1>13, <1>14 DEF Next

-----------------------------------------------------------------------------
RequestTo(n) == [group : DrawnTo(n) \cup {None}, rule : DrawnTo(n) \cup {None},
                 gives : SUBSET Field]

\* What is in flight, and the network ACLs of subnets, name uuids that were drawn.
LEMMA RequestsStep ==
    ASSUME TypeOK, [Next]_vars, minted' \in Nat, minted <= minted'
    PROVE  /\ pending' \in [Client -> RequestTo(minted')]
           /\ DOMAIN subnets' \subseteq DrawnTo(minted')
           /\ \A s \in DOMAIN subnets' : subnets'[s] \in DrawnTo(minted')
<1>1. PICK n \in Nat, m \in Nat : n = minted /\ m = minted' /\ n <= m
  BY DEF TypeOK
<1>2. DrawnTo(n) \subseteq DrawnTo(m)
  BY <1>1 DEF DrawnTo, Id
<1>3. /\ pending \in [Client -> RequestTo(n)]
      /\ DOMAIN subnets \subseteq DrawnTo(n)
      /\ \A s \in DOMAIN subnets : subnets[s] \in DrawnTo(n)
      /\ DOMAIN groups \subseteq DrawnTo(n)
  BY <1>1 DEF TypeOK, Drawn, DrawnTo, RequestTo
<1>4. RequestTo(n) \subseteq RequestTo(m)
  BY <1>2 DEF RequestTo
<1>5. pending \in [Client -> RequestTo(m)]
  BY <1>3, <1>4
<1>6. /\ DOMAIN subnets \subseteq DrawnTo(m)
      /\ \A s \in DOMAIN subnets : subnets[s] \in DrawnTo(m)
  BY <1>2, <1>3
<1>7. /\ DOMAIN subnets' \subseteq DrawnTo(m)
      /\ \A s \in DOMAIN subnets' : subnets'[s] \in DrawnTo(m)
  <2>1. CASE UNCHANGED subnets
    BY <1>6, <2>1
  <2>2. CASE subnets' = EmptyBucket
    BY <2>2 DEF EmptyBucket
  <2>3. ASSUME NEW s \in DOMAIN subnets, DeleteSubnet(s)
        PROVE  /\ DOMAIN subnets' \subseteq DrawnTo(m)
               /\ \A t \in DOMAIN subnets' : subnets'[t] \in DrawnTo(m)
    BY <1>6, <2>3 DEF DeleteSubnet, BucketDelete
  <2>4. ASSUME NEW acl \in DrawnTo(m), n + 1 \in DrawnTo(m),
               subnets' = BucketPut(subnets, n + 1, acl)
        PROVE  /\ DOMAIN subnets' \subseteq DrawnTo(m)
               /\ \A t \in DOMAIN subnets' : subnets'[t] \in DrawnTo(m)
    BY <1>6, <2>4 DEF BucketPut
  <2>5. ASSUME NEW acl \in DOMAIN groups, CreateSubnetWithAcl(acl)
        PROVE  /\ DOMAIN subnets' \subseteq DrawnTo(m)
               /\ \A t \in DOMAIN subnets' : subnets'[t] \in DrawnTo(m)
    <3>1. m = n + 1 /\ subnets' = BucketPut(subnets, n + 1, acl)
      BY <1>1, <2>5 DEF CreateSubnetWithAcl, Draw
    <3>2. acl \in DrawnTo(m) /\ n + 1 \in DrawnTo(m)
      BY <1>2, <1>3, <3>1 DEF DrawnTo, Id
    <3> QED
      BY <2>4, <3>1, <3>2
  <2>6. ASSUME CreateSubnet
        PROVE  /\ DOMAIN subnets' \subseteq DrawnTo(m)
               /\ \A t \in DOMAIN subnets' : subnets'[t] \in DrawnTo(m)
    <3>1. PICK acl : acl = n + 2
      OBVIOUS
    <3>2. m = n + 4 /\ subnets' = BucketPut(subnets, n + 1, acl)
      BY <1>1, <2>6, <3>1 DEF CreateSubnet, Draw
    <3>3. acl \in DrawnTo(m) /\ n + 1 \in DrawnTo(m)
      BY <3>1, <3>2 DEF DrawnTo, Id
    <3> QED
      BY <2>4, <3>2, <3>3
  <2>7. ASSUME NEW c \in Client, Finish(c)
        PROVE  UNCHANGED subnets
    BY <2>7 DEF Finish, FinishWithoutGroup, FinishCreateRule, FinishPatchRule, Resumed
  <2>8. UNCHANGED vars => UNCHANGED subnets
    BY DEF vars
  <2> QED
    BY <2>1, <2>2, <2>3, <2>5, <2>6, <2>7, <2>8
       DEF Next, CreateSecurityGroup, CreateNetworkAcl, DeleteGroup, DeleteRule, Begin,
           Reset, ResetOne
<1>8. pending' \in [Client -> RequestTo(m)]
  <2>1. CASE UNCHANGED pending
    BY <1>5, <2>1
  <2>2. ASSUME NEW c \in Client, NEW request \in RequestTo(m),
               pending' = [pending EXCEPT ![c] = request]
        PROVE  pending' \in [Client -> RequestTo(m)]
    BY <1>5, <2>2
  <2>3. ASSUME NEW c \in Client, NEW g \in DOMAIN groups,
               NEW rule \in RuleIds(groups[g].rules) \cup {None},
               NEW gives \in SUBSET Field, Begin(c, g, rule, gives)
        PROVE  pending' \in [Client -> RequestTo(m)]
    <3>1. rule \in DrawnTo(n) \cup {None}
      <4>1. groups[g].rules \in Seq(RuleTo(n))
        BY <1>1, GroupFacts
      <4> QED
        BY <4>1, RulesFacts DEF RuleIds
    <3>2. g \in DrawnTo(n)
      BY <1>3
    <3>3. Request(g, rule, gives) \in RequestTo(m)
      BY <1>2, <3>1, <3>2 DEF Request, RequestTo
    <3>4. pending' = [pending EXCEPT ![c] = Request(g, rule, gives)]
      BY <2>3 DEF Begin
    <3> QED
      BY <2>2, <3>3, <3>4
  <2>4. ASSUME NEW c \in Client, Finish(c)
        PROVE  pending' \in [Client -> RequestTo(m)]
    <3>1. pending' = [pending EXCEPT ![c] = NoRequest]
      BY <2>4 DEF Finish, FinishWithoutGroup, FinishCreateRule, FinishPatchRule, Resumed
    <3>2. NoRequest \in RequestTo(m)
      BY DEF NoRequest, Request, RequestTo
    <3> QED
      BY <2>2, <3>1, <3>2
  <2>5. UNCHANGED vars => UNCHANGED pending
    BY DEF vars
  <2> QED
    BY <2>1, <2>3, <2>4, <2>5
       DEF Next, CreateSecurityGroup, CreateNetworkAcl, CreateSubnet, CreateSubnetWithAcl,
           DeleteSubnet, DeleteGroup, DeleteRule, Reset, ResetOne
<1> QED
  BY <1>1, <1>7, <1>8

-----------------------------------------------------------------------------
LEMMA IdsDrawn ==
    ASSUME TypeOK, NEW g \in DOMAIN groups
    PROVE  \A r \in RuleIds(groups[g].rules) : r \in Nat /\ r <= minted
<1>1. PICK n \in Nat : n = minted
  BY DEF TypeOK
<1>2. groups[g].rules \in Seq(RuleTo(n))
  BY <1>1, GroupFacts
<1> QED
  BY <1>1, <1>2, RulesFacts DEF RuleIds

\* Two groups have no id in common, since only one of them gets new ones.
LEMMA IdsApart ==
    ASSUME RuleListInv, NEW e, Edits(e), NEW g \in DOMAIN groups', g # e,
           e \in DOMAIN groups'
    PROVE  RuleIds(groups'[g].rules) \cap RuleIds(groups'[e].rules) = {}
<1>1. TypeOK /\ minted \in Nat
  BY DEF RuleListInv, TypeOK
<1>2. g \in DOMAIN groups /\ groups'[g] = groups[g] /\ Arranged(e)
  BY DEF Edits
<1> SUFFICES ASSUME NEW r \in RuleIds(groups'[g].rules), r \in RuleIds(groups'[e].rules)
             PROVE  FALSE
  OBVIOUS
<1>3. r \in RuleIds(groups[g].rules) /\ r \in Nat /\ r <= minted
  BY <1>1, <1>2, IdsDrawn
<1>4. e \in DOMAIN groups /\ r \in RuleIds(groups[e].rules)
  BY <1>1, <1>2, <1>3 DEF Arranged
<1>5. PICK i \in DOMAIN groups[g].rules : groups[g].rules[i].id = r
  BY <1>3 DEF RuleIds
<1>6. PICK j \in DOMAIN groups[e].rules : groups[e].rules[j].id = r
  BY <1>4 DEF RuleIds
<1> QED
  BY <1>2, <1>4, <1>5, <1>6 DEF RuleListInv, RuleIdsUnique

LEMMA EditsKeepInv ==
    ASSUME RuleListInv, [Next]_vars
    PROVE  RuleListInv'
<1>1. PICK e : Edits(e)
  BY StepEdits
<1>2. PICK n \in Nat, m \in Nat : n = minted /\ m = minted' /\ n <= m
  BY <1>1 DEF Edits, RuleListInv, TypeOK
<1>3. ASSUME NEW g \in DOMAIN groups'
      PROVE  /\ g \in DrawnTo(m)
             /\ groups'[g] \in GroupTo(m)
             /\ Ordered(groups'[g].rules)
  <2>1. CASE g = e
    BY <1>1, <1>2, <2>1 DEF Edits, Arranged
  <2>2. CASE g # e
    <3>1. g \in DOMAIN groups /\ groups'[g] = groups[g]
      BY <1>1, <2>2 DEF Edits
    <3>2. PICK group : group = groups[g]
      OBVIOUS
    <3>3. g \in DrawnTo(n) /\ group \in GroupTo(n)
      BY <1>2, <3>1, <3>2, GroupFacts DEF RuleListInv
    <3>4. group.rules \in Seq(RuleTo(m))
      <4>1. PICK rules : rules = group.rules
        OBVIOUS
      <4>2. rules \in Seq(RuleTo(n))
        BY <3>3, <4>1 DEF GroupTo
      <4> QED
        BY <1>2, <4>1, <4>2, RulesGrow
    <3>5. group \in GroupTo(m)
      BY <3>3, <3>4 DEF GroupTo
    <3>6. Ordered(group.rules)
      BY <3>1, <3>2 DEF RuleListInv, OrderKept, Ordered
    <3>7. g \in DrawnTo(m)
      BY <1>2, <3>3 DEF DrawnTo, Id
    <3> QED
      BY <3>1, <3>2, <3>5, <3>6, <3>7
  <2> QED
    BY <2>1, <2>2
<1>4. TypeOK'
  <2>1. Drawn' = DrawnTo(m)
    BY <1>2 DEF Drawn, DrawnTo
  <2>2. \A g \in DOMAIN groups' : g \in Drawn' /\ GroupOK(groups[g])'
    BY <1>3, <2>1 DEF GroupOK, GroupTo, RuleTo
  <2>3. /\ pending' \in [Client -> RequestTo(m)]
        /\ DOMAIN subnets' \subseteq DrawnTo(m)
        /\ \A s \in DOMAIN subnets' : subnets'[s] \in DrawnTo(m)
    BY <1>2, RequestsStep DEF RuleListInv
  <2> QED
    BY <1>2, <2>1, <2>2, <2>3 DEF TypeOK, RequestTo
<1>5. OrderKept'
  BY <1>3 DEF OrderKept, Ordered
<1>6. RuleIdsUnique'
  <2> SUFFICES ASSUME NEW g \in DOMAIN groups', NEW h \in DOMAIN groups',
                      NEW i \in DOMAIN groups'[g].rules, NEW j \in DOMAIN groups'[h].rules,
                      groups'[g].rules[i].id = groups'[h].rules[j].id
               PROVE  g = h /\ i = j
    BY DEF RuleIdsUnique
  <2>1. groups'[g].rules \in Seq(RuleTo(m)) /\ Ordered(groups'[g].rules)
    BY <1>3 DEF GroupTo
  <2>2. CASE g = h
    <3>1. PICK rules : rules = groups'[g].rules
      OBVIOUS
    <3>2. i = j
      BY <2>1, <2>2, <3>1, OrderedOnce
    <3> QED
      BY <2>2, <3>2
  <2>3. CASE g # h /\ g # e /\ h # e
    <3>1. /\ g \in DOMAIN groups /\ groups'[g] = groups[g]
          /\ h \in DOMAIN groups /\ groups'[h] = groups[h]
      BY <1>1, <2>3 DEF Edits
    <3> QED
      BY <3>1 DEF RuleListInv, RuleIdsUnique
  <2>4. CASE g # h /\ (g = e \/ h = e)
    <3>1. /\ groups'[g].rules[i].id \in RuleIds(groups'[g].rules)
          /\ groups'[g].rules[i].id \in RuleIds(groups'[h].rules)
      BY DEF RuleIds
    <3>2. RuleIds(groups'[g].rules) \cap RuleIds(groups'[h].rules) = {}
      BY <1>1, <2>4, IdsApart
    <3> QED
      BY <3>1, <3>2
  <2> QED
    BY <2>2, <2>3, <2>4
<1> QED
  BY <1>4, <1>5, <1>6 DEF RuleListInv

LEMMA InitInv == Init => RuleListInv
<1> SUFFICES ASSUME Init PROVE RuleListInv
  OBVIOUS
<1>1. DOMAIN groups = {} /\ DOMAIN subnets = {} /\ minted = 0
  BY DEF Init, EmptyBucket
<1>2. pending \in [Client -> [group : Drawn \cup {None}, rule : Drawn \cup {None},
                              gives : SUBSET Field]]
  BY DEF Init, NoRequest, Request
<1>3. TypeOK
  BY <1>1, <1>2 DEF TypeOK
<1> QED
  BY <1>1, <1>3 DEF RuleListInv, RuleIdsUnique, OrderKept

LEMMA InvAlways == Spec => []RuleListInv
<1>1. Init => RuleListInv
  BY InitInv
<1>2. RuleListInv /\ [Next]_vars => RuleListInv'
  BY EditsKeepInv
<1> QED
  BY <1>1, <1>2, PTL DEF Spec

\* Every group, rule and request is of its type, and on uuids that were drawn, in a
\* server with any number of connections and any fields of rules.
THEOREM TypeCorrect == Spec => []TypeOK
<1>1. RuleListInv => TypeOK
  BY DEF RuleListInv
<1> QED
  BY <1>1, InvAlways, PTL

\* No two rules of the server have the same id, whether they are of one group or of
\* two, so a PATCH or a DELETE of a rule id concerns one rule.
THEOREM RuleIdsUniqueCorrect == Spec => []RuleIdsUnique
<1>1. RuleListInv => RuleIdsUnique
  BY DEF RuleListInv
<1> QED
  BY <1>1, InvAlways, PTL

\* Rules are listed in the order they were added, whatever is patched or deleted in
\* between.
THEOREM OrderKeptCorrect == Spec => []OrderKept
<1>1. RuleListInv => OrderKept
  BY DEF RuleListInv
<1> QED
  BY <1>1, InvAlways, PTL

\* A rule leaves a group that stays by a DELETE of that rule alone: no POST or PATCH
\* in flight writes back a list without it.
THEOREM NoRuleLostCorrect == Spec => NoRuleLost
<1>1. ASSUME RuleListInv, [Next]_vars,
             NEW g \in DOMAIN groups \cap DOMAIN groups', NEW rule \in HeldBy(g) \ HeldBy(g)'
      PROVE  DeleteRule(g, rule)
  <2>1. PICK e : Edits(e)
    BY <1>1, StepEdits
  <2>2. g = e
    BY <1>1, <2>1 DEF Edits, HeldBy
  <2> QED
    BY <1>1, <2>1, <2>2 DEF Edits, Accounted, HeldBy
<1>2. RuleListInv /\ [Next]_vars =>
         [\A g \in DOMAIN groups \cap DOMAIN groups' :
             \A rule \in HeldBy(g) \ HeldBy(g)' : DeleteRule(g, rule)]_vars
  BY <1>1
<1> QED
  BY <1>2, InvAlways, PTL DEF Spec, NoRuleLost

\* A rule that was deleted does not come back, whatever PATCH of it is in flight: what
\* a group gains is on a uuid that was not drawn before.
THEOREM NoRuleReturnsCorrect == Spec => NoRuleReturns
<1>1. ASSUME RuleListInv, [Next]_vars,
             NEW g \in DOMAIN groups \cap DOMAIN groups', NEW rule \in HeldBy(g)' \ HeldBy(g)
      PROVE  rule > minted
  <2>1. PICK e : Edits(e)
    BY <1>1, StepEdits
  <2>2. g = e
    BY <1>1, <2>1 DEF Edits, HeldBy
  <2> QED
    BY <1>1, <2>1, <2>2 DEF Edits, Arranged, HeldBy
<1>2. RuleListInv /\ [Next]_vars =>
         [\A g \in DOMAIN groups \cap DOMAIN groups' :
             \A rule \in HeldBy(g)' \ HeldBy(g) : rule > minted]_vars
  BY <1>1
<1> QED
  BY <1>2, InvAlways, PTL DEF Spec, NoRuleReturns

\* A field of a rule changes by a PATCH of that rule which gives the field, also when
\* several PATCHes of the rule are in flight at once.
THEOREM NoFieldLostCorrect == Spec => NoFieldLost
<1>1. ASSUME RuleListInv, [Next]_vars,
             NEW g \in DOMAIN groups \cap DOMAIN groups',
             NEW i \in DOMAIN groups[g].rules, NEW j \in DOMAIN groups'[g].rules,
             groups[g].rules[i].id = groups'[g].rules[j].id,
             Changed(groups[g].rules[i], groups'[g].rules[j]) # {}
      PROVE  PatchOf(groups[g].rules[i].id,
                     Changed(groups[g].rules[i], groups'[g].rules[j]))
  <2>1. PICK e : Edits(e)
    BY <1>1, StepEdits
  <2>2. CASE g = e
    BY <1>1, <2>1, <2>2 DEF Edits, Accounted
  <2>3. CASE g # e
    <3>1. groups'[g] = groups[g]
      BY <2>1, <2>3 DEF Edits
    <3>2. i = j
      BY <1>1, <3>1 DEF RuleListInv, RuleIdsUnique
    <3> QED
      BY <1>1, <3>1, <3>2 DEF Changed
  <2> QED
    BY <2>2, <2>3
<1>2. RuleListInv /\ [Next]_vars =>
         [\A g \in DOMAIN groups \cap DOMAIN groups' :
             \A i \in DOMAIN groups[g].rules, j \in DOMAIN groups'[g].rules :
                LET old == groups[g].rules[i]
                    new == groups'[g].rules[j]
                IN old.id = new.id /\ Changed(old, new) # {}
                      => PatchOf(old.id, Changed(old, new))]_vars
  BY <1>1
<1> QED
  BY <1>2, InvAlways, PTL DEF Spec, NoFieldLost

-----------------------------------------------------------------------------
(* The lists are a table of rows.  A list is known by its rows: what each  *)
(* operation makes of the list is found as what it makes of the rows.      *)

LEMMA RowsFacts ==
    ASSUME NEW n \in Nat, NEW rules \in Seq(RuleTo(n)), Ordered(rules)
    PROVE  /\ DOMAIN Rows(rules) = RuleIds(rules)
           /\ Rows(rules) = [id \in RuleIds(rules) |-> Rows(rules)[id]]
           /\ \A i \in DOMAIN rules : /\ rules[i].id \in RuleIds(rules)
                                      /\ Rows(rules)[rules[i].id] = rules[i].fields
<1>1. ASSUME NEW i \in DOMAIN rules
      PROVE  /\ rules[i].id \in RuleIds(rules)
             /\ Rows(rules)[rules[i].id] = rules[i].fields
  <2>1. rules[i].id \in RuleIds(rules)
    BY DEF RuleIds
  <2>2. PICK id : id = rules[i].id
    OBVIOUS
  <2>3. PICK j : j = CHOOSE k \in DOMAIN rules : rules[k].id = id
    OBVIOUS
  <2>4. j \in DOMAIN rules /\ rules[j].id = id
    BY <2>2, <2>3
  <2>5. i = j
    BY <2>2, <2>4, OrderedOnce
  <2>6. Rows(rules)[id] = rules[j].fields
    BY <2>1, <2>2, <2>3 DEF Rows
  <2> QED
    BY <2>1, <2>2, <2>5, <2>6
<1>2. Rows(rules) = [id \in RuleIds(rules) |-> Rows(rules)[id]]
  BY DEF Rows
<1>3. DOMAIN Rows(rules) = RuleIds(rules)
  BY DEF Rows
<1> QED
  BY <1>1, <1>2, <1>3

\* Rows with the ids of a list, and the fields of its rules, are the rows of it.
LEMMA RowsAre ==
    ASSUME NEW n \in Nat, NEW rules \in Seq(RuleTo(n)), Ordered(rules), NEW rows,
           rows = [id \in RuleIds(rules) |-> rows[id]],
           \A i \in DOMAIN rules : rows[rules[i].id] = rules[i].fields
    PROVE  Rows(rules) = rows
<1>1. PICK found : found = Rows(rules)
  OBVIOUS
<1>2. /\ found = [id \in RuleIds(rules) |-> found[id]]
      /\ \A i \in DOMAIN rules : found[rules[i].id] = rules[i].fields
  BY <1>1, RowsFacts
<1>3. \A id \in RuleIds(rules) : found[id] = rows[id]
  BY <1>2 DEF RuleIds
<1> QED
  BY <1>1, <1>2, <1>3

LEMMA RowsType ==
    ASSUME NEW n \in Nat, NEW rules \in Seq(RuleTo(n)), Ordered(rules)
    PROVE  Rows(rules) \in [RuleIds(rules) -> [Field -> Value]]
<1>1. PICK rows : rows = Rows(rules)
  OBVIOUS
<1>2. /\ rows = [id \in RuleIds(rules) |-> rows[id]]
      /\ \A i \in DOMAIN rules : rows[rules[i].id] = rules[i].fields
  BY <1>1, RowsFacts
<1>3. \A i \in DOMAIN rules : rules[i].fields \in [Field -> Value]
  <2>1. \A i \in DOMAIN rules : rules[i] \in RuleTo(n)
    BY RulesFacts
  <2> QED
    BY <2>1 DEF RuleTo
<1>4. \A id \in RuleIds(rules) : rows[id] \in [Field -> Value]
  BY <1>2, <1>3 DEF RuleIds
<1> QED
  BY <1>1, <1>2, <1>4

LEMMA RowsOfWithout ==
    ASSUME NEW n \in Nat, NEW rules \in Seq(RuleTo(n)), Ordered(rules), NEW rule
    PROVE  Rows(Without(rules, rule))
             = [r \in DOMAIN Rows(rules) \ {rule} |-> Rows(rules)[r]]
<1>1. PICK kept : kept = Without(rules, rule)
  OBVIOUS
<1>2. PICK old : old = Rows(rules)
  OBVIOUS
<1>3. PICK rows : rows = [r \in DOMAIN old \ {rule} |-> old[r]]
  OBVIOUS
<1>4. /\ kept \in Seq(RuleTo(n)) /\ Ordered(kept)
      /\ \A k \in DOMAIN rules : rules[k].id # rule => \E i \in DOMAIN kept : kept[i] = rules[k]
  BY <1>1, RulesWithout
<1>5. \A i \in DOMAIN kept : \E k \in DOMAIN rules : kept[i] = rules[k] /\ rules[k].id # rule
  <2>1. Keeps(kept, rules, Len(rules), rule)
    BY <1>1, WithoutKeeps
  <2>2. DOMAIN rules = 1 .. Len(rules)
    OBVIOUS
  <2> QED
    BY <2>1, <2>2 DEF Keeps
<1>6. /\ DOMAIN old = RuleIds(rules)
      /\ \A i \in DOMAIN rules : old[rules[i].id] = rules[i].fields
  BY <1>2, RowsFacts
<1>7. RuleIds(kept) = RuleIds(rules) \ {rule}
  BY <1>4, <1>5 DEF RuleIds
<1>8. rows = [r \in RuleIds(kept) |-> rows[r]]
  BY <1>3, <1>6, <1>7
<1>9. ASSUME NEW i \in DOMAIN kept
      PROVE  rows[kept[i].id] = kept[i].fields
  <2>1. PICK k \in DOMAIN rules : kept[i] = rules[k] /\ rules[k].id # rule
    BY <1>5
  <2>2. rules[k].id \in DOMAIN old \ {rule}
    BY <1>6, <2>1 DEF RuleIds
  <2> QED
    BY <1>3, <1>6, <2>1, <2>2
<1>10. Rows(kept) = rows
  BY <1>4, <1>8, <1>9, RowsAre
<1> QED
  BY <1>1, <1>2, <1>3, <1>10

LEMMA RowsOfAppended ==
    ASSUME NEW n \in Nat, NEW rules \in Seq(RuleTo(n)), Ordered(rules),
           NEW new \in RuleTo(n + 1), new.id = n + 1
    PROVE  Rows(Append(rules, new)) = Table!Put(Rows(rules), n + 1, new.fields)
<1>1. PICK more : more = Append(rules, new)
  OBVIOUS
<1>2. PICK m \in Nat : m = n + 1
  OBVIOUS
<1>3. /\ more \in Seq(RuleTo(m)) /\ Ordered(more)
      /\ DOMAIN rules \subseteq DOMAIN more
      /\ \A i \in DOMAIN rules : more[i] = rules[i]
      /\ \A i \in DOMAIN more : i \in DOMAIN rules \/ more[i] = new
      /\ \E i \in DOMAIN more : more[i] = new
  <2>1. /\ more \in Seq(RuleTo(m)) /\ Ordered(more)
        /\ DOMAIN rules \subseteq DOMAIN more
        /\ \A i \in DOMAIN rules : more[i] = rules[i]
    BY <1>1, <1>2, AppendedRules
  <2>2. rules \in Seq(RuleTo(n + 1))
    BY RulesGrow
  <2>3. PICK len \in Nat : len = Len(rules)
    OBVIOUS
  <2>4. /\ DOMAIN rules = 1 .. len /\ DOMAIN more = 1 .. len + 1
        /\ more[len + 1] = new
    BY <1>1, <2>2, <2>3, AppendFacts
  <2> QED
    BY <2>1, <2>4
<1>4. PICK old : old = Rows(rules)
  OBVIOUS
<1>5. /\ DOMAIN old = RuleIds(rules)
      /\ \A i \in DOMAIN rules : old[rules[i].id] = rules[i].fields
  BY <1>4, RowsFacts
<1>6. PICK rows : rows = [x \in DOMAIN old \cup {m} |-> IF x = m THEN new.fields ELSE old[x]]
  OBVIOUS
<1>7. RuleIds(more) = RuleIds(rules) \cup {m}
  BY <1>2, <1>3 DEF RuleIds
<1>8. rows = [x \in RuleIds(more) |-> rows[x]]
  BY <1>5, <1>6, <1>7
<1>9. \A i \in DOMAIN rules : rules[i].id # m /\ rules[i].id \in DOMAIN old
  <2>1. \A i \in DOMAIN rules : rules[i].id \in Nat /\ rules[i].id <= n
    BY RulesFacts
  <2>2. \A k \in Nat : k <= n => k # m
    BY <1>2
  <2> QED
    BY <1>5, <2>1, <2>2 DEF RuleIds
<1>10. ASSUME NEW i \in DOMAIN more
       PROVE  rows[more[i].id] = more[i].fields
  <2>1. CASE i \in DOMAIN rules
    BY <1>3, <1>5, <1>6, <1>9, <2>1
  <2>2. CASE more[i] = new
    BY <1>2, <1>6, <2>2
  <2> QED
    BY <1>3, <2>1, <2>2
<1>11. Rows(more) = rows
  BY <1>3, <1>8, <1>10, RowsAre
<1> QED
  BY <1>1, <1>2, <1>4, <1>6, <1>11 DEF Table!Put

LEMMA RowsOfPatched ==
    ASSUME NEW n \in Nat, NEW rules \in Seq(RuleTo(n)), Ordered(rules),
           NEW rule, rule \in RuleIds(rules),
           NEW gives \in SUBSET Field, NEW body \in [gives -> Value]
    PROVE  Rows(Patched(rules, rule, body))
             = Table!Put(Rows(rules), rule, Table!With(Rows(rules)[rule], body))
<1>1. PICK new : new = Patched(rules, rule, body)
  OBVIOUS
<1>2. /\ new \in Seq(RuleTo(n)) /\ Ordered(new) /\ DOMAIN new = DOMAIN rules
      /\ \A i \in DOMAIN rules : /\ new[i].id = rules[i].id
                                 /\ rules[i].id # rule => new[i] = rules[i]
  <2>1. new \in Seq(RuleTo(n))
    BY <1>1, RulesPatched
  <2>2. Ordered(new)
    BY <1>1, RulesPatched
  <2>3. DOMAIN new = DOMAIN rules
    BY <1>1, RulesPatched
  <2>4. \A i \in DOMAIN rules : new[i].id = rules[i].id
    BY <1>1, RulesPatched
  <2>5. \A i \in DOMAIN rules : rules[i].id # rule => new[i] = rules[i]
    BY <1>1, RulesPatched
  <2> QED
    BY <2>1, <2>2, <2>3, <2>4, <2>5
<1>3. ASSUME NEW i \in DOMAIN rules, rules[i].id = rule
      PROVE  new[i].fields = Merged(rules[i].fields, body)
  <2>1. PICK old \in RuleTo(n) : old = rules[i]
    OBVIOUS
  <2>2. PICK fields : fields = Merged(old.fields, body)
    OBVIOUS
  <2>3. new[i] = [old EXCEPT !.fields = fields]
    BY <1>1, <1>3, <2>1, <2>2 DEF Patched
  <2> QED
    BY <2>1, <2>2, <2>3 DEF RuleTo
<1>4. PICK old : old = Rows(rules)
  OBVIOUS
<1>5. /\ DOMAIN old = RuleIds(rules)
      /\ \A i \in DOMAIN rules : old[rules[i].id] = rules[i].fields
  BY <1>4, RowsFacts
<1>6. PICK row : row = Merged(old[rule], body)
  OBVIOUS
<1>7. PICK rows : rows = [x \in DOMAIN old \cup {rule} |-> IF x = rule THEN row ELSE old[x]]
  OBVIOUS
<1>8. RuleIds(new) = RuleIds(rules)
  BY <1>2 DEF RuleIds
<1>9. rows = [x \in RuleIds(new) |-> rows[x]]
  BY <1>5, <1>7, <1>8
<1>10. ASSUME NEW i \in DOMAIN new
       PROVE  rows[new[i].id] = new[i].fields
  <2>1. rules[i].id \in DOMAIN old /\ old[rules[i].id] = rules[i].fields
    BY <1>2, <1>5 DEF RuleIds
  <2>2. CASE rules[i].id = rule
    BY <1>2, <1>3, <1>6, <1>7, <2>1, <2>2
  <2>3. CASE rules[i].id # rule
    BY <1>2, <1>7, <2>1, <2>3
  <2> QED
    BY <2>2, <2>3
<1>11. Rows(new) = rows
  BY <1>2, <1>9, <1>10, RowsAre
<1>12. row = Table!With(old[rule], body)
  BY <1>6 DEF Merged, Table!With
<1> QED
  BY <1>1, <1>4, <1>7, <1>11, <1>12 DEF Table!Put

\* A PATCH of a rule that the list does not have changes nothing.
LEMMA PatchedMissing ==
    ASSUME NEW n \in Nat, NEW rules \in Seq(RuleTo(n)), NEW rule, rule \notin RuleIds(rules),
           NEW body
    PROVE  Patched(rules, rule, body) = rules
<1>1. \A i \in DOMAIN rules : rules[i].id # rule
  BY DEF RuleIds
<1>2. Patched(rules, rule, body) = [i \in DOMAIN rules |-> rules[i]]
  BY <1>1 DEF Patched
<1> QED
  BY <1>2

-----------------------------------------------------------------------------
(* The refinement: a lemma for each way a step may treat the groups. *)

LEMMA GroupRowsFacts ==
    /\ DOMAIN GroupRows = DOMAIN groups
    /\ \A g \in DOMAIN groups : GroupRows[g] = Rows(groups[g].rules)
BY DEF GroupRows

LEMMA RowsSame ==
    ASSUME UNCHANGED groups
    PROVE  UNCHANGED GroupRows
BY DEF GroupRows

\* Groups that a step deletes.
LEMMA TableDrops ==
    ASSUME UNCHANGED <<pending, minted>>, DOMAIN groups' \subseteq DOMAIN groups,
           \A g \in DOMAIN groups' : groups'[g] = groups[g]
    PROVE  Table!Next
<1>1. GroupRows' = [g \in DOMAIN groups' |-> Rows(groups'[g].rules)]
  BY DEF GroupRows
<1>2. DOMAIN GroupRows' = DOMAIN groups'
  BY <1>1
<1>3. \A g \in DOMAIN groups' : Rows(groups'[g].rules) = GroupRows[g]
  BY GroupRowsFacts
<1>4. GroupRows' = [g \in DOMAIN GroupRows' |-> GroupRows[g]]
  BY <1>1, <1>2, <1>3
<1>5. Table!DropGroups
  BY <1>2, <1>4, GroupRowsFacts DEF Table!DropGroups
<1> QED
  BY <1>5 DEF Table!Next

\* A group with its rules.
LEMMA TableCreates ==
    ASSUME TypeOK, NEW k \in {1, 2}, NEW kind, NEW bodies \in Seq(Body),
           minted' \in Nat, minted + k + Len(bodies) <= minted', UNCHANGED pending,
           groups' = BucketPut(groups, minted + k, NewGroup(kind, minted + k, bodies))
    PROVE  Table!Next
<1>1. PICK low \in Nat : low = minted
  BY DEF TypeOK
<1>2. PICK high \in Nat : high = minted'
  OBVIOUS
<1>3. PICK e \in Nat : e = low + k
  BY <1>1
<1>4. PICK len \in Nat : len = Len(bodies)
  OBVIOUS
<1>5. low + 1 <= e /\ e + len <= high /\ e <= high
  BY <1>1, <1>2, <1>3, <1>4
<1>6. PICK rules : rules = [i \in DOMAIN bodies |-> Rule(e + i, bodies[i])]
  OBVIOUS
<1>7. /\ rules \in Seq(RuleTo(high))
      /\ Ordered(rules)
      /\ \A r \in RuleIds(rules) : r > e
  BY <1>4, <1>5, <1>6, NewRules
<1>8. groups' = BucketPut(groups, e, [kind |-> kind, rules |-> rules])
  BY <1>1, <1>3, <1>6 DEF NewGroup
<1>9. PICK rows : rows = Rows(rules)
  OBVIOUS
<1>10. rows \in [RuleIds(rules) -> Table!Row]
  BY <1>7, <1>9, RowsType DEF Table!Row
<1>11. RuleIds(rules) \subseteq (low + 1 .. high) \ {e}
  <2> SUFFICES ASSUME NEW r \in RuleIds(rules)  PROVE r \in (low + 1 .. high) \ {e}
    OBVIOUS
  <2>1. PICK i \in DOMAIN rules : r = rules[i].id
    BY DEF RuleIds
  <2>2. r \in Nat /\ r <= high
    BY <1>7, <2>1, RulesFacts
  <2> QED
    BY <1>5, <1>7, <2>2
<1>12. Table!Fresh = low + 1 .. high
  BY <1>1, <1>2 DEF Table!Fresh
<1>13. GroupRows' = Table!Put(GroupRows, e, rows)
  <2>1. DOMAIN groups' = DOMAIN groups \cup {e} /\ groups'[e].rules = rules
    BY <1>8 DEF BucketPut
  <2>2. \A g \in DOMAIN groups \ {e} : groups'[g] = groups[g]
    BY <1>8 DEF BucketPut
  <2>3. GroupRows' = [g \in DOMAIN groups' |-> Rows(groups'[g].rules)]
    BY DEF GroupRows
  <2>4. \A g \in DOMAIN groups' :
           Rows(groups'[g].rules) = IF g = e THEN rows ELSE GroupRows[g]
    BY <1>9, <2>1, <2>2, GroupRowsFacts
  <2> QED
    BY <2>1, <2>3, <2>4, GroupRowsFacts DEF Table!Put
<1>14. Table!CreateGroup(e)
  <2>1. RuleIds(rules) \in SUBSET (Table!Fresh \ {e})
    BY <1>11, <1>12
  <2> QED
    BY <1>10, <1>13, <2>1 DEF Table!CreateGroup
<1>15. e \in Table!Fresh
  BY <1>5, <1>12
<1> QED
  BY <1>14, <1>15 DEF Table!Next

\* What the table becomes when the rules of one group are written.
LEMMA TableWritten ==
    ASSUME TypeOK, NEW e \in DOMAIN groups, NEW n \in Nat, NEW rules \in Seq(RuleTo(n)),
           groups' = [groups EXCEPT ![e].rules = rules]
    PROVE  GroupRows' = [GroupRows EXCEPT ![e] = Rows(rules)]
<1>1. /\ DOMAIN groups' = DOMAIN groups
      /\ groups'[e].rules = rules
      /\ \A g \in DOMAIN groups \ {e} : groups'[g] = groups[g]
  BY RulesWritten
<1>2. GroupRows' = [g \in DOMAIN groups' |-> Rows(groups'[g].rules)]
  BY DEF GroupRows
<1>3. GroupRows = [g \in DOMAIN groups |-> Rows(groups[g].rules)]
  BY DEF GroupRows
<1> QED
  BY <1>1, <1>2, <1>3

LEMMA TableDeletes ==
    ASSUME TypeOK, OrderKept, NEW e \in DOMAIN groups,
           NEW rule \in RuleIds(groups[e].rules), DeleteRule(e, rule)
    PROVE  Table!Next
<1>1. PICK n \in Nat : n = minted
  BY DEF TypeOK
<1>2. PICK old : old = groups[e].rules
  OBVIOUS
<1>3. old \in Seq(RuleTo(n)) /\ Ordered(old)
  BY <1>1, <1>2, GroupFacts DEF OrderKept, Ordered
<1>4. PICK new : new = Without(old, rule)
  OBVIOUS
<1>5. new \in Seq(RuleTo(n))
  BY <1>3, <1>4, RulesWithout
<1>6. groups' = [groups EXCEPT ![e].rules = new]
  BY <1>2, <1>4 DEF DeleteRule
<1>7. GroupRows' = [GroupRows EXCEPT ![e] = Rows(new)]
  BY <1>5, <1>6, TableWritten
<1>8. Rows(new) = [r \in DOMAIN Rows(old) \ {rule} |-> Rows(old)[r]]
  BY <1>3, <1>4, RowsOfWithout
<1>9. e \in DOMAIN GroupRows /\ GroupRows[e] = Rows(old)
  BY <1>2, GroupRowsFacts
<1>10. DOMAIN Rows(old) = RuleIds(old)
  BY <1>3, RowsFacts
<1>11. Table!DeleteRow(e, rule)
  BY <1>7, <1>8, <1>9 DEF Table!DeleteRow, DeleteRule
<1> QED
  BY <1>2, <1>9, <1>10, <1>11 DEF Table!Next

LEMMA TableAsks ==
    ASSUME TypeOK, OrderKept, NEW c \in Client, NEW g \in DOMAIN groups,
           NEW rule \in RuleIds(groups[g].rules) \cup {None},
           NEW gives \in SUBSET Field, Begin(c, g, rule, gives)
    PROVE  Table!Next
<1>1. PICK n \in Nat : n = minted
  BY DEF TypeOK
<1>2. PICK old : old = groups[g].rules
  OBVIOUS
<1>3. old \in Seq(RuleTo(n)) /\ Ordered(old)
  BY <1>1, <1>2, GroupFacts DEF OrderKept, Ordered
<1>4. g \in DOMAIN GroupRows /\ DOMAIN GroupRows[g] = RuleIds(old)
  BY <1>2, <1>3, GroupRowsFacts, RowsFacts
<1>5. rule \in DOMAIN GroupRows[g] \cup {Table!None}
  BY <1>2, <1>4 DEF None, Table!None
<1>6. UNCHANGED GroupRows
  BY RowsSame DEF Begin
<1>7. Table!Ask(c, g, rule, gives)
  BY <1>6 DEF Begin, Request, NoRequest, None,
              Table!Ask, Table!Call, Table!NoCall, Table!None
<1> QED
  BY <1>4, <1>5, <1>7 DEF Table!Next

LEMMA TableAnswers ==
    ASSUME NEW c, Resumed(c)
    PROVE  Table!Answer(c)
BY DEF Resumed, Request, NoRequest, None, Table!Answer, Table!Call, Table!NoCall, Table!None

LEMMA TableAdds ==
    ASSUME TypeOK, OrderKept, NEW c \in Client,
           NEW body \in [pending[c].gives -> Value], FinishCreateRule(c, body)
    PROVE  Table!Next
<1>1. PICK n \in Nat : n = minted
  BY DEF TypeOK
<1>2. minted' = n + 1
  BY <1>1 DEF FinishCreateRule, Draw
<1>3. PICK gives \in SUBSET Field : body \in [gives -> Value]
  BY DEF TypeOK
<1>4. PICK e \in DOMAIN groups : e = pending[c].group
  BY DEF FinishCreateRule
<1>5. PICK old : old = groups[e].rules
  OBVIOUS
<1>6. old \in Seq(RuleTo(n)) /\ Ordered(old)
  BY <1>1, <1>5, GroupFacts DEF OrderKept, Ordered
<1>7. PICK m \in Nat : m = n + 1
  OBVIOUS
<1>8. PICK added : added = Rule(m, body)
  OBVIOUS
<1>9. added \in RuleTo(m) /\ added.id = m
  <2>1. m \in DrawnTo(m)
    BY <1>7 DEF DrawnTo, Id
  <2> QED
    BY <1>3, <1>8, <2>1, RuleFacts
<1>10. added.fields = Table!With(Table!AllDefault, body)
  BY <1>8 DEF Rule, Merged, AllDefault, Table!With, Table!AllDefault
<1>11. PICK new : new = Append(old, added)
  OBVIOUS
<1>12. new \in Seq(RuleTo(m))
  BY <1>6, <1>7, <1>9, <1>11, AppendedRules
<1>13. groups' = [groups EXCEPT ![e].rules = new]
  BY <1>1, <1>4, <1>5, <1>7, <1>8, <1>11 DEF FinishCreateRule
<1>14. GroupRows' = [GroupRows EXCEPT ![e] = Rows(new)]
  BY <1>12, <1>13, TableWritten
<1>15. Rows(new) = Table!Put(Rows(old), m, added.fields)
  BY <1>6, <1>7, <1>9, <1>11, RowsOfAppended
<1>16. e \in DOMAIN GroupRows /\ GroupRows[e] = Rows(old)
  BY <1>5, GroupRowsFacts
<1>17. Table!Answer(c)
  BY TableAnswers DEF FinishCreateRule
<1>18. pending[c].rule = Table!None
  BY DEF FinishCreateRule, None, Table!None
<1>19. Table!Add(c, body)
  BY <1>1, <1>2, <1>4, <1>7, <1>10, <1>14, <1>15, <1>16, <1>17, <1>18 DEF Table!Add
<1> QED
  BY <1>19 DEF Table!Next

LEMMA TableChanges ==
    ASSUME TypeOK, OrderKept, NEW c \in Client,
           NEW body \in [pending[c].gives -> Value], FinishPatchRule(c, body)
    PROVE  Table!Next
<1>1. PICK n \in Nat : n = minted
  BY DEF TypeOK
<1>2. PICK rule : rule = pending[c].rule
  OBVIOUS
<1>3. PICK gives \in SUBSET Field : body \in [gives -> Value]
  BY DEF TypeOK
<1>4. PICK e \in DOMAIN groups : e = pending[c].group
  BY DEF FinishPatchRule
<1>5. PICK old : old = groups[e].rules
  OBVIOUS
<1>6. old \in Seq(RuleTo(n)) /\ Ordered(old)
  BY <1>1, <1>5, GroupFacts DEF OrderKept, Ordered
<1>7. PICK new : new = Patched(old, rule, body)
  OBVIOUS
<1>8. new \in Seq(RuleTo(n))
  BY <1>3, <1>6, <1>7, RulesPatched
<1>9. groups' = [groups EXCEPT ![e].rules = new] /\ UNCHANGED minted
  BY <1>2, <1>4, <1>5, <1>7 DEF FinishPatchRule
<1>10. GroupRows' = [GroupRows EXCEPT ![e] = Rows(new)]
  BY <1>8, <1>9, TableWritten
<1>11. e \in DOMAIN GroupRows /\ GroupRows[e] = Rows(old)
  BY <1>5, GroupRowsFacts
<1>12. Table!Answer(c)
  BY TableAnswers DEF FinishPatchRule
<1>13. DOMAIN Rows(old) = RuleIds(old)
  BY <1>6, RowsFacts
<1>14. CASE rule \in RuleIds(old)
  <2>1. Rows(new) = Table!Put(Rows(old), rule, Table!With(Rows(old)[rule], body))
    BY <1>3, <1>6, <1>7, <1>14, RowsOfPatched
  <2>2. Table!Change(c, body)
    BY <1>2, <1>4, <1>9, <1>10, <1>11, <1>12, <1>13, <1>14, <2>1 DEF Table!Change
  <2> QED
    BY <2>2 DEF Table!Next
<1>15. CASE rule \notin RuleIds(old)
  <2>1. new = old
    BY <1>6, <1>7, <1>15, PatchedMissing
  <2>2. UNCHANGED GroupRows
    <3>1. GroupRows = [g \in DOMAIN groups |-> GroupRows[g]]
      BY GroupRowsFacts DEF GroupRows
    <3> QED
      BY <1>10, <1>11, <2>1, <3>1
  <2>3. rule # Table!None
    BY <1>2 DEF FinishPatchRule, None, Table!None
  <2>4. Table!Miss(c)
    BY <1>2, <1>4, <1>9, <1>11, <1>12, <1>13, <1>15, <2>2, <2>3 DEF Table!Miss
  <2> QED
    BY <2>4 DEF Table!Next
<1> QED
  BY <1>14, <1>15

LEMMA TableMisses ==
    ASSUME NEW c \in Client, FinishWithoutGroup(c)
    PROVE  Table!Next
<1>1. UNCHANGED GroupRows
  BY RowsSame DEF FinishWithoutGroup
<1>2. pending[c].group \notin DOMAIN GroupRows
  BY GroupRowsFacts DEF FinishWithoutGroup
<1>3. Table!Miss(c)
  BY <1>1, <1>2, TableAnswers DEF FinishWithoutGroup, Table!Miss
<1> QED
  BY <1>3 DEF Table!Next

\* Nothing but uuids that are drawn for a subnet.
LEMMA TableMints ==
    ASSUME UNCHANGED <<groups, pending>>, minted <= minted'
    PROVE  Table!Next
<1>1. UNCHANGED GroupRows
  BY RowsSame
<1> QED
  BY <1>1 DEF Table!Next, Table!Mint

LEMMA TableStep ==
    ASSUME RuleListInv, [Next]_vars
    PROVE  [Table!Next]_<<GroupRows, pending, minted>>
<1> USE DEF RuleListInv
<1>1. minted \in Nat
  BY DEF TypeOK
<1>2. CASE UNCHANGED vars
  BY <1>2, RowsSame DEF vars
<1>3. ASSUME NEW bodies \in Bodies, CreateSecurityGroup(bodies)
      PROVE  Table!Next
  <2>1. bodies \in Seq(Body)
    BY BodiesFacts
  <2>2. minted' \in Nat /\ minted + 1 + Len(bodies) <= minted'
    BY <1>1, <1>3, <2>1 DEF CreateSecurityGroup, Draw
  <2>3. groups' = BucketPut(groups, minted + 1,
                            NewGroup("security_groups", minted + 1, bodies))
        /\ UNCHANGED pending
    BY <1>3 DEF CreateSecurityGroup
  <2> QED
    BY <2>1, <2>2, <2>3, TableCreates
<1>4. AllowAll \in Seq(Body) /\ Len(AllowAll) = 2
  <2>1. AllDefault \in [Field -> Value]
    BY RuleAssumption DEF AllDefault
  <2>2. AllDefault \in Body
    BY <2>1 DEF Body
  <2> QED
    BY <2>2 DEF AllowAll
<1>5. ASSUME NEW bodies \in Bodies, CreateNetworkAcl(bodies)
      PROVE  Table!Next
  <2>1. bodies \in Seq(Body)
    BY BodiesFacts
  <2>2. PICK seeded : seeded = IF bodies = <<>> THEN AllowAll ELSE bodies
    OBVIOUS
  <2>3. seeded \in Seq(Body)
    BY <1>4, <2>1, <2>2
  <2>4. minted' \in Nat /\ minted + 1 + Len(seeded) <= minted'
    <3>1. Len(seeded) \in Nat
      BY <2>3
    <3>2. minted' = minted + (1 + Len(seeded))
      BY <1>5, <2>2 DEF CreateNetworkAcl, Draw
    <3> QED
      BY <1>1, <3>1, <3>2
  <2>5. groups' = BucketPut(groups, minted + 1,
                            NewGroup("network_acls", minted + 1, seeded))
        /\ UNCHANGED pending
    BY <1>5, <2>2 DEF CreateNetworkAcl
  <2> QED
    BY <2>3, <2>4, <2>5, TableCreates
<1>6. ASSUME CreateSubnet
      PROVE  Table!Next
  <2>1. minted' \in Nat /\ minted + 2 + Len(AllowAll) <= minted'
    BY <1>1, <1>4, <1>6 DEF CreateSubnet, Draw
  <2>2. groups' = BucketPut(groups, minted + 2,
                            NewGroup("network_acls", minted + 2, AllowAll))
        /\ UNCHANGED pending
    BY <1>6 DEF CreateSubnet
  <2> QED
    BY <1>4, <2>1, <2>2, TableCreates
<1>7. ASSUME NEW acl \in DOMAIN groups, CreateSubnetWithAcl(acl)
      PROVE  Table!Next
  BY <1>1, <1>7, TableMints DEF CreateSubnetWithAcl, Draw
<1>8. ASSUME NEW s \in DOMAIN subnets, DeleteSubnet(s)
      PROVE  Table!Next
  BY <1>1, <1>8, TableMints DEF DeleteSubnet
<1>9. ASSUME NEW g \in DOMAIN groups, DeleteGroup(g)
      PROVE  Table!Next
  BY <1>9, TableDrops DEF DeleteGroup, BucketDelete
<1>10. ASSUME NEW g \in DOMAIN groups, NEW rule \in RuleIds(groups[g].rules),
              DeleteRule(g, rule)
       PROVE  Table!Next
  BY <1>10, TableDeletes
<1>11. ASSUME NEW c \in Client, NEW g \in DOMAIN groups,
              NEW rule \in RuleIds(groups[g].rules) \cup {None},
              NEW gives \in SUBSET Field, Begin(c, g, rule, gives)
       PROVE  Table!Next
  BY <1>11, TableAsks
<1>12. ASSUME NEW c \in Client, Finish(c)
       PROVE  Table!Next
  <2>1. CASE FinishWithoutGroup(c)
    BY <2>1, TableMisses
  <2>2. ASSUME NEW body \in [pending[c].gives -> Value], FinishCreateRule(c, body)
        PROVE  Table!Next
    BY <2>2, TableAdds
  <2>3. ASSUME NEW body \in [pending[c].gives -> Value], FinishPatchRule(c, body)
        PROVE  Table!Next
    BY <2>3, TableChanges
  <2> QED
    BY <1>12, <2>1, <2>2, <2>3 DEF Finish
<1>13. CASE Reset
  BY <1>13, TableDrops DEF Reset, EmptyBucket
<1>14. ASSUME NEW kind, ResetOne(kind)
       PROVE  Table!Next
  BY <1>14, TableDrops DEF ResetOne
<1> QED
  BY <1>2, <1>3, <1>5, <1>6, <1>7, <1>8, <1>9, <1>10, <1>11, <1>12, <1>13, <1>14 DEF Next

\* Handlers that await, and work on lists, implement a table of rows that is edited by
\* one request at a time, with any number of requests in flight.
THEOREM TableCorrect == Spec => TableSpec
<1>1. Init => Table!Init
  <2> SUFFICES ASSUME Init PROVE Table!Init
    OBVIOUS
  <2>1. GroupRows = [g \in {} |-> g]
    BY DEF Init, EmptyBucket, GroupRows
  <2> QED
    BY <2>1 DEF Init, NoRequest, Request, None,
                Table!Init, Table!NoCall, Table!Call, Table!None
<1>2. RuleListInv /\ [Next]_vars => [Table!Next]_<<GroupRows, pending, minted>>
  BY TableStep
<1> QED
  BY <1>1, <1>2, InvAlways, PTL DEF Spec, TableSpec, Table!Spec
=============================================================================
