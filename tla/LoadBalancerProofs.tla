-------------------------- MODULE LoadBalancerProofs --------------------------
(***************************************************************************)
(* What holds of LoadBalancer for every value of its constants.  A step    *)
(* changes one balancer at most: Has says what a balancer holds, and the   *)
(* lemmas about it what each way of rewriting a balancer does to that.     *)
(***************************************************************************)
EXTENDS LoadBalancer, TLAPS

\* A balancer with these fields.
Balancer(value, status, listeners, pools) ==
    [value |-> value, provisioning_status |-> status, listeners |-> listeners,
     pools |-> pools]

IsPool(p) == p = [value |-> p.value, members |-> p.members]

IsBalancer(b) ==
    /\ b = Balancer(b.value, b.provisioning_status, b.listeners, b.pools)
    /\ \A p \in DOMAIN b.pools : IsPool(b.pools[p])

Shaped == /\ \A lb \in DOMAIN balancers : IsBalancer(balancers[lb])
          /\ \A lb \in DOMAIN snapshot.balancers : IsBalancer(snapshot.balancers[lb])

\* A request about a pool, or about a member, has a pool.
PoolRequests == {"patch_pool", "create_member", "patch_member"}

RequestsOK == /\ DOMAIN pending = Client
              /\ \A c \in Client : pending[c].op \in PoolRequests => pending[c].pool # None

\* The inductive invariant.
LoadBalancerInv == TypeOK /\ Shaped /\ RequestsOK

\* The item of a pool, or of the balancer itself when the pool is None.
Has(b, p, i) ==
    \/ p = None /\ i \in DOMAIN b.listeners
    \/ p \in DOMAIN b.pools /\ (i = None \/ i \in DOMAIN b.pools[p].members)

-----------------------------------------------------------------------------
LEMMA HeldIs ==
    ASSUME NEW x
    PROVE  x \in Held <=> \E lb \in DOMAIN balancers : \E p, i :
                             x = <<lb, p, i>> /\ Has(balancers[lb], p, i)
<1>1. ASSUME NEW lb \in DOMAIN balancers, x \in Nested(lb)
      PROVE  \E p, i : x = <<lb, p, i>> /\ Has(balancers[lb], p, i)
  BY <1>1 DEF Nested, Has
<1>2. ASSUME NEW lb \in DOMAIN balancers, NEW p, NEW i, x = <<lb, p, i>>,
             Has(balancers[lb], p, i)
      PROVE  x \in Nested(lb)
  BY <1>2 DEF Nested, Has
<1> QED
  BY <1>1, <1>2 DEF Held

LEMMA HeldIsNext ==
    ASSUME NEW x
    PROVE  x \in Held' <=> \E lb \in DOMAIN balancers' : \E p, i :
                              x = <<lb, p, i>> /\ Has(balancers'[lb], p, i)
<1>1. ASSUME NEW lb \in DOMAIN balancers', x \in Nested(lb)'
      PROVE  \E p, i : x = <<lb, p, i>> /\ Has(balancers'[lb], p, i)
  BY <1>1 DEF Nested, Has
<1>2. ASSUME NEW lb \in DOMAIN balancers', NEW p, NEW i, x = <<lb, p, i>>,
             Has(balancers'[lb], p, i)
      PROVE  x \in Nested(lb)'
  BY <1>2 DEF Nested, Has
<1> QED
  BY <1>1, <1>2 DEF Held

-----------------------------------------------------------------------------
\* What a handler makes of a balancer when it rewrites one of its lists.
WithListeners(b, listeners) ==
    Balancer(b.value, b.provisioning_status, listeners, b.pools)

WithPools(b, pools) ==
    Balancer(b.value, b.provisioning_status, b.listeners, pools)

WithPool(b, p, value, members) ==
    WithPools(b, [b.pools EXCEPT ![p] = [value |-> value, members |-> members]])

\* A step that rewrites one balancer.
Rewrites(lb, b) == /\ lb \in DOMAIN balancers
                   /\ DOMAIN balancers' = DOMAIN balancers
                   /\ balancers'[lb] = b
                   /\ \A k \in DOMAIN balancers : k # lb => balancers'[k] = balancers[k]
                   /\ IsBalancer(b)
                   /\ BalancerOK(b)'

\* Nothing that c holds is missing in b; b has nothing that c does not have; and b
\* has one thing at most that c does not have.
Keeps(b, c) == \A p, i : Has(c, p, i) => Has(b, p, i)

NoMore(b, c) == \A p, i : Has(b, p, i) => Has(c, p, i)

OneMore(b, c, p, i) == \A q, j : Has(b, q, j) => Has(c, q, j) \/ (q = p /\ j = i)

\* The ids of a step that draws one, or none.
LEMMA DrawnGrows ==
    ASSUME TypeOK, minted' \in {minted, minted + 1}
    PROVE  /\ minted' \in Nat
           /\ Drawn \subseteq Drawn'
           /\ minted' = minted + 1 => minted + 1 \in Drawn' /\ minted + 1 \notin Drawn
           /\ None \notin Drawn /\ Ref \subseteq Ref'
<1>1. minted \in Nat
  BY DEF TypeOK
<1>2. Drawn \subseteq Drawn'
  BY <1>1 DEF Drawn, Id
<1> QED
  BY <1>1, <1>2 DEF Drawn, Id, None, Ref

LEMMA FieldOK ==
    ASSUME NEW b, IsBalancer(b), BalancerOK(b), Drawn \subseteq Drawn',
           NEW value \in Value
    PROVE  /\ LET c == Balancer(value, b.provisioning_status, b.listeners, b.pools) IN
              IsBalancer(c) /\ BalancerOK(c)' /\ Keeps(c, b) /\ NoMore(c, b)
           /\ LET c == Balancer(b.value, "active", b.listeners, b.pools) IN
              IsBalancer(c) /\ BalancerOK(c)' /\ Keeps(c, b) /\ NoMore(c, b)
  BY DEF IsBalancer, BalancerOK, Balancer, IsPool, PoolOK, Keeps, NoMore, Has

LEMMA ListenersOK ==
    ASSUME NEW b, IsBalancer(b), BalancerOK(b), Drawn \subseteq Drawn',
           NEW listeners, DOMAIN listeners \subseteq Drawn',
           \A l \in DOMAIN listeners : listeners[l] \in Value
    PROVE  LET c == WithListeners(b, listeners) IN
           /\ IsBalancer(c) /\ BalancerOK(c)'
           /\ c.listeners = listeners /\ c.pools = b.pools
  BY DEF IsBalancer, BalancerOK, Balancer, IsPool, PoolOK, WithListeners

LEMMA PoolsOK ==
    ASSUME NEW b, IsBalancer(b), BalancerOK(b), Drawn \subseteq Drawn',
           NEW pools, DOMAIN pools \subseteq Drawn',
           \A p \in DOMAIN pools : IsPool(pools[p]) /\ PoolOK(pools[p])'
    PROVE  LET c == WithPools(b, pools) IN
           /\ IsBalancer(c) /\ BalancerOK(c)'
           /\ c.listeners = b.listeners /\ c.pools = pools
  BY DEF IsBalancer, BalancerOK, Balancer, IsPool, PoolOK, WithPools

LEMMA PoolOKNext ==
    ASSUME NEW b, IsBalancer(b), BalancerOK(b), Drawn \subseteq Drawn'
    PROVE  \A p \in DOMAIN b.pools : IsPool(b.pools[p]) /\ PoolOK(b.pools[p])'
  BY DEF IsBalancer, BalancerOK, PoolOK

LEMMA MembersOK ==
    ASSUME NEW b, IsBalancer(b), BalancerOK(b), Drawn \subseteq Drawn',
           NEW p \in DOMAIN b.pools, NEW value \in Value,
           NEW members, DOMAIN members \subseteq Drawn',
           \A m \in DOMAIN members : members[m] \in Value
    PROVE  LET c == WithPool(b, p, value, members) IN
           /\ IsBalancer(c) /\ BalancerOK(c)'
           /\ c.listeners = b.listeners
           /\ DOMAIN c.pools = DOMAIN b.pools
           /\ c.pools[p].members = members
           /\ \A q \in DOMAIN b.pools : q # p => c.pools[q] = b.pools[q]
<1>1. PICK pools : pools = [b.pools EXCEPT ![p] = [value |-> value, members |-> members]]
  OBVIOUS
<1>2. DOMAIN pools = DOMAIN b.pools
  BY <1>1
<1>3. pools[p] = [value |-> value, members |-> members]
  BY <1>1
<1>4. \A q \in DOMAIN b.pools : q # p => pools[q] = b.pools[q]
  BY <1>1
<1>5. IsPool(pools[p]) /\ PoolOK(pools[p])'
  BY <1>3 DEF IsPool, PoolOK
<1>6. \A q \in DOMAIN pools : IsPool(pools[q]) /\ PoolOK(pools[q])'
  BY <1>2, <1>4, <1>5, PoolOKNext
<1>7. DOMAIN pools \subseteq Drawn'
  BY <1>2 DEF BalancerOK
<1> QED
  BY <1>1, <1>2, <1>3, <1>4, <1>6, <1>7, PoolsOK DEF WithPool

\* An assignment to one field is one of these.
LEMMA FieldSet ==
    ASSUME NEW b, IsBalancer(b), NEW x
    PROVE  /\ [b EXCEPT !.value = x] =
                Balancer(x, b.provisioning_status, b.listeners, b.pools)
           /\ [b EXCEPT !.provisioning_status = x] =
                Balancer(b.value, x, b.listeners, b.pools)
           /\ [b EXCEPT !.listeners = x] = WithListeners(b, x)
           /\ [b EXCEPT !.pools = x] = WithPools(b, x)
<1>1. b = [value |-> b.value, provisioning_status |-> b.provisioning_status,
           listeners |-> b.listeners, pools |-> b.pools]
  BY DEF IsBalancer, Balancer
<1>2. [b EXCEPT !.value = x] = Balancer(x, b.provisioning_status, b.listeners, b.pools)
  BY <1>1 DEF Balancer
<1>3. [b EXCEPT !.provisioning_status = x] = Balancer(b.value, x, b.listeners, b.pools)
  BY <1>1 DEF Balancer
<1>4. [b EXCEPT !.listeners = x] = WithListeners(b, x)
  BY <1>1 DEF Balancer, WithListeners
<1>5. [b EXCEPT !.pools = x] = WithPools(b, x)
  BY <1>1 DEF Balancer, WithPools
<1> QED
  BY <1>2, <1>3, <1>4, <1>5

LEMMA PoolFieldSet ==
    ASSUME NEW b, IsBalancer(b), NEW p \in DOMAIN b.pools, NEW x, NEW n
    PROVE  /\ n = [b EXCEPT !.pools[p].value = x] =>
                n = WithPool(b, p, x, b.pools[p].members)
           /\ n = [b EXCEPT !.pools[p].members = x] =>
                n = WithPool(b, p, b.pools[p].value, x)
<1>1. PICK pool : pool = b.pools[p]
  OBVIOUS
<1>2. pool = [value |-> pool.value, members |-> pool.members]
  BY <1>1 DEF IsBalancer, IsPool
<1>3. PICK pools : pools = b.pools
  OBVIOUS
<1>4. /\ [b EXCEPT !.pools[p].value = x] =
           [b EXCEPT !.pools = [pools EXCEPT ![p] = [pool EXCEPT !.value = x]]]
      /\ [b EXCEPT !.pools[p].members = x] =
           [b EXCEPT !.pools = [pools EXCEPT ![p] = [pool EXCEPT !.members = x]]]
  BY <1>1, <1>3
<1>5. /\ [pool EXCEPT !.value = x] = [value |-> x, members |-> pool.members]
      /\ [pool EXCEPT !.members = x] = [value |-> pool.value, members |-> x]
  BY <1>2
<1>6. PICK q : q = [value |-> x, members |-> pool.members]
  OBVIOUS
<1>7. PICK r : r = [value |-> pool.value, members |-> x]
  OBVIOUS
<1>8. PICK qs : qs = [pools EXCEPT ![p] = q]
  OBVIOUS
<1>9. PICK rs : rs = [pools EXCEPT ![p] = r]
  OBVIOUS
<1>10. /\ [b EXCEPT !.pools[p].value = x] = [b EXCEPT !.pools = qs]
       /\ [b EXCEPT !.pools[p].members = x] = [b EXCEPT !.pools = rs]
  BY <1>4, <1>5, <1>6, <1>7, <1>8, <1>9
<1>11. /\ [b EXCEPT !.pools = qs] = WithPools(b, qs)
       /\ [b EXCEPT !.pools = rs] = WithPools(b, rs)
  BY FieldSet
<1>12. /\ WithPools(b, qs) = WithPool(b, p, x, pool.members)
       /\ WithPools(b, rs) = WithPool(b, p, pool.value, x)
  BY <1>3, <1>6, <1>7, <1>8, <1>9 DEF WithPool
<1> QED
  BY <1>1, <1>10, <1>11, <1>12

-----------------------------------------------------------------------------
\* One handler after the other: what it makes of its balancer.
LEMMA OldBalancer ==
    ASSUME LoadBalancerInv, NEW lb \in DOMAIN balancers, NEW old, old = balancers[lb]
    PROVE  IsBalancer(old) /\ BalancerOK(old) /\ None \notin DOMAIN old.pools
  BY DEF LoadBalancerInv, TypeOK, BalancersOK, Shaped, BalancerOK, Drawn, Id, None

LEMMA ActivateStep ==
    ASSUME LoadBalancerInv, NEW lb \in DOMAIN balancers, Activate(lb)
    PROVE  \E b : Rewrites(lb, b) /\ Keeps(b, balancers[lb]) /\ NoMore(b, balancers[lb])
<1>1. PICK old : old = balancers[lb]
  OBVIOUS
<1>2. IsBalancer(old) /\ BalancerOK(old)
  BY <1>1, OldBalancer
<1>3. PICK b : b = Balancer(old.value, "active", old.listeners, old.pools)
  OBVIOUS
<1>4. /\ DOMAIN balancers' = DOMAIN balancers
      /\ balancers'[lb] = b
      /\ \A k \in DOMAIN balancers : k # lb => balancers'[k] = balancers[k]
  <2>1. balancers' = [balancers EXCEPT ![lb].provisioning_status = "active"]
    BY DEF Activate
  <2>2. balancers'[lb] = [old EXCEPT !.provisioning_status = "active"]
    BY <1>1, <2>1
  <2>3. [old EXCEPT !.provisioning_status = "active"] = b
    BY <1>2, <1>3, FieldSet
  <2> QED
    BY <2>1, <2>2, <2>3
<1>5. Drawn \subseteq Drawn'
  BY DrawnGrows DEF Activate, LoadBalancerInv
<1>6. IsBalancer(b) /\ BalancerOK(b)' /\ Keeps(b, old) /\ NoMore(b, old)
  <2>1. PICK value : value = old.value
    OBVIOUS
  <2>2. value \in Value
    BY <1>2, <2>1 DEF BalancerOK
  <2> QED
    BY <1>2, <1>3, <1>5, <2>2, FieldOK
<1> QED
  BY <1>1, <1>4, <1>6 DEF Rewrites

LEMMA PatchLoadBalancerStep ==
    ASSUME LoadBalancerInv, NEW c \in Client, NEW value \in Value,
           FinishPatchLoadBalancer(c, value)
    PROVE  \E lb \in DOMAIN balancers : \E b :
              Rewrites(lb, b) /\ Keeps(b, balancers[lb]) /\ NoMore(b, balancers[lb])
<1>1. PICK lb : lb = pending[c].lb
  OBVIOUS
<1>2. lb \in DOMAIN balancers
  BY <1>1 DEF FinishPatchLoadBalancer, Reachable
<1>3. PICK old : old = balancers[lb]
  OBVIOUS
<1>4. IsBalancer(old) /\ BalancerOK(old)
  BY <1>2, <1>3, OldBalancer
<1>5. PICK b : b = Balancer(value, old.provisioning_status, old.listeners, old.pools)
  OBVIOUS
<1>6. /\ DOMAIN balancers' = DOMAIN balancers
      /\ balancers'[lb] = b
      /\ \A k \in DOMAIN balancers : k # lb => balancers'[k] = balancers[k]
  <2>1. balancers' = [balancers EXCEPT ![lb].value = value]
    BY <1>1 DEF FinishPatchLoadBalancer
  <2>2. balancers'[lb] = [old EXCEPT !.value = value]
    BY <1>2, <1>3, <2>1
  <2>3. [old EXCEPT !.value = value] = b
    BY <1>4, <1>5, FieldSet
  <2> QED
    BY <2>1, <2>2, <2>3
<1>7. Drawn \subseteq Drawn'
  BY DrawnGrows DEF FinishPatchLoadBalancer, LoadBalancerInv
<1>8. IsBalancer(b) /\ BalancerOK(b)' /\ Keeps(b, old) /\ NoMore(b, old)
  BY <1>4, <1>5, <1>7, FieldOK
<1> QED
  BY <1>2, <1>3, <1>6, <1>8 DEF Rewrites

\* The assignments the handlers end with.
SetsListeners(lb, list) == balancers' = [balancers EXCEPT ![lb].listeners = list]

SetsPools(lb, list) == balancers' = [balancers EXCEPT ![lb].pools = list]

SetsMembers(lb, p, list) == balancers' = [balancers EXCEPT ![lb].pools[p].members = list]

SetsPool(lb, p, value) == balancers' = [balancers EXCEPT ![lb].pools[p].value = value]

\* The list of listeners is rewritten.
LEMMA ListenersStep ==
    ASSUME LoadBalancerInv, NEW lb \in DOMAIN balancers, NEW listeners,
           minted' \in {minted, minted + 1},
           SetsListeners(lb, listeners),
           DOMAIN listeners \subseteq Drawn',
           \A l \in DOMAIN listeners : listeners[l] \in Value
    PROVE  \E b : /\ Rewrites(lb, b)
                  /\ b.listeners = listeners /\ b.pools = balancers[lb].pools
<1>1. PICK old : old = balancers[lb]
  OBVIOUS
<1>2. IsBalancer(old) /\ BalancerOK(old)
  BY <1>1, OldBalancer
<1>3. PICK b : b = WithListeners(old, listeners)
  OBVIOUS
<1>4. /\ DOMAIN balancers' = DOMAIN balancers
      /\ balancers'[lb] = b
      /\ \A k \in DOMAIN balancers : k # lb => balancers'[k] = balancers[k]
  <2>1. balancers'[lb] = [old EXCEPT !.listeners = listeners]
    BY <1>1 DEF SetsListeners
  <2>2. [old EXCEPT !.listeners = listeners] = b
    BY <1>2, <1>3, FieldSet
  <2> QED
    BY <2>1, <2>2 DEF SetsListeners
<1>5. Drawn \subseteq Drawn'
  BY DrawnGrows DEF LoadBalancerInv
<1>6. /\ IsBalancer(b) /\ BalancerOK(b)'
      /\ b.listeners = listeners /\ b.pools = old.pools
  BY <1>2, <1>3, <1>5, ListenersOK
<1> QED
  BY <1>1, <1>4, <1>6 DEF Rewrites

\* The list of pools is.
LEMMA PoolsStep ==
    ASSUME LoadBalancerInv, NEW lb \in DOMAIN balancers, NEW pools,
           minted' \in {minted, minted + 1},
           SetsPools(lb, pools),
           DOMAIN pools \subseteq Drawn',
           \A p \in DOMAIN pools : IsPool(pools[p]) /\ PoolOK(pools[p])'
    PROVE  \E b : /\ Rewrites(lb, b)
                  /\ b.listeners = balancers[lb].listeners /\ b.pools = pools
<1>1. PICK old : old = balancers[lb]
  OBVIOUS
<1>2. IsBalancer(old) /\ BalancerOK(old)
  BY <1>1, OldBalancer
<1>3. PICK b : b = WithPools(old, pools)
  OBVIOUS
<1>4. /\ DOMAIN balancers' = DOMAIN balancers
      /\ balancers'[lb] = b
      /\ \A k \in DOMAIN balancers : k # lb => balancers'[k] = balancers[k]
  <2>1. balancers'[lb] = [old EXCEPT !.pools = pools]
    BY <1>1 DEF SetsPools
  <2>2. [old EXCEPT !.pools = pools] = b
    BY <1>2, <1>3, FieldSet
  <2> QED
    BY <2>1, <2>2 DEF SetsPools
<1>5. Drawn \subseteq Drawn'
  BY DrawnGrows DEF LoadBalancerInv
<1>6. /\ IsBalancer(b) /\ BalancerOK(b)'
      /\ b.listeners = old.listeners /\ b.pools = pools
  BY <1>2, <1>3, <1>5, PoolsOK
<1> QED
  BY <1>1, <1>4, <1>6 DEF Rewrites

\* Or the list of members of a pool.
LEMMA MembersStep ==
    ASSUME LoadBalancerInv, NEW lb \in DOMAIN balancers,
           NEW p \in DOMAIN balancers[lb].pools, NEW members,
           minted' \in {minted, minted + 1},
           SetsMembers(lb, p, members),
           DOMAIN members \subseteq Drawn',
           \A m \in DOMAIN members : members[m] \in Value
    PROVE  \E b : /\ Rewrites(lb, b)
                  /\ b.listeners = balancers[lb].listeners
                  /\ DOMAIN b.pools = DOMAIN balancers[lb].pools
                  /\ b.pools[p].members = members
                  /\ \A q \in DOMAIN b.pools :
                        q # p => b.pools[q] = balancers[lb].pools[q]
<1>1. PICK old : old = balancers[lb]
  OBVIOUS
<1>2. IsBalancer(old) /\ BalancerOK(old)
  BY <1>1, OldBalancer
<1>3. PICK value : value = old.pools[p].value
  OBVIOUS
<1>4. value \in Value
  BY <1>1, <1>2, <1>3 DEF BalancerOK, PoolOK
<1>5. PICK b : b = WithPool(old, p, value, members)
  OBVIOUS
<1>6. /\ DOMAIN balancers' = DOMAIN balancers
      /\ balancers'[lb] = b
      /\ \A k \in DOMAIN balancers : k # lb => balancers'[k] = balancers[k]
  <2>1. PICK n : n = [old EXCEPT !.pools[p].members = members]
    OBVIOUS
  <2>2. balancers'[lb] = n
    BY <1>1, <2>1 DEF SetsMembers
  <2>3. n = WithPool(old, p, old.pools[p].value, members)
    <3>1. p \in DOMAIN old.pools
      BY <1>1
    <3> QED
      BY <1>2, <2>1, <3>1, PoolFieldSet
  <2>4. n = b
    BY <1>3, <1>5, <2>3
  <2>5. /\ DOMAIN balancers' = DOMAIN balancers
        /\ \A k \in DOMAIN balancers : k # lb => balancers'[k] = balancers[k]
    BY DEF SetsMembers
  <2> QED
    BY <2>2, <2>4, <2>5
<1>7. Drawn \subseteq Drawn'
  BY DrawnGrows DEF LoadBalancerInv
<1>8. /\ IsBalancer(b) /\ BalancerOK(b)'
      /\ b.listeners = old.listeners
      /\ DOMAIN b.pools = DOMAIN old.pools
      /\ b.pools[p].members = members
      /\ \A q \in DOMAIN old.pools : q # p => b.pools[q] = old.pools[q]
  BY <1>1, <1>2, <1>4, <1>5, <1>7, MembersOK
<1> QED
  BY <1>1, <1>6, <1>8 DEF Rewrites

\* Or the fields of a pool are.
LEMMA PatchPoolStep ==
    ASSUME LoadBalancerInv, NEW lb \in DOMAIN balancers,
           NEW p \in DOMAIN balancers[lb].pools, NEW value \in Value,
           minted' \in {minted, minted + 1},
           SetsPool(lb, p, value)
    PROVE  \E b : Rewrites(lb, b) /\ Keeps(b, balancers[lb]) /\ NoMore(b, balancers[lb])
<1>1. PICK old : old = balancers[lb]
  OBVIOUS
<1>2. IsBalancer(old) /\ BalancerOK(old)
  BY <1>1, OldBalancer
<1>3. PICK members : members = old.pools[p].members
  OBVIOUS
<1>4. Drawn \subseteq Drawn'
  BY DrawnGrows DEF LoadBalancerInv
<1>5. /\ DOMAIN members \subseteq Drawn'
      /\ \A m \in DOMAIN members : members[m] \in Value
  BY <1>1, <1>2, <1>3, <1>4 DEF BalancerOK, PoolOK
<1>6. PICK b : b = WithPool(old, p, value, members)
  OBVIOUS
<1>7. /\ DOMAIN balancers' = DOMAIN balancers
      /\ balancers'[lb] = b
      /\ \A k \in DOMAIN balancers : k # lb => balancers'[k] = balancers[k]
  <2>1. PICK n : n = [old EXCEPT !.pools[p].value = value]
    OBVIOUS
  <2>2. balancers'[lb] = n
    BY <1>1, <2>1 DEF SetsPool
  <2>3. n = WithPool(old, p, value, old.pools[p].members)
    <3>1. p \in DOMAIN old.pools
      BY <1>1
    <3> QED
      BY <1>2, <2>1, <3>1, PoolFieldSet
  <2>4. n = b
    BY <1>3, <1>6, <2>3
  <2>5. /\ DOMAIN balancers' = DOMAIN balancers
        /\ \A k \in DOMAIN balancers : k # lb => balancers'[k] = balancers[k]
    BY DEF SetsPool
  <2> QED
    BY <2>2, <2>4, <2>5
<1>8. /\ IsBalancer(b) /\ BalancerOK(b)'
      /\ b.listeners = old.listeners
      /\ DOMAIN b.pools = DOMAIN old.pools
      /\ b.pools[p].members = members
      /\ \A q \in DOMAIN old.pools : q # p => b.pools[q] = old.pools[q]
  BY <1>1, <1>2, <1>4, <1>5, <1>6, MembersOK
<1>9. Keeps(b, old) /\ NoMore(b, old)
  BY <1>3, <1>8 DEF Keeps, NoMore, Has
<1> QED
  BY <1>1, <1>7, <1>8, <1>9 DEF Rewrites

-----------------------------------------------------------------------------
\* A handler that finishes keeps everything, and adds nothing but what it names with
\* the uuid it draws.
Finishes(lb) ==
    \E b : /\ Rewrites(lb, b)
           /\ Keeps(b, balancers[lb])
           /\ \/ NoMore(b, balancers[lb])
              \/ \E p, i : /\ OneMore(b, balancers[lb], p, i)
                           /\ minted' = minted + 1 /\ minted' \in {p, i}

LEMMA CreateListenerStep ==
    ASSUME LoadBalancerInv, NEW c \in Client, NEW value \in Value,
           FinishCreateListener(c, value)
    PROVE  \E lb \in DOMAIN balancers : Finishes(lb)
<1>1. PICK lb : lb = pending[c].lb
  OBVIOUS
<1>2. lb \in DOMAIN balancers
  BY <1>1 DEF FinishCreateListener, Reachable
<1>3. minted' = minted + 1
  BY DEF FinishCreateListener, Draw
<1>4. PICK old : old = balancers[lb]
  OBVIOUS
<1>5. IsBalancer(old) /\ BalancerOK(old) /\ None \notin DOMAIN old.pools
  BY <1>2, <1>4, OldBalancer
<1>6. Drawn \subseteq Drawn' /\ minted + 1 \in Drawn'
  BY <1>3, DrawnGrows DEF LoadBalancerInv
<1>7. PICK list : list = BucketPut(old.listeners, minted + 1, value)
  OBVIOUS
<1>8. DOMAIN list = DOMAIN old.listeners \cup {minted + 1}
  BY <1>7 DEF BucketPut
<1>9. DOMAIN list \subseteq Drawn' /\ \A l \in DOMAIN list : list[l] \in Value
  BY <1>5, <1>6, <1>7, <1>8 DEF BalancerOK, BucketPut
<1>10. SetsListeners(lb, list)
  BY <1>1, <1>4, <1>7 DEF SetsListeners, FinishCreateListener
<1>11. PICK b : Rewrites(lb, b) /\ b.listeners = list /\ b.pools = old.pools
  BY <1>2, <1>3, <1>4, <1>9, <1>10, ListenersStep
<1>12. Keeps(b, old) /\ OneMore(b, old, None, minted + 1)
  BY <1>5, <1>8, <1>11 DEF Keeps, OneMore, Has
<1> QED
  BY <1>2, <1>3, <1>4, <1>11, <1>12 DEF Finishes

LEMMA PatchListenerStep ==
    ASSUME LoadBalancerInv, NEW c \in Client, NEW value \in Value,
           FinishPatchListener(c, value)
    PROVE  \E lb \in DOMAIN balancers : Finishes(lb)
<1>1. PICK lb : lb = pending[c].lb
  OBVIOUS
<1>2. lb \in DOMAIN balancers
  BY <1>1 DEF FinishPatchListener, Reachable
<1>3. minted' = minted
  BY DEF FinishPatchListener
<1>4. PICK old : old = balancers[lb]
  OBVIOUS
<1>5. IsBalancer(old) /\ BalancerOK(old)
  BY <1>2, <1>4, OldBalancer
<1>6. Drawn \subseteq Drawn'
  BY <1>3, DrawnGrows DEF LoadBalancerInv
<1>7. PICK list : list = Replaced(old.listeners, pending[c].item, value)
  OBVIOUS
<1>8. /\ DOMAIN list = DOMAIN old.listeners
      /\ \A l \in DOMAIN list : list[l] \in {value, old.listeners[l]}
  BY <1>7 DEF Replaced
<1>9. DOMAIN list \subseteq Drawn' /\ \A l \in DOMAIN list : list[l] \in Value
  BY <1>5, <1>6, <1>8 DEF BalancerOK
<1>10. SetsListeners(lb, list)
  BY <1>1, <1>4, <1>7 DEF SetsListeners, FinishPatchListener
<1>11. PICK b : Rewrites(lb, b) /\ b.listeners = list /\ b.pools = old.pools
  BY <1>2, <1>3, <1>4, <1>9, <1>10, ListenersStep
<1>12. Keeps(b, old) /\ NoMore(b, old)
  BY <1>8, <1>11 DEF Keeps, NoMore, Has
<1> QED
  BY <1>2, <1>4, <1>11, <1>12 DEF Finishes

LEMMA CreatePoolStep ==
    ASSUME LoadBalancerInv, NEW c \in Client, NEW value \in Value,
           FinishCreatePool(c, value)
    PROVE  \E lb \in DOMAIN balancers : Finishes(lb)
<1>1. PICK lb : lb = pending[c].lb
  OBVIOUS
<1>2. lb \in DOMAIN balancers
  BY <1>1 DEF FinishCreatePool, Reachable
<1>3. minted' = minted + 1
  BY DEF FinishCreatePool, Draw
<1>4. PICK old : old = balancers[lb]
  OBVIOUS
<1>5. IsBalancer(old) /\ BalancerOK(old)
  BY <1>2, <1>4, OldBalancer
<1>6. Drawn \subseteq Drawn' /\ minted + 1 \in Drawn' /\ minted + 1 \notin Drawn
  BY <1>3, DrawnGrows DEF LoadBalancerInv
<1>7. PICK list : list = BucketPut(old.pools, minted + 1, NewPool(value))
  OBVIOUS
<1>8. /\ DOMAIN list = DOMAIN old.pools \cup {minted + 1}
      /\ list[minted + 1] = NewPool(value)
      /\ \A p \in DOMAIN old.pools : list[p] = old.pools[p]
  BY <1>5, <1>6, <1>7 DEF BalancerOK, BucketPut
<1>9. DOMAIN NewPool(value).members = {}
  BY DEF NewPool, EmptyBucket
<1>10. IsPool(NewPool(value)) /\ PoolOK(NewPool(value))'
  BY DEF IsPool, PoolOK, NewPool, EmptyBucket
<1>11. /\ DOMAIN list \subseteq Drawn'
       /\ \A p \in DOMAIN list : IsPool(list[p]) /\ PoolOK(list[p])'
  <2>1. DOMAIN list \subseteq Drawn'
    BY <1>5, <1>6, <1>8 DEF BalancerOK
  <2>2. \A p \in DOMAIN old.pools : IsPool(list[p]) /\ PoolOK(list[p])'
    BY <1>5, <1>6, <1>8, PoolOKNext
  <2> QED
    BY <1>8, <1>10, <2>1, <2>2
<1>12. SetsPools(lb, list)
  BY <1>1, <1>4, <1>7 DEF SetsPools, FinishCreatePool
<1>13. PICK b : Rewrites(lb, b) /\ b.listeners = old.listeners /\ b.pools = list
  BY <1>2, <1>3, <1>4, <1>11, <1>12, PoolsStep
<1>14. Keeps(b, old) /\ OneMore(b, old, minted + 1, None)
  BY <1>8, <1>9, <1>13 DEF Keeps, OneMore, Has
<1> QED
  BY <1>2, <1>3, <1>4, <1>13, <1>14 DEF Finishes

LEMMA CreateMemberStep ==
    ASSUME LoadBalancerInv, NEW c \in Client, NEW value \in Value,
           FinishCreateMember(c, value), pending[c].pool # None
    PROVE  \E lb \in DOMAIN balancers : Finishes(lb)
<1>1. PICK lb, p : lb = pending[c].lb /\ p = pending[c].pool
  OBVIOUS
<1>2. lb \in DOMAIN balancers /\ p \in DOMAIN balancers[lb].pools
  BY <1>1 DEF FinishCreateMember, Reachable
<1>3. minted' = minted + 1
  BY DEF FinishCreateMember, Draw
<1>4. PICK old : old = balancers[lb]
  OBVIOUS
<1>5. IsBalancer(old) /\ BalancerOK(old) /\ None \notin DOMAIN old.pools
  BY <1>2, <1>4, OldBalancer
<1>6. Drawn \subseteq Drawn' /\ minted + 1 \in Drawn'
  BY <1>3, DrawnGrows DEF LoadBalancerInv
<1>7. PICK list : list = BucketPut(old.pools[p].members, minted + 1, value)
  OBVIOUS
<1>8. DOMAIN list = DOMAIN old.pools[p].members \cup {minted + 1}
  BY <1>7 DEF BucketPut
<1>9. DOMAIN list \subseteq Drawn' /\ \A m \in DOMAIN list : list[m] \in Value
  BY <1>2, <1>4, <1>5, <1>6, <1>7, <1>8 DEF BalancerOK, PoolOK, BucketPut
<1>10. SetsMembers(lb, p, list)
  BY <1>1, <1>4, <1>7 DEF SetsMembers, FinishCreateMember
<1>11. PICK b : /\ Rewrites(lb, b)
                /\ b.listeners = old.listeners
                /\ DOMAIN b.pools = DOMAIN old.pools
                /\ b.pools[p].members = list
                /\ \A q \in DOMAIN b.pools : q # p => b.pools[q] = old.pools[q]
  BY <1>2, <1>3, <1>4, <1>9, <1>10, MembersStep
<1>12. Keeps(b, old) /\ OneMore(b, old, p, minted + 1)
  BY <1>5, <1>8, <1>11 DEF Keeps, OneMore, Has
<1> QED
  BY <1>2, <1>3, <1>4, <1>11, <1>12 DEF Finishes

LEMMA PatchMemberStep ==
    ASSUME LoadBalancerInv, NEW c \in Client, NEW value \in Value,
           FinishPatchMember(c, value), pending[c].pool # None
    PROVE  \E lb \in DOMAIN balancers : Finishes(lb)
<1>1. PICK lb, p : lb = pending[c].lb /\ p = pending[c].pool
  OBVIOUS
<1>2. lb \in DOMAIN balancers /\ p \in DOMAIN balancers[lb].pools
  BY <1>1 DEF FinishPatchMember, Reachable
<1>3. minted' = minted
  BY DEF FinishPatchMember
<1>4. PICK old : old = balancers[lb]
  OBVIOUS
<1>5. IsBalancer(old) /\ BalancerOK(old)
  BY <1>2, <1>4, OldBalancer
<1>6. Drawn \subseteq Drawn'
  BY <1>3, DrawnGrows DEF LoadBalancerInv
<1>7. PICK list : list = Replaced(old.pools[p].members, pending[c].item, value)
  OBVIOUS
<1>8. /\ DOMAIN list = DOMAIN old.pools[p].members
      /\ \A m \in DOMAIN list : list[m] \in {value, old.pools[p].members[m]}
  BY <1>7 DEF Replaced
<1>9. DOMAIN list \subseteq Drawn' /\ \A m \in DOMAIN list : list[m] \in Value
  BY <1>2, <1>4, <1>5, <1>6, <1>8 DEF BalancerOK, PoolOK
<1>10. SetsMembers(lb, p, list)
  BY <1>1, <1>4, <1>7 DEF SetsMembers, FinishPatchMember
<1>11. PICK b : /\ Rewrites(lb, b)
                /\ b.listeners = old.listeners
                /\ DOMAIN b.pools = DOMAIN old.pools
                /\ b.pools[p].members = list
                /\ \A q \in DOMAIN b.pools : q # p => b.pools[q] = old.pools[q]
  BY <1>2, <1>3, <1>4, <1>9, <1>10, MembersStep
<1>12. Keeps(b, old) /\ NoMore(b, old)
  BY <1>8, <1>11 DEF Keeps, NoMore, Has
<1> QED
  BY <1>2, <1>4, <1>11, <1>12 DEF Finishes

-----------------------------------------------------------------------------
\* A DELETE inside a balancer adds nothing, and takes away what it names.
LEMMA DeleteListenerStep ==
    ASSUME LoadBalancerInv, NEW lb \in DOMAIN balancers, NEW l, DeleteListener(lb, l)
    PROVE  \E b : /\ Rewrites(lb, b) /\ NoMore(b, balancers[lb])
                  /\ \A p, i : Has(balancers[lb], p, i) /\ ~Has(b, p, i) => i = l
<1>1. minted' = minted
  BY DEF DeleteListener
<1>2. PICK old : old = balancers[lb]
  OBVIOUS
<1>3. IsBalancer(old) /\ BalancerOK(old)
  BY <1>2, OldBalancer
<1>4. Drawn \subseteq Drawn'
  BY <1>1, DrawnGrows DEF LoadBalancerInv
<1>5. PICK list : list = BucketDelete(old.listeners, l)
  OBVIOUS
<1>6. DOMAIN list = DOMAIN old.listeners \ {l}
  BY <1>5 DEF BucketDelete
<1>7. DOMAIN list \subseteq Drawn' /\ \A k \in DOMAIN list : list[k] \in Value
  BY <1>3, <1>4, <1>5, <1>6 DEF BalancerOK, BucketDelete
<1>8. SetsListeners(lb, list)
  BY <1>2, <1>5 DEF SetsListeners, DeleteListener
<1>9. PICK b : Rewrites(lb, b) /\ b.listeners = list /\ b.pools = old.pools
  BY <1>1, <1>2, <1>7, <1>8, ListenersStep
<1>10. NoMore(b, old) /\ \A p, i : Has(old, p, i) /\ ~Has(b, p, i) => i = l
  BY <1>6, <1>9 DEF NoMore, Has
<1> QED
  BY <1>2, <1>9, <1>10

LEMMA DeletePoolStep ==
    ASSUME LoadBalancerInv, NEW lb \in DOMAIN balancers, NEW pool, DeletePool(lb, pool)
    PROVE  \E b : /\ Rewrites(lb, b) /\ NoMore(b, balancers[lb])
                  /\ \A p, i : Has(balancers[lb], p, i) /\ ~Has(b, p, i) => p = pool
<1>1. minted' = minted
  BY DEF DeletePool
<1>2. PICK old : old = balancers[lb]
  OBVIOUS
<1>3. IsBalancer(old) /\ BalancerOK(old)
  BY <1>2, OldBalancer
<1>4. Drawn \subseteq Drawn'
  BY <1>1, DrawnGrows DEF LoadBalancerInv
<1>5. PICK list : list = BucketDelete(old.pools, pool)
  OBVIOUS
<1>6. /\ DOMAIN list = DOMAIN old.pools \ {pool}
      /\ \A p \in DOMAIN list : list[p] = old.pools[p]
  BY <1>5 DEF BucketDelete
<1>7. /\ DOMAIN list \subseteq Drawn'
      /\ \A p \in DOMAIN list : IsPool(list[p]) /\ PoolOK(list[p])'
  <2>1. DOMAIN list \subseteq Drawn'
    BY <1>3, <1>4, <1>6 DEF BalancerOK
  <2> QED
    BY <1>3, <1>4, <1>6, <2>1, PoolOKNext
<1>8. SetsPools(lb, list)
  BY <1>2, <1>5 DEF SetsPools, DeletePool
<1>9. PICK b : Rewrites(lb, b) /\ b.listeners = old.listeners /\ b.pools = list
  BY <1>1, <1>2, <1>7, <1>8, PoolsStep
<1>10. NoMore(b, old) /\ \A p, i : Has(old, p, i) /\ ~Has(b, p, i) => p = pool
  BY <1>6, <1>9 DEF NoMore, Has
<1> QED
  BY <1>2, <1>9, <1>10

LEMMA DeleteMemberStep ==
    ASSUME LoadBalancerInv, NEW lb \in DOMAIN balancers, NEW pool, NEW member,
           DeleteMember(lb, pool, member)
    PROVE  \E b : /\ Rewrites(lb, b) /\ NoMore(b, balancers[lb])
                  /\ \A p, i : Has(balancers[lb], p, i) /\ ~Has(b, p, i) =>
                                  p = pool /\ i = member
<1>1. minted' = minted /\ pool \in DOMAIN balancers[lb].pools
  BY DEF DeleteMember
<1>2. PICK old : old = balancers[lb]
  OBVIOUS
<1>3. IsBalancer(old) /\ BalancerOK(old)
  BY <1>2, OldBalancer
<1>4. Drawn \subseteq Drawn'
  BY <1>1, DrawnGrows DEF LoadBalancerInv
<1>5. PICK list : list = BucketDelete(old.pools[pool].members, member)
  OBVIOUS
<1>6. DOMAIN list = DOMAIN old.pools[pool].members \ {member}
  BY <1>5 DEF BucketDelete
<1>7. DOMAIN list \subseteq Drawn' /\ \A m \in DOMAIN list : list[m] \in Value
  BY <1>1, <1>2, <1>3, <1>4, <1>5, <1>6 DEF BalancerOK, PoolOK, BucketDelete
<1>8. SetsMembers(lb, pool, list)
  BY <1>2, <1>5 DEF SetsMembers, DeleteMember
<1>9. PICK b : /\ Rewrites(lb, b)
               /\ b.listeners = old.listeners
               /\ DOMAIN b.pools = DOMAIN old.pools
               /\ b.pools[pool].members = list
               /\ \A q \in DOMAIN b.pools : q # pool => b.pools[q] = old.pools[q]
  BY <1>1, <1>2, <1>7, <1>8, MembersStep
<1>10. NoMore(b, old)
  BY <1>1, <1>2, <1>6, <1>9 DEF NoMore, Has
<1>11. \A p, i : Has(old, p, i) /\ ~Has(b, p, i) => p = pool /\ i = member
  BY <1>1, <1>2, <1>6, <1>9 DEF Has
<1> QED
  BY <1>2, <1>9, <1>10, <1>11

Deletes(lb) ==
    \E b : /\ Rewrites(lb, b)
           /\ NoMore(b, balancers[lb])
           /\ \A p, i : Has(balancers[lb], p, i) /\ ~Has(b, p, i) =>
                 DeleteListener(lb, i) \/ DeletePool(lb, p) \/ DeleteMember(lb, p, i)

LEMMA FinishStep ==
    ASSUME LoadBalancerInv, NEW c \in Client, NEW value \in Value, Finish(c, value)
    PROVE  \E lb \in DOMAIN balancers : Finishes(lb)
<1>1. CASE FinishPatchLoadBalancer(c, value)
  BY <1>1, PatchLoadBalancerStep DEF Finishes
<1>2. CASE FinishCreateListener(c, value)
  BY <1>2, CreateListenerStep
<1>3. CASE FinishPatchListener(c, value)
  BY <1>3, PatchListenerStep
<1>4. CASE FinishCreatePool(c, value)
  BY <1>4, CreatePoolStep
<1>5. CASE FinishPatchPool(c, value)
  <2>1. PICK lb, p : lb = pending[c].lb /\ p = pending[c].pool
    OBVIOUS
  <2>2. p # None
    BY <1>5, <2>1 DEF LoadBalancerInv, RequestsOK, PoolRequests, FinishPatchPool, Resumed
  <2>3. lb \in DOMAIN balancers /\ p \in DOMAIN balancers[lb].pools
    BY <1>5, <2>1, <2>2 DEF FinishPatchPool, Reachable
  <2>4. minted' = minted /\ SetsPool(lb, p, value)
    BY <1>5, <2>1 DEF FinishPatchPool, SetsPool
  <2> QED
    BY <2>3, <2>4, PatchPoolStep DEF Finishes
<1>6. CASE FinishCreateMember(c, value)
  <2>1. pending[c].pool # None
    BY <1>6 DEF LoadBalancerInv, RequestsOK, PoolRequests, FinishCreateMember, Resumed
  <2> QED
    BY <1>6, <2>1, CreateMemberStep
<1>7. CASE FinishPatchMember(c, value)
  <2>1. pending[c].pool # None
    BY <1>7 DEF LoadBalancerInv, RequestsOK, PoolRequests, FinishPatchMember, Resumed
  <2> QED
    BY <1>7, <2>1, PatchMemberStep
<1> QED
  BY <1>1, <1>2, <1>3, <1>4, <1>5, <1>6, <1>7 DEF Finish

LEMMA DeleteStep ==
    ASSUME LoadBalancerInv, NEW lb \in DOMAIN balancers, DeleteAny(lb)
    PROVE  DeleteLoadBalancer(lb) \/ Deletes(lb)
<1>1. ASSUME NEW l, DeleteListener(lb, l)
      PROVE  Deletes(lb)
  BY <1>1, DeleteListenerStep DEF Deletes
<1>2. ASSUME NEW p, DeletePool(lb, p)
      PROVE  Deletes(lb)
  BY <1>2, DeletePoolStep DEF Deletes
<1>3. ASSUME NEW p, NEW m, DeleteMember(lb, p, m)
      PROVE  Deletes(lb)
  BY <1>3, DeleteMemberStep DEF Deletes
<1> QED
  BY <1>1, <1>2, <1>3 DEF DeleteAny

\* All that a step can do to the balancers.
LEMMA StepCases ==
    ASSUME LoadBalancerInv, [Next]_vars
    PROVE  \/ UNCHANGED balancers
           \/ balancers' = EmptyBucket /\ Reset
           \/ Restart
           \/ \E value \in Value : CreateLoadBalancer(value)
           \/ \E lb \in DOMAIN balancers :
                 DeleteLoadBalancer(lb) \/ Finishes(lb) \/ Deletes(lb)
<1>1. CASE UNCHANGED vars
  BY <1>1 DEF vars
<1>2. ASSUME NEW lb \in DOMAIN balancers, DeleteAny(lb)
      PROVE  DeleteLoadBalancer(lb) \/ Deletes(lb)
  BY <1>2, DeleteStep
<1>3. ASSUME NEW c \in Client, NEW lb \in DOMAIN balancers, Begin(c, lb)
      PROVE  UNCHANGED balancers
  BY <1>3 DEF Begin
<1>4. ASSUME NEW c \in Client, FinishUnreachable(c)
      PROVE  UNCHANGED balancers
  BY <1>4 DEF FinishUnreachable
<1>5. ASSUME NEW c \in Client, NEW value \in Value, Finish(c, value)
      PROVE  \E lb \in DOMAIN balancers : Finishes(lb)
  BY <1>5, FinishStep
<1>6. ASSUME NEW lb \in activating, Activate(lb)
      PROVE  \/ UNCHANGED balancers
             \/ lb \in DOMAIN balancers /\ Finishes(lb)
  <2>1. CASE lb \in DOMAIN balancers
    BY <1>6, <2>1, ActivateStep DEF Finishes
  <2>2. CASE lb \notin DOMAIN balancers
    BY <1>6, <2>2 DEF Activate
  <2> QED
    BY <2>1, <2>2
<1>7. CASE Reset
  BY <1>7 DEF Reset
<1>8. CASE Restart
  BY <1>8
<1> QED
  BY <1>1, <1>2, <1>3, <1>4, <1>5, <1>6, <1>7, <1>8 DEF Next

\* And to the rest of the state.
LEMMA FinishRest ==
    ASSUME NEW c \in Client, NEW value, Finish(c, value)
    PROVE  /\ minted' = minted \/ minted' = minted + 1
           /\ activating' = activating
           /\ pending' = [pending EXCEPT ![c] = NoRequest]
<1>1. CASE FinishPatchLoadBalancer(c, value)
  BY <1>1 DEF FinishPatchLoadBalancer, Resumed
<1>2. CASE FinishCreateListener(c, value)
  BY <1>2 DEF FinishCreateListener, Resumed, Draw
<1>3. CASE FinishPatchListener(c, value)
  BY <1>3 DEF FinishPatchListener, Resumed
<1>4. CASE FinishCreatePool(c, value)
  BY <1>4 DEF FinishCreatePool, Resumed, Draw
<1>5. CASE FinishPatchPool(c, value)
  BY <1>5 DEF FinishPatchPool, Resumed
<1>6. CASE FinishCreateMember(c, value)
  BY <1>6 DEF FinishCreateMember, Resumed, Draw
<1>7. CASE FinishPatchMember(c, value)
  BY <1>7 DEF FinishPatchMember, Resumed
<1> QED
  BY <1>1, <1>2, <1>3, <1>4, <1>5, <1>6, <1>7 DEF Finish

LEMMA DeleteRest ==
    ASSUME NEW lb, DeleteAny(lb)
    PROVE  UNCHANGED <<activating, pending, minted>>
  BY DEF DeleteAny, DeleteLoadBalancer, DeleteListener, DeletePool, DeleteMember

LEMMA Bookkeeping ==
    ASSUME LoadBalancerInv, [Next]_vars
    PROVE  /\ minted' \in {minted, minted + 1}
           /\ activating' \subseteq activating \cup {minted'}
           /\ activating' \subseteq activating \/ minted' = minted + 1
<1>1. CASE UNCHANGED vars
  BY <1>1 DEF vars
<1>2. ASSUME NEW value \in Value, CreateLoadBalancer(value)
      PROVE  minted' = minted + 1 /\ activating' \subseteq activating \cup {minted'}
  BY <1>2 DEF CreateLoadBalancer, Draw
<1>3. ASSUME NEW lb \in DOMAIN balancers, DeleteAny(lb)
      PROVE  UNCHANGED <<activating, minted>>
  BY <1>3, DeleteRest
<1>4. ASSUME NEW c \in Client, NEW lb \in DOMAIN balancers, Begin(c, lb)
      PROVE  UNCHANGED <<activating, minted>>
  BY <1>4 DEF Begin
<1>5. ASSUME NEW c \in Client, FinishUnreachable(c)
      PROVE  UNCHANGED <<activating, minted>>
  BY <1>5 DEF FinishUnreachable, Resumed
<1>6. ASSUME NEW c \in Client, NEW value \in Value, Finish(c, value)
      PROVE  minted' \in {minted, minted + 1} /\ activating' = activating
  BY <1>6, FinishRest
<1>7. ASSUME NEW lb \in activating, Activate(lb)
      PROVE  minted' = minted /\ activating' \subseteq activating
  BY <1>7 DEF Activate
<1>8. CASE Reset
  BY <1>8 DEF Reset
<1>9. CASE Restart
  BY <1>9 DEF Restart, Started
<1> QED
  BY <1>1, <1>2, <1>3, <1>4, <1>5, <1>6, <1>7, <1>8, <1>9 DEF Next

\* A request in flight is about ids that were drawn.
RefsOK == \A c \in Client : /\ pending[c].lb \in Ref /\ pending[c].pool \in Ref
                            /\ pending[c].item \in Ref

LEMMA BeginRequests ==
    ASSUME LoadBalancerInv, NEW lb \in DOMAIN balancers, NEW r \in Requests(lb)
    PROVE  /\ r.lb \in Ref /\ r.pool \in Ref /\ r.item \in Ref
           /\ r.op \in PoolRequests => r.pool # None
<1>1. PICK old : old = balancers[lb]
  OBVIOUS
<1>2. /\ lb \in Drawn /\ DOMAIN old.listeners \subseteq Drawn
      /\ DOMAIN old.pools \subseteq Drawn /\ None \notin DOMAIN old.pools
      /\ \A p \in DOMAIN old.pools : DOMAIN old.pools[p].members \subseteq Drawn
  BY <1>1, OldBalancer DEF LoadBalancerInv, TypeOK, BalancersOK, BalancerOK, PoolOK
<1>3. CASE r \in {Request(op, lb, None, None) : op \in {"patch_load_balancer",
                                                       "create_listener", "create_pool"}}
  BY <1>2, <1>3 DEF Request, Ref, PoolRequests
<1>4. CASE r \in {Request("patch_listener", lb, None, l) : l \in DOMAIN old.listeners}
  BY <1>2, <1>4 DEF Request, Ref, PoolRequests
<1>5. ASSUME NEW p \in DOMAIN old.pools,
             \/ r = Request("patch_pool", lb, p, None)
             \/ r = Request("create_member", lb, p, None)
             \/ \E m \in DOMAIN old.pools[p].members : r = Request("patch_member", lb, p, m)
      PROVE  /\ r.lb \in Ref /\ r.pool \in Ref /\ r.item \in Ref
             /\ r.op \in PoolRequests => r.pool # None
  BY <1>2, <1>5 DEF Request, Ref
<1> QED
  BY <1>1, <1>3, <1>4, <1>5 DEF Requests

LEMMA RequestsStep ==
    ASSUME LoadBalancerInv, [Next]_vars
    PROVE  RefsOK' /\ RequestsOK'
<1>1. Ref \subseteq Ref'
  BY Bookkeeping, DrawnGrows DEF LoadBalancerInv
<1>2. RefsOK /\ RequestsOK
  BY DEF LoadBalancerInv, TypeOK, RefsOK
<1>3. CASE UNCHANGED pending
  BY <1>1, <1>2, <1>3 DEF RefsOK, RequestsOK
<1>4. None \in Ref' /\ NoRequest.op \notin PoolRequests
      /\ NoRequest.lb = None /\ NoRequest.pool = None /\ NoRequest.item = None
  BY DEF Ref, NoRequest, Request, PoolRequests
<1>5. ASSUME NEW c \in Client, NEW r, pending' = [pending EXCEPT ![c] = r],
             r.lb \in Ref', r.pool \in Ref', r.item \in Ref',
             r.op \in PoolRequests => r.pool # None
      PROVE  RefsOK' /\ RequestsOK'
  BY <1>1, <1>2, <1>5 DEF RefsOK, RequestsOK
<1>6. ASSUME NEW c \in Client, pending' = [pending EXCEPT ![c] = NoRequest]
      PROVE  RefsOK' /\ RequestsOK'
  BY <1>4, <1>5, <1>6
<1>7. ASSUME NEW c \in Client, NEW lb \in DOMAIN balancers, Begin(c, lb)
      PROVE  RefsOK' /\ RequestsOK'
  <2>1. PICK r \in Requests(lb) : pending' = [pending EXCEPT ![c] = r]
    BY <1>7 DEF Begin
  <2>2. /\ r.lb \in Ref' /\ r.pool \in Ref' /\ r.item \in Ref'
        /\ r.op \in PoolRequests => r.pool # None
    BY <1>1, <1>7, BeginRequests
  <2> QED
    BY <1>5, <2>1, <2>2
<1>8. CASE Restart
  BY <1>4, <1>8 DEF Restart, Started, RefsOK, RequestsOK
<1>9. ASSUME NEW c \in Client, FinishUnreachable(c)
      PROVE  RefsOK' /\ RequestsOK'
  BY <1>6, <1>9 DEF FinishUnreachable, Resumed
<1>10. ASSUME NEW c \in Client, NEW value \in Value, Finish(c, value)
       PROVE  RefsOK' /\ RequestsOK'
  BY <1>6, <1>10, FinishRest
<1>11. ASSUME NEW lb \in DOMAIN balancers, DeleteAny(lb)
       PROVE  UNCHANGED pending
  BY <1>11, DeleteRest
<1>12. ASSUME NEW value \in Value, CreateLoadBalancer(value)
       PROVE  UNCHANGED pending
  BY <1>12 DEF CreateLoadBalancer
<1>13. ASSUME NEW lb \in activating, Activate(lb)
       PROVE  UNCHANGED pending
  BY <1>13 DEF Activate
<1>14. CASE Reset
  BY <1>3, <1>14 DEF Reset
<1>15. CASE UNCHANGED vars
  BY <1>3, <1>15 DEF vars
<1> QED
  BY <1>3, <1>7, <1>8, <1>9, <1>10, <1>11, <1>12, <1>13, <1>14, <1>15 DEF Next

-----------------------------------------------------------------------------
BalancersShaped == /\ DOMAIN balancers \subseteq Drawn
                   /\ \A lb \in DOMAIN balancers :
                         BalancerOK(balancers[lb]) /\ IsBalancer(balancers[lb])

\* A file that a process can start from.
FileShaped(from) ==
    /\ from.namespace \in {"absent", "restored"}
    /\ BalancersOK(from.balancers)
    /\ \A lb \in DOMAIN from.balancers : IsBalancer(from.balancers[lb])

LEMMA BalancerOKGrows ==
    ASSUME NEW b, BalancerOK(b), Drawn \subseteq Drawn'
    PROVE  BalancerOK(b)'
  BY DEF BalancerOK, PoolOK

LEMMA FileShapedGrows ==
    ASSUME NEW from, FileShaped(from), Drawn \subseteq Drawn'
    PROVE  FileShaped(from)'
<1>1. \A lb \in DOMAIN from.balancers : BalancerOK(from.balancers[lb])'
  BY DEF FileShaped, BalancersOK, BalancerOK, PoolOK
<1> QED
  BY <1>1 DEF FileShaped, BalancersOK, IsBalancer

\* The files there are: the last one, none, and the one that the store would write.
LEMMA StartedFrom ==
    ASSUME LoadBalancerInv, Restart
    PROVE  \E from : FileShaped(from) /\ Started(from)
<1>1. FileShaped(snapshot)
  BY DEF LoadBalancerInv, TypeOK, Shaped, FileShaped
<1>2. FileShaped(NoSnapshot)
  BY DEF NoSnapshot, FileShaped, BalancersOK, EmptyBucket
<1>3. FileShaped(Saved)
  <2>1. CASE namespace = "absent"
    BY <1>2, <2>1 DEF Saved
  <2>2. CASE namespace # "absent"
    BY <2>2 DEF Saved, LoadBalancerInv, TypeOK, Shaped, FileShaped
  <2> QED
    BY <2>1, <2>2
<1> QED
  BY <1>1, <1>2, <1>3 DEF Restart

\* Only a start writes what is in the file.
LEMMA FileStep ==
    ASSUME LoadBalancerInv, [Next]_vars
    PROVE  namespace' \in {"absent", "put", "restored"} /\ FileShaped(snapshot)'
<1>1. namespace \in {"absent", "put", "restored"} /\ FileShaped(snapshot)
  BY DEF LoadBalancerInv, TypeOK, Shaped, FileShaped
<1>2. Drawn \subseteq Drawn'
  BY Bookkeeping, DrawnGrows DEF LoadBalancerInv
<1>3. ASSUME namespace' \in {"absent", "put", namespace}, snapshot' = snapshot
      PROVE  namespace' \in {"absent", "put", "restored"} /\ FileShaped(snapshot)'
  <2>1. PICK from : from = snapshot
    OBVIOUS
  <2>2. FileShaped(from)'
    BY <1>1, <1>2, <2>1, FileShapedGrows
  <2> QED
    BY <1>1, <1>3, <2>1, <2>2 DEF FileShaped
<1>4. CASE Restart
  <2>1. PICK from : FileShaped(from) /\ Started(from)
    BY <1>4, StartedFrom
  <2>2. FileShaped(from)' /\ namespace' = from.namespace /\ snapshot' = from
    BY <1>2, <2>1, FileShapedGrows DEF Started
  <2> QED
    BY <2>1, <2>2 DEF FileShaped
<1>5. ASSUME NEW value \in Value, CreateLoadBalancer(value)
      PROVE  namespace' \in {"put", namespace} /\ snapshot' = snapshot
  BY <1>5 DEF CreateLoadBalancer
<1>6. ASSUME NEW lb, DeleteAny(lb)
      PROVE  UNCHANGED file
  BY <1>6 DEF DeleteAny, DeleteLoadBalancer, DeleteListener, DeletePool, DeleteMember
<1>7. ASSUME NEW c \in Client, NEW lb \in DOMAIN balancers, Begin(c, lb)
      PROVE  UNCHANGED file
  BY <1>7 DEF Begin
<1>8. ASSUME NEW c \in Client, FinishUnreachable(c)
      PROVE  UNCHANGED file
  BY <1>8 DEF FinishUnreachable, Resumed
<1>9. ASSUME NEW c \in Client, NEW value \in Value, Finish(c, value)
      PROVE  UNCHANGED file
  BY <1>9 DEF Finish, FinishPatchLoadBalancer, FinishCreateListener, FinishPatchListener,
              FinishCreatePool, FinishPatchPool, FinishCreateMember, FinishPatchMember, Resumed
<1>10. ASSUME NEW lb \in activating, Activate(lb)
       PROVE  UNCHANGED file
  BY <1>10 DEF Activate
<1>11. CASE Reset
  BY <1>3, <1>11 DEF Reset
<1>12. CASE UNCHANGED vars
  BY <1>3, <1>12 DEF vars
<1> QED
  BY <1>3, <1>4, <1>5, <1>6, <1>7, <1>8, <1>9, <1>10, <1>11, <1>12 DEF Next, file

LEMMA Rewritten ==
    ASSUME BalancersShaped, Drawn \subseteq Drawn', NEW lb, NEW b, Rewrites(lb, b)
    PROVE  BalancersShaped'
<1>1. DOMAIN balancers' \subseteq Drawn'
  BY DEF BalancersShaped, Rewrites
<1>2. ASSUME NEW k \in DOMAIN balancers'
      PROVE  (BalancerOK(balancers[k]) /\ IsBalancer(balancers[k]))'
  <2>1. PICK n : n = balancers'[k]
    OBVIOUS
  <2>2. BalancerOK(n)' /\ IsBalancer(n)
    <3>1. CASE k = lb
      BY <2>1, <3>1 DEF Rewrites
    <3>2. CASE k # lb
      <4>1. k \in DOMAIN balancers /\ n = balancers[k]
        BY <1>2, <2>1, <3>2 DEF Rewrites
      <4>2. BalancerOK(n) /\ IsBalancer(n)
        BY <4>1 DEF BalancersShaped
      <4> QED
        BY <4>2, BalancerOKGrows
    <3> QED
      BY <3>1, <3>2
  <2> QED
    BY <2>1, <2>2 DEF BalancerOK, IsBalancer
<1> QED
  BY <1>1, <1>2 DEF BalancersShaped

LEMMA BalancersStep ==
    ASSUME LoadBalancerInv, [Next]_vars
    PROVE  BalancersShaped'
<1>1. BalancersShaped
  BY DEF LoadBalancerInv, TypeOK, BalancersOK, Shaped, BalancersShaped
<1>2. minted' \in {minted, minted + 1} /\ Drawn \subseteq Drawn'
  BY Bookkeeping, DrawnGrows DEF LoadBalancerInv
<1>3. CASE UNCHANGED balancers
  BY <1>1, <1>2, <1>3 DEF BalancersShaped, BalancerOK, PoolOK, IsBalancer
<1>4. CASE balancers' = EmptyBucket
  BY <1>4 DEF BalancersShaped, EmptyBucket
<1>5. ASSUME NEW lb \in DOMAIN balancers, Finishes(lb) \/ Deletes(lb)
      PROVE  BalancersShaped'
  BY <1>1, <1>2, <1>5, Rewritten DEF Finishes, Deletes
<1>6. ASSUME NEW lb \in DOMAIN balancers, DeleteLoadBalancer(lb)
      PROVE  BalancersShaped'
  <2>1. /\ DOMAIN balancers' \subseteq DOMAIN balancers
        /\ \A k \in DOMAIN balancers' : balancers'[k] = balancers[k]
    BY <1>6 DEF DeleteLoadBalancer, BucketDelete
  <2> QED
    BY <1>1, <1>2, <2>1 DEF BalancersShaped, BalancerOK, PoolOK, IsBalancer
<1>7. ASSUME NEW value \in Value, CreateLoadBalancer(value)
      PROVE  BalancersShaped'
  <2>1. PICK b : b = NewBalancer(value)
    OBVIOUS
  <2>2. minted' = minted + 1 /\ minted + 1 \in Drawn'
    BY <1>2, <1>7, DrawnGrows DEF CreateLoadBalancer, Draw, LoadBalancerInv
  <2>3. /\ DOMAIN balancers' = DOMAIN balancers \cup {minted + 1}
        /\ \A k \in DOMAIN balancers' : balancers'[k] = b \/
              (k \in DOMAIN balancers /\ balancers'[k] = balancers[k])
    BY <1>7, <2>1 DEF CreateLoadBalancer, BucketPut
  <2>4. BalancerOK(b)' /\ IsBalancer(b)
    BY <2>1 DEF NewBalancer, BalancerOK, IsBalancer, Balancer, EmptyBucket
  <2>5. ASSUME NEW k \in DOMAIN balancers'
        PROVE  (BalancerOK(balancers[k]) /\ IsBalancer(balancers[k]))'
    <3>1. PICK n : n = balancers'[k]
      OBVIOUS
    <3>2. BalancerOK(n)' /\ IsBalancer(n)
      <4>1. CASE n = b
        BY <2>4, <4>1
      <4>2. CASE k \in DOMAIN balancers /\ n = balancers[k]
        <5>1. BalancerOK(n) /\ IsBalancer(n)
          BY <1>1, <4>2 DEF BalancersShaped
        <5> QED
          BY <1>2, <5>1, BalancerOKGrows
      <4> QED
        BY <2>3, <2>5, <3>1, <4>1, <4>2
    <3> QED
      BY <3>1, <3>2 DEF BalancerOK, IsBalancer
  <2>6. DOMAIN balancers' \subseteq Drawn'
    BY <1>1, <1>2, <2>2, <2>3 DEF BalancersShaped
  <2> QED
    BY <2>5, <2>6 DEF BalancersShaped
<1>8. CASE Restart
  <2>1. PICK from : FileShaped(from) /\ Started(from)
    BY <1>8, StartedFrom
  <2>2. FileShaped(from)' /\ balancers' = from.balancers
    BY <1>2, <2>1, FileShapedGrows DEF Started
  <2> QED
    BY <2>2 DEF FileShaped, BalancersOK, BalancersShaped
<1> QED
  BY <1>3, <1>4, <1>5, <1>6, <1>7, <1>8, StepCases

LEMMA InvInit == Init => LoadBalancerInv
<1>1. ASSUME Init
      PROVE  LoadBalancerInv
  BY <1>1 DEF Init, LoadBalancerInv, TypeOK, BalancersOK, Shaped, RequestsOK, NoSnapshot,
              EmptyBucket, NoRequest, Request, PoolRequests, Ref, None
<1> QED
  BY <1>1

LEMMA InvStep ==
    ASSUME LoadBalancerInv, [Next]_vars
    PROVE  LoadBalancerInv'
<1>1. minted' \in {minted, minted + 1} /\ Drawn \subseteq Drawn' /\ minted' \in Nat
  BY Bookkeeping, DrawnGrows DEF LoadBalancerInv
<1>2. /\ BalancersShaped' /\ RefsOK' /\ RequestsOK'
      /\ namespace' \in {"absent", "put", "restored"} /\ FileShaped(snapshot)'
  BY BalancersStep, RequestsStep, FileStep
<1>3. activating' \subseteq Drawn'
  <2>1. CASE activating' \subseteq activating
    BY <1>1, <2>1 DEF LoadBalancerInv, TypeOK
  <2>2. CASE minted' = minted + 1
    <3>1. minted' \in Drawn'
      BY <2>2, DrawnGrows DEF LoadBalancerInv
    <3> QED
      BY <1>1, <3>1, Bookkeeping DEF LoadBalancerInv, TypeOK
  <2> QED
    BY <2>1, <2>2, Bookkeeping
<1>4. TypeOK'
  BY <1>1, <1>2, <1>3 DEF TypeOK, BalancersOK, BalancersShaped, FileShaped, RefsOK
<1>5. Shaped'
  BY <1>2 DEF BalancersShaped, FileShaped, Shaped
<1> QED
  BY <1>2, <1>4, <1>5 DEF LoadBalancerInv

LEMMA InvAlways == Spec => []LoadBalancerInv
<1>1. LoadBalancerInv /\ [Next]_vars => LoadBalancerInv'
  BY InvStep
<1> QED
  BY <1>1, InvInit, PTL DEF Spec

-----------------------------------------------------------------------------
\* Balancers, and what requests and tasks hold of them, have their types, and only ids
\* that were drawn: for any number of clients and any values.
THEOREM TypeCorrect == Spec => []TypeOK
<1>1. LoadBalancerInv => TypeOK
  BY DEF LoadBalancerInv
<1> QED
  BY <1>1, InvAlways, PTL

\* What a step that rewrites one balancer does to all that is held.
LEMMA RewrittenHeld ==
    ASSUME NEW lb, NEW b, Rewrites(lb, b), NEW x
    PROVE  /\ x \in Held' \ Held =>
                \E p, i : x = <<lb, p, i>> /\ Has(b, p, i) /\ ~Has(balancers[lb], p, i)
           /\ x \in Held \ Held' =>
                \E p, i : x = <<lb, p, i>> /\ ~Has(b, p, i) /\ Has(balancers[lb], p, i)
<1>1. ASSUME x \in Held', x \notin Held
      PROVE  \E p, i : x = <<lb, p, i>> /\ Has(b, p, i) /\ ~Has(balancers[lb], p, i)
  <2>1. PICK k \in DOMAIN balancers' : \E p, i : x = <<k, p, i>> /\ Has(balancers'[k], p, i)
    BY <1>1, HeldIsNext
  <2>2. PICK p, i : x = <<k, p, i>> /\ Has(balancers'[k], p, i)
    BY <2>1
  <2>3. k \in DOMAIN balancers /\ ~Has(balancers[k], p, i)
    BY <1>1, <2>1, <2>2, HeldIs DEF Rewrites
  <2>4. k = lb /\ Has(b, p, i)
    BY <2>2, <2>3 DEF Rewrites
  <2> QED
    BY <2>2, <2>3, <2>4
<1>2. ASSUME x \in Held, x \notin Held'
      PROVE  \E p, i : x = <<lb, p, i>> /\ ~Has(b, p, i) /\ Has(balancers[lb], p, i)
  <2>1. PICK k \in DOMAIN balancers : \E p, i : x = <<k, p, i>> /\ Has(balancers[k], p, i)
    BY <1>2, HeldIs
  <2>2. PICK p, i : x = <<k, p, i>> /\ Has(balancers[k], p, i)
    BY <2>1
  <2>3. k \in DOMAIN balancers' /\ ~Has(balancers'[k], p, i)
    BY <1>2, <2>1, <2>2, HeldIsNext DEF Rewrites
  <2>4. k = lb /\ ~Has(b, p, i)
    BY <2>2, <2>3 DEF Rewrites
  <2> QED
    BY <2>2, <2>4
<1> QED
  BY <1>1, <1>2

NothingReturnsStep ==
    \A x \in Held' \ Held :
       Restart \/ (minted' > minted /\ minted' \in {x[2], x[3]})

LEMMA ReturnStep ==
    ASSUME LoadBalancerInv, [Next]_vars
    PROVE  NothingReturnsStep
<1> SUFFICES ASSUME NEW x \in Held' \ Held, ~Restart
             PROVE  minted' > minted /\ minted' \in {x[2], x[3]}
  BY DEF NothingReturnsStep
<1>1. minted \in Nat
  BY DEF LoadBalancerInv, TypeOK
<1>2. ASSUME NEW k, k \in DOMAIN balancers', k \in DOMAIN balancers,
             balancers'[k] = balancers[k], NEW p, NEW i, x = <<k, p, i>>
      PROVE  ~Has(balancers'[k], p, i)
  BY <1>2, HeldIs
<1>3. PICK k \in DOMAIN balancers' : \E p, i : x = <<k, p, i>> /\ Has(balancers'[k], p, i)
  BY HeldIsNext
<1>4. CASE UNCHANGED balancers
  BY <1>2, <1>3, <1>4
<1>5. CASE balancers' = EmptyBucket
  BY <1>3, <1>5 DEF EmptyBucket
<1>6. ASSUME NEW value \in Value, CreateLoadBalancer(value)
      PROVE  FALSE
  <2>1. CASE k = minted + 1
    <3>1. balancers'[k] = NewBalancer(value)
      BY <1>6, <2>1 DEF CreateLoadBalancer, BucketPut
    <3> QED
      BY <1>3, <3>1 DEF NewBalancer, Has, EmptyBucket
  <2>2. CASE k # minted + 1
    <3>1. k \in DOMAIN balancers /\ balancers'[k] = balancers[k]
      BY <1>3, <1>6, <2>2 DEF CreateLoadBalancer, BucketPut
    <3> QED
      BY <1>2, <1>3, <3>1
  <2> QED
    BY <2>1, <2>2
<1>7. ASSUME NEW lb \in DOMAIN balancers, DeleteLoadBalancer(lb)
      PROVE  FALSE
  <2>1. k \in DOMAIN balancers /\ balancers'[k] = balancers[k]
    BY <1>3, <1>7 DEF DeleteLoadBalancer, BucketDelete
  <2> QED
    BY <1>2, <1>3, <2>1
<1>8. ASSUME NEW lb \in DOMAIN balancers, Deletes(lb)
      PROVE  FALSE
  <2>1. PICK b : Rewrites(lb, b) /\ NoMore(b, balancers[lb])
    BY <1>8 DEF Deletes
  <2>2. PICK p, i : Has(b, p, i) /\ ~Has(balancers[lb], p, i)
    BY <2>1, RewrittenHeld
  <2> QED
    BY <2>1, <2>2 DEF NoMore
<1>9. ASSUME NEW lb \in DOMAIN balancers, Finishes(lb)
      PROVE  minted' > minted /\ minted' \in {x[2], x[3]}
  <2>1. PICK b : /\ Rewrites(lb, b)
                 /\ \/ NoMore(b, balancers[lb])
                    \/ \E p, i : /\ OneMore(b, balancers[lb], p, i)
                                 /\ minted' = minted + 1 /\ minted' \in {p, i}
    BY <1>9 DEF Finishes
  <2>2. PICK q, j : x = <<lb, q, j>> /\ Has(b, q, j) /\ ~Has(balancers[lb], q, j)
    BY <2>1, RewrittenHeld
  <2>3. PICK p, i : /\ OneMore(b, balancers[lb], p, i)
                    /\ minted' = minted + 1 /\ minted' \in {p, i}
    BY <2>1, <2>2 DEF NoMore
  <2>4. q = p /\ j = i
    BY <2>2, <2>3 DEF OneMore
  <2>5. x[2] = p /\ x[3] = i
    BY <2>2, <2>4
  <2> QED
    BY <1>1, <2>3, <2>5
<1> QED
  BY <1>4, <1>5, <1>6, <1>7, <1>8, <1>9, StepCases

\* No handler brings back what another one deleted while it awaited its body: what is
\* new in a balancer carries the uuid that this step drew, or was in the file that a
\* process started from.
THEOREM NothingReturnsCorrect == Spec => NothingReturns
<1>1. LoadBalancerInv /\ [Next]_vars => [NothingReturnsStep]_vars
  BY ReturnStep
<1> QED
  BY <1>1, InvAlways, PTL DEF Spec, NothingReturns, NothingReturnsStep

NothingLostStep ==
    \A x \in Held \ Held' :
       \/ Reset \/ Restart
       \/ DeleteLoadBalancer(x[1])
       \/ DeleteListener(x[1], x[3])
       \/ DeletePool(x[1], x[2])
       \/ DeleteMember(x[1], x[2], x[3])

LEMMA LostStep ==
    ASSUME LoadBalancerInv, [Next]_vars
    PROVE  NothingLostStep
<1> DEFINE Explained(x) == \/ Reset \/ Restart
                           \/ DeleteLoadBalancer(x[1])
                           \/ DeleteListener(x[1], x[3])
                           \/ DeletePool(x[1], x[2])
                           \/ DeleteMember(x[1], x[2], x[3])
<1> SUFFICES ASSUME NEW x \in Held \ Held'
             PROVE  Explained(x)
  BY DEF NothingLostStep
<1>1. ASSUME NEW k, k \in DOMAIN balancers', k \in DOMAIN balancers,
             balancers'[k] = balancers[k], NEW p, NEW i, x = <<k, p, i>>
      PROVE  ~Has(balancers[k], p, i)
  BY <1>1, HeldIsNext
<1>2. PICK k, p, i : /\ k \in DOMAIN balancers
                     /\ x = <<k, p, i>> /\ Has(balancers[k], p, i)
  BY HeldIs
<1>3. CASE UNCHANGED balancers
  BY <1>1, <1>2, <1>3
<1>4. ASSUME NEW value \in Value, CreateLoadBalancer(value)
      PROVE  FALSE
  <2>1. k # minted + 1
    BY <1>2 DEF LoadBalancerInv, TypeOK, BalancersOK, Drawn, Id
  <2>2. k \in DOMAIN balancers' /\ balancers'[k] = balancers[k]
    BY <1>2, <1>4, <2>1 DEF CreateLoadBalancer, BucketPut
  <2> QED
    BY <1>1, <1>2, <2>2
<1>5. ASSUME NEW lb \in DOMAIN balancers, DeleteLoadBalancer(lb)
      PROVE  DeleteLoadBalancer(x[1])
  <2>1. CASE k = lb
    BY <1>2, <1>5, <2>1
  <2>2. CASE k # lb
    <3>1. k \in DOMAIN balancers' /\ balancers'[k] = balancers[k]
      BY <1>2, <1>5, <2>2 DEF DeleteLoadBalancer, BucketDelete
    <3> QED
      BY <1>1, <1>2, <3>1
  <2> QED
    BY <2>1, <2>2
<1>6. ASSUME NEW lb \in DOMAIN balancers, Finishes(lb)
      PROVE  FALSE
  <2>1. PICK b : Rewrites(lb, b) /\ Keeps(b, balancers[lb])
    BY <1>6 DEF Finishes
  <2>2. PICK q, j : ~Has(b, q, j) /\ Has(balancers[lb], q, j)
    BY <2>1, RewrittenHeld
  <2> QED
    BY <2>1, <2>2 DEF Keeps
<1>7. ASSUME NEW lb \in DOMAIN balancers, Deletes(lb)
      PROVE  Explained(x)
  <2>1. PICK b : /\ Rewrites(lb, b)
                 /\ \A q, j : Has(balancers[lb], q, j) /\ ~Has(b, q, j) =>
                       \/ DeleteListener(lb, j)
                       \/ DeletePool(lb, q)
                       \/ DeleteMember(lb, q, j)
    BY <1>7 DEF Deletes
  <2>2. PICK q, j : x = <<lb, q, j>> /\ ~Has(b, q, j) /\ Has(balancers[lb], q, j)
    BY <2>1, RewrittenHeld
  <2>3. x[1] = lb /\ x[2] = q /\ x[3] = j
    BY <2>2
  <2> QED
    BY <2>1, <2>2, <2>3
<1>8. CASE Reset \/ Restart
  BY <1>8
<1> QED
  BY <1>3, <1>4, <1>5, <1>6, <1>7, <1>8, StepCases

\* No handler loses what another one created: what is gone was deleted by its path, or
\* with what holds it, or in a reset or a restart.
THEOREM NothingLostCorrect == Spec => NothingLost
<1>1. LoadBalancerInv /\ [Next]_vars => [NothingLostStep]_vars
  BY LostStep
<1> QED
  BY <1>1, InvAlways, PTL DEF Spec, NothingLost, NothingLostStep
-----------------------------------------------------------------------------
\* What a path finds in a balancer, the balancer itself included, and where two
\* balancers disagree about it.
There(b, p, i) == (p = None /\ i = None) \/ Has(b, p, i)

Differs(n, b, p, i) ==
    There(n, p, i) /\ There(b, p, i) /\ ValueIn(n, p, i) # ValueIn(b, p, i)

\* The path of a request that is a PATCH ends where the resource is.
PathsOK ==
    \A c \in Client :
       /\ pending[c].op = "patch_load_balancer" => pending[c].pool = None /\ pending[c].item = None
       /\ pending[c].op = "patch_listener" => pending[c].pool = None
       /\ pending[c].op = "patch_pool" => pending[c].item = None

LEMMA PathsInit == Init => PathsOK
  BY DEF Init, PathsOK, NoRequest, Request

LEMMA RequestPaths ==
    ASSUME NEW lb \in DOMAIN balancers, NEW r \in Requests(lb)
    PROVE  /\ r.op = "patch_load_balancer" => r.pool = None /\ r.item = None
           /\ r.op = "patch_listener" => r.pool = None
           /\ r.op = "patch_pool" => r.item = None
<1>1. CASE r \in {Request(op, lb, None, None) : op \in {"patch_load_balancer",
                                                       "create_listener", "create_pool"}}
  BY <1>1 DEF Request
<1>2. CASE \E l : r = Request("patch_listener", lb, None, l)
  BY <1>2 DEF Request
<1>3. CASE \E p, m : \/ r = Request("patch_pool", lb, p, None)
                     \/ r = Request("create_member", lb, p, None)
                     \/ r = Request("patch_member", lb, p, m)
  BY <1>3 DEF Request
<1> QED
  BY <1>1, <1>2, <1>3 DEF Requests

LEMMA PathsStep ==
    ASSUME LoadBalancerInv, PathsOK, [Next]_vars
    PROVE  PathsOK'
<1>1. CASE UNCHANGED pending
  BY <1>1 DEF PathsOK
<1>2. DOMAIN pending = Client
  BY DEF LoadBalancerInv, RequestsOK
<1>3. ASSUME NEW c \in Client, pending' = [pending EXCEPT ![c] = NoRequest]
      PROVE  PathsOK'
  BY <1>2, <1>3 DEF PathsOK, NoRequest, Request
<1>4. ASSUME NEW c \in Client, NEW lb \in DOMAIN balancers, Begin(c, lb)
      PROVE  PathsOK'
  <2>1. PICK r \in Requests(lb) : pending' = [pending EXCEPT ![c] = r]
    BY <1>4 DEF Begin
  <2>2. /\ r.op = "patch_load_balancer" => r.pool = None /\ r.item = None
        /\ r.op = "patch_listener" => r.pool = None
        /\ r.op = "patch_pool" => r.item = None
    BY RequestPaths
  <2> QED
    BY <1>2, <2>1, <2>2 DEF PathsOK
<1>5. CASE Restart
  BY <1>5 DEF Restart, Started, PathsOK, NoRequest, Request
<1>6. ASSUME NEW c \in Client, FinishUnreachable(c)
      PROVE  PathsOK'
  BY <1>3, <1>6 DEF FinishUnreachable, Resumed
<1>7. ASSUME NEW c \in Client, NEW value \in Value, Finish(c, value)
      PROVE  PathsOK'
  BY <1>3, <1>7, FinishRest
<1>8. ASSUME NEW lb \in DOMAIN balancers, DeleteAny(lb)
      PROVE  UNCHANGED pending
  BY <1>8, DeleteRest
<1>9. CASE \/ \E value \in Value : CreateLoadBalancer(value)
           \/ \E lb \in activating : Activate(lb)
           \/ Reset \/ UNCHANGED vars
  BY <1>1, <1>9 DEF CreateLoadBalancer, Activate, Reset, vars
<1> QED
  BY <1>1, <1>4, <1>5, <1>6, <1>7, <1>8, <1>9 DEF Next

\* A path that a step leaves, with another value, is in the one balancer it rewrites.
LEMMA StoredIs ==
    ASSUME NEW x \in Stored
    PROVE  \E k \in DOMAIN balancers : \E p, i : x = <<k, p, i>> /\ There(balancers[k], p, i)
<1>1. CASE x \in Held
  BY <1>1, HeldIs DEF There
<1>2. CASE x \in {<<k, None, None>> : k \in DOMAIN balancers}
  BY <1>2 DEF There
<1> QED
  BY <1>1, <1>2 DEF Stored

LEMMA StoredIsNext ==
    ASSUME NEW x \in Stored'
    PROVE  \E k \in DOMAIN balancers' : \E p, i : x = <<k, p, i>> /\ There(balancers'[k], p, i)
<1>1. CASE x \in Held'
  BY <1>1, HeldIsNext DEF There
<1>2. CASE x \in {<<k, None, None>> : k \in DOMAIN balancers'}
  BY <1>2 DEF There
<1> QED
  BY <1>1, <1>2 DEF Stored

LEMMA ChangedPath ==
    ASSUME NEW x \in Stored \cap Stored', ValueAt(x)' # ValueAt(x)
    PROVE  \E k, p, i : /\ k \in DOMAIN balancers /\ k \in DOMAIN balancers'
                        /\ x = <<k, p, i>> /\ Differs(balancers'[k], balancers[k], p, i)
<1>1. PICK k, p, i : /\ k \in DOMAIN balancers
                     /\ x = <<k, p, i>> /\ There(balancers[k], p, i)
  BY StoredIs
<1>2. PICK l, q, j : /\ l \in DOMAIN balancers'
                     /\ x = <<l, q, j>> /\ There(balancers'[l], q, j)
  BY StoredIsNext
<1>3. l = k /\ q = p /\ j = i
  BY <1>1, <1>2
<1>4. x[1] = k /\ x[2] = p /\ x[3] = i
  BY <1>1
<1>5. ValueIn(balancers'[k], p, i) # ValueIn(balancers[k], p, i)
  BY <1>4 DEF ValueAt
<1> QED
  BY <1>1, <1>2, <1>3, <1>5 DEF Differs

\* Where two balancers disagree that have the same fields but one.
LEMMA DiffersInValue ==
    ASSUME NEW n, NEW b, None \notin DOMAIN b.pools,
           n.listeners = b.listeners, n.pools = b.pools,
           NEW p, NEW i, Differs(n, b, p, i)
    PROVE  p = None /\ i = None /\ n.value # b.value
  BY DEF Differs, There, Has, ValueIn

LEMMA DiffersInListeners ==
    ASSUME NEW n, NEW b, None \notin DOMAIN b.pools, None \notin DOMAIN b.listeners,
           n.value = b.value, n.pools = b.pools,
           NEW p, NEW i, Differs(n, b, p, i)
    PROVE  /\ p = None
           /\ i \in DOMAIN n.listeners /\ i \in DOMAIN b.listeners
           /\ n.listeners[i] # b.listeners[i]
  BY DEF Differs, There, Has, ValueIn

LEMMA DiffersInPools ==
    ASSUME NEW n, NEW b, None \notin DOMAIN b.pools, None \notin DOMAIN n.pools,
           n.value = b.value, n.listeners = b.listeners,
           NEW p, NEW i, Differs(n, b, p, i)
    PROVE  /\ p \in DOMAIN n.pools /\ p \in DOMAIN b.pools
           /\ n.pools[p] # b.pools[p]
           /\ \/ i = None /\ n.pools[p].value # b.pools[p].value
              \/ /\ i \in DOMAIN n.pools[p].members /\ i \in DOMAIN b.pools[p].members
                 /\ n.pools[p].members[i] # b.pools[p].members[i]
  BY DEF Differs, There, Has, ValueIn
LEMMA Same ==
    ASSUME NEW n, NEW b, n = b, NEW p, NEW i, Differs(n, b, p, i)
    PROVE  FALSE
  BY DEF Differs

SetsValue(lb, x) == balancers' = [balancers EXCEPT ![lb].value = x]

SetsStatus(lb, x) == balancers' = [balancers EXCEPT ![lb].provisioning_status = x]

\* What an assignment to a field of one balancer makes of the balancers.
LEMMA Assigned ==
    ASSUME LoadBalancerInv, NEW lb \in DOMAIN balancers, NEW x, NEW b, b = balancers[lb]
    PROVE  /\ SetsValue(lb, x) =>
                 /\ \A k \in DOMAIN balancers : k # lb => balancers'[k] = balancers[k]
                 /\ balancers'[lb] = Balancer(x, b.provisioning_status, b.listeners, b.pools)
           /\ SetsStatus(lb, x) =>
                 /\ \A k \in DOMAIN balancers : k # lb => balancers'[k] = balancers[k]
                 /\ balancers'[lb] = Balancer(b.value, x, b.listeners, b.pools)
           /\ SetsListeners(lb, x) =>
                 /\ \A k \in DOMAIN balancers : k # lb => balancers'[k] = balancers[k]
                 /\ balancers'[lb] = WithListeners(b, x)
           /\ SetsPools(lb, x) =>
                 /\ \A k \in DOMAIN balancers : k # lb => balancers'[k] = balancers[k]
                 /\ balancers'[lb] = WithPools(b, x)
<1>1. /\ [b EXCEPT !.value = x] = Balancer(x, b.provisioning_status, b.listeners, b.pools)
      /\ [b EXCEPT !.provisioning_status = x] = Balancer(b.value, x, b.listeners, b.pools)
      /\ [b EXCEPT !.listeners = x] = WithListeners(b, x)
      /\ [b EXCEPT !.pools = x] = WithPools(b, x)
  BY OldBalancer, FieldSet
<1>2. ASSUME SetsValue(lb, x)
      PROVE  /\ \A k \in DOMAIN balancers : k # lb => balancers'[k] = balancers[k]
             /\ balancers'[lb] = [b EXCEPT !.value = x]
  BY <1>2 DEF SetsValue
<1>3. ASSUME SetsStatus(lb, x)
      PROVE  /\ \A k \in DOMAIN balancers : k # lb => balancers'[k] = balancers[k]
             /\ balancers'[lb] = [b EXCEPT !.provisioning_status = x]
  BY <1>3 DEF SetsStatus
<1>4. ASSUME SetsListeners(lb, x)
      PROVE  /\ \A k \in DOMAIN balancers : k # lb => balancers'[k] = balancers[k]
             /\ balancers'[lb] = [b EXCEPT !.listeners = x]
  BY <1>4 DEF SetsListeners
<1>5. ASSUME SetsPools(lb, x)
      PROVE  /\ \A k \in DOMAIN balancers : k # lb => balancers'[k] = balancers[k]
             /\ balancers'[lb] = [b EXCEPT !.pools = x]
  BY <1>5 DEF SetsPools
<1> QED
  BY <1>1, <1>2, <1>3, <1>4, <1>5

LEMMA AssignedPool ==
    ASSUME LoadBalancerInv, NEW lb \in DOMAIN balancers, NEW b, b = balancers[lb],
           NEW p \in DOMAIN b.pools, NEW x
    PROVE  /\ SetsPool(lb, p, x) =>
                 /\ \A k \in DOMAIN balancers : k # lb => balancers'[k] = balancers[k]
                 /\ balancers'[lb] = WithPool(b, p, x, b.pools[p].members)
           /\ SetsMembers(lb, p, x) =>
                 /\ \A k \in DOMAIN balancers : k # lb => balancers'[k] = balancers[k]
                 /\ balancers'[lb] = WithPool(b, p, b.pools[p].value, x)
<1>1. IsBalancer(b)
  BY OldBalancer
<1>2. ASSUME SetsPool(lb, p, x)
      PROVE  /\ \A k \in DOMAIN balancers : k # lb => balancers'[k] = balancers[k]
             /\ balancers'[lb] = WithPool(b, p, x, b.pools[p].members)
  <2>1. PICK n : n = [b EXCEPT !.pools[p].value = x]
    OBVIOUS
  <2>2. balancers'[lb] = n /\ \A k \in DOMAIN balancers : k # lb => balancers'[k] = balancers[k]
    BY <1>2, <2>1 DEF SetsPool
  <2>3. n = WithPool(b, p, x, b.pools[p].members)
    BY <1>1, <2>1, PoolFieldSet
  <2> QED
    BY <2>2, <2>3
<1>3. ASSUME SetsMembers(lb, p, x)
      PROVE  /\ \A k \in DOMAIN balancers : k # lb => balancers'[k] = balancers[k]
             /\ balancers'[lb] = WithPool(b, p, b.pools[p].value, x)
  <2>1. PICK n : n = [b EXCEPT !.pools[p].members = x]
    OBVIOUS
  <2>2. balancers'[lb] = n /\ \A k \in DOMAIN balancers : k # lb => balancers'[k] = balancers[k]
    BY <1>3, <2>1 DEF SetsMembers
  <2>3. n = WithPool(b, p, b.pools[p].value, x)
    BY <1>1, <2>1, PoolFieldSet
  <2> QED
    BY <2>2, <2>3
<1> QED
  BY <1>2, <1>3

\* Where a balancer differs from what it was, once one of its lists was rewritten, or one
\* of its pools.
LEMMA DiffersListed ==
    ASSUME NEW b, IsBalancer(b), None \notin DOMAIN b.pools, None \notin DOMAIN b.listeners,
           NEW list, NEW p, NEW i, Differs(WithListeners(b, list), b, p, i)
    PROVE  /\ p = None /\ i \in DOMAIN list /\ i \in DOMAIN b.listeners
           /\ list[i] # b.listeners[i]
<1>1. PICK n : n = WithListeners(b, list)
  OBVIOUS
<1>2. n.value = b.value /\ n.pools = b.pools /\ n.listeners = list
  BY <1>1 DEF WithListeners, Balancer
<1> QED
  BY <1>1, <1>2, DiffersInListeners

LEMMA DiffersPooled ==
    ASSUME NEW b, IsBalancer(b), None \notin DOMAIN b.pools,
           NEW list, None \notin DOMAIN list, NEW p, NEW i, Differs(WithPools(b, list), b, p, i)
    PROVE  p \in DOMAIN list /\ p \in DOMAIN b.pools /\ list[p] # b.pools[p]
<1>1. PICK n : n = WithPools(b, list)
  OBVIOUS
<1>2. n.value = b.value /\ n.pools = list /\ n.listeners = b.listeners
  BY <1>1 DEF WithPools, Balancer
<1> QED
  BY <1>1, <1>2, DiffersInPools

LEMMA DiffersInPool ==
    ASSUME NEW b, IsBalancer(b), None \notin DOMAIN b.pools, NEW q \in DOMAIN b.pools,
           NEW value, NEW members, NEW p, NEW i, Differs(WithPool(b, q, value, members), b, p, i)
    PROVE  /\ p = q
           /\ \/ i = None /\ value # b.pools[q].value
              \/ /\ i \in DOMAIN members /\ i \in DOMAIN b.pools[q].members
                 /\ members[i] # b.pools[q].members[i]
<1>1. PICK n : n = WithPool(b, q, value, members)
  OBVIOUS
<1>2. PICK pool : pool = [value |-> value, members |-> members]
  OBVIOUS
<1>3. PICK list : list = [b.pools EXCEPT ![q] = pool]
  OBVIOUS
<1>4. n = WithPools(b, list)
  BY <1>1, <1>2, <1>3 DEF WithPool
<1>5. n.value = b.value /\ n.pools = list /\ n.listeners = b.listeners
  BY <1>4 DEF WithPools, Balancer
<1>6. /\ DOMAIN list = DOMAIN b.pools /\ list[q] = pool
      /\ \A r \in DOMAIN list : r # q => list[r] = b.pools[r]
  BY <1>3
<1>7. /\ p \in DOMAIN list /\ list[p] # b.pools[p]
      /\ \/ i = None /\ list[p].value # b.pools[p].value
         \/ /\ i \in DOMAIN list[p].members /\ i \in DOMAIN b.pools[p].members
            /\ list[p].members[i] # b.pools[p].members[i]
  BY <1>1, <1>5, <1>6, DiffersInPools
<1>8. p = q
  BY <1>6, <1>7
<1> QED
  BY <1>2, <1>6, <1>7, <1>8

\* Lists with one id more or less, or another object for an id.
LEMMA BucketValues ==
    ASSUME NEW list, NEW id, NEW object, NEW x \in DOMAIN list
    PROVE  /\ x # id => BucketPut(list, id, object)[x] = list[x]
           /\ x # id => BucketDelete(list, id)[x] = list[x]
           /\ x # id => Replaced(list, id, object)[x] = list[x]
  BY DEF BucketPut, BucketDelete, Replaced
\* The balancer a path leads into, and the disagreement about it.
DiffersAt(k, p, i) == /\ k \in DOMAIN balancers /\ k \in DOMAIN balancers'
                      /\ Differs(balancers'[k], balancers[k], p, i)

LEMMA Unwritten ==
    ASSUME NEW k, NEW p, NEW i, DiffersAt(k, p, i), balancers'[k] = balancers[k]
    PROVE  FALSE
  BY Same DEF DiffersAt

LEMMA NoneIsNoId ==
    ASSUME LoadBalancerInv, NEW lb \in DOMAIN balancers, NEW b, b = balancers[lb]
    PROVE  /\ IsBalancer(b) /\ None \notin DOMAIN b.pools /\ None \notin DOMAIN b.listeners
           /\ \A p \in DOMAIN b.pools : None \notin DOMAIN b.pools[p].members
           /\ minted + 1 \notin DOMAIN b.pools /\ minted + 1 \notin DOMAIN b.listeners
           /\ \A p \in DOMAIN b.pools : minted + 1 \notin DOMAIN b.pools[p].members
           /\ minted + 1 # None
<1>1. IsBalancer(b) /\ BalancerOK(b)
  BY OldBalancer
<1>2. minted + 1 \notin Drawn /\ None \notin Drawn /\ minted + 1 # None
  BY DEF LoadBalancerInv, TypeOK, Drawn, Id, None
<1> QED
  BY <1>1, <1>2 DEF BalancerOK, PoolOK

\* A DELETE changes nothing that it leaves.
LEMMA DeleteChanges ==
    ASSUME LoadBalancerInv, NEW lb \in DOMAIN balancers, DeleteAny(lb),
           NEW k, NEW p, NEW i, DiffersAt(k, p, i)
    PROVE  FALSE
<1>1. PICK b : b = balancers[lb]
  OBVIOUS
<1>2. /\ IsBalancer(b) /\ None \notin DOMAIN b.pools /\ None \notin DOMAIN b.listeners
  BY <1>1, NoneIsNoId
<1>3. CASE DeleteLoadBalancer(lb)
  <2>1. balancers'[k] = balancers[k]
    BY <1>3 DEF DeleteLoadBalancer, BucketDelete, DiffersAt
  <2> QED
    BY <2>1, Unwritten
<1>4. ASSUME NEW l, DeleteListener(lb, l)
      PROVE  FALSE
  <2>1. PICK list : list = BucketDelete(b.listeners, l)
    OBVIOUS
  <2>2. SetsListeners(lb, list)
    BY <1>1, <1>4, <2>1 DEF DeleteListener, SetsListeners
  <2>3. /\ balancers'[lb] = WithListeners(b, list)
        /\ \A m \in DOMAIN balancers : m # lb => balancers'[m] = balancers[m]
    BY <1>1, <2>2, Assigned
  <2>4. k = lb /\ Differs(WithListeners(b, list), b, p, i)
    BY <1>1, <2>3, Unwritten DEF DiffersAt
  <2>5. i \in DOMAIN list /\ i \in DOMAIN b.listeners /\ list[i] # b.listeners[i]
    BY <1>2, <2>4, DiffersListed
  <2> QED
    BY <2>1, <2>5 DEF BucketDelete
<1>5. ASSUME NEW q, DeletePool(lb, q)
      PROVE  FALSE
  <2>1. PICK list : list = BucketDelete(b.pools, q)
    OBVIOUS
  <2>2. SetsPools(lb, list)
    BY <1>1, <1>5, <2>1 DEF DeletePool, SetsPools
  <2>3. /\ balancers'[lb] = WithPools(b, list)
        /\ \A m \in DOMAIN balancers : m # lb => balancers'[m] = balancers[m]
    BY <1>1, <2>2, Assigned
  <2>4. k = lb /\ Differs(WithPools(b, list), b, p, i)
    BY <1>1, <2>3, Unwritten DEF DiffersAt
  <2>5. None \notin DOMAIN list
    BY <1>2, <2>1 DEF BucketDelete
  <2>6. p \in DOMAIN list /\ p \in DOMAIN b.pools /\ list[p] # b.pools[p]
    BY <1>2, <2>4, <2>5, DiffersPooled
  <2> QED
    BY <2>1, <2>6 DEF BucketDelete
<1>6. ASSUME NEW q, NEW m, DeleteMember(lb, q, m)
      PROVE  FALSE
  <2>1. PICK list : list = BucketDelete(b.pools[q].members, m)
    OBVIOUS
  <2>2. q \in DOMAIN b.pools /\ SetsMembers(lb, q, list)
    BY <1>1, <1>6, <2>1 DEF DeleteMember, SetsMembers
  <2>3. /\ balancers'[lb] = WithPool(b, q, b.pools[q].value, list)
        /\ \A l \in DOMAIN balancers : l # lb => balancers'[l] = balancers[l]
    BY <1>1, <2>2, AssignedPool
  <2>4. k = lb /\ Differs(WithPool(b, q, b.pools[q].value, list), b, p, i)
    BY <1>1, <2>3, Unwritten DEF DiffersAt
  <2>5. /\ i \in DOMAIN list /\ i \in DOMAIN b.pools[q].members
        /\ list[i] # b.pools[q].members[i]
    BY <1>2, <2>2, <2>4, DiffersInPool
  <2> QED
    BY <2>1, <2>5 DEF BucketDelete
<1> QED
  BY <1>3, <1>4, <1>5, <1>6 DEF DeleteAny

\* A POST changes nothing that was there.
LEMMA CreateChanges ==
    ASSUME LoadBalancerInv, NEW c \in Client, NEW value,
           \/ FinishCreateListener(c, value) \/ FinishCreatePool(c, value)
           \/ FinishCreateMember(c, value) /\ pending[c].pool # None,
           NEW k, NEW p, NEW i, DiffersAt(k, p, i)
    PROVE  FALSE
<1>1. PICK lb, b : lb = pending[c].lb /\ b = balancers[lb]
  OBVIOUS
<1>2. lb \in DOMAIN balancers
  BY <1>1 DEF FinishCreateListener, FinishCreatePool, FinishCreateMember, Reachable
<1>3. /\ IsBalancer(b) /\ None \notin DOMAIN b.pools /\ None \notin DOMAIN b.listeners
      /\ minted + 1 \notin DOMAIN b.pools /\ minted + 1 \notin DOMAIN b.listeners
      /\ \A q \in DOMAIN b.pools : minted + 1 \notin DOMAIN b.pools[q].members
      /\ minted + 1 # None
  BY <1>1, <1>2, NoneIsNoId
<1>4. CASE FinishCreateListener(c, value)
  <2>1. PICK list : list = BucketPut(b.listeners, minted + 1, value)
    OBVIOUS
  <2>2. SetsListeners(lb, list)
    BY <1>1, <1>4, <2>1 DEF FinishCreateListener, SetsListeners
  <2>3. /\ balancers'[lb] = WithListeners(b, list)
        /\ \A m \in DOMAIN balancers : m # lb => balancers'[m] = balancers[m]
    BY <1>1, <1>2, <2>2, Assigned
  <2>4. k = lb /\ Differs(WithListeners(b, list), b, p, i)
    BY <1>1, <2>3, Unwritten DEF DiffersAt
  <2>5. i \in DOMAIN b.listeners /\ list[i] # b.listeners[i]
    BY <1>3, <2>4, DiffersListed
  <2> QED
    BY <1>3, <2>1, <2>5, BucketValues
<1>5. CASE FinishCreatePool(c, value)
  <2>1. PICK list : list = BucketPut(b.pools, minted + 1, NewPool(value))
    OBVIOUS
  <2>2. SetsPools(lb, list)
    BY <1>1, <1>5, <2>1 DEF FinishCreatePool, SetsPools
  <2>3. /\ balancers'[lb] = WithPools(b, list)
        /\ \A m \in DOMAIN balancers : m # lb => balancers'[m] = balancers[m]
    BY <1>1, <1>2, <2>2, Assigned
  <2>4. k = lb /\ Differs(WithPools(b, list), b, p, i)
    BY <1>1, <2>3, Unwritten DEF DiffersAt
  <2>5. None \notin DOMAIN list
    BY <1>3, <2>1 DEF BucketPut
  <2>6. p \in DOMAIN b.pools /\ list[p] # b.pools[p]
    BY <1>3, <2>4, <2>5, DiffersPooled
  <2> QED
    BY <1>3, <2>1, <2>6, BucketValues
<1>6. CASE FinishCreateMember(c, value) /\ pending[c].pool # None
  <2>1. PICK q : q = pending[c].pool
    OBVIOUS
  <2>2. q \in DOMAIN b.pools
    BY <1>1, <1>6, <2>1 DEF FinishCreateMember, Reachable
  <2>3. PICK list : list = BucketPut(b.pools[q].members, minted + 1, value)
    OBVIOUS
  <2>4. SetsMembers(lb, q, list)
    BY <1>1, <1>6, <2>1, <2>3 DEF FinishCreateMember, SetsMembers
  <2>5. /\ balancers'[lb] = WithPool(b, q, b.pools[q].value, list)
        /\ \A m \in DOMAIN balancers : m # lb => balancers'[m] = balancers[m]
    BY <1>1, <1>2, <2>2, <2>4, AssignedPool
  <2>6. k = lb /\ Differs(WithPool(b, q, b.pools[q].value, list), b, p, i)
    BY <1>1, <2>5, Unwritten DEF DiffersAt
  <2>7. i \in DOMAIN b.pools[q].members /\ list[i] # b.pools[q].members[i]
    BY <1>3, <2>2, <2>6, DiffersInPool
  <2> QED
    BY <1>3, <2>2, <2>3, <2>7, BucketValues
<1> QED
  BY <1>4, <1>5, <1>6
\* A PATCH changes what it names.
LEMMA PatchBalancerChanges ==
    ASSUME LoadBalancerInv, PathsOK, NEW c \in Client, NEW value,
           FinishPatchLoadBalancer(c, value),
           NEW k, NEW p, NEW i, DiffersAt(k, p, i)
    PROVE  <<k, p, i>> = <<pending[c].lb, pending[c].pool, pending[c].item>>
<1>1. PICK lb, b : lb = pending[c].lb /\ b = balancers[lb]
  OBVIOUS
<1>2. lb \in DOMAIN balancers
  BY <1>1 DEF FinishPatchLoadBalancer, Reachable
<1>3. None \notin DOMAIN b.pools
  BY <1>1, <1>2, NoneIsNoId
<1>4. PICK n : n = Balancer(value, b.provisioning_status, b.listeners, b.pools)
  OBVIOUS
<1>5. SetsValue(lb, value)
  BY <1>1 DEF FinishPatchLoadBalancer, SetsValue
<1>6. /\ balancers'[lb] = n
      /\ \A m \in DOMAIN balancers : m # lb => balancers'[m] = balancers[m]
  BY <1>1, <1>2, <1>4, <1>5, Assigned
<1>7. k = lb /\ Differs(n, b, p, i)
  BY <1>1, <1>6, Unwritten DEF DiffersAt
<1>8. n.listeners = b.listeners /\ n.pools = b.pools
  BY <1>4 DEF Balancer
<1>9. p = None /\ i = None
  BY <1>3, <1>7, <1>8, DiffersInValue
<1>10. pending[c].pool = None /\ pending[c].item = None
  BY DEF FinishPatchLoadBalancer, Resumed, PathsOK
<1> QED
  BY <1>1, <1>7, <1>9, <1>10

LEMMA PatchListenerChanges ==
    ASSUME LoadBalancerInv, PathsOK, NEW c \in Client, NEW value,
           FinishPatchListener(c, value),
           NEW k, NEW p, NEW i, DiffersAt(k, p, i)
    PROVE  <<k, p, i>> = <<pending[c].lb, pending[c].pool, pending[c].item>>
<1>1. PICK lb, b : lb = pending[c].lb /\ b = balancers[lb]
  OBVIOUS
<1>2. lb \in DOMAIN balancers
  BY <1>1 DEF FinishPatchListener, Reachable
<1>3. IsBalancer(b) /\ None \notin DOMAIN b.pools /\ None \notin DOMAIN b.listeners
  BY <1>1, <1>2, NoneIsNoId
<1>4. PICK list : list = Replaced(b.listeners, pending[c].item, value)
  OBVIOUS
<1>5. SetsListeners(lb, list)
  BY <1>1, <1>4 DEF FinishPatchListener, SetsListeners
<1>6. /\ balancers'[lb] = WithListeners(b, list)
      /\ \A m \in DOMAIN balancers : m # lb => balancers'[m] = balancers[m]
  BY <1>1, <1>2, <1>5, Assigned
<1>7. k = lb /\ Differs(WithListeners(b, list), b, p, i)
  BY <1>1, <1>6, Unwritten DEF DiffersAt
<1>8. p = None /\ i \in DOMAIN b.listeners /\ list[i] # b.listeners[i]
  BY <1>3, <1>7, DiffersListed
<1>9. i = pending[c].item
  BY <1>4, <1>8, BucketValues
<1>10. pending[c].pool = None
  BY DEF FinishPatchListener, Resumed, PathsOK
<1> QED
  BY <1>1, <1>7, <1>8, <1>9, <1>10

LEMMA PatchPoolChanges ==
    ASSUME LoadBalancerInv, PathsOK, NEW c \in Client, NEW value,
           FinishPatchPool(c, value), pending[c].pool # None,
           NEW k, NEW p, NEW i, DiffersAt(k, p, i)
    PROVE  <<k, p, i>> = <<pending[c].lb, pending[c].pool, pending[c].item>>
<1>1. PICK lb, b, q : lb = pending[c].lb /\ b = balancers[lb] /\ q = pending[c].pool
  OBVIOUS
<1>2. lb \in DOMAIN balancers /\ q \in DOMAIN b.pools
  BY <1>1 DEF FinishPatchPool, Reachable
<1>3. IsBalancer(b) /\ None \notin DOMAIN b.pools
  BY <1>1, <1>2, NoneIsNoId
<1>4. SetsPool(lb, q, value)
  BY <1>1 DEF FinishPatchPool, SetsPool
<1>5. PICK members : members = b.pools[q].members
  OBVIOUS
<1>6. /\ balancers'[lb] = WithPool(b, q, value, members)
      /\ \A m \in DOMAIN balancers : m # lb => balancers'[m] = balancers[m]
  BY <1>1, <1>2, <1>4, <1>5, AssignedPool
<1>7. k = lb /\ Differs(WithPool(b, q, value, members), b, p, i)
  BY <1>1, <1>6, Unwritten DEF DiffersAt
<1>8. p = q /\ i = None
  BY <1>2, <1>3, <1>5, <1>7, DiffersInPool
<1>9. pending[c].item = None
  BY DEF FinishPatchPool, Resumed, PathsOK
<1> QED
  BY <1>1, <1>7, <1>8, <1>9

LEMMA PatchMemberChanges ==
    ASSUME LoadBalancerInv, PathsOK, NEW c \in Client, NEW value,
           FinishPatchMember(c, value), pending[c].pool # None,
           NEW k, NEW p, NEW i, DiffersAt(k, p, i)
    PROVE  <<k, p, i>> = <<pending[c].lb, pending[c].pool, pending[c].item>>
<1>1. PICK lb, b, q : lb = pending[c].lb /\ b = balancers[lb] /\ q = pending[c].pool
  OBVIOUS
<1>2. lb \in DOMAIN balancers /\ q \in DOMAIN b.pools
  BY <1>1 DEF FinishPatchMember, Reachable
<1>3. IsBalancer(b) /\ None \notin DOMAIN b.pools
  BY <1>1, <1>2, NoneIsNoId
<1>4. PICK list : list = Replaced(b.pools[q].members, pending[c].item, value)
  OBVIOUS
<1>5. SetsMembers(lb, q, list)
  BY <1>1, <1>4 DEF FinishPatchMember, SetsMembers
<1>6. /\ balancers'[lb] = WithPool(b, q, b.pools[q].value, list)
      /\ \A m \in DOMAIN balancers : m # lb => balancers'[m] = balancers[m]
  BY <1>1, <1>2, <1>5, AssignedPool
<1>7. k = lb /\ Differs(WithPool(b, q, b.pools[q].value, list), b, p, i)
  BY <1>1, <1>6, Unwritten DEF DiffersAt
<1>8. /\ p = q /\ i \in DOMAIN b.pools[q].members /\ list[i] # b.pools[q].members[i]
  BY <1>2, <1>3, <1>7, DiffersInPool
<1>9. i = pending[c].item
  BY <1>4, <1>8, BucketValues
<1> QED
  BY <1>1, <1>7, <1>8, <1>9

NoChangeUndoneStep ==
    \A x \in Stored \cap Stored' : ValueAt(x)' # ValueAt(x) => Patched(x) \/ Restart

LEMMA ChangeStep ==
    ASSUME LoadBalancerInv, PathsOK, [Next]_vars
    PROVE  NoChangeUndoneStep
<1> SUFFICES ASSUME NEW x \in Stored \cap Stored', ValueAt(x)' # ValueAt(x), ~Restart
             PROVE  Patched(x)
  BY DEF NoChangeUndoneStep
<1>1. PICK k, p, i : x = <<k, p, i>> /\ DiffersAt(k, p, i)
  BY ChangedPath DEF DiffersAt
<1>2. CASE UNCHANGED balancers
  BY <1>1, <1>2, Unwritten
<1>3. CASE balancers' = EmptyBucket
  BY <1>1, <1>3 DEF DiffersAt, EmptyBucket
<1>4. CASE Reset \/ UNCHANGED vars
  BY <1>2, <1>3, <1>4 DEF Reset, vars
<1>5. ASSUME NEW value \in Value, CreateLoadBalancer(value)
      PROVE  FALSE
  <2>1. k # minted + 1
    BY <1>1 DEF DiffersAt, LoadBalancerInv, TypeOK, BalancersOK, Drawn, Id
  <2>2. balancers'[k] = balancers[k]
    BY <1>1, <1>5, <2>1 DEF CreateLoadBalancer, BucketPut, DiffersAt
  <2> QED
    BY <1>1, <2>2, Unwritten
<1>6. ASSUME NEW lb \in DOMAIN balancers, DeleteAny(lb)
      PROVE  FALSE
  BY <1>1, <1>6, DeleteChanges
<1>7. CASE \/ \E c \in Client, lb \in DOMAIN balancers : Begin(c, lb)
           \/ \E c \in Client : FinishUnreachable(c)
  BY <1>2, <1>7 DEF Begin, FinishUnreachable
<1>8. ASSUME NEW lb \in activating, Activate(lb)
      PROVE  FALSE
  <2>1. CASE lb \notin DOMAIN balancers
    BY <1>1, <1>8, <2>1, Unwritten DEF Activate
  <2>2. CASE lb \in DOMAIN balancers
    <3>1. PICK b : b = balancers[lb]
      OBVIOUS
    <3>2. PICK n : n = Balancer(b.value, "active", b.listeners, b.pools)
      OBVIOUS
    <3>3. SetsStatus(lb, "active")
      BY <1>8, <2>2 DEF Activate, SetsStatus
    <3>4. /\ balancers'[lb] = n
          /\ \A m \in DOMAIN balancers : m # lb => balancers'[m] = balancers[m]
      BY <2>2, <3>1, <3>2, <3>3, Assigned
    <3>5. Differs(n, b, p, i)
      BY <1>1, <3>1, <3>4, Unwritten DEF DiffersAt
    <3>6. n.value = b.value /\ n.listeners = b.listeners /\ n.pools = b.pools
      BY <3>2 DEF Balancer
    <3>7. None \notin DOMAIN b.pools
      BY <2>2, <3>1, NoneIsNoId
    <3> QED
      BY <3>5, <3>6, <3>7, DiffersInValue
  <2> QED
    BY <2>1, <2>2
<1>9. ASSUME NEW c \in Client, NEW value \in Value, Finish(c, value)
      PROVE  Patched(x)
  <2>1. /\ pending[c].op \in PoolRequests => pending[c].pool # None
        /\ DOMAIN pending = Client
    BY DEF LoadBalancerInv, RequestsOK
  <2>2. pending'[c] = NoRequest
    BY <1>9, <2>1, FinishRest
  <2>3. ASSUME pending[c].op \in Patches,
               <<k, p, i>> = <<pending[c].lb, pending[c].pool, pending[c].item>>
        PROVE  Patched(x)
    BY <1>1, <2>2, <2>3 DEF Patched
  <2>4. CASE FinishPatchLoadBalancer(c, value)
    <3>1. pending[c].op \in Patches
      BY <2>4 DEF FinishPatchLoadBalancer, Resumed, Patches
    <3> QED
      BY <1>1, <2>3, <2>4, <3>1, PatchBalancerChanges
  <2>5. CASE FinishPatchListener(c, value)
    <3>1. pending[c].op \in Patches
      BY <2>5 DEF FinishPatchListener, Resumed, Patches
    <3> QED
      BY <1>1, <2>3, <2>5, <3>1, PatchListenerChanges
  <2>6. CASE FinishPatchPool(c, value)
    <3>1. pending[c].op \in Patches /\ pending[c].op \in PoolRequests
      BY <2>6 DEF FinishPatchPool, Resumed, Patches, PoolRequests
    <3> QED
      BY <1>1, <2>1, <2>3, <2>6, <3>1, PatchPoolChanges
  <2>7. CASE FinishPatchMember(c, value)
    <3>1. pending[c].op \in Patches /\ pending[c].op \in PoolRequests
      BY <2>7 DEF FinishPatchMember, Resumed, Patches, PoolRequests
    <3> QED
      BY <1>1, <2>1, <2>3, <2>7, <3>1, PatchMemberChanges
  <2>8. CASE FinishCreateListener(c, value) \/ FinishCreatePool(c, value)
    BY <1>1, <2>8, CreateChanges
  <2>9. CASE FinishCreateMember(c, value)
    <3>1. pending[c].op \in PoolRequests
      BY <2>9 DEF FinishCreateMember, Resumed, PoolRequests
    <3> QED
      BY <1>1, <2>1, <2>9, <3>1, CreateChanges
  <2> QED
    BY <1>9, <2>4, <2>5, <2>6, <2>7, <2>8, <2>9 DEF Finish
<1> QED
  BY <1>4, <1>5, <1>6, <1>7, <1>8, <1>9 DEF Next

\* No handler undoes what another one set: whatever it held across its await, what it
\* changes in what stays is the resource that its PATCH names.  A restart may.
THEOREM NoChangeUndoneCorrect == Spec => NoChangeUndone
<1>1. LoadBalancerInv /\ PathsOK /\ [Next]_vars => PathsOK'
  BY PathsStep
<1>2. LoadBalancerInv /\ PathsOK /\ [Next]_vars => [NoChangeUndoneStep]_vars
  BY ChangeStep
<1> QED
  BY <1>1, <1>2, PathsInit, InvAlways, PTL DEF Spec, NoChangeUndone, NoChangeUndoneStep
=============================================================================
