--------------------------- MODULE GatewayProofs ---------------------------
(***************************************************************************)
(* The gateway for any requests, principals and replicas: it only uses the *)
(* limiter as the limiter is meant to be used, so the theorems about the   *)
(* limiter hold of it; and each forwarded request was paid for, which      *)
(* carries the window bound of the bucket to the requests that reach the   *)
(* MCP app.                                                                *)
(***************************************************************************)
EXTENDS Gateway, RedisLimiterProofs, FiniteSetTheorems, WellFoundedInduction

\* The replicas whose limiter call has taken units for p.
Paid(p) == {r \in Replicas : call[r].pc = "ran" /\ call[r].p = p /\ call[r].ok}

CountersOK ==
    /\ forwarded \in [Principals -> Nat]
    /\ failed \in [Principals -> Nat]

GatewayInv == CountersOK /\ ChargedOnce

\* Every step of the gateway is a step of the limiter, or leaves it alone.
THEOREM GatewayImplementsRedis == GatewaySpec => RedisSpec
<1>1. GatewayInit => RedisInit
  BY DEF GatewayInit
<1>2. [GatewayNext]_gatewayVars => [RedisNext]_redisVars
  <2>1. ASSUME NEW r \in Replicas, NEW q \in Requests, Accept(r, q) PROVE RedisNext
    BY <2>1, GatewayAssumption DEF Accept, RedisNext
  <2>2. ASSUME NEW r \in Replicas, NEW q \in Requests, Refuse(r, q)
        PROVE  UNCHANGED redisVars
    BY <2>2 DEF Refuse
  <2>3. ASSUME NEW r \in Replicas, Public(r) PROVE UNCHANGED redisVars
    BY <2>3 DEF Public, gatewayVars
  <2>4. ASSUME NEW r \in Replicas, Script(r) \/ Limit(r) \/ Forward(r) \/ LimiterError(r)
        PROVE  RedisNext
    BY <2>4 DEF Limit, Forward, LimiterError, RedisNext
  <2>5. RedisTick => RedisNext
    BY DEF RedisNext
  <2>6. UNCHANGED gatewayVars => UNCHANGED redisVars
    BY DEF gatewayVars
  <2> QED BY <2>1, <2>2, <2>3, <2>4, <2>5, <2>6 DEF GatewayNext
<1> QED BY <1>1, <1>2, PTL DEF GatewaySpec, RedisSpec

-----------------------------------------------------------------------------

LEMMA Multiples ==
    ASSUME NEW n \in Nat, NEW m \in Nat
    PROVE  /\ n <= m => Cost * n <= Cost * m
           /\ Cost * (n + 1) = Cost * n + Cost
           /\ Cost * n \in Nat
BY BucketAssumption

\* The shape of a call the script has answered.
LEMMA RanCall ==
    ASSUME RedisTypeOK, NEW r \in Replicas, call[r].pc = "ran"
    PROVE  call[r].p \in Principals /\ call[r].ok \in BOOLEAN
<1>1. call[r] \in Calls
  BY DEF RedisTypeOK
<1>2. call[r] # IdleCall
  BY DEF IdleCall
<1>3. call[r] \notin [pc : {"sent"}, p : Principals, now : Readings]
  OBVIOUS
<1>4. call[r] \in [pc : {"ran"}, p : Principals, ok : BOOLEAN]
  BY <1>1, <1>2, <1>3 DEF Calls
<1> QED BY <1>4

LEMMA PaidFinite ==
    ASSUME NEW p
    PROVE  /\ IsFiniteSet(Paid(p)) /\ IsFiniteSet(Paid(p)')
           /\ InHand(p) = Cardinality(Paid(p)) /\ InHand(p)' = Cardinality(Paid(p)')
           /\ InHand(p) \in Nat /\ InHand(p)' \in Nat
<1>1. IsFiniteSet(Paid(p)) /\ IsFiniteSet(Paid(p)')
  BY GatewayAssumption, FS_Subset DEF Paid
<1>2. InHand(p) = Cardinality(Paid(p)) /\ InHand(p)' = Cardinality(Paid(p)')
  BY DEF Paid, InHand
<1> QED BY <1>1, <1>2, FS_CardinalityType

\* A call that begins holds no units; one that ends gives up what it held.
LEMMA PaidAtCall ==
    ASSUME RedisTypeOK, NEW r \in Replicas, NEW q, Call(r, q), NEW p
    PROVE  Paid(p)' = Paid(p)
BY DEF Call, IdleCall, Paid, RedisTypeOK

LEMMA PaidAtEnd ==
    ASSUME RedisTypeOK, NEW r \in Replicas, Return(r) \/ Fail(r), NEW p
    PROVE  Paid(p)' = Paid(p) \ {r}
BY DEF Return, Fail, IdleCall, Paid, RedisTypeOK

\* The script charges exactly the call it grants.
LEMMA PaidAtScript ==
    ASSUME RedisTypeOK, NEW r \in Replicas, Script(r), NEW p \in Principals
    PROVE  \/ /\ Paid(p)' = Paid(p)
              /\ used'[p][0] = used[p][0]
           \/ /\ r \notin Paid(p)
              /\ Paid(p)' = Paid(p) \cup {r}
              /\ used'[p][0] = used[p][0] + Cost
<1> DEFINE q == call[r].p
           t == LuaRefill(q, call[r].now)
<1>1. q \in Principals
  BY SentCall DEF Script
<1>2. /\ call[r].pc = "sent"
      /\ call' = [call EXCEPT ![r] = [pc |-> "ran", p |-> q, ok |-> t >= Cost]]
      /\ used' = IF t >= Cost THEN Granted(q) ELSE used
  BY DEF Script, Take
<1> HIDE DEF t, q
<1>3. r \notin Paid(p)
  BY <1>2 DEF Paid
<1>4. CASE p = q /\ t >= Cost
  <2>1. Paid(p)' = Paid(p) \cup {r}
    BY <1>2, <1>4 DEF Paid, RedisTypeOK
  <2>2. 0 \in Times /\ 0 <= clock
    BY BucketAssumption DEF RedisTypeOK, BucketTypeOK, Times
  <2>3. used'[p][0] = used[p][0] + Cost
    BY <1>1, <1>2, <1>4, <2>2 DEF Granted, RedisTypeOK, BucketTypeOK
  <2> QED BY <1>3, <2>1, <2>3
<1>5. CASE ~(p = q /\ t >= Cost)
  <2>1. Paid(p)' = Paid(p)
    BY <1>2, <1>5 DEF Paid, RedisTypeOK
  <2>2. used'[p][0] = used[p][0]
    BY <1>1, <1>2, <1>5 DEF Granted, RedisTypeOK, BucketTypeOK
  <2> QED BY <2>1, <2>2
<1> QED BY <1>4, <1>5

Accounts == [used : Nat, forwarded : Nat, hand : Nat, failed : Nat]

\* The account of p: units used, requests forwarded, calls in hand and failed.
Account(p) == [used |-> used[p][0], forwarded |-> forwarded[p], hand |-> InHand(p),
               failed |-> failed[p]]

\* What ChargedOnce says of an account.
Covered(a) ==
    /\ Cost * (a.forwarded + a.hand) <= a.used
    /\ a.used <= Cost * (a.forwarded + a.hand + a.failed)

\* How a step may change one: not at all, by a grant, by forwarding a request, or
\* by the failure of a call that held units or not.
Moved(a, b) ==
    \/ /\ b.used = a.used /\ b.forwarded = a.forwarded /\ b.hand = a.hand
       /\ b.failed = a.failed
    \/ /\ b.used = a.used + Cost /\ b.forwarded = a.forwarded /\ b.hand = a.hand + 1
       /\ b.failed = a.failed
    \/ /\ b.used = a.used /\ b.forwarded = a.forwarded + 1 /\ b.hand + 1 = a.hand
       /\ b.failed = a.failed
    \/ /\ b.used = a.used /\ b.forwarded = a.forwarded
       /\ b.hand <= a.hand /\ a.hand <= b.hand + 1
       /\ b.failed = a.failed + 1

LEMMA Balance ==
    ASSUME NEW a \in Accounts, NEW b \in Accounts, Covered(a), Moved(a, b)
    PROVE  Covered(b)
<1> DEFINE U == a.used   n == a.forwarded + a.hand
           m == a.forwarded + a.hand + a.failed
           U2 == b.used  n2 == b.forwarded + b.hand
           m2 == b.forwarded + b.hand + b.failed
<1>1. /\ U \in Nat /\ n \in Nat /\ m \in Nat
      /\ U2 \in Nat /\ n2 \in Nat /\ m2 \in Nat
  BY DEF Accounts
<1>2. \/ U2 = U + Cost /\ n2 = n + 1 /\ m2 = m + 1
      \/ U2 = U /\ n2 <= n /\ m <= m2
  BY DEF Accounts, Moved
<1>3. Cost * n <= U /\ U <= Cost * m
  BY DEF Covered
<1>4. Cost \in Nat
  BY BucketAssumption
<1> HIDE DEF U, U2, n, m, n2, m2
<1>5. ASSUME U2 = U + Cost /\ n2 = n + 1 /\ m2 = m + 1
      PROVE  Cost * n2 <= U2 /\ U2 <= Cost * m2
  <2>1. Cost * n2 = Cost * n + Cost /\ Cost * m2 = Cost * m + Cost
    BY <1>1, <1>5, Multiples
  <2>2. Cost * n \in Nat /\ Cost * m \in Nat
    BY <1>1, Multiples
  <2> DEFINE cn == Cost * n  cm == Cost * m
  <2>3. cn \in Nat /\ cm \in Nat /\ cn <= U /\ U <= cm /\ U \in Nat
    BY <1>1, <1>3, <2>2
  <2> HIDE DEF cn, cm
  <2>4. cn + Cost <= U2 /\ U2 <= cm + Cost
    BY <1>1, <1>4, <1>5, <2>3
  <2> QED BY <2>1, <2>4 DEF cn, cm
<1>6. ASSUME U2 = U /\ n2 <= n /\ m <= m2
      PROVE  Cost * n2 <= U2 /\ U2 <= Cost * m2
  <2>1. Cost * n2 <= Cost * n /\ Cost * m <= Cost * m2
    BY <1>1, <1>6, Multiples
  <2>2. Cost * n \in Nat /\ Cost * m \in Nat /\ Cost * n2 \in Nat /\ Cost * m2 \in Nat
    BY <1>1, Multiples
  <2> QED BY <1>1, <1>3, <1>6, <2>1, <2>2
<1>7. Cost * n2 <= U2 /\ U2 <= Cost * m2
  BY <1>2, <1>5, <1>6
<1> QED BY <1>7 DEF Covered, U2, n2, m2

LEMMA GatewayInitInv == ASSUME GatewayInit PROVE GatewayInv
<1>1. CountersOK
  BY DEF GatewayInit, CountersOK
<1>2. ASSUME NEW p \in Principals
      PROVE  forwarded[p] = 0 /\ failed[p] = 0 /\ used[p][0] = 0 /\ InHand(p) = 0
  <2>1. Paid(p) = {}
    BY DEF GatewayInit, RedisInit, IdleCall, Paid
  <2>2. 0 \in Times
    BY BucketAssumption DEF Times
  <2> QED
    BY <2>1, <2>2, PaidFinite, FS_EmptySet DEF GatewayInit, RedisInit, BucketInit
<1> QED BY <1>1, <1>2, BucketAssumption DEF GatewayInv, ChargedOnce

LEMMA AtMostOneLess ==
    \A m, n \in Nat : m + 1 = n \/ m = n => m <= n /\ n <= m + 1
OBVIOUS

LEMMA CountersStep ==
    ASSUME GatewayInv, RedisTypeOK, [GatewayNext]_gatewayVars
    PROVE  CountersOK'
<1>1. CountersOK
  BY DEF GatewayInv
<1>2. ASSUME NEW r \in Replicas, Forward(r) \/ LimiterError(r) PROVE CountersOK'
  BY <1>1, <1>2 DEF Forward, LimiterError, CountersOK
<1>3. CASE UNCHANGED <<forwarded, failed>>
  BY <1>1, <1>3 DEF CountersOK
<1> QED
  BY <1>2, <1>3
  DEF GatewayNext, gatewayVars, counters, Public, Refuse, Accept, Limit

\* What a step does to the account of p.
LEMMA AccountStep ==
    ASSUME GatewayInv, RedisTypeOK, [GatewayNext]_gatewayVars, NEW p \in Principals
    PROVE  Moved(Account(p), Account(p)')
<1> DEFINE H == Cardinality(Paid(p))
<1>0. /\ CountersOK
      /\ InHand(p) = H /\ InHand(p)' = H'
      /\ H \in Nat /\ H' \in Nat /\ IsFiniteSet(Paid(p)) /\ IsFiniteSet(Paid(p)')
  BY PaidFinite DEF GatewayInv
<1>2. ASSUME NEW r \in Replicas, Script(r), UNCHANGED counters
      PROVE  \/ used'[p][0] = used[p][0] /\ H' = H
             \/ used'[p][0] = used[p][0] + Cost /\ H' = H + 1
  <2>1. CASE r \notin Paid(p) /\ Paid(p)' = Paid(p) \cup {r}
    <3>1. H' = H + 1
      BY <1>0, <2>1, FS_AddElement
    <3> QED BY <1>2, <2>1, <3>1, PaidAtScript
  <2> QED BY <1>2, <2>1, PaidAtScript
<1>3. ASSUME NEW r \in Replicas, Return(r) \/ Fail(r)
      PROVE  /\ r \in Paid(p) => H' + 1 = H
             /\ r \notin Paid(p) => H' = H
             /\ UNCHANGED used
  <2>1. Paid(p)' = Paid(p) \ {r}
    BY <1>3, PaidAtEnd
  <2>2. r \in Paid(p) => H' = H - 1
    BY <1>0, <2>1, FS_RemoveElement
  <2>3. r \notin Paid(p) => Paid(p)' = Paid(p)
    BY <2>1
  <2>4. UNCHANGED used
    BY <1>3 DEF Return, Fail
  <2> QED BY <1>0, <2>2, <2>3, <2>4
<1> HIDE DEF H
<1> H \in Nat /\ H' \in Nat
  BY <1>0
<1> DEFINE Goal ==
       \/ /\ used'[p][0] = used[p][0] /\ forwarded'[p] = forwarded[p] /\ H' = H
          /\ failed'[p] = failed[p]
       \/ /\ used'[p][0] = used[p][0] + Cost /\ forwarded'[p] = forwarded[p]
          /\ H' = H + 1 /\ failed'[p] = failed[p]
       \/ /\ used'[p][0] = used[p][0] /\ forwarded'[p] = forwarded[p] + 1
          /\ H' + 1 = H /\ failed'[p] = failed[p]
       \/ /\ used'[p][0] = used[p][0] /\ forwarded'[p] = forwarded[p]
          /\ H' <= H /\ H <= H' + 1 /\ failed'[p] = failed[p] + 1
<1> SUFFICES Goal
  BY <1>0 DEF Account, Moved
<1>4. ASSUME NEW r \in Replicas, Script(r), UNCHANGED counters PROVE Goal
  BY <1>2, <1>4 DEF counters
<1>5. ASSUME NEW r \in Replicas, Limit(r) PROVE Goal
  <2>1. r \notin Paid(p)
    BY <1>5 DEF Limit, Paid
  <2> QED BY <1>3, <1>5, <2>1 DEF Limit
<1>6. ASSUME NEW r \in Replicas, Forward(r) PROVE Goal
  <2>1. call[r].pc = "ran" /\ call[r].ok /\ Return(r)
    BY <1>6 DEF Forward, Return
  <2>2. r \in Paid(p) <=> p = call[r].p
    BY <2>1 DEF Paid
  <2>3. CASE p = call[r].p
    <3>1. forwarded'[p] = forwarded[p] + 1 /\ failed' = failed
      BY <1>0, <1>6, <2>3 DEF Forward, CountersOK
    <3>2. used' = used /\ H' + 1 = H
      BY <1>3, <2>1, <2>2, <2>3
    <3> QED BY <3>1, <3>2
  <2>4. CASE p # call[r].p
    <3>1. forwarded'[p] = forwarded[p] /\ failed' = failed
      BY <1>0, <1>6, <2>4 DEF Forward, CountersOK
    <3>2. used' = used /\ H' = H
      BY <1>3, <2>1, <2>2, <2>4
    <3> QED BY <3>1, <3>2
  <2> QED BY <2>3, <2>4
<1>7. ASSUME NEW r \in Replicas, LimiterError(r) PROVE Goal
  <2>1. Fail(r)
    BY <1>7 DEF LimiterError
  <2>2. r \in Paid(p) => p = call[r].p
    BY DEF Paid
  <2>3. CASE p = call[r].p
    <3>1. failed'[p] = failed[p] + 1 /\ forwarded' = forwarded
      BY <1>0, <1>7, <2>3 DEF LimiterError, CountersOK
    <3>2. CASE r \in Paid(p)
      <4>1. used' = used /\ H' + 1 = H
        BY <1>3, <2>1, <3>2
      <4>2. H' <= H /\ H <= H' + 1
        BY <4>1, AtMostOneLess
      <4> QED BY <3>1, <4>1, <4>2
    <3>3. CASE r \notin Paid(p)
      <4>1. used' = used /\ H' = H
        BY <1>3, <2>1, <3>3
      <4>2. H' <= H /\ H <= H' + 1
        BY <4>1, AtMostOneLess
      <4> QED BY <3>1, <4>1, <4>2
    <3> QED BY <3>2, <3>3
  <2>4. CASE p # call[r].p
    <3>1. failed'[p] = failed[p] /\ forwarded' = forwarded
      BY <1>0, <1>7, <2>4 DEF LimiterError, CountersOK
    <3>2. used' = used /\ H' = H
      BY <1>3, <2>1, <2>2, <2>4
    <3> QED BY <3>1, <3>2
  <2> QED BY <2>3, <2>4
<1>8. ASSUME NEW r \in Replicas, NEW q \in Requests, Accept(r, q) PROVE Goal
  <2>1. Paid(p)' = Paid(p)
    BY <1>8, PaidAtCall DEF Accept
  <2> QED BY <1>8, <2>1 DEF Accept, Call, H
<1>9. CASE UNCHANGED <<call, forwarded, failed, used>>
  <2>1. Paid(p)' = Paid(p)
    BY <1>9 DEF Paid
  <2> QED BY <1>9, <2>1 DEF H
<1> QED
  BY <1>4, <1>5, <1>6, <1>7, <1>8, <1>9
  DEF GatewayNext, gatewayVars, redisVars, counters, Public, Refuse, RedisTick, Tick

LEMMA GatewayNextInv ==
    ASSUME GatewayInv, RedisTypeOK, RedisTypeOK', [GatewayNext]_gatewayVars
    PROVE  GatewayInv'
<1>1. CountersOK /\ CountersOK'
  BY CountersStep DEF GatewayInv
<1>2. 0 \in Times
  BY BucketAssumption DEF Times
<1>3. ASSUME NEW p \in Principals
      PROVE  /\ Cost * (forwarded'[p] + InHand(p)') <= used'[p][0]
             /\ used'[p][0] <= Cost * (forwarded'[p] + InHand(p)' + failed'[p])
  <2>1. Account(p) \in Accounts /\ Account(p)' \in Accounts
    BY <1>1, <1>2, PaidFinite
    DEF Account, Accounts, CountersOK, RedisTypeOK, BucketTypeOK
  <2>2. Covered(Account(p))
    BY DEF GatewayInv, ChargedOnce, Covered, Account
  <2>3. Covered(Account(p)')
    BY <2>1, <2>2, AccountStep, Balance
  <2> QED BY <2>3 DEF Covered, Account
<1> QED BY <1>1, <1>3 DEF GatewayInv, ChargedOnce

\* Each request the MCP app sees has paid once, and what else was charged
\* belongs to requests whose limiter call failed, for any replicas and requests.
THEOREM GatewayChargedOnce == GatewaySpec => []ChargedOnce
<1>1. GatewaySpec => []RedisTypeOK
  BY GatewayImplementsRedis, RedisTypeCorrect, PTL
<1>2. GatewayInit => GatewayInv
  BY GatewayInitInv
<1>3. GatewayInv /\ RedisTypeOK /\ RedisTypeOK' /\ [GatewayNext]_gatewayVars => GatewayInv'
  BY GatewayNextInv
<1>4. GatewayInv => ChargedOnce
  BY DEF GatewayInv
<1> QED BY <1>1, <1>2, <1>3, <1>4, PTL DEF GatewaySpec

\* The strict global limit end to end: over all replicas, the MCP app sees no
\* more of a principal's requests than its burst and the inflow pay for.
THEOREM GatewayEndToEndLimit == ASSUME TtlCovers PROVE GatewaySpec => []EndToEndLimit
<1>1. GatewaySpec => []WindowBound
  BY GatewayImplementsRedis, RedisWindowBound, PTL
<1>2. GatewaySpec => [](RedisTypeOK /\ GatewayInv)
  <2>1. GatewaySpec => []RedisTypeOK
    BY GatewayImplementsRedis, RedisTypeCorrect, PTL
  <2>2. GatewayInit => GatewayInv
    BY GatewayInitInv
  <2>3. GatewayInv /\ RedisTypeOK /\ RedisTypeOK' /\ [GatewayNext]_gatewayVars => GatewayInv'
    BY GatewayNextInv
  <2> QED BY <2>1, <2>2, <2>3, PTL DEF GatewaySpec
<1>3. WindowBound /\ RedisTypeOK /\ GatewayInv => EndToEndLimit
  <2> SUFFICES ASSUME WindowBound, RedisTypeOK, GatewayInv, NEW p \in Principals
               PROVE  Cost * forwarded[p] <= Burst + Rate * (clock + Lag + Lead)
    BY DEF EndToEndLimit
  <2>1. /\ clock \in Nat /\ used[p][0] \in Nat /\ forwarded[p] \in Nat
        /\ InHand(p) \in Nat
    BY PaidFinite, BucketAssumption
    DEF RedisTypeOK, BucketTypeOK, Times, GatewayInv, CountersOK
  <2>2. used[p][0] <= Burst + Rate * (clock - 0 + Lag + Lead)
    BY <2>1 DEF WindowBound
  <2>3. clock - 0 + Lag + Lead = clock + Lag + Lead
    BY <2>1, BucketAssumption
  <2>4. Cost * (forwarded[p] + InHand(p)) <= used[p][0]
    BY DEF GatewayInv, ChargedOnce
  <2>5. Cost * forwarded[p] <= Cost * (forwarded[p] + InHand(p))
    <3> DEFINE n == forwarded[p] + InHand(p)
    <3>1. n \in Nat /\ forwarded[p] <= n
      BY <2>1
    <3> HIDE DEF n
    <3>2. Cost * forwarded[p] <= Cost * n
      BY <2>1, <3>1, Multiples
    <3> QED BY <3>2 DEF n
  <2>6. /\ Cost * forwarded[p] \in Nat /\ Cost * (forwarded[p] + InHand(p)) \in Nat
        /\ Burst + Rate * (clock + Lag + Lead) \in Nat
    BY <2>1, Multiples, BucketAssumption
  <2> QED BY <2>1, <2>2, <2>3, <2>4, <2>5, <2>6
<1> QED BY <1>1, <1>2, <1>3, PTL

\* The gateway answers 429 on the verdict of the limiter alone (middleware.py:95), so no
\* client behind it is refused while entitled, whichever replicas its requests reach.
THEOREM GatewayDenialJustified == ASSUME TtlCovers PROVE GatewaySpec => DenialJustified
BY GatewayImplementsRedis, RedisDenialJustified, PTL

-----------------------------------------------------------------------------
\* Sums over finite functions.  SumFunction folds a function over its domain, in
\* an order the choice of elements fixes; the facts below are by the least size of
\* a set that would refute them.

\* The element the fold takes next.
Chosen(s) == CHOOSE x \in s : TRUE

\* One step of the fold, and the function it iterates.
Step(f, g, s) == IF s = {} THEN 0 ELSE f[Chosen(s)] + g[s \ {Chosen(s)}]
Iter(f, S) == CHOOSE it : it = [s \in SUBSET S |-> Step(f, it, s)]

\* Every nonempty set of naturals has a least element.
LEMMA Least == ASSUME NEW T \in SUBSET Nat, T # {} PROVE \E n \in T : \A m \in T : n <= m
<1>1. \E n \in T : \A m \in T : ~(<<m, n>> \in OpToRel(<, Nat))
  BY WFMin, NatLessThanWellFounded
<1>2. PICK n \in T : \A m \in T : ~(m < n)
  BY <1>1 DEF OpToRel
<1> QED BY <1>2

\* SumFunction of the community modules is that fold.
LEMMA SumIsIter ==
    ASSUME NEW f PROVE SumFunction(f) = Iter(f, DOMAIN f)[DOMAIN f]
BY DEF SumFunction, SumFunctionOnSet, FoldFunctionOnSet, MapThenFoldSet, Iter, Step, Chosen

\* Taking the chosen element away leaves a smaller set.
LEMMA Rest ==
    ASSUME NEW S, IsFiniteSet(S), NEW s \in SUBSET S, s # {}
    PROVE  /\ Chosen(s) \in s /\ s \ {Chosen(s)} \in SUBSET S
           /\ Cardinality(s) \in Nat /\ Cardinality(s \ {Chosen(s)}) \in Nat
           /\ Cardinality(s \ {Chosen(s)}) = Cardinality(s) - 1
<1>1. Chosen(s) \in s
  BY DEF Chosen
<1>2. IsFiniteSet(s)
  BY FS_Subset
<1> QED BY <1>1, <1>2, FS_RemoveElement, FS_CardinalityType

\* The fold is well defined on a finite set: it can be computed up to sets of any
\* size.
LEMMA IterExists ==
    ASSUME NEW S, IsFiniteSet(S), NEW f
    PROVE  \A s \in SUBSET S : Iter(f, S)[s] = Step(f, Iter(f, S), s)
<1> DEFINE Upto(n, g) == \A s \in SUBSET S : Cardinality(s) <= n => g[s] = Step(f, g, s)
           Missing == {n \in Nat : ~ \E g : Upto(n, g)}
<1>1. Missing = {}
  <2>1. SUFFICES ASSUME Missing # {} PROVE FALSE
    OBVIOUS
  <2>2. PICK n \in Missing : \A m \in Missing : n <= m
    <3> HIDE DEF Missing
    <3>1. Missing \in SUBSET Nat
      BY DEF Missing
    <3> QED BY <2>1, <3>1, Least
  <2>3. n # 0
    <3> DEFINE zero == [s \in SUBSET S |-> 0]
    <3>1. ASSUME NEW s \in SUBSET S, Cardinality(s) <= 0 PROVE zero[s] = Step(f, zero, s)
      <4>1. IsFiniteSet(s)
        BY FS_Subset
      <4>2. Cardinality(s) \in Nat /\ (Cardinality(s) = 0 <=> s = {})
        BY <4>1, FS_CardinalityType, FS_EmptySet
      <4>3. s = {}
        BY <3>1, <4>2
      <4> QED BY <4>3 DEF Step
    <3>2. Upto(0, zero)
      BY <3>1
    <3> QED BY <3>2
  <2>4. n \in Nat /\ n - 1 \in Nat /\ n - 1 \notin Missing
    BY <2>2, <2>3
  <2>5. PICK g : Upto(n - 1, g)
    BY <2>4
  <2> DEFINE h == [s \in SUBSET S |-> IF Cardinality(s) <= n - 1 THEN g[s] ELSE Step(f, g, s)]
  <2>6. ASSUME NEW s \in SUBSET S, Cardinality(s) <= n PROVE h[s] = Step(f, h, s)
    <3>1. h[s] = Step(f, g, s)
      BY <2>5
    <3>2. CASE s = {}
      BY <3>1, <3>2 DEF Step
    <3>3. CASE s # {}
      <4>1. h[s \ {Chosen(s)}] = g[s \ {Chosen(s)}]
        BY <2>4, <2>6, <3>3, Rest
      <4> HIDE DEF h
      <4> QED BY <3>1, <3>3, <4>1 DEF Step
    <3> QED BY <3>2, <3>3
  <2>7. Upto(n, h)
    BY <2>6
  <2>8. \E k : Upto(n, k)
    <3> HIDE DEF Upto, h
    <3> QED BY <2>7
  <2> QED BY <2>2, <2>8
<1>2. Cardinality(S) \in Nat
  BY FS_CardinalityType
<1>3. PICK g : Upto(Cardinality(S), g)
  BY <1>1, <1>2
<1>4. ASSUME NEW s \in SUBSET S PROVE g[s] = Step(f, g, s)
  <2>1. Cardinality(s) <= Cardinality(S)
    BY FS_Subset
  <2> QED BY <1>3, <2>1
<1> DEFINE it == [s \in SUBSET S |-> g[s]]
<1>5. \A s \in SUBSET S : Step(f, it, s) = g[s]
  <2>1. ASSUME NEW s \in SUBSET S PROVE Step(f, it, s) = Step(f, g, s)
    <3>1. CASE s = {}
      BY <3>1 DEF Step
    <3>2. CASE s # {}
      BY <3>2, Rest DEF Step
    <3> QED BY <3>1, <3>2
  <2> QED BY <1>4, <2>1
<1>6. it = [s \in SUBSET S |-> Step(f, it, s)]
  BY <1>5
<1>7. Iter(f, S) = [s \in SUBSET S |-> Step(f, Iter(f, S), s)]
  <2> HIDE DEF it
  <2> QED BY <1>6 DEF Iter
<1> QED
  <2> DEFINE I == Iter(f, S)
  <2>1. I = [s \in SUBSET S |-> Step(f, I, s)]
    BY <1>7
  <2> HIDE DEF I
  <2>2. \A s \in SUBSET S : I[s] = Step(f, I, s)
    BY <2>1
  <2> QED BY <2>2 DEF I

\* Changing the function at one place changes the sum by as much.
LEMMA IterChange ==
    ASSUME NEW S, IsFiniteSet(S), NEW f \in [S -> Nat], NEW h \in [S -> Nat], NEW x \in S,
           \A y \in S \ {x} : h[y] = f[y]
    PROVE  \A s \in SUBSET S :
              /\ Iter(f, S)[s] \in Nat /\ Iter(h, S)[s] \in Nat
              /\ Iter(h, S)[s] = Iter(f, S)[s] + IF x \in s THEN h[x] - f[x] ELSE 0
<1> DEFINE I == Iter(f, S)
           J == Iter(h, S)
           Claim(s) == /\ I[s] \in Nat /\ J[s] \in Nat
                       /\ J[s] = I[s] + IF x \in s THEN h[x] - f[x] ELSE 0
           Wrong == {Cardinality(s) : s \in {t \in SUBSET S : ~Claim(t)}}
<1>1. \A s \in SUBSET S : I[s] = Step(f, I, s) /\ J[s] = Step(h, J, s)
  BY IterExists
<1> HIDE DEF I, J
<1>2. Wrong = {}
  <2>1. SUFFICES ASSUME Wrong # {} PROVE FALSE
    OBVIOUS
  <2>2. Wrong \in SUBSET Nat
    BY FS_Subset, FS_CardinalityType
  <2>3. PICK n \in Wrong : \A m \in Wrong : n <= m
    <3> HIDE DEF Wrong
    <3> QED BY <2>1, <2>2, Least
  <2>4. PICK s \in SUBSET S : Cardinality(s) = n /\ ~Claim(s)
    BY <2>3
  <2>5. s # {}
    <3>1. ASSUME s = {} PROVE Claim(s)
      <4>1. I[s] = 0 /\ J[s] = 0
        BY <1>1, <3>1 DEF Step
      <4> QED BY <3>1, <4>1
    <3> HIDE DEF Claim
    <3> QED BY <2>4, <3>1
  <2> DEFINE c == Chosen(s)
             r == s \ {c}
  <2>6. c \in s /\ r \in SUBSET S /\ Cardinality(r) \in Nat /\ Cardinality(r) = n - 1
    BY <2>4, <2>5, Rest
  <2>7. n \in Nat /\ Cardinality(r) \notin Wrong
    <3> HIDE DEF r, Wrong
    <3> QED BY <2>2, <2>3, <2>6
  <2>8. Claim(r)
    <3> HIDE DEF Claim, r
    <3> QED BY <2>6, <2>7
  <2>9. I[s] = f[c] + I[r] /\ J[s] = h[c] + J[r]
    BY <1>1, <2>5 DEF Step
  <2>10. f[c] \in Nat /\ h[c] \in Nat /\ f[x] \in Nat /\ h[x] \in Nat /\ (c # x => h[c] = f[c])
    BY <2>6
  <2>11. x \in s <=> x \in r \/ x = c
    BY <2>6
  <2>12. x = c => x \notin r
    OBVIOUS
  <2> HIDE DEF c, r
  <2>13. Claim(s)
    BY <2>8, <2>9, <2>10, <2>11, <2>12
  <2> QED BY <2>4, <2>13
<1>3. \A s \in SUBSET S : Claim(s)
  <2> HIDE DEF Claim
  <2> QED BY <1>2
<1> QED BY <1>3 DEF I, J

\* Counting up one entry counts up the sum; no entry is above it.
LEMMA SumAdd ==
    ASSUME NEW S, IsFiniteSet(S), NEW f \in [S -> Nat], NEW x \in S, NEW n \in Nat
    PROVE  /\ SumFunction(f) \in Nat
           /\ SumFunction([f EXCEPT ![x] = @ + n]) = SumFunction(f) + n
           /\ f[x] <= SumFunction(f)
<1> DEFINE h == [f EXCEPT ![x] = @ + n]
           z == [f EXCEPT ![x] = 0]
<1>1. h \in [S -> Nat] /\ h[x] = f[x] + n /\ \A y \in S \ {x} : h[y] = f[y]
  OBVIOUS
<1>2. z \in [S -> Nat] /\ z[x] = 0 /\ \A y \in S \ {x} : z[y] = f[y]
  OBVIOUS
<1>3. SumFunction(f) = Iter(f, S)[S] /\ SumFunction(h) = Iter(h, S)[S]
  BY SumIsIter
<1> HIDE DEF h, z
<1>4. /\ Iter(f, S)[S] \in Nat
      /\ Iter(h, S)[S] = Iter(f, S)[S] + (h[x] - f[x])
  BY <1>1, IterChange
<1>5. /\ Iter(z, S)[S] \in Nat
      /\ Iter(z, S)[S] = Iter(f, S)[S] + (0 - f[x])
  BY <1>2, IterChange
<1>6. f[x] \in Nat
  OBVIOUS
<1> QED BY <1>1, <1>3, <1>4, <1>5, <1>6 DEF h

\* The same, for a function that is counted up.
LEMMA SumOneMore ==
    ASSUME NEW S, IsFiniteSet(S), NEW f \in [S -> Nat], NEW x \in S, NEW h,
           h = [f EXCEPT ![x] = @ + 1]
    PROVE  SumFunction(h) = SumFunction(f) + 1
<1>1. 1 \in Nat
  OBVIOUS
<1> QED BY <1>1, SumAdd

\* Counters that start at zero sum up to zero.
LEMMA SumZero ==
    ASSUME NEW S, IsFiniteSet(S)
    PROVE  SumFunction([x \in S |-> 0]) = 0
<1> DEFINE f == [x \in S |-> 0]
           I == Iter(f, S)
           Wrong == {Cardinality(s) : s \in {t \in SUBSET S : I[t] # 0}}
<1>1. \A s \in SUBSET S : I[s] = Step(f, I, s)
  BY IterExists
<1> HIDE DEF I
<1>2. Wrong = {}
  <2>1. SUFFICES ASSUME Wrong # {} PROVE FALSE
    OBVIOUS
  <2>2. Wrong \in SUBSET Nat
    BY FS_Subset, FS_CardinalityType
  <2>3. PICK n \in Wrong : \A m \in Wrong : n <= m
    <3> HIDE DEF Wrong
    <3> QED BY <2>1, <2>2, Least
  <2>4. PICK s \in SUBSET S : Cardinality(s) = n /\ I[s] # 0
    BY <2>3
  <2>5. s # {}
    BY <1>1, <2>4 DEF Step
  <2>6. /\ Chosen(s) \in S /\ s \ {Chosen(s)} \in SUBSET S
        /\ Cardinality(s \ {Chosen(s)}) \in Nat
        /\ Cardinality(s \ {Chosen(s)}) = n - 1
    BY <2>4, <2>5, Rest
  <2>7. Cardinality(s \ {Chosen(s)}) \notin Wrong
    <3> HIDE DEF Wrong
    <3> QED BY <2>2, <2>3, <2>6
  <2>8. I[s \ {Chosen(s)}] = 0
    BY <2>6, <2>7
  <2>9. f[Chosen(s)] = 0
    BY <2>6
  <2> QED BY <1>1, <2>4, <2>5, <2>8, <2>9 DEF Step
<1>3. I[S] = 0
  BY <1>2
<1>4. SumFunction(f) = Iter(f, S)[S]
  BY SumIsIter
<1> QED BY <1>3, <1>4 DEF I

-----------------------------------------------------------------------------

\* The counters of all the outcomes, and of all the principals.
TallyInv ==
    /\ authTotal \in [AuthOutcomes -> Nat] /\ SumFunction(authTotal) <= MaxRequests
    /\ rateLimited \in [Principals -> Nat]
    /\ forwarded \in [Principals -> Nat]
    /\ failed \in [Principals -> Nat]
    /\ Accounting

LEMMA OutcomesFinite == IsFiniteSet(AuthOutcomes)
<1>1. IsFiniteSet({}) /\ AuthOutcomes = ((({} \cup {"missing_token"}) \cup {"rejected"})
                                         \cup {"error"}) \cup {"ok"}
  BY FS_EmptySet DEF AuthOutcomes
<1> QED BY <1>1, FS_AddElement

LEMMA BusyFinite ==
    IsFiniteSet(Busy) /\ Cardinality(Busy) \in Nat
<1>1. IsFiniteSet(Busy)
  BY GatewayAssumption, FS_Subset DEF Busy
<1> QED BY <1>1, FS_CardinalityType

LEMMA TallyInit == ASSUME GatewayInit PROVE TallyInv
<1>1. Busy = {}
  BY DEF GatewayInit, RedisInit, Busy
<1>2. Cardinality(Busy) = 0
  BY <1>1, FS_EmptySet
<1>3. SumFunction(authTotal) = 0
  BY OutcomesFinite, SumZero DEF GatewayInit
<1>4. SumFunction(rateLimited) = 0 /\ SumFunction(forwarded) = 0 /\ SumFunction(failed) = 0
  BY GatewayAssumption, SumZero DEF GatewayInit
<1>5. /\ authTotal \in [AuthOutcomes -> Nat] /\ rateLimited \in [Principals -> Nat]
      /\ forwarded \in [Principals -> Nat] /\ failed \in [Principals -> Nat]
      /\ authTotal["ok"] = 0
  BY DEF GatewayInit, AuthOutcomes
<1> QED BY <1>2, <1>3, <1>4, <1>5, GatewayAssumption DEF TallyInv, Accounting

\* One more in the count of an outcome.
LEMMA Counted ==
    ASSUME TallyInv, NEW o \in AuthOutcomes, SumFunction(authTotal) < MaxRequests,
           authTotal' = [authTotal EXCEPT ![o] = @ + 1]
    PROVE  /\ authTotal' \in [AuthOutcomes -> Nat] /\ SumFunction(authTotal') <= MaxRequests
           /\ authTotal'["ok"] = authTotal["ok"] + IF o = "ok" THEN 1 ELSE 0
<1>1. authTotal \in [AuthOutcomes -> Nat] /\ "ok" \in AuthOutcomes
  BY DEF TallyInv, AuthOutcomes
<1>2. SumFunction(authTotal) \in Nat /\ SumFunction(authTotal') = SumFunction(authTotal) + 1
  BY <1>1, OutcomesFinite, SumAdd
<1>3. authTotal' \in [AuthOutcomes -> Nat]
  BY <1>1
<1> QED BY <1>1, <1>2, <1>3, GatewayAssumption

\* The call of a busy replica is some principal's.
LEMMA BusyCall ==
    ASSUME RedisTypeOK, NEW r \in Replicas, call[r].pc # "idle"
    PROVE  call[r].p \in Principals /\ r \in Busy
<1>1. call[r] \in Calls
  BY DEF RedisTypeOK
<1>2. call[r] # IdleCall
  BY DEF IdleCall
<1>3. CASE call[r] \in [pc : {"sent"}, p : Principals, now : Readings]
  BY <1>2, <1>3 DEF Busy
<1>4. CASE call[r] \in [pc : {"ran"}, p : Principals, ok : BOOLEAN]
  BY <1>2, <1>4 DEF Busy
<1> QED BY <1>1, <1>2, <1>3, <1>4 DEF Calls

\* One more for one principal is one more in all.
LEMMA CounterOneMore ==
    ASSUME NEW f \in [Principals -> Nat], NEW x \in Principals, NEW h,
           h = [f EXCEPT ![x] = @ + 1]
    PROVE  SumFunction(h) = SumFunction(f) + 1
<1>1. IsFiniteSet(Principals)
  BY GatewayAssumption
<1> QED BY <1>1, SumOneMore

\* A request that is answered moves from the busy replicas to one counter.
LEMMA Answered ==
    ASSUME TallyInv, RedisTypeOK, NEW r \in Replicas, Return(r) \/ Fail(r),
           UNCHANGED authTotal,
           \/ /\ rateLimited' = [rateLimited EXCEPT ![call[r].p] = @ + 1]
              /\ UNCHANGED <<forwarded, failed>>
           \/ /\ forwarded' = [forwarded EXCEPT ![call[r].p] = @ + 1]
              /\ UNCHANGED <<rateLimited, failed>>
           \/ /\ failed' = [failed EXCEPT ![call[r].p] = @ + 1]
              /\ UNCHANGED <<rateLimited, forwarded>>
    PROVE  TallyInv'
<1>1. call[r].pc # "idle" /\ call' = [call EXCEPT ![r] = IdleCall]
  BY DEF Return, Fail
<1>2. call[r].p \in Principals /\ r \in Busy
  BY <1>1, BusyCall
<1>0. PICK p \in Principals : p = call[r].p
  BY <1>2
<1>3. Busy' = Busy \ {r}
  BY <1>1 DEF Busy, RedisTypeOK
<1>4. /\ Cardinality(Busy') = Cardinality(Busy) - 1
      /\ Cardinality(Busy) \in Nat /\ Cardinality(Busy') \in Nat
  <2>1. IsFiniteSet(Busy')
    BY <1>3, BusyFinite, FS_RemoveElement
  <2> QED BY <1>2, <1>3, <2>1, BusyFinite, FS_RemoveElement, FS_CardinalityType
<1>5. /\ rateLimited \in [Principals -> Nat] /\ forwarded \in [Principals -> Nat]
      /\ failed \in [Principals -> Nat] /\ IsFiniteSet(Principals)
      /\ authTotal["ok"] = SumFunction(forwarded) + SumFunction(rateLimited)
                           + SumFunction(failed) + Cardinality(Busy)
  BY GatewayAssumption DEF TallyInv, Accounting
<1>6. /\ SumFunction(rateLimited) \in Nat /\ SumFunction(forwarded) \in Nat
      /\ SumFunction(failed) \in Nat
  BY <1>2, <1>5, SumAdd
<1>7. /\ rateLimited' \in [Principals -> Nat] /\ forwarded' \in [Principals -> Nat]
      /\ failed' \in [Principals -> Nat]
  BY <1>0, <1>2, <1>5
<1>8. SumFunction(forwarded') + SumFunction(rateLimited') + SumFunction(failed')
         = SumFunction(forwarded) + SumFunction(rateLimited) + SumFunction(failed) + 1
  <2>1. CASE /\ rateLimited' = [rateLimited EXCEPT ![p] = @ + 1]
             /\ UNCHANGED <<forwarded, failed>>
    <3>1. rateLimited' = [rateLimited EXCEPT ![p] = @ + 1]
      BY <2>1
    <3>0. rateLimited \in [Principals -> Nat]
      BY <1>5
    <3>2. SumFunction(rateLimited') = SumFunction(rateLimited) + 1
      BY <3>0, <3>1, CounterOneMore
    <3>3. /\ SumFunction(forwarded') = SumFunction(forwarded)
          /\ SumFunction(failed') = SumFunction(failed)
      BY <2>1
    <3> QED BY <1>6, <3>2, <3>3
  <2>2. CASE /\ forwarded' = [forwarded EXCEPT ![p] = @ + 1]
             /\ UNCHANGED <<rateLimited, failed>>
    <3>1. forwarded' = [forwarded EXCEPT ![p] = @ + 1]
      BY <2>2
    <3>0. forwarded \in [Principals -> Nat]
      BY <1>5
    <3>2. SumFunction(forwarded') = SumFunction(forwarded) + 1
      BY <3>0, <3>1, CounterOneMore
    <3>3. /\ SumFunction(rateLimited') = SumFunction(rateLimited)
          /\ SumFunction(failed') = SumFunction(failed)
      BY <2>2
    <3> QED BY <1>6, <3>2, <3>3
  <2>3. CASE /\ failed' = [failed EXCEPT ![p] = @ + 1]
             /\ UNCHANGED <<rateLimited, forwarded>>
    <3>1. failed' = [failed EXCEPT ![p] = @ + 1]
      BY <2>3
    <3>0. failed \in [Principals -> Nat]
      BY <1>5
    <3>2. SumFunction(failed') = SumFunction(failed) + 1
      BY <3>0, <3>1, CounterOneMore
    <3>3. /\ SumFunction(rateLimited') = SumFunction(rateLimited)
          /\ SumFunction(forwarded') = SumFunction(forwarded)
      BY <2>3
    <3> QED BY <1>6, <3>2, <3>3
  <2> QED BY <1>0, <2>1, <2>2, <2>3
<1>9. /\ SumFunction(rateLimited') \in Nat /\ SumFunction(forwarded') \in Nat
      /\ SumFunction(failed') \in Nat
  BY <1>2, <1>5, <1>7, SumAdd
<1>10. Accounting'
  <2>1. authTotal'["ok"] = SumFunction(forwarded') + SumFunction(rateLimited')
                           + SumFunction(failed') + Cardinality(Busy')
    BY <1>4, <1>5, <1>6, <1>8, <1>9
  <2> QED BY <2>1 DEF Accounting
<1> QED BY <1>7, <1>10 DEF TallyInv

LEMMA TallyStep ==
    ASSUME TallyInv, RedisTypeOK, [GatewayNext]_gatewayVars
    PROVE  TallyInv'
<1>1. ASSUME UNCHANGED counters, Busy' = Busy PROVE TallyInv'
  BY <1>1 DEF counters, TallyInv, Accounting
<1>2. ASSUME NEW r \in Replicas, NEW q \in Requests, Refuse(r, q) PROVE TallyInv'
  <2>1. PICK o \in AuthOf(q) \ {"ok"} : authTotal' = [authTotal EXCEPT ![o] = @ + 1]
    BY <1>2 DEF Refuse
  <2>2. o \in AuthOutcomes /\ o # "ok"
    BY <2>1 DEF AuthOf, VerifyOutcomes, AuthOutcomes
  <2>3. /\ authTotal' \in [AuthOutcomes -> Nat] /\ SumFunction(authTotal') <= MaxRequests
        /\ authTotal'["ok"] = authTotal["ok"] + 0
    BY <1>2, <2>1, <2>2, Counted DEF Refuse, Free
  <2>4. authTotal["ok"] \in Nat
    BY DEF TallyInv, AuthOutcomes
  <2>5. UNCHANGED <<rateLimited, forwarded, failed, call>>
    BY <1>2 DEF Refuse, redisVars
  <2> QED BY <2>3, <2>4, <2>5 DEF TallyInv, Accounting, Busy
<1>3. ASSUME NEW r \in Replicas, NEW q \in Requests, Accept(r, q) PROVE TallyInv'
  <2>1. /\ authTotal' \in [AuthOutcomes -> Nat] /\ SumFunction(authTotal') <= MaxRequests
        /\ authTotal'["ok"] = authTotal["ok"] + 1
    <3>1. "ok" \in AuthOutcomes
      BY DEF AuthOutcomes
    <3> QED BY <1>3, <3>1, Counted DEF Accept, Free
  <2>2. UNCHANGED <<rateLimited, forwarded, failed>>
    BY <1>3 DEF Accept
  <2>3. r \notin Busy /\ Busy' = Busy \cup {r}
    BY <1>3 DEF Accept, Call, IdleCall, Busy, RedisTypeOK
  <2>4. Cardinality(Busy') = Cardinality(Busy) + 1 /\ Cardinality(Busy) \in Nat
    BY <2>3, BusyFinite, FS_AddElement
  <2>5. /\ SumFunction(rateLimited) \in Nat /\ SumFunction(forwarded) \in Nat
        /\ SumFunction(failed) \in Nat
    <3>1. q.sub \in Principals
      BY GatewayAssumption
    <3> QED BY <3>1, GatewayAssumption, SumAdd DEF TallyInv
  <2>6. Accounting'
    BY <2>1, <2>2, <2>4, <2>5 DEF TallyInv, Accounting
  <2> QED BY <2>1, <2>2, <2>6 DEF TallyInv
<1>4. ASSUME NEW r \in Replicas, Script(r), UNCHANGED counters PROVE TallyInv'
  <2>1. call[r].pc = "sent"
    BY <1>4 DEF Script
  <2>2. \E p, ok : call' = [call EXCEPT ![r] = [pc |-> "ran", p |-> p, ok |-> ok]]
    BY <1>4 DEF Script
  <2>3. Busy' = Busy
    BY <2>1, <2>2 DEF Busy, IdleCall, RedisTypeOK
  <2> QED BY <1>1, <1>4, <2>3
<1>5. ASSUME NEW r \in Replicas, Limit(r) \/ Forward(r) \/ LimiterError(r) PROVE TallyInv'
  BY <1>5, Answered DEF Limit, Forward, LimiterError
<1>6. ASSUME UNCHANGED call, UNCHANGED counters PROVE TallyInv'
  BY <1>1, <1>6 DEF Busy
<1> QED
  BY <1>2, <1>3, <1>4, <1>5, <1>6
  DEF GatewayNext, gatewayVars, redisVars, Public, RedisTick

LEMMA TallyInvariant == GatewaySpec => [](RedisTypeOK /\ TallyInv)
<1>1. GatewaySpec => []RedisTypeOK
  BY GatewayImplementsRedis, RedisTypeCorrect, PTL
<1>2. GatewayInit => TallyInv
  BY TallyInit
<1>3. TallyInv /\ RedisTypeOK /\ [GatewayNext]_gatewayVars => TallyInv'
  BY TallyStep
<1> QED BY <1>1, <1>2, <1>3, PTL DEF GatewaySpec

\* The metrics of middleware.py add up: every request counted as authenticated is
\* forwarded, answered 429, ended in a 500 or still waits for the limiter, for any
\* requests, principals and replicas and however they interleave.
THEOREM GatewayAccounting == GatewaySpec => []Accounting
<1>1. TallyInv => Accounting
  BY DEF TallyInv
<1> QED BY <1>1, TallyInvariant, PTL

\* The types of the counters, with the bounds that the requests handled put on
\* each of them.
THEOREM GatewayTypeCorrect == GatewaySpec => []GatewayTypeOK
<1>1. ASSUME RedisTypeOK, TallyInv PROVE GatewayTypeOK
  <2>1. ASSUME NEW o \in AuthOutcomes PROVE authTotal[o] \in 0..MaxRequests
    <3>1. /\ authTotal \in [AuthOutcomes -> Nat] /\ SumFunction(authTotal) \in Nat
          /\ authTotal[o] <= SumFunction(authTotal) /\ SumFunction(authTotal) <= MaxRequests
      BY <1>1, OutcomesFinite, SumAdd DEF TallyInv
    <3> QED BY <3>1, GatewayAssumption
  <2>2. ASSUME NEW p \in Principals
        PROVE  /\ rateLimited[p] \in 0..MaxRequests /\ forwarded[p] \in 0..MaxRequests
               /\ failed[p] \in 0..MaxRequests
    <3>1. /\ SumFunction(rateLimited) \in Nat /\ rateLimited[p] <= SumFunction(rateLimited)
          /\ SumFunction(forwarded) \in Nat /\ forwarded[p] <= SumFunction(forwarded)
          /\ SumFunction(failed) \in Nat /\ failed[p] <= SumFunction(failed)
      BY <1>1, GatewayAssumption, SumAdd DEF TallyInv
    <3>2. authTotal["ok"] \in 0..MaxRequests
      BY <2>1 DEF AuthOutcomes
    <3>3. authTotal["ok"] = SumFunction(forwarded) + SumFunction(rateLimited)
                            + SumFunction(failed) + Cardinality(Busy)
      BY <1>1 DEF TallyInv, Accounting
    <3>4. rateLimited[p] \in Nat /\ forwarded[p] \in Nat /\ failed[p] \in Nat
      BY <1>1 DEF TallyInv
    <3>5. Cardinality(Busy) \in Nat
      BY BusyFinite
    <3> QED BY <3>1, <3>2, <3>3, <3>4, <3>5, GatewayAssumption
  <2> QED BY <1>1, <2>1, <2>2 DEF TallyInv, GatewayTypeOK
<1> QED BY <1>1, TallyInvariant, PTL

=============================================================================
