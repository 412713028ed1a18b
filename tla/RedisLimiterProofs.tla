------------------------- MODULE RedisLimiterProofs -------------------------
(***************************************************************************)
(* Proofs about the token bucket and about its shared form in Redis.       *)
(*                                                                         *)
(* The bucket, for every rate, burst, cost and error of the clock          *)
(* readings.  WindowBound is not inductive: used[p][s] says nothing about  *)
(* the tokens that are left, and stale readings drive the tokens below     *)
(* zero.  The strengthening is a potential argument: in every window, what *)
(* was granted plus what is left never exceeds a burst plus the inflow up  *)
(* to the last reading (Potential), and the tokens are never further below *)
(* zero than the last reading is behind (TokensFloor).                     *)
(*                                                                         *)
(* The Redis limiter implements the in-memory one, for any number of       *)
(* replicas, whenever the time to live covers a complete refill and the    *)
(* error of the clock readings (TtlCovers).  The crux is an expired key:   *)
(* the script starts from a full bucket, and the in-memory bucket, which   *)
(* never expires, must be full at that moment too.  KeyFloor carries what  *)
(* this needs: how far below zero the tokens can be, measured from the     *)
(* real time of the last write.                                            *)
(***************************************************************************)
EXTENDS RedisLimiter, TLAPS

-----------------------------------------------------------------------------
\* The in-memory bucket.

\* Nothing has been granted in the future, nor to a principal without a bucket.
UnusedElsewhere ==
    \A p \in Principals : \A s \in Times :
        s > clock \/ p \notin known => used[p][s] = 0

\* The last reading is not ahead of real time by more than the skew.
ReadingBound == \A p \in known : updated[p] <= clock + Lead

TokensFloor ==
    \A p \in known : tokens[p] + Rate * (clock + Lead - updated[p]) >= 0

Potential ==
    \A p \in Principals : \A s \in Times :
        \/ used[p][s] = 0
        \/ used[p][s] + tokens[p] <= Burst + Rate * (updated[p] - s + Lag)

\* Since some moment s the bucket has lost nothing to the cap.
Uncapped ==
    \A p \in known : \E s \in 0..clock :
        used[p][s] + tokens[p] >= Burst + Rate * (updated[p] - s - Lead)

BucketInv ==
    /\ BucketTypeOK
    /\ UnusedElsewhere
    /\ ReadingBound
    /\ TokensFloor
    /\ Potential
    /\ Uncapped

-----------------------------------------------------------------------------
(* Arithmetic of a rate.                                                    *)

\* A rate distributes over sums and differences of times.
LEMMA RateDistributes ==
    ASSUME NEW a \in Int, NEW b \in Int
    PROVE  /\ Rate * (a + b) = Rate * a + Rate * b
           /\ Rate * (a - b) = Rate * a - Rate * b
           /\ a * Rate = Rate * a
           /\ Rate * a \in Int
BY BucketAssumption

\* Inflow over a longer time is not smaller.
LEMMA RateMonotone ==
    ASSUME NEW a \in Int, NEW b \in Int, a <= b
    PROVE  Rate * a <= Rate * b
<1>1. \E c \in Nat : b = a + c
  <2>1. b - a \in Nat /\ b = a + (b - a)
    OBVIOUS
  <2> QED BY <2>1
<1>2. PICK c \in Nat : b = a + c
  BY <1>1
<1>3. Rate * c >= 0
  BY BucketAssumption
<1> QED BY <1>2, <1>3, RateDistributes, BucketAssumption

-----------------------------------------------------------------------------

\* What the replenishment of allow() returns: an amount within the capacity,
\* and, for an existing bucket, never more than what has flowed in.
LEMMA RefillFacts ==
    ASSUME BucketTypeOK, NEW p \in Principals, NEW now \in Readings
    PROVE  /\ Refill(p, now) \in Int
           /\ Refill(p, now) <= Burst
           /\ p \notin known => Refill(p, now) = Burst
           /\ p \in known =>
                /\ Refill(p, now) <= tokens[p] + Rate * (now - updated[p])
                /\ \/ Refill(p, now) = Burst
                   \/ Refill(p, now) = tokens[p] + Rate * (now - updated[p])
<1>1. tokens[p] \in Int /\ now \in Int /\ updated[p] \in Int /\ Burst \in Int
  BY BucketAssumption DEF BucketTypeOK, Readings
<1>2. (now - updated[p]) * Rate \in Int
      /\ (now - updated[p]) * Rate = Rate * (now - updated[p])
  BY <1>1, BucketAssumption
<1> DEFINE x == Rate * (now - updated[p])
<1>3. Refill(p, now) = IF p \in known THEN Capped(tokens[p] + x) ELSE Burst
  BY <1>2 DEF Refill
<1>4. x \in Int
  BY <1>2
<1> HIDE DEF x
<1>5. /\ Refill(p, now) \in Int
      /\ Refill(p, now) <= Burst
      /\ p \notin known => Refill(p, now) = Burst
      /\ p \in known => /\ Refill(p, now) <= tokens[p] + x
                        /\ Refill(p, now) = Burst \/ Refill(p, now) = tokens[p] + x
  BY <1>1, <1>3, <1>4 DEF Capped
<1> QED BY <1>5 DEF x

\* Both the type and the history survive the write-back of a decision.
LEMMA TakeType ==
    ASSUME BucketTypeOK, NEW p \in Principals, NEW now \in Readings,
           NEW t \in Int, t <= Burst, Take(p, now, t), clock' = clock
    PROVE  BucketTypeOK'
<1>1. clock' \in Times /\ known' \subseteq Principals
  BY DEF BucketTypeOK, Take
<1>2. updated' \in [Principals -> Readings]
  BY DEF BucketTypeOK, Take
<1>3. (IF t >= Cost THEN t - Cost ELSE t) \in {x \in Int : x <= Burst}
  BY BucketAssumption
<1>4. tokens' \in [Principals -> {x \in Int : x <= Burst}]
  BY <1>3 DEF BucketTypeOK, Take
<1>5. verdict' \in [Principals -> [ok : BOOLEAN, at : Times]]
  <2>1. [ok |-> t >= Cost, at |-> clock] \in [ok : BOOLEAN, at : Times]
    BY DEF BucketTypeOK
  <2> QED BY <2>1 DEF BucketTypeOK, Take
<1>6. used' \in [Principals -> [Times -> Nat]]
  <2>1. [s \in Times |-> IF s <= clock THEN used[p][s] + Cost ELSE used[p][s]]
           \in [Times -> Nat]
    BY BucketAssumption DEF BucketTypeOK
  <2>2. Granted(p) \in [Principals -> [Times -> Nat]]
    BY <2>1 DEF BucketTypeOK, Granted
  <2> QED BY <2>2 DEF BucketTypeOK, Take
<1> QED BY <1>1, <1>2, <1>4, <1>5, <1>6 DEF BucketTypeOK

\* The effect of a decision, principal by principal: what was granted and what
\* is left add up to the replenished amount t in every window up to now.
LEMMA TakeFacts ==
    ASSUME BucketTypeOK, NEW p \in Principals, NEW now \in Readings,
           NEW t \in Int, Take(p, now, t)
    PROVE  /\ updated'[p] = now
           /\ t >= Cost => tokens'[p] = t - Cost
           /\ ~(t >= Cost) => tokens'[p] = t
           /\ verdict'[p] = [ok |-> t >= Cost, at |-> clock]
           /\ \A s \in Times : s <= clock =>
                 used'[p][s] + tokens'[p] = used[p][s] + t
           /\ \A s \in Times : s > clock => used'[p][s] = used[p][s]
           /\ \A s \in Times : used'[p][s] >= used[p][s]
           /\ \A q \in Principals : q # p =>
                 /\ updated'[q] = updated[q]
                 /\ tokens'[q] = tokens[q]
                 /\ used'[q] = used[q]
                 /\ verdict'[q] = verdict[q]
<1>1. /\ updated'[p] = now
      /\ t >= Cost => tokens'[p] = t - Cost
      /\ ~(t >= Cost) => tokens'[p] = t
      /\ verdict'[p] = [ok |-> t >= Cost, at |-> clock]
  BY DEF BucketTypeOK, Take
<1>2. \A q \in Principals : q # p =>
                 /\ updated'[q] = updated[q]
                 /\ tokens'[q] = tokens[q]
                 /\ verdict'[q] = verdict[q]
  BY DEF BucketTypeOK, Take
<1>3. \A q \in Principals : q # p => used'[q] = used[q]
  BY DEF BucketTypeOK, Take, Granted
<1>4. \A s \in Times : used[p][s] \in Nat /\ s \in Int
  <2>1. \A s \in Times : s \in Int
    BY BucketAssumption DEF Times
  <2> QED BY <2>1 DEF BucketTypeOK
<1>5. clock \in Int /\ Cost \in Nat
  BY BucketAssumption DEF BucketTypeOK, Times
<1>6. CASE t >= Cost
  <2>1. \A s \in Times : used'[p][s] = IF s <= clock THEN used[p][s] + Cost
                                                     ELSE used[p][s]
    BY <1>6 DEF BucketTypeOK, Take, Granted
  <2> QED BY <1>1, <1>2, <1>3, <1>4, <1>5, <1>6, <2>1
<1>7. CASE ~(t >= Cost)
  <2>1. used' = used
    BY <1>7 DEF Take
  <2> QED BY <1>1, <1>2, <1>3, <1>4, <1>5, <1>7, <2>1
<1> QED BY <1>6, <1>7

-----------------------------------------------------------------------------
(* The invariant.                                                           *)

LEMMA BucketInitInv ==
    ASSUME BucketInit PROVE BucketInv
<1>1. BucketTypeOK
  BY BucketAssumption DEF BucketInit, BucketTypeOK, Times, Readings
<1>2. UnusedElsewhere /\ ReadingBound /\ TokensFloor /\ Potential /\ Uncapped
  BY DEF BucketInit, UnusedElsewhere, ReadingBound, TokensFloor, Potential, Uncapped
<1> QED BY <1>1, <1>2 DEF BucketInv

LEMMA TickInv ==
    ASSUME BucketInv, Tick PROVE BucketInv'
<1> USE DEF BucketInv
<1>1. /\ clock \in Int /\ clock' = clock + 1 /\ clock' \in Times
      /\ \A s \in Times : s \in Int
  BY BucketAssumption DEF Tick, BucketTypeOK, Times
<1>2. UNCHANGED <<known, tokens, updated, verdict, used>>
  BY DEF Tick
<1>3. BucketTypeOK'
  BY <1>1, <1>2 DEF BucketTypeOK
<1>4. UnusedElsewhere'
  <2> SUFFICES ASSUME NEW p \in Principals, NEW s \in Times,
                      s > clock' \/ p \notin known
               PROVE  used[p][s] = 0
    BY <1>2 DEF UnusedElsewhere
  <2>1. s > clock \/ p \notin known
    BY <1>1
  <2> QED BY <2>1 DEF UnusedElsewhere
<1>5. \A p \in known : /\ p \in Principals /\ updated[p] \in Int
                       /\ tokens[p] \in Int /\ Lead \in Int
  BY BucketAssumption DEF BucketTypeOK, Readings
<1>6. ReadingBound'
  BY <1>1, <1>2, <1>5 DEF ReadingBound
<1>7. TokensFloor'
  <2> SUFFICES ASSUME NEW p \in known
               PROVE  tokens[p] + Rate * (clock + 1 + Lead - updated[p]) >= 0
    BY <1>1, <1>2 DEF TokensFloor
  <2>1. Rate * (clock + Lead - updated[p]) <= Rate * (clock + 1 + Lead - updated[p])
    BY <1>1, <1>5, RateMonotone
  <2>2. /\ Rate * (clock + Lead - updated[p]) \in Int
        /\ Rate * (clock + 1 + Lead - updated[p]) \in Int
    BY <1>1, <1>5, BucketAssumption
  <2> QED BY <1>5, <2>1, <2>2 DEF TokensFloor
<1>8. Potential'
  BY <1>2 DEF Potential
<1>9. Uncapped'
  <2> SUFFICES ASSUME NEW p \in known
               PROVE  \E s \in 0..clock' :
                         used[p][s] + tokens[p] >= Burst + Rate * (updated[p] - s - Lead)
    BY <1>2 DEF Uncapped
  <2>1. PICK s \in 0..clock :
             used[p][s] + tokens[p] >= Burst + Rate * (updated[p] - s - Lead)
    BY DEF Uncapped
  <2>2. s \in 0..clock'
    BY <1>1
  <2> QED BY <2>1, <2>2
<1> QED BY <1>3, <1>4, <1>6, <1>7, <1>8, <1>9

LEMMA AllowInv ==
    ASSUME BucketInv, NEW p \in Principals, NEW now \in Readings, Allow(p, now)
    PROVE  BucketInv'
<1> USE DEF BucketInv
<1> DEFINE t == Refill(p, now)
<1>1. /\ now \in (clock - Lag)..(clock + Lead)
      /\ Take(p, now, t)
      /\ clock' = clock
  BY DEF Allow
<1>2. /\ t \in Int
      /\ t <= Burst
      /\ p \notin known => t = Burst
      /\ p \in known =>
            /\ t <= tokens[p] + Rate * (now - updated[p])
            /\ t = Burst \/ t = tokens[p] + Rate * (now - updated[p])
  BY RefillFacts
<1> HIDE DEF t
<1>3. BucketTypeOK'
  BY <1>1, <1>2, TakeType
<1>4. /\ clock \in Nat /\ now \in Int /\ Lag \in Nat /\ Lead \in Nat
      /\ Burst \in Nat /\ Cost \in Nat /\ tokens[p] \in Int /\ updated[p] \in Int
      /\ tokens'[p] \in Int
      /\ \A s \in Times : s \in Int /\ used[p][s] \in Nat /\ used'[p][s] \in Nat
  <2>1. \A s \in Times : s \in Int
    BY BucketAssumption DEF Times
  <2>2. /\ clock \in Nat /\ now \in Int /\ Lag \in Nat /\ Lead \in Nat
        /\ Burst \in Nat /\ Cost \in Nat
    BY BucketAssumption DEF BucketTypeOK, Readings, Times
  <2>3. tokens[p] \in Int /\ tokens'[p] \in Int
    BY <1>3 DEF BucketTypeOK
  <2>4. updated[p] \in Int
    BY BucketAssumption DEF BucketTypeOK, Readings
  <2>5. \A s \in Times : used[p][s] \in Nat /\ used'[p][s] \in Nat
    BY <1>3 DEF BucketTypeOK
  <2> QED BY <2>1, <2>2, <2>3, <2>4, <2>5
<1>5. /\ updated'[p] = now
      /\ t >= Cost => tokens'[p] = t - Cost
      /\ ~(t >= Cost) => tokens'[p] = t
      /\ verdict'[p] = [ok |-> t >= Cost, at |-> clock]
      /\ \A s \in Times : s <= clock =>
            used'[p][s] + tokens'[p] = used[p][s] + t
      /\ \A s \in Times : s > clock => used'[p][s] = used[p][s]
      /\ \A s \in Times : used'[p][s] >= used[p][s]
      /\ \A q \in Principals : q # p =>
            /\ updated'[q] = updated[q]
            /\ tokens'[q] = tokens[q]
            /\ used'[q] = used[q]
            /\ verdict'[q] = verdict[q]
  <2>1. BucketTypeOK /\ t \in Int /\ Take(p, now, t)
    BY <1>1, <1>2
  <2> HIDE DEF BucketInv
  <2> QED BY <2>1, TakeFacts, Zenon
<1>6. known' = known \cup {p} /\ known \subseteq Principals
  BY <1>1 DEF Take, BucketTypeOK
<1>7. UnusedElsewhere'
  <2> SUFFICES ASSUME NEW q \in Principals, NEW s \in Times,
                      s > clock \/ q \notin known'
               PROVE  used'[q][s] = 0
    BY <1>1 DEF UnusedElsewhere
  <2>1. CASE q = p
    BY <1>5, <1>6, <2>1 DEF UnusedElsewhere
  <2>2. CASE q # p
    BY <1>5, <1>6, <2>2 DEF UnusedElsewhere
  <2> QED BY <2>1, <2>2
<1>8. ReadingBound'
  BY <1>1, <1>4, <1>5, <1>6 DEF ReadingBound
<1>9. TokensFloor'
  <2> SUFFICES ASSUME NEW q \in known'
               PROVE  tokens'[q] + Rate * (clock + Lead - updated'[q]) >= 0
    BY <1>1 DEF TokensFloor
  <2>1. CASE q # p
    BY <1>5, <1>6, <2>1 DEF TokensFloor
  <2>2. CASE q = p
    <3>1. Rate * 0 <= Rate * (clock + Lead - now)
      BY <1>1, <1>4, RateMonotone
    <3>2. Rate * 0 = 0 /\ Rate * (clock + Lead - now) \in Int
      BY <1>4, BucketAssumption
    <3>3. t + Rate * (clock + Lead - now) >= 0
      <4>1. CASE t = Burst
        BY <1>2, <1>4, <3>1, <3>2, <4>1
      <4>2. CASE p \in known /\ t = tokens[p] + Rate * (now - updated[p])
        <5>1. tokens[p] + Rate * (clock + Lead - updated[p]) >= 0
          BY <4>2 DEF TokensFloor
        <5>2. Rate * (clock + Lead - updated[p])
                = Rate * (now - updated[p]) + Rate * (clock + Lead - now)
          BY <1>4, BucketAssumption
        <5>3. Rate * (now - updated[p]) \in Int
          BY <1>4, BucketAssumption
        <5> QED BY <1>4, <3>2, <4>2, <5>1, <5>2, <5>3
      <4> QED BY <1>2, <4>1, <4>2
    <3> QED BY <1>2, <1>4, <1>5, <2>2, <3>1, <3>2, <3>3
  <2> QED BY <2>1, <2>2
<1>10. Potential'
  <2> SUFFICES ASSUME NEW q \in Principals, NEW s \in Times, used'[q][s] # 0
               PROVE  used'[q][s] + tokens'[q]
                         <= Burst + Rate * (updated'[q] - s + Lag)
    BY DEF Potential
  <2>1. CASE q # p
    BY <1>5, <2>1 DEF Potential
  <2>2. CASE q = p
    <3>1. s <= clock
      BY <1>4, <1>5, <2>2 DEF UnusedElsewhere
    <3>2. used'[p][s] + tokens'[p] = used[p][s] + t
      BY <1>5, <3>1
    <3>3. Rate * (now - s + Lag) \in Int
      BY <1>4, BucketAssumption
    <3>4. CASE used[p][s] = 0
      <4>1. Rate * 0 <= Rate * (now - s + Lag)
        BY <1>1, <1>4, <3>1, RateMonotone
      <4>2. Rate * 0 = 0
        BY BucketAssumption
      <4> QED BY <1>2, <1>4, <1>5, <2>2, <3>2, <3>3, <3>4, <4>1, <4>2
    <3>5. CASE used[p][s] # 0
      <4>1. p \in known
        BY <3>5 DEF UnusedElsewhere
      <4>2. used[p][s] + tokens[p] <= Burst + Rate * (updated[p] - s + Lag)
        BY <3>5 DEF Potential
      <4>3. Rate * (now - s + Lag)
              = Rate * (now - updated[p]) + Rate * (updated[p] - s + Lag)
        BY <1>4, BucketAssumption
      <4>4. /\ Rate * (now - updated[p]) \in Int
            /\ Rate * (updated[p] - s + Lag) \in Int
        BY <1>4, BucketAssumption
      <4> QED BY <1>2, <1>4, <1>5, <2>2, <3>2, <3>3, <4>1, <4>2, <4>3, <4>4
    <3> QED BY <3>4, <3>5
  <2> QED BY <2>1, <2>2
<1>11. Uncapped'
  <2> SUFFICES ASSUME NEW q \in known'
               PROVE  \E s \in 0..clock :
                         used'[q][s] + tokens'[q]
                            >= Burst + Rate * (updated'[q] - s - Lead)
    BY <1>1 DEF Uncapped
  <2>0. 0..clock \subseteq Times
    BY BucketAssumption DEF BucketTypeOK, Times
  <2>1. CASE q # p
    BY <1>5, <1>6, <2>1 DEF Uncapped
  <2>2. CASE q = p /\ t = Burst
    <3>1. clock \in 0..clock /\ clock \in Times
      BY <1>4 DEF BucketTypeOK
    <3>2. used'[p][clock] + tokens'[p] = used[p][clock] + Burst
      BY <1>4, <1>5, <2>2, <3>1
    <3>3. Rate * (now - clock - Lead) <= Rate * 0
      BY <1>1, <1>4, RateMonotone
    <3>4. Rate * 0 = 0 /\ Rate * (now - clock - Lead) \in Int
      BY <1>4, BucketAssumption
    <3>5. used'[p][clock] + tokens'[p] >= Burst + Rate * (updated'[p] - clock - Lead)
      BY <1>4, <1>5, <3>1, <3>2, <3>3, <3>4
    <3> QED BY <2>2, <3>1, <3>5
  <2>3. CASE q = p /\ p \in known /\ t = tokens[p] + Rate * (now - updated[p])
    <3>1. PICK s \in 0..clock :
             used[p][s] + tokens[p] >= Burst + Rate * (updated[p] - s - Lead)
      BY <2>3 DEF Uncapped
    <3>2. s \in Times /\ s <= clock
      BY <1>4, <2>0, <3>1
    <3>3. Rate * (now - s - Lead)
              = Rate * (now - updated[p]) + Rate * (updated[p] - s - Lead)
      BY <1>4, <3>2, BucketAssumption
    <3>4. /\ Rate * (now - updated[p]) \in Int
          /\ Rate * (updated[p] - s - Lead) \in Int
      BY <1>4, <3>2, BucketAssumption
    <3>5. used'[p][s] + tokens'[p] = used[p][s] + t
      BY <1>5, <3>2
    <3>6. used'[p][s] + tokens'[p] >= Burst + Rate * (now - s - Lead)
      BY <1>4, <2>3, <3>1, <3>2, <3>3, <3>4, <3>5
    <3> QED BY <1>5, <2>3, <3>1, <3>6
  <2> QED BY <1>2, <1>6, <2>1, <2>2, <2>3
<1> QED BY <1>3, <1>7, <1>8, <1>9, <1>10, <1>11

\* Every reachable state of the token bucket satisfies the potential argument.
THEOREM BucketInvariance == BucketSpec => []BucketInv
<1>1. BucketInit => BucketInv
  BY BucketInitInv
<1>2. BucketInv /\ [BucketNext]_bucketVars => BucketInv'
  <2> SUFFICES ASSUME BucketInv, [BucketNext]_bucketVars PROVE BucketInv'
    OBVIOUS
  <2>1. CASE Tick
    BY <2>1, TickInv
  <2>2. CASE \E p \in Principals, now \in Readings : Allow(p, now)
    BY <2>2, AllowInv
  <2>3. CASE UNCHANGED bucketVars
    BY <2>3 DEF bucketVars, BucketInv, BucketTypeOK, UnusedElsewhere,
                ReadingBound, TokensFloor, Potential, Uncapped
  <2> QED BY <2>1, <2>2, <2>3 DEF BucketNext
<1> QED BY <1>1, <1>2, PTL DEF BucketSpec

-----------------------------------------------------------------------------
(* What follows from the invariant.                                         *)

\* The limiter's state is well typed; in particular the refill of allow() never
\* leaves a bucket above its capacity.
THEOREM BucketTypeCorrect == BucketSpec => []BucketTypeOK
<1>1. BucketInv => BucketTypeOK
  BY DEF BucketInv
<1> QED BY <1>1, BucketInvariance, PTL

\* WindowBound for every rate, burst and error of the clock readings.
THEOREM BucketWindowBound == BucketSpec => []WindowBound
<1>1. BucketInv => WindowBound
  <2> SUFFICES ASSUME BucketInv, NEW p \in Principals, NEW s \in 0..clock
               PROVE  used[p][s] <= Burst + Rate * (clock - s + Lag + Lead)
    BY DEF WindowBound
  <2> USE DEF BucketInv
  <2>1. /\ clock \in Nat /\ Lag \in Nat /\ Lead \in Nat /\ Burst \in Nat
        /\ s \in Int /\ s <= clock /\ s \in Times
    BY BucketAssumption DEF BucketTypeOK, Times
  <2>2. used[p][s] \in Nat /\ tokens[p] \in Int
    BY <2>1 DEF BucketTypeOK
  <2>3. updated[p] \in Int
    BY BucketAssumption DEF BucketTypeOK, Readings
  <2>4. /\ Rate * (clock - s + Lag + Lead) \in Int
        /\ Rate * (updated[p] - s + Lag) \in Int
        /\ Rate * (clock + Lead - updated[p]) \in Int
    BY <2>1, <2>3, BucketAssumption
  <2>5. CASE used[p][s] = 0
    <3>1. Rate * 0 <= Rate * (clock - s + Lag + Lead) /\ Rate * 0 = 0
      BY <2>1, RateMonotone, BucketAssumption
    <3> QED BY <2>1, <2>4, <2>5, <3>1
  <2>6. CASE used[p][s] # 0
    <3>1. p \in known
      BY <2>1, <2>6 DEF UnusedElsewhere
    <3>2. used[p][s] + tokens[p] <= Burst + Rate * (updated[p] - s + Lag)
      BY <2>1, <2>6 DEF Potential
    <3>3. tokens[p] + Rate * (clock + Lead - updated[p]) >= 0
      BY <3>1 DEF TokensFloor
    <3>4. Rate * (clock - s + Lag + Lead)
            = Rate * (updated[p] - s + Lag) + Rate * (clock + Lead - updated[p])
      BY <2>1, <2>3, BucketAssumption
    <3> QED BY <2>1, <2>2, <2>4, <3>2, <3>3, <3>4
  <2> QED BY <2>5, <2>6
<1> QED BY <1>1, BucketInvariance, PTL

\* DenialJustified for every rate, burst and error of the clock readings: a
\* bucket that denies has lost nothing to the cap since the window's start.
THEOREM BucketDenialJustified == BucketSpec => DenialJustified
<1> DEFINE Justified(p) == \E s \in 0..clock :
              used[p][s] + Cost > Burst + Rate * (clock - s - Lag - Lead)
           DenyStep == \A p \in Principals :
              verdict'[p] # verdict[p] /\ ~verdict'[p].ok => Justified(p)
<1>1. BucketInv /\ BucketInv' /\ [BucketNext]_bucketVars => [DenyStep]_bucketVars
  <2> SUFFICES ASSUME BucketInv, BucketInv', BucketNext, NEW q \in Principals,
                      verdict'[q] # verdict[q], ~verdict'[q].ok
               PROVE  Justified(q)
    OBVIOUS
  <2> USE DEF BucketInv
  <2>1. verdict' # verdict
    OBVIOUS
  <2>2. PICK p \in Principals, now \in Readings : Allow(p, now)
    BY <2>1 DEF BucketNext, Tick
  <2> DEFINE t == Refill(p, now)
  <2>3. /\ now \in (clock - Lag)..(clock + Lead)
        /\ Take(p, now, t)
        /\ clock' = clock
    BY <2>2 DEF Allow
  <2>4. t \in Int
    BY RefillFacts
  <2> HIDE DEF t
  <2>5. /\ updated'[p] = now
        /\ ~(t >= Cost) => tokens'[p] = t
        /\ verdict'[p] = [ok |-> t >= Cost, at |-> clock]
        /\ \A r \in Principals : r # p => verdict'[r] = verdict[r]
    <3>1. BucketTypeOK
      OBVIOUS
    <3> HIDE DEF BucketInv
    <3> QED BY <2>3, <2>4, <3>1, TakeFacts, Zenon
  <2>6. q = p
    BY <2>5
  <2>7. ~(t >= Cost)
    <3> SUFFICES ASSUME t >= Cost PROVE FALSE
      OBVIOUS
    <3>1. (t >= Cost) = TRUE
      OBVIOUS
    <3>2. verdict'[p] = [ok |-> TRUE, at |-> clock]
      BY <2>5, <3>1, Zenon
    <3>3. verdict'[p].ok
      BY <3>2
    <3> QED BY <2>6, <3>3
  <2>8. /\ clock \in Nat /\ now \in Int /\ Lag \in Nat /\ Lead \in Nat
        /\ Burst \in Nat /\ Cost \in Nat
    BY BucketAssumption DEF BucketTypeOK, Readings, Times
  <2>9. used' = used /\ p \in known'
    BY <2>3, <2>7 DEF Take
  <2>10. PICK s \in 0..clock :
            used[p][s] + t >= Burst + Rate * (now - s - Lead)
    BY <2>3, <2>5, <2>7, <2>9 DEF Uncapped
  <2>11. s \in Times /\ s \in Int /\ used[p][s] \in Nat
    <3>1. s \in Times
      BY <2>10, BucketAssumption DEF BucketTypeOK, Times
    <3> QED BY <2>8, <3>1 DEF BucketTypeOK
  <2>12. Rate * (clock - s - Lag - Lead) <= Rate * (now - s - Lead)
    BY <2>3, <2>8, <2>11, RateMonotone
  <2>13. Rate * (clock - s - Lag - Lead) \in Int /\ Rate * (now - s - Lead) \in Int
    BY <2>8, <2>11, BucketAssumption
  <2>14. used[p][s] + Cost > Burst + Rate * (clock - s - Lag - Lead)
    BY <2>4, <2>7, <2>8, <2>10, <2>11, <2>12, <2>13
  <2> QED BY <2>6, <2>10, <2>14
<1> QED BY <1>1, BucketInvariance, PTL DEF BucketSpec, DenialJustified

-----------------------------------------------------------------------------
\* The bucket in Redis.

\* A call on the way to Redis carries a reading Allow may use.
CallFresh ==
    \A r \in Replicas : call[r].pc = "sent" =>
        /\ call[r].now \in (clock - Lag)..(clock + Lead)
        /\ call[r].now - Offset[r] <= clock
        /\ clock <= call[r].now - Offset[r] + Lag

KeyFloor ==
    \A p \in known :
        /\ expires[p] - Ttl <= clock
        /\ updated[p] <= expires[p] - Ttl + Lead
        /\ tokens[p] + Rate * (expires[p] - Ttl + Lead - updated[p]) >= 0

RedisInv == RedisTypeOK /\ CallFresh /\ KeyFloor

\* The time to live is a natural number of ticks.
LEMMA TtlNat == Ttl \in Nat
<1>1. Rate * TicksPerSec \in Nat /\ Rate * TicksPerSec > 0
  BY BucketAssumption, RedisAssumption
<1>2. Burst \div (Rate * TicksPerSec) \in Nat
  <2> DEFINE d == Rate * TicksPerSec
  <2>1. d \in Nat /\ d > 0
    BY <1>1
  <2> HIDE DEF d
  <2>2. Burst \div d \in Nat
    BY <2>1, BucketAssumption
  <2> QED BY <2>2 DEF d
<1>3. ASSUME NEW a \in Nat PROVE (a + 1) * TicksPerSec \in Nat
  BY RedisAssumption
<1> QED BY <1>2, <1>3 DEF Ttl

\* The shape of a call that is on its way to Redis.
LEMMA SentCall ==
    ASSUME RedisTypeOK, NEW r \in Replicas, call[r].pc = "sent"
    PROVE  call[r].p \in Principals /\ call[r].now \in Readings
<1>1. call[r] \in Calls
  BY DEF RedisTypeOK
<1>2. call[r] # IdleCall
  BY DEF IdleCall
<1>3. call[r] \notin [pc : {"ran"}, p : Principals, ok : BOOLEAN]
  OBVIOUS
<1>4. call[r] \in [pc : {"sent"}, p : Principals, now : Readings]
  BY <1>1, <1>2, <1>3 DEF Calls
<1> QED BY <1>4

LEMMA RedisInitInv ==
    ASSUME RedisInit PROVE RedisInv
<1>1. BucketTypeOK
  BY BucketInitInv DEF RedisInit, BucketInv
<1>2. expires \in [Principals -> 0..(MaxTime + Ttl)]
  BY TtlNat, BucketAssumption DEF RedisInit
<1>3. call \in [Replicas -> Calls]
  BY DEF RedisInit, Calls
<1>4. CallFresh
  BY DEF RedisInit, CallFresh, IdleCall
<1>5. KeyFloor
  BY DEF RedisInit, BucketInit, KeyFloor
<1> QED BY <1>1, <1>2, <1>3, <1>4, <1>5 DEF RedisInv, RedisTypeOK

\* What the script finds after the key has expired is what the in-memory
\* bucket would hold: both replenishments agree.
LEMMA RefillsAgree ==
    ASSUME TtlCovers, RedisInv, NEW p \in Principals, NEW now \in Readings,
           now \in (clock - Lag)..(clock + Lead)
    PROVE  LuaRefill(p, now) = Refill(p, now)
<1> USE DEF RedisInv
<1>1. CASE Live(p) \/ p \notin known
  BY <1>1 DEF LuaRefill, Refill, Live
<1>2. CASE p \in known /\ ~Live(p)
  <2>1. /\ clock \in Int /\ now \in Int /\ Lag \in Int /\ Lead \in Int
        /\ Burst \in Nat /\ Ttl \in Int /\ expires[p] \in Int
    BY TtlNat, BucketAssumption
       DEF RedisTypeOK, BucketTypeOK, Times, Readings
  <2>2. tokens[p] \in Int
    BY DEF RedisTypeOK, BucketTypeOK
  <2>3. updated[p] \in Int
    BY BucketAssumption DEF RedisTypeOK, BucketTypeOK, Readings
  <2>4. clock >= expires[p]
    BY <1>2, <2>1 DEF Live
  <2> DEFINE w == expires[p] - Ttl
  <2>5. /\ tokens[p] + Rate * (w + Lead - updated[p]) >= 0
        /\ w \in Int
    BY <1>2, <2>1 DEF KeyFloor
  <2>6. w + Ttl - Lag <= now
    BY <2>1, <2>4
  <2> HIDE DEF w
  <2>7. Rate * (Ttl - Lag - Lead) <= Rate * (now - w - Lead)
    BY <2>1, <2>5, <2>6, RateMonotone
  <2>8. Rate * (now - updated[p])
          = Rate * (w + Lead - updated[p]) + Rate * (now - w - Lead)
    BY <2>1, <2>3, <2>5, BucketAssumption
  <2>9. /\ Rate * (Ttl - Lag - Lead) \in Int /\ Rate * (now - w - Lead) \in Int
        /\ Rate * (w + Lead - updated[p]) \in Int
        /\ Rate * (now - updated[p]) \in Int
    BY <2>1, <2>3, <2>5, BucketAssumption
  <2>10. tokens[p] + Rate * (now - updated[p]) >= Burst
    BY <2>1, <2>2, <2>5, <2>7, <2>8, <2>9 DEF TtlCovers
  <2>11. (now - updated[p]) * Rate = Rate * (now - updated[p])
    BY <2>1, <2>3, BucketAssumption
  <2>12. Capped(tokens[p] + (now - updated[p]) * Rate) = Burst
    BY <2>1, <2>2, <2>9, <2>10, <2>11 DEF Capped
  <2> QED BY <1>2, <2>12 DEF LuaRefill, Refill
<1> QED BY <1>1, <1>2

\* Running the script is one call of the in-memory allow().
LEMMA ScriptIsAllow ==
    ASSUME TtlCovers, RedisInv, NEW r \in Replicas, Script(r)
    PROVE  Allow(call[r].p, call[r].now)
<1>1. call[r].pc = "sent"
  BY DEF Script
<1>2. call[r].p \in Principals /\ call[r].now \in Readings
  BY <1>1, SentCall DEF RedisInv
<1>3. call[r].now \in (clock - Lag)..(clock + Lead)
  BY <1>1 DEF RedisInv, CallFresh
<1>4. LuaRefill(call[r].p, call[r].now) = Refill(call[r].p, call[r].now)
  BY <1>2, <1>3, RefillsAgree
<1> QED BY <1>3, <1>4 DEF Script, Allow

\* The script fills the bucket up, or replenishes it as the in-memory limiter does.
LEMMA LuaRefillCases ==
    ASSUME NEW p, NEW now
    PROVE  \/ LuaRefill(p, now) = Burst
           \/ (p \in known /\ LuaRefill(p, now) = Refill(p, now))
<1>1. CASE Live(p)
  BY <1>1 DEF LuaRefill, Refill, Live
<1>2. CASE ~Live(p)
  BY <1>2 DEF LuaRefill
<1> QED BY <1>1, <1>2

LEMMA ScriptInv ==
    ASSUME RedisInv, NEW r \in Replicas, Script(r)
    PROVE  RedisInv'
<1> DEFINE p == call[r].p
           now == call[r].now
           t == LuaRefill(p, now)
<1>1. p \in Principals /\ now \in Readings /\ now \in (clock - Lag)..(clock + Lead)
  BY SentCall DEF Script, RedisInv, CallFresh
<1>2. t = Burst \/ (p \in known /\ t = Refill(p, now))
  BY LuaRefillCases
<1>3. BucketTypeOK
  BY DEF RedisInv, RedisTypeOK
<1>4. /\ t \in Int /\ t <= Burst
      /\ p \notin known => t = Burst
      /\ p \in known => \/ t = Burst
                        \/ t = tokens[p] + Rate * (now - updated[p])
  <2>1. CASE t = Burst
    BY <2>1, BucketAssumption
  <2>2. CASE p \in known /\ t = Refill(p, now)
    BY <1>1, <1>3, <2>2, RefillFacts
  <2> QED BY <1>2, <2>1, <2>2
<1>5. /\ Take(p, now, t) /\ clock' = clock
      /\ expires' = [expires EXCEPT ![p] = clock + Ttl]
      /\ call' = [call EXCEPT ![r] = [pc |-> "ran", p |-> p, ok |-> t >= Cost]]
  BY DEF Script
<1> HIDE DEF p, now, t
<1>6. BucketTypeOK'
  BY <1>1, <1>3, <1>4, <1>5, TakeType
<1>7. /\ clock \in Nat /\ clock <= MaxTime /\ now \in Int /\ Lag \in Nat
      /\ Lead \in Nat /\ Burst \in Nat /\ Cost \in Nat /\ Ttl \in Nat
  BY <1>1, <1>3, TtlNat, BucketAssumption DEF BucketTypeOK, Times, Readings
<1>8. expires' \in [Principals -> 0..(MaxTime + Ttl)]
  <2>1. clock + Ttl \in 0..(MaxTime + Ttl)
    BY <1>7, BucketAssumption
  <2> QED BY <1>5, <2>1 DEF RedisInv, RedisTypeOK
<1>9. call' \in [Replicas -> Calls]
  <2>1. [pc |-> "ran", p |-> p, ok |-> t >= Cost] \in Calls
    BY <1>1 DEF Calls
  <2> QED BY <1>5, <2>1 DEF RedisInv, RedisTypeOK
<1>10. CallFresh'
  <2> SUFFICES ASSUME NEW q \in Replicas, call'[q].pc = "sent"
               PROVE  /\ call'[q].now \in (clock - Lag)..(clock + Lead)
                      /\ call'[q].now - Offset[q] <= clock
                      /\ clock <= call'[q].now - Offset[q] + Lag
    BY <1>5 DEF CallFresh
  <2>1. q # r
    BY <1>5 DEF RedisInv, RedisTypeOK
  <2>2. call'[q] = call[q]
    BY <1>5, <2>1 DEF RedisInv, RedisTypeOK
  <2> QED BY <2>2 DEF RedisInv, CallFresh
<1>11. KeyFloor'
  <2> SUFFICES ASSUME NEW q \in known'
               PROVE  /\ expires'[q] - Ttl <= clock
                      /\ updated'[q] <= expires'[q] - Ttl + Lead
                      /\ tokens'[q] + Rate * (expires'[q] - Ttl + Lead - updated'[q]) >= 0
    BY <1>5 DEF KeyFloor
  <2>1. /\ updated'[p] = now
        /\ t >= Cost => tokens'[p] = t - Cost
        /\ ~(t >= Cost) => tokens'[p] = t
        /\ \A x \in Principals : x # p =>
              updated'[x] = updated[x] /\ tokens'[x] = tokens[x]
    BY <1>1, <1>3, <1>4, <1>5, TakeFacts
  <2>2. known' = known \cup {p} /\ known \subseteq Principals
    BY <1>3, <1>5 DEF Take, BucketTypeOK
  <2>3. CASE q # p
    <3>1. q \in known /\ expires'[q] = expires[q]
      BY <1>5, <2>2, <2>3 DEF RedisInv, RedisTypeOK
    <3> QED BY <2>1, <2>2, <2>3, <3>1 DEF RedisInv, KeyFloor
  <2>4. CASE q = p
    <3>1. expires'[p] = clock + Ttl
      BY <1>1, <1>5 DEF RedisInv, RedisTypeOK
    <3>2. expires'[p] - Ttl = clock
      BY <1>7, <3>1
    <3>3. Rate * 0 <= Rate * (clock + Lead - now) /\ Rate * 0 = 0
      BY <1>1, <1>7, RateMonotone, BucketAssumption
    <3>4. Rate * (clock + Lead - now) \in Int
      BY <1>7, BucketAssumption
    <3>5. t + Rate * (clock + Lead - now) >= 0
      <4>1. CASE t = Burst
        BY <1>4, <1>7, <3>3, <3>4, <4>1
      <4>2. CASE p \in known /\ t = tokens[p] + Rate * (now - updated[p])
        <5> DEFINE w == expires[p] - Ttl
        <5>1. /\ w <= clock /\ w \in Int
              /\ tokens[p] + Rate * (w + Lead - updated[p]) >= 0
          <6>1. expires[p] \in Int
            BY <1>1, <1>7, BucketAssumption DEF RedisInv, RedisTypeOK
          <6> QED BY <1>7, <4>2, <6>1 DEF RedisInv, KeyFloor
        <5> HIDE DEF w
        <5>2. tokens[p] \in Int /\ updated[p] \in Int
          <6>1. tokens[p] \in Int
            BY <1>1, <1>3 DEF BucketTypeOK
          <6>2. updated[p] \in Int
            BY <1>1, <1>3, BucketAssumption DEF BucketTypeOK, Readings
          <6> QED BY <6>1, <6>2
        <5>3. Rate * (w + Lead - updated[p]) <= Rate * (clock + Lead - updated[p])
          BY <1>7, <5>1, <5>2, RateMonotone
        <5>4. Rate * (clock + Lead - updated[p])
                = Rate * (now - updated[p]) + Rate * (clock + Lead - now)
          BY <1>7, <5>2, BucketAssumption
        <5>5. /\ Rate * (now - updated[p]) \in Int
              /\ Rate * (w + Lead - updated[p]) \in Int
          BY <1>7, <5>1, <5>2, BucketAssumption
        <5> QED BY <3>4, <4>2, <5>1, <5>2, <5>3, <5>4, <5>5
      <4> QED BY <1>4, <4>1, <4>2
    <3>6. tokens'[p] + Rate * (clock + Lead - now) >= 0
      BY <1>4, <1>7, <2>1, <3>3, <3>4, <3>5
    <3> QED BY <1>1, <1>7, <2>1, <2>4, <3>2, <3>6
  <2> QED BY <2>3, <2>4
<1> QED BY <1>6, <1>8, <1>9, <1>10, <1>11 DEF RedisInv, RedisTypeOK

LEMMA CallInv ==
    ASSUME RedisInv, NEW r \in Replicas, NEW p \in Principals, Call(r, p)
    PROVE  RedisInv'
<1> DEFINE c == [pc |-> "sent", p |-> p, now |-> clock + Offset[r]]
<1>1. call' = [call EXCEPT ![r] = c]
      /\ UNCHANGED <<clock, known, tokens, updated, verdict, used, expires>>
  BY DEF Call
<1>2. /\ clock \in Nat /\ clock <= MaxTime /\ Offset[r] \in Nat /\ Offset[r] <= Lead
      /\ Lag \in Nat /\ Lead \in Nat /\ MaxTime \in Nat
  BY BucketAssumption, RedisAssumption
     DEF RedisInv, RedisTypeOK, BucketTypeOK, Times
<1>3. clock + Offset[r] \in Readings
  BY <1>2 DEF Readings
<1>4. call' \in [Replicas -> Calls]
  BY <1>1, <1>3 DEF RedisInv, RedisTypeOK, Calls
<1>5. RedisTypeOK'
  BY <1>1, <1>4 DEF RedisInv, RedisTypeOK, BucketTypeOK
<1>6. CallFresh'
  <2> SUFFICES ASSUME NEW q \in Replicas, call'[q].pc = "sent"
               PROVE  /\ call'[q].now \in (clock - Lag)..(clock + Lead)
                      /\ call'[q].now - Offset[q] <= clock
                      /\ clock <= call'[q].now - Offset[q] + Lag
    BY <1>1 DEF CallFresh
  <2>1. CASE q = r
    <3>1. call'[r].now = clock + Offset[r]
      BY <1>1 DEF RedisInv, RedisTypeOK
    <3> QED BY <1>2, <2>1, <3>1
  <2>2. CASE q # r
    <3>1. call'[q] = call[q]
      BY <1>1, <2>2 DEF RedisInv, RedisTypeOK
    <3> QED BY <3>1 DEF RedisInv, CallFresh
  <2> QED BY <2>1, <2>2
<1>7. KeyFloor'
  BY <1>1 DEF RedisInv, KeyFloor
<1> QED BY <1>5, <1>6, <1>7 DEF RedisInv

LEMMA EndCallInv ==
    ASSUME RedisInv, NEW r \in Replicas, Return(r) \/ Fail(r)
    PROVE  RedisInv'
<1>1. call' = [call EXCEPT ![r] = IdleCall]
      /\ UNCHANGED <<clock, known, tokens, updated, verdict, used, expires>>
  BY DEF Return, Fail
<1>2. RedisTypeOK'
  BY <1>1 DEF RedisInv, RedisTypeOK, BucketTypeOK, Calls
<1>3. CallFresh'
  <2> SUFFICES ASSUME NEW q \in Replicas, call'[q].pc = "sent"
               PROVE  /\ call'[q].now \in (clock - Lag)..(clock + Lead)
                      /\ call'[q].now - Offset[q] <= clock
                      /\ clock <= call'[q].now - Offset[q] + Lag
    BY <1>1 DEF CallFresh
  <2>1. call'[q] = call[q]
    BY <1>1 DEF RedisInv, RedisTypeOK, IdleCall
  <2> QED BY <2>1 DEF RedisInv, CallFresh
<1>4. KeyFloor'
  BY <1>1 DEF RedisInv, KeyFloor
<1> QED BY <1>2, <1>3, <1>4 DEF RedisInv

LEMMA RedisTickInv ==
    ASSUME RedisInv, RedisTick PROVE RedisInv'
<1>1. /\ clock' = clock + 1 /\ clock < MaxTime /\ clock \in Nat
      /\ UNCHANGED <<known, tokens, updated, verdict, used, expires, call>>
  BY BucketAssumption DEF RedisTick, Tick, RedisInv, RedisTypeOK, BucketTypeOK, Times
<1>2. RedisTypeOK'
  <2>1. clock' \in Times
    BY <1>1, BucketAssumption DEF Times
  <2> QED BY <1>1, <2>1 DEF RedisInv, RedisTypeOK, BucketTypeOK
<1>3. CallFresh'
  <2> SUFFICES ASSUME NEW q \in Replicas, call'[q].pc = "sent"
               PROVE  /\ call'[q].now \in (clock' - Lag)..(clock' + Lead)
                      /\ call'[q].now - Offset[q] <= clock'
                      /\ clock' <= call'[q].now - Offset[q] + Lag
    BY DEF CallFresh
  <2>0. call[q].pc = "sent" /\ call'[q].now = call[q].now
    BY <1>1
  <2>1. call[q].now \in Int /\ Offset[q] \in Nat /\ Offset[q] <= Lead
    BY <2>0, SentCall, BucketAssumption, RedisAssumption DEF RedisInv, Readings
  <2>2. clock < call[q].now - Offset[q] + Lag
    BY <2>0 DEF RedisTick
  <2>3. /\ call[q].now \in (clock - Lag)..(clock + Lead)
        /\ call[q].now - Offset[q] <= clock
    BY <2>0 DEF RedisInv, CallFresh
  <2> QED BY <1>1, <2>0, <2>1, <2>2, <2>3, BucketAssumption
<1>4. KeyFloor'
  <2>1. \A p \in known : expires[p] \in Int
    BY TtlNat, BucketAssumption DEF RedisInv, RedisTypeOK, BucketTypeOK
  <2> QED BY <1>1, <2>1, TtlNat DEF RedisInv, KeyFloor
<1> QED BY <1>2, <1>3, <1>4 DEF RedisInv

\* Every reachable state of the Redis limiter keeps the fresh-call and
\* key-floor facts (the strengthening the refinement rests on).
THEOREM RedisInvariance == RedisSpec => []RedisInv
<1>1. RedisInit => RedisInv
  BY RedisInitInv
<1>2. RedisInv /\ [RedisNext]_redisVars => RedisInv'
  <2> SUFFICES ASSUME RedisInv, [RedisNext]_redisVars PROVE RedisInv'
    OBVIOUS
  <2>1. CASE RedisTick
    BY <2>1, RedisTickInv
  <2>2. CASE \E r \in Replicas, p \in Principals : Call(r, p)
    BY <2>2, CallInv
  <2>3. ASSUME NEW r \in Replicas, Script(r) \/ Return(r) \/ Fail(r)
        PROVE  RedisInv'
    BY <2>3, ScriptInv, EndCallInv
  <2>4. CASE UNCHANGED redisVars
    BY <2>4 DEF redisVars, RedisInv, RedisTypeOK, BucketTypeOK, CallFresh, KeyFloor
  <2> QED BY <2>1, <2>2, <2>3, <2>4 DEF RedisNext
<1> QED BY <1>1, <1>2, PTL DEF RedisSpec

\* The Redis limiter of N replicas makes only decisions a single in-memory
\* limiter could make: every step of a replica or of the server is a call of
\* the in-memory allow(), a tick, or leaves the bucket alone.
THEOREM RedisImplementsBucket == ASSUME TtlCovers PROVE RedisSpec => BucketSpec
<1>1. RedisInit => BucketInit
  BY DEF RedisInit
<1>2. RedisInv /\ [RedisNext]_redisVars => [BucketNext]_bucketVars
  <2> SUFFICES ASSUME RedisInv, [RedisNext]_redisVars PROVE [BucketNext]_bucketVars
    OBVIOUS
  <2>1. CASE RedisTick
    BY <2>1 DEF RedisTick, BucketNext
  <2>2. ASSUME NEW r \in Replicas, Script(r) PROVE BucketNext
    <3>1. Allow(call[r].p, call[r].now)
      BY <2>2, ScriptIsAllow
    <3>2. call[r].p \in Principals /\ call[r].now \in Readings
      BY <2>2, SentCall DEF Script, RedisInv
    <3> QED BY <3>1, <3>2 DEF BucketNext
  <2>3. CASE \E r \in Replicas, p \in Principals : Call(r, p)
    BY <2>3 DEF Call, bucketVars
  <2>4. CASE \E r \in Replicas : Return(r) \/ Fail(r)
    BY <2>4 DEF Return, Fail, bucketVars
  <2>5. CASE UNCHANGED redisVars
    BY <2>5 DEF redisVars, bucketVars
  <2> QED BY <2>1, <2>2, <2>3, <2>4, <2>5 DEF RedisNext
<1> QED BY <1>1, <1>2, RedisInvariance, PTL DEF RedisSpec, BucketSpec

\* The strict global limit: whatever the interleaving of the replicas, lost
\* answers and expired keys, the window bound holds for the shared bucket.
THEOREM RedisWindowBound == ASSUME TtlCovers PROVE RedisSpec => []WindowBound
BY RedisImplementsBucket, BucketWindowBound, PTL

\* The same for denials: a replica answers 429 only to a caller that has used
\* up some window, expired keys and lost answers included.
THEOREM RedisDenialJustified == ASSUME TtlCovers PROVE RedisSpec => DenialJustified
BY RedisImplementsBucket, BucketDenialJustified, PTL

\* The types of the shared bucket and of the calls on it, for every set of
\* replicas, every offset and delay, and whether or not the life of the key
\* covers a refill.
THEOREM RedisTypeCorrect == RedisSpec => []RedisTypeOK
<1>1. RedisInv => RedisTypeOK
  BY DEF RedisInv
<1> QED BY <1>1, RedisInvariance, PTL

\* Euclidean division as the time to live uses it.
LEMMA DivisionCovers ==
    ASSUME NEW b \in Nat, NEW d \in Nat, d > 0
    PROVE  (b \div d + 1) * d >= b
<1>1. b \div d \in Nat /\ (b % d) \in 0..(d - 1) /\ b = d * (b \div d) + (b % d)
  OBVIOUS
<1> QED BY <1>1

\* When the replicas do share a time base and calls are instantaneous, the time
\* to live the code computes always covers a refill: int(burst / rate) + 1.
THEOREM SharedTimeBaseCovers == ASSUME Lag = 0, Lead = 0 PROVE TtlCovers
<1> DEFINE d == Rate * TicksPerSec
           k == Burst \div d + 1
<1>1. d \in Nat /\ d > 0
  BY BucketAssumption, RedisAssumption
<1> HIDE DEF d
<1>2. k * d >= Burst /\ k \in Nat
  BY <1>1, DivisionCovers, BucketAssumption
<1> HIDE DEF k
<1>3. Rate * (k * TicksPerSec) = k * d
  BY <1>2, BucketAssumption, RedisAssumption DEF d
<1>4. Ttl = k * TicksPerSec
  BY DEF Ttl, k, d
<1>5. Ttl - Lag - Lead = Ttl
  BY TtlNat
<1> QED BY <1>2, <1>3, <1>4, <1>5 DEF TtlCovers

=============================================================================
