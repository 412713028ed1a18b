---------------------------- MODULE TokenBucket ----------------------------
(***************************************************************************)
(* TokenBucketLimiter (ratelimit.py): one bucket per principal, refilled   *)
(* lazily by the time that passed between two calls of allow().            *)
(*                                                                         *)
(* Tokens are counted in integer units (a request costs Cost units, a      *)
(* bucket holds Burst units, Rate units flow in per clock tick), so the    *)
(* float arithmetic of the code is exact here.                             *)
(*                                                                         *)
(* allow() reads the clock BEFORE it takes the lock, so between the        *)
(* reading and the locked section another caller may get in with a later   *)
(* reading: a call at real time `clock` may use any reading from           *)
(* clock - Lag to clock + Lead.  For the in-process limiter Lead = 0; the  *)
(* Redis limiter (module RedisLimiter) shares this specification with      *)
(* Lead = the skew between the replicas' clocks.                           *)
(***************************************************************************)
EXTENDS Integers

CONSTANTS Principals,   \* callers (OIDC subjects) that own a bucket
          Rate,         \* units replenished per tick
          Burst,        \* capacity of a bucket, in units
          Cost,         \* units one request costs
          Lag,          \* how old a clock reading may be when it is used
          Lead,         \* how far ahead of real time a reading may be
          MaxTime       \* bound of the model: the clock stops here

ASSUME BucketAssumption ==
    /\ Rate \in Nat
    /\ Burst \in Nat
    /\ Cost \in Nat \ {0}
    /\ Lag \in Nat
    /\ Lead \in Nat
    /\ MaxTime \in Nat

VARIABLES clock,     \* real time, in ticks
          known,     \* principals that have an entry in _buckets
          tokens,    \* _Bucket.tokens
          updated,   \* _Bucket.updated
          verdict,   \* the last answer of allow() and when it was given
          used       \* history: used[p][s] = units granted to p at or after s

bucketVars == <<clock, known, tokens, updated, verdict, used>>

Times == 0..MaxTime

Readings == (-Lag)..(MaxTime + Lead)

BucketTypeOK ==
    /\ clock \in Times
    /\ known \subseteq Principals
    /\ tokens \in [Principals -> {t \in Int : t <= Burst}]
    /\ updated \in [Principals -> Readings]
    /\ verdict \in [Principals -> [ok : BOOLEAN, at : Times]]
    /\ used \in [Principals -> [Times -> Nat]]

BucketInit ==
    /\ clock = 0
    /\ known = {}
    /\ tokens = [p \in Principals |-> 0]
    /\ updated = [p \in Principals |-> 0]
    /\ verdict = [p \in Principals |-> [ok |-> TRUE, at |-> 0]]
    /\ used = [p \in Principals |-> [s \in Times |-> 0]]

Capped(t) == IF t < Burst THEN t ELSE Burst

\* The bucket's tokens after the replenishment of a call that read `now`.
Refill(p, now) ==
    IF p \in known THEN Capped(tokens[p] + (now - updated[p]) * Rate) ELSE Burst

\* The history after a grant to p at the present time.
Granted(p) ==
    [used EXCEPT ![p] = [s \in Times |-> IF s <= clock THEN used[p][s] + Cost
                                                       ELSE used[p][s]]]

\* The decision and the write-back, given the replenished amount t.
Take(p, now, t) ==
    /\ known' = known \cup {p}
    /\ updated' = [updated EXCEPT ![p] = now]
    /\ tokens' = [tokens EXCEPT ![p] = IF t >= Cost THEN t - Cost ELSE t]
    /\ verdict' = [verdict EXCEPT ![p] = [ok |-> t >= Cost, at |-> clock]]
    /\ used' = IF t >= Cost THEN Granted(p) ELSE used

Allow(p, now) ==
    /\ now \in (clock - Lag)..(clock + Lead)
    /\ Take(p, now, Refill(p, now))
    /\ UNCHANGED clock

Tick ==
    /\ clock < MaxTime
    /\ clock' = clock + 1
    /\ UNCHANGED <<known, tokens, updated, verdict, used>>

BucketNext ==
    \/ Tick
    \/ \E p \in Principals, now \in Readings : Allow(p, now)

BucketSpec == BucketInit /\ [][BucketNext]_bucketVars

-----------------------------------------------------------------------------
(* The promise of a token bucket, stated over arbitrary windows of time.    *)

\* Over EVERY window [s, clock], not only since the bucket was created, a
\* principal is granted at most a full burst plus what flows in during the
\* window (and the error of the clock readings): however the refills, the cap
\* and out-of-order readings in allow() interleave.
WindowBound ==
    \A p \in Principals : \A s \in 0..clock :
        used[p][s] <= Burst + Rate * (clock - s + Lag + Lead)

\* allow() never starves a well-behaved caller: when it answers False, some
\* window ending now has used up its whole allowance (up to the error of the
\* clock readings), so that one more request would exceed it.
DenialJustified ==
    [][\A p \in Principals :
          verdict'[p] # verdict[p] /\ ~verdict'[p].ok =>
              \E s \in 0..clock :
                 used[p][s] + Cost > Burst + Rate * (clock - s - Lag - Lead)]_bucketVars

=============================================================================
