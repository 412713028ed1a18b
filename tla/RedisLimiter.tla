---------------------------- MODULE RedisLimiter ----------------------------
(***************************************************************************)
(* RedisTokenBucketLimiter (ratelimit.py): the bucket lives in a Redis     *)
(* hash with a time to live, and N gateway replicas run the same Lua       *)
(* script against it.  A call is three steps: the replica reads its wall   *)
(* clock and sends the script (Call); Redis runs it atomically (Script);   *)
(* the replica gets the answer (Return), or an exception because the       *)
(* connection failed before or after the script ran (Fail).                *)
(*                                                                         *)
(* The module EXTENDS TokenBucket and keeps its variables, so that "the    *)
(* same decisions as the in-memory limiter" is the formula BucketSpec      *)
(* itself, with the last written tokens and timestamp as the in-memory     *)
(* bucket: what an expired key has lost must not be able to matter.        *)
(***************************************************************************)
EXTENDS TokenBucket

CONSTANTS Replicas,     \* gateway replicas that share the Redis server
          Offset,       \* Offset[r]: how far ahead the wall clock of r is
          TicksPerSec   \* clock ticks per second (EXPIRE counts seconds)

ASSUME RedisAssumption ==
    /\ TicksPerSec \in Nat \ {0}
    /\ Rate > 0
    /\ Offset \in [Replicas -> 0..Lead]

VARIABLES expires,   \* when Redis drops the key (meaningful for p in known)
          call       \* call[r]: the call of allow() in progress on replica r

redisVars == <<clock, known, tokens, updated, verdict, used, expires, call>>

\* Mutant: int(burst / rate) without the extra second.
TtlShort == (Burst \div (Rate * TicksPerSec)) * TicksPerSec

\* int(burst / rate) + 1 seconds.  Both operands are positive, so max(1, .)
\* of the code never applies.
Ttl == (Burst \div (Rate * TicksPerSec) + 1) * TicksPerSec

IdleCall == [pc |-> "idle"]

Calls == {IdleCall}
    \cup [pc : {"sent"}, p : Principals, now : Readings]
    \cup [pc : {"ran"}, p : Principals, ok : BOOLEAN]

RedisTypeOK ==
    /\ BucketTypeOK
    /\ expires \in [Principals -> 0..(MaxTime + Ttl)]
    /\ call \in [Replicas -> Calls]

RedisInit ==
    /\ BucketInit
    /\ expires = [p \in Principals |-> 0]
    /\ call = [r \in Replicas |-> IdleCall]

\* HMGET finds the hash: it was written and its time to live has not run out.
Live(p) == p \in known /\ clock < expires[p]

\* Mutants: a refill without the cap, and a missing key read as an empty bucket.
LuaRefillUncapped(p, now) ==
    IF Live(p) THEN tokens[p] + (now - updated[p]) * Rate ELSE Burst
LuaRefillFromZero(p, now) ==
    IF Live(p) THEN Capped(tokens[p] + (now - updated[p]) * Rate) ELSE 0

\* tokens after the replenishment in the Lua script.
LuaRefill(p, now) ==
    IF Live(p) THEN Capped(tokens[p] + (now - updated[p]) * Rate) ELSE Burst

\* RedisTokenBucketLimiter.allow, up to sending the script.
Call(r, p) ==
    /\ call[r] = IdleCall
    /\ call' = [call EXCEPT ![r] = [pc |-> "sent", p |-> p, now |-> clock + Offset[r]]]
    /\ UNCHANGED <<clock, known, tokens, updated, verdict, used, expires>>

\* Redis runs _LUA_TOKEN_BUCKET: one atomic step, write-back and EXPIRE included.
Script(r) ==
    /\ call[r].pc = "sent"
    /\ LET p == call[r].p
           t == LuaRefill(p, call[r].now)
       IN  /\ Take(p, call[r].now, t)
           /\ expires' = [expires EXCEPT ![p] = clock + Ttl]
           /\ call' = [call EXCEPT ![r] = [pc |-> "ran", p |-> p, ok |-> t >= Cost]]
    /\ UNCHANGED clock

\* allow() returns bool(int(result)).
Return(r) ==
    /\ call[r].pc = "ran"
    /\ call' = [call EXCEPT ![r] = IdleCall]
    /\ UNCHANGED <<clock, known, tokens, updated, verdict, used, expires>>

\* The client raises: the request or the answer was lost.  Tokens the script
\* has taken stay taken.
Fail(r) ==
    /\ call[r].pc # "idle"
    /\ call' = [call EXCEPT ![r] = IdleCall]
    /\ UNCHANGED <<clock, known, tokens, updated, verdict, used, expires>>

\* Time passes; a script reaches Redis at most Lag ticks after the clock was
\* read (the assumption on the network and the client's timeouts).
RedisTick ==
    /\ \A r \in Replicas :
          call[r].pc = "sent" => clock < call[r].now - Offset[r] + Lag
    /\ Tick
    /\ UNCHANGED <<expires, call>>

RedisNext ==
    \/ RedisTick
    \/ \E r \in Replicas, p \in Principals : Call(r, p)
    \/ \E r \in Replicas : Script(r) \/ Return(r) \/ Fail(r)

RedisSpec == RedisInit /\ [][RedisNext]_redisVars

\* The time to live covers a complete refill and the error of the clock
\* readings.  With the defaults (rate 5, burst 30, time to live 7 s) it holds
\* while skew and delay together stay within one second.
TtlCovers == Rate * (Ttl - Lag - Lead) >= Burst

=============================================================================
