--------------------------- MODULE MCRedisLimiter ---------------------------
(* The Redis limiter for TLC: two replicas whose clocks differ by one tick. *)
EXTENDS RedisLimiter, TLC
CONSTANTS p1, r1, r2

MCOffset == (r1 :> 0) @@ (r2 :> 1)

=============================================================================
