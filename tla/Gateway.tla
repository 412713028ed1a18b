------------------------------ MODULE Gateway ------------------------------
(***************************************************************************)
(* The ASGI gateway in front of the MCP server (middleware.py), on several *)
(* replicas that share the Redis limiter.  gateway() runs on the event     *)
(* loop and calls the token verification and the limiter synchronously, so *)
(* a replica handles one request at a time from its arrival until it is    *)
(* answered or handed to the MCP app: a replica whose limiter call is      *)
(* outstanding takes no other request, not even /healthz.                  *)
(***************************************************************************)
EXTENDS RedisLimiter, FiniteSets, FiniteSetsExt

CONSTANTS Requests,     \* the requests clients may send to an MCP path
          Required,     \* OIDC_REQUIRED_GROUPS
          MaxRequests   \* bound of the model: requests handled in a behaviour

ASSUME GatewayAssumption ==
    /\ \A q \in Requests : q.sub \in Principals
    /\ IsFiniteSet(Replicas) /\ IsFiniteSet(Principals)
    /\ MaxRequests \in Nat

AuthOutcomes == {"missing_token", "rejected", "error", "ok"}

VARIABLES authTotal,    \* sre_agent_auth_total, by outcome
          rateLimited,  \* sre_agent_ratelimited_total, by principal (429)
          forwarded,    \* requests handed to the MCP app, by principal
          failed        \* limiter raised, so the request ended in a 500

counters == <<authTotal, rateLimited, forwarded, failed>>
gatewayVars == <<redisVars, counters>>

GatewayTypeOK ==
    /\ RedisTypeOK
    /\ authTotal \in [AuthOutcomes -> 0..MaxRequests]
    /\ SumFunction(authTotal) <= MaxRequests
    /\ rateLimited \in [Principals -> 0..MaxRequests]
    /\ forwarded \in [Principals -> 0..MaxRequests]
    /\ failed \in [Principals -> 0..MaxRequests]

GatewayInit ==
    /\ RedisInit
    /\ authTotal = [o \in AuthOutcomes |-> 0]
    /\ rateLimited = [p \in Principals |-> 0]
    /\ forwarded = [p \in Principals |-> 0]
    /\ failed = [p \in Principals |-> 0]

\* claims.get("groups", []) or claims.get("roles", []).
ClaimedGroups(q) == IF q.groups # {} THEN q.groups ELSE q.roles

\* authorize_claims on validated claims.
Authorized(q) == Required = {} \/ Required \cap ClaimedGroups(q) # {}

\* verify_bearer_token: the key fetch or the signature check may raise for any
\* token ("error") and does for a bad one; the claims of a good one are then
\* authorized.
VerifyOutcomes(q) ==
    {"error"} \cup
    IF q.token = "good" THEN {IF Authorized(q) THEN "ok" ELSE "rejected"} ELSE {}

\* How the part of gateway() before the limiter may end for a request.
AuthOf(q) == IF q.bearer THEN VerifyOutcomes(q) ELSE {"missing_token"}

\* The event loop of r is free, and the bound of the model is not reached.
Free(r) ==
    /\ call[r] = IdleCall
    /\ SumFunction(authTotal) < MaxRequests

\* /healthz, /readyz, /metrics and non-HTTP scopes bypass everything.
Public(r) ==
    /\ call[r] = IdleCall
    /\ UNCHANGED gatewayVars

\* Mutant: record_auth in the except branch and once more after it.
RefuseTwice(r, q) ==
    /\ Free(r)
    /\ \E o \in AuthOf(q) \ {"ok"} :
          authTotal' = [authTotal EXCEPT ![o] = @ + 2]
    /\ UNCHANGED <<redisVars, rateLimited, forwarded, failed>>

\* A request that ends in a 401.
Refuse(r, q) ==
    /\ Free(r)
    /\ \E o \in AuthOf(q) \ {"ok"} :
          authTotal' = [authTotal EXCEPT ![o] = @ + 1]
    /\ UNCHANGED <<redisVars, rateLimited, forwarded, failed>>

\* A verified request: record_auth("ok"), then limiter.allow is entered.
Accept(r, q) ==
    /\ Free(r)
    /\ "ok" \in AuthOf(q)
    /\ authTotal' = [authTotal EXCEPT !["ok"] = @ + 1]
    /\ Call(r, q.sub)
    /\ UNCHANGED <<rateLimited, forwarded, failed>>

\* Mutant: the 429 is sent without record_ratelimited.
LimitUncounted(r) ==
    /\ Return(r)
    /\ ~call[r].ok
    /\ UNCHANGED counters

\* allow() returned False: record_ratelimited and a 429.
Limit(r) ==
    /\ Return(r)
    /\ ~call[r].ok
    /\ rateLimited' = [rateLimited EXCEPT ![call[r].p] = @ + 1]
    /\ UNCHANGED <<authTotal, forwarded, failed>>

\* Mutant: the limiter's answer is ignored.
ForwardAlways(r) ==
    /\ Return(r)
    /\ forwarded' = [forwarded EXCEPT ![call[r].p] = @ + 1]
    /\ UNCHANGED <<authTotal, rateLimited, failed>>

\* allow() returned True: the request goes on to the MCP app.
Forward(r) ==
    /\ Return(r)
    /\ call[r].ok
    /\ forwarded' = [forwarded EXCEPT ![call[r].p] = @ + 1]
    /\ UNCHANGED <<authTotal, rateLimited, failed>>

\* Mutant: an exception of the limiter lets the request through.
FailOpen(r) ==
    /\ Fail(r)
    /\ forwarded' = [forwarded EXCEPT ![call[r].p] = @ + 1]
    /\ UNCHANGED <<authTotal, rateLimited, failed>>

\* allow() raised (Redis unreachable or its answer lost): nothing in gateway()
\* catches it, so the request ends in a 500 of the server.
LimiterError(r) ==
    /\ Fail(r)
    /\ failed' = [failed EXCEPT ![call[r].p] = @ + 1]
    /\ UNCHANGED <<authTotal, rateLimited, forwarded>>

GatewayNext ==
    \/ RedisTick /\ UNCHANGED counters
    \/ \E r \in Replicas :
          \/ Public(r)
          \/ \E q \in Requests : Refuse(r, q) \/ Accept(r, q)
          \/ Script(r) /\ UNCHANGED counters
          \/ Limit(r)
          \/ Forward(r)
          \/ LimiterError(r)

GatewaySpec == GatewayInit /\ [][GatewayNext]_gatewayVars

-----------------------------------------------------------------------------

Busy == {r \in Replicas : call[r] # IdleCall}

\* Every request the audit counts as authenticated is accounted for: forwarded,
\* answered 429, ended in a 500 because the limiter raised, or still waiting
\* for the limiter; the metrics of the gateway lose and invent nothing, however
\* the replicas and failures interleave.
Accounting ==
    authTotal["ok"] = SumFunction(forwarded) + SumFunction(rateLimited)
                      + SumFunction(failed) + Cardinality(Busy)

\* Requests whose units the script has taken and that are not yet forwarded.
InHand(p) ==
    Cardinality({r \in Replicas : call[r].pc = "ran" /\ call[r].p = p /\ call[r].ok})

\* Each forwarded request has paid for itself exactly once, and the only units
\* that buy nothing are those of requests whose limiter call failed: no request
\* is let through by a failure or by another caller's tokens.
ChargedOnce ==
    \A p \in Principals :
        /\ Cost * (forwarded[p] + InHand(p)) <= used[p][0]
        /\ used[p][0] <= Cost * (forwarded[p] + InHand(p) + failed[p])

\* The limit end to end: the MCP app never sees more requests of a principal,
\* over all replicas, than a burst plus the inflow since the start.
EndToEndLimit ==
    \A p \in Principals :
        Cost * forwarded[p] <= Burst + Rate * (clock + Lag + Lead)

=============================================================================
