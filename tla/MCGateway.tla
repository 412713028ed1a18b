----------------------------- MODULE MCGateway -----------------------------
(* Two replicas, two principals; requests that cover every early return of  *)
(* gateway(): no token, a bad one, a good one without the required group,   *)
(* and good ones whose groups come from "groups" or from "roles".           *)
EXTENDS Gateway, TLC
CONSTANTS p1, p2, r1, r2

MCOffset == [r \in Replicas |-> 0]

Req(bearer, token, groups, roles, sub) ==
    [bearer |-> bearer, token |-> token, groups |-> groups, roles |-> roles, sub |-> sub]

MCRequests == {
    Req(FALSE, "bad", {}, {}, p1),
    Req(TRUE, "bad", {}, {}, p1),
    Req(TRUE, "good", {"dev"}, {"sre"}, p1),
    Req(TRUE, "good", {"sre"}, {}, p1),
    Req(TRUE, "good", {}, {"sre"}, p2) }

=============================================================================
