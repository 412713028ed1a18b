------------------------------ MODULE MCTools -------------------------------
(* A namespace where every kind of fault can come and go: a service with     *)
(* routes to two subsets of one host, bound to a gateway; two rules for that *)
(* host; three policies of which the first has a selector; a gateway.        *)
EXTENDS Tools, TLC

MCVirtualServices ==
    {[name |-> "v1", gateways |-> {"mesh", "g1"},
      routes |-> {[host |-> "h", subset |-> s] : s \in {"s1", "s2", NoSubset}}]}

MCDestinationRules ==
    {[host |-> "h", subsets |-> {"s1"}, mode |-> "DISABLE"],
     [host |-> "h", subsets |-> {"s2"}, mode |-> NoMode]}

MCPeerAuthentications ==
    {[name |-> 1, selector |-> TRUE, mode |-> "DISABLE"],
     [name |-> 2, selector |-> FALSE, mode |-> "PERMISSIVE"],
     [name |-> 3, selector |-> FALSE, mode |-> "STRICT"]}

=============================================================================
