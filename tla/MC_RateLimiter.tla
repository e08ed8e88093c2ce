--------------------------- MODULE MC_RateLimiter ---------------------------
(* A small instance of RateLimiter in which every layer can refuse. *)
EXTENDS RateLimiter, TLC

LayerBurst == [api_key |-> 2, tenant |-> 1, ip |-> 1]
LayerRate == [api_key |-> 1, tenant |-> 1, ip |-> 1]

RequestSymmetry == Permutations(Requests)
=============================================================================
