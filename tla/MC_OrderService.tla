--------------------------- MODULE MC_OrderService ---------------------------
(* Inputs for OrderService: the same key with two payloads, and another key. *)
EXTENDS OrderService

CONSTANTS k1, k2, f1, f2

SomeInputs == {[key |-> k1, fingerprint |-> f1], [key |-> k1, fingerprint |-> f2],
               [key |-> k2, fingerprint |-> f1]}
=============================================================================
