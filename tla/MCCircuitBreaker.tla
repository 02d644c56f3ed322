------------------------- MODULE MCCircuitBreaker -------------------------
(* Bounds for checking CircuitBreaker: two gated requests a and b and a    *)
(* health probe h.  Times are in ticks of about ten seconds: a request     *)
(* settles within one tick, and the cooldown is two, more than a request   *)
(* takes, as in every group without long polls (10 s and 30 s).            *)
EXTENDS CircuitBreaker
CONSTANTS a, b, h

ShortTimeouts == [r \in Requests |-> 1]
=============================================================================
