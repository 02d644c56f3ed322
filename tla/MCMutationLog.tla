--------------------------- MODULE MCMutationLog ---------------------------
(* Bounds for checking MutationLog: two writes at a time, each to a table  *)
(* of its own, a panel, and a ring of two events of which three are        *)
(* recorded in a lifetime, so that the ring evicts.                        *)
EXTENDS MutationLog

CONSTANTS w1, w2, p1, a, b

OneTableEach == [w \in Writers |-> IF w = w1 THEN a ELSE b]
=============================================================================
