------------------------- MODULE MCServerManager -------------------------
(* Bounds for checking ServerManager: two ports, and three chains, so that *)
(* a scan of an earlier session is out while two chains of the current one *)
(* overlap.                                                                *)
EXTENDS ServerManager, TLC
CONSTANTS p1, p2, c1, c2, c3

Interchangeable == Permutations(Ports) \cup Permutations(Polls)
=============================================================================
