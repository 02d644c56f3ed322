---------------------------- MODULE MCSnapshots ----------------------------
(* Bounds for checking Snapshots: one snapshot is retained, so that every  *)
(* second one evicts another, and what a list holds tells it from another; *)
(* a process starts a server twice; the store is missing or was written    *)
(* under a higher limit.                                                   *)
EXTENDS Snapshots, TLC

CONSTANTS i1, i2, i3

ThreeIds == {i1, i2, i3}
Unnamed(ids) == [n \in 1..2 |-> [id |-> ids[n], label |-> "none"]]
Stores == {Absent} \cup {Unnamed(ids) : ids \in {s \in [1..2 -> ThreeIds] : IsInjective(s)}}
Interchangeable == Permutations(ThreeIds)
=============================================================================
