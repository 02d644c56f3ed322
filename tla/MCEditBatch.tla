---------------------------- MODULE MCEditBatch ----------------------------
(* Model values for model checking EditBatch.                              *)
EXTENDS EditBatch, TLC

CONSTANTS b1, b2, b3, c1, i1

OneBatch     == {b1}
TwoBatches   == {b1, b2}
ThreeBatches == {b1, b2, b3}
OneSingle    == {c1}
OneImport    == {i1}

\* Batches are interchangeable, and so are single updates.
Interchangeable == Permutations(Batches) \cup Permutations(Singles)
=============================================================================
