------------------------- MODULE MCChangeDetection -------------------------
(* Model values and roles for model checking ChangeDetection.              *)
EXTENDS ChangeDetection

CONSTANTS a, b, p1, i1, e1

MCTables    == {a, b}
MCPollers   == {p1}
MCImporters == {i1}
=============================================================================
