-------------------------- MODULE MCPendingEdits --------------------------
(* Bounds for checking PendingEdits: a cell of table a, and rows inserted  *)
(* into and deleted from a and b, which references a.  Two changes begun in *)
(* each of two sessions let a restored draft meet edits of its own session; *)
(* the command that applies them may run twice at once.                    *)
EXTENDS PendingEdits

Edited == {"cell a", "insert a", "insert b", "delete a", "delete b"}
KindOf == [t \in Edited |->
    CASE t = "cell a" -> "cell" [] t \in {"insert a", "insert b"} -> "insert" [] OTHER -> "delete"]
TableOf == [t \in Edited |-> IF t \in {"insert b", "delete b"} THEN "b" ELSE "a"]
ValuesOf == [t \in Edited |-> IF t = "cell a" THEN {1, 2} ELSE {1}]
Keys == {<<"b", "a">>}
=============================================================================
