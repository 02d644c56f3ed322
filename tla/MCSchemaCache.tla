--------------------------- MODULE MCSchemaCache ---------------------------
(* Bounds for checking SchemaCache: the schema changes once, two requests   *)
(* and two writes overlap, and the key of the schema is the one moved.     *)
EXTENDS SchemaCache

CONSTANTS r1, r2

OneKey == {"schema"}
Older == [k \in OneKey |-> 0]
=============================================================================
