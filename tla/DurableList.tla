---------------------------- MODULE DurableList ----------------------------
(* What a list mirrored to a store promises: the values it has had since   *)
(* the stored one are pending, oldest first; a later one may be stored or  *)
(* given up at any time, and a start continues from the stored value, or   *)
(* from an empty one when that cannot be read.                             *)
EXTENDS Integers, Sequences

CONSTANT Keep(_)  \* what a start keeps of a stored value

VARIABLES
    memory, stored, pending,
    failed  \* has the last use of the store failed?
vars == <<memory, stored, pending, failed>>

\* What a start finds.
Found(hasFailed) == IF hasFailed THEN <<>> ELSE Keep(stored)

Init == failed \in BOOLEAN /\ memory = Found(failed) /\ pending = <<>>

Change ==
    /\ pending' = Append(pending, memory')
    /\ UNCHANGED <<stored, failed>>

Store ==
    /\ pending # <<>>
    /\ stored' = Head(pending) /\ pending' = Tail(pending) /\ failed' = FALSE
    /\ UNCHANGED memory

GiveUp ==
    /\ pending # <<>>
    /\ pending' = Tail(pending) /\ failed' = TRUE
    /\ UNCHANGED <<memory, stored>>

Start ==
    /\ failed' \in BOOLEAN
    /\ memory' = Found(failed') /\ pending' = <<>>
    /\ UNCHANGED stored

Next == Change \/ Store \/ GiveUp \/ Start

Spec == Init /\ [][Next]_vars
=============================================================================
