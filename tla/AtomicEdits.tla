---------------------------- MODULE AtomicEdits ----------------------------
(* What the writing endpoints of the debug server promise their clients:   *)
(* an edit batch happens as a whole or not at all, a cell update happens   *)
(* once if it is accepted, an import happens row by row, and the answer    *)
(* tells which.                                                            *)
CONSTANTS Batches, Singles, Imports, Statements(_), None

Requests == Batches \cup Singles \cup Imports

VARIABLES
    stored,   \* the statements whose effect is in the database
    answer    \* None, "ok" or "error", for each request

Init ==
    /\ stored = {}
    /\ answer = [r \in Requests |-> None]

\* A batch takes effect as a whole, other requests statement by statement.
TakesEffect(r) ==
    /\ answer[r] = None
    /\ \/ r \in Batches /\ stored' = stored \cup Statements(r)
       \/ r \notin Batches /\ \E s \in Statements(r) : stored' = stored \cup {s}
    /\ UNCHANGED answer

\* A batch is accepted if it took effect and rejected if it did not; a cell
\* update that was rejected left no trace (an accepted one may match no row).
Answers(r) ==
    /\ answer[r] = None
    /\ \/ /\ r \in Batches => Statements(r) \subseteq stored
          /\ answer' = [answer EXCEPT ![r] = "ok"]
       \/ /\ r \notin Imports
          /\ Statements(r) \cap stored = {}
          /\ answer' = [answer EXCEPT ![r] = "error"]
    /\ UNCHANGED stored

Next == \E r \in Requests : TakesEffect(r) \/ Answers(r)

Spec == Init /\ [][Next]_<<stored, answer>>
=============================================================================
