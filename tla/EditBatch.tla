----------------------------- MODULE EditBatch -----------------------------
(* The write handlers of the debug server on the connection they share     *)
(* with each other and with the host application: edit batches             *)
(* (runValidatedBatchStatements), cell updates (handleUpdate), imports     *)
(* (processImport) and single statements of the host.                      *)
(*                                                                         *)
(* A batch is not one call: BEGIN, each statement and COMMIT are separate  *)
(* awaited writeQuery calls, and nothing keeps other requests out between  *)
(* them.  A call is two steps: SQLite executes it (Execute...), and later  *)
(* the handler resumes with the outcome (Resume...).                       *)
(*                                                                         *)
(* Data is abstracted to which statements' effects are in the database.    *)
(* The checks for changed data that end a request are ChangeDetection's.   *)
EXTENDS Integers, FiniteSets

CONSTANTS
    Batches,     \* requests to /api/edits/apply
    Singles,     \* requests to /api/cell/update, or statements of the host
    Imports,     \* requests to /api/import
    Size,        \* statements of a batch, rows of an import
    Serial,      \* do the clients wait for each other's answers?
    None         \* Dart null

Requests == Batches \cup Singles \cup Imports
Length(r) == IF r \in Singles THEN 1 ELSE Size
Statements(r) == {<<r, k>> : k \in 1..Length(r)}
AllStatements == UNION {Statements(r) : r \in Requests}

ASSUME SizeAssumption == Size \in Nat \ {0}
ASSUME SerialAssumption == Serial \in BOOLEAN
ASSUME KindsAssumption ==
    Batches \cap Singles = {} /\ Batches \cap Imports = {} /\ Singles \cap Imports = {}
\* null is neither a set of statements nor an answer
ASSUME NullAssumption == (\A S \in SUBSET AllStatements : None # S) /\ None \notin {"ok", "error", 0, 1}

VARIABLES
    rows,      \* the statements whose effects the connection sees
    saved,     \* rows at BEGIN, None outside of a transaction
    changes,   \* what SELECT changes() answers: rows of the last statement
    pc,        \* the call a request waits for
    index,     \* the statement of its list a request is at
    outcome,   \* of the call: not executed yet, or completed, or thrown
    affected,  \* rows the statement of a single really changed
    answer,    \* None, "ok" or "error", for each request
    reported,  \* the rowsAffected a single was answered
    stuck      \* history: batches whose ROLLBACK has failed in the open transaction

connection == <<rows, saved, changes, stuck>>
vars == <<connection, pc, index, outcome, affected, answer, reported>>

Calls == {"begin", "statement", "commit", "rollback", "probe"}

TypeOK ==
    /\ rows \subseteq AllStatements
    /\ saved \in {None} \cup SUBSET AllStatements
    /\ changes \in 0..1
    /\ pc \in [Requests -> {"idle", "answered"} \cup Calls]
    /\ \A r \in Requests :
          /\ pc[r] \in {"begin", "commit", "rollback"} => r \in Batches
          /\ pc[r] = "probe" => r \in Singles
          /\ index[r] \in 1..Length(r)
    /\ index \in [Requests -> Nat]
    /\ outcome \in [Requests -> {"pending", "done", "thrown"}]
    /\ affected \in [Singles -> 0..1]
    /\ answer \in [Requests -> {None, "ok", "error"}]
    /\ reported \in [Singles -> {None} \cup 0..1]
    /\ stuck \subseteq Batches

Init ==
    /\ rows = {}
    /\ saved = None
    /\ changes = 0
    /\ pc = [r \in Requests |-> "idle"]
    /\ index = [r \in Requests |-> 1]
    /\ outcome = [r \in Requests |-> "pending"]
    /\ affected = [r \in Singles |-> 0]
    /\ answer = [r \in Requests |-> None]
    /\ reported = [r \in Singles |-> None]
    /\ stuck = {}

----------------------------------------------------------------------------
(* Faulty variants of the definitions below.                               *)

FirstCallAutocommit(r) == "statement"

AfterFailureNoRollback(r) == "answered"

----------------------------------------------------------------------------
(* Requests.                                                               *)

FirstCall(r) == IF r \in Batches THEN "begin" ELSE "statement"

\* The request is validated and its first call made.  Validation precedes any
\* call, so invalid requests never get here.
Arrives(r) ==
    /\ pc[r] = "idle"
    /\ Serial => \A q \in Requests : pc[q] \in {"idle", "answered"}
    /\ pc' = [pc EXCEPT ![r] = FirstCall(r)]
    /\ UNCHANGED <<connection, index, outcome, affected, answer, reported>>

\* The outcome of r's call, for the handler to resume with.
Settles(r, o) ==
    /\ outcome[r] = "pending"
    /\ outcome' = [outcome EXCEPT ![r] = o]
    /\ UNCHANGED <<pc, index, answer, reported>>

\* r makes its next call.
MakesCall(r, call) ==
    /\ pc' = [pc EXCEPT ![r] = call]
    /\ outcome' = [outcome EXCEPT ![r] = "pending"]

\* r is answered.
AnswersWith(r, a) ==
    /\ MakesCall(r, "answered")
    /\ answer' = [answer EXCEPT ![r] = a]

----------------------------------------------------------------------------
(* SQLite executes a call.                                                 *)

\* BEGIN IMMEDIATE: an error inside a transaction, and when another
\* connection holds the write lock.
ExecuteBegin(r) ==
    /\ pc[r] = "begin"
    /\ \/ saved = None /\ saved' = rows /\ Settles(r, "done")
       \/ UNCHANGED saved /\ Settles(r, "thrown")
    /\ UNCHANGED <<rows, changes, stuck, affected>>

\* A data statement: it violates a constraint and changes nothing, or it
\* changes its row; a single may find no row to change.
ExecuteStatement(r) ==
    /\ pc[r] = "statement"
    /\ \/ UNCHANGED <<rows, changes, affected>> /\ Settles(r, "thrown")
       \/ \E n \in IF r \in Singles THEN 0..1 ELSE {1} :
             /\ rows' = IF n = 0 THEN rows ELSE rows \cup {<<r, index[r]>>}
             /\ changes' = n
             /\ affected' = IF r \in Singles THEN [affected EXCEPT ![r] = n] ELSE affected
             /\ Settles(r, "done")
    /\ UNCHANGED <<saved, stuck>>

\* COMMIT: an error outside of a transaction, and, leaving the transaction
\* open, when another connection holds a lock.
ExecuteCommit(r) ==
    /\ pc[r] = "commit"
    /\ \/ saved # None /\ saved' = None /\ stuck' = {} /\ Settles(r, "done")
       \/ UNCHANGED <<saved, stuck>> /\ Settles(r, "thrown")
    /\ UNCHANGED <<rows, changes, affected>>

\* ROLLBACK: an error outside of a transaction; the host's writeQuery may
\* throw in one, too, and then the transaction stays open.
ExecuteRollback(r) ==
    /\ pc[r] = "rollback"
    /\ \/ saved # None /\ rows' = saved /\ saved' = None /\ stuck' = {} /\ Settles(r, "done")
       \/ UNCHANGED <<rows, saved>> /\ Settles(r, "thrown")
          /\ stuck' = IF saved = None THEN stuck ELSE stuck \cup {r}
    /\ UNCHANGED <<changes, affected>>

----------------------------------------------------------------------------
(* The handler resumes.                                                    *)

IsLast(r) == index[r] = Length(r)

\* What a batch does when one of its calls has thrown.
AfterFailure(r) == "rollback"

ResumeBegin(r) ==
    /\ pc[r] = "begin" /\ outcome[r] # "pending"
    /\ MakesCall(r, IF outcome[r] = "done" THEN "statement" ELSE AfterFailure(r))
    /\ UNCHANGED <<connection, index, affected, answer, reported>>

\* A batch goes on after a statement that completed.
ResumeBatch(r) ==
    /\ pc[r] = "statement" /\ outcome[r] # "pending" /\ r \in Batches
    /\ \/ outcome[r] = "done" /\ ~IsLast(r)
          /\ MakesCall(r, "statement") /\ index' = [index EXCEPT ![r] = @ + 1]
       \/ outcome[r] = "done" /\ IsLast(r)
          /\ MakesCall(r, "commit") /\ UNCHANGED index
       \/ outcome[r] = "thrown"
          /\ MakesCall(r, AfterFailure(r)) /\ UNCHANGED index
    /\ UNCHANGED <<connection, affected, answer, reported>>

\* An import collects the errors of its rows and goes on.
ResumeImport(r) ==
    /\ pc[r] = "statement" /\ outcome[r] # "pending" /\ r \in Imports
    /\ \/ ~IsLast(r) /\ MakesCall(r, "statement")
          /\ index' = [index EXCEPT ![r] = @ + 1] /\ UNCHANGED answer
       \/ IsLast(r) /\ AnswersWith(r, "ok") /\ UNCHANGED index
    /\ UNCHANGED <<connection, affected, reported>>

\* A cell update asks how many rows it changed, in a call of its own.
ResumeSingle(r) ==
    /\ pc[r] = "statement" /\ outcome[r] # "pending" /\ r \in Singles
    /\ \/ outcome[r] = "done" /\ MakesCall(r, "probe") /\ UNCHANGED answer
       \/ outcome[r] = "thrown" /\ AnswersWith(r, "error")
    /\ UNCHANGED <<connection, index, affected, reported>>

\* SELECT changes() answers; a failing probe reports 0.
Probes(r) ==
    /\ pc[r] = "probe"
    /\ \E n \in {changes, 0} : reported' = [reported EXCEPT ![r] = n]
    /\ AnswersWith(r, "ok")
    /\ UNCHANGED <<connection, index, affected>>

ResumeCommit(r) ==
    /\ pc[r] = "commit" /\ outcome[r] # "pending"
    /\ \/ outcome[r] = "done" /\ AnswersWith(r, "ok")
       \/ outcome[r] = "thrown" /\ MakesCall(r, AfterFailure(r)) /\ UNCHANGED answer
    /\ UNCHANGED <<connection, index, affected, reported>>

\* Faulty variant: the original error is swallowed after the rollback.
ResumeRollbackSwallows(r) ==
    /\ pc[r] = "rollback" /\ outcome[r] # "pending"
    /\ AnswersWith(r, "ok")
    /\ UNCHANGED <<connection, index, affected, reported>>

\* Whatever becomes of the rollback, the original error is rethrown.
ResumeRollback(r) ==
    /\ pc[r] = "rollback" /\ outcome[r] # "pending"
    /\ AnswersWith(r, "error")
    /\ UNCHANGED <<connection, index, affected, reported>>

Execute(r) == ExecuteBegin(r) \/ ExecuteStatement(r) \/ ExecuteCommit(r) \/ ExecuteRollback(r)
Resume(r) ==
    \/ ResumeBegin(r) \/ ResumeBatch(r) \/ ResumeImport(r) \/ ResumeSingle(r)
    \/ ResumeCommit(r) \/ ResumeRollback(r)

Step(r) == Arrives(r) \/ Execute(r) \/ Resume(r) \/ Probes(r)

AllAnswered == (\A r \in Requests : pc[r] = "answered") /\ UNCHANGED vars

Next == (\E r \in Requests : Step(r)) \/ AllAnswered

Spec == Init /\ [][Next]_vars
----------------------------------------------------------------------------
(* Properties.                                                             *)

\* What is in the database for good: what the open transaction would roll back to.
Stored == IF saved = None THEN rows ELSE saved

\* b will still end the transaction that may be open: it has calls of
\* statements, COMMIT or ROLLBACK before it.
WillEnd(b) ==
    \/ pc[b] = "begin" /\ outcome[b] = "done"
    \/ pc[b] = "statement"
    \/ pc[b] = "commit" /\ outcome[b] # "done"
    \/ pc[b] = "rollback" /\ outcome[b] = "pending"

\* A batch has failed: it is rolling back, or has reported an error.
Failed(b) == pc[b] = "rollback" \/ answer[b] = "error"

\* However batches break into each other's transactions, no transaction is
\* left open on the host's connection: someone is still going to end it.  Only
\* a ROLLBACK that itself failed leaves one, and its client gets an error.
NoTransactionLeak ==
    saved # None => \E b \in Batches : WillEnd(b) \/ (b \in stuck /\ Failed(b))

\* Effects vanish only in a rollback, and the batch that caused it reports an
\* error: while no batch fails, every completed statement is in the database.
Completed(b, k) ==
    \/ k < index[b]
    \/ k = index[b] /\ pc[b] = "statement" /\ outcome[b] = "done"
    \/ k = index[b] /\ (pc[b] = "commit" \/ answer[b] = "ok")

LossIsReported ==
    \/ \E b \in Batches : Failed(b)
    \/ /\ \A b \in Batches, k \in 1..Size : Completed(b, k) => <<b, k>> \in rows
       /\ \A s \in Singles : affected[s] = 1 => <<s, 1>> \in rows

\* "in a single SQLite transaction": of a batch that was answered an error,
\* nothing is in the database once everybody is answered.
RejectedBatchLeavesNothing ==
    (\A r \in Requests : pc[r] = "answered") =>
        \A b \in Batches : answer[b] = "error" => Statements(b) \cap Stored = {}

\* While the clients take turns the handlers keep the promise of AtomicEdits,
\* even beside a transaction that nobody was able to roll back.
Atomic == INSTANCE AtomicEdits WITH stored <- Stored
AtomicSpec == Atomic!Spec
=============================================================================
