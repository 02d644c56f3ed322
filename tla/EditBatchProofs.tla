-------------------------- MODULE EditBatchProofs --------------------------
(* Theorems about EditBatch, for any number of concurrent requests and any *)
(* number of statements.                                                   *)
EXTENDS EditBatch, TLAPS

LEMMA StatementsAreIn ==
    ASSUME NEW r \in Requests, NEW k \in 1..Length(r)
    PROVE  <<r, k>> \in AllStatements
  BY DEF AllStatements, Statements

LEMMA LengthType == \A r \in Requests : Length(r) \in Nat \ {0}
  BY SizeAssumption DEF Length

LEMMA InitType == Init => TypeOK
  BY LengthType DEF Init, TypeOK

LEMMA NextType == TypeOK /\ [Next]_vars => TypeOK'
  <1> SUFFICES ASSUME TypeOK, [Next]_vars PROVE TypeOK'
    OBVIOUS
  <1> USE KindsAssumption DEF Calls, connection
  <1>1. ASSUME NEW r \in Requests, Step(r) PROVE TypeOK'
    <2>1. CASE Arrives(r)
      BY <2>1 DEF Arrives, FirstCall, TypeOK
    <2>2. CASE ExecuteBegin(r)
      BY <2>2 DEF ExecuteBegin, Settles, TypeOK
    <2>3. CASE ExecuteStatement(r)
      <3>1. <<r, index[r]>> \in AllStatements
        BY StatementsAreIn DEF TypeOK
      <3>2. rows' \subseteq AllStatements /\ changes' \in 0..1 /\ affected' \in [Singles -> 0..1]
        BY <2>3, <3>1 DEF ExecuteStatement, TypeOK
      <3>3. outcome' \in [Requests -> {"pending", "done", "thrown"}]
        BY <2>3 DEF ExecuteStatement, Settles, TypeOK
      <3>4. UNCHANGED <<saved, stuck, pc, index, answer, reported>>
        BY <2>3 DEF ExecuteStatement, Settles
      <3> QED BY <3>2, <3>3, <3>4 DEF TypeOK
    <2>4. CASE ExecuteCommit(r)
      BY <2>4 DEF ExecuteCommit, Settles, TypeOK
    <2>5. CASE ExecuteRollback(r)
      <3>1. r \in Batches
        BY <2>5 DEF ExecuteRollback, TypeOK
      <3> QED BY <2>5, <3>1 DEF ExecuteRollback, Settles, TypeOK
    <2>6. CASE ResumeBegin(r)
      BY <2>6 DEF ResumeBegin, MakesCall, AfterFailure, TypeOK
    <2>7. CASE ResumeBatch(r)
      BY <2>7, LengthType DEF ResumeBatch, MakesCall, AfterFailure, IsLast, TypeOK
    <2>8. CASE ResumeImport(r)
      BY <2>8, LengthType DEF ResumeImport, AnswersWith, MakesCall, IsLast, TypeOK
    <2>9. CASE ResumeSingle(r)
      BY <2>9 DEF ResumeSingle, AnswersWith, MakesCall, TypeOK
    <2>10. CASE Probes(r)
      BY <2>10 DEF Probes, AnswersWith, MakesCall, TypeOK
    <2>11. CASE ResumeCommit(r)
      BY <2>11 DEF ResumeCommit, AnswersWith, MakesCall, AfterFailure, TypeOK
    <2>12. CASE ResumeRollback(r)
      BY <2>12 DEF ResumeRollback, AnswersWith, MakesCall, TypeOK
    <2> QED BY <1>1, <2>1, <2>2, <2>3, <2>4, <2>5, <2>6, <2>7, <2>8, <2>9, <2>10, <2>11, <2>12
            DEF Step, Execute, Resume
  <1>2. CASE AllAnswered \/ UNCHANGED vars
    BY <1>2 DEF AllAnswered, vars, TypeOK
  <1> QED BY <1>1, <1>2 DEF Next

\* The state of the connection and of its users is well typed.
THEOREM TypeCorrect == Spec => []TypeOK
  BY InitType, NextType, PTL DEF Spec

----------------------------------------------------------------------------
(* Answers and failures.                                                   *)

\* A request has its answer only once it makes no more calls.
AnswersComeLast == \A r \in Requests : answer[r] # None => pc[r] = "answered"

LEMMA NextAnswersLast == TypeOK /\ AnswersComeLast /\ [Next]_vars => AnswersComeLast'
  <1> SUFFICES ASSUME TypeOK, AnswersComeLast, [Next]_vars PROVE AnswersComeLast'
    OBVIOUS
  <1> USE DEF AnswersComeLast, connection
  <1>1. ASSUME NEW r \in Requests, Step(r) PROVE AnswersComeLast'
    <2>1. CASE Arrives(r)
      BY <2>1, NullAssumption DEF Arrives, TypeOK
    <2>2. CASE Execute(r)
      BY <2>2 DEF Execute, ExecuteBegin, ExecuteStatement, ExecuteCommit, ExecuteRollback, Settles
    <2>3. CASE ResumeBegin(r) \/ ResumeBatch(r)
      BY <2>3 DEF ResumeBegin, ResumeBatch, MakesCall, TypeOK
    <2>4. CASE ResumeImport(r) \/ ResumeSingle(r)
      BY <2>4 DEF ResumeImport, ResumeSingle, AnswersWith, MakesCall, TypeOK
    <2>5. CASE ResumeCommit(r) \/ ResumeRollback(r) \/ Probes(r)
      BY <2>5 DEF ResumeCommit, ResumeRollback, Probes, AnswersWith, MakesCall, TypeOK
    <2> QED BY <1>1, <2>1, <2>2, <2>3, <2>4, <2>5 DEF Step, Resume
  <1>2. CASE AllAnswered \/ UNCHANGED vars
    BY <1>2 DEF AllAnswered, vars
  <1> QED BY <1>1, <1>2 DEF Next

\* The handlers answer at the end.
THEOREM AnswersLast == Spec => []AnswersComeLast
  <1>1. Init => AnswersComeLast
    BY DEF Init, AnswersComeLast
  <1> QED BY <1>1, TypeCorrect, NextAnswersLast, PTL DEF Spec

\* A batch that has failed stays so.
LEMMA FailedIsStable ==
    ASSUME TypeOK, AnswersComeLast, [Next]_vars, NEW b \in Batches, Failed(b)
    PROVE  Failed(b)'
  <1> USE DEF Failed, connection
  <1>0. b \in Requests
    BY DEF Requests
  <1>1. ASSUME NEW r \in Requests, Step(r) PROVE Failed(b)'
    <2>1. CASE Arrives(r)
      BY <1>0, <2>1, NullAssumption DEF Arrives, TypeOK, AnswersComeLast
    <2>2. CASE Execute(r)
      BY <2>2 DEF Execute, ExecuteBegin, ExecuteStatement, ExecuteCommit, ExecuteRollback, Settles
    <2>3. CASE ResumeBegin(r) \/ ResumeBatch(r)
      BY <1>0, <2>3 DEF ResumeBegin, ResumeBatch, MakesCall, TypeOK
    <2>4. CASE ResumeImport(r) \/ ResumeSingle(r)
      BY <1>0, <2>4, KindsAssumption
         DEF ResumeImport, ResumeSingle, AnswersWith, MakesCall, TypeOK
    <2>5. CASE ResumeCommit(r) \/ Probes(r)
      BY <1>0, <2>5, NullAssumption
         DEF ResumeCommit, Probes, AnswersWith, MakesCall, TypeOK, AnswersComeLast
    <2>6. CASE ResumeRollback(r)
      BY <1>0, <2>6 DEF ResumeRollback, AnswersWith, MakesCall, TypeOK
    <2> QED BY <1>1, <2>1, <2>2, <2>3, <2>4, <2>5, <2>6 DEF Step, Resume
  <1>2. CASE AllAnswered \/ UNCHANGED vars
    BY <1>2 DEF AllAnswered, vars
  <1> QED BY <1>1, <1>2 DEF Next

----------------------------------------------------------------------------
(* Open transactions.                                                      *)

LEMMA NextEnds ==
    TypeOK /\ AnswersComeLast /\ NoTransactionLeak /\ [Next]_vars => NoTransactionLeak'
  <1> DEFINE Responsible(b) == WillEnd(b) \/ (b \in stuck /\ Failed(b))
  <1> SUFFICES ASSUME TypeOK, AnswersComeLast, NoTransactionLeak, [Next]_vars, saved' # None
               PROVE  \E b \in Batches : Responsible(b)'
    BY DEF NoTransactionLeak
  <1> USE DEF connection
  \* a step of r that leaves the transaction alone, and r still to end it if
  \* it was
  <1>a. ASSUME NEW r \in Requests, saved # None, stuck \subseteq stuck',
               \A q \in Requests : q # r => pc'[q] = pc[q] /\ outcome'[q] = outcome[q],
               r \in Batches /\ WillEnd(r) => WillEnd(r)'
        PROVE  \E b \in Batches : Responsible(b)'
    <2>1. PICK b \in Batches : Responsible(b)
      BY <1>a DEF NoTransactionLeak
    <2>2. CASE WillEnd(b)
      BY <1>a, <2>2 DEF WillEnd, Requests
    <2>3. CASE b \in stuck /\ Failed(b)
      BY <1>a, <2>3, FailedIsStable
    <2> QED BY <2>1, <2>2, <2>3
  <1>1. ASSUME NEW r \in Requests, Step(r) PROVE \E b \in Batches : Responsible(b)'
    <2>1. CASE Arrives(r)
      BY <2>1, <1>a DEF Arrives, WillEnd, TypeOK
    <2>2. CASE ExecuteBegin(r)
      <3>1. CASE saved = None
        <4>1. r \in Batches /\ pc'[r] = "begin" /\ outcome'[r] = "done"
          BY <2>2, <3>1 DEF ExecuteBegin, Settles, TypeOK
        <4> QED BY <4>1 DEF WillEnd
      <3>2. CASE saved # None
        BY <2>2, <3>2, <1>a DEF ExecuteBegin, Settles, WillEnd, TypeOK
      <3> QED BY <3>1, <3>2
    <2>3. CASE ExecuteStatement(r)
      BY <2>3, <1>a DEF ExecuteStatement, Settles, WillEnd, TypeOK
    <2>4. CASE ExecuteCommit(r)
      BY <2>4, <1>a DEF ExecuteCommit, Settles, WillEnd, TypeOK
    <2>5. CASE ExecuteRollback(r)
      <3>1. r \in Batches /\ pc'[r] = "rollback" /\ saved # None /\ r \in stuck'
        BY <2>5 DEF ExecuteRollback, Settles, TypeOK
      <3> QED BY <3>1 DEF Failed
    <2>6. CASE ResumeBegin(r)
      BY <2>6, <1>a DEF ResumeBegin, MakesCall, AfterFailure, WillEnd, TypeOK
    <2>7. CASE ResumeBatch(r)
      BY <2>7, <1>a DEF ResumeBatch, MakesCall, AfterFailure, WillEnd, TypeOK
    <2>8. CASE ResumeImport(r)
      BY <2>8, <1>a, KindsAssumption DEF ResumeImport, AnswersWith, MakesCall, TypeOK
    <2>9. CASE ResumeSingle(r)
      BY <2>9, <1>a, KindsAssumption DEF ResumeSingle, AnswersWith, MakesCall, TypeOK
    <2>10. CASE Probes(r)
      BY <2>10, <1>a DEF Probes, AnswersWith, MakesCall, WillEnd, TypeOK
    <2>11. CASE ResumeCommit(r)
      BY <2>11, <1>a DEF ResumeCommit, AnswersWith, MakesCall, AfterFailure, WillEnd, TypeOK
    <2>12. CASE ResumeRollback(r)
      BY <2>12, <1>a DEF ResumeRollback, AnswersWith, MakesCall, WillEnd, TypeOK
    <2> QED BY <1>1, <2>1, <2>2, <2>3, <2>4, <2>5, <2>6, <2>7, <2>8, <2>9, <2>10, <2>11, <2>12
            DEF Step, Execute, Resume
  <1>2. CASE AllAnswered \/ UNCHANGED vars
    BY <1>2 DEF AllAnswered, vars, NoTransactionLeak, WillEnd, Failed
  <1> QED BY <1>1, <1>2 DEF Next

\* Whatever batches do to each other's transactions, none is left open on the
\* host's connection: while one is open, some batch still has a statement,
\* COMMIT or ROLLBACK call before it, or its ROLLBACK failed in just that
\* transaction and it reports the error.
THEOREM TransactionsEnd == Spec => []NoTransactionLeak
  <1>1. Init => NoTransactionLeak
    BY DEF Init, NoTransactionLeak
  <1> QED BY <1>1, TypeCorrect, AnswersLast, NextEnds, PTL DEF Spec

----------------------------------------------------------------------------
(* Completed statements.                                                   *)

\* The second disjunct of LossIsReported.
NothingLost ==
    /\ \A b \in Batches, k \in 1..Size : Completed(b, k) => <<b, k>> \in rows
    /\ \A s \in Singles : affected[s] = 1 => <<s, 1>> \in rows

\* A batch completes a statement by executing it; whatever else it does, it
\* has completed no more than before.
LEMMA CompletedBefore ==
    ASSUME TypeOK, AnswersComeLast, NEW r \in Requests, Step(r), ~ExecuteStatement(r),
           NEW b \in Batches, NEW k \in 1..Size, Completed(b, k)'
    PROVE  Completed(b, k)
  <1> USE DEF Completed, connection
  <1>0. b \in Requests /\ b \notin Imports /\ b \notin Singles /\ Size \in Nat
    BY KindsAssumption, SizeAssumption DEF Requests
  <1>1. CASE r # b
    <2>1. index'[b] = index[b] /\ pc'[b] = pc[b] /\ outcome'[b] = outcome[b] /\ answer'[b] = answer[b]
      <3>1. CASE Arrives(r) \/ Execute(r)
        BY <1>0, <1>1, <3>1 DEF Arrives, Execute, ExecuteBegin, ExecuteStatement, ExecuteCommit,
              ExecuteRollback, Settles, TypeOK
      <3>2. CASE ResumeBegin(r) \/ ResumeBatch(r) \/ ResumeImport(r)
        BY <1>0, <1>1, <3>2 DEF ResumeBegin, ResumeBatch, ResumeImport, AnswersWith, MakesCall, TypeOK
      <3>3. CASE ResumeSingle(r) \/ Probes(r) \/ ResumeCommit(r) \/ ResumeRollback(r)
        BY <1>0, <1>1, <3>3 DEF ResumeSingle, Probes, ResumeCommit, ResumeRollback, AnswersWith,
              MakesCall, TypeOK
      <3> QED BY <3>1, <3>2, <3>3 DEF Step, Resume
    <2> QED BY <2>1
  <1>2. CASE r = b
    <2>1. CASE Arrives(b)
      BY <1>0, <2>1 DEF Arrives, FirstCall, TypeOK
    <2>2. CASE ExecuteBegin(b) \/ ExecuteCommit(b) \/ ExecuteRollback(b)
      BY <1>0, <2>2 DEF ExecuteBegin, ExecuteCommit, ExecuteRollback, Settles, TypeOK
    <2>3. CASE ResumeBegin(b)
      BY <1>0, <2>3 DEF ResumeBegin, MakesCall, AfterFailure, TypeOK
    <2>4. CASE ResumeBatch(b)
      <3>1. answer'[b] # "ok"
        BY <1>0, <2>4, NullAssumption DEF ResumeBatch, AnswersComeLast
      <3>2. CASE outcome[b] = "thrown"
        BY <1>0, <2>4, <3>1, <3>2 DEF ResumeBatch, MakesCall, AfterFailure, TypeOK
      <3>3. CASE outcome[b] = "done" /\ IsLast(b)
        BY <1>0, <2>4, <3>1, <3>3 DEF ResumeBatch, MakesCall, TypeOK
      <3>4. CASE outcome[b] = "done" /\ ~IsLast(b)
        <4>1. index'[b] = index[b] + 1 /\ pc'[b] = "statement" /\ outcome'[b] = "pending"
          BY <1>0, <2>4, <3>4 DEF ResumeBatch, MakesCall, TypeOK
        <4>2. index[b] \in Nat /\ k \in Nat /\ k < index[b] + 1
          BY <1>0, <3>1, <4>1 DEF TypeOK
        <4> QED BY <4>2, <2>4, <3>4 DEF ResumeBatch
      <3> QED BY <3>2, <3>3, <3>4, <2>4 DEF ResumeBatch
    <2>5. CASE ResumeCommit(b) \/ ResumeRollback(b)
      BY <1>0, <2>5 DEF ResumeCommit, ResumeRollback, AnswersWith, MakesCall, AfterFailure, TypeOK
    <2>6. ~ResumeImport(b) /\ ~ResumeSingle(b) /\ ~Probes(b)
      BY <1>0 DEF ResumeImport, ResumeSingle, Probes, TypeOK
    <2> QED BY <1>2, <2>1, <2>2, <2>3, <2>4, <2>5, <2>6 DEF Step, Execute, Resume
  <1> QED BY <1>1, <1>2

LEMMA NextLoses ==
    TypeOK /\ AnswersComeLast /\ LossIsReported /\ [Next]_vars => LossIsReported'
  <1> SUFFICES ASSUME TypeOK, AnswersComeLast, LossIsReported, [Next]_vars PROVE LossIsReported'
    OBVIOUS
  <1> USE DEF connection
  <1>1. CASE \E b \in Batches : Failed(b)
    <2>1. PICK b \in Batches : Failed(b)
      BY <1>1
    <2>2. Failed(b)'
      BY <2>1, FailedIsStable
    <2> QED BY <2>2 DEF Failed, LossIsReported
  <1>2. CASE ~\E b \in Batches : Failed(b)
    <2>0. NothingLost
      BY <1>2 DEF LossIsReported, Failed, NothingLost
    <2>1. ASSUME NEW r \in Requests, Step(r) PROVE NothingLost'
      <3>1. CASE ExecuteStatement(r)
        <4>1. rows \subseteq rows'
          BY <3>1 DEF ExecuteStatement
        <4>2. ASSUME NEW b \in Batches, NEW k \in 1..Size, Completed(b, k)'
              PROVE  <<b, k>> \in rows'
          <5>1. b \in Requests /\ b \notin Singles
            BY KindsAssumption DEF Requests
          <5>2. pc' = pc /\ index' = index /\ answer' = answer
            BY <3>1 DEF ExecuteStatement, Settles
          <5>3. CASE r = b /\ outcome'[r] = "done"
            <6>1. <<r, index[r]>> \in rows' /\ pc[r] = "statement"
              BY <3>1, <5>1, <5>3 DEF ExecuteStatement, Settles, TypeOK
            <6>2. k < index[b] \/ k = index[b]
              BY <4>2, <5>2 DEF Completed
            <6>3. k < index[b] => <<b, k>> \in rows
              BY <2>0 DEF NothingLost, Completed
            <6> QED BY <4>1, <6>1, <6>2, <6>3, <5>3
          <5>4. CASE ~(r = b /\ outcome'[r] = "done")
            <6>1. outcome'[b] = "done" => outcome[b] = "done"
              BY <3>1, <5>1, <5>4 DEF ExecuteStatement, Settles, TypeOK
            <6>2. Completed(b, k)
              BY <4>2, <5>2, <6>1 DEF Completed
            <6> QED BY <2>0, <4>1, <6>2 DEF NothingLost
          <5> QED BY <5>3, <5>4
        <4>3. ASSUME NEW s \in Singles, affected'[s] = 1 PROVE <<s, 1>> \in rows'
          <5>1. CASE affected[s] = 1
            BY <2>0, <4>1, <5>1 DEF NothingLost
          <5>2. CASE affected[s] # 1
            <6>1. s \in Requests /\ index[s] = 1
              BY DEF TypeOK, Length, Requests
            <6>2. r = s /\ <<r, index[r]>> \in rows'
              BY <3>1, <4>3, <5>2 DEF ExecuteStatement, TypeOK
            <6> QED BY <6>1, <6>2
          <5> QED BY <5>1, <5>2
        <4> QED BY <4>2, <4>3 DEF NothingLost
      <3>2. CASE ~ExecuteStatement(r)
        <4>1. ~ExecuteRollback(r)
          BY <1>2 DEF ExecuteRollback, Failed, TypeOK
        <4>2. rows' = rows /\ affected' = affected
          BY <2>1, <3>2, <4>1 DEF Step, Execute, Resume, Arrives, ExecuteBegin, ExecuteCommit,
             ResumeBegin, ResumeBatch, ResumeImport, ResumeSingle, ResumeCommit, ResumeRollback, Probes
        <4>3. \A b \in Batches, k \in 1..Size : Completed(b, k)' => Completed(b, k)
          BY <2>1, <3>2, CompletedBefore
        <4> QED BY <2>0, <4>2, <4>3 DEF NothingLost
      <3> QED BY <3>1, <3>2
    <2>2. ASSUME AllAnswered \/ UNCHANGED vars PROVE NothingLost'
      BY <2>0, <2>2 DEF AllAnswered, vars, NothingLost, Completed
    <2>3. NothingLost'
      BY <2>1, <2>2 DEF Next
    <2> QED BY <2>3 DEF LossIsReported, NothingLost, Completed
  <1> QED BY <1>1, <1>2

\* Whatever concurrent requests do to each other, effects of completed
\* statements vanish only when a batch fails, and it reports an error: while
\* none has failed, all of them are in the database.
THEOREM LossesAreReported == Spec => []LossIsReported
  <1>1. Init => LossIsReported
    BY NullAssumption, SizeAssumption DEF Init, LossIsReported, Completed, Requests
  <1> QED BY <1>1, TypeCorrect, AnswersLast, NextLoses, PTL DEF Spec

----------------------------------------------------------------------------
(* Clients that wait for each other's answers.                             *)

Untouched(r) == Statements(r) \cap Stored = {}

Active(r) == pc[r] \in Calls
OneAtATime == \A q, r \in Requests : Active(q) /\ Active(r) => q = r

\* b is in its transaction; b has committed it.
Opened(b) ==
    \/ pc[b] = "begin" /\ outcome[b] = "done"
    \/ pc[b] = "statement"
    \/ pc[b] = "commit" /\ outcome[b] # "done"
Committed(b) == pc[b] = "commit" /\ outcome[b] = "done"

\* A batch has the transaction for itself: until it has committed nothing of
\* it is stored, and until then the connection sees exactly what it has done.
BatchTurn(b) ==
    /\ pc[b] \in {"idle", "begin"} => index[b] = 1
    /\ pc[b] = "commit" => IsLast(b)
    /\ pc[b] # "answered" /\ ~Committed(b) => Untouched(b)
    /\ Opened(b) => saved # None /\ rows = saved \cup {x \in Statements(b) : Completed(b, x[2])}
    /\ Committed(b) => saved = None /\ Statements(b) \subseteq rows

\* A single has no trace before its statement completed.
SingleTurn(s) ==
    pc[s] = "idle" \/ (pc[s] = "statement" /\ outcome[s] # "done") => Untouched(s)

Turns ==
    /\ OneAtATime
    /\ \A r \in Requests : pc[r] = "idle" => outcome[r] = "pending"
    /\ \A b \in Batches : BatchTurn(b)
    /\ \A s \in Singles : SingleTurn(s)

\* All that the proofs below know of a state.
SerialInv == TypeOK /\ AnswersComeLast /\ Turns

LEMMA InitTurns == Init => Turns
  <1> SUFFICES ASSUME Init PROVE Turns
    OBVIOUS
  <1>1. \A r \in Requests : pc[r] = "idle" /\ ~Active(r) /\ outcome[r] = "pending" /\ Untouched(r)
    BY DEF Init, Active, Calls, Untouched, Stored
  <1>2. \A b \in Batches : BatchTurn(b)
    BY <1>1 DEF Init, BatchTurn, Opened, Committed, Requests
  <1>3. \A s \in Singles : SingleTurn(s)
    BY <1>1 DEF SingleTurn, Requests
  <1> QED BY <1>1, <1>2, <1>3 DEF Turns, OneAtATime

\* A step of r leaves the other requests alone; only an arrival begins to be
\* handled.
LEMMA StepOthers ==
    ASSUME TypeOK, NEW r \in Requests, Step(r)
    PROVE  /\ \A q \in Requests : q # r =>
                 /\ pc'[q] = pc[q] /\ index'[q] = index[q] /\ outcome'[q] = outcome[q]
                 /\ answer'[q] = answer[q]
           /\ \A q \in Singles : q # r => affected'[q] = affected[q] /\ reported'[q] = reported[q]
           /\ Arrives(r) \/ Active(r)
           /\ pc'[r] # "idle"
  <1> USE DEF connection, Active, Calls
  <1>1. CASE Arrives(r)
    BY <1>1 DEF Arrives, FirstCall, TypeOK
  <1>2. CASE ExecuteBegin(r) \/ ExecuteCommit(r) \/ ExecuteRollback(r)
    BY <1>2 DEF ExecuteBegin, ExecuteCommit, ExecuteRollback, Settles, TypeOK
  <1>3. CASE ExecuteStatement(r)
    BY <1>3 DEF ExecuteStatement, Settles, TypeOK
  <1>4. CASE ResumeBegin(r) \/ ResumeBatch(r)
    BY <1>4 DEF ResumeBegin, ResumeBatch, MakesCall, AfterFailure, TypeOK
  <1>5. CASE ResumeImport(r) \/ ResumeSingle(r)
    BY <1>5 DEF ResumeImport, ResumeSingle, AnswersWith, MakesCall, TypeOK
  <1>6. CASE ResumeCommit(r) \/ ResumeRollback(r)
    BY <1>6 DEF ResumeCommit, ResumeRollback, AnswersWith, MakesCall, AfterFailure, TypeOK
  <1>7. CASE Probes(r)
    BY <1>7 DEF Probes, AnswersWith, MakesCall, TypeOK
  <1> QED BY <1>1, <1>2, <1>3, <1>4, <1>5, <1>6, <1>7 DEF Step, Execute, Resume

\* What a step of r stores are statements of r.
LEMMA StoresOwn ==
    ASSUME SerialInv, NEW r \in Requests, Step(r)
    PROVE  Stored' \subseteq Stored \cup Statements(r)
  <1> USE DEF Stored, connection, SerialInv
  <1>1. CASE ExecuteBegin(r) \/ ExecuteRollback(r)
    BY <1>1 DEF ExecuteBegin, ExecuteRollback
  <1>2. CASE ExecuteStatement(r)
    <2>1. <<r, index[r]>> \in Statements(r)
      BY DEF TypeOK, Statements
    <2> QED BY <1>2, <2>1 DEF ExecuteStatement
  <1>3. CASE ExecuteCommit(r)
    <2>1. r \in Batches /\ pc[r] = "commit" /\ outcome[r] = "pending"
      BY <1>3 DEF ExecuteCommit, Settles, TypeOK
    <2>2. rows \subseteq saved \cup Statements(r)
      BY <2>1 DEF Turns, BatchTurn, Opened
    <2> QED BY <1>3, <2>2 DEF ExecuteCommit
  <1>4. CASE Arrives(r) \/ Resume(r) \/ Probes(r)
    BY <1>4 DEF Arrives, Resume, ResumeBegin, ResumeBatch, ResumeImport, ResumeSingle, ResumeCommit,
                ResumeRollback, Probes
  <1> QED BY <1>1, <1>2, <1>3, <1>4 DEF Step, Execute

LEMMA StatementsDiffer ==
    ASSUME NEW q \in Requests, NEW r \in Requests, q # r
    PROVE  Statements(q) \cap Statements(r) = {}
  BY DEF Statements

\* The invariant survives for every request other than the one that moves.
LEMMA OtherTurns ==
    ASSUME Serial, SerialInv, NEW r \in Requests, Step(r)
    PROVE  /\ \A b \in Batches : b # r => BatchTurn(b)'
           /\ \A s \in Singles : s # r => SingleTurn(s)'
  <1>1. ASSUME NEW q \in Requests, q # r
        PROVE  /\ ~Active(q) /\ ~Active(q)'
               /\ Untouched(q) => Untouched(q)'
    <2>1. ~Active(q)
      BY <1>1, StepOthers DEF SerialInv, Turns, OneAtATime, Arrives, TypeOK, Active, Calls
    <2>2. ~Active(q)'
      BY <1>1, <2>1, StepOthers DEF SerialInv, Active
    <2>3. Untouched(q) => Untouched(q)'
      BY <1>1, StoresOwn, StatementsDiffer DEF Untouched, Statements, Length
    <2> QED BY <2>1, <2>2, <2>3
  <1>2. ASSUME NEW b \in Batches, b # r PROVE BatchTurn(b)'
    <2>1. b \in Requests
      BY DEF Requests
    <2>2. BatchTurn(b) /\ ~Active(b) /\ ~Active(b)' /\ (Untouched(b) => Untouched(b)')
      BY <1>1, <1>2, <2>1 DEF SerialInv, Turns
    <2>3. pc'[b] = pc[b] /\ index'[b] = index[b]
      BY <1>2, <2>1, StepOthers DEF SerialInv
    <2> QED BY <2>2, <2>3 DEF BatchTurn, Opened, Committed, Active, Calls
  <1>3. ASSUME NEW s \in Singles, s # r PROVE SingleTurn(s)'
    <2>1. s \in Requests
      BY DEF Requests
    <2>2. SingleTurn(s) /\ ~Active(s) /\ ~Active(s)' /\ (Untouched(s) => Untouched(s)')
      BY <1>1, <1>3, <2>1 DEF SerialInv, Turns
    <2>3. pc'[s] = pc[s]
      BY <1>3, <2>1, StepOthers DEF SerialInv
    <2> QED BY <2>2, <2>3 DEF SingleTurn, Active, Calls
  <1> QED BY <1>2, <1>3

\* The invariant survives for a batch that moves.
LEMMA OwnBatchTurn ==
    ASSUME Serial, SerialInv, NEW b \in Batches, Step(b)
    PROVE  BatchTurn(b)'
  <1>0. /\ b \in Requests /\ b \notin Imports /\ b \notin Singles
        /\ Length(b) = Size /\ Size \in Nat \ {0}
    BY KindsAssumption, SizeAssumption DEF Requests, Length
  <1>1. /\ BatchTurn(b) /\ TypeOK /\ index[b] \in 1..Size
        /\ pc[b] # "answered" => answer[b] = None
        /\ pc[b] = "idle" => outcome[b] = "pending"
    BY <1>0 DEF SerialInv, Turns, AnswersComeLast, TypeOK
  <1> USE <1>0 DEF connection, Stored, Untouched
  <1>2. CASE Arrives(b)
    <2>1. pc'[b] = "begin" /\ pc[b] = "idle" /\ outcome'[b] = "pending"
      BY <1>1, <1>2 DEF Arrives, FirstCall, TypeOK
    <2>2. index' = index /\ rows' = rows /\ saved' = saved
      BY <1>2 DEF Arrives
    <2> QED BY <1>1, <2>1, <2>2 DEF BatchTurn, Opened, Committed
  <1>3. CASE ExecuteBegin(b)
    <2>1. pc[b] = "begin" /\ outcome[b] = "pending" /\ pc' = pc /\ index' = index /\ answer' = answer
      BY <1>3 DEF ExecuteBegin, Settles
    <2>2. rows' = rows
      BY <1>3 DEF ExecuteBegin
    <2>3. CASE outcome'[b] = "thrown"
      <3>1. saved' = saved
        BY <1>1, <1>3, <2>3 DEF ExecuteBegin, Settles, TypeOK
      <3> QED BY <1>1, <2>1, <2>2, <2>3, <3>1 DEF BatchTurn, Opened, Committed
    <2>4. CASE outcome'[b] = "done"
      <3>1. saved = None /\ saved' = rows /\ saved' # None
        BY <1>1, <1>3, <2>4, NullAssumption DEF ExecuteBegin, Settles, TypeOK
      <3>2. {x \in Statements(b) : Completed(b, x[2])'} = {}
        BY <1>1, <2>1, NullAssumption DEF Completed, BatchTurn, Statements
      <3> QED BY <1>1, <2>1, <2>2, <2>4, <3>1, <3>2 DEF BatchTurn, Opened, Committed
    <2> QED BY <1>1, <1>3, <2>3, <2>4 DEF ExecuteBegin, Settles, TypeOK
  <1>4. CASE ExecuteStatement(b)
    <2>1. /\ pc[b] = "statement" /\ outcome[b] = "pending"
          /\ pc' = pc /\ index' = index /\ answer' = answer /\ saved' = saved
      BY <1>4 DEF ExecuteStatement, Settles
    <2>2. /\ saved # None /\ Statements(b) \cap saved = {}
          /\ rows = saved \cup {x \in Statements(b) : Completed(b, x[2])}
      BY <1>1, <2>1 DEF BatchTurn, Opened, Committed
    <2>3. CASE outcome'[b] = "thrown"
      <3>1. rows' = rows
        BY <1>1, <1>4, <2>3 DEF ExecuteStatement, Settles, TypeOK
      <3>2. \A k \in 1..Size : Completed(b, k)' <=> Completed(b, k)
        BY <2>1, <2>3 DEF Completed
      <3>3. \A x \in Statements(b) : Completed(b, x[2])' <=> Completed(b, x[2])
        BY <3>2 DEF Statements
      <3> QED BY <2>1, <2>2, <2>3, <3>1, <3>3 DEF BatchTurn, Opened, Committed
    <2>4. CASE outcome'[b] = "done"
      <3>1. rows' = rows \cup {<<b, index[b]>>}
        BY <1>1, <1>4, <2>4 DEF ExecuteStatement, Settles, TypeOK
      <3>2. \A k \in 1..Size : Completed(b, k)' <=> Completed(b, k) \/ k = index[b]
        BY <2>1, <2>4 DEF Completed
      <3>3. \A x \in Statements(b) : Completed(b, x[2])' <=> Completed(b, x[2]) \/ x = <<b, index[b]>>
        BY <3>2 DEF Statements
      <3>4. <<b, index[b]>> \in Statements(b)
        BY <1>1 DEF Statements
      <3>5. rows' = saved' \cup {x \in Statements(b) : Completed(b, x[2])'}
        BY <2>1, <2>2, <3>1, <3>3, <3>4
      <3> QED BY <2>1, <2>2, <2>4, <3>5 DEF BatchTurn, Opened, Committed
    <2> QED BY <1>1, <1>4, <2>3, <2>4 DEF ExecuteStatement, Settles, TypeOK
  <1>5. CASE ExecuteCommit(b)
    <2>1. /\ pc[b] = "commit" /\ outcome[b] = "pending"
          /\ pc' = pc /\ index' = index /\ answer' = answer /\ rows' = rows
      BY <1>5 DEF ExecuteCommit, Settles
    <2>2. /\ saved # None /\ Statements(b) \cap saved = {}
          /\ rows = saved \cup {x \in Statements(b) : Completed(b, x[2])}
      BY <1>1, <2>1 DEF BatchTurn, Opened, Committed
    <2>3. CASE outcome'[b] = "thrown"
      <3>1. saved' = saved
        BY <1>1, <1>5, <2>3 DEF ExecuteCommit, Settles, TypeOK
      <3>2. \A x \in Statements(b) : Completed(b, x[2])' <=> Completed(b, x[2])
        BY <2>1, <2>3 DEF Completed
      <3> QED BY <1>1, <2>1, <2>2, <2>3, <3>1, <3>2 DEF BatchTurn, Opened, Committed, IsLast
    <2>4. CASE outcome'[b] = "done"
      <3>1. saved' = None
        BY <1>1, <1>5, <2>4 DEF ExecuteCommit, Settles, TypeOK
      <3>2. \A x \in Statements(b) : Completed(b, x[2])
        BY <1>1, <2>1 DEF Completed, Statements, BatchTurn, IsLast
      <3>3. Statements(b) \subseteq rows'
        BY <2>1, <2>2, <3>2
      <3> QED BY <1>1, <2>1, <2>4, <3>1, <3>3 DEF BatchTurn, Opened, Committed, IsLast
    <2> QED BY <1>1, <1>5, <2>3, <2>4 DEF ExecuteCommit, Settles, TypeOK
  <1>6. CASE ExecuteRollback(b)
    <2>1. pc[b] = "rollback" /\ pc' = pc /\ index' = index
      BY <1>6 DEF ExecuteRollback, Settles
    <2>2. Stored' = Stored
      BY <1>6 DEF ExecuteRollback
    <2> QED BY <1>1, <2>1, <2>2 DEF BatchTurn, Opened, Committed
  <1>7. CASE ResumeBegin(b)
    <2>1. /\ pc[b] = "begin" /\ outcome[b] # "pending" /\ outcome'[b] = "pending"
          /\ pc'[b] = (IF outcome[b] = "done" THEN "statement" ELSE "rollback")
          /\ index' = index /\ answer' = answer /\ rows' = rows /\ saved' = saved
      BY <1>1, <1>7 DEF ResumeBegin, MakesCall, AfterFailure, TypeOK
    <2>2. index[b] = 1 /\ Statements(b) \cap Stored = {}
      BY <1>1, <2>1 DEF BatchTurn, Committed
    <2>3. CASE outcome[b] = "done"
      <3>1. \A x \in Statements(b) : ~Completed(b, x[2]) /\ ~Completed(b, x[2])'
        BY <1>1, <2>1, <2>2, <2>3, NullAssumption DEF Completed, Statements
      <3>2. saved # None /\ rows = saved
        BY <1>1, <2>1, <2>3, <3>1 DEF BatchTurn, Opened
      <3> QED BY <2>1, <2>2, <2>3, <3>1, <3>2 DEF BatchTurn, Opened, Committed
    <2>4. CASE outcome[b] # "done"
      BY <2>1, <2>2, <2>4 DEF BatchTurn, Opened, Committed
    <2> QED BY <2>3, <2>4
  <1>8. CASE ResumeBatch(b)
    <2>1. /\ pc[b] = "statement" /\ outcome[b] # "pending" /\ outcome'[b] = "pending"
          /\ answer' = answer /\ rows' = rows /\ saved' = saved
      BY <1>1, <1>8 DEF ResumeBatch, MakesCall, TypeOK
    <2>2. /\ saved # None /\ Statements(b) \cap Stored = {}
          /\ rows = saved \cup {x \in Statements(b) : Completed(b, x[2])}
      BY <1>1, <2>1 DEF BatchTurn, Opened, Committed
    <2>3. CASE outcome[b] = "thrown"
      <3>1. pc'[b] = "rollback"
        BY <1>1, <1>8, <2>3 DEF ResumeBatch, MakesCall, AfterFailure, TypeOK
      <3> QED BY <2>1, <2>2, <3>1 DEF BatchTurn, Opened, Committed
    <2>4. CASE outcome[b] = "done"
      <3>1. \/ ~IsLast(b) /\ pc'[b] = "statement" /\ index'[b] = index[b] + 1
            \/ IsLast(b) /\ pc'[b] = "commit" /\ index'[b] = index[b]
        BY <1>1, <1>8, <2>4 DEF ResumeBatch, MakesCall, TypeOK
      <3>2. \A k \in 1..Size : Completed(b, k)' <=> Completed(b, k)
        BY <1>1, <2>1, <2>4, <3>1, NullAssumption DEF Completed
      <3>3. \A x \in Statements(b) : Completed(b, x[2])' <=> Completed(b, x[2])
        BY <3>2 DEF Statements
      <3>4. pc'[b] = "commit" => IsLast(b)'
        BY <3>1 DEF IsLast
      <3> QED BY <2>1, <2>2, <3>1, <3>3, <3>4 DEF BatchTurn, Opened, Committed
    <2> QED BY <1>1, <2>1, <2>3, <2>4 DEF TypeOK
  <1>9. CASE ResumeCommit(b) \/ ResumeRollback(b)
    <2>1. /\ pc'[b] = "answered" \/ (pc'[b] = "rollback" /\ pc[b] = "commit" /\ outcome[b] = "thrown")
          /\ outcome'[b] = "pending" /\ rows' = rows /\ saved' = saved
      BY <1>1, <1>9 DEF ResumeCommit, ResumeRollback, AnswersWith, MakesCall, AfterFailure, TypeOK
    <2> QED BY <1>1, <2>1 DEF BatchTurn, Opened, Committed
  <1>10. ~ResumeImport(b) /\ ~ResumeSingle(b) /\ ~Probes(b)
    BY <1>1 DEF ResumeImport, ResumeSingle, Probes, TypeOK
  <1> QED BY <1>2, <1>3, <1>4, <1>5, <1>6, <1>7, <1>8, <1>9, <1>10 DEF Step, Execute, Resume

\* The invariant survives for a single that moves.
LEMMA OwnSingleTurn ==
    ASSUME Serial, SerialInv, NEW s \in Singles, Step(s)
    PROVE  SingleTurn(s)'
  <1>0. /\ s \in Requests /\ s \notin Imports /\ s \notin Batches
        /\ Length(s) = 1 /\ Statements(s) = {<<s, 1>>}
    BY KindsAssumption DEF Requests, Length, Statements
  <1>1. SingleTurn(s) /\ TypeOK
    BY DEF SerialInv, Turns
  <1> USE <1>0 DEF connection, Stored, Untouched
  <1>4. CASE Arrives(s)
    BY <1>1, <1>4 DEF Arrives, FirstCall, SingleTurn, TypeOK
  <1>5. CASE ExecuteStatement(s)
    <2>1. CASE outcome'[s] = "thrown"
      <3>1. rows' = rows /\ saved' = saved /\ pc' = pc /\ pc[s] = "statement" /\ outcome[s] = "pending"
        BY <1>1, <1>5, <2>1 DEF ExecuteStatement, Settles, TypeOK
      <3> QED BY <1>1, <2>1, <3>1 DEF SingleTurn
    <2>2. CASE outcome'[s] = "done"
      <3>1. pc' = pc /\ pc[s] = "statement"
        BY <1>5 DEF ExecuteStatement, Settles
      <3> QED BY <2>2, <3>1 DEF SingleTurn
    <2> QED BY <1>1, <1>5, <2>1, <2>2 DEF ExecuteStatement, Settles, TypeOK
  <1>6. CASE ResumeSingle(s) \/ Probes(s)
    <2>1. pc'[s] \in {"answered", "probe"}
      BY <1>1, <1>6 DEF ResumeSingle, Probes, AnswersWith, MakesCall, TypeOK
    <2> QED BY <2>1 DEF SingleTurn
  <1>8. /\ ~ExecuteBegin(s) /\ ~ExecuteCommit(s) /\ ~ExecuteRollback(s) /\ ~ResumeBegin(s)
        /\ ~ResumeBatch(s) /\ ~ResumeImport(s) /\ ~ResumeCommit(s) /\ ~ResumeRollback(s)
    BY <1>1 DEF ExecuteBegin, ExecuteCommit, ExecuteRollback, ResumeBegin, ResumeBatch, ResumeImport,
                ResumeCommit, ResumeRollback, TypeOK
  <1> QED BY <1>4, <1>5, <1>6, <1>8 DEF Step, Execute, Resume

LEMMA NextTurns == Serial /\ SerialInv /\ [Next]_vars => Turns'
  <1> SUFFICES ASSUME Serial, SerialInv, [Next]_vars PROVE Turns'
    OBVIOUS
  <1>1. ASSUME NEW r \in Requests, Step(r) PROVE Turns'
    <2>1. OneAtATime'
      <3>1. ASSUME NEW q \in Requests, Active(q)' PROVE q = r
        <4>1. CASE Arrives(r)
          BY <3>1, <4>1 DEF Arrives, SerialInv, TypeOK, Active, Calls
        <4>2. CASE Active(r)
          BY <1>1, <3>1, <4>2, StepOthers DEF SerialInv, Turns, OneAtATime, Active
        <4> QED BY <1>1, <4>1, <4>2, StepOthers DEF SerialInv
      <3> QED BY <3>1 DEF OneAtATime
    <2>2. \A q \in Requests : pc'[q] = "idle" => outcome'[q] = "pending"
      BY <1>1, StepOthers DEF SerialInv, Turns
    <2>3. \A b \in Batches : BatchTurn(b)'
      BY <1>1, OtherTurns, OwnBatchTurn
    <2>4. \A s \in Singles : SingleTurn(s)'
      BY <1>1, OtherTurns, OwnSingleTurn
    <2> QED BY <2>1, <2>2, <2>3, <2>4 DEF Turns
  <1>2. CASE AllAnswered \/ UNCHANGED vars
    <2>1. UNCHANGED vars
      BY <1>2 DEF AllAnswered
    <2> QED BY <2>1 DEF SerialInv, Turns, OneAtATime, Active, BatchTurn, SingleTurn, Opened, Committed,
               Completed, Untouched, Stored, IsLast, vars, connection
  <1> QED BY <1>1, <1>2 DEF Next

LEMMA SerialInvariance == Serial /\ Spec => []SerialInv
  <1> SUFFICES ASSUME Serial PROVE Spec => []SerialInv
    OBVIOUS
  <1>1. Init /\ TypeOK /\ AnswersComeLast => SerialInv
    BY InitTurns DEF SerialInv
  <1>2. SerialInv /\ [Next]_vars /\ TypeOK' /\ AnswersComeLast' => SerialInv'
    BY NextTurns DEF SerialInv
  <1> QED BY <1>1, <1>2, TypeCorrect, AnswersLast, PTL DEF Spec

----------------------------------------------------------------------------
(* The promise of AtomicEdits.                                             *)

LEMMA StepAtomic ==
    Serial /\ SerialInv /\ [Next]_vars => [Atomic!Next]_<<Stored, answer>>
  <1> SUFFICES ASSUME Serial, SerialInv, [Next]_vars PROVE [Atomic!Next]_<<Stored, answer>>
    OBVIOUS
  <1> USE DEF connection, Stored
  <1>1. ASSUME NEW r \in Requests, Step(r) PROVE [Atomic!Next]_<<Stored, answer>>
    <2>0. /\ TypeOK
          /\ pc[r] # "answered" => answer[r] = None
      BY DEF SerialInv, AnswersComeLast
    <2>1. CASE Arrives(r)
      BY <2>1 DEF Arrives
    <2>2. CASE ExecuteBegin(r) \/ ExecuteRollback(r)
      BY <2>2 DEF ExecuteBegin, ExecuteRollback, Settles
    <2>3. CASE ExecuteStatement(r)
      <3>1. pc[r] = "statement" /\ answer' = answer /\ saved' = saved
        BY <2>3 DEF ExecuteStatement, Settles
      <3>2. CASE r \in Batches
        <4>1. saved # None
          BY <3>1, <3>2 DEF SerialInv, Turns, BatchTurn, Opened
        <4> QED BY <3>1, <4>1
      <3>3. CASE r \notin Batches /\ saved # None
        BY <3>1, <3>3
      <3>4. CASE r \notin Batches /\ saved = None
        <4>1. answer[r] = None
          BY <2>0, <3>1
        <4>2. <<r, index[r]>> \in Statements(r)
          BY <2>0 DEF TypeOK, Statements
        <4>3. rows' = rows \/ rows' = rows \cup {<<r, index[r]>>}
          BY <2>3 DEF ExecuteStatement
        <4>4. rows' = rows \/ Atomic!TakesEffect(r)
          BY <3>1, <3>4, <4>1, <4>2, <4>3 DEF Atomic!TakesEffect
        <4> QED BY <3>1, <3>4, <4>4 DEF Atomic!Next, Atomic!Requests, Requests
      <3> QED BY <3>2, <3>3, <3>4
    <2>4. CASE ExecuteCommit(r)
      <3>1. /\ pc[r] = "commit" /\ outcome[r] = "pending" /\ answer' = answer /\ rows' = rows
            /\ r \in Batches
        BY <2>0, <2>4 DEF ExecuteCommit, Settles, TypeOK
      <3>2. CASE saved' = saved
        BY <3>1, <3>2
      <3>3. CASE saved' # saved
        <4>1. saved # None /\ saved' = None
          BY <2>4, <3>3 DEF ExecuteCommit
        <4>2. rows = saved \cup {x \in Statements(r) : Completed(r, x[2])} /\ index[r] = Length(r)
          BY <3>1 DEF SerialInv, Turns, BatchTurn, Opened, IsLast
        <4>3. \A x \in Statements(r) : Completed(r, x[2])
          BY <3>1, <4>2, LengthType DEF Completed, Statements
        <4>4. Stored' = Stored \cup Statements(r)
          BY <3>1, <4>1, <4>2, <4>3
        <4>5. Atomic!TakesEffect(r)
          BY <2>0, <3>1, <4>4 DEF Atomic!TakesEffect
        <4> QED BY <4>5 DEF Atomic!Next, Atomic!Requests, Requests
      <3> QED BY <3>2, <3>3
    <2>5. CASE ResumeBegin(r) \/ ResumeBatch(r)
      BY <2>5 DEF ResumeBegin, ResumeBatch
    <2>6. CASE ResumeImport(r)
      <3>1. CASE IsLast(r)
        <4>1. Atomic!Answers(r)
          BY <2>0, <2>6, <3>1, KindsAssumption DEF ResumeImport, AnswersWith, Atomic!Answers
        <4> QED BY <4>1 DEF Atomic!Next, Atomic!Requests, Requests
      <3>2. CASE ~IsLast(r)
        BY <2>6, <3>2 DEF ResumeImport
      <3> QED BY <3>1, <3>2
    <2>7. CASE ResumeSingle(r)
      <3>1. CASE outcome[r] = "thrown"
        <4>1. /\ r \in Singles /\ r \notin Imports /\ pc[r] = "statement"
              /\ answer' = [answer EXCEPT ![r] = "error"] /\ rows' = rows /\ saved' = saved
          BY <2>7, <3>1, KindsAssumption DEF ResumeSingle, AnswersWith
        <4>2. Statements(r) \cap Stored = {}
          BY <3>1, <4>1 DEF SerialInv, Turns, SingleTurn, Untouched
        <4>3. Atomic!Answers(r)
          BY <2>0, <4>1, <4>2 DEF Atomic!Answers
        <4> QED BY <4>3 DEF Atomic!Next, Atomic!Requests, Requests
      <3>2. CASE outcome[r] # "thrown"
        BY <2>7, <3>2 DEF ResumeSingle
      <3> QED BY <3>1, <3>2
    <2>8. CASE Probes(r)
      <3>1. r \notin Batches
        BY <2>0, <2>8, KindsAssumption DEF Probes, TypeOK
      <3>2. Atomic!Answers(r)
        BY <2>0, <2>8, <3>1 DEF Probes, AnswersWith, Atomic!Answers
      <3> QED BY <3>2 DEF Atomic!Next, Atomic!Requests, Requests
    <2>9. CASE ResumeCommit(r)
      <3>1. r \in Batches /\ pc[r] = "commit" /\ rows' = rows /\ saved' = saved
        BY <2>0, <2>9 DEF ResumeCommit, TypeOK
      <3>2. CASE outcome[r] = "done"
        <4>1. Statements(r) \subseteq Stored
          BY <3>1, <3>2 DEF SerialInv, Turns, BatchTurn, Committed
        <4>2. Atomic!Answers(r)
          BY <2>0, <2>9, <3>1, <3>2, <4>1 DEF ResumeCommit, AnswersWith, Atomic!Answers
        <4> QED BY <4>2 DEF Atomic!Next, Atomic!Requests, Requests
      <3>3. CASE outcome[r] # "done"
        BY <2>9, <3>1, <3>3 DEF ResumeCommit
      <3> QED BY <3>2, <3>3
    <2>10. CASE ResumeRollback(r)
      <3>1. /\ r \in Batches /\ r \notin Imports /\ pc[r] = "rollback"
            /\ answer' = [answer EXCEPT ![r] = "error"] /\ rows' = rows /\ saved' = saved
        BY <2>0, <2>10, KindsAssumption DEF ResumeRollback, AnswersWith, TypeOK
      <3>2. Statements(r) \cap Stored = {}
        BY <3>1 DEF SerialInv, Turns, BatchTurn, Committed, Untouched
      <3>3. Atomic!Answers(r)
        BY <2>0, <3>1, <3>2 DEF Atomic!Answers
      <3> QED BY <3>3 DEF Atomic!Next, Atomic!Requests, Requests
    <2> QED BY <1>1, <2>1, <2>2, <2>3, <2>4, <2>5, <2>6, <2>7, <2>8, <2>9, <2>10
            DEF Step, Execute, Resume
  <1>2. CASE AllAnswered \/ UNCHANGED vars
    BY <1>2 DEF AllAnswered, vars
  <1> QED BY <1>1, <1>2 DEF Next

\* While clients wait for each other's answers, the handlers do what the
\* endpoints promise: a batch takes effect as a whole or not at all, other
\* requests statement by statement, and the answer tells which.
THEOREM RefinesAtomicEdits == Serial /\ Spec => AtomicSpec
  <1> SUFFICES ASSUME Serial PROVE Spec => AtomicSpec
    OBVIOUS
  <1>1. Init => Atomic!Init
    BY DEF Init, Stored, Atomic!Init, Atomic!Requests, Requests
  <1>2. SerialInv /\ [Next]_vars => [Atomic!Next]_<<Stored, answer>>
    BY StepAtomic
  <1> QED BY <1>1, <1>2, SerialInvariance, PTL DEF Spec, AtomicSpec, Atomic!Spec
=============================================================================
