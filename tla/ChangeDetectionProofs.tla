----------------------- MODULE ChangeDetectionProofs -----------------------
(* Theorems about ChangeDetection, for any number of tables, rows and      *)
(* requests: type correctness, the exclusion of sweeps, and that counts,   *)
(* signature, activity and what clients are told stay consistent.          *)
EXTENDS ChangeDetection, FiniteSetTheorems, TLAPS

USE RolesAssumption

\* The types of what a call of checkDataChange changes.
CheckOutcome ==
    /\ pc' \in [Procs -> {"idle"} \cup SweepPoints \cup PollPoints \cup WritePoints]
    /\ \A q \in Procs :
          pc'[q] \notin IF q \in Pollers THEN WritePoints ELSE PollPoints
    /\ cachedTableNames' \in {None} \cup SUBSET Tables
    /\ isChangeCheckInProgress' \in BOOLEAN
    /\ names' \in [Procs -> SUBSET Tables]
    /\ UNCHANGED <<throttled, reply, outVars>>

LEMMA CheckDataChangeType ==
    ASSUME TypeOK,
           NEW p \in Procs, NEW cache \in {None} \cup SUBSET Tables,
           CheckDataChange(p, cache)
    PROVE  CheckOutcome
  BY DEF TypeOK, CheckDataChange, CheckOutcome, AfterCheck, SweepPoints, PollPoints, WritePoints

LEMMA CachedCheckType ==
    ASSUME TypeOK, NEW p \in Procs, CheckDataChange(p, cachedTableNames)
    PROVE  CheckOutcome
  <1>1. cachedTableNames \in {None} \cup SUBSET Tables
    BY DEF TypeOK
  <1> QED BY <1>1, CheckDataChangeType

\* What the end of a sweep does to the variables it changes.
LEMMA FinishSweepType ==
    ASSUME TypeOK, NEW p \in Procs, FinishSweep(p)
    PROVE  /\ pc' \in [Procs -> {"idle"} \cup SweepPoints \cup PollPoints \cup WritePoints]
           /\ (\A q \in Procs :
                 pc[q] \notin IF q \in Pollers THEN WritePoints ELSE PollPoints)'
           /\ isChangeCheckInProgress' \in BOOLEAN
           /\ names' \in [Procs -> SUBSET Tables]
           /\ reply' \in [Procs -> {None} \cup Counts]
  BY DEF TypeOK, FinishSweep, AfterCheck, SweepPoints, PollPoints, WritePoints

\* A database is a function from some of the tables to row counts.
LEMMA CountsIntro ==
    ASSUME NEW S \in SUBSET Tables, NEW f \in [S -> 0..MaxRows]
    PROVE  f \in Counts
  BY DEF Counts

LEMMA CountsElim ==
    ASSUME NEW f \in Counts
    PROVE  /\ DOMAIN f \in SUBSET Tables
           /\ f \in [DOMAIN f -> 0..MaxRows]
  BY DEF Counts

\* One row more or less, one table more or less: the result is a database.
LEMMA OperationType ==
    ASSUME TypeOK, RowOperation \/ CreateTable \/ DropTable
    PROVE  /\ db' \in Counts
           /\ changes' \in [Tables -> Nat]
           /\ operations' \in Nat
           /\ saved' \in {None} \cup Counts
  <1> USE BoundsAssumption
  <1>1. CASE RowOperation
    BY <1>1 DEF TypeOK, RowOperation, Operation, Counts
  <1>0. db \in Counts /\ DOMAIN db \in SUBSET Tables /\ db \in [DOMAIN db -> 0..MaxRows]
    BY CountsElim DEF TypeOK
  <1>2. CASE CreateTable
    <2>1. PICK t \in Tables \ DOMAIN db :
             Operation(t, [u \in DOMAIN db \cup {t} |-> IF u = t THEN 0 ELSE db[u]])
      BY <1>2 DEF CreateTable
    <2>2. db' \in [DOMAIN db \cup {t} -> 0..MaxRows]
      BY <1>0, <2>1 DEF Operation
    <2>3. db' \in Counts
      BY <1>0, <2>1, <2>2, CountsIntro
    <2> QED BY <2>1, <2>3 DEF Operation, TypeOK
  <1>3. CASE DropTable
    <2>1. PICK t \in DOMAIN db : Operation(t, [u \in DOMAIN db \ {t} |-> db[u]])
      BY <1>3 DEF DropTable
    <2>2. db' \in [DOMAIN db \ {t} -> 0..MaxRows]
      BY <1>0, <2>1 DEF Operation
    <2>3. db' \in Counts
      BY <1>0, <2>1, <2>2, CountsIntro
    <2> QED BY <1>0, <2>1, <2>3 DEF Operation, TypeOK
  <1> QED BY <1>1, <1>2, <1>3

LEMMA InitType == Init => TypeOK
  <1> USE BoundsAssumption
  <1> SUFFICES ASSUME Init PROVE TypeOK
    OBVIOUS
  <1>1. db \in Counts
    BY DEF Init, Counts
  <1> QED BY <1>1 DEF Init, TypeOK, SweepPoints, PollPoints, WritePoints

\* A ROLLBACK changes finitely many tables.
LEMMA RolledBackType ==
    ASSUME TypeOK
    PROVE  /\ RolledBack \subseteq Tables
           /\ IsFiniteSet(RolledBack)
           /\ Cardinality(RolledBack) \in Nat
  <1>1. RolledBack \subseteq Tables
    BY CountsElim DEF TypeOK, RolledBack, Differing
  <1> QED BY <1>1, FiniteAssumption, FS_Subset, FS_CardinalityType

\* Every step keeps the types.
LEMMA NextType == TypeOK /\ [Next]_vars => TypeOK'
  <1> SUFFICES ASSUME TypeOK, [Next]_vars PROVE TypeOK'
    OBVIOUS
  <1> USE DEF dbVars, switchVars, cacheVars, sweepVars, outVars, pollVars,
              SweepPoints, PollPoints, WritePoints
  <1>1. CASE HostWrites
    BY <1>1, OperationType DEF HostWrites, TypeOK
  <1>2. ASSUME NEW p \in Procs, Sweep(p) PROVE TypeOK'
    <2>1. CASE NamesAnswer(p)
      BY <2>1, CountsElim DEF NamesAnswer, TypeOK
    <2>2. CASE NamesResume(p)
      BY <2>2, FinishSweepType DEF NamesResume, TypeOK
    <2>3. CASE CountsAnswer(p)
      <3>1. [t \in names[p] |-> db[t]] \in [names[p] -> 0..MaxRows]
        BY <2>3, CountsElim DEF CountsAnswer, TypeOK
      <3>2. [t \in names[p] |-> db[t]] \in Counts
        BY <3>1, CountsIntro DEF TypeOK
      <3> QED BY <2>3, <3>2 DEF CountsAnswer, TypeOK
    <2>4. CASE CountsResume(p)
      <3>1. hostChanges' \in [Tables -> Nat]
        BY <2>4 DEF CountsResume, TypeOK
      <3>2. generation' \in Nat
        BY <2>4 DEF CountsResume, TypeOK
      <3> QED BY <2>4, <3>1, <3>2, FinishSweepType DEF CountsResume, TypeOK
    <2>5. CASE QueryThrows(p)
      BY <2>5, FinishSweepType DEF QueryThrows, TypeOK
    <2> QED BY <1>2, <2>1, <2>2, <2>3, <2>4, <2>5 DEF Sweep
  <1>3. ASSUME NEW p \in Pollers, Poll(p) PROVE TypeOK'
    <2>0. p \in Procs
      BY DEF Procs
    <2>1. CASE PollArrives(p)
      BY <2>0, <2>1, CachedCheckType DEF PollArrives, CheckOutcome, TypeOK
    <2>2. CASE PollWaits(p)
      BY <2>0, <2>2 DEF PollWaits, TypeOK
    <2>3. CASE PollTicks(p)
      BY <2>0, <2>3, CachedCheckType DEF PollTicks, CheckOutcome, TypeOK
    <2>4. CASE PollExpires(p)
      BY <2>4 DEF PollExpires, TypeOK
    <2>5. CASE PollAnswers(p)
      BY <2>0, <2>5 DEF PollAnswers, TypeOK
    <2> QED BY <1>3, <2>1, <2>2, <2>3, <2>4, <2>5 DEF Poll
  <1>4. ASSUME NEW p \in Importers \cup Editors, Write(p) PROVE TypeOK'
    <2>0. p \in Procs \ Pollers
      BY DEF Procs
    <2>1. CASE WriteArrives(p)
      BY <2>0, <2>1 DEF WriteArrives, TypeOK
    <2>2. CASE WriteBegins(p)
      BY <2>0, <2>2 DEF WriteBegins, TypeOK
    <2>3. CASE WriteStatement(p)
      BY <2>3, OperationType DEF WriteStatement, TypeOK
    <2>4. CASE WriteRejected(p)
      BY <2>0, <2>4 DEF WriteRejected, TypeOK
    <2> QED BY <1>4, <2>1, <2>2, <2>3, <2>4 DEF Write
  <1>5. ASSUME NEW p \in Importers, ImportFinishes(p) PROVE TypeOK'
    <2>0. p \in Procs
      BY DEF Procs
    <2> QED BY <1>5, <2>0, CheckDataChangeType DEF ImportFinishes, CheckOutcome, TypeOK
  <1>6. ASSUME NEW p \in Editors, EditFinishes(p) PROVE TypeOK'
    <2>0. p \in Procs
      BY DEF Procs
    <2> QED BY <1>6, <2>0, CachedCheckType DEF EditFinishes, CheckOutcome, TypeOK
  <1>11. ASSUME NEW p \in Editors, BatchFails(p) PROVE TypeOK'
    <2>0. p \in Procs \ Pollers
      BY DEF Procs
    <2>1. db' \in Counts
      BY <1>11 DEF BatchFails, TypeOK
    <2>2. changes' \in [Tables -> Nat] /\ operations' \in Nat
      BY <1>11, RolledBackType DEF BatchFails, TypeOK
    <2>3. pc' = [pc EXCEPT ![p] = "idle"] /\ saved' = None
          /\ UNCHANGED <<switchVars, cacheVars, sweepVars, outVars, names, reply, pollVars>>
      BY <1>11 DEF BatchFails
    <2> QED BY <2>0, <2>1, <2>2, <2>3 DEF TypeOK
  <1>7. CASE ThrottleElapses
    BY <1>7 DEF ThrottleElapses, TypeOK
  <1>8. CASE SetMonitoring
    BY <1>8 DEF SetMonitoring, TypeOK
  <1>9. CASE SetChangeDetection
    BY <1>9 DEF SetChangeDetection, TypeOK
  <1>10. CASE UNCHANGED vars
    BY <1>10 DEF vars, TypeOK
  <1> QED BY <1>1, <1>2, <1>3, <1>4, <1>5, <1>6, <1>7, <1>8, <1>9, <1>10, <1>11 DEF Next

\* The state of the change detector is well typed in every reachable state.
THEOREM TypeCorrect == Spec => []TypeOK
  BY InitType, NextType, PTL DEF Spec

----------------------------------------------------------------------------
(* Exclusion of sweeps.                                                    *)

\* Of a sweep that was the only one nothing is left, and the flag is down.
LEMMA FinishExcludes ==
    ASSUME TypeOK, SweepExclusion, NEW p \in Procs, Sweeping(p), FinishSweep(p)
    PROVE  SweepExclusion'
  BY DEF TypeOK, SweepExclusion, Sweeping, FinishSweep, AfterCheck, SweepPoints

\* A check enters a sweep only when nobody is in one.
LEMMA CheckExcludes ==
    ASSUME TypeOK, SweepExclusion, NEW p \in Procs, ~Sweeping(p),
           NEW cache, CheckDataChange(p, cache)
    PROVE  SweepExclusion'
  <1>1. CASE ~MayCheck
    BY <1>1 DEF TypeOK, SweepExclusion, Sweeping, CheckDataChange, AfterCheck, SweepPoints
  <1>2. CASE MayCheck
    <2>1. ~isChangeCheckInProgress /\ \A q \in Procs : ~Sweeping(q)
      BY <1>2 DEF MayCheck, SweepExclusion
    <2>2. \A q \in Procs : q # p => pc'[q] = pc[q]
      BY DEF TypeOK, CheckDataChange
    <2>3. CASE pc' = [pc EXCEPT ![p] = AfterCheck(p)] /\ UNCHANGED isChangeCheckInProgress
      BY <2>1, <2>3 DEF TypeOK, SweepExclusion, Sweeping, AfterCheck, SweepPoints
    <2>4. CASE pc'[p] \in SweepPoints /\ isChangeCheckInProgress'
      BY <2>1, <2>2, <2>4 DEF SweepExclusion, Sweeping
    <2> QED BY <1>2, <2>3, <2>4 DEF CheckDataChange, TypeOK, SweepPoints
  <1> QED BY <1>1, <1>2

LEMMA NextExcludes == TypeOK /\ SweepExclusion /\ [Next]_vars => SweepExclusion'
  <1> SUFFICES ASSUME TypeOK, SweepExclusion, [Next]_vars PROVE SweepExclusion'
    OBVIOUS
  <1> USE DEF dbVars, switchVars, cacheVars, sweepVars, outVars, pollVars
  <1>0. ASSUME UNCHANGED <<isChangeCheckInProgress, pc>> PROVE SweepExclusion'
    BY <1>0 DEF SweepExclusion, Sweeping
  \* a request moves between two points of a sweep, or two outside of one
  <1>a. ASSUME NEW p \in Procs, NEW c, pc' = [pc EXCEPT ![p] = c],
               pc[p] \in SweepPoints <=> c \in SweepPoints,
               UNCHANGED isChangeCheckInProgress
        PROVE  SweepExclusion'
    BY <1>a DEF TypeOK, SweepExclusion, Sweeping
  <1> USE DEF SweepPoints
  <1>2. ASSUME NEW p \in Procs, Sweep(p) PROVE SweepExclusion'
    <2>1. CASE NamesAnswer(p)
      BY <2>1, <1>a DEF NamesAnswer
    <2>2. CASE NamesResume(p)
      BY <2>2, <1>a, FinishExcludes DEF NamesResume, Sweeping
    <2>3. CASE CountsAnswer(p)
      BY <2>3, <1>a DEF CountsAnswer
    <2>4. CASE CountsResume(p)
      BY <2>4, FinishExcludes DEF CountsResume, Sweeping
    <2>5. CASE QueryThrows(p)
      BY <2>5, FinishExcludes DEF QueryThrows, Sweeping
    <2> QED BY <1>2, <2>1, <2>2, <2>3, <2>4, <2>5 DEF Sweep
  <1>3. ASSUME NEW p \in Pollers, Poll(p) PROVE SweepExclusion'
    <2>0. p \in Procs
      BY DEF Procs
    <2>1. CASE PollArrives(p)
      BY <2>0, <2>1, CheckExcludes DEF PollArrives, Sweeping
    <2>2. CASE PollWaits(p)
      BY <2>0, <2>2, <1>a DEF PollWaits
    <2>3. CASE PollTicks(p)
      BY <2>0, <2>3, CheckExcludes DEF PollTicks, Sweeping
    <2>4. CASE PollExpires(p)
      BY <2>4, <1>0 DEF PollExpires
    <2>5. CASE PollAnswers(p)
      BY <2>0, <2>5, <1>a DEF PollAnswers
    <2> QED BY <1>3, <2>1, <2>2, <2>3, <2>4, <2>5 DEF Poll
  <1>4. ASSUME NEW p \in Importers \cup Editors, Write(p) PROVE SweepExclusion'
    <2>0. p \in Procs
      BY DEF Procs
    <2>1. CASE WriteArrives(p)
      BY <2>0, <2>1, <1>a DEF WriteArrives
    <2>2. CASE WriteBegins(p)
      BY <2>0, <2>2, <1>a DEF WriteBegins
    <2>3. CASE WriteStatement(p)
      BY <2>3, <1>0 DEF WriteStatement
    <2>4. CASE WriteRejected(p)
      BY <2>0, <2>4, <1>a DEF WriteRejected
    <2> QED BY <1>4, <2>1, <2>2, <2>3, <2>4 DEF Write
  <1>5. ASSUME NEW p \in Importers, ImportFinishes(p) PROVE SweepExclusion'
    BY <1>5, CheckExcludes DEF ImportFinishes, Sweeping, Procs
  <1>6. ASSUME NEW p \in Editors, EditFinishes(p) PROVE SweepExclusion'
    BY <1>6, CheckExcludes DEF EditFinishes, Sweeping, Procs
  <1>8. ASSUME NEW p \in Editors, BatchFails(p) PROVE SweepExclusion'
    BY <1>8, <1>a DEF BatchFails, Procs
  <1>7. CASE HostWrites \/ ThrottleElapses \/ SetMonitoring \/ SetChangeDetection \/ UNCHANGED vars
    BY <1>7, <1>0 DEF HostWrites, ThrottleElapses, SetMonitoring, SetChangeDetection, vars
  <1> QED BY <1>2, <1>3, <1>4, <1>5, <1>6, <1>7, <1>8 DEF Next

\* At most one request is inside a sweep, and isChangeCheckInProgress says so:
\* the finally block of checkDataChange never leaves the flag up, nor another
\* caller inside, whatever the number of requests and however queries fail.
THEOREM SweepsExclude == Spec => []SweepExclusion
  <1>1. Init => SweepExclusion
    BY DEF Init, SweepExclusion, Sweeping, SweepPoints
  <1> QED BY <1>1, TypeCorrect, NextExcludes, PTL DEF Spec

----------------------------------------------------------------------------
(* The counts handed out belong to the last signature.                     *)

LEMMA NextMatches ==
    TypeOK /\ CountsMatchSignature /\ [Next]_vars => CountsMatchSignature'
  <1> USE DEF dbVars, switchVars, cacheVars, sweepVars, outVars, pollVars,
              CountsMatchSignature
  <1> SUFFICES ASSUME TypeOK, CountsMatchSignature, [Next]_vars PROVE CountsMatchSignature'
    OBVIOUS
  <1>2. ASSUME NEW p \in Procs, Sweep(p) PROVE CountsMatchSignature'
    BY <1>2 DEF Sweep, NamesAnswer, NamesResume, CountsAnswer, CountsResume, QueryThrows
  <1>3. ASSUME NEW p \in Pollers, Poll(p) PROVE CountsMatchSignature'
    BY <1>3 DEF Poll, PollArrives, PollWaits, PollTicks, PollExpires, PollAnswers, CheckDataChange
  <1>4. ASSUME NEW p \in Importers \cup Editors, Write(p) PROVE CountsMatchSignature'
    BY <1>4 DEF Write, WriteArrives, WriteBegins, WriteStatement, WriteRejected
  <1>5. ASSUME NEW p \in Importers, ImportFinishes(p) PROVE CountsMatchSignature'
    BY <1>5 DEF ImportFinishes
  <1>6. ASSUME NEW p \in Editors, EditFinishes(p) PROVE CountsMatchSignature'
    BY <1>6 DEF EditFinishes, CheckDataChange
  <1>8. ASSUME NEW p \in Editors, BatchFails(p) PROVE CountsMatchSignature'
    BY <1>8 DEF BatchFails
  <1>7. CASE HostWrites \/ ThrottleElapses \/ SetMonitoring \/ SetChangeDetection \/ UNCHANGED vars
    BY <1>7 DEF HostWrites, ThrottleElapses, SetMonitoring, SetChangeDetection, vars
  <1> QED BY <1>2, <1>3, <1>4, <1>5, <1>6, <1>7, <1>8 DEF Next

\* The cached counts, if any, are those the last signature was built from.
THEOREM CountsMatch == Spec => []CountsMatchSignature
  <1>1. Init => CountsMatchSignature
    BY DEF Init, CountsMatchSignature
  <1> QED BY <1>1, TypeCorrect, NextMatches, PTL DEF Spec

----------------------------------------------------------------------------
(* The heartbeat never shows more changes than there were.                 *)

\* A table is left alone by a step, or an operation on it is counted.
CountsAsOperation(t) ==
    \/ /\ changes'[t] = changes[t]
       /\ CountAt(db', t) = CountAt(db, t)
       /\ t \in DOMAIN db' <=> t \in DOMAIN db
    \/ changes'[t] = changes[t] + 1

\* An operation leaves a table alone, or is counted for it.
LEMMA OperationMoves ==
    ASSUME TypeOK, RowOperation \/ CreateTable \/ DropTable, NEW t \in Tables
    PROVE  CountsAsOperation(t)
  <1>0. DOMAIN db \in SUBSET Tables /\ db \in [DOMAIN db -> 0..MaxRows]
    BY CountsElim DEF TypeOK
  <1>1. CASE RowOperation
    <2>1. PICK u \in DOMAIN db, c \in 0..MaxRows : Operation(u, [db EXCEPT ![u] = c])
      BY <1>1 DEF RowOperation
    <2> QED BY <1>0, <2>1 DEF Operation, CountAt, CountsAsOperation, TypeOK
  <1>2. CASE CreateTable
    <2>1. PICK u \in Tables \ DOMAIN db :
             Operation(u, [v \in DOMAIN db \cup {u} |-> IF v = u THEN 0 ELSE db[v]])
      BY <1>2 DEF CreateTable
    <2> QED BY <1>0, <2>1 DEF Operation, CountAt, CountsAsOperation, TypeOK
  <1>3. CASE DropTable
    <2>1. PICK u \in DOMAIN db : Operation(u, [v \in DOMAIN db \ {u} |-> db[v]])
      BY <1>3 DEF DropTable
    <2> QED BY <1>0, <2>1 DEF Operation, CountAt, CountsAsOperation, TypeOK
  <1> QED BY <1>1, <1>2, <1>3

LEMMA OperationAccounts ==
    ASSUME TypeOK, ActivityInv, \A t \in Tables : CountsAsOperation(t),
           UNCHANGED <<cacheVars, outVars, pc, names, reply>>
    PROVE  ActivityInv'
  <1>1. SweepNames'
    BY DEF ActivityInv, SweepNames, cacheVars
  <1>2. ASSUME NEW t \in Tables PROVE Accounted(t)'
    <2>1. Accounted(t) /\ hostChanges[t] \in Nat /\ changes[t] \in Nat
      BY DEF ActivityInv, TypeOK
    <2>2. CASE /\ changes'[t] = changes[t]
               /\ CountAt(db', t) = CountAt(db, t)
               /\ t \in DOMAIN db' <=> t \in DOMAIN db
      <3>1. \A f : Moved(f, db', t) = Moved(f, db, t)
        BY <2>2 DEF Moved
      <3>2. GoneAndBack(t)' = GoneAndBack(t)
        BY <2>2 DEF GoneAndBack, cacheVars
      <3> QED BY <2>1, <2>2, <3>1, <3>2 DEF Accounted, cacheVars, outVars
    <2>3. CASE changes'[t] = changes[t] + 1
      <3>1. \A f : /\ Moved(f, db, t) \in 0..1
                   /\ Moved(f, db', t) \in 0..1
                   /\ Moved(cachedTableCounts, f, t) \in 0..1
        BY DEF Moved
      <3>2. /\ GoneAndBack(t) \in 0..2 /\ GoneAndBack(t)' \in 0..2
            /\ GoneAndBack(t)' <= GoneAndBack(t) + 1
        BY DEF GoneAndBack, cacheVars
      <3> QED BY <2>1, <2>3, <3>1, <3>2 DEF Accounted, cacheVars, outVars
    <2> QED BY <2>2, <2>3 DEF CountsAsOperation
  <1> QED BY <1>1, <1>2 DEF ActivityInv

\* A request leaves a sweep: what was accounted for stays so.
LEMMA FinishAccounts ==
    ASSUME TypeOK, ActivityInv, NEW p \in Procs, FinishSweep(p),
           UNCHANGED <<db, changes, hostChanges, cachedTableNames, cachedTableCounts>>
    PROVE  ActivityInv'
  <1>1. pc'[p] \notin SweepPoints
    BY DEF TypeOK, FinishSweep, AfterCheck, SweepPoints
  <1>2. \A q \in Procs : q # p => pc'[q] = pc[q] /\ names'[q] = names[q] /\ reply'[q] = reply[q]
    BY DEF TypeOK, FinishSweep
  <1>3. SweepNames'
    BY <1>1, <1>2 DEF ActivityInv, SweepNames, SweepPoints
  <1>4. ASSUME NEW t \in Tables PROVE Accounted(t)'
    BY <1>1, <1>2 DEF ActivityInv, Accounted, GoneAndBack, SweepPoints
  <1> QED BY <1>3, <1>4 DEF ActivityInv

\* A request starts a sweep, or none, with the names cached at that moment.
LEMMA CheckAccounts ==
    ASSUME TypeOK, SweepExclusion, ActivityInv, NEW p \in Procs,
           CheckDataChange(p, cachedTableNames), ~Sweeping(p),
           UNCHANGED <<db, changes, cachedTableCounts>>
    PROVE  ActivityInv'
  <1>0. UNCHANGED <<cachedTableNames, hostChanges, reply>>
    BY DEF CheckDataChange, outVars
  <1>1. \A q \in Procs : q # p => pc'[q] = pc[q] /\ names'[q] = names[q]
    BY DEF TypeOK, CheckDataChange
  <1>2. \/ pc'[p] \notin SweepPoints
        \/ pc'[p] = "names" /\ cachedTableNames = None
        \/ pc'[p] = "counts" /\ cachedTableNames # None /\ names'[p] = cachedTableNames
    BY DEF TypeOK, CheckDataChange, AfterCheck, SweepPoints
  <1>3. SweepNames'
    BY <1>0, <1>1, <1>2 DEF ActivityInv, SweepNames, SweepPoints
  <1>4. ASSUME NEW t \in Tables PROVE Accounted(t)'
    <2>1. Accounted(t)
      BY DEF ActivityInv
    <2>2. GoneAndBack(t)' = GoneAndBack(t)
      BY DEF GoneAndBack
    <2> QED BY <1>0, <1>1, <1>2, <2>1, <2>2 DEF Accounted, SweepPoints
  <1> QED BY <1>3, <1>4 DEF ActivityInv

\* A request moves between two points outside of a sweep.
LEMMA OutsideAccounts ==
    ASSUME TypeOK, ActivityInv, NEW p \in Procs, NEW c, pc' = [pc EXCEPT ![p] = c],
           c \notin SweepPoints,
           UNCHANGED <<db, changes, hostChanges, cachedTableNames, cachedTableCounts,
                       names, reply>>
    PROVE  ActivityInv'
  <1>1. pc'[p] \notin SweepPoints /\ \A q \in Procs : q # p => pc'[q] = pc[q]
    BY DEF TypeOK
  <1>2. SweepNames'
    BY <1>1 DEF ActivityInv, SweepNames, SweepPoints
  <1>3. ASSUME NEW t \in Tables PROVE Accounted(t)'
    BY <1>1 DEF ActivityInv, Accounted, GoneAndBack, SweepPoints
  <1> QED BY <1>2, <1>3 DEF ActivityInv

\* A sweep's own steps.
LEMMA SweepAccounts ==
    ASSUME TypeOK, SweepExclusion, ActivityInv, NEW p \in Procs, Sweep(p)
    PROVE  ActivityInv'
  <1> USE DEF dbVars, cacheVars, outVars
  <1>0. \A q \in Procs : q # p => pc[q] \notin SweepPoints
    BY DEF Sweep, NamesAnswer, NamesResume, CountsAnswer, CountsResume, QueryThrows,
           SweepExclusion, Sweeping, SweepPoints
  <1>1. CASE NamesAnswer(p)
    <2>1. pc'[p] = "namesRead" /\ names'[p] = DOMAIN db /\ pc[p] = "names"
      BY <1>1 DEF NamesAnswer, TypeOK
    <2>2. \A q \in Procs : q # p => pc'[q] = pc[q] /\ names'[q] = names[q]
      BY <1>1 DEF NamesAnswer, TypeOK
    <2>3. SweepNames'
      BY <1>1, <2>1, <2>2 DEF NamesAnswer, ActivityInv, SweepNames
    <2>4. ASSUME NEW t \in Tables PROVE Accounted(t)'
      <3>1. Accounted(t) /\ GoneAndBack(t)' = GoneAndBack(t)
        BY <1>1 DEF NamesAnswer, ActivityInv, GoneAndBack
      <3>2. ASSUME t \notin DOMAIN db PROVE hostChanges[t] + GoneAndBack(t) <= changes[t]
        <4>1. CASE cachedTableCounts # None /\ t \in DOMAIN cachedTableCounts
          <5>1. cachedTableCounts[t] # None
            BY <4>1, NoneAssumption, CountsElim DEF TypeOK
          <5>2. Moved(cachedTableCounts, db, t) = 1
            BY <3>2, <4>1, <5>1 DEF Moved, CountAt
          <5> QED BY <3>1, <3>2, <4>1, <5>2 DEF Accounted, GoneAndBack
        <4>2. CASE ~(cachedTableCounts # None /\ t \in DOMAIN cachedTableCounts)
          BY <3>1, <3>2, <4>2 DEF Accounted, GoneAndBack, TypeOK
        <4> QED BY <4>1, <4>2
      <3> QED BY <1>0, <1>1, <2>1, <2>2, <3>1, <3>2 DEF NamesAnswer, Accounted, SweepPoints
    <2> QED BY <2>3, <2>4 DEF ActivityInv
  <1>2. CASE NamesResume(p)
    <2>1. /\ pc[p] = "namesRead"
          /\ cachedTableNames' = names[p]
          /\ pc'[p] \notin SweepPoints \/ (pc'[p] = "counts" /\ names'[p] = names[p])
      BY <1>2 DEF NamesResume, FinishSweep, AfterCheck, TypeOK, SweepPoints
    <2>2. \A q \in Procs : q # p => pc'[q] = pc[q] /\ names'[q] = names[q] /\ reply'[q] = reply[q]
      BY <1>2 DEF NamesResume, FinishSweep, TypeOK
    <2>3. SweepNames'
      BY <1>0, <2>1, <2>2 DEF SweepNames, SweepPoints
    <2>4. ASSUME NEW t \in Tables PROVE Accounted(t)'
      <3>1. Accounted(t) /\ GoneAndBack(t)' = GoneAndBack(t)
        BY <1>2 DEF NamesResume, ActivityInv, GoneAndBack
      <3> QED BY <1>0, <1>2, <2>1, <2>2, <3>1 DEF NamesResume, Accounted, SweepPoints
    <2> QED BY <2>3, <2>4 DEF ActivityInv
  <1>3. CASE CountsAnswer(p)
    <2>1. /\ pc[p] = "counts" /\ pc'[p] = "countsRead"
          /\ reply'[p] = [u \in names[p] |-> db[u]]
          /\ names[p] \subseteq DOMAIN db
      BY <1>3 DEF CountsAnswer, TypeOK
    <2>2. \A q \in Procs : q # p => pc'[q] = pc[q]
      BY <1>3 DEF CountsAnswer, TypeOK
    <2>3. SweepNames'
      <3>1. reply'[p] # None
        BY <2>1, NoneAssumption, CountsElim DEF TypeOK
      <3> QED BY <1>0, <1>3, <2>1, <2>2, <3>1 DEF CountsAnswer, ActivityInv, SweepNames, SweepPoints
    <2>4. ASSUME NEW t \in Tables PROVE Accounted(t)'
      <3>1. /\ Accounted(t) /\ GoneAndBack(t)' = GoneAndBack(t)
           
            /\ hostChanges[t] \in Nat /\ changes[t] \in Nat
        BY <1>3 DEF CountsAnswer, ActivityInv, GoneAndBack, TypeOK
      <3>2. hostChanges[t] + Moved(reply'[p], db, t)
              + (IF cachedTableCounts = None THEN 0
                 ELSE Moved(cachedTableCounts, reply'[p], t)) <= changes[t]
        <4>1. CASE t \in names[p]
          <5>1. CountAt(reply'[p], t) = CountAt(db, t)
            BY <2>1, <4>1 DEF CountAt
          <5> QED BY <3>1, <5>1 DEF Accounted, Moved
        <4>2. CASE t \notin names[p]
          <5>1. hostChanges[t] + GoneAndBack(t) <= changes[t] /\ t \notin DOMAIN reply'[p]
            BY <2>1, <3>1, <4>2 DEF Accounted
          <5>2. Moved(reply'[p], db, t) <= (IF t \in DOMAIN db THEN 1 ELSE 0)
            BY <5>1 DEF Moved, CountAt
          <5>3. cachedTableCounts # None =>
                  Moved(cachedTableCounts, reply'[p], t)
                    <= (IF t \in DOMAIN cachedTableCounts THEN 1 ELSE 0)
            BY <5>1 DEF Moved, CountAt
          <5>4. Moved(reply'[p], db, t) \in 0..1 /\ Moved(cachedTableCounts, reply'[p], t) \in 0..1
            BY DEF Moved
          <5> QED BY <3>1, <5>1, <5>2, <5>3, <5>4 DEF GoneAndBack
        <4> QED BY <4>1, <4>2
      <3> QED BY <1>0, <1>3, <2>1, <2>2, <3>1, <3>2 DEF CountsAnswer, Accounted, SweepPoints
    <2> QED BY <2>3, <2>4 DEF ActivityInv
  <1>4. CASE CountsResume(p)
    <2>1. /\ pc[p] = "countsRead" /\ pc'[p] \notin SweepPoints
          /\ reply[p] \in Counts /\ DOMAIN reply[p] = names[p]
          /\ cachedTableNames \in {None, names[p]}
      BY <1>4 DEF CountsResume, FinishSweep, AfterCheck, TypeOK, SweepPoints, ActivityInv, SweepNames
    <2>2. \A q \in Procs : q # p => pc'[q] = pc[q]
      BY <1>4 DEF CountsResume, FinishSweep, TypeOK
    <2>3. SweepNames'
      BY <1>0, <2>1, <2>2 DEF SweepNames, SweepPoints
    <2>4. ASSUME NEW t \in Tables PROVE Accounted(t)'
      <3>1. Accounted(t) /\ hostChanges[t] \in Nat /\ changes[t] \in Nat
        BY DEF ActivityInv, TypeOK
      <3>2. hostChanges'[t] = hostChanges[t] + (IF cachedTableCounts = None THEN 0
                                                ELSE Moved(cachedTableCounts, reply[p], t))
        <4>1. CASE cachedTableCounts = None
          BY <1>4, <3>1, <4>1 DEF CountsResume
        <4>2. CASE cachedTableCounts # None
          <5>1. t \in Differing(cachedTableCounts, reply[p])
                  <=> Moved(cachedTableCounts, reply[p], t) = 1
            BY <2>1, <4>2, NoneAssumption, CountsElim DEF Differing, Moved, CountAt, TypeOK
          <5>2. Moved(cachedTableCounts, reply[p], t) \in 0..1
            BY DEF Moved
          <5>3. hostChanges'[t] = IF t \in Differing(cachedTableCounts, reply[p])
                                  THEN hostChanges[t] + 1 ELSE hostChanges[t]
            BY <1>4, <4>2 DEF CountsResume
          <5> QED BY <3>1, <4>2, <5>1, <5>2, <5>3
        <4> QED BY <4>1, <4>2
      <3>3. hostChanges'[t] + Moved(reply[p], db, t) <= changes[t]
        BY <2>1, <3>1, <3>2 DEF Accounted, Moved
      <3>4. cachedTableCounts' = reply[p] /\ reply[p] # None
            /\ UNCHANGED <<db, changes, cachedTableNames>>
        BY <1>4, <2>1, NoneAssumption, CountsElim DEF CountsResume
      <3>5. t \notin DOMAIN reply[p] => GoneAndBack(t)' = Moved(reply[p], db, t)
        <4>1. t \in DOMAIN db => db[t] # None
          BY NoneAssumption, CountsElim DEF TypeOK
        <4> QED BY <3>4, <4>1 DEF GoneAndBack, Moved, CountAt
      <3>6. Moved(reply[p], db, t) \in 0..1 /\ hostChanges'[t] \in Nat
        BY <3>1, <3>2 DEF Moved
      <3>7. hostChanges'[t] <= changes[t]
        BY <3>1, <3>3, <3>6
      <3> QED BY <1>0, <2>1, <2>2, <3>3, <3>4, <3>5, <3>7 DEF Accounted, SweepPoints
    <2> QED BY <2>3, <2>4 DEF ActivityInv
  <1>5. CASE QueryThrows(p)
    BY <1>5, FinishAccounts DEF QueryThrows
  <1> QED BY <1>1, <1>2, <1>3, <1>4, <1>5 DEF Sweep

\* An import drops the counts, and with them what was owed to the last sweep.
LEMMA ImportAccounts ==
    ASSUME TypeOK, SweepExclusion, ActivityInv, NEW p \in Importers, ImportFinishes(p)
    PROVE  ActivityInv'
  <1> USE DEF dbVars, outVars
  <1>0. p \in Procs /\ pc[p] = "writing"
    BY DEF ImportFinishes, Procs
  <1>1. /\ cachedTableCounts' = None /\ cachedTableNames' = None
        /\ UNCHANGED <<db, changes, hostChanges, reply, names>>
    BY DEF ImportFinishes, CheckDataChange
  <1>2. /\ pc'[p] \in {"idle", "loop", "names"}
        /\ \A q \in Procs : q # p => pc'[q] = pc[q]
    BY <1>0 DEF ImportFinishes, CheckDataChange, AfterCheck, TypeOK
  <1>3. SweepNames'
    BY <1>1, <1>2 DEF ActivityInv, SweepNames
  <1>4. ASSUME NEW t \in Tables PROVE Accounted(t)'
    <2>1. Accounted(t) /\ hostChanges[t] \in Nat /\ changes[t] \in Nat
      BY DEF ActivityInv, TypeOK
    <2>2. GoneAndBack(t)' <= GoneAndBack(t) /\ GoneAndBack(t) \in Nat /\ GoneAndBack(t)' \in Nat
      BY <1>1 DEF GoneAndBack
    <2>3. \A f : Moved(f, db, t) \in 0..1 /\ Moved(cachedTableCounts, f, t) \in 0..1
      BY DEF Moved
    <2> QED BY <1>1, <1>2, <2>1, <2>2, <2>3 DEF Accounted
  <1> QED BY <1>3, <1>4 DEF ActivityInv

\* A rollback puts every table back to what it was at BEGIN, and the tables
\* it changes are counted.
LEMMA BatchFailsAccounts ==
    ASSUME TypeOK, ActivityInv, NEW p \in Editors, BatchFails(p)
    PROVE  ActivityInv'
  <1> USE DEF cacheVars, outVars
  <1>0. p \in Procs /\ UNCHANGED <<cacheVars, outVars, names, reply>>
    BY DEF BatchFails, Procs
  <1>1. /\ pc' = [pc EXCEPT ![p] = "idle"]
        /\ \A q \in Procs : q # p => pc'[q] = pc[q]
        /\ pc'[p] = "idle"
    BY <1>0 DEF BatchFails, TypeOK
  <1>2. SweepNames'
    BY <1>0, <1>1 DEF ActivityInv, SweepNames
  <1>3. ASSUME NEW t \in Tables PROVE Accounted(t)'
    <2>1. Accounted(t) /\ hostChanges[t] \in Nat /\ changes[t] \in Nat
      BY DEF ActivityInv, TypeOK
    <2>2. CountsAsOperation(t)
      BY DEF BatchFails, RolledBack, CountsAsOperation, Differing, CountAt, TypeOK
    <2>3. \A f : /\ Moved(f, db, t) \in 0..1
                 /\ Moved(f, db', t) \in 0..1
                 /\ Moved(cachedTableCounts, f, t) \in 0..1
      BY DEF Moved
    <2>4. /\ GoneAndBack(t) \in 0..2 /\ GoneAndBack(t)' \in 0..2
          /\ GoneAndBack(t)' <= GoneAndBack(t) + 1
      BY <1>0 DEF GoneAndBack
    <2>5. changes'[t] = changes[t] =>
            /\ GoneAndBack(t)' = GoneAndBack(t)
            /\ \A f : Moved(f, db', t) = Moved(f, db, t)
      BY <1>0, <2>1, <2>2 DEF CountsAsOperation, GoneAndBack, Moved
    <2>6. changes'[t] \in {changes[t], changes[t] + 1}
      BY <2>2 DEF CountsAsOperation
    <2> QED BY <1>0, <1>1, <2>1, <2>3, <2>4, <2>5, <2>6 DEF Accounted
  <1> QED BY <1>2, <1>3 DEF ActivityInv

LEMMA NextAccounts ==
    TypeOK /\ SweepExclusion /\ ActivityInv /\ [Next]_vars => ActivityInv'
  <1> USE DEF dbVars, switchVars, cacheVars, sweepVars, outVars, pollVars
  <1> SUFFICES ASSUME TypeOK, SweepExclusion, ActivityInv, [Next]_vars PROVE ActivityInv'
    OBVIOUS
  <1>0. ASSUME UNCHANGED <<db, changes, hostChanges, cachedTableNames, cachedTableCounts,
                           pc, names, reply>>
        PROVE  ActivityInv'
    BY <1>0 DEF ActivityInv, SweepNames, Accounted, GoneAndBack
  <1>1. CASE HostWrites
    BY <1>1, OperationMoves, OperationAccounts DEF HostWrites
  <1>2. ASSUME NEW p \in Procs, Sweep(p) PROVE ActivityInv'
    BY <1>2, SweepAccounts
  <1>3. ASSUME NEW p \in Pollers, Poll(p) PROVE ActivityInv'
    <2>0. p \in Procs
      BY DEF Procs
    <2>1. CASE PollArrives(p)
      BY <2>0, <2>1, CheckAccounts DEF PollArrives, Sweeping, SweepPoints
    <2>2. CASE PollWaits(p)
      BY <2>0, <2>2, OutsideAccounts DEF PollWaits, SweepPoints
    <2>3. CASE PollTicks(p)
      BY <2>0, <2>3, CheckAccounts DEF PollTicks, Sweeping, SweepPoints
    <2>4. CASE PollExpires(p)
      BY <2>4, <1>0 DEF PollExpires
    <2>5. CASE PollAnswers(p)
      BY <2>0, <2>5, OutsideAccounts DEF PollAnswers, SweepPoints
    <2> QED BY <1>3, <2>1, <2>2, <2>3, <2>4, <2>5 DEF Poll
  <1>4. ASSUME NEW p \in Importers \cup Editors, Write(p) PROVE ActivityInv'
    <2>0. p \in Procs
      BY DEF Procs
    <2>1. CASE WriteArrives(p)
      BY <2>0, <2>1, OutsideAccounts DEF WriteArrives, SweepPoints
    <2>2. CASE WriteBegins(p)
      BY <2>0, <2>2, OutsideAccounts DEF WriteBegins, SweepPoints
    <2>3. CASE WriteStatement(p)
      BY <2>3, OperationMoves, OperationAccounts DEF WriteStatement
    <2>4. CASE WriteRejected(p)
      BY <2>0, <2>4, OutsideAccounts DEF WriteRejected, SweepPoints
    <2> QED BY <1>4, <2>1, <2>2, <2>3, <2>4 DEF Write
  <1>5. ASSUME NEW p \in Importers, ImportFinishes(p) PROVE ActivityInv'
    BY <1>5, ImportAccounts
  <1>6. ASSUME NEW p \in Editors, EditFinishes(p) PROVE ActivityInv'
    BY <1>6, CheckAccounts DEF EditFinishes, Sweeping, Procs, SweepPoints
  <1>8. ASSUME NEW p \in Editors, BatchFails(p) PROVE ActivityInv'
    BY <1>8, BatchFailsAccounts DEF Procs
  <1>7. CASE ThrottleElapses \/ SetMonitoring \/ SetChangeDetection \/ UNCHANGED vars
    BY <1>7, <1>0 DEF ThrottleElapses, SetMonitoring, SetChangeDetection, vars
  <1> QED BY <1>1, <1>2, <1>3, <1>4, <1>5, <1>6, <1>7, <1>8 DEF Next

LEMMA ActivityInvariance == Spec => []ActivityInv
  <1>1. Init => ActivityInv
    <2> SUFFICES ASSUME Init PROVE ActivityInv
      OBVIOUS
    <2>1. SweepNames
      BY DEF Init, SweepNames
    <2>2. ASSUME NEW t \in Tables PROVE Accounted(t)
      BY DEF Init, Accounted
    <2> QED BY <2>1, <2>2 DEF ActivityInv
  <1> QED BY <1>1, TypeCorrect, SweepsExclude, NextAccounts, PTL DEF Spec

\* A table is never shown to have changed more often than it was operated on:
\* the differences recordHostChange counts between two sweeps are real ones,
\* whatever sweeps fail, are overtaken by imports, or miss new tables.
THEOREM ActivityIsReal == Spec => []NoSpuriousActivity
  <1>1. ActivityInv => NoSpuriousActivity
    BY DEF ActivityInv, Accounted, NoSpuriousActivity
  <1> QED BY <1>1, ActivityInvariance, PTL

----------------------------------------------------------------------------
(* The generation is never bumped more often than the database changed.    *)

\* The tables two lists of counts tell apart, and how many they are.
Apart(f, g) == {t \in Tables : CountAt(f, t) # CountAt(g, t)}
Distance(f, g) == Cardinality(Apart(f, g))

\* What a sweep of the tables N counts in the database d.
Listed(N, d) == [t \in N \cap DOMAIN d |-> d[t]]

\* With the signature s and the database d: the tables that a sweep with the
\* counts f shows, and those that it leaves for later ones to show.
Owed(s, f, d) == (IF s = None THEN 0 ELSE Distance(s, f)) + Distance(f, d)

\* Why NoSpuriousRefresh holds: the operations that no bump has shown yet are
\* still visible as differences, along the chain from the last signature over
\* the sweep in flight, or one with the cached names, to the database.
RefreshInv ==
    /\ generation <= operations
    /\ lastDataSignature # None =>
          generation + Distance(lastDataSignature, db) <= operations
    /\ cachedTableNames # None =>
          generation + Owed(lastDataSignature, Listed(cachedTableNames, db), db) <= operations
    /\ \A p \in Procs :
          /\ pc[p] \in {"namesRead", "counts"} =>
                generation + Owed(lastDataSignature, Listed(names[p], db), db) <= operations
          /\ pc[p] = "countsRead" =>
                generation + Owed(lastDataSignature, reply[p], db) <= operations

LEMMA DistanceType ==
    ASSUME NEW f, NEW g
    PROVE  Distance(f, g) \in Nat /\ IsFiniteSet(Apart(f, g))
  <1>1. Apart(f, g) \subseteq Tables
    BY DEF Apart
  <1> QED BY <1>1, FiniteAssumption, FS_Subset, FS_CardinalityType DEF Distance

LEMMA OwedType == \A s, f, d : Owed(s, f, d) \in Nat
  BY DistanceType DEF Owed

\* A set covered by two others is not larger than both.
LEMMA Covered ==
    ASSUME NEW A, NEW B, NEW C, IsFiniteSet(B), IsFiniteSet(C), A \subseteq B \cup C
    PROVE  Cardinality(A) <= Cardinality(B) + Cardinality(C)
  <1>1. /\ IsFiniteSet(B \cup C)
        /\ Cardinality(B \cup C) = Cardinality(B) + Cardinality(C) - Cardinality(B \cap C)
    BY FS_Union
  <1>2. Cardinality(A) <= Cardinality(B \cup C) /\ IsFiniteSet(A)
    BY <1>1, FS_Subset
  <1>3. IsFiniteSet(B \cap C)
    BY FS_Intersection
  <1>4. /\ Cardinality(A) \in Nat /\ Cardinality(B) \in Nat /\ Cardinality(C) \in Nat
        /\ Cardinality(B \cap C) \in Nat /\ Cardinality(B \cup C) \in Nat
    BY <1>1, <1>2, <1>3, FS_CardinalityType
  <1> QED BY <1>1, <1>2, <1>4

\* A set split in two.
LEMMA SplitUp ==
    ASSUME NEW A, NEW B, NEW C, IsFiniteSet(C), A \cap B = {}, A \cup B \subseteq C
    PROVE  Cardinality(A) + Cardinality(B) <= Cardinality(C)
  <1>1. IsFiniteSet(A) /\ IsFiniteSet(B)
    BY FS_Subset
  <1>2. /\ IsFiniteSet(A \cup B)
        /\ Cardinality(A \cup B) = Cardinality(A) + Cardinality(B) - Cardinality(A \cap B)
    BY <1>1, FS_Union
  <1>3. Cardinality(A \cap B) = 0
    BY FS_EmptySet
  <1>4. Cardinality(A \cup B) <= Cardinality(C)
    BY FS_Subset
  <1>5. /\ Cardinality(A) \in Nat /\ Cardinality(B) \in Nat /\ Cardinality(C) \in Nat
        /\ Cardinality(A \cup B) \in Nat
    BY <1>1, <1>2, FS_CardinalityType
  <1> QED BY <1>2, <1>3, <1>4, <1>5

\* Two databases differ at most in the tables C.
DifferIn(d, e, C) ==
    \A t \in Tables \ C :
        /\ CountAt(e, t) = CountAt(d, t)
        /\ t \in DOMAIN e <=> t \in DOMAIN d

\* What is to be shown grows by no more than the tables changed.
LEMMA OwedMore ==
    ASSUME NEW d, NEW e, NEW C \in SUBSET Tables, DifferIn(d, e, C)
    PROVE  /\ \A f : Distance(f, e) <= Distance(f, d) + Cardinality(C)
           /\ \A s, f : Owed(s, f, e) <= Owed(s, f, d) + Cardinality(C)
           /\ \A s, N : Owed(s, Listed(N, e), e) <= Owed(s, Listed(N, d), d) + Cardinality(C)
  <1>1. IsFiniteSet(C) /\ Cardinality(C) \in Nat
    BY FiniteAssumption, FS_Subset, FS_CardinalityType
  <1>2. ASSUME NEW f PROVE Distance(f, e) <= Distance(f, d) + Cardinality(C)
    <2>1. Apart(f, e) \subseteq Apart(f, d) \cup C
      BY DEF Apart, DifferIn
    <2> QED BY <1>1, <2>1, DistanceType, Covered DEF Distance
  <1>3. ASSUME NEW s, NEW f PROVE Owed(s, f, e) <= Owed(s, f, d) + Cardinality(C)
    BY <1>1, <1>2, DistanceType DEF Owed
  <1>4. ASSUME NEW s, NEW N
        PROVE  Owed(s, Listed(N, e), e) <= Owed(s, Listed(N, d), d) + Cardinality(C)
    <2> DEFINE In == C \cap N
               Out == C \ N
               L == Listed(N, d)
               M == Listed(N, e)
    <2>1. /\ IsFiniteSet(In) /\ IsFiniteSet(Out)
          /\ Cardinality(In) \in Nat /\ Cardinality(Out) \in Nat
          /\ Cardinality(In) + Cardinality(Out) <= Cardinality(C)
      BY <1>1, FS_Subset, FS_CardinalityType, SplitUp
    <2>2. \A t \in Tables : /\ CountAt(L, t) = (IF t \in N THEN CountAt(d, t) ELSE None)
                            /\ CountAt(M, t) = (IF t \in N THEN CountAt(e, t) ELSE None)
      BY DEF Listed, CountAt
    <2>3. Apart(M, e) \subseteq Apart(L, d) \cup Out
      BY <2>2 DEF Apart, DifferIn
    <2>4. Apart(s, M) \subseteq Apart(s, L) \cup In
      BY <2>2 DEF Apart, DifferIn
    <2> HIDE DEF In, Out, L, M
    <2>5. Distance(M, e) <= Distance(L, d) + Cardinality(Out)
      BY <2>1, <2>3, DistanceType, Covered DEF Distance
    <2>6. Distance(s, M) <= Distance(s, L) + Cardinality(In)
      BY <2>1, <2>4, DistanceType, Covered DEF Distance
    <2>7. Owed(s, M, e) <= Owed(s, L, d) + Cardinality(C)
      BY <1>1, <2>1, <2>5, <2>6, DistanceType DEF Owed
    <2> QED BY <2>7 DEF L, M
  <1> QED BY <1>2, <1>3, <1>4

\* An operation, or a rollback of several, on the tables C.
LEMMA OperationRefreshes ==
    ASSUME TypeOK, RefreshInv, NEW C \in SUBSET Tables, DifferIn(db, db', C),
           operations' = operations + Cardinality(C),
           UNCHANGED <<generation, lastDataSignature, cachedTableNames, names, reply>>,
           \A p \in Procs : pc'[p] = pc[p] \/ pc'[p] \notin SweepPoints
    PROVE  RefreshInv'
  <1>1. Cardinality(C) \in Nat /\ operations \in Nat /\ generation \in Nat
    BY FiniteAssumption, FS_Subset, FS_CardinalityType DEF TypeOK
  <1> USE DistanceType, OwedType, OwedMore
  <1>2. generation' <= operations'
    BY <1>1 DEF RefreshInv
  <1>3. lastDataSignature' # None =>
           generation' + Distance(lastDataSignature', db') <= operations'
    BY <1>1 DEF RefreshInv
  <1>4. cachedTableNames' # None =>
           generation' + Owed(lastDataSignature', Listed(cachedTableNames', db'), db') <= operations'
    BY <1>1 DEF RefreshInv
  <1>5. ASSUME NEW p \in Procs, pc'[p] \in {"namesRead", "counts"}
        PROVE  generation' + Owed(lastDataSignature', Listed(names'[p], db'), db') <= operations'
    BY <1>1, <1>5 DEF RefreshInv, SweepPoints
  <1>6. ASSUME NEW p \in Procs, pc'[p] = "countsRead"
        PROVE  generation' + Owed(lastDataSignature', reply'[p], db') <= operations'
    BY <1>1, <1>6 DEF RefreshInv, SweepPoints
  <1> QED BY <1>2, <1>3, <1>4, <1>5, <1>6 DEF RefreshInv

\* A step that only passes lists of tables and counts on.
LEMMA FrameRefreshes ==
    ASSUME TypeOK, RefreshInv,
           UNCHANGED <<db, operations, generation, lastDataSignature>>,
           \/ cachedTableNames' \in {cachedTableNames, None}
           \/ \E p \in Procs :
                 pc[p] \in {"namesRead", "counts"} /\ cachedTableNames' = names[p],
           \A p \in Procs :
              /\ pc'[p] \in {"namesRead", "counts"} =>
                    \/ pc[p] \in {"namesRead", "counts"} /\ names'[p] = names[p]
                    \/ cachedTableNames # None /\ names'[p] = cachedTableNames
              /\ pc'[p] = "countsRead" => pc[p] = "countsRead" /\ reply'[p] = reply[p]
    PROVE  RefreshInv'
  BY DEF RefreshInv

\* A sweep ends without having shown anything.
LEMMA FinishRefreshes ==
    ASSUME TypeOK, RefreshInv, NEW p \in Procs, FinishSweep(p),
           UNCHANGED <<db, operations, generation, lastDataSignature>>,
           \/ cachedTableNames' = cachedTableNames
           \/ pc[p] = "namesRead" /\ cachedTableNames' = names[p]
    PROVE  RefreshInv'
  <1>1. /\ pc'[p] \in {"idle", "loop"}
        /\ \A q \in Procs : q # p => pc'[q] = pc[q] /\ names'[q] = names[q] /\ reply'[q] = reply[q]
    BY DEF TypeOK, FinishSweep, AfterCheck
  <1> QED BY <1>1, FrameRefreshes

\* A request starts a sweep, or none, with the names cached or with none.
LEMMA CheckRefreshes ==
    ASSUME TypeOK, RefreshInv, NEW p \in Procs, NEW cache \in {cachedTableNames, None},
           CheckDataChange(p, cache), UNCHANGED <<db, operations>>
    PROVE  RefreshInv'
  <1>1. UNCHANGED <<generation, lastDataSignature, reply>> /\ cachedTableNames' = cache
    BY DEF CheckDataChange, outVars
  <1>2. \A q \in Procs : q # p => pc'[q] = pc[q] /\ names'[q] = names[q]
    BY DEF TypeOK, CheckDataChange
  <1>3. \/ pc'[p] \in {"idle", "loop", "names"}
        \/ pc'[p] = "counts" /\ cachedTableNames # None /\ names'[p] = cachedTableNames
    BY DEF TypeOK, CheckDataChange, AfterCheck
  <1> QED BY <1>1, <1>2, <1>3, FrameRefreshes

\* A request moves between two points outside of a sweep.
LEMMA OutsideRefreshes ==
    ASSUME TypeOK, RefreshInv, NEW p \in Procs, NEW c, pc' = [pc EXCEPT ![p] = c],
           c \notin SweepPoints,
           UNCHANGED <<db, operations, generation, lastDataSignature, cachedTableNames, names, reply>>
    PROVE  RefreshInv'
  <1>1. pc'[p] \notin SweepPoints /\ \A q \in Procs : q # p => pc'[q] = pc[q]
    BY DEF TypeOK
  <1> QED BY <1>1, FrameRefreshes DEF SweepPoints

\* Lists of counts that agree on every table are the same.
LEMMA SameCounts ==
    ASSUME NEW f \in Counts, NEW g \in Counts, f # g
    PROVE  Distance(f, g) >= 1
  <1>1. /\ DOMAIN f \in SUBSET Tables /\ f \in [DOMAIN f -> 0..MaxRows]
        /\ DOMAIN g \in SUBSET Tables /\ g \in [DOMAIN g -> 0..MaxRows]
    BY CountsElim
  <1>2. \A t \in DOMAIN f : f[t] # None
    BY <1>1, NoneAssumption
  <1>3. \A t \in DOMAIN g : g[t] # None
    BY <1>1, NoneAssumption
  <1>4. ASSUME Apart(f, g) = {} PROVE FALSE
    <2>1. \A t \in Tables : CountAt(f, t) = CountAt(g, t)
      BY <1>4 DEF Apart
    <2>2. DOMAIN f = DOMAIN g
      BY <1>1, <1>2, <1>3, <2>1 DEF CountAt
    <2>3. \A t \in DOMAIN f : f[t] = g[t]
      BY <1>1, <2>1, <2>2 DEF CountAt
    <2> QED BY <1>1, <2>2, <2>3
  <1>5. Distance(f, g) # 0
    BY <1>4, DistanceType, FS_EmptySet DEF Distance
  <1> QED BY <1>5, DistanceType

\* Once a sweep of N with the counts f has shown what it found, the next one
\* shows what has been changed since.
LEMMA ShownOnce ==
    ASSUME NEW f, NEW d
    PROVE  Owed(f, Listed(DOMAIN f, d), d) <= Distance(f, d)
  <1> DEFINE L == Listed(DOMAIN f, d)
  <1>1. \A t \in Tables : CountAt(L, t) = (IF t \in DOMAIN f THEN CountAt(d, t) ELSE None)
    BY DEF Listed, CountAt
  <1>2. \A t \in Tables : t \notin DOMAIN f => CountAt(f, t) = None
    BY DEF CountAt
  <1> HIDE DEF L
  <1>3. Apart(f, L) \cap Apart(L, d) = {} /\ Apart(f, L) \cup Apart(L, d) \subseteq Apart(f, d)
    BY <1>1, <1>2 DEF Apart
  <1>4. Distance(f, L) + Distance(L, d) <= Distance(f, d)
    BY <1>3, SplitUp, DistanceType DEF Distance
  <1>5. Owed(f, L, d) <= Distance(f, d)
    BY <1>4, DistanceType DEF Owed
  <1> QED BY <1>5 DEF L

\* A sweep's own steps.
LEMMA SweepRefreshes ==
    ASSUME TypeOK, SweepExclusion, SweepNames, RefreshInv, NEW p \in Procs, Sweep(p)
    PROVE  RefreshInv'
  <1> USE DEF dbVars, cacheVars, outVars
  <1>0. \A q \in Procs : q # p => pc[q] \notin SweepPoints
    BY DEF Sweep, NamesAnswer, NamesResume, CountsAnswer, CountsResume, QueryThrows,
           SweepExclusion, Sweeping, SweepPoints
  <1>1. CASE NamesAnswer(p)
    <2>1. /\ pc'[p] = "namesRead" /\ names'[p] = DOMAIN db
          /\ \A q \in Procs : q # p => pc'[q] = pc[q]
          /\ UNCHANGED <<db, operations, generation, lastDataSignature, cachedTableNames, reply>>
      BY <1>1 DEF NamesAnswer, TypeOK
    <2>2. Listed(DOMAIN db, db) = db
      BY CountsElim DEF TypeOK, Listed
    <2>3. Distance(db, db) = 0
      BY FS_EmptySet DEF Distance, Apart
    <2>4. generation + Owed(lastDataSignature, db, db) <= operations
      BY <2>3, DistanceType DEF Owed, RefreshInv, TypeOK
    <2> QED BY <1>0, <2>1, <2>2, <2>4 DEF RefreshInv, SweepPoints
  <1>2. CASE NamesResume(p)
    <2>1. CASE names[p] = {}
      BY <1>2, <2>1, FinishRefreshes DEF NamesResume
    <2>2. CASE names[p] # {}
      <3>1. /\ pc[p] = "namesRead" /\ pc'[p] = "counts" /\ cachedTableNames' = names[p]
            /\ \A q \in Procs : q # p => pc'[q] = pc[q]
            /\ UNCHANGED <<db, operations, generation, lastDataSignature, names, reply>>
        BY <1>2, <2>2 DEF NamesResume, TypeOK
      <3> QED BY <3>1, FrameRefreshes
    <2> QED BY <2>1, <2>2
  <1>3. CASE CountsAnswer(p)
    <2>1. /\ pc[p] = "counts" /\ pc'[p] = "countsRead"
          /\ \A q \in Procs : q # p => pc'[q] = pc[q]
          /\ UNCHANGED <<db, operations, generation, lastDataSignature, cachedTableNames, names>>
      BY <1>3 DEF CountsAnswer, TypeOK
    <2>2. reply'[p] = Listed(names[p], db)
      <3>1. reply'[p] = [t \in names[p] |-> db[t]] /\ names[p] \cap DOMAIN db = names[p]
        BY <1>3 DEF CountsAnswer, TypeOK
      <3> QED BY <3>1 DEF Listed
    <2> QED BY <1>0, <2>1, <2>2 DEF RefreshInv, SweepPoints
  <1>4. CASE CountsResume(p)
    <2>1. /\ pc[p] = "countsRead" /\ pc'[p] \notin SweepPoints
          /\ \A q \in Procs : q # p => pc'[q] = pc[q]
          /\ lastDataSignature' = reply[p]
          /\ generation' = IF lastDataSignature # None /\ lastDataSignature # reply[p]
                           THEN generation + 1 ELSE generation
          /\ UNCHANGED <<db, operations, cachedTableNames>>
      BY <1>4 DEF CountsResume, FinishSweep, AfterCheck, SweepPoints, TypeOK
    <2>2. /\ reply[p] # None /\ reply[p] \in Counts
          /\ cachedTableNames \in {None, DOMAIN reply[p]}
      BY <2>1 DEF SweepNames, TypeOK
    <2>3. generation + Owed(lastDataSignature, reply[p], db) <= operations
      BY <2>1 DEF RefreshInv
    <2>4. /\ generation \in Nat /\ operations \in Nat /\ Distance(reply[p], db) \in Nat
          /\ Distance(lastDataSignature, reply[p]) \in Nat
          /\ lastDataSignature \in {None} \cup Counts
      BY DistanceType DEF TypeOK
    <2>5. generation' + Distance(reply[p], db) <= operations /\ generation' \in Nat
      <3>1. CASE lastDataSignature # None /\ lastDataSignature # reply[p]
        <4>1. Distance(lastDataSignature, reply[p]) >= 1
          BY <2>2, <2>4, <3>1, SameCounts
        <4> QED BY <2>1, <2>3, <2>4, <3>1, <4>1 DEF Owed
      <3>2. CASE ~(lastDataSignature # None /\ lastDataSignature # reply[p])
        BY <2>1, <2>3, <2>4, <3>2 DEF Owed
      <3> QED BY <3>1, <3>2
    <2>6. generation' <= operations'
      BY <2>1, <2>4, <2>5
    <2>7. lastDataSignature' # None =>
             generation' + Distance(lastDataSignature', db') <= operations'
      BY <2>1, <2>5
    <2>8. cachedTableNames' # None =>
             generation' + Owed(lastDataSignature', Listed(cachedTableNames', db'), db') <= operations'
      <3>1. Owed(reply[p], Listed(DOMAIN reply[p], db), db) <= Distance(reply[p], db)
        BY ShownOnce
      <3>2. generation' + Owed(reply[p], Listed(DOMAIN reply[p], db), db) <= operations
        BY <2>4, <2>5, <3>1, OwedType
      <3> QED BY <2>1, <2>2, <3>2
    <2>9. \A q \in Procs : pc'[q] \notin SweepPoints
      BY <1>0, <2>1
    <2> QED BY <2>6, <2>7, <2>8, <2>9 DEF RefreshInv, SweepPoints
  <1>5. CASE QueryThrows(p)
    BY <1>5, FinishRefreshes DEF QueryThrows
  <1> QED BY <1>1, <1>2, <1>3, <1>4, <1>5 DEF Sweep

\* Host operations change one table, and are counted.
LEMMA HostOperation ==
    ASSUME TypeOK, RowOperation \/ CreateTable \/ DropTable
    PROVE  \E t \in Tables : DifferIn(db, db', {t}) /\ operations' = operations + Cardinality({t})
  <1>0. DOMAIN db \in SUBSET Tables /\ db \in [DOMAIN db -> 0..MaxRows]
    BY CountsElim DEF TypeOK
  <1>1. CASE RowOperation
    <2>1. PICK u \in DOMAIN db, c \in 0..MaxRows : Operation(u, [db EXCEPT ![u] = c])
      BY <1>1 DEF RowOperation
    <2>2. DifferIn(db, db', {u})
      BY <1>0, <2>1 DEF Operation, CountAt, DifferIn
    <2> QED BY <1>0, <2>1, <2>2, FS_Singleton DEF Operation
  <1>2. CASE CreateTable
    <2>1. PICK u \in Tables \ DOMAIN db :
             Operation(u, [v \in DOMAIN db \cup {u} |-> IF v = u THEN 0 ELSE db[v]])
      BY <1>2 DEF CreateTable
    <2>2. DifferIn(db, db', {u})
      BY <1>0, <2>1 DEF Operation, CountAt, DifferIn
    <2> QED BY <1>0, <2>1, <2>2, FS_Singleton DEF Operation
  <1>3. CASE DropTable
    <2>1. PICK u \in DOMAIN db : Operation(u, [v \in DOMAIN db \ {u} |-> db[v]])
      BY <1>3 DEF DropTable
    <2>2. DifferIn(db, db', {u})
      BY <1>0, <2>1 DEF Operation, CountAt, DifferIn
    <2> QED BY <1>0, <2>1, <2>2, FS_Singleton DEF Operation
  <1> QED BY <1>1, <1>2, <1>3

LEMMA NextRefreshes ==
    TypeOK /\ SweepExclusion /\ SweepNames /\ RefreshInv /\ [Next]_vars => RefreshInv'
  <1> USE DEF dbVars, switchVars, cacheVars, sweepVars, outVars, pollVars
  <1> SUFFICES ASSUME TypeOK, SweepExclusion, SweepNames, RefreshInv, [Next]_vars PROVE RefreshInv'
    OBVIOUS
  <1>0. ASSUME UNCHANGED <<db, operations, generation, lastDataSignature, cachedTableNames,
                           pc, names, reply>>
        PROVE  RefreshInv'
    BY <1>0 DEF RefreshInv
  <1>a. ASSUME RowOperation \/ CreateTable \/ DropTable,
               UNCHANGED <<generation, lastDataSignature, cachedTableNames, pc, names, reply>>
        PROVE  RefreshInv'
    BY <1>a, HostOperation, OperationRefreshes
  <1>1. CASE HostWrites
    BY <1>1, <1>a DEF HostWrites
  <1>2. ASSUME NEW p \in Procs, Sweep(p) PROVE RefreshInv'
    BY <1>2, SweepRefreshes
  <1>3. ASSUME NEW p \in Pollers, Poll(p) PROVE RefreshInv'
    <2>0. p \in Procs
      BY DEF Procs
    <2>1. CASE PollArrives(p)
      BY <2>0, <2>1, CheckRefreshes DEF PollArrives
    <2>2. CASE PollWaits(p)
      BY <2>0, <2>2, OutsideRefreshes DEF PollWaits, SweepPoints
    <2>3. CASE PollTicks(p)
      BY <2>0, <2>3, CheckRefreshes DEF PollTicks
    <2>4. CASE PollExpires(p)
      BY <2>4, <1>0 DEF PollExpires
    <2>5. CASE PollAnswers(p)
      BY <2>0, <2>5, OutsideRefreshes DEF PollAnswers, SweepPoints
    <2> QED BY <1>3, <2>1, <2>2, <2>3, <2>4, <2>5 DEF Poll
  <1>4. ASSUME NEW p \in Importers \cup Editors, Write(p) PROVE RefreshInv'
    <2>0. p \in Procs
      BY DEF Procs
    <2>1. CASE WriteArrives(p)
      BY <2>0, <2>1, OutsideRefreshes DEF WriteArrives, SweepPoints
    <2>2. CASE WriteBegins(p)
      BY <2>0, <2>2, OutsideRefreshes DEF WriteBegins, SweepPoints
    <2>3. CASE WriteStatement(p)
      BY <2>3, <1>a DEF WriteStatement
    <2>4. CASE WriteRejected(p)
      BY <2>0, <2>4, OutsideRefreshes DEF WriteRejected, SweepPoints
    <2> QED BY <1>4, <2>1, <2>2, <2>3, <2>4 DEF Write
  <1>5. ASSUME NEW p \in Importers, ImportFinishes(p) PROVE RefreshInv'
    BY <1>5, CheckRefreshes DEF ImportFinishes, Procs
  <1>6. ASSUME NEW p \in Editors, EditFinishes(p) PROVE RefreshInv'
    BY <1>6, CheckRefreshes DEF EditFinishes, Procs
  <1>7. ASSUME NEW p \in Editors, BatchFails(p) PROVE RefreshInv'
    <2>1. /\ pc' = [pc EXCEPT ![p] = "idle"] /\ p \in Procs
          /\ operations' = operations + Cardinality(RolledBack)
          /\ UNCHANGED <<generation, lastDataSignature, cachedTableNames, names, reply>>
      BY <1>7 DEF BatchFails, Procs
    <2>2. DifferIn(db, db', RolledBack)
      BY <1>7 DEF BatchFails, RolledBack, DifferIn, Differing, CountAt
    <2>3. \A q \in Procs : pc'[q] = pc[q] \/ pc'[q] \notin SweepPoints
      BY <2>1 DEF TypeOK, SweepPoints
    <2> QED BY <2>1, <2>2, <2>3, RolledBackType, OperationRefreshes
  <1>8. CASE ThrottleElapses \/ SetMonitoring \/ SetChangeDetection \/ UNCHANGED vars
    BY <1>8, <1>0 DEF ThrottleElapses, SetMonitoring, SetChangeDetection, vars
  <1> QED BY <1>1, <1>2, <1>3, <1>4, <1>5, <1>6, <1>7, <1>8 DEF Next

\* Clients are never told to refresh more often than the database was changed:
\* each bump shows a difference that an operation of its own has made.
THEOREM RefreshesAreReal == Spec => []NoSpuriousRefresh
  <1>1. Init => RefreshInv
    BY DEF Init, RefreshInv
  <1>2. ActivityInv => SweepNames
    BY DEF ActivityInv
  <1>3. RefreshInv => NoSpuriousRefresh
    BY DEF RefreshInv, NoSpuriousRefresh
  <1> QED BY <1>1, <1>2, <1>3, TypeCorrect, SweepsExclude, ActivityInvariance, NextRefreshes, PTL DEF Spec

----------------------------------------------------------------------------
(* What the clients of the long poll have been told.                       *)

\* A client is never ahead of the server; one that has been given a signature
\* was given it by a sweep, and nothing has been noticed since, or the
\* generation has moved on.
ToldInv ==
    \A p \in Pollers :
        /\ seen[p] <= generation
        /\ known[p] # None => lastDataSignature # None
        /\ known[p] # None /\ seen[p] = generation => known[p] = lastDataSignature

\* Only the end of a sweep and an answer have a part in it.
LEMMA FrameTells ==
    ASSUME [Next]_vars, ~\E p \in Procs : CountsResume(p), ~\E p \in Pollers : PollAnswers(p)
    PROVE  UNCHANGED <<generation, lastDataSignature, seen, known>>
  <1> USE DEF dbVars, switchVars, cacheVars, sweepVars, outVars, pollVars
  <1>1. ASSUME NEW p \in Procs, Sweep(p)
        PROVE  UNCHANGED <<generation, lastDataSignature, seen, known>>
    BY <1>1 DEF Sweep, NamesAnswer, NamesResume, CountsAnswer, QueryThrows
  <1>2. ASSUME NEW p \in Pollers, Poll(p)
        PROVE  UNCHANGED <<generation, lastDataSignature, seen, known>>
    BY <1>2 DEF Poll, PollArrives, PollWaits, PollTicks, PollExpires, CheckDataChange
  <1>3. ASSUME NEW p \in Importers \cup Editors,
               Write(p) \/ ImportFinishes(p) \/ EditFinishes(p) \/ BatchFails(p)
        PROVE  UNCHANGED <<generation, lastDataSignature, seen, known>>
    BY <1>3 DEF Write, WriteArrives, WriteBegins, WriteStatement, WriteRejected,
                ImportFinishes, EditFinishes, BatchFails, CheckDataChange
  <1>4. CASE HostWrites \/ ThrottleElapses \/ SetMonitoring \/ SetChangeDetection \/ UNCHANGED vars
    BY <1>4 DEF HostWrites, ThrottleElapses, SetMonitoring, SetChangeDetection, vars
  <1> QED BY <1>1, <1>2, <1>3, <1>4 DEF Next

LEMMA NextTells == TypeOK /\ SweepNames /\ ToldInv /\ [Next]_vars => ToldInv'
  <1> SUFFICES ASSUME TypeOK, SweepNames, ToldInv, [Next]_vars PROVE ToldInv'
    OBVIOUS
  <1> USE DEF ToldInv, outVars, pollVars
  <1>0. generation \in Nat /\ seen \in [Pollers -> Nat] /\ known \in [Pollers -> {None} \cup Counts]
    BY DEF TypeOK
  <1>1. ASSUME NEW q \in Procs, CountsResume(q) PROVE ToldInv'
    <2>1. reply[q] # None
      BY <1>1 DEF SweepNames, CountsResume
    <2>2. seen' = seen /\ known' = known /\ lastDataSignature' = reply[q]
      BY <1>1 DEF CountsResume
    <2>3. CASE lastDataSignature # None /\ lastDataSignature # reply[q]
      <3>1. generation' = generation + 1
        BY <1>1, <2>3 DEF CountsResume
      <3> QED BY <1>0, <2>1, <2>2, <3>1
    <2>4. CASE lastDataSignature = None \/ lastDataSignature = reply[q]
      <3>1. generation' = generation
        BY <1>1, <2>4 DEF CountsResume
      <3> QED BY <1>0, <2>1, <2>2, <2>4, <3>1
    <2> QED BY <2>3, <2>4
  <1>2. ASSUME NEW q \in Pollers, PollAnswers(q) PROVE ToldInv'
    <2>1. /\ seen' = [seen EXCEPT ![q] = generation]
          /\ known' = [known EXCEPT ![q] = lastDataSignature]
          /\ generation' = generation /\ lastDataSignature' = lastDataSignature
      BY <1>2 DEF PollAnswers
    <2> QED BY <1>0, <2>1
  <1>3. CASE UNCHANGED <<generation, lastDataSignature, seen, known>>
    BY <1>3
  <1> QED BY <1>1, <1>2, <1>3, FrameTells

\* However sweeps fail and imports interleave, whoever holds the server's
\* generation has been told of everything the server has noticed.
THEOREM NothingIsSwallowed == Spec => []NothingSwallowed
  <1>1. Init => ToldInv
    BY DEF Init, ToldInv
  <1>2. ActivityInv => SweepNames
    BY DEF ActivityInv
  <1>3. ToldInv => NothingSwallowed
    BY DEF ToldInv, NothingSwallowed
  <1> QED BY <1>1, <1>2, <1>3, TypeCorrect, ActivityInvariance, NextTells, PTL DEF Spec
=============================================================================
