-------------------------- MODULE ChangeDetection --------------------------
(***************************************************************************)
(* The change detector of the debug server: ServerContext.checkDataChange, *)
(* the long poll of GET /api/generation built on it, and the handlers that *)
(* write and then ask for a check (import and edit batches).               *)
(*                                                                         *)
(* The server is one Dart isolate, so code between two awaits is one       *)
(* action and everything else interleaves at the awaits.  A query is two   *)
(* steps: SQLite computes the rows (the ...Answer actions), and later the  *)
(* continuation of the await runs (the ...Resume actions).                 *)
(*                                                                         *)
(* Data is abstracted to what change detection can see: the database maps  *)
(* each existing table to its number of rows, and a signature              *)
(* "t1:c1,t2:c2" is the same function restricted to the tables swept.      *)
(* Time is abstracted to the two facts the code tests: whether the last    *)
(* sweep is younger than changeDetectionMinInterval, and whether a poll is *)
(* past its deadline.                                                      *)
(***************************************************************************)
EXTENDS Integers, FiniteSets

CONSTANTS
    Tables,         \* every table the host database may ever hold
    MaxRows,        \* bound: rows per table
    MaxChanges,     \* bound: database operations in one behaviour
    Pollers,        \* long-polling clients of /api/generation
    Importers,      \* requests served by the import handler
    Editors,        \* requests served by the edit-batch handler
    SchemaChanges,  \* may tables be created and dropped while serving?
    None            \* Dart null

Procs == Pollers \cup Importers \cup Editors

ASSUME BoundsAssumption == MaxRows \in Nat /\ MaxChanges \in Nat
ASSUME FiniteAssumption == IsFiniteSet(Tables)
ASSUME SchemaChangesAssumption == SchemaChanges \in BOOLEAN
ASSUME RolesAssumption ==
    /\ Pollers \cap Importers = {}
    /\ Pollers \cap Editors = {}
    /\ Importers \cap Editors = {}
\* null is neither a list of tables nor a map of counts nor a number
ASSUME NoneAssumption ==
    /\ \A S \in SUBSET Tables :
          /\ None # S
          /\ \A f \in [S -> 0..MaxRows] : None # f
    /\ None \notin Nat

VARIABLES
    db,                       \* the host database: table -> row count
    changes,                  \* history: database operations so far, per table
    operations,               \* history: database operations so far, of all tables
    saved,                    \* the database at BEGIN of the open transaction
    monitoringEnabled,        \* the global kill switch, TRUE = not killed
    changeDetectionEnabled,
    generation,
    lastDataSignature,
    cachedTableNames,
    cachedTableCounts,
    isChangeCheckInProgress,
    throttled,                \* _lastChangeCheck is within the min interval
    hostChanges,              \* tableActivity.recordHostChange calls per table
    pc,                       \* where each request is suspended
    names,                    \* the table list of the sweep a request runs
    reply,                    \* the counts a query computed, not yet consumed
    since,                    \* the ?since= of each poll
    deadline,                 \* of each poll: not set yet, ahead, passed
    seen,                     \* the last generation each poller was given
    known                     \* history: the signature when it was given that

dbVars     == <<db, changes, operations, saved>>
switchVars == <<monitoringEnabled, changeDetectionEnabled>>
cacheVars  == <<cachedTableNames, cachedTableCounts>>
sweepVars  == <<isChangeCheckInProgress, throttled>>
outVars    == <<generation, lastDataSignature, hostChanges>>
pollVars   == <<since, deadline, seen, known>>
vars == <<dbVars, switchVars, cacheVars, sweepVars, outVars,
          pc, names, reply, pollVars>>

Counts == UNION {[S -> 0..MaxRows] : S \in SUBSET Tables}

\* The control points a request can be suspended at.
SweepPoints == {"names", "namesRead", "counts", "countsRead"}
PollPoints  == {"loop", "sleep"}
WritePoints == {"received", "writing"}

Sweeping(p) == pc[p] \in SweepPoints

TypeOK ==
    /\ db \in Counts
    /\ changes \in [Tables -> Nat]
    /\ operations \in Nat
    /\ saved \in {None} \cup Counts
    /\ monitoringEnabled \in BOOLEAN
    /\ changeDetectionEnabled \in BOOLEAN
    /\ generation \in Nat
    /\ lastDataSignature \in {None} \cup Counts
    /\ cachedTableNames \in {None} \cup SUBSET Tables
    /\ cachedTableCounts \in {None} \cup Counts
    /\ isChangeCheckInProgress \in BOOLEAN
    /\ throttled \in BOOLEAN
    /\ hostChanges \in [Tables -> Nat]
    /\ pc \in [Procs -> {"idle"} \cup SweepPoints \cup PollPoints \cup WritePoints]
    /\ \A p \in Procs :
          pc[p] \notin IF p \in Pollers THEN WritePoints ELSE PollPoints
    /\ names \in [Procs -> SUBSET Tables]
    /\ reply \in [Procs -> {None} \cup Counts]
    /\ since \in [Pollers -> {None} \cup Nat]
    /\ deadline \in [Pollers -> {"none", "ahead", "passed"}]
    /\ seen \in [Pollers -> Nat]
    /\ known \in [Pollers -> {None} \cup Counts]

Init ==
    /\ db \in {[t \in S |-> 0] : S \in SUBSET Tables}
    /\ SchemaChanges \/ DOMAIN db = Tables
    /\ changes = [t \in Tables |-> 0]
    /\ operations = 0
    /\ saved = None
    /\ monitoringEnabled = TRUE
    /\ changeDetectionEnabled = TRUE
    /\ generation = 0
    /\ lastDataSignature = None
    /\ cachedTableNames = None
    /\ cachedTableCounts = None
    /\ isChangeCheckInProgress = FALSE
    /\ throttled = FALSE
    /\ hostChanges = [t \in Tables |-> 0]
    /\ pc = [p \in Procs |-> "idle"]
    /\ names = [p \in Procs |-> {}]
    /\ reply = [p \in Procs |-> None]
    /\ since = [p \in Pollers |-> None]
    /\ deadline = [p \in Pollers |-> "none"]
    /\ seen = [p \in Pollers |-> 0]
    /\ known = [p \in Pollers |-> None]

----------------------------------------------------------------------------
(* The host database.  One operation inserts or deletes one row, or, when  *)
(* SchemaChanges, creates or drops one table.  A write that leaves the row *)
(* count alone is invisible to a signature of counts and is left out.      *)
(* All statements share one connection, so while an edit batch has its     *)
(* transaction open, everybody else's writes are part of it.               *)

Operation(t, new) ==
    /\ operations < MaxChanges
    /\ changes' = [changes EXCEPT ![t] = @ + 1]
    /\ operations' = operations + 1
    /\ db' = new
    /\ UNCHANGED saved

RowOperation ==
    \E t \in DOMAIN db : \E c \in {db[t] - 1, db[t] + 1} \cap 0..MaxRows :
        Operation(t, [db EXCEPT ![t] = c])

CreateTable ==
    \E t \in Tables \ DOMAIN db :
        Operation(t, [u \in DOMAIN db \cup {t} |-> IF u = t THEN 0 ELSE db[u]])

DropTable ==
    \E t \in DOMAIN db : Operation(t, [u \in DOMAIN db \ {t} |-> db[u]])

\* The host application writes to its own database; the server is not told.
HostWrites ==
    /\ RowOperation \/ (SchemaChanges /\ (CreateTable \/ DropTable))
    /\ UNCHANGED <<switchVars, cacheVars, sweepVars, outVars,
                   pc, names, reply, pollVars>>

----------------------------------------------------------------------------
(* checkDataChange.                                                        *)

\* Where a request continues once its checkDataChange call has returned.
AfterCheck(p) == IF p \in Pollers THEN "loop" ELSE "idle"

\* Faulty variant: a check does not look whether one is in progress.
MayCheckReentrant ==
    /\ monitoringEnabled
    /\ changeDetectionEnabled
    /\ ~throttled

\* The four early returns at the top of checkDataChange, negated.
MayCheck ==
    /\ monitoringEnabled
    /\ changeDetectionEnabled
    /\ ~isChangeCheckInProgress
    /\ ~throttled

\* p calls checkDataChange while _cachedTableNames holds cache: up to its
\* first await.  With cached names there is no sqlite_master query, and with
\* an empty list there is no query at all.
CheckDataChange(p, cache) ==
    /\ \/ /\ ~MayCheck
          /\ pc' = [pc EXCEPT ![p] = AfterCheck(p)]
          /\ UNCHANGED <<isChangeCheckInProgress, names>>
       \/ /\ MayCheck
          /\ cache = None
          /\ pc' = [pc EXCEPT ![p] = "names"]
          /\ isChangeCheckInProgress' = TRUE
          /\ UNCHANGED names
       \/ /\ MayCheck
          /\ cache = {}
          /\ pc' = [pc EXCEPT ![p] = AfterCheck(p)]
          /\ UNCHANGED <<isChangeCheckInProgress, names>>
       \/ /\ MayCheck
          /\ cache \notin {None, {}}
          /\ pc' = [pc EXCEPT ![p] = "counts"]
          /\ isChangeCheckInProgress' = TRUE
          /\ names' = [names EXCEPT ![p] = cache]
    /\ cachedTableNames' = cache
    /\ UNCHANGED <<throttled, reply, outVars>>

\* The finally block, and the return to the caller.
FinishSweep(p) ==
    /\ isChangeCheckInProgress' = FALSE
    /\ pc' = [pc EXCEPT ![p] = AfterCheck(p)]
    /\ reply' = [reply EXCEPT ![p] = None]
    /\ names' = [names EXCEPT ![p] = {}]

\* SQLite answers the sqlite_master query of getTableNames.
NamesAnswer(p) ==
    /\ pc[p] = "names"
    /\ names' = [names EXCEPT ![p] = DOMAIN db]
    /\ pc' = [pc EXCEPT ![p] = "namesRead"]
    /\ UNCHANGED <<dbVars, switchVars, cacheVars, sweepVars, outVars, reply, pollVars>>

\* checkDataChange resumes with the table names and caches them.
NamesResume(p) ==
    /\ pc[p] = "namesRead"
    /\ cachedTableNames' = names[p]
    /\ \/ /\ names[p] = {}
          /\ FinishSweep(p)
       \/ /\ names[p] # {}
          /\ pc' = [pc EXCEPT ![p] = "counts"]
          /\ UNCHANGED <<isChangeCheckInProgress, names, reply>>
    /\ UNCHANGED <<dbVars, switchVars, cachedTableCounts, throttled,
                   outVars, pollVars>>

\* SQLite answers the UNION ALL of counts; it can only if every table exists.
CountsAnswer(p) ==
    /\ pc[p] = "counts"
    /\ names[p] \subseteq DOMAIN db
    /\ reply' = [reply EXCEPT ![p] = [t \in names[p] |-> db[t]]]
    /\ pc' = [pc EXCEPT ![p] = "countsRead"]
    /\ UNCHANGED <<dbVars, switchVars, cacheVars, sweepVars, outVars, names, pollVars>>

\* The tables whose count differs between two sweeps (absent counts as null).
Differing(old, new) ==
    {t \in DOMAIN old \cup DOMAIN new :
        \/ t \notin DOMAIN old
        \/ t \notin DOMAIN new
        \/ old[t] # new[t]}

\* Faulty variant: the signature is stored only when it bumps nothing.
CountsResumeKeepsSignature(p) ==
    /\ pc[p] = "countsRead"
    /\ cachedTableCounts' = reply[p]
    /\ IF lastDataSignature # None /\ lastDataSignature # reply[p]
       THEN generation' = generation + 1 /\ UNCHANGED lastDataSignature
       ELSE lastDataSignature' = reply[p] /\ UNCHANGED generation
    /\ throttled' = TRUE
    /\ FinishSweep(p)
    /\ UNCHANGED <<dbVars, switchVars, cachedTableNames, hostChanges, pollVars>>

\* Faulty variant: what lights no table bumps nothing, so the first sweep
\* after an invalidation is taken for the first of all.
CountsResumeAfterInvalidation(p) ==
    /\ pc[p] = "countsRead"
    /\ cachedTableCounts' = reply[p]
    /\ generation' = IF cachedTableCounts # None /\ cachedTableCounts # reply[p]
                     THEN generation + 1 ELSE generation
    /\ lastDataSignature' = reply[p]
    /\ throttled' = TRUE
    /\ FinishSweep(p)
    /\ UNCHANGED <<dbVars, switchVars, cachedTableNames, hostChanges, pollVars>>

\* Faulty variant: the first sweep is compared with an empty map.
CountsResumeNoBaseline(p) ==
    /\ pc[p] = "countsRead"
    /\ hostChanges' =
          [t \in Tables |-> IF \/ cachedTableCounts = None /\ t \in DOMAIN reply[p]
                               \/ /\ cachedTableCounts # None
                                  /\ t \in Differing(cachedTableCounts, reply[p])
                            THEN hostChanges[t] + 1 ELSE hostChanges[t]]
    /\ cachedTableCounts' = reply[p]
    /\ lastDataSignature' = reply[p]
    /\ throttled' = TRUE
    /\ FinishSweep(p)
    /\ UNCHANGED <<dbVars, switchVars, cachedTableNames, generation, pollVars>>

\* _buildDataSignature resumes with the counts, and checkDataChange with the
\* signature: activity, the counts cache, the generation, the throttle clock.
CountsResume(p) ==
    /\ pc[p] = "countsRead"
    /\ hostChanges' =
          IF cachedTableCounts = None THEN hostChanges
          ELSE [t \in Tables |->
                  IF t \in Differing(cachedTableCounts, reply[p])
                  THEN hostChanges[t] + 1 ELSE hostChanges[t]]
    /\ cachedTableCounts' = reply[p]
    /\ generation' = IF lastDataSignature # None /\ lastDataSignature # reply[p]
                     THEN generation + 1 ELSE generation
    /\ lastDataSignature' = reply[p]
    /\ throttled' = TRUE
    /\ FinishSweep(p)
    /\ UNCHANGED <<dbVars, switchVars, cachedTableNames, pollVars>>

\* Faulty variant: no finally block.
QueryThrowsNoFinally(p) ==
    /\ pc[p] \in {"names", "counts"}
    /\ pc' = [pc EXCEPT ![p] = AfterCheck(p)]
    /\ names' = [names EXCEPT ![p] = {}]
    /\ UNCHANGED <<dbVars, switchVars, cacheVars, sweepVars, outVars, reply, pollVars>>

\* Faulty variant: an error forgets the signature but not the counts.
QueryThrowsForgets(p) ==
    /\ pc[p] \in {"names", "counts"}
    /\ FinishSweep(p)
    /\ lastDataSignature' = None
    /\ UNCHANGED <<dbVars, switchVars, cacheVars, throttled, generation, hostChanges,
                   pollVars>>

\* A query of the sweep throws (locked database, dropped table, timeout): the
\* error is logged and nothing but the in-progress flag changes.
QueryThrows(p) ==
    /\ pc[p] \in {"names", "counts"}
    /\ FinishSweep(p)
    /\ UNCHANGED <<dbVars, switchVars, cacheVars, throttled, outVars, pollVars>>

\* changeDetectionMinInterval has elapsed since _lastChangeCheck.
ThrottleElapses ==
    /\ throttled
    /\ throttled' = FALSE
    /\ UNCHANGED <<dbVars, switchVars, cacheVars, isChangeCheckInProgress, outVars,
                   pc, names, reply, pollVars>>

----------------------------------------------------------------------------
(* GET /api/generation: handleGeneration.                                  *)

\* A request arrives, with ?since= the generation its client last saw, or
\* without since; it first runs a check.
PollArrives(p) ==
    /\ pc[p] = "idle"
    /\ \E s \in {seen[p], None} : since' = [since EXCEPT ![p] = s]
    /\ CheckDataChange(p, cachedTableNames)
    /\ UNCHANGED <<dbVars, switchVars, cachedTableCounts, deadline, seen, known>>

\* The condition of the while loop of handleGeneration.
KeepsWaiting(p) ==
    since[p] # None /\ deadline[p] # "passed" /\ generation <= since[p]

\* The loop goes round, its deadline set before the first round: the handler
\* sleeps for longPollCheckInterval.
PollWaits(p) ==
    /\ pc[p] = "loop"
    /\ KeepsWaiting(p)
    /\ pc' = [pc EXCEPT ![p] = "sleep"]
    /\ deadline' = [deadline EXCEPT ![p] = "ahead"]
    /\ UNCHANGED <<dbVars, switchVars, cacheVars, sweepVars, outVars,
                   names, reply, since, seen, known>>

\* The sleep is over: check again.
PollTicks(p) ==
    /\ pc[p] = "sleep"
    /\ CheckDataChange(p, cachedTableNames)
    /\ UNCHANGED <<dbVars, switchVars, cachedTableCounts, pollVars>>

\* longPollTimeout has passed since the poll entered its loop.
PollExpires(p) ==
    /\ deadline[p] = "ahead"
    /\ deadline' = [deadline EXCEPT ![p] = "passed"]
    /\ UNCHANGED <<dbVars, switchVars, cacheVars, sweepVars, outVars,
                   pc, names, reply, since, seen, known>>

\* The loop is left: the response carries the generation of this moment.
PollAnswers(p) ==
    /\ pc[p] = "loop"
    /\ ~KeepsWaiting(p)
    /\ seen' = [seen EXCEPT ![p] = generation]
    /\ known' = [known EXCEPT ![p] = lastDataSignature]
    /\ pc' = [pc EXCEPT ![p] = "idle"]
    /\ since' = [since EXCEPT ![p] = None]
    /\ deadline' = [deadline EXCEPT ![p] = "none"]
    /\ UNCHANGED <<dbVars, switchVars, cacheVars, sweepVars, outVars, names, reply>>

----------------------------------------------------------------------------
(* The writing handlers.  The router admits them only while not killed.    *)

WriteArrives(p) ==
    /\ pc[p] = "idle"
    /\ monitoringEnabled
    /\ pc' = [pc EXCEPT ![p] = "received"]
    /\ UNCHANGED <<dbVars, switchVars, cacheVars, sweepVars, outVars,
                   names, reply, pollVars>>

\* The request is validated and its statements start to run; a batch's first
\* one is BEGIN, which needs that no transaction is open.
WriteBegins(p) ==
    /\ pc[p] = "received"
    /\ \/ p \in Importers /\ UNCHANGED saved
       \/ p \in Editors /\ saved = None /\ saved' = db
    /\ pc' = [pc EXCEPT ![p] = "writing"]
    /\ UNCHANGED <<db, changes, operations, switchVars, cacheVars, sweepVars, outVars,
                   names, reply, pollVars>>

WriteStatement(p) ==
    /\ pc[p] = "writing"
    /\ RowOperation
    /\ UNCHANGED <<switchVars, cacheVars, sweepVars, outVars, pc, names, reply, pollVars>>

\* The request is invalid: the handler answers an error, no check follows.
WriteRejected(p) ==
    /\ pc[p] = "received"
    /\ pc' = [pc EXCEPT ![p] = "idle"]
    /\ UNCHANGED <<dbVars, switchVars, cacheVars, sweepVars, outVars,
                   names, reply, pollVars>>

\* The tables a ROLLBACK changes.
RolledBack == IF saved = None THEN {} ELSE Differing(db, saved)

\* A statement of a batch fails, BEGIN inside an open transaction and COMMIT
\* outside of one included: ROLLBACK, an error answer and no check.  Where the
\* rollback changes a table, that is one more operation on it.
BatchFails(p) ==
    /\ pc[p] = "writing" \/ (pc[p] = "received" /\ saved # None)
    /\ db' = IF saved = None THEN db ELSE saved
    /\ changes' = [t \in Tables |-> IF t \in RolledBack THEN changes[t] + 1 ELSE changes[t]]
    /\ operations' = operations + Cardinality(RolledBack)
    /\ saved' = None
    /\ pc' = [pc EXCEPT ![p] = "idle"]
    /\ UNCHANGED <<switchVars, cacheVars, sweepVars, outVars, names, reply, pollVars>>

\* handleImport, after processImport: invalidateTableNameCache, then a check.
ImportFinishes(p) ==
    /\ pc[p] = "writing"
    /\ cachedTableCounts' = None
    /\ CheckDataChange(p, None)
    /\ UNCHANGED <<dbVars, switchVars, pollVars>>

\* runValidatedBatchStatements, after COMMIT: a check, no invalidation.
EditFinishes(p) ==
    /\ pc[p] = "writing"
    /\ saved # None
    /\ saved' = None
    /\ CheckDataChange(p, cachedTableNames)
    /\ UNCHANGED <<db, changes, operations, switchVars, cachedTableCounts, pollVars>>

----------------------------------------------------------------------------
(* The two runtime switches.                                               *)

SetMonitoring ==
    /\ monitoringEnabled' = ~monitoringEnabled
    /\ UNCHANGED <<dbVars, changeDetectionEnabled, cacheVars, sweepVars, outVars,
                   pc, names, reply, pollVars>>

SetChangeDetection ==
    /\ changeDetectionEnabled' = ~changeDetectionEnabled
    /\ UNCHANGED <<dbVars, monitoringEnabled, cacheVars, sweepVars, outVars,
                   pc, names, reply, pollVars>>

Sweep(p) ==
    NamesAnswer(p) \/ NamesResume(p) \/ CountsAnswer(p) \/ CountsResume(p) \/ QueryThrows(p)
Poll(p) ==
    PollArrives(p) \/ PollWaits(p) \/ PollTicks(p) \/ PollExpires(p) \/ PollAnswers(p)
Write(p) == WriteArrives(p) \/ WriteBegins(p) \/ WriteStatement(p) \/ WriteRejected(p)

Next ==
    \/ HostWrites
    \/ \E p \in Procs : Sweep(p)
    \/ \E p \in Pollers : Poll(p)
    \/ \E p \in Importers \cup Editors : Write(p)
    \/ \E p \in Importers : ImportFinishes(p)
    \/ \E p \in Editors : EditFinishes(p) \/ BatchFails(p)
    \/ ThrottleElapses
    \/ SetMonitoring
    \/ SetChangeDetection

Spec == Init /\ [][Next]_vars

\* Timers fire, awaited queries settle and are not rejected for ever while
\* they could succeed, and a client that got its answer polls again (the loop
\* of the extension's GenerationWatcher and of the web viewer).
Fairness ==
    /\ WF_vars(ThrottleElapses)
    /\ \A p \in Procs :
          /\ WF_vars(Sweep(p))
          /\ SF_vars(NamesAnswer(p))
          /\ SF_vars(CountsAnswer(p))
    /\ \A p \in Pollers :
          /\ WF_vars(PollArrives(p))
          /\ WF_vars(PollWaits(p) \/ PollAnswers(p))
          /\ WF_vars(PollTicks(p))
          /\ WF_vars(PollExpires(p))

LiveSpec == Spec /\ Fairness
----------------------------------------------------------------------------
(* Properties.                                                             *)

\* checkDataChange is not re-entrant: however requests interleave at its
\* awaits, at most one is inside a sweep, and the guard flag is up exactly
\* while one is, whichever way the sweep ends.
SweepExclusion ==
    /\ \A p, q \in Procs : Sweeping(p) /\ Sweeping(q) => p = q
    /\ isChangeCheckInProgress <=> \E p \in Procs : Sweeping(p)

\* Every generation bump is caused by an operation of its own: clients are
\* never told to refresh more often than the database was changed, even when
\* the names and the counts of a signature were read at different times.
NoSpuriousRefresh == generation <= operations

\* The heartbeat never lights a table more often than it was operated on,
\* across cache invalidations, failed sweeps and stale table lists.
NoSpuriousActivity == \A t \in Tables : hostChanges[t] <= changes[t]

\* Why NoSpuriousActivity holds: the operations on t that the heartbeat has
\* not shown yet are still visible as differences, along the chain from the
\* counts of the last sweep over the sweep in flight to the database.
CountAt(f, t) == IF t \in DOMAIN f THEN f[t] ELSE None
Moved(f, g, t) == IF CountAt(f, t) = CountAt(g, t) THEN 0 ELSE 1
\* What a list of tables without t still owes: t goes if it was counted, and
\* comes back if it exists.
GoneAndBack(t) ==
    (IF cachedTableCounts # None /\ t \in DOMAIN cachedTableCounts THEN 1 ELSE 0)
      + (IF t \in DOMAIN db THEN 1 ELSE 0)

Accounted(t) ==
    /\ hostChanges[t] <= changes[t]
    /\ cachedTableCounts # None =>
          hostChanges[t] + Moved(cachedTableCounts, db, t) <= changes[t]
    /\ cachedTableNames # None /\ t \notin cachedTableNames =>
          hostChanges[t] + GoneAndBack(t) <= changes[t]
    /\ \A p \in Procs :
          /\ pc[p] \in {"namesRead", "counts"} /\ t \notin names[p] =>
                hostChanges[t] + GoneAndBack(t) <= changes[t]
          /\ pc[p] = "countsRead" =>
                hostChanges[t] + Moved(reply[p], db, t)
                  + (IF cachedTableCounts = None THEN 0
                     ELSE Moved(cachedTableCounts, reply[p], t)) <= changes[t]

\* A sweep works on the names it found cached, or caches the names it read;
\* meanwhile an import may drop them, and nobody replaces them.
SweepNames ==
    \A p \in Procs :
        /\ pc[p] \in {"names", "namesRead"} => cachedTableNames = None
        /\ pc[p] \in {"counts", "countsRead"} => cachedTableNames \in {None, names[p]}
        /\ pc[p] = "countsRead" => reply[p] # None /\ DOMAIN reply[p] = names[p]

ActivityInv == SweepNames /\ \A t \in Tables : Accounted(t)

\* The counts handed to /api/tables are those of the last signature, unless
\* an import dropped them: no failed or interleaved sweep mixes the two.
CountsMatchSignature ==
    cachedTableCounts # None => cachedTableCounts = lastDataSignature

\* A client that holds the server's generation has been told of all that the
\* server has noticed: the signature is still the one of its last answer,
\* whatever sweeps failed, imports cleared, or deadlines cut short since.  (A
\* client answered before the first sweep ended has no signature to compare:
\* what changed until then is the baseline of that sweep, and not told.)
NothingSwallowed ==
    \A p \in Pollers :
        known[p] # None /\ seen[p] = generation => known[p] = lastDataSignature

\* What detection needs: both switches on, and every table the server has
\* listed still there.  (An empty list is never read again.)
MayDetect ==
    /\ monitoringEnabled /\ changeDetectionEnabled
    /\ cachedTableNames # None => cachedTableNames # {} /\ cachedTableNames \subseteq DOMAIN db

\* Nothing the server knows of is left to detect, or to tell a client.
Detected ==
    /\ lastDataSignature # None
    /\ cachedTableNames \in {None, DOMAIN lastDataSignature}
    /\ \A t \in DOMAIN lastDataSignature : CountAt(db, t) = lastDataSignature[t]
    /\ \A p \in Pollers : seen[p] = generation

\* While detection may go on, the server's signature catches up with the
\* database and every client's generation with the server's: a dropped table
\* stops it only until the table is back (or an import drops the list).
ChangesAreDetected == <>[]MayDetect => <>[]Detected
=============================================================================
