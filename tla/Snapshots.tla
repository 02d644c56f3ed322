----------------------------- MODULE Snapshots -----------------------------
(* The snapshots of the debug server and the file they are mirrored to     *)
(* (ServerContext.snapshots, SnapshotHandler, SnapshotStore).  Every change *)
(* of the list queues a save of the whole list; a save writes a temporary  *)
(* file and renames it over the store.  The server may be started again in *)
(* the same process, with a new context, while the saves of the old one go *)
(* on: stop() does not await them.  The process may die at any step.       *)
EXTENDS Integers, FiniteSets, SequencesExt

CONSTANTS
    MaxContexts,   \* bound: server contexts of one process
    Ids,           \* ids of snapshots: the times they were taken
    Labels,        \* their labels
    MaxSnapshots,  \* maxSnapshots
    MaxQueue,      \* bound: saves queued by one context
    OldFiles,      \* what the file may hold at first
    Absent,        \* what a file may be, too: missing,
    Empty, Torn    \* just emptied, or not a whole list

ASSUME SnapshotsAssumption ==
    /\ MaxContexts \in Nat \ {0}
    /\ MaxSnapshots \in Nat \ {0} /\ MaxQueue \in Nat \ {0}
    /\ OldFiles \subseteq Seq([id : Ids, label : Labels]) \cup {Absent}
    /\ Absent \notin Seq([id : Ids, label : Labels])
    /\ Empty \notin Seq([id : Ids, label : Labels]) \cup {Absent}
    /\ Torn \notin Seq([id : Ids, label : Labels]) \cup {Absent}

VARIABLES
    newest,      \* the context of the running server
    list,        \* snapshots, of each context
    queue,       \* _snapshotPersistChain: lists to save, the one under way first
    stage,       \* what the save under way is at
    handle,      \* where its open temporary file is found by now
    failed,      \* history: has the context's last use of the store failed, the
                 \* read it began with or a save?
    tmp, file,   \* the temporary file and the store
    alone,       \* history: has no other context saved since the save of the
                 \* newest one that is under way began?
    disturbed    \* history: has another context saved since the last save that
                 \* was alone?

context == <<list, queue, stage, handle, failed>>
history == <<alone, disturbed>>
vars == <<newest, context, tmp, file, history>>

Contexts == 1..MaxContexts
Snapshot == [id : Ids, label : Labels]
Lists == Seq(Snapshot)

TypeOK ==
    /\ newest \in Contexts
    /\ list \in [Contexts -> Lists] /\ \A s \in Contexts : Len(list[s]) <= MaxSnapshots
    /\ queue \in [Contexts -> Seq(Lists)]
    /\ stage \in [Contexts -> {"idle", "open", "written"}]
    /\ handle \in [Contexts -> {"none", "tmp", "file", "gone"}]
    /\ failed \in [Contexts -> BOOLEAN]
    /\ tmp \in Lists \cup {Absent, Empty, Torn} /\ file \in Lists \cup {Absent, Empty, Torn}
    /\ alone \in BOOLEAN /\ disturbed \in BOOLEAN

----------------------------------------------------------------------------
(* Starting.                                                               *)

\* Faulty variant: the oldest are kept, whatever their number.
NewestUncapped(l) == l

\* The newest snapshots, as many as are retained.
Newest(l) == IF Len(l) > MaxSnapshots THEN SubSeq(l, Len(l) - MaxSnapshots + 1, Len(l)) ELSE l

\* SnapshotStore.load(): a file that does not parse is as good as none.  Records
\* that are malformed are skipped: a list stands for those that are not.
Stored == IF file \in {Absent, Empty, Torn} THEN <<>> ELSE file

\* loadPersistedSnapshots()
Loaded == Newest(Stored)

\* What a start begins with; load() absorbs an error of the read, too, and
\* gives an empty list for a store that is whole.
Found(hasFailed) == IF hasFailed THEN <<>> ELSE Loaded

Init ==
    /\ file \in OldFiles /\ tmp = Absent
    /\ newest = 1
    /\ \E hasFailed \in BOOLEAN :
          /\ list = [s \in Contexts |-> IF s = 1 THEN Found(hasFailed) ELSE <<>>]
          /\ failed = [s \in Contexts |-> s = 1 /\ hasFailed]
    /\ queue = [s \in Contexts |-> <<>>]
    /\ stage = [s \in Contexts |-> "idle"] /\ handle = [s \in Contexts |-> "none"]
    /\ alone = FALSE /\ disturbed = FALSE

\* The process dies, and another one starts a server.
Crash ==
    /\ newest' = 1
    /\ \E hasFailed \in BOOLEAN :
          /\ list' = [s \in Contexts |-> IF s = 1 THEN Found(hasFailed) ELSE <<>>]
          /\ failed' = [s \in Contexts |-> s = 1 /\ hasFailed]
    /\ queue' = [s \in Contexts |-> <<>>]
    /\ stage' = [s \in Contexts |-> "idle"] /\ handle' = [s \in Contexts |-> "none"]
    /\ alone' = FALSE
    /\ UNCHANGED <<tmp, file, disturbed>>

\* The server is stopped and started in one process.
StartAgain ==
    /\ newest + 1 \in Contexts
    /\ newest' = newest + 1
    /\ \E hasFailed \in BOOLEAN :
          /\ list' = [list EXCEPT ![newest'] = Found(hasFailed)]
          /\ failed' = [failed EXCEPT ![newest'] = hasFailed]
    /\ alone' = FALSE
    /\ disturbed' = (disturbed \/ \E s \in Contexts : queue[s] # <<>>)
    /\ UNCHANGED <<queue, stage, handle, tmp, file>>

----------------------------------------------------------------------------
(* Changing the list.  A request that was under way when the server was    *)
(* stopped may still change the list of its context.                       *)

\* The list becomes l, and its copy is queued (_persistSnapshots).
Changes(s, l) ==
    /\ s <= newest /\ Len(queue[s]) < MaxQueue
    /\ list' = [list EXCEPT ![s] = l]
    /\ queue' = [queue EXCEPT ![s] = Append(@, l)]
    /\ alone' = (alone /\ s = newest)
    /\ disturbed' = (disturbed \/ s < newest)
    /\ UNCHANGED <<newest, stage, handle, failed, tmp, file>>

Held(l) == IF l \in {Absent, Empty, Torn} THEN {} ELSE {l[i].id : i \in DOMAIN l}

\* An id that no list holds any more stands for a new one.
InUse == Held(tmp) \cup Held(file)
         \cup UNION {Held(list[s]) \cup UNION {Held(queue[s][i]) : i \in DOMAIN queue[s]}
                        : s \in Contexts}

\* handleSnapshotCreate(), once the rows are read: addSnapshot().
AddSnapshot(s) ==
    \E id \in Ids \ InUse, label \in Labels :
        Changes(s, Newest(Append(list[s], [id |-> id, label |-> label])))

\* handleSnapshotDeleteOne(): removeSnapshot() of one that is there; no other
\* has its id.
RemoveSnapshot(s) == \E i \in DOMAIN list[s] : Changes(s, RemoveAt(list[s], i))

\* Faulty variant: a rename is not saved.
ReplaceSnapshotUnsaved(s) ==
    \E i \in DOMAIN list[s], label \in Labels :
        /\ list' = [list EXCEPT ![s][i].label = label]
        /\ UNCHANGED <<newest, queue, stage, handle, failed, tmp, file, history>>

\* handleSnapshotRename(), once its body is read: replaceSnapshot() of the
\* first of that id, if it is still there.
ReplaceSnapshot(s) ==
    \E i \in DOMAIN list[s], label \in Labels :
        /\ \A j \in 1 .. i - 1 : list[s][j].id # list[s][i].id
        /\ Changes(s, [list[s] EXCEPT ![i].label = label])

\* handleSnapshotDelete(): clearSnapshots() saves even an empty list.
ClearSnapshots(s) == Changes(s, <<>>)

----------------------------------------------------------------------------
(* Saving (SnapshotStore.save), one save of a context after the other.     *)

\* Faulty variant: a save takes the list as it is by then.
SavesLive(s) == {list[s]}

\* The lists whose save may be under way: the head of the queue.
Saves(s) == {queue[s][i] : i \in DOMAIN queue[s] \cap {1}}

\* Faulty variant: the store is emptied, to be written in place.
OpenInPlace(s) ==
    /\ queue[s] # <<>> /\ stage[s] = "idle"
    /\ stage' = [stage EXCEPT ![s] = "open"] /\ handle' = [handle EXCEPT ![s] = "file"]
    /\ file' = Empty
    /\ alone' = IF s = newest THEN \A t \in Contexts \ {s} : queue[t] = <<>> ELSE alone
    /\ UNCHANGED <<newest, list, queue, failed, tmp, disturbed>>

\* The temporary file is created, or emptied.
OpenTmp(s) ==
    /\ queue[s] # <<>> /\ stage[s] = "idle"
    /\ stage' = [stage EXCEPT ![s] = "open"] /\ handle' = [handle EXCEPT ![s] = "tmp"]
    /\ tmp' = Empty
    /\ alone' = IF s = newest THEN \A t \in Contexts \ {s} : queue[t] = <<>> ELSE alone
    /\ UNCHANGED <<newest, list, queue, failed, file, disturbed>>

\* What a place that holds c may hold once the list l is written to it from
\* its start: the rest of another list may be left behind it.
Written(c, l) == IF c = Empty THEN {l} ELSE {l, Torn}

\* The list is written, wherever the open file is by now, and closed.
WriteTmp(s) ==
    /\ stage[s] = "open"
    /\ stage' = [stage EXCEPT ![s] = "written"] /\ handle' = [handle EXCEPT ![s] = "none"]
    /\ \E l \in Saves(s) :
          /\ IF handle[s] = "tmp" THEN tmp' \in Written(tmp, l) ELSE UNCHANGED tmp
          /\ IF handle[s] = "file" THEN file' \in Written(file, l) ELSE UNCHANGED file
    /\ UNCHANGED <<newest, list, queue, failed, history>>

\* The save under way ends, well or not; the next may begin.
Ends(s, hasFailed) ==
    /\ queue' = [queue EXCEPT ![s] = Tail(@)]
    /\ stage' = [stage EXCEPT ![s] = "idle"]
    /\ failed' = [failed EXCEPT ![s] = hasFailed]

\* The temporary file becomes the store: what was open under its name, or
\* under the store's, stays open.
Rename(s) ==
    /\ stage[s] = "written" /\ tmp # Absent
    /\ file' = tmp /\ tmp' = Absent
    /\ Ends(s, FALSE)
    /\ handle' = [t \in Contexts |-> CASE handle[t] = "tmp" -> "file"
                                       [] handle[t] = "file" -> "gone"
                                       [] OTHER -> handle[t]]
    /\ disturbed' = (disturbed /\ ~(s = newest /\ alone))
    /\ UNCHANGED <<newest, list, alone>>

\* Any step of a save fails, a rename certainly when another one has moved
\* the file; save() absorbs it.
SaveFails(s) ==
    /\ queue[s] # <<>>
    /\ Ends(s, TRUE)
    /\ handle' = [handle EXCEPT ![s] = "none"]
    /\ UNCHANGED <<newest, list, tmp, file, history>>

Next ==
    \/ Crash \/ StartAgain
    \/ \E s \in Contexts :
          \/ AddSnapshot(s) \/ RemoveSnapshot(s) \/ ReplaceSnapshot(s) \/ ClearSnapshots(s)
          \/ OpenTmp(s) \/ WriteTmp(s) \/ Rename(s) \/ SaveFails(s)

Spec == Init /\ [][Next]_vars

----------------------------------------------------------------------------
(* Properties.                                                             *)

\* "A crash mid-write can never leave a half-written file": whatever step the
\* process dies at, the store is a whole list.  Only a server that is started
\* while saves of the one before it go on can spoil it, until the first save
\* that nothing disturbs.
FileIntact == ~disturbed => file \notin {Empty, Torn}

\* Once its chain has settled, what a context has changed is in the store,
\* unless the last save failed: a start that can read it gives the list back.
SettledMeansSaved ==
    ~disturbed /\ queue[newest] = <<>> /\ ~failed[newest] => Loaded = list[newest]

\* What is promised: the store holds a list the server has had, later saves
\* only replace earlier ones, and a start gives back what is stored, unless it
\* cannot be read.
Durable == INSTANCE DurableList WITH
    memory <- list[newest], stored <- Stored, pending <- queue[newest],
    failed <- failed[newest], Keep <- Newest
durable == <<list[newest], Stored, queue[newest], failed[newest]>>
DurableUnlessDisturbed == Durable!Init /\ [][Durable!Next \/ disturbed']_durable
=============================================================================
