---------------------------- MODULE PendingEdits ----------------------------
(* The pending data edits of the extension: the list of changes with undo  *)
(* and redo (ChangeTracker), the draft kept across sessions                *)
(* (createPendingChangesPersistence, offerRestoreDraft), and applying the  *)
(* list to the database (driftViewer.commitPendingEdits).                  *)
(*                                                                         *)
(* An edit has a target, which says its kind and table and, for a cell,    *)
(* which cell it is, and a value.  It is tracked once the schema has been  *)
(* fetched and allows it (EditingBridge): edits arrive at any time and in  *)
(* any order.                                                              *)
EXTENDS Integers, FiniteSets, ApplyOrder

CONSTANTS
    Targets,      \* what can be edited
    Kind, Table,  \* the kind and the table of each of them
    Values,       \* the values each of them is given
    ForeignKeys,  \* the foreign keys of the database
    MaxIds,       \* bound: changes begun in a session
    MaxHistory,   \* bound: snapshots for undo, and for redo
    MaxApplies,   \* bound: runs of commitPendingEdits at once
    MaxSessions   \* bound: sessions of the extension

ASSUME EditsAssumption ==
    /\ Kind \in [Targets -> {"cell", "insert", "delete"}]
    /\ MaxIds \in Nat \ {0} /\ MaxHistory \in Nat \ {0}
    /\ MaxApplies \in Nat \ {0} /\ MaxSessions \in Nat \ {0}

VARIABLES
    changes,      \* _changes
    undoStack,    \* _undoStack, its top last
    redoStack,    \* _redoStack, its top last
    nextId,       \* nextId of generateId()
    timer,        \* is the debounce of the draft running?
    draft,        \* the draft in workspaceState, empty when there is none
    offer,        \* what offerRestoreDraft() is at
    offered,      \* the draft it has read
    applying,     \* runs of commitPendingEdits that ask the user or await their batch
    session,      \* sessions begun
    saved         \* history: is the draft one this session has written?

tracker == <<changes, undoStack, redoStack, nextId>>
offering == <<offer, offered>>
editsVars == <<tracker, timer, draft, offering, applying, session, saved>>

Change == [id : 1..MaxIds, target : Targets, value : UNION {Values[t] : t \in Targets},
           kind : {"cell", "insert", "delete"}, table : {Table[t] : t \in Targets}]

EditsTypeOK ==
    /\ changes \in Seq(Change)
    /\ undoStack \in Seq(Seq(Change)) /\ Len(undoStack) <= MaxHistory
    /\ redoStack \in Seq(Seq(Change)) /\ Len(redoStack) <= MaxHistory
    /\ nextId \in 1 .. MaxIds + 1
    /\ timer \in BOOLEAN
    /\ draft \in Seq(Change)
    /\ offer \in {"due", "asked", "done"}
    /\ offered \in Seq(Change)
    /\ applying \in 0..MaxApplies
    /\ session \in 1..MaxSessions
    /\ saved \in BOOLEAN

EditsInit ==
    /\ changes = <<>> /\ undoStack = <<>> /\ redoStack = <<>> /\ nextId = 1
    /\ timer = FALSE /\ draft = <<>> /\ saved = FALSE
    /\ offer = "due" /\ offered = <<>>
    /\ applying = 0
    /\ session = 1

----------------------------------------------------------------------------
(* The list of changes.                                                    *)

\* Every change of the list fires onDidChange, which restarts the debounce.
Fires == timer' = TRUE

\* _saveUndoState(), within the bound.
SaveUndoState ==
    /\ Len(undoStack) < MaxHistory
    /\ undoStack' = Append(undoStack, changes) /\ redoStack' = <<>>

NewChange(t, v) ==
    [id |-> nextId, target |-> t, value |-> v, kind |-> Kind[t], table |-> Table[t]]

\* The change of the same cell already in the list, if there is one.
Same(t) == {i \in DOMAIN changes : Kind[t] = "cell" /\ changes[i].target = t}

\* Faulty variant: edits of one cell pile up.
TrackPiling(t, v) ==
    /\ SaveUndoState
    /\ nextId <= MaxIds /\ nextId' = nextId + 1
    /\ changes' = Append(changes, NewChange(t, v))
    /\ Fires
    /\ UNCHANGED <<draft, offering, applying, session, saved>>

\* addCellChange(), addRowInsert() and addRowDelete(): a second edit of a cell
\* gives the first one's change its value.
Track(t, v) ==
    /\ SaveUndoState
    /\ IF Same(t) = {}
       THEN /\ nextId <= MaxIds /\ nextId' = nextId + 1
            /\ changes' = Append(changes, NewChange(t, v))
       ELSE /\ changes' = [i \in DOMAIN changes |->
                              IF i \in Same(t) THEN [changes[i] EXCEPT !.value = v] ELSE changes[i]]
            /\ UNCHANGED nextId
    /\ Fires
    /\ UNCHANGED <<draft, offering, applying, session, saved>>

\* Faulty variant: undo() leaves the snapshot it restores on the stack.
UndoKeeping ==
    /\ undoStack # <<>>
    /\ redoStack' = Append(redoStack, changes)
    /\ changes' = Last(undoStack)
    /\ Fires
    /\ UNCHANGED <<undoStack, nextId, draft, offering, applying, session, saved>>

Undo ==
    /\ undoStack # <<>>
    /\ redoStack' = Append(redoStack, changes)
    /\ changes' = Last(undoStack) /\ undoStack' = Front(undoStack)
    /\ Fires
    /\ UNCHANGED <<nextId, draft, offering, applying, session, saved>>

Redo ==
    /\ redoStack # <<>>
    /\ undoStack' = Append(undoStack, changes)
    /\ changes' = Last(redoStack) /\ redoStack' = Front(redoStack)
    /\ Fires
    /\ UNCHANGED <<nextId, draft, offering, applying, session, saved>>

\* removeChange(id) removes the first change of that id.
RemoveChange(id) ==
    \E i \in DOMAIN changes :
        /\ changes[i].id = id /\ \A j \in 1 .. i - 1 : changes[j].id # id
        /\ SaveUndoState
        /\ changes' = RemoveAt(changes, i)
        /\ Fires
        /\ UNCHANGED <<nextId, draft, offering, applying, session, saved>>

\* Faulty variants: discardAll() keeps no snapshot; it tells no listener.
ClearNoUndo ==
    IF changes = <<>> THEN UNCHANGED <<tracker, timer>>
    ELSE changes' = <<>> /\ Fires /\ UNCHANGED <<undoStack, redoStack, nextId>>
ClearSilently ==
    IF changes = <<>> THEN UNCHANGED <<tracker, timer>>
    ELSE SaveUndoState /\ changes' = <<>> /\ UNCHANGED <<timer, nextId>>

\* discardAll()
Clear ==
    IF changes = <<>> THEN UNCHANGED <<tracker, timer>>
    ELSE SaveUndoState /\ changes' = <<>> /\ Fires /\ UNCHANGED nextId

\* The user discards every change.
DiscardAll ==
    /\ changes # <<>>
    /\ Clear
    /\ UNCHANGED <<draft, offering, applying, session, saved>>

----------------------------------------------------------------------------
(* The draft.                                                              *)

\* The debounce ends: an empty list removes the draft.
Flush ==
    /\ timer
    /\ timer' = FALSE /\ draft' = changes /\ saved' = TRUE
    /\ UNCHANGED <<tracker, offering, applying, session>>

\* After activation the draft is read and offered, unless edits were made.
Offer ==
    /\ offer = "due"
    /\ IF draft = <<>> \/ changes # <<>>
       THEN offer' = "done" /\ UNCHANGED offered
       ELSE offer' = "asked" /\ offered' = draft
    /\ UNCHANGED <<tracker, timer, draft, applying, session, saved>>

Answered == offer = "asked" /\ offer' = "done" /\ offered' = <<>>

\* The user restores the draft, at once or in spite of conflicts: the list
\* of the moment and its history are replaced.
Restore ==
    /\ Answered
    /\ changes' = offered /\ undoStack' = <<>> /\ redoStack' = <<>>
    /\ Fires
    /\ UNCHANGED <<nextId, draft, applying, session, saved>>

\* The user discards the draft, whoever has written it.
DiscardDraft ==
    /\ Answered
    /\ draft' = <<>> /\ saved' = FALSE
    /\ UNCHANGED <<tracker, timer, applying, session>>

\* The user dismisses either question.
DismissDraft ==
    /\ Answered
    /\ UNCHANGED <<tracker, timer, draft, applying, session, saved>>

----------------------------------------------------------------------------
(* Applying the changes.                                                   *)

\* The server allows writes, the changes are put into statements (in the
\* order Ordered, or their own when the foreign keys cannot be fetched) and
\* the user is asked.  Nothing keeps the command from being run again before
\* its batch is answered.
Ordered(edits) == OrderForApply(edits, ForeignKeys)
Prepare ==
    /\ applying < MaxApplies /\ changes # <<>>
    /\ applying' = applying + 1
    /\ UNCHANGED <<tracker, timer, draft, offering, session, saved>>

\* The user cancels, or the batch fails and the list is kept.
GivesUp ==
    /\ applying > 0 /\ applying' = applying - 1
    /\ UNCHANGED <<tracker, timer, draft, offering, session, saved>>

\* The batch was applied: whatever the list holds by now is cleared.
Succeeds ==
    /\ applying > 0 /\ applying' = applying - 1
    /\ Clear
    /\ UNCHANGED <<draft, offering, session, saved>>

\* The window is reloaded or closed: the timer and the list are gone.
Restart ==
    /\ session < MaxSessions /\ session' = session + 1
    /\ changes' = <<>> /\ undoStack' = <<>> /\ redoStack' = <<>> /\ nextId' = 1
    /\ timer' = FALSE /\ saved' = FALSE
    /\ offer' = "due" /\ offered' = <<>>
    /\ applying' = 0
    /\ UNCHANGED draft

EditsNext ==
    \/ \E t \in Targets : \E v \in Values[t] : Track(t, v)
    \/ Undo \/ Redo \/ DiscardAll \/ \E c \in ToSet(changes) : RemoveChange(c.id)
    \/ Flush \/ Offer \/ Restore \/ DiscardDraft \/ DismissDraft
    \/ Prepare \/ GivesUp \/ Succeeds
    \/ Restart

EditsSpec == EditsInit /\ [][EditsNext]_editsVars

----------------------------------------------------------------------------
(* Properties.                                                             *)

\* Whatever is undone, redone, restored or loaded, no cell has two pending
\* values.
OnePerCell ==
    \A edits \in {changes, draft, offered} : \A i, j \in DOMAIN edits :
        edits[i].kind = "cell" /\ edits[i].target = edits[j].target => i = j

\* A draft this session has written is the list, unless it is about to be
\* written again.
DraftIsCurrent == saved /\ ~timer => draft = changes

\* A list that is replaced can be brought back by one undo or redo, unless a
\* draft replaces it or the session ends.  Applying clears edits that were
\* made meanwhile, too: this is all that keeps them.
Recoverable(edits, stack) == stack # <<>> /\ Last(stack) = edits
NothingUnrecoverable ==
    [][changes' # changes /\ ~Restore /\ ~Restart =>
          Recoverable(changes, undoStack') \/ Recoverable(changes, redoStack')]_editsVars

\* The statements are the changes, each once, deletes before cells before
\* inserts, children deleted before and inserted after their parents.
SentInOrder == Respects(changes, Ordered(changes), ForeignKeys)
=============================================================================
