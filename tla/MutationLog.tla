----------------------------- MODULE MutationLog -----------------------------
(* The log of the writes that go through the debug server                  *)
(* (MutationTracker and the wrapper round writeQuery), the long poll of    *)
(* /api/mutations, and the panels of the extension that follow it          *)
(* (MutationStreamPoller, MutationStreamPanel).                            *)
(*                                                                         *)
(* Events are identified by their ids; their rows and SQL are left out.    *)
(* Ids begin again at 1 when the application restarts: what a panel has    *)
(* shown is what it was given in the lifetime its cursor is from.          *)
EXTENDS Integers, FiniteSets

CONSTANTS
    Writers,     \* the writes that may be under way at a time
    Panels,      \* the panels, each in a window of its own
    Tables,
    TableOf,     \* the table a write is to
    Capacity,    \* maxEvents
    MaxId,       \* bound of the ids of a lifetime, less one for every restart
    MaxLife      \* bound of the number of restarts

ASSUME TablesAssumption == TableOf \in [Writers -> Tables]
ASSUME BoundsAssumption == Capacity \in Nat \ {0} /\ MaxId \in Nat /\ MaxLife \in Nat

VARIABLES
    configured,   \* has the server a mutation tracker?
    monitoring,   \* monitoringEnabled
    latestId,     \* _latestId
    events,       \* _events
    lit,          \* the tables whose heartbeat has counted a write
    life,         \* history: lifetimes of the application
    pc,           \* of a write
    mark,         \* mutationIdBefore of a write
    own,          \* history: the id of its event, 0 before or without one
    polling,      \* _polling of a panel's poller
    paused,       \* _paused
    since,        \* _since
    phase,        \* of a panel's loop or request
    reply,        \* the answer under way to it
    readLife,     \* history: the lifetime _since was read in
    shown,        \* history: the events it was given in that lifetime
    base          \* history: _since when the panel came to that lifetime

log == <<configured, monitoring, latestId, events, lit, life>>
writes == <<pc, mark, own>>
panels == <<polling, paused, since, phase, reply, shown, readLife, base>>
vars == <<log, writes, panels>>

Events == [id : 1..MaxId, table : Tables]
Replies == [ids : SUBSET (1..MaxId), cursor : 0..MaxId, life : 0..MaxLife]
NoReply == [ids |-> {}, cursor |-> 0, life |-> 0]

TypeOK ==
    /\ configured \in BOOLEAN /\ monitoring \in BOOLEAN
    /\ latestId \in 0..MaxId
    /\ events \subseteq Events
    /\ \A e \in events : latestId - Capacity < e.id /\ e.id <= latestId
    /\ lit \subseteq Tables
    /\ life \in 0..MaxLife
    /\ pc \in [Writers -> {"idle", "capturing", "counting"}]
    /\ mark \in [Writers -> 0..MaxId]
    /\ own \in [Writers -> 0..MaxId]
    /\ polling \in [Panels -> BOOLEAN]
    /\ paused \in [Panels -> BOOLEAN]
    /\ since \in [Panels -> 0..MaxId]
    /\ phase \in [Panels -> {"idle", "asking", "waiting", "woken",
                             "answered", "refused", "unsupported"}]
    /\ reply \in [Panels -> Replies]
    /\ shown \in [Panels -> SUBSET (1..MaxId)]
    /\ readLife \in [Panels -> 0..MaxLife]
    /\ base \in [Panels -> 0..MaxId]

Init ==
    /\ configured \in BOOLEAN
    /\ monitoring = TRUE
    /\ latestId = 0 /\ events = {}
    /\ lit = {}
    /\ life = 0
    /\ pc = [w \in Writers |-> "idle"]
    /\ mark = [w \in Writers |-> 0] /\ own = [w \in Writers |-> 0]
    /\ polling = [p \in Panels |-> FALSE]
    /\ paused = [p \in Panels |-> FALSE]
    /\ since = [p \in Panels |-> 0]
    /\ phase = [p \in Panels |-> "idle"]
    /\ reply = [p \in Panels |-> NoReply]
    /\ shown = [p \in Panels |-> {}]
    /\ readLife = [p \in Panels |-> 0] /\ base = [p \in Panels |-> 0]

EventsSince(n) == {e \in events : e.id > n}

----------------------------------------------------------------------------
(* The server: writes.                                                     *)

\* A statement of a write handler enters the wrapper.  The router refuses new
\* requests while monitoring is off; handlers under way go on.
WriteBegins(w) ==
    /\ configured /\ pc[w] = "idle"
    /\ pc' = [pc EXCEPT ![w] = "capturing"]
    /\ mark' = [mark EXCEPT ![w] = latestId]
    /\ UNCHANGED <<log, own, panels>>

\* The wrapper ends.
Ends(w) ==
    /\ pc' = [pc EXCEPT ![w] = "idle"]
    /\ mark' = [mark EXCEPT ![w] = 0]
    /\ own' = [own EXCEPT ![w] = 0]

\* The write has succeeded and has left event n, or none.
\* Faulty variant: the mark is taken only now.
SucceedsLate(w, n) ==
    /\ pc' = [pc EXCEPT ![w] = "counting"]
    /\ own' = [own EXCEPT ![w] = n]
    /\ mark' = [mark EXCEPT ![w] = n]
Succeeds(w, n) ==
    /\ pc' = [pc EXCEPT ![w] = "counting"]
    /\ own' = [own EXCEPT ![w] = n]
    /\ UNCHANGED mark

\* Every waiter's completer completes; its handler has yet to go on.
\* Faulty variant: only a write that succeeded wakes them.
WakeUnlessFailed(w) ==
    [p \in Panels |-> IF phase[p] = "waiting" /\ pc'[w] = "counting" THEN "woken" ELSE phase[p]]
WakeAll(w) == [p \in Panels |-> IF phase[p] = "waiting" THEN "woken" ELSE phase[p]]

\* The events the ring keeps when event n is added.
Kept(n) == {e \in events : e.id > n - Capacity}

\* _recordEvent(), after the write has been executed, or has failed, between
\* its captures of the rows.  A write that failed is not attributed.
Records(w) ==
    /\ pc[w] = "capturing" /\ latestId < MaxId - life
    /\ latestId' = latestId + 1
    /\ events' = Kept(latestId') \cup {[id |-> latestId', table |-> TableOf[w]]}
    /\ Ends(w) \/ Succeeds(w, latestId')
    /\ phase' = WakeAll(w)
    /\ UNCHANGED <<configured, monitoring, lit, life, polling, paused, since, reply,
                   shown, readLife, base>>

\* A write that is not recognised as one is executed, or fails, and leaves
\* no event.
Passes(w) ==
    /\ pc[w] = "capturing"
    /\ Ends(w) \/ Succeeds(w, 0)
    /\ UNCHANGED <<log, panels>>

\* After SELECT changes(), the heartbeat: of the tables of the events since
\* the mark or, if there are none, of the tables found in the SQL.
Attributes(w) ==
    /\ pc[w] = "counting"
    /\ Ends(w)
    /\ lit' = IF ~monitoring THEN lit
              ELSE IF EventsSince(mark[w]) = {} THEN lit \cup {TableOf[w]}
              ELSE lit \cup {e.table : e \in EventsSince(mark[w])}
    /\ UNCHANGED <<configured, monitoring, latestId, events, life, panels>>

----------------------------------------------------------------------------
(* The server: polls.                                                      *)

\* Faulty variant: the events are paged, the cursor is not.
AnswerPaged(p) ==
    LET news == {e.id : e \in EventsSince(since[p])}
    IN  [ids |-> {n \in news : \A m \in news : n <= m}, cursor |-> latestId, life |-> life]

Answer(p) ==
    [ids |-> {e.id : e \in EventsSince(since[p])}, cursor |-> latestId, life |-> life]

\* handleMutations() up to its wait: new events are answered at once.
PollArrives(p) ==
    /\ phase[p] = "asking"
    /\ LET now == IF ~monitoring THEN "refused"
                  ELSE IF ~configured THEN "unsupported"
                  ELSE IF EventsSince(since[p]) = {} THEN "waiting" ELSE "answered"
       IN  /\ phase' = [phase EXCEPT ![p] = now]
           /\ reply' = IF now = "answered" THEN [reply EXCEPT ![p] = Answer(p)] ELSE reply
    /\ UNCHANGED <<log, writes, polling, paused, since, shown, readLife, base>>

\* The 30 seconds are over.
PollExpires(p) ==
    /\ phase[p] = "waiting"
    /\ phase' = [phase EXCEPT ![p] = "woken"]
    /\ UNCHANGED <<log, writes, polling, paused, since, reply, shown, readLife, base>>

\* The handler goes on after its wait and answers what there is by now.
PollAnswers(p) ==
    /\ phase[p] = "woken"
    /\ phase' = [phase EXCEPT ![p] = "answered"]
    /\ reply' = [reply EXCEPT ![p] = Answer(p)]
    /\ UNCHANGED <<log, writes, polling, paused, since, shown, readLife, base>>

\* Monitoring is switched off or on.
SetMonitoring ==
    /\ monitoring' = ~monitoring
    /\ UNCHANGED <<configured, latestId, events, lit, life, writes, panels>>

\* The application restarts: its writes and requests end, and its ids and
\* events begin again.
Restart ==
    /\ life < MaxLife
    /\ life' = life + 1
    /\ configured' \in BOOLEAN
    /\ monitoring' = TRUE
    /\ latestId' = 0 /\ events' = {} /\ lit' = {}
    /\ pc' = [w \in Writers |-> "idle"]
    /\ mark' = [w \in Writers |-> 0] /\ own' = [w \in Writers |-> 0]
    /\ phase' = [p \in Panels |-> IF phase[p] \in {"asking", "waiting", "woken"}
                                  THEN "idle" ELSE phase[p]]
    /\ UNCHANGED <<polling, paused, since, reply, shown, readLife, base>>

----------------------------------------------------------------------------
(* The panels.                                                             *)

\* A panel is opened, with a poller of its own.
Opens(p) ==
    /\ ~polling[p] /\ shown[p] = {}
    /\ polling' = [polling EXCEPT ![p] = TRUE]
    /\ readLife' = [readLife EXCEPT ![p] = life]
    /\ UNCHANGED <<log, writes, paused, since, phase, reply, shown, base>>

\* Faulty variant: a panel whose buffer is full polls no more.
PollsUntilFull(p) ==
    /\ polling[p] /\ ~paused[p] /\ phase[p] = "idle" /\ Cardinality(shown[p]) < Capacity
    /\ phase' = [phase EXCEPT ![p] = "asking"]
    /\ UNCHANGED <<log, writes, polling, paused, since, reply, shown, readLife, base>>

\* The loop begins a poll, unless the panel is paused.
Polls(p) ==
    /\ polling[p] /\ ~paused[p] /\ phase[p] = "idle"
    /\ phase' = [phase EXCEPT ![p] = "asking"]
    /\ UNCHANGED <<log, writes, polling, paused, since, reply, shown, readLife, base>>

\* Faulty variant: the cursor stays.
NewCursorForgotten(p) == since[p]

NewCursor(p) == reply[p].cursor

\* The answer arrives; if there are events, the panel takes them and the
\* cursor.
Receives(p) ==
    /\ phase[p] = "answered"
    /\ phase' = [phase EXCEPT ![p] = "idle"]
    /\ reply' = [reply EXCEPT ![p] = NoReply]
    /\ IF reply[p].ids # {}
       THEN /\ since' = [since EXCEPT ![p] = NewCursor(p)]
            /\ readLife' = [readLife EXCEPT ![p] = reply[p].life]
            /\ IF reply[p].life = readLife[p]
               THEN /\ shown' = [shown EXCEPT ![p] = @ \cup reply[p].ids]
                    /\ UNCHANGED base
               ELSE /\ shown' = [shown EXCEPT ![p] = reply[p].ids]
                    /\ base' = [base EXCEPT ![p] = since[p]]
       ELSE UNCHANGED <<since, shown, readLife, base>>
    /\ UNCHANGED <<log, writes, polling, paused>>

\* The poll fails, or is refused while monitoring is off: the loop goes on
\* after a delay.  A handler that waits for a lost request has no effect.
Fails(p) ==
    /\ phase[p] # "idle"
    /\ phase' = [phase EXCEPT ![p] = "idle"]
    /\ reply' = [reply EXCEPT ![p] = NoReply]
    /\ UNCHANGED <<log, writes, polling, paused, since, shown, readLife, base>>

\* A server without mutations answers 501, and the loop ends.
GivesUp(p) ==
    /\ phase[p] = "unsupported"
    /\ phase' = [phase EXCEPT ![p] = "idle"]
    /\ polling' = [polling EXCEPT ![p] = FALSE]
    /\ UNCHANGED <<log, writes, paused, since, reply, shown, readLife, base>>

\* The user closes the panel.  The answer to a poll under way would be
\* dropped, and its handler, if it waits, changes nothing.
Closes(p) ==
    /\ polling' = [polling EXCEPT ![p] = FALSE]
    /\ paused' = [paused EXCEPT ![p] = FALSE]
    /\ since' = [since EXCEPT ![p] = 0]
    /\ shown' = [shown EXCEPT ![p] = {}]
    /\ base' = [base EXCEPT ![p] = 0]
    /\ readLife' = [readLife EXCEPT ![p] = 0]
    /\ phase' = [phase EXCEPT ![p] = "idle"]
    /\ reply' = [reply EXCEPT ![p] = NoReply]
    /\ UNCHANGED <<log, writes>>

\* The user pauses or resumes the panel.
TogglesPause(p) ==
    /\ polling[p]
    /\ paused' = [paused EXCEPT ![p] = ~@]
    /\ UNCHANGED <<log, writes, polling, since, phase, reply, shown, readLife, base>>

Next ==
    \/ \E w \in Writers :
          \/ WriteBegins(w) \/ Records(w) \/ Passes(w) \/ Attributes(w)
    \/ \E p \in Panels :
          \/ PollArrives(p) \/ PollExpires(p) \/ PollAnswers(p)
          \/ Opens(p) \/ Polls(p) \/ Receives(p) \/ Fails(p) \/ GivesUp(p)
          \/ Closes(p) \/ TogglesPause(p)
    \/ SetMonitoring \/ Restart

Spec == Init /\ [][Next]_vars

\* A loop polls on, and a server that is asked again and again answers and
\* is heard.
FairSpec ==
    /\ Spec
    /\ \A p \in Panels :
          /\ WF_vars(Polls(p)) /\ WF_vars(PollExpires(p)) /\ WF_vars(Fails(p))
          /\ SF_vars(PollArrives(p)) /\ SF_vars(PollAnswers(p)) /\ SF_vars(Receives(p))

----------------------------------------------------------------------------
(* Properties.                                                             *)

\* No poll waits while there is an event for it: between looking at the
\* log and waiting, and between waking and looking again, none gets lost.
NoLostWakeup == \A p \in Panels : phase[p] = "waiting" => EventsSince(since[p]) = {}

\* Of the lifetime its cursor belongs to, a panel misses an event only if the
\* ring has evicted it: of the events from where the panel came to this
\* lifetime up to its cursor, at least the last Capacity have been shown.
NothingSkipped ==
    \A p \in Panels : \A n \in (base[p] + 1)..since[p] :
        n > since[p] - Capacity => n \in shown[p]

\* No event is shown twice, whatever polls fail or are repeated.
NothingRepeated ==
    [][\A p \in Panels :
          Receives(p) /\ reply[p].life = readLife[p] => reply[p].ids \cap shown[p] = {}]_vars

\* A write that was recognised lights its own table, whatever other writes
\* record and evict in between, until there are Capacity of them.
WritesLight ==
    [][\A w \in Writers :
          Attributes(w) /\ monitoring /\ own[w] > latestId - Capacity /\ own[w] # 0
              => TableOf[w] \in lit']_vars

\* While the panel follows this lifetime it catches up with the log.
Follows(p) == polling[p] /\ ~paused[p] /\ configured /\ monitoring
CaughtUp(p) == \A e \in events : readLife[p] = life /\ e.id \in shown[p]
CatchesUp ==
    \A p \in Panels :
        <>[](Follows(p) /\ (readLife[p] = life \/ since[p] = 0) /\ base[p] = 0)
            => <>[]CaughtUp(p)
=============================================================================
