-------------------------- MODULE MutationLogProofs --------------------------
(* What holds of the mutation log and its followers for any numbers of     *)
(* writes, panels, events and restarts, and for any size of the ring.      *)
EXTENDS MutationLog, TLAPS

USE DEF NoReply

\* Every variable keeps its type, and the ring its newest Capacity events.
THEOREM TypeCorrect == Spec => []TypeOK
<1>1. Init => TypeOK
  BY BoundsAssumption DEF Init, TypeOK, Replies
<1>2. TypeOK /\ [Next]_vars => TypeOK'
  <2> SUFFICES ASSUME TypeOK, [Next]_vars PROVE TypeOK'
    OBVIOUS
  <2> USE BoundsAssumption, TablesAssumption DEF TypeOK
  <2>1. CASE UNCHANGED vars
    BY <2>1 DEF vars, log, writes, panels
  <2>2. ASSUME NEW w \in Writers, WriteBegins(w) PROVE TypeOK'
    BY <2>2 DEF WriteBegins, log, panels
  <2>3. ASSUME NEW w \in Writers, Records(w) PROVE TypeOK'
    <3>1. latestId' \in 1..MaxId
      BY <2>3 DEF Records
    <3>2. events' \subseteq Events
      BY <2>3, <3>1 DEF Records, Kept, Events
    <3>3. \A e \in events' : latestId' - Capacity < e.id /\ e.id <= latestId'
      BY <2>3, <3>1 DEF Records, Kept, Events
    <3>4. /\ pc' \in [Writers -> {"idle", "capturing", "counting"}]
          /\ mark' \in [Writers -> 0..MaxId]
          /\ own' \in [Writers -> 0..MaxId]
      <4>1. Ends(w) \/ Succeeds(w, latestId')
        BY <2>3 DEF Records
      <4>2. CASE Ends(w)
        BY <4>2 DEF Ends
      <4>3. CASE Succeeds(w, latestId')
        BY <3>1, <4>3 DEF Succeeds
      <4> QED
        BY <4>1, <4>2, <4>3
    <3>5. phase' \in [Panels -> {"idle", "asking", "waiting", "woken",
                                 "answered", "refused", "unsupported"}]
      BY <2>3 DEF Records, WakeAll
    <3>6. UNCHANGED <<configured, monitoring, lit, life, polling, paused, since, reply, shown,
                      readLife, base>>
      BY <2>3 DEF Records
    <3> QED
      BY <3>1, <3>2, <3>3, <3>4, <3>5, <3>6
  <2>4. ASSUME NEW w \in Writers, Passes(w) PROVE TypeOK'
    BY <2>4 DEF Passes, Ends, Succeeds, log, panels
  <2>5. ASSUME NEW w \in Writers, Attributes(w) PROVE TypeOK'
    <3>1. lit' \subseteq Tables
      BY <2>5 DEF Attributes, EventsSince, Events
    <3> QED
      BY <2>5, <3>1 DEF Attributes, Ends, panels
  <2>6. ASSUME NEW p \in Panels PROVE Answer(p) \in Replies
    BY DEF Answer, Replies, EventsSince, Events
  <2>7. ASSUME NEW p \in Panels, PollArrives(p) PROVE TypeOK'
    BY <2>6, <2>7 DEF PollArrives, log, writes
  <2>8. ASSUME NEW p \in Panels, PollExpires(p) PROVE TypeOK'
    BY <2>8 DEF PollExpires, log, writes
  <2>9. ASSUME NEW p \in Panels, PollAnswers(p) PROVE TypeOK'
    BY <2>6, <2>9 DEF PollAnswers, log, writes
  <2>10. ASSUME NEW p \in Panels, Opens(p) PROVE TypeOK'
    BY <2>10 DEF Opens, log, writes
  <2>11. ASSUME NEW p \in Panels, Polls(p) PROVE TypeOK'
    BY <2>11 DEF Polls, log, writes
  <2>12. ASSUME NEW p \in Panels, Receives(p) PROVE TypeOK'
    <3>1. reply[p] \in Replies /\ NoReply \in Replies
      BY DEF Replies
    <3>2. reply[p].ids \subseteq 1..MaxId /\ reply[p].cursor \in 0..MaxId /\ reply[p].life \in 0..MaxLife
      BY <3>1 DEF Replies
    <3> QED
      BY <2>12, <3>1, <3>2 DEF Receives, NewCursor, log, writes
  <2>13. ASSUME NEW p \in Panels, Fails(p) PROVE TypeOK'
    BY <2>13 DEF Fails, Replies, log, writes
  <2>14. ASSUME NEW p \in Panels, GivesUp(p) PROVE TypeOK'
    BY <2>14 DEF GivesUp, log, writes
  <2>15. ASSUME NEW p \in Panels, Closes(p) PROVE TypeOK'
    BY <2>15 DEF Closes, Replies, log, writes
  <2>16. ASSUME NEW p \in Panels, TogglesPause(p) PROVE TypeOK'
    BY <2>16 DEF TogglesPause, log, writes
  <2>17. CASE SetMonitoring
    BY <2>17 DEF SetMonitoring, writes, panels
  <2>18. CASE Restart
    BY <2>18 DEF Restart
  <2> QED
    BY <2>1, <2>2, <2>3, <2>4, <2>5, <2>7, <2>8, <2>9, <2>10, <2>11, <2>12, <2>13, <2>14,
       <2>15, <2>16, <2>17, <2>18 DEF Next
<1> QED
  BY <1>1, <1>2, PTL DEF Spec

\* Between a look at the log and the wait for the next event, and between
\* the wake-up and the next look, no event gets lost.
THEOREM WakesAll == Spec => []NoLostWakeup
<1>1. Init => NoLostWakeup
  BY DEF Init, NoLostWakeup
<1>2. TypeOK /\ NoLostWakeup /\ [Next]_vars => NoLostWakeup'
  <2> SUFFICES ASSUME TypeOK, NoLostWakeup, [Next]_vars,
                      NEW q \in Panels, phase'[q] = "waiting"
               PROVE  EventsSince(since[q])' = {}
    BY DEF NoLostWakeup
  <2> USE DEF EventsSince
  <2>1. ASSUME phase[q] = "waiting", events' = events, since'[q] = since[q]
        PROVE  EventsSince(since[q])' = {}
    BY <2>1 DEF NoLostWakeup
  <2>2. ASSUME NEW w \in Writers, Records(w) PROVE FALSE
    BY <2>2 DEF Records, WakeAll, TypeOK
  <2>3. ASSUME NEW p \in Panels, PollArrives(p) PROVE EventsSince(since[q])' = {}
    <3>1. CASE p = q
      BY <2>3, <3>1 DEF PollArrives, log, TypeOK
    <3>2. CASE p # q
      BY <2>1, <2>3, <3>2 DEF PollArrives, log, TypeOK
    <3> QED
      BY <3>1, <3>2
  <2>4. CASE Restart
    BY <2>4 DEF Restart, TypeOK
  <2>5. ASSUME NEW p \in Panels,
               PollExpires(p) \/ PollAnswers(p) \/ Opens(p) \/ Polls(p) \/ Fails(p)
                 \/ GivesUp(p) \/ TogglesPause(p)
        PROVE  EventsSince(since[q])' = {}
    BY <2>1, <2>5 DEF PollExpires, PollAnswers, Opens, Polls, Fails, GivesUp, TogglesPause,
       log, TypeOK
  <2>6. ASSUME NEW p \in Panels, Receives(p) \/ Closes(p) PROVE EventsSince(since[q])' = {}
    BY <2>1, <2>6 DEF Receives, Closes, log, TypeOK
  <2>7. ASSUME UNCHANGED <<events, panels>> PROVE EventsSince(since[q])' = {}
    BY <2>1, <2>7 DEF panels
  <2>8. ASSUME NEW w \in Writers, WriteBegins(w) \/ Passes(w) \/ Attributes(w)
        PROVE  UNCHANGED <<events, panels>>
    BY <2>8 DEF WriteBegins, Passes, Attributes, log
  <2>9. SetMonitoring \/ UNCHANGED vars => UNCHANGED <<events, panels>>
    BY DEF SetMonitoring, vars, log
  <2> QED
    BY <2>2, <2>3, <2>4, <2>5, <2>6, <2>7, <2>8, <2>9 DEF Next
<1> QED
  BY <1>1, <1>2, TypeCorrect, PTL DEF Spec

-----------------------------------------------------------------------------
(* What a panel has shown.                                                 *)

\* The ring holds the last Capacity events, an answer exactly those of them
\* that are beyond the cursor it was asked with, and a panel nothing beyond
\* its cursor.
RingFull == \A n \in 1..latestId : n > latestId - Capacity => \E e \in events : e.id = n
AnswersExact ==
    \A p \in Panels : phase[p] = "answered" =>
        reply[p].ids = {n \in 1..reply[p].cursor : n > since[p] /\ n > reply[p].cursor - Capacity}
ShownUpToCursor == \A p \in Panels : \A n \in shown[p] : n <= since[p]
FeedInv == RingFull /\ AnswersExact /\ ShownUpToCursor /\ NothingSkipped

\* An answer is exact when it is given.
LEMMA AnswerIsExact ==
    ASSUME TypeOK, RingFull, NEW p \in Panels
    PROVE  Answer(p).ids = {n \in 1..latestId : n > since[p] /\ n > latestId - Capacity}
<1>1. ASSUME NEW e \in events PROVE e.id \in 1..latestId /\ e.id > latestId - Capacity
  BY <1>1, BoundsAssumption DEF TypeOK, Events
<1> QED
  BY <1>1 DEF Answer, EventsSince, RingFull

\* The steps that leave the feeds alone.
LEMMA OtherSteps ==
    ASSUME FeedInv, UNCHANGED <<since, shown, base, reply>>, RingFull',
           \A p \in Panels : phase'[p] = "answered" => phase[p] = "answered"
    PROVE  FeedInv'
BY DEF FeedInv, AnswersExact, ShownUpToCursor, NothingSkipped

\* The invariant of a panel is preserved when its answer arrives.
LEMMA Received ==
    ASSUME TypeOK, FeedInv, NEW p \in Panels, Receives(p)
    PROVE  FeedInv'
<1> DEFINE c == reply[p].cursor
           ids == reply[p].ids
<1>1. ids = {n \in 1..c : n > since[p] /\ n > c - Capacity} /\ c \in Nat /\ since[p] \in Nat
  BY DEF FeedInv, AnswersExact, Receives, TypeOK, Replies
<1>2. RingFull'
  BY DEF Receives, log, FeedInv, RingFull
<1>3. AnswersExact'
  BY DEF Receives, FeedInv, AnswersExact, TypeOK
<1>4. ShownUpToCursor'
  <2> SUFFICES ASSUME NEW q \in Panels, NEW n \in shown'[q] PROVE n <= since'[q]
    BY DEF ShownUpToCursor
  <2>1. CASE q = p /\ ids # {}
    <3>1. since'[p] = c /\ c > since[p]
      BY <1>1, <2>1 DEF Receives, NewCursor, TypeOK
    <3>2. n \in ids \/ n \in shown[p]
      BY <2>1 DEF Receives, TypeOK
    <3>3. n \in shown[p] => n \in Nat /\ n <= since[p]
      BY DEF FeedInv, ShownUpToCursor, TypeOK
    <3> HIDE DEF c, ids
    <3> QED
      BY <1>1, <2>1, <3>1, <3>2, <3>3
  <2>2. CASE ~(q = p /\ ids # {})
    <3>1. since'[q] = since[q] /\ shown'[q] = shown[q]
      BY <2>2 DEF Receives, TypeOK
    <3> QED
      BY <3>1 DEF FeedInv, ShownUpToCursor
  <2> QED
    BY <2>1, <2>2
<1>5. NothingSkipped'
  <2> SUFFICES ASSUME NEW q \in Panels, NEW n \in (base'[q] + 1)..since'[q],
                      n > since'[q] - Capacity
               PROVE  n \in shown'[q]
    BY DEF NothingSkipped
  <2>1. CASE q = p /\ ids # {} /\ reply[p].life = readLife[p]
    <3>1. since'[p] = c /\ base'[p] = base[p] /\ shown'[p] = shown[p] \cup ids /\ base[p] \in Nat
      BY <2>1 DEF Receives, NewCursor, TypeOK
    <3>2. c > since[p]
      BY <1>1, <2>1
    <3>3. \A m \in (base[p] + 1)..since[p] : m > since[p] - Capacity => m \in shown[p]
      BY DEF FeedInv, NothingSkipped
    <3> HIDE DEF c, ids
    <3>4. CASE n > since[p]
      BY <1>1, <2>1, <3>1, <3>4
    <3>5. CASE n <= since[p]
      BY <1>1, <2>1, <3>1, <3>2, <3>3, <3>5, BoundsAssumption
    <3> QED
      BY <1>1, <2>1, <3>1, <3>4, <3>5
  <2>2. CASE q = p /\ ids # {} /\ reply[p].life # readLife[p]
    <3>1. since'[p] = c /\ base'[p] = since[p] /\ shown'[p] = ids
      BY <2>2 DEF Receives, NewCursor, TypeOK
    <3> HIDE DEF c, ids
    <3> QED
      BY <1>1, <2>2, <3>1
  <2>3. CASE ~(q = p /\ ids # {})
    <3>1. since'[q] = since[q] /\ shown'[q] = shown[q] /\ base'[q] = base[q]
      BY <2>3 DEF Receives, TypeOK
    <3> QED
      BY <3>1 DEF FeedInv, NothingSkipped
  <2> QED
    BY <2>1, <2>2, <2>3
<1> QED
  BY <1>2, <1>3, <1>4, <1>5 DEF FeedInv

\* Every step preserves the invariant.
LEMMA FeedKept ==
    ASSUME TypeOK, FeedInv, [Next]_vars
    PROVE  FeedInv'
<1>1. ASSUME NEW w \in Writers, Records(w) PROVE FeedInv'
  <2>1. RingFull'
    <3> SUFFICES ASSUME NEW n \in 1..latestId', n > latestId' - Capacity
                 PROVE  \E e \in events' : e.id = n
      BY DEF RingFull
    <3>1. CASE n = latestId'
      <4>1. [id |-> latestId', table |-> TableOf[w]] \in events'
        BY <1>1 DEF Records
      <4> QED
        BY <3>1, <4>1
    <3>2. CASE n # latestId'
      <4>1. n \in 1..latestId /\ n > latestId - Capacity
        BY <1>1, <3>2, BoundsAssumption DEF Records, TypeOK
      <4>2. PICK e \in events : e.id = n
        BY <4>1 DEF FeedInv, RingFull
      <4> QED
        BY <1>1, <4>2 DEF Records, Kept
    <3> QED
      BY <3>1, <3>2
  <2>2. UNCHANGED <<since, shown, base, reply>>
    BY <1>1 DEF Records
  <2>3. phase' = WakeAll(w)
    BY <1>1 DEF Records
  <2>4. \A p \in Panels : phase'[p] = "answered" => phase[p] = "answered"
    BY <2>3 DEF WakeAll
  <2> QED
    BY <2>1, <2>2, <2>4, OtherSteps
<1>2. ASSUME NEW p \in Panels, PollArrives(p) \/ PollAnswers(p) PROVE FeedInv'
  <2>1. UNCHANGED <<latestId, events, since, shown, base>>
    BY <1>2 DEF PollArrives, PollAnswers, log
  <2>2. ASSUME phase'[p] = "answered" PROVE reply'[p] = Answer(p)
    BY <1>2, <2>2 DEF PollArrives, PollAnswers, TypeOK
  <2>3. ASSUME NEW q \in Panels, q # p PROVE phase'[q] = phase[q] /\ reply'[q] = reply[q]
    BY <1>2, <2>3 DEF PollArrives, PollAnswers, TypeOK
  <2>4. Answer(p).cursor = latestId
    BY DEF Answer
  <2>5. AnswersExact'
    BY <2>1, <2>2, <2>3, <2>4, AnswerIsExact DEF FeedInv, AnswersExact
  <2> QED
    BY <2>1, <2>5 DEF FeedInv, RingFull, ShownUpToCursor, NothingSkipped
<1>3. ASSUME NEW p \in Panels, Receives(p) PROVE FeedInv'
  BY <1>3, Received
<1>4. ASSUME NEW p \in Panels, Fails(p) PROVE FeedInv'
  <2>1. AnswersExact'
    BY <1>4 DEF Fails, FeedInv, AnswersExact, TypeOK
  <2> QED
    BY <1>4, <2>1 DEF Fails, log, FeedInv, RingFull, ShownUpToCursor, NothingSkipped
<1>5. ASSUME NEW p \in Panels, Closes(p) PROVE FeedInv'
  <2>1. AnswersExact'
    BY <1>5 DEF Closes, FeedInv, AnswersExact, TypeOK
  <2>2. ShownUpToCursor'
    BY <1>5 DEF Closes, FeedInv, ShownUpToCursor, TypeOK
  <2>3. NothingSkipped'
    BY <1>5 DEF Closes, FeedInv, NothingSkipped, TypeOK
  <2> QED
    BY <1>5, <2>1, <2>2, <2>3 DEF Closes, log, FeedInv, RingFull
<1>6. CASE Restart
  <2>1. RingFull'
    BY <1>6 DEF Restart, RingFull
  <2> QED
    BY <1>6, <2>1, OtherSteps DEF Restart, TypeOK
<1>7. ASSUME NEW p \in Panels, PollExpires(p) \/ Opens(p) \/ Polls(p) \/ GivesUp(p) \/ TogglesPause(p)
      PROVE  FeedInv'
  <2>1. UNCHANGED <<latestId, events, since, shown, base, reply>>
    BY <1>7 DEF PollExpires, Opens, Polls, GivesUp, TogglesPause, log
  <2>2. \A q \in Panels : phase'[q] = "answered" => phase[q] = "answered"
    BY <1>7 DEF PollExpires, Opens, Polls, GivesUp, TogglesPause, TypeOK
  <2> QED
    BY <2>1, <2>2, OtherSteps DEF FeedInv, RingFull
<1>8. ASSUME UNCHANGED <<latestId, events, panels>> PROVE FeedInv'
  BY <1>8, OtherSteps DEF panels, FeedInv, RingFull
<1>9. ASSUME NEW w \in Writers, WriteBegins(w) \/ Passes(w) \/ Attributes(w)
      PROVE  UNCHANGED <<latestId, events, panels>>
  BY <1>9 DEF WriteBegins, Passes, Attributes, log
<1>10. SetMonitoring \/ UNCHANGED vars => UNCHANGED <<latestId, events, panels>>
  BY DEF SetMonitoring, vars, log
<1> QED
  BY <1>1, <1>2, <1>3, <1>4, <1>5, <1>6, <1>7, <1>8, <1>9, <1>10 DEF Next

\* The invariant holds throughout.
LEMMA FeedHolds == Spec => []FeedInv
<1>1. Init => FeedInv
  BY BoundsAssumption DEF Init, FeedInv, RingFull, AnswersExact, ShownUpToCursor, NothingSkipped
<1> QED
  BY <1>1, FeedKept, TypeCorrect, PTL DEF Spec

\* Until the application has been restarted, a panel's feed begins with the
\* first event.
FromTheFirst == life = 0 => \A p \in Panels : base[p] = 0

\* All there is to read then is from the first lifetime.
FirstLife ==
    life = 0 => \A p \in Panels : base[p] = 0 /\ readLife[p] = 0 /\ reply[p].life = 0

LEMMA FirstLifeKept == ASSUME TypeOK, FirstLife, [Next]_vars PROVE FirstLife'
<1> SUFFICES ASSUME life' = 0
             PROVE  \A p \in Panels : base'[p] = 0 /\ readLife'[p] = 0 /\ reply'[p].life = 0
  BY DEF FirstLife
<1>1. ~Restart
  BY DEF Restart, TypeOK
<1>2. life = 0
  BY <1>1 DEF Next, WriteBegins, Records, Passes, Attributes, PollArrives, PollExpires, PollAnswers,
       Opens, Polls, Receives, Fails, GivesUp, Closes, TogglesPause, SetMonitoring, vars, log
<1>3. \A p \in Panels : base[p] = 0 /\ readLife[p] = 0 /\ reply[p].life = 0
  BY <1>2 DEF FirstLife
<1>4. ASSUME NEW p \in Panels, PollArrives(p) \/ PollAnswers(p)
      PROVE  /\ UNCHANGED <<base, readLife>>
             /\ \A q \in Panels : reply'[q].life = 0
  <2>1. Answer(p).life = 0
    BY <1>2 DEF Answer
  <2>2. reply' = [reply EXCEPT ![p] = Answer(p)] \/ reply' = reply
    BY <1>4 DEF PollArrives, PollAnswers
  <2>3. UNCHANGED <<base, readLife>>
    BY <1>4 DEF PollArrives, PollAnswers
  <2> QED
    BY <1>3, <2>1, <2>2, <2>3 DEF TypeOK
<1>5. ASSUME NEW p \in Panels, Receives(p)
      PROVE  \A q \in Panels : base'[q] = 0 /\ readLife'[q] = 0 /\ reply'[q].life = 0
  <2>1. UNCHANGED base
    BY <1>3, <1>5 DEF Receives
  <2>2. \A q \in Panels : readLife'[q] = 0 /\ reply'[q].life = 0
    BY <1>3, <1>5 DEF Receives, NoReply, TypeOK
  <2> QED
    BY <1>3, <2>1, <2>2
<1>6. ASSUME NEW p \in Panels, Fails(p) \/ Closes(p) \/ Opens(p)
      PROVE  \A q \in Panels : base'[q] = 0 /\ readLife'[q] = 0 /\ reply'[q].life = 0
  BY <1>2, <1>3, <1>6 DEF Fails, Closes, Opens, NoReply, TypeOK
<1>7. ASSUME NEW p \in Panels, PollExpires(p) \/ Polls(p) \/ GivesUp(p) \/ TogglesPause(p)
      PROVE  UNCHANGED <<base, readLife, reply>>
  BY <1>7 DEF PollExpires, Polls, GivesUp, TogglesPause
<1>8. ASSUME NEW w \in Writers, WriteBegins(w) \/ Records(w) \/ Passes(w) \/ Attributes(w)
      PROVE  UNCHANGED <<base, readLife, reply>>
  BY <1>8 DEF WriteBegins, Records, Passes, Attributes, panels
<1>9. SetMonitoring \/ UNCHANGED vars => UNCHANGED <<base, readLife, reply>>
  BY DEF SetMonitoring, vars, panels
<1> QED
  BY <1>1, <1>3, <1>4, <1>5, <1>6, <1>7, <1>8, <1>9 DEF Next

\* While the log a panel reads stays the one its cursor is of, the panel misses
\* an event only when the ring has evicted it: as long as the application is
\* not restarted from the first event on, and after a restart from the cursor
\* the panel came with (what such a cursor passes over is left out of base).
THEOREM FeedIsComplete == Spec => [](NothingSkipped /\ FromTheFirst)
<1>1. FeedInv => NothingSkipped
  BY DEF FeedInv
<1>2. Init => FirstLife
  BY DEF Init, FirstLife, NoReply
<1>3. FirstLife => FromTheFirst
  BY DEF FirstLife, FromTheFirst
<1> QED
  BY <1>1, <1>2, <1>3, FirstLifeKept, FeedHolds, TypeCorrect, PTL DEF Spec

\* No event is shown twice, whatever polls fail or are repeated.
THEOREM FeedIsOnce == Spec => NothingRepeated
<1>1. ASSUME TypeOK, FeedInv
      PROVE  \A p \in Panels :
                Receives(p) /\ reply[p].life = readLife[p] => reply[p].ids \cap shown[p] = {}
  <2> SUFFICES ASSUME NEW p \in Panels, Receives(p) PROVE reply[p].ids \cap shown[p] = {}
    OBVIOUS
  <2>1. \A n \in reply[p].ids : n > since[p]
    BY <1>1 DEF FeedInv, AnswersExact, Receives
  <2>2. \A n \in shown[p] : n <= since[p] /\ n \in Nat /\ since[p] \in Nat
    BY <1>1 DEF FeedInv, ShownUpToCursor, TypeOK
  <2> QED
    BY <2>1, <2>2
<1> QED
  BY <1>1, FeedHolds, TypeCorrect, PTL DEF NothingRepeated

-----------------------------------------------------------------------------
(* The heartbeat of writes.                                                *)

\* A write that is still to be attributed has its event after its mark, in
\* the ring until Capacity others have followed.
OwnEvents ==
    \A w \in Writers :
        /\ pc[w] # "idle" => mark[w] <= latestId
        /\ pc[w] = "counting" /\ own[w] # 0 =>
              /\ mark[w] < own[w] /\ own[w] <= latestId
              /\ own[w] > latestId - Capacity => [id |-> own[w], table |-> TableOf[w]] \in events

\* Every step preserves OwnEvents.
LEMMA OwnEventsKept ==
    ASSUME TypeOK, OwnEvents, [Next]_vars
    PROVE  OwnEvents'
<1> USE BoundsAssumption, TablesAssumption DEF TypeOK
<1>1. ASSUME NEW w \in Writers, WriteBegins(w) PROVE OwnEvents'
  BY <1>1 DEF WriteBegins, OwnEvents, log
<1>2. ASSUME NEW w \in Writers, Records(w) PROVE OwnEvents'
  <2> SUFFICES ASSUME NEW v \in Writers
               PROVE  /\ pc'[v] # "idle" => mark'[v] <= latestId'
                      /\ pc'[v] = "counting" /\ own'[v] # 0 =>
                            /\ mark'[v] < own'[v] /\ own'[v] <= latestId'
                            /\ own'[v] > latestId' - Capacity
                                  => [id |-> own'[v], table |-> TableOf[v]] \in events'
    BY DEF OwnEvents
  <2>1. latestId' = latestId + 1 /\ latestId \in Nat
    BY <1>2 DEF Records
  <2>2. CASE v # w
    <3>1. pc'[v] = pc[v] /\ mark'[v] = mark[v] /\ own'[v] = own[v]
      BY <1>2, <2>2 DEF Records, Ends, Succeeds
    <3>2. ASSUME NEW e \in events, e.id > latestId' - Capacity PROVE e \in events'
      BY <1>2, <3>2 DEF Records, Kept
    <3> QED
      BY <2>1, <3>1, <3>2 DEF OwnEvents
  <2>3. CASE v = w
    <3>1. mark[w] <= latestId /\ mark[w] \in Nat
      <4>1. pc[w] = "capturing"
        BY <1>2 DEF Records
      <4>2. mark[w] \in Nat /\ pc[w] # "idle"
        BY <4>1
      <4> QED
        BY <4>1, <4>2 DEF OwnEvents
    <3>2. [id |-> latestId', table |-> TableOf[w]] \in events'
      BY <1>2 DEF Records
    <3>3. CASE Ends(w)
      BY <2>3, <3>3 DEF Ends
    <3>4. CASE Succeeds(w, latestId')
      BY <2>1, <2>3, <3>1, <3>2, <3>4 DEF Succeeds
    <3> QED
      BY <1>2, <3>3, <3>4 DEF Records
  <2> QED
    BY <2>2, <2>3
<1>3. ASSUME NEW w \in Writers, Passes(w) PROVE OwnEvents'
  BY <1>3 DEF Passes, Ends, Succeeds, OwnEvents, log
<1>4. ASSUME NEW w \in Writers, Attributes(w) PROVE OwnEvents'
  BY <1>4 DEF Attributes, Ends, OwnEvents
<1>5. CASE Restart
  BY <1>5 DEF Restart, OwnEvents
<1>6. ASSUME UNCHANGED <<latestId, events, writes>> PROVE OwnEvents'
  BY <1>6 DEF writes, OwnEvents
<1>7. ASSUME NEW p \in Panels,
             \/ PollArrives(p) \/ PollExpires(p) \/ PollAnswers(p)
             \/ Opens(p) \/ Polls(p) \/ Receives(p) \/ Fails(p) \/ GivesUp(p)
             \/ Closes(p) \/ TogglesPause(p)
      PROVE  UNCHANGED <<latestId, events, writes>>
  BY <1>7 DEF PollArrives, PollExpires, PollAnswers, Opens, Polls, Receives, Fails, GivesUp,
     Closes, TogglesPause, log
<1>8. SetMonitoring \/ UNCHANGED vars => UNCHANGED <<latestId, events, writes>>
  BY DEF SetMonitoring, vars, log
<1> QED
  BY <1>1, <1>2, <1>3, <1>4, <1>5, <1>6, <1>7, <1>8 DEF Next

\* A recognised write lights its own table, however many other writes run
\* between its statement and its attribution.
THEOREM HeartbeatsKept == Spec => WritesLight
<1>1. Init => OwnEvents
  BY DEF Init, OwnEvents
<1>2. ASSUME TypeOK, OwnEvents
      PROVE  \A w \in Writers :
                Attributes(w) /\ monitoring /\ own[w] > latestId - Capacity /\ own[w] # 0
                    => TableOf[w] \in lit'
  <2> SUFFICES ASSUME NEW w \in Writers, Attributes(w), monitoring,
                      own[w] > latestId - Capacity, own[w] # 0
               PROVE  TableOf[w] \in lit'
    OBVIOUS
  <2> DEFINE e == [id |-> own[w], table |-> TableOf[w]]
  <2>1. e \in events /\ own[w] > mark[w]
    BY <1>2 DEF OwnEvents, Attributes, TypeOK
  <2>2. e \in EventsSince(mark[w]) /\ e.table = TableOf[w]
    BY <2>1 DEF EventsSince
  <2>3. lit' = lit \cup {d.table : d \in EventsSince(mark[w])}
    BY <2>2 DEF Attributes
  <2> HIDE DEF e
  <2> QED
    BY <2>2, <2>3
<1> QED
  BY <1>1, <1>2, OwnEventsKept, TypeCorrect, PTL DEF Spec, WritesLight
=============================================================================
