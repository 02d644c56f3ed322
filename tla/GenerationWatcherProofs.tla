----------------------- MODULE GenerationWatcherProofs -----------------------
(* Theorems about the generation watcher, for any number of overlapping    *)
(* polls, switches and servers.                                            *)
EXTENDS GenerationWatcher, TLAPS

(* The watcher's state keeps its types, and a disposed watcher stays       *)
(* stopped.                                                                *)
THEOREM TypeCorrect == Spec => []TypeOK
<1> USE NoneAssumption, BoundsAssumption DEF TypeOK
<1>1. Init => TypeOK
  <2> SUFFICES ASSUME Init PROVE TypeOK
    OBVIOUS
  <2>1. running \in BOOLEAN /\ disposed \in BOOLEAN /\ (disposed => ~running)
    BY DEF Init
  <2> QED
    BY <2>1 DEF Init
<1>2. TypeOK /\ [Next]_vars => TypeOK'
  <2> SUFFICES ASSUME TypeOK, [Next]_vars PROVE TypeOK'
    OBVIOUS
  <2> USE DEF watcher, requests
  <2>1. CASE Stop
    <3>1. running' = FALSE /\ disposed' \in BOOLEAN
      BY <2>1 DEF Stop
    <3>2. signalled' \subseteq Chains /\ phase' \in [Chains -> {"free", "inFlight", "scheduled"}]
      BY <2>1 DEF Stop
    <3>3. pollId' \in Nat /\ pollTimeout' = None /\ controller' = None
      BY <2>1 DEF Stop, Stops, NextPollId
    <3>4. UNCHANGED <<generation, id, target, reply, client, serverGeneration, origin, lapsed>>
      BY <2>1 DEF Stop
    <3> QED
      BY <3>1, <3>2, <3>3, <3>4
  <2>2. ASSUME NEW c \in Chains, Start(c) PROVE TypeOK'
    BY <2>2 DEF Start, Sends
  <2>3. ASSUME NEW c \in Chains, Fires(c) PROVE TypeOK'
    BY <2>3 DEF Fires, Sends
  <2>4. ASSUME NEW c \in Chains, Answered(c) PROVE TypeOK'
    BY <2>4 DEF Answered, Ends
  <2>5. ASSUME NEW c \in Chains, Failed(c) \/ Aborted(c) PROVE TypeOK'
    <3>1. lapsed' \in BOOLEAN
      BY <2>5 DEF Failed, Aborted, Current
    <3> QED
      BY <2>5, <3>1 DEF Failed, Aborted, Ends
  <2>6. ASSUME NEW c \in Chains, ServerAnswers(c) PROVE TypeOK'
    BY <2>6 DEF ServerAnswers
  <2>7. ASSUME NEW c \in Chains, NEW s \in Servers, Switch(s, c) PROVE TypeOK'
    <3>1. id' \in [Chains -> Nat] /\ pollId' \in Nat
      BY <2>7 DEF Switch, Stops, NextPollId, Sends
    <3>2. /\ target' \in [Chains -> Servers] /\ reply' \in [Chains -> {None} \cup Nat]
          /\ controller' \in Chains /\ pollTimeout' = None
      BY <2>7 DEF Switch, Stops, Sends
    <3>3. phase' \in [Chains -> {"free", "inFlight", "scheduled"}] /\ signalled' \subseteq Chains
      BY <2>7 DEF Switch
    <3> QED
      BY <2>7, <3>1, <3>2, <3>3 DEF Switch
  <2>8. ASSUME NEW s \in Servers, ServerChanges(s) PROVE TypeOK'
    BY <2>8 DEF ServerChanges
  <2>9. CASE UNCHANGED vars
    BY <2>9 DEF vars
  <2> QED
    BY <2>1, <2>2, <2>3, <2>4, <2>5, <2>6, <2>7, <2>8, <2>9 DEF Next
<1> QED
  BY <1>1, <1>2, PTL DEF Spec

-----------------------------------------------------------------------------
(* Sessions.  A chain alive belongs to the current session or an earlier   *)
(* one, and the session that a stopped watcher would start in is new.      *)

Alive(c) == phase[c] # "free"

SessionOrder ==
    \A c \in Chains : Alive(c) => id[c] <= pollId /\ (~running => id[c] < pollId)

\* The requests of the current session went to the client's server.
TargetsActive == \A c \in Chains : Alive(c) /\ id[c] = pollId => target[c] = client

IInv == SessionOrder /\ NoForkedChains /\ TargetsActive /\ GenerationOfActiveServer

LEMMA Inductive == TypeOK /\ IInv /\ [Next]_vars => IInv'
<1> SUFFICES ASSUME TypeOK, IInv, [Next]_vars PROVE IInv'
  OBVIOUS
<1> USE NoneAssumption DEF TypeOK, IInv, SessionOrder, NoForkedChains, TargetsActive, Alive,
        GenerationOfActiveServer, watcher, requests
<1>1. CASE Stop
  <2>1. \A c \in Chains : phase'[c] # "scheduled"
    BY <1>1 DEF Stop, Cleared
  <2>2. \A c \in Chains : phase'[c] # "free" => phase[c] # "free" /\ id'[c] < pollId'
    BY <1>1 DEF Stop, Stops, NextPollId, Cleared
  <2>3. GenerationOfActiveServer'
    BY <1>1 DEF Stop
  <2> QED
    BY <1>1, <2>1, <2>2, <2>3 DEF Stop, Stops, NextPollId
<1>2. ASSUME NEW c \in Chains, Start(c) PROVE IInv'
  BY <1>2 DEF Start, Sends
<1>3. ASSUME NEW c \in Chains, Fires(c) PROVE IInv'
  BY <1>3 DEF Fires, Sends
<1>4. ASSUME NEW c \in Chains, NEW goesOn \in BOOLEAN, phase[c] = "inFlight", Ends(c, goesOn),
             goesOn => Current(c)
      PROVE SessionOrder' /\ NoForkedChains' /\ TargetsActive'
  BY <1>4 DEF Ends, Current
<1>5. ASSUME NEW c \in Chains, Answered(c) PROVE IInv'
  <2>1. SessionOrder' /\ NoForkedChains' /\ TargetsActive'
    BY <1>4, <1>5 DEF Answered, Current
  <2>2. GenerationOfActiveServer'
    BY <1>5 DEF Answered, Current, Ends
  <2> QED
    BY <2>1, <2>2
<1>6. ASSUME NEW c \in Chains, Failed(c) \/ Aborted(c) PROVE IInv'
  <2>1. SessionOrder' /\ NoForkedChains' /\ TargetsActive'
    BY <1>4, <1>6 DEF Failed, Aborted, Current
  <2>2. GenerationOfActiveServer'
    BY <1>6 DEF Failed, Aborted, Ends
  <2> QED
    BY <2>1, <2>2
<1>7. ASSUME NEW c \in Chains, ServerAnswers(c) PROVE IInv'
  BY <1>7 DEF ServerAnswers
<1>8. ASSUME NEW c \in Chains, NEW s \in Servers, Switch(s, c) PROVE IInv'
  <2>1. \A d \in Chains : phase'[d] # "scheduled"
    BY <1>8 DEF Switch, Cleared
  <2>2. \A d \in Chains : d # c /\ phase'[d] # "free" => phase[d] # "free" /\ id'[d] < pollId'
    BY <1>8 DEF Switch, Stops, NextPollId, Cleared, Sends
  <2>3. id'[c] = pollId' /\ target'[c] = client' /\ running'
    BY <1>8 DEF Switch, Sends
  <2>4. GenerationOfActiveServer'
    BY <1>8 DEF Switch
  <2>5. pollId' \in Nat /\ id' \in [Chains -> Nat]
    BY <1>8 DEF Switch, Stops, NextPollId, Sends
  <2> QED
    BY <2>1, <2>2, <2>3, <2>4, <2>5
<1>9. CASE (\E s \in Servers : ServerChanges(s)) \/ UNCHANGED vars
  BY <1>9 DEF ServerChanges, vars
<1> QED
  BY <1>1, <1>2, <1>3, <1>5, <1>6, <1>7, <1>8, <1>9 DEF Next

(* However stops, switches, timers and late answers interleave, the        *)
(* current session has one chain of polls, and no timer is left that       *)
(* stop() could not clear (NoForkedChains).                                *)
THEOREM OneChain == Spec => []NoForkedChains
<1>1. Init => IInv
  BY DEF Init, IInv, SessionOrder, NoForkedChains, TargetsActive, Alive, GenerationOfActiveServer
<1> QED
  BY <1>1, Inductive, TypeCorrect, PTL DEF Spec, IInv

(* The generation the watcher compares with is never one of a server it    *)
(* has been switched away from (GenerationOfActiveServer).                 *)
THEOREM StaleAnswersDiscarded == Spec => []GenerationOfActiveServer
<1>1. Init => IInv
  BY DEF Init, IInv, SessionOrder, NoForkedChains, TargetsActive, Alive, GenerationOfActiveServer
<1> QED
  BY <1>1, Inductive, TypeCorrect, PTL DEF Spec, IInv

(* A running watcher has a poll in flight or on its timer, unless one of   *)
(* its session has timed out (RunningPolls): no error, late answer or      *)
(* abort of an earlier session stops it.                                   *)
THEOREM KeepsPolling == Spec => []RunningPolls
<1>1. Init => RunningPolls
  BY DEF Init, RunningPolls
<1>2. TypeOK /\ RunningPolls /\ [Next]_vars => RunningPolls'
  <2> SUFFICES ASSUME TypeOK, RunningPolls, [Next]_vars PROVE RunningPolls'
    OBVIOUS
  <2> USE DEF RunningPolls, Polling, TypeOK, watcher, requests
  <2>1. CASE Stop
    BY <2>1 DEF Stop
  <2>2. ASSUME NEW c \in Chains, Start(c) PROVE RunningPolls'
    BY <2>2 DEF Start, Sends
  <2>3. ASSUME NEW c \in Chains, Fires(c) PROVE RunningPolls'
    BY <2>3 DEF Fires, Sends
  <2>4. ASSUME NEW c \in Chains, Answered(c) \/ Failed(c) PROVE RunningPolls'
    BY <2>4 DEF Answered, Failed, Ends, Current
  <2>5. ASSUME NEW c \in Chains, Aborted(c) PROVE RunningPolls'
    BY <2>5 DEF Aborted, Ends, Current
  <2>6. ASSUME NEW c \in Chains, ServerAnswers(c) PROVE RunningPolls'
    BY <2>6 DEF ServerAnswers
  <2>7. ASSUME NEW c \in Chains, NEW s \in Servers, Switch(s, c) PROVE RunningPolls'
    BY <2>7 DEF Switch, Sends
  <2>8. CASE (\E s \in Servers : ServerChanges(s)) \/ UNCHANGED vars
    BY <2>8 DEF ServerChanges, vars
  <2> QED
    BY <2>1, <2>2, <2>3, <2>4, <2>5, <2>6, <2>7, <2>8 DEF Next
<1> QED
  BY <1>1, <1>2, TypeCorrect, PTL DEF Spec
=============================================================================
