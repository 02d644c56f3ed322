------------------------ MODULE CircuitBreakerProofs ------------------------
(* Theorems about the circuit breaker: for any number of requests and any  *)
(* thresholds.                                                             *)
EXTENDS CircuitBreaker, TLAPS

(* The breaker and its requests keep their types; in particular no request *)
(* outlives its timers (fetchWithTimeout's two layers).                    *)
THEOREM TypeCorrect == Spec => []TypeOK
<1>1. /\ \A r \in Requests : Timeout[r] \in Nat /\ 0 <= Timeout[r]
      /\ Cooldown \in Nat /\ FailureThreshold \in Nat
      /\ Gated \subseteq Requests /\ Bypassing \subseteq Requests
  BY GroupAssumption, TimesAssumption DEF Gated
<1> USE <1>1 DEF TypeOK, Roles
<1>2. Init => TypeOK
  <2> SUFFICES ASSUME Init PROVE TypeOK
    OBVIOUS
  <2>1. failures \in 0..FailureThreshold /\ sinceFailure \in 0..Cooldown
    BY DEF Init
  <2>2. age \in [Requests -> Nat] /\ \A r \in Requests : age[r] <= Timeout[r]
    BY DEF Init
  <2> QED
    BY <2>1, <2>2 DEF Init
<1>3. TypeOK /\ [Next]_vars => TypeOK'
  <2> SUFFICES ASSUME TypeOK, [Next]_vars PROVE TypeOK'
    OBVIOUS
  <2>1. ASSUME NEW r \in Requests, Send(r) PROVE TypeOK'
    BY <2>1 DEF Send, Attempt, breaker
  <2>2. ASSUME NEW r \in Requests, Abort(r) PROVE TypeOK'
    BY <2>2 DEF Abort, breaker
  <2>3. ASSUME NEW r \in Requests, Responds(r) PROVE TypeOK'
    <3>1. failures' \in 0..FailureThreshold /\ lost' \in BOOLEAN
      BY <2>3 DEF Responds, RecordSuccess, UpTo
    <3>2. age' \in [Requests -> Nat] /\ \A q \in Requests : age'[q] <= Timeout[q]
      BY <2>3 DEF Responds, Settles
    <3> QED
      BY <2>3, <3>1, <3>2 DEF Responds, Settles, RecordSuccess
  <2>4. ASSUME NEW r \in Requests, Fails(r) PROVE TypeOK'
    <3>1. role' \in [Requests -> Roles]
      BY <2>4 DEF Fails
    <3>2. failures' \in 0..FailureThreshold /\ lost' \in BOOLEAN
      BY <2>4 DEF Fails, RecordFailure, UpTo
    <3>3. age' \in [Requests -> Nat] /\ \A q \in Requests : age'[q] <= Timeout[q]
      BY <2>4 DEF Fails, Settles
    <3>4. sinceFailure' \in 0..Cooldown
      BY <2>4 DEF Fails, RecordFailure
    <3>5. state' \in {"closed", "open", "half-open"} /\ probing' \in BOOLEAN
      BY <2>4 DEF Fails, RecordFailure
    <3>6. inFlight' \subseteq Requests /\ aborted' \subseteq inFlight' \cap Abortable
          /\ server' \in {"up", "down"}
      BY <2>4 DEF Fails, Settles
    <3> QED
      BY <3>1, <3>2, <3>3, <3>4, <3>5, <3>6
  <2>5. ASSUME NEW r \in Requests, Rejects(r) PROVE TypeOK'
    <3>1. lost' \in BOOLEAN
      BY <2>5 DEF Rejects
    <3> QED
      BY <2>5, <3>1 DEF Rejects, Settles, breaker
  <2>6. CASE Tick
    BY <2>6 DEF Tick, InTime, UpTo
  <2>7. CASE ServerChanges
    BY <2>7 DEF ServerChanges, breaker
  <2>8. CASE Reset
    <3>1. failures' \in 0..FailureThreshold /\ sinceFailure' \in 0..Cooldown
      BY <2>8 DEF Reset
    <3>2. lost' \in BOOLEAN /\ probing' \in BOOLEAN
      BY <2>8 DEF Reset
    <3> QED
      BY <2>8, <3>1, <3>2 DEF Reset
  <2>9. CASE UNCHANGED vars
    BY <2>9 DEF vars, breaker
  <2> QED
    BY <2>1, <2>2, <2>3, <2>4, <2>5, <2>6, <2>7, <2>8, <2>9 DEF Next, Settle
<1> QED
  BY <1>2, <1>3, PTL DEF Spec

(* The in-flight flag of the breaker and its half-open state go together,  *)
(* whatever overlapping requests report (ProbeGate).                       *)
THEOREM GateHolds == Spec => []ProbeGate
<1>1. Init => ProbeGate
  BY DEF Init, ProbeGate
<1>2. TypeOK /\ ProbeGate /\ [Next]_vars => ProbeGate'
  <2> SUFFICES ASSUME TypeOK, ProbeGate, [Next]_vars PROVE ProbeGate'
    OBVIOUS
  <2> USE DEF ProbeGate, TypeOK
  <2>1. ASSUME NEW r \in Requests, Send(r) PROVE ProbeGate'
    BY <2>1 DEF Send, Attempt, MayAttempt, breaker
  <2>2. ASSUME NEW r \in Requests, Abort(r) PROVE ProbeGate'
    BY <2>2 DEF Abort, breaker
  <2>3. ASSUME NEW r \in Requests, Settle(r) PROVE ProbeGate'
    BY <2>3 DEF Settle, Responds, Fails, Rejects, RecordSuccess, RecordFailure, breaker
  <2>4. CASE Tick \/ ServerChanges \/ Reset \/ UNCHANGED vars
    BY <2>4 DEF Tick, ServerChanges, Reset, vars, breaker
  <2> QED
    BY <2>1, <2>2, <2>3, <2>4 DEF Next
<1> QED
  BY <1>1, <1>2, TypeCorrect, PTL DEF Spec

-----------------------------------------------------------------------------
(* What requests that settle within a cooldown guarantee.                  *)

Timely == \A r \in Requests : Timeout[r] < Cooldown

\* The requests in flight that were sent before the breaker last opened are
\* at least as old as the last failure, and gone when the cooldown is over.
OpenDrains ==
    /\ state = "open" =>
          /\ \A r \in inFlight \cap Gated : role[r] = "late"
          /\ \A r \in inFlight : role[r] = "late" => age[r] >= sinceFailure
    /\ state = "half-open" => \A r \in inFlight : role[r] # "late"

LEMMA Draining == Timely /\ Spec => []OpenDrains
<1> SUFFICES ASSUME Timely PROVE Spec => []OpenDrains
  OBVIOUS
<1>1. Init => OpenDrains
  BY DEF Init, OpenDrains
<1>2. TypeOK /\ OpenDrains /\ [Next]_vars => OpenDrains'
  <2> SUFFICES ASSUME TypeOK, OpenDrains, [Next]_vars PROVE OpenDrains'
    OBVIOUS
  <2> USE GroupAssumption, TimesAssumption DEF TypeOK, OpenDrains, Gated, Roles
  <2>1. ASSUME NEW r \in Requests, Send(r) PROVE OpenDrains'
    <3>1. CASE r \in Bypassing
      BY <2>1, <3>1 DEF Send, breaker
    <3>2. CASE r \in Gated
      <4>1. state # "closed" => \A q \in inFlight : role[q] # "late"
        <5> SUFFICES ASSUME state = "open", NEW q \in inFlight, role[q] = "late" PROVE FALSE
          OBVIOUS
        <5>1. sinceFailure = Cooldown
          BY <2>1, <3>2 DEF Send, MayAttempt
        <5>2. age[q] >= sinceFailure /\ age[q] <= Timeout[q] /\ Timeout[q] < Cooldown
          BY DEF Timely
        <5> QED
          BY <5>1, <5>2
      <4> QED
        BY <2>1, <3>2, <4>1 DEF Send, Attempt
    <3> QED
      BY <3>1, <3>2
  <2>2. ASSUME NEW r \in Requests, Abort(r) PROVE OpenDrains'
    BY <2>2 DEF Abort, breaker
  <2>3. ASSUME NEW r \in Requests, Responds(r) PROVE OpenDrains'
    BY <2>3 DEF Responds, Settles, RecordSuccess
  <2>4. ASSUME NEW r \in Requests, Fails(r) PROVE OpenDrains'
    <3>1. state' # "half-open" /\ sinceFailure' = 0
      BY <2>4 DEF Fails, RecordFailure
    <3>2. inFlight' \subseteq inFlight /\ age' \in [Requests -> Nat]
      BY <2>4 DEF Fails, Settles
    <3>3. state' = "open" => \A q \in inFlight' \cap Gated : role'[q] = "late"
      BY <2>4, <3>2 DEF Fails
    <3> QED
      BY <3>1, <3>2, <3>3
  <2>5. ASSUME NEW r \in Requests, Rejects(r) PROVE OpenDrains'
    BY <2>5 DEF Rejects, Settles, breaker
  <2>6. CASE Tick
    BY <2>6 DEF Tick, UpTo
  <2>7. CASE ServerChanges \/ Reset \/ UNCHANGED vars
    BY <2>7 DEF ServerChanges, Reset, vars, breaker
  <2> QED
    BY <2>1, <2>2, <2>3, <2>4, <2>5, <2>6, <2>7 DEF Next, Settle
<1> QED
  BY <1>1, <1>2, TypeCorrect, PTL DEF Spec

(* Where every request settles within a cooldown, a success that is late   *)
(* never closes the breaker (LateSuccessIgnored): recordSuccess() need not *)
(* know whose success it records.                                          *)
THEOREM LateIsIgnored == Timely /\ Spec => LateSuccessIgnored
<1> SUFFICES ASSUME Timely PROVE Spec => LateSuccessIgnored
  OBVIOUS
<1>1. OpenDrains /\ [Next]_vars =>
        [\A r \in Requests :
            Responds(r) /\ role[r] = "late" /\ state # "closed" => state' # "closed"]_vars
  BY DEF OpenDrains, Responds, Settles, RecordSuccess
<1> QED
  BY <1>1, Draining, PTL DEF Spec, LateSuccessIgnored

\* A probe is missed only while the breaker is half-open.
LostInHalfOpen == lost => state = "half-open"

LEMMA LosesProbe == Spec => []LostInHalfOpen
<1>1. Init => LostInHalfOpen
  BY DEF Init, LostInHalfOpen
<1>2. TypeOK /\ LostInHalfOpen /\ [Next]_vars => LostInHalfOpen'
  <2> SUFFICES ASSUME TypeOK, LostInHalfOpen, [Next]_vars PROVE LostInHalfOpen'
    OBVIOUS
  <2> USE DEF LostInHalfOpen, TypeOK
  <2>1. ASSUME NEW r \in Requests, Send(r) PROVE LostInHalfOpen'
    BY <2>1 DEF Send, Attempt, breaker
  <2>2. ASSUME NEW r \in Requests, Abort(r) \/ Rejects(r) PROVE LostInHalfOpen'
    BY <2>2 DEF Abort, Rejects, breaker
  <2>3. ASSUME NEW r \in Requests, Responds(r) \/ Fails(r) PROVE LostInHalfOpen'
    BY <2>3 DEF Responds, Fails
  <2>4. CASE Tick \/ ServerChanges \/ Reset \/ UNCHANGED vars
    BY <2>4 DEF Tick, ServerChanges, Reset, vars, breaker
  <2> QED
    BY <2>1, <2>2, <2>3, <2>4 DEF Next, Settle
<1> QED
  BY <1>1, <1>2, TypeCorrect, PTL DEF Spec

(* And there a half-open breaker has exactly one gated request in flight,  *)
(* its probe, or none once a caller has aborted it (SingleProbe).          *)
THEOREM ProbeIsAlone == Timely /\ Spec => []SingleProbe
<1> SUFFICES ASSUME Timely PROVE Spec => []SingleProbe
  OBVIOUS
<1>1. Init => SingleProbe
  BY DEF Init, SingleProbe
<1>2. TypeOK /\ ProbeGate /\ OpenDrains /\ OpenDrains' /\ LostInHalfOpen /\ SingleProbe /\ [Next]_vars
        => SingleProbe'
  <2> SUFFICES ASSUME TypeOK, ProbeGate, OpenDrains, OpenDrains', LostInHalfOpen, SingleProbe, [Next]_vars
               PROVE SingleProbe'
    OBVIOUS
  <2> USE GroupAssumption, TimesAssumption DEF TypeOK, SingleProbe, Gated, Roles
  <2>1. ASSUME NEW r \in Requests, Send(r) PROVE SingleProbe'
    <3>1. CASE r \in Bypassing
      BY <2>1, <3>1 DEF Send, breaker
    <3>2. CASE r \in Gated /\ state' = "half-open"
      <4>1. state = "open"
        BY <2>1, <3>2 DEF Send, MayAttempt, Attempt, ProbeGate
      <4>2. inFlight \cap Gated = {}
        BY <2>1, <3>2, <4>1 DEF OpenDrains, Send
      <4>3. role'[r] = "probe" /\ inFlight' \cap Gated = {r} /\ ~lost'
        <5>1. ~lost'
          BY <2>1, <4>1 DEF Send, LostInHalfOpen
        <5>2. role'[r] = "probe" /\ inFlight' \cap Gated = {r}
          BY <2>1, <3>2, <4>1, <4>2 DEF Send
        <5> QED
          BY <5>1, <5>2
      <4> QED
        BY <4>3
    <3>3. CASE state' # "half-open"
      BY <3>3
    <3> QED
      BY <3>1, <3>2, <3>3
  <2>2. ASSUME NEW r \in Requests, Abort(r) PROVE SingleProbe'
    BY <2>2 DEF Abort, breaker
  <2>3. ASSUME NEW r \in Requests, Rejects(r) PROVE SingleProbe'
    <3> SUFFICES ASSUME state = "half-open" PROVE inFlight' \cap Gated = {} /\ lost'
      BY <2>3 DEF Rejects, breaker
    <3>1. r \in inFlight \cap Gated
      BY <2>3 DEF Rejects
    <3>2. role[r] = "probe" /\ inFlight \cap Gated = {r}
      BY <3>1
    <3> QED
      BY <2>3, <3>2 DEF Rejects, Settles
  <2>4. ASSUME NEW r \in Requests, Responds(r) \/ Fails(r) PROVE SingleProbe'
    BY <2>4 DEF Responds, Fails, RecordSuccess, RecordFailure
  <2>5. CASE Tick \/ ServerChanges \/ Reset \/ UNCHANGED vars
    BY <2>5 DEF Tick, ServerChanges, Reset, vars, breaker
  <2> QED
    BY <2>1, <2>2, <2>3, <2>4, <2>5 DEF Next, Settle
<1> QED
  BY <1>1, <1>2, TypeCorrect, GateHolds, Draining, LosesProbe, PTL DEF Spec
=============================================================================
