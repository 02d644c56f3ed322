--------------------------- MODULE CircuitBreaker ---------------------------
(* One circuit breaker of the extension, which guards the requests of an   *)
(* endpoint group (CircuitBreaker), and the requests of that group         *)
(* (fetchWithTimeout).                                                     *)
(*                                                                         *)
(* A group mixes requests of many callers: polls that are retried for      *)
(* ever, long polls, requests a caller may abort, and the health probes of *)
(* discovery, which pass the breaker whatever its state but do record      *)
(* their outcomes.  Groups are found by the path of the URL alone, so      *)
(* probes of ports where nobody listens share the group of the server.     *)
(*                                                                         *)
(* Time is counted in ticks.  The counter of failures and the time since   *)
(* the last one are only ever compared with their thresholds, and stop     *)
(* there.                                                                  *)
EXTENDS Integers, FiniteSets

CONSTANTS
    Requests,          \* the callers' slots, each with one request at a time
    Bypassing,         \* those with bypassCircuitBreaker set
    Dead,              \* those to a port nobody listens on
    Abortable,         \* those whose caller passes a signal
    Timeout,           \* ticks after which a request has settled
    Cooldown,          \* COOLDOWN_MS, in ticks
    FailureThreshold   \* FAILURE_THRESHOLD

Gated == Requests \ Bypassing

ASSUME GroupAssumption ==
    /\ Bypassing \subseteq Requests
    /\ Dead \subseteq Bypassing
    /\ Abortable \subseteq Gated
ASSUME TimesAssumption ==
    /\ Timeout \in [Requests -> Nat \ {0}]
    /\ Cooldown \in Nat \ {0}
    /\ FailureThreshold \in Nat \ {0}

VARIABLES
    state,          \* _state
    failures,       \* _consecutiveFailures
    sinceFailure,   \* ticks since _lastFailureTime
    probing,        \* _halfOpenProbeInFlight
    inFlight,       \* the requests that wait for their response
    age,            \* ticks since a request was sent
    aborted,        \* the requests whose caller has aborted
    server,         \* does the server respond?
    role,           \* history: what the breaker admitted a request as
    lost            \* history: has the probe ended without a word?

breaker == <<state, failures, sinceFailure, probing>>
vars == <<breaker, inFlight, age, aborted, server, role, lost>>

\* A request is late when the breaker has opened since it was admitted.
Roles == {"ordinary", "probe", "late"}

TypeOK ==
    /\ state \in {"closed", "open", "half-open"}
    /\ failures \in 0..FailureThreshold
    /\ sinceFailure \in 0..Cooldown
    /\ probing \in BOOLEAN
    /\ inFlight \subseteq Requests
    /\ age \in [Requests -> Nat]
    /\ \A r \in Requests : age[r] <= Timeout[r]
    /\ aborted \subseteq inFlight \cap Abortable
    /\ server \in {"up", "down"}
    /\ role \in [Requests -> Roles]
    /\ lost \in BOOLEAN

Init ==
    /\ state = "closed"
    /\ failures = 0
    /\ sinceFailure = Cooldown
    /\ probing = FALSE
    /\ inFlight = {}
    /\ age = [r \in Requests |-> 0]
    /\ aborted = {}
    /\ server \in {"up", "down"}
    /\ role = [r \in Requests |-> "ordinary"]
    /\ lost = FALSE

UpTo(bound, n) == IF n > bound THEN bound ELSE n

----------------------------------------------------------------------------
(* The breaker.                                                            *)

\* Faulty variant: the flag is not looked at.
MayAttemptUnguarded(r) == state = "open" => sinceFailure = Cooldown

MayAttempt(r) ==
    /\ state = "open" => sinceFailure = Cooldown
    /\ state = "half-open" => ~probing

\* Faulty variant: an open breaker lets a request through but stays open.
AttemptStaysOpen ==
    /\ probing' = (state = "half-open")
    /\ UNCHANGED <<state, failures, sinceFailure>>

\* The transition of mayAttempt() when it returns true.
Attempt ==
    /\ state' = IF state = "open" THEN "half-open" ELSE state
    /\ probing' = (state # "closed")
    /\ UNCHANGED <<failures, sinceFailure>>

\* Faulty variants: the flag survives a success; a success closes from any
\* state.
RecordSuccessKeepsFlag(r) ==
    /\ state' = IF state = "half-open" THEN "closed" ELSE state
    /\ failures' = 0
    /\ UNCHANGED <<sinceFailure, probing>>
RecordSuccessCloses(r) ==
    /\ state' = "closed"
    /\ failures' = 0
    /\ probing' = FALSE
    /\ UNCHANGED sinceFailure

\* recordSuccess(), called for request r.
RecordSuccess(r) ==
    /\ state' = IF state = "half-open" THEN "closed" ELSE state
    /\ failures' = 0
    /\ probing' = FALSE
    /\ UNCHANGED sinceFailure

\* recordFailure()
RecordFailure ==
    /\ failures' = UpTo(FailureThreshold, failures + 1)
    /\ sinceFailure' = 0
    /\ probing' = FALSE
    /\ state' = IF state = "closed" /\ failures' < FailureThreshold THEN "closed" ELSE "open"

----------------------------------------------------------------------------
(* The requests.                                                           *)

\* A caller sends a request past the breaker.  A request that may not be
\* attempted throws CircuitBreakerOpenError and changes nothing.
Send(r) ==
    /\ r \notin inFlight
    /\ \/ r \in Bypassing /\ UNCHANGED breaker
       \/ r \in Gated /\ MayAttempt(r) /\ Attempt
    /\ inFlight' = inFlight \cup {r}
    /\ age' = [age EXCEPT ![r] = 0]
    /\ role' = [role EXCEPT ![r] =
                   IF r \in Gated /\ state # "closed" THEN "probe" ELSE "ordinary"]
    /\ UNCHANGED <<aborted, server, lost>>

\* The caller aborts its request, which will settle with an AbortError, or
\* goes on where abort() is silently ignored.
Abort(r) ==
    /\ r \in (inFlight \cap Abortable) \ aborted
    /\ aborted' = aborted \cup {r}
    /\ UNCHANGED <<breaker, inFlight, age, server, role, lost>>

Settles(r) ==
    /\ r \in inFlight
    /\ inFlight' = inFlight \ {r}
    /\ aborted' = aborted \ {r}
    /\ age' = [age EXCEPT ![r] = 0]
    /\ UNCHANGED server

\* A response arrives.  Whatever its HTTP status, 500 included, it counts
\* as a success.
Responds(r) ==
    /\ server # "down" /\ r \notin Dead
    /\ Settles(r)
    /\ RecordSuccess(r)
    /\ lost' = (lost /\ state' = "half-open")
    /\ UNCHANGED role

\* The connection fails or the request times out: a failure, unless the
\* caller has aborted.  When the breaker opens, what is in flight is late.
Fails(r) ==
    /\ server = "down" \/ r \in Dead
    /\ r \notin aborted
    /\ Settles(r)
    /\ RecordFailure
    /\ role' = IF state # "open" /\ state' = "open"
               THEN [q \in Requests |-> IF q \in inFlight THEN "late" ELSE role[q]]
               ELSE role
    /\ lost' = (lost /\ state' = "half-open")

\* An aborted request rejects; the breaker is told nothing.
Rejects(r) ==
    /\ r \in aborted
    /\ Settles(r)
    /\ lost' = (lost \/ (state = "half-open" /\ role[r] = "probe"))
    /\ UNCHANGED <<breaker, role>>

\* The timers of a request have not both expired.
InTime(r) == r \in inFlight => age[r] < Timeout[r]

Tick ==
    /\ \A r \in Requests : InTime(r)
    /\ age' = [r \in Requests |-> IF r \in inFlight THEN age[r] + 1 ELSE age[r]]
    /\ sinceFailure' = UpTo(Cooldown, sinceFailure + 1)
    /\ UNCHANGED <<state, failures, probing, inFlight, aborted, server, role, lost>>

\* The server starts, stops or hangs.
ServerChanges ==
    /\ server' \in {"up", "down"} \ {server}
    /\ UNCHANGED <<breaker, inFlight, age, aborted, role, lost>>

\* The user retries discovery: resetAll().
Reset ==
    /\ state' = "closed"
    /\ failures' = 0
    /\ sinceFailure' = Cooldown
    /\ probing' = FALSE
    /\ lost' = FALSE
    /\ UNCHANGED <<inFlight, age, aborted, server, role>>

Settle(r) == Responds(r) \/ Fails(r) \/ Rejects(r)

Next ==
    \/ \E r \in Requests : Send(r) \/ Abort(r) \/ Settle(r)
    \/ Tick \/ ServerChanges \/ Reset

Spec == Init /\ [][Next]_vars

\* Time passes, a request settles (its two timers see to that), and callers
\* retry.  The server need not change and nobody need abort or reset.
FairSpec ==
    /\ Spec
    /\ WF_vars(Tick)
    /\ \A r \in Requests : WF_vars(Send(r)) /\ WF_vars(Settle(r))

----------------------------------------------------------------------------
(* Properties.                                                             *)

\* The in-flight flag says exactly that the breaker is half-open: no path
\* through the callbacks of overlapping requests separates the two.
ProbeGate == probing <=> state = "half-open"

\* A half-open breaker has let exactly one of its gated requests through:
\* no earlier request, and no probe of an earlier cooldown, is still in
\* flight beside it.  Once a caller has aborted the probe there is none.
SingleProbe ==
    state = "half-open" =>
        IF lost THEN inFlight \cap Gated = {}
        ELSE \E r \in inFlight : role[r] = "probe" /\ inFlight \cap Gated = {r}

\* A success that arrives after the breaker has opened on newer evidence
\* does not close it.
LateSuccessIgnored ==
    [][\A r \in Requests :
          Responds(r) /\ role[r] = "late" /\ state # "closed" => state' # "closed"]_vars

\* Once the server responds for good, the breaker closes for good, unless
\* the probe has been aborted.
Recovers == <>[](server = "up" /\ ~lost) => <>[](state = "closed")
=============================================================================
