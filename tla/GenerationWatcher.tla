-------------------------- MODULE GenerationWatcher --------------------------
(* The extension's poller of /api/generation (GenerationWatcher), with the *)
(* server switches that restart it (wireEventHandlers) and the ways its    *)
(* requests end (httpGeneration, fetchWithTimeout).                        *)
(*                                                                         *)
(* A chain is a sequence of polls: a request in flight, then a timer for   *)
(* the next.  JavaScript runs a continuation to its end, so what _poll()   *)
(* does after its await is one step.  Delays and their backoff, and with   *)
(* them the count of errors, are abstracted: a timer fires at any time.    *)
(* The server's side of the long poll is ChangeDetection's: here it may    *)
(* answer at any time with its generation of that moment.                  *)
EXTENDS Integers, FiniteSets

CONSTANTS
    Servers,         \* the endpoints discovery finds
    Chains,          \* bound: the polls alive at a time
    MaxGeneration,   \* bound of a server's generation
    MaxPollId,       \* bound of the number of stops
    None             \* undefined

ASSUME NoneAssumption == None \notin Chains \cup Servers \cup Nat
ASSUME BoundsAssumption == MaxGeneration \in Nat /\ MaxPollId \in Nat

VARIABLES
    running,            \* _running
    disposed,           \* _disposed
    pollId,             \* _pollId
    generation,         \* _generation
    controller,         \* _abortController: of the chain that stop() aborts
    pollTimeout,        \* _pollTimeout: of the chain that stop() cancels
    phase,              \* of a chain
    id,                 \* the session a chain captured
    target,             \* the server a chain's request went to
    reply,              \* the answer under way to a chain's request
    signalled,          \* the chains whose request has been aborted
    client,             \* the server the client is configured for
    serverGeneration,   \* the generation of each server
    origin,             \* history: the server generation was read from
    lapsed              \* history: has a poll of this session timed out?

watcher == <<running, disposed, pollId, generation, controller, pollTimeout, origin, lapsed>>
requests == <<phase, id, target, reply, signalled>>
vars == <<watcher, requests, client, serverGeneration>>

TypeOK ==
    /\ running \in BOOLEAN /\ disposed \in BOOLEAN
    /\ pollId \in Nat
    /\ generation \in Nat
    /\ controller \in {None} \cup Chains
    /\ pollTimeout \in {None} \cup Chains
    /\ phase \in [Chains -> {"free", "inFlight", "scheduled"}]
    /\ id \in [Chains -> Nat]
    /\ target \in [Chains -> Servers]
    /\ reply \in [Chains -> {None} \cup Nat]
    /\ signalled \subseteq Chains
    /\ client \in Servers
    /\ serverGeneration \in [Servers -> Nat]
    /\ origin \in {None} \cup Servers
    /\ lapsed \in BOOLEAN
    /\ disposed => ~running

Init ==
    /\ running = FALSE /\ disposed = FALSE
    /\ pollId = 0
    /\ generation = 0
    /\ controller = None
    /\ pollTimeout = None
    /\ phase = [c \in Chains |-> "free"]
    /\ id = [c \in Chains |-> 0]
    /\ client \in Servers
    /\ target = [c \in Chains |-> client]
    /\ reply = [c \in Chains |-> None]
    /\ signalled = {}
    /\ serverGeneration = [s \in Servers |-> 0]
    /\ origin = None
    /\ lapsed = FALSE

----------------------------------------------------------------------------
(* The watcher.                                                            *)

\* The chain whose timer stop() clears: its timer may have fired already.
Cleared == {c \in Chains : c = pollTimeout /\ phase[c] = "scheduled"}

\* _poll() up to its await: chain c, of session n, sends a request to s.
Sends(c, n, s) ==
    /\ id' = [id EXCEPT ![c] = n]
    /\ target' = [target EXCEPT ![c] = s]
    /\ reply' = [reply EXCEPT ![c] = None]
    /\ controller' = c

\* start() of a watcher that is stopped.
Start(c) ==
    /\ ~running /\ ~disposed /\ phase[c] = "free"
    /\ running' = TRUE /\ lapsed' = FALSE
    /\ Sends(c, pollId, client)
    /\ phase' = [phase EXCEPT ![c] = "inFlight"]
    /\ signalled' = signalled \ {c}
    /\ UNCHANGED <<disposed, pollId, generation, pollTimeout, client, serverGeneration, origin>>

\* Faulty variant: the session stays current.
NextPollIdSame == pollId

NextPollId == pollId + 1

\* What stop() does to the watcher and its request, but for the controller.
Stops ==
    /\ pollId < MaxPollId
    /\ pollId' = NextPollId
    /\ pollTimeout' = None

\* stop(), because the extension is disabled or as the end of dispose().
Stop ==
    /\ Stops
    /\ running' = FALSE
    /\ disposed' \in {disposed, TRUE}
    /\ signalled' = signalled \cup ({controller} \ {None})
    /\ controller' = None
    /\ phase' = [c \in Chains |-> IF c \in Cleared THEN "free" ELSE phase[c]]
    /\ UNCHANGED <<generation, id, target, reply, client, serverGeneration, origin, lapsed>>

\* Faulty variant: the generation of the previous server is kept.
SwitchNoReset(s, c) ==
    /\ ~disposed
    /\ phase[c] = "free" \/ c \in Cleared
    /\ client' = s
    /\ Stops
    /\ running' = TRUE /\ lapsed' = FALSE
    /\ Sends(c, pollId', s)
    /\ signalled' = (signalled \cup ({controller} \ {None})) \ {c}
    /\ phase' = [d \in Chains |-> IF d = c THEN "inFlight"
                                  ELSE IF d \in Cleared THEN "free" ELSE phase[d]]
    /\ UNCHANGED <<disposed, serverGeneration, generation, origin>>

\* ServerManager makes s the active server: the client is reconfigured, and
\* its listener calls stop(), reset() and start().
Switch(s, c) ==
    /\ ~disposed
    /\ phase[c] = "free" \/ c \in Cleared
    /\ client' = s
    /\ Stops
    /\ running' = TRUE /\ lapsed' = FALSE
    /\ generation' = 0 /\ origin' = None
    /\ Sends(c, pollId', s)
    /\ signalled' = (signalled \cup ({controller} \ {None})) \ {c}
    /\ phase' = [d \in Chains |-> IF d = c THEN "inFlight"
                                  ELSE IF d \in Cleared THEN "free" ELSE phase[d]]
    /\ UNCHANGED <<disposed, serverGeneration>>

\* The timer of chain c fires, and _poll() sends the next request.
Fires(c) ==
    /\ phase[c] = "scheduled"
    /\ IF running /\ id[c] = pollId
       THEN /\ Sends(c, id[c], client)
            /\ phase' = [phase EXCEPT ![c] = "inFlight"]
            /\ signalled' = signalled \ {c}
       ELSE /\ phase' = [phase EXCEPT ![c] = "free"]
            /\ UNCHANGED <<id, target, reply, controller, signalled>>
    /\ UNCHANGED <<running, disposed, pollId, generation, pollTimeout, client, serverGeneration, origin, lapsed>>

\* Faulty variant: a superseded chain goes on.
CurrentUnchecked(c) == running

\* The check after the await, and before the next poll is scheduled.
Current(c) == running /\ id[c] = pollId

\* The request of chain c has ended: the controller, whoever's it is now,
\* is forgotten, and a current chain that goes on sets its timer.
Ends(c, goesOn) ==
    /\ controller' = None
    /\ phase' = [phase EXCEPT ![c] = IF goesOn THEN "scheduled" ELSE "free"]
    /\ pollTimeout' = IF goesOn THEN c ELSE pollTimeout
    /\ reply' = [reply EXCEPT ![c] = None]
    /\ signalled' = signalled \ {c}
    /\ UNCHANGED <<running, disposed, pollId, id, target, client, serverGeneration>>

\* Faulty variant: a smaller generation is taken for a stale answer.
AnsweredIfGreater(c) ==
    /\ phase[c] = "inFlight" /\ reply[c] # None
    /\ Ends(c, Current(c))
    /\ generation' = IF Current(c) /\ reply[c] > generation THEN reply[c] ELSE generation
    /\ origin' = IF Current(c) THEN target[c] ELSE origin
    /\ UNCHANGED lapsed

\* The answer arrives; a current chain takes it and tells the listeners.
Answered(c) ==
    /\ phase[c] = "inFlight" /\ reply[c] # None
    /\ Ends(c, Current(c))
    /\ generation' = IF Current(c) THEN reply[c] ELSE generation
    /\ origin' = IF Current(c) THEN target[c] ELSE origin
    /\ UNCHANGED lapsed

\* Faulty variant: an error ends the chain.
FailedEnds(c) ==
    /\ phase[c] = "inFlight"
    /\ Ends(c, FALSE)
    /\ UNCHANGED <<generation, origin, lapsed>>

\* The request throws an error: no connection, a bad status, the breaker, or
\* the safety timer where abort() is ignored.  A current chain backs off.
Failed(c) ==
    /\ phase[c] = "inFlight"
    /\ Ends(c, Current(c))
    /\ UNCHANGED <<generation, origin, lapsed>>

\* The request throws an AbortError, because stop() aborted it or because
\* fetchWithTimeout's own timer did; the chain ends.
Aborted(c) ==
    /\ phase[c] = "inFlight"
    /\ Ends(c, FALSE)
    /\ lapsed' = (lapsed \/ Current(c))
    /\ UNCHANGED <<generation, origin>>

----------------------------------------------------------------------------
(* The servers.                                                            *)

\* The server of chain c's request answers with its generation.
ServerAnswers(c) ==
    /\ phase[c] = "inFlight" /\ reply[c] = None
    /\ reply' = [reply EXCEPT ![c] = serverGeneration[target[c]]]
    /\ UNCHANGED <<watcher, phase, id, target, signalled, client, serverGeneration>>

\* A server's data changes, or its application restarts.
ServerChanges(s) ==
    /\ \/ serverGeneration[s] < MaxGeneration
          /\ serverGeneration' = [serverGeneration EXCEPT ![s] = @ + 1]
       \/ serverGeneration' = [serverGeneration EXCEPT ![s] = 0]
    /\ UNCHANGED <<watcher, requests, client>>

Next ==
    \/ Stop
    \/ \E c \in Chains :
          \/ Start(c) \/ Fires(c) \/ Answered(c) \/ Failed(c) \/ Aborted(c) \/ ServerAnswers(c)
          \/ \E s \in Servers : Switch(s, c)
    \/ \E s \in Servers : ServerChanges(s)

Spec == Init /\ [][Next]_vars

\* Timers fire, requests end (fetchWithTimeout's timers see to that), and a
\* server that is asked again and again answers and is heard.
FairSpec ==
    /\ Spec
    /\ \A c \in Chains :
          /\ WF_vars(Fires(c)) /\ WF_vars(Failed(c))
          /\ SF_vars(ServerAnswers(c)) /\ SF_vars(Answered(c))

----------------------------------------------------------------------------
(* Properties.                                                             *)

\* However stops, starts and answers interleave, a session has one chain,
\* and only the chain of a running session has a timer, the one stop() can
\* clear.
NoForkedChains ==
    /\ \A c, d \in Chains :
          /\ phase[c] # "free" /\ id[c] = pollId
          /\ phase[d] # "free" /\ id[d] = pollId
          => c = d
    /\ \A c \in Chains :
          phase[c] = "scheduled" => running /\ id[c] = pollId /\ pollTimeout = c

\* The generation is never that of a server the client has been switched
\* away from, so the next server's changes are never measured against it.
GenerationOfActiveServer == origin \in {None, client} /\ (origin = None => generation = 0)

\* The current session has a poll in flight or on its timer.
Polling == \E c \in Chains : phase[c] # "free" /\ id[c] = pollId

\* A watcher that runs keeps polling, through errors, aborts of earlier
\* sessions and late answers, unless a poll of this session has timed out.
RunningPolls == running => Polling \/ lapsed

\* A watcher that keeps polling a server whose generation has settled
\* reaches that generation and stays there, after missed answers, restarts
\* of the server, and switches.
CatchesUp ==
    \A s \in Servers, g \in 0..MaxGeneration :
        <>[](running /\ Polling /\ client = s /\ serverGeneration[s] = g)
            => <>[](generation = g)
=============================================================================
