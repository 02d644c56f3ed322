-------------------------- MODULE ServerDiscovery --------------------------
(* Discovery of debug servers by the extension (ServerDiscovery): polls    *)
(* that scan every port, the list of servers with their missed polls, the  *)
(* cadence of scans (searching, connected, backoff), and the notices of    *)
(* found and lost servers with the debounce of the latter.                 *)
(*                                                                         *)
(* A poll is a chain: it scans, applies its answer, arms a timer and scans *)
(* again.  stop() and pause() do not cancel a scan that is out, they only  *)
(* make it find out when it returns; several chains may therefore be out.  *)
(* pollId only grows and is only compared with the id a chain began with,  *)
(* so a chain is current until the next stop() and never again.            *)
(*                                                                         *)
(* Times are left out: a timer fires at any time after it was armed, and a *)
(* toast that its port's throttle of one minute holds back counts as       *)
(* shown.  Which ports answer a scan is up to the network.                 *)
EXTENDS Integers, FiniteSets

CONSTANTS
    Ports,              \* the ports scanned
    Polls,              \* slots for chains: how many may be out is bounded
    None,
    MissThreshold,      \* MISS_THRESHOLD
    BackoffThreshold,   \* BACKOFF_THRESHOLD
    BackoffCycles       \* BACKOFF_CYCLES

ASSUME DiscoveryAssumption ==
    /\ None \notin Polls \cup Ports
    /\ MissThreshold \in Nat \ {0}
    /\ BackoffThreshold \in Nat \ {0}
    /\ BackoffCycles \in Nat \ {0}

VARIABLES
    running,        \* _running
    paused,         \* _paused
    state,          \* _state
    emptyScans,     \* _emptyScans
    backoffPolls,   \* _backoffPolls
    servers,        \* the ports of _servers
    missed,         \* missedPolls of each of them
    poll,           \* the chains
    pollTimeout,    \* the chain whose timer _pollTimeout is, or was
    pending,        \* the ports with a lost notice in its grace period
    notified,       \* _notifiedThisSession
    announced,      \* history: ports announced as found since the last re-arm
    dropped         \* history: those whose lost notice a stop has dropped

cadence == <<state, emptyScans, backoffPolls>>
list == <<cadence, servers, missed>>
chains == <<poll, pollTimeout>>
switches == <<running, paused>>
notices == <<pending, notified, announced, dropped>>
discoveryVars == <<switches, list, chains, notices>>

Chain == [at : {"none", "scan", "timer"}, current : BOOLEAN]
NoChain == [at |-> "none", current |-> FALSE]
NewScan == [at |-> "scan", current |-> TRUE]

TypeOK ==
    /\ running \in BOOLEAN /\ paused \in BOOLEAN
    /\ state \in {"searching", "connected", "backoff"}
    /\ emptyScans \in Nat
    /\ backoffPolls \in 0 .. BackoffCycles - 1
    /\ servers \subseteq Ports
    /\ missed \in [Ports -> 0 .. MissThreshold - 1]
    /\ poll \in [Polls -> Chain]
    /\ pollTimeout \in Polls \cup {None}
    /\ pending \subseteq Ports
    /\ notified \in BOOLEAN
    /\ announced \subseteq Ports
    /\ dropped \subseteq Ports

DiscoveryInit ==
    /\ running = FALSE /\ paused = FALSE
    /\ state = "searching" /\ emptyScans = 0 /\ backoffPolls = 0
    /\ servers = {} /\ missed = [p \in Ports |-> 0]
    /\ poll = [c \in Polls |-> NoChain] /\ pollTimeout = None
    /\ pending = {} /\ notified = FALSE
    /\ announced = {} /\ dropped = {}

----------------------------------------------------------------------------
(* What a scan's answer does.                                              *)

\* Has discovery backed off for long enough, this poll included?
Rested == backoffPolls + 1 >= BackoffCycles

\* The cadence after a scan, nextDiscoveryState(), where `left` are the
\* servers on the list and `alive` those that answered.
NextCadence(left, alive) ==
    IF left # {} THEN
        /\ state' = "connected" /\ emptyScans' = 0 /\ backoffPolls' = 0
    ELSE IF alive # {} THEN UNCHANGED cadence
    ELSE IF state # "backoff" THEN
        /\ emptyScans' = emptyScans + 1
        /\ state' = IF emptyScans' >= BackoffThreshold THEN "backoff" ELSE "searching"
        /\ UNCHANGED backoffPolls
    ELSE IF Rested THEN
        /\ state' = "searching" /\ emptyScans' = 0 /\ backoffPolls' = 0
    ELSE
        /\ emptyScans' = emptyScans + 1 /\ backoffPolls' = backoffPolls + 1
        /\ UNCHANGED state

New(alive) == alive \ servers
Lost(alive) == {p \in servers \ alive : missed[p] + 1 >= MissThreshold}

\* Faulty variant: a loss that was announced does not silence the session.
FoundAfterLoss(alive) == New(alive) \ pending

\* The ports a scan announces as found: new ones, unless their loss is still
\* pending or a loss was announced in this session.
Found(alive) == IF notified THEN {} ELSE New(alive) \ pending

\* Faulty variant: a port found again keeps its pending lost notice.
NoticesKeepPending(alive) ==
    /\ announced' = announced \cup Found(alive)
    /\ pending' = IF notified THEN pending ELSE pending \cup Lost(alive)
    /\ UNCHANGED <<notified, dropped>>

\* The toasts of updateServersFromScan(): a lost port gets a pending notice
\* unless a loss was announced, a new one loses its.
Notices(alive) ==
    /\ announced' = announced \cup Found(alive)
    /\ pending' = (pending \ New(alive)) \cup (IF notified THEN {} ELSE Lost(alive))
    /\ UNCHANGED <<notified, dropped>>

\* updateServersFromScan() and its result's assignment in _updateServers().
UpdateServers(alive) ==
    /\ servers' = (servers \cup alive) \ Lost(alive)
    /\ missed' = [p \in Ports |-> IF p \in servers' \ alive THEN missed[p] + 1 ELSE 0]
    /\ NextCadence(servers', alive)
    /\ Notices(alive)

\* Does _updateServers() fire onDidChangeServers?  An action formula.
ListFires == servers' # servers \/ state' # state

----------------------------------------------------------------------------
(* Polls.                                                                  *)

\* The timer of _pollTimeout is cleared.  That of another chain is not.
ClearTimer(p) ==
    IF pollTimeout # None /\ p[pollTimeout].at = "timer"
    THEN [p EXCEPT ![pollTimeout] = NoChain] ELSE p

\* A chain goes on from its timer, or begins: _poll() up to its scan.
BeginScan(c) == poll' = [poll EXCEPT ![c] = NewScan]

\* The guard after the await of scanPorts().
MayApply(c) == running /\ poll[c].current

\* The ports `alive` have answered a scan and its chain goes on.  It applies
\* the answer also while paused, and then ends; otherwise it arms its timer.
ScanReturns(c, alive) ==
    /\ poll[c].at = "scan"
    /\ IF MayApply(c)
       THEN /\ UpdateServers(alive)
            /\ poll' = [poll EXCEPT ![c] = IF paused THEN NoChain ELSE [@ EXCEPT !.at = "timer"]]
            /\ pollTimeout' = IF paused THEN pollTimeout ELSE c
       ELSE /\ poll' = [poll EXCEPT ![c] = NoChain]
            /\ UNCHANGED <<list, notices, pollTimeout>>
    /\ UNCHANGED switches

\* A timer fires and _poll() begins again, if the chain is still current and
\* discovery neither stopped nor paused.
TimerFires(c) ==
    /\ poll[c].at = "timer"
    /\ IF running /\ poll[c].current /\ ~paused
       THEN BeginScan(c)
       ELSE poll' = [poll EXCEPT ![c] = NoChain]
    /\ UNCHANGED <<switches, list, pollTimeout, notices>>

Pause ==
    /\ running /\ ~paused
    /\ paused' = TRUE
    /\ poll' = ClearTimer(poll) /\ pollTimeout' = None
    /\ UNCHANGED <<running, list, notices>>

\* Faulty variant: resume() leaves the next scan to a timer pause() cleared.
ResumeNoScan ==
    /\ running /\ paused
    /\ paused' = FALSE
    /\ UNCHANGED <<running, list, chains, notices>>

\* resume() begins a chain whether or not the one before it is still out.
Resume ==
    /\ running /\ paused
    /\ paused' = FALSE
    /\ \E c \in Polls : poll[c].at = "none" /\ BeginScan(c)
    /\ UNCHANGED <<running, list, pollTimeout, notices>>

\* The chains after stop(): all retired, one timer cleared.
Retired == [c \in Polls |-> [ClearTimer(poll)[c] EXCEPT !.current = FALSE]]

\* What stop() drops without a word.
Unspoken == dropped \cup (pending \cap announced)

\* Re-arming the notices of a session: ServerLostDebouncer.reset().
ReArm == notified' = FALSE /\ announced' = {} /\ dropped' = {}

\* start(), which returns at once while discovery runs.
Start ==
    /\ ~running /\ running' = TRUE
    /\ ReArm
    /\ \E c \in Polls : poll[c].at = "none" /\ BeginScan(c)
    /\ UNCHANGED <<paused, list, pollTimeout, pending>>

Stop ==
    /\ running' = FALSE /\ paused' = FALSE
    /\ poll' = Retired /\ pollTimeout' = None
    /\ pending' = {} /\ dropped' = Unspoken
    /\ UNCHANGED <<list, notified, announced>>

\* retry({resetNotifyLatch: reArm}): stop(), then start() in the searching
\* state.  backoffPolls and the list of servers are kept.
Retry(reArm) ==
    /\ running' = TRUE /\ paused' = FALSE
    /\ state' = "searching" /\ emptyScans' = 0
    /\ pollTimeout' = None
    /\ \E c \in Polls : Retired[c].at = "none" /\ poll' = [Retired EXCEPT ![c] = NewScan]
    /\ pending' = {}
    /\ IF reArm THEN ReArm
       ELSE dropped' = Unspoken /\ UNCHANGED <<notified, announced>>
    /\ UNCHANGED <<backoffPolls, servers, missed>>

\* The grace period of a lost notice ends: it is shown, the first of its
\* session, or not at all.
GraceEnds(p) ==
    /\ p \in pending
    /\ pending' = pending \ {p}
    /\ IF running /\ ~notified
       THEN notified' = TRUE ELSE UNCHANGED notified
    /\ UNCHANGED <<switches, list, chains, announced, dropped>>

\* Every step of discovery but those of the master switch and the return of
\* a scan, which its listeners hear of.
DiscoveryStep ==
    \/ \E c \in Polls : TimerFires(c)
    \/ Pause \/ Resume
    \/ \E reArm \in BOOLEAN : Retry(reArm)
    \/ \E p \in Ports : GraceEnds(p)

----------------------------------------------------------------------------
(* Properties.                                                             *)

\* A lost notice waits only for a server that is not on the list, and none
\* waits once discovery has stopped.
NoticesAreReal == pending \cap servers = {} /\ (pending # {} => running)

\* Whatever pauses, resumes and retries overlap with scans that are out,
\* discovery that is not paused has a chain that will scan again.
ScansGoOn ==
    running /\ ~paused => \E c \in Polls : poll[c].current /\ poll[c].at # "none"

\* In one session a server is announced once, however its link flaps, unless
\* a stop or an automatic retry has dropped the notice of its loss.
DetectedOnce ==
    [][\A c \in Polls, alive \in SUBSET Ports :
          ScanReturns(c, alive) /\ MayApply(c) =>
              Found(alive) \cap announced \subseteq dropped]_discoveryVars
=============================================================================
