------------------------- MODULE ServerManagerProofs -------------------------
(* Theorems about the discovery of servers and the active one: for any      *)
(* number of ports, overlapping chains and thresholds.                      *)
EXTENDS ServerManager, FiniteSetTheorems, TLAPS

(* Until a loss is announced, a server announced in this session is on the *)
(* list, or its loss is pending or was dropped.                            *)
Accounted == ~notified => announced \subseteq servers \cup pending \cup dropped

IInv == ManagerTypeOK /\ NoticesAreReal /\ ScansGoOn /\ Accounted /\ ActiveFollowsList

----------------------------------------------------------------------------
(* Typing, action by action.                                               *)
LEMMA ChainValues ==
    /\ NewScan \in Chain /\ NoChain \in Chain
    /\ \A x \in Chain : [x EXCEPT !.at = "timer"] \in Chain
BY DEF NewScan, NoChain, Chain

LEMMA ClearTimerType ==
    ASSUME TypeOK PROVE ClearTimer(poll) \in [Polls -> Chain]
BY ChainValues DEF TypeOK, ClearTimer

LEMMA RetiredType ==
    ASSUME TypeOK PROVE Retired \in [Polls -> Chain]
BY ClearTimerType DEF Retired, Chain

(* The list and the cadence after a scan.                                  *)
LEMMA UpdateType ==
    ASSUME TypeOK, NEW alive \in SUBSET Ports, UpdateServers(alive)
    PROVE  /\ state' \in {"searching", "connected", "backoff"}
           /\ emptyScans' \in Nat /\ backoffPolls' \in 0 .. BackoffCycles - 1
           /\ servers' \subseteq Ports /\ missed' \in [Ports -> 0 .. MissThreshold - 1]
           /\ pending' \subseteq Ports /\ announced' \subseteq Ports
           /\ UNCHANGED <<notified, dropped>>
<1> USE DiscoveryAssumption
<1>1. /\ state' \in {"searching", "connected", "backoff"}
      /\ emptyScans' \in Nat /\ backoffPolls' \in 0 .. BackoffCycles - 1
  BY DEF UpdateServers, NextCadence, TypeOK, Rested, cadence
<1>2. servers' \subseteq Ports
  BY DEF UpdateServers, TypeOK
<1>3. missed' \in [Ports -> 0 .. MissThreshold - 1]
  <2> SUFFICES ASSUME NEW p \in Ports, p \in servers' \ alive
               PROVE  missed[p] + 1 \in 0 .. MissThreshold - 1
    BY DEF UpdateServers
  <2>1. p \in servers \ alive /\ p \notin Lost(alive)
    BY DEF UpdateServers
  <2>2. missed[p] \in 0 .. MissThreshold - 1 /\ ~(missed[p] + 1 >= MissThreshold)
    BY <2>1 DEF Lost, TypeOK
  <2> QED
    BY <2>2
<1>4. /\ pending' \subseteq Ports /\ announced' \subseteq Ports
      /\ UNCHANGED <<notified, dropped>>
  BY DEF UpdateServers, Notices, Found, New, Lost, TypeOK
<1> QED
  BY <1>1, <1>2, <1>3, <1>4

LEMMA ScanType ==
    ASSUME TypeOK, NEW c \in Polls, NEW alive \in SUBSET Ports, ScanReturns(c, alive)
    PROVE  TypeOK'
<1>1. poll' \in [Polls -> Chain] /\ pollTimeout' \in Polls \cup {None}
  BY ChainValues DEF ScanReturns, TypeOK
<1>2. CASE MayApply(c)
  <2>1. UpdateServers(alive) /\ UNCHANGED switches
    BY <1>2 DEF ScanReturns
  <2> QED
    BY <1>1, <2>1, UpdateType DEF TypeOK, switches
<1>3. CASE ~MayApply(c)
  BY <1>1, <1>3 DEF ScanReturns, TypeOK, switches, list, cadence, notices
<1> QED
  BY <1>2, <1>3

LEMMA DiscoveryType ==
    ASSUME TypeOK,
           DiscoveryStep \/ Start \/ Stop \/ UNCHANGED discoveryVars
    PROVE  TypeOK'
<1> USE DEF switches, list, cadence, chains, notices
<1>1. ASSUME NEW c \in Polls, TimerFires(c) PROVE TypeOK'
  <2>1. poll' \in [Polls -> Chain]
    BY <1>1, ChainValues DEF TimerFires, BeginScan, TypeOK
  <2> QED
    BY <1>1, <2>1 DEF TimerFires, TypeOK
<1>2. CASE Pause
  BY <1>2, ClearTimerType DEF Pause, TypeOK
<1>3. CASE Resume
  <2>1. poll' \in [Polls -> Chain]
    BY <1>3, ChainValues DEF Resume, BeginScan, TypeOK
  <2> QED
    BY <1>3, <2>1 DEF Resume, TypeOK
<1>4. ASSUME NEW reArm \in BOOLEAN, Retry(reArm) PROVE TypeOK'
  <2>1. poll' \in [Polls -> Chain]
    BY <1>4, RetiredType, ChainValues DEF Retry
  <2>2. notified' \in BOOLEAN /\ announced' \subseteq Ports /\ dropped' \subseteq Ports
    BY <1>4 DEF Retry, ReArm, Unspoken, TypeOK
  <2> QED
    BY <1>4, <2>1, <2>2 DEF Retry, TypeOK
<1>5. ASSUME NEW p \in Ports, GraceEnds(p) PROVE TypeOK'
  BY <1>5 DEF GraceEnds, TypeOK
<1>6. CASE Start
  <2>1. poll' \in [Polls -> Chain]
    BY <1>6, ChainValues DEF Start, BeginScan, TypeOK
  <2> QED
    BY <1>6, <2>1 DEF Start, ReArm, TypeOK
<1>7. CASE Stop
  BY <1>7, RetiredType DEF Stop, Unspoken, TypeOK
<1>8. CASE UNCHANGED discoveryVars
  BY <1>8 DEF discoveryVars, TypeOK
<1> QED
  BY <1>1, <1>2, <1>3, <1>4, <1>5, <1>6, <1>7, <1>8 DEF DiscoveryStep

----------------------------------------------------------------------------
(* The notices.  What a scan lists has no loss pending, and what it         *)
(* announces is listed; what is dropped from the list is pending.           *)
LEMMA ScanNotices ==
    ASSUME TypeOK, NoticesAreReal, Accounted, NEW c \in Polls, NEW alive \in SUBSET Ports,
           ScanReturns(c, alive)
    PROVE  NoticesAreReal' /\ Accounted'
<1>1. CASE MayApply(c)
  <2>1. UpdateServers(alive) /\ UNCHANGED switches /\ running
    BY <1>1 DEF ScanReturns, MayApply
  <2>2. UNCHANGED <<running, notified, dropped>>
    BY <2>1 DEF UpdateServers, Notices, switches
  <2>3. pending' \cap servers' = {}
    BY <2>1 DEF UpdateServers, Notices, New, NoticesAreReal
  <2>4. NoticesAreReal'
    BY <2>1, <2>2, <2>3 DEF NoticesAreReal
  <2>5. Accounted'
    <3> SUFFICES ASSUME ~notified
                 PROVE  announced' \subseteq servers' \cup pending' \cup dropped
      BY <2>2 DEF Accounted
    <3>1. announced \subseteq servers \cup pending \cup dropped
      BY DEF Accounted
    <3> QED
      BY <2>1, <3>1 DEF UpdateServers, Notices, Found, New
  <2> QED
    BY <2>4, <2>5
<1>2. CASE ~MayApply(c)
  BY <1>2 DEF ScanReturns, switches, list, notices, NoticesAreReal, Accounted
<1> QED
  BY <1>1, <1>2

LEMMA DiscoveryNotices ==
    ASSUME NoticesAreReal, Accounted,
           DiscoveryStep \/ Start \/ Stop \/ UNCHANGED discoveryVars
    PROVE  NoticesAreReal' /\ Accounted'
<1> USE DEF switches, list, cadence, notices, NoticesAreReal, Accounted
<1>1. ASSUME NEW c \in Polls, TimerFires(c) PROVE NoticesAreReal' /\ Accounted'
  BY <1>1 DEF TimerFires
<1>2. CASE Pause \/ Resume
  BY <1>2 DEF Pause, Resume
<1>3. ASSUME NEW reArm \in BOOLEAN, Retry(reArm) PROVE NoticesAreReal' /\ Accounted'
  BY <1>3 DEF Retry, ReArm, Unspoken
<1>4. ASSUME NEW p \in Ports, GraceEnds(p) PROVE NoticesAreReal' /\ Accounted'
  BY <1>4 DEF GraceEnds
<1>5. CASE Start
  BY <1>5 DEF Start, ReArm
<1>6. CASE Stop
  BY <1>6 DEF Stop, Unspoken
<1>7. CASE UNCHANGED discoveryVars
  BY <1>7 DEF discoveryVars
<1> QED
  BY <1>1, <1>2, <1>3, <1>4, <1>5, <1>6, <1>7 DEF DiscoveryStep

----------------------------------------------------------------------------
(* The chains.  One that is current and goes on leaves itself behind; one   *)
(* that ends is not current, or discovery is paused.                        *)
LEMMA ScanChains ==
    ASSUME TypeOK, ScansGoOn, NEW c \in Polls, NEW alive \in SUBSET Ports, ScanReturns(c, alive)
    PROVE  ScansGoOn'
<1> SUFFICES ASSUME running, ~paused
             PROVE  \E d \in Polls : poll'[d].current /\ poll'[d].at # "none"
  BY DEF ScansGoOn, ScanReturns, switches
<1>1. CASE poll[c].current
  <2>1. poll'[c] = [poll[c] EXCEPT !.at = "timer"]
    BY <1>1 DEF ScanReturns, MayApply, TypeOK
  <2> QED
    BY <1>1, <2>1 DEF TypeOK, Chain
<1>2. CASE ~poll[c].current
  <2>1. PICK d \in Polls : poll[d].current /\ poll[d].at # "none"
    BY DEF ScansGoOn
  <2>2. poll'[d] = poll[d]
    BY <1>2, <2>1 DEF ScanReturns, MayApply, TypeOK
  <2> QED
    BY <2>1, <2>2
<1> QED
  BY <1>1, <1>2

LEMMA DiscoveryChains ==
    ASSUME TypeOK, ScansGoOn,
           DiscoveryStep \/ Start \/ Stop \/ UNCHANGED discoveryVars
    PROVE  ScansGoOn'
<1>1. ASSUME NEW c \in Polls, TimerFires(c) PROVE ScansGoOn'
  <2> SUFFICES ASSUME running, ~paused
               PROVE  \E d \in Polls : poll'[d].current /\ poll'[d].at # "none"
    BY <1>1 DEF ScansGoOn, TimerFires, switches
  <2>1. CASE poll[c].current
    BY <1>1, <2>1 DEF TimerFires, BeginScan, NewScan, TypeOK
  <2>2. CASE ~poll[c].current
    <3>1. PICK d \in Polls : poll[d].current /\ poll[d].at # "none"
      BY DEF ScansGoOn
    <3>2. poll'[d] = poll[d]
      BY <1>1, <2>2, <3>1 DEF TimerFires, TypeOK
    <3> QED
      BY <3>1, <3>2
  <2> QED
    BY <2>1, <2>2
<1>2. CASE Pause
  BY <1>2 DEF Pause, ScansGoOn
<1>3. CASE Resume
  BY <1>3 DEF Resume, BeginScan, NewScan, ScansGoOn, TypeOK
<1>4. ASSUME NEW reArm \in BOOLEAN, Retry(reArm) PROVE ScansGoOn'
  <2>1. PICK c \in Polls : poll' = [Retired EXCEPT ![c] = NewScan]
    BY <1>4 DEF Retry
  <2>2. poll'[c] = NewScan
    BY <2>1 DEF Retired
  <2> QED
    BY <2>2 DEF ScansGoOn, NewScan
<1>5. ASSUME NEW p \in Ports, GraceEnds(p) PROVE ScansGoOn'
  BY <1>5 DEF GraceEnds, ScansGoOn, switches, chains
<1>6. CASE Start
  BY <1>6 DEF Start, BeginScan, NewScan, ScansGoOn, TypeOK
<1>7. CASE Stop
  BY <1>7 DEF Stop, ScansGoOn
<1>8. CASE UNCHANGED discoveryVars
  BY <1>8 DEF discoveryVars, switches, chains, ScansGoOn
<1> QED
  BY <1>1, <1>2, <1>3, <1>4, <1>5, <1>6, <1>7, <1>8 DEF DiscoveryStep

----------------------------------------------------------------------------
(* The active server.                                                       *)
LEMMA SetActiveType ==
    ASSUME ManagerTypeOK, NEW s \in Ports \cup {None}, SetActive(s)
    PROVE  active' = s /\ active' \in Ports \cup {None} /\ client' \in Ports
BY DEF SetActive, ManagerTypeOK

(* When the list changes and one server is left on it, the manager follows. *)
LEMMA FollowsOf ==
    ASSUME ManagerTypeOK, servers' \subseteq Ports, OnServersChanged
    PROVE  /\ active' \in Ports \cup {None} /\ client' \in Ports /\ picking' \subseteq Ports
           /\ \A p \in Ports : servers' = {p} => active' = p
<1>1. CASE active \in servers'
  BY <1>1 DEF OnServersChanged, ManagerTypeOK
<1>2. CASE active \notin servers' /\ Cardinality(servers') > 1
  <2>1. \A p \in Ports : servers' # {p}
    <3> SUFFICES ASSUME NEW p \in Ports, servers' = {p} PROVE FALSE
      OBVIOUS
    <3>1. Cardinality({p}) = 1
      BY FS_Singleton
    <3>2. Cardinality(servers') = 1
      BY <3>1
    <3> QED
      BY <1>2, <3>2
  <2> QED
    BY <1>2, <2>1 DEF OnServersChanged, OpenPick, ManagerTypeOK
<1>3. CASE active \notin servers' /\ ~(Cardinality(servers') > 1)
  <2>1. PICK s \in (IF servers' = {} THEN {None} ELSE servers') :
            SetActive(s) /\ UNCHANGED picking
    BY <1>3 DEF OnServersChanged
  <2>2. s \in Ports \cup {None}
    BY <2>1
  <2> QED
    BY <2>1, <2>2, SetActiveType DEF ManagerTypeOK
<1> QED
  BY <1>1, <1>2, <1>3

----------------------------------------------------------------------------
(* The whole invariant, step by step.                                       *)
LEMMA InitIInv == Init => IInv
<1> SUFFICES ASSUME Init PROVE IInv
  OBVIOUS
<1> USE DiscoveryAssumption DEF Init, DiscoveryInit
<1>1. TypeOK
  <2>1. emptyScans \in Nat /\ backoffPolls \in 0 .. BackoffCycles - 1
    OBVIOUS
  <2>2. missed \in [Ports -> 0 .. MissThreshold - 1]
    OBVIOUS
  <2>3. poll \in [Polls -> Chain] /\ pollTimeout \in Polls \cup {None}
    BY ChainValues
  <2> QED
    BY <2>1, <2>2, <2>3 DEF TypeOK
<1>2. ManagerTypeOK
  BY <1>1 DEF ManagerTypeOK
<1>3. NoticesAreReal /\ ScansGoOn /\ Accounted /\ ActiveFollowsList
  BY DEF NoticesAreReal, ScansGoOn, Accounted, ActiveFollowsList
<1> QED
  BY <1>2, <1>3 DEF IInv

LEMMA PollIInv ==
    ASSUME IInv, NEW c \in Polls, NEW alive \in SUBSET Ports, PollReturns(c, alive)
    PROVE  IInv'
<1>1. ScanReturns(c, alive) /\ UNCHANGED <<enabled, starting>>
  BY DEF PollReturns
<1>2. TypeOK' /\ NoticesAreReal' /\ ScansGoOn' /\ Accounted'
  BY <1>1, ScanType, ScanNotices, ScanChains DEF IInv, ManagerTypeOK
<1>3. CASE ListFires
  <2>1. OnServersChanged /\ astray' = FALSE
    BY <1>3 DEF PollReturns
  <2>2. /\ active' \in Ports \cup {None} /\ client' \in Ports /\ picking' \subseteq Ports
        /\ ActiveFollowsList'
    BY <1>2, <2>1, FollowsOf DEF IInv, TypeOK, ActiveFollowsList
  <2> QED
    BY <1>1, <1>2, <2>1, <2>2 DEF IInv, ManagerTypeOK
<1>4. CASE ~ListFires
  <2>1. UNCHANGED <<active, client, picking, astray, servers>>
    BY <1>4 DEF PollReturns, ListFires
  <2> QED
    BY <1>1, <1>2, <2>1 DEF IInv, ManagerTypeOK, ActiveFollowsList
<1> QED
  BY <1>3, <1>4

(* The user's choices leave discovery alone.                                *)
LEMMA UserIInv ==
    ASSUME IInv,
           \/ SelectServer \/ Dismiss \/ Adopt
           \/ \E s \in Ports : Pick(s) \/ OpenUrl(s)
    PROVE  IInv'
<1>1. UNCHANGED <<discoveryVars, enabled, starting>>
  BY DEF SelectServer, Dismiss, Adopt, Pick, OpenUrl
<1>2. TypeOK' /\ NoticesAreReal' /\ ScansGoOn' /\ Accounted'
  BY <1>1, DiscoveryType, DiscoveryNotices, DiscoveryChains DEF IInv, ManagerTypeOK
<1>3. servers' = servers /\ servers \subseteq Ports
  BY <1>1 DEF discoveryVars, list, IInv, ManagerTypeOK, TypeOK
<1>4. /\ active' \in Ports \cup {None} /\ client' \in Ports
      /\ picking' \subseteq Ports /\ astray' \in BOOLEAN
      /\ ActiveFollowsList'
  <2>1. CASE SelectServer
    <3>1. CASE Cardinality(servers) = 1
      <4>1. PICK s \in servers : SetActive(s)
        BY <2>1, <3>1 DEF SelectServer
      <4> QED
        BY <1>3, <2>1, <3>1, <4>1, SetActiveType
           DEF SelectServer, IInv, ManagerTypeOK, ActiveFollowsList
    <3>2. CASE Cardinality(servers) # 1
      BY <1>3, <2>1, <3>2 DEF SelectServer, OpenPick, IInv, ManagerTypeOK, ActiveFollowsList
    <3> QED
      BY <3>1, <3>2
  <2>2. CASE Dismiss
    BY <1>3, <2>2 DEF Dismiss, IInv, ManagerTypeOK, ActiveFollowsList
  <2>3. CASE Adopt
    BY <1>3, <2>3, SetActiveType DEF Adopt, IInv, ManagerTypeOK, ActiveFollowsList
  <2>4. ASSUME NEW s \in Ports, Pick(s)
        PROVE  /\ active' \in Ports \cup {None} /\ client' \in Ports
               /\ picking' \subseteq Ports /\ astray' \in BOOLEAN
               /\ ActiveFollowsList'
    BY <1>3, <2>4, SetActiveType DEF Pick, IInv, ManagerTypeOK, ActiveFollowsList
  <2>5. ASSUME NEW s \in Ports, OpenUrl(s)
        PROVE  /\ active' \in Ports \cup {None} /\ client' \in Ports
               /\ picking' \subseteq Ports /\ astray' \in BOOLEAN
               /\ ActiveFollowsList'
    BY <1>3, <2>5, SetActiveType DEF OpenUrl, IInv, ManagerTypeOK, ActiveFollowsList
  <2> QED
    BY <2>1, <2>2, <2>3, <2>4, <2>5
<1> QED
  BY <1>1, <1>2, <1>4 DEF IInv, ManagerTypeOK

(* The master switch.                                                       *)
LEMMA SwitchIInv == ASSUME IInv, Disable \/ Enable \/ StartsUp PROVE IInv'
<1>1. Stop \/ Start \/ UNCHANGED discoveryVars
  BY DEF Disable, Enable, StartsUp
<1>2. TypeOK' /\ NoticesAreReal' /\ ScansGoOn' /\ Accounted'
  BY <1>1, DiscoveryType, DiscoveryNotices, DiscoveryChains DEF IInv, ManagerTypeOK
<1>3. ManagerTypeOK'
  BY <1>2 DEF Disable, Enable, StartsUp, IInv, ManagerTypeOK
<1>4. ActiveFollowsList'
  BY <1>1 DEF Disable, Enable, StartsUp, Stop, Start, discoveryVars, list, IInv, ActiveFollowsList
<1> QED
  BY <1>2, <1>3, <1>4 DEF IInv

LEMMA StepIInv == IInv /\ [Next]_vars => IInv'
<1> SUFFICES ASSUME IInv, [Next]_vars PROVE IInv'
  OBVIOUS
<1>1. ASSUME DiscoveryStep \/ UNCHANGED discoveryVars, UNCHANGED managerVars PROVE IInv'
  <2>1. TypeOK' /\ NoticesAreReal' /\ ScansGoOn' /\ Accounted'
    BY <1>1, DiscoveryType, DiscoveryNotices, DiscoveryChains DEF IInv, ManagerTypeOK
  <2>2. UNCHANGED servers
    BY <1>1 DEF DiscoveryStep, TimerFires, Pause, Resume, Retry, GraceEnds, discoveryVars, list
  <2> QED
    BY <1>1, <2>1, <2>2 DEF managerVars, IInv, ManagerTypeOK, ActiveFollowsList
<1>2. ASSUME NEW c \in Polls, NEW alive \in SUBSET Ports, PollReturns(c, alive) PROVE IInv'
  BY <1>2, PollIInv
<1>3. CASE \/ SelectServer \/ Dismiss \/ Adopt
           \/ \E s \in Ports : Pick(s) \/ OpenUrl(s)
  BY <1>3, UserIInv
<1>4. CASE Disable \/ Enable \/ StartsUp
  BY <1>4, SwitchIInv
<1>5. CASE UNCHANGED vars
  BY <1>1, <1>5 DEF vars
<1> QED
  BY <1>1, <1>2, <1>3, <1>4, <1>5 DEF Next

LEMMA Invariance == Spec => []IInv
BY InitIInv, StepIInv, PTL DEF Spec

----------------------------------------------------------------------------
(* The variables of discovery and manager have their types: no server on   *)
(* the list has missed as many polls as drop it, and backoff ends in time. *)
THEOREM TypeCorrect == Spec => []ManagerTypeOK
<1>1. IInv => ManagerTypeOK
  BY DEF IInv
<1> QED
  BY <1>1, Invariance, PTL

(* A lost notice only waits for a server that is gone, and only while      *)
(* discovery runs (updateServersFromScan, ServerLostDebouncer).            *)
THEOREM NoticesReal == Spec => []NoticesAreReal
<1>1. IInv => NoticesAreReal
  BY DEF IInv
<1> QED
  BY <1>1, Invariance, PTL

(* However pauses, resumes, retries and scans overlap, discovery that runs *)
(* has a chain that scans again (ServerDiscoveryCore._poll).               *)
THEOREM ScanningGoesOn == Spec => []ScansGoOn
<1>1. IInv => ScansGoOn
  BY DEF IInv
<1> QED
  BY <1>1, Invariance, PTL

(* The only server on the list is the active one, unless something older   *)
(* than the list was chosen since it last changed                          *)
(* (ServerManager._onServersChanged).                                      *)
THEOREM ActiveFollows == Spec => []ActiveFollowsList
<1>1. IInv => ActiveFollowsList
  BY DEF IInv
<1> QED
  BY <1>1, Invariance, PTL

(* In one session no server is announced as found a second time, unless a  *)
(* stop or an automatic retry has dropped the notice of its loss.          *)
THEOREM AnnouncedOnce == Spec => DetectedOnce
<1>1. ASSUME IInv,
             NEW c \in Polls, NEW alive \in SUBSET Ports, ScanReturns(c, alive), MayApply(c)
      PROVE  Found(alive) \cap announced \subseteq dropped
  BY <1>1 DEF IInv, Accounted, Found, New
<1>2. IInv => [\A c \in Polls, alive \in SUBSET Ports :
                  ScanReturns(c, alive) /\ MayApply(c) =>
                      Found(alive) \cap announced \subseteq dropped]_discoveryVars
  BY <1>1
<1> QED
  BY <1>2, Invariance, PTL DEF DetectedOnce
=============================================================================
