--------------------------- MODULE ServerManager ---------------------------
(* The active server of the extension (ServerManager), which discovery     *)
(* drives through onDidChangeServers and the user through quick picks, and *)
(* the master switch driftViewer.enabled, which stops and starts both.     *)
EXTENDS ServerDiscovery

VARIABLES
    active,     \* _activeServer
    client,     \* the port the client is configured for
    picking,    \* the servers the open quick pick offers
    enabled,    \* driftViewer.enabled
    starting,   \* is a start waiting for workspaceUsesDrift()?
    astray      \* history: has the active server been set to an unlisted
                \* one, or cleared, since discovery last fired?

managerVars == <<active, client, picking, enabled, starting, astray>>
vars == <<discoveryVars, managerVars>>

ManagerTypeOK ==
    /\ TypeOK
    /\ active \in Ports \cup {None}
    /\ client \in Ports
    /\ picking \subseteq Ports
    /\ enabled \in BOOLEAN /\ starting \in BOOLEAN /\ astray \in BOOLEAN

Init ==
    /\ DiscoveryInit
    /\ active = None /\ client \in Ports /\ picking = {}
    /\ enabled = TRUE /\ starting = TRUE /\ astray = FALSE

SetActive(s) ==
    /\ active' = s
    /\ client' = IF s = None THEN client ELSE s

\* selectServer() with more than one server: a quick pick is opened unless
\* one is open.
OpenPick(listed) == picking' = IF picking = {} THEN listed ELSE picking

----------------------------------------------------------------------------
\* Faulty variant: the listener reads the list before it is assigned.
OnServersChangedStale ==
    IF active \in servers \/ servers = {}
    THEN UNCHANGED <<active, client, picking>>
    ELSE IF Cardinality(servers) > 1
    THEN OpenPick(servers) /\ UNCHANGED <<active, client>>
    ELSE \E s \in servers : SetActive(s) /\ UNCHANGED picking

\* _onServersChanged(), with the list discovery has just assigned.  The dead
\* server stays active while the user is asked for another.
OnServersChanged ==
    IF active \in servers'
    THEN UNCHANGED <<active, client, picking>>
    ELSE IF Cardinality(servers') > 1
    THEN OpenPick(servers') /\ UNCHANGED <<active, client>>
    ELSE \E s \in IF servers' = {} THEN {None} ELSE servers' :
            SetActive(s) /\ UNCHANGED picking

\* A scan returns and, where its answer changes list or cadence, the manager
\* hears of it before the chain goes on.
PollReturns(c, alive) ==
    /\ ScanReturns(c, alive)
    /\ IF ListFires THEN OnServersChanged /\ astray' = FALSE
       ELSE UNCHANGED <<active, client, picking, astray>>
    /\ UNCHANGED <<enabled, starting>>

\* The user asks for the list.  With no server there is only a warning.
SelectServer ==
    /\ servers # {}
    /\ IF Cardinality(servers) = 1
       THEN (\E s \in servers : SetActive(s)) /\ astray' = FALSE /\ UNCHANGED picking
       ELSE OpenPick(servers) /\ UNCHANGED <<active, client, astray>>
    /\ UNCHANGED <<discoveryVars, enabled, starting>>

\* The user picks one of the servers offered, listed still or not.
Pick(s) ==
    /\ s \in picking
    /\ SetActive(s) /\ picking' = {}
    /\ astray' = (s \notin servers)
    /\ UNCHANGED <<discoveryVars, enabled, starting>>

Dismiss ==
    /\ picking # {} /\ picking' = {}
    /\ UNCHANGED <<discoveryVars, active, client, enabled, starting, astray>>

\* "Open URL" of a notice that is still shown: ensureActiveForDiscoveredPort().
OpenUrl(s) ==
    /\ s \in servers
    /\ SetActive(s) /\ astray' = FALSE
    /\ UNCHANGED <<discoveryVars, picking, enabled, starting>>

\* A debug session finds the client's endpoint healthy:
\* adoptClientEndpointIfNone().
Adopt ==
    /\ active = None
    /\ SetActive(client)
    /\ astray' = (client \notin servers)
    /\ UNCHANGED <<discoveryVars, picking, enabled, starting>>

\* The master switch: applyEnabledState().
Disable ==
    /\ enabled /\ enabled' = FALSE
    /\ Stop
    /\ active' = None
    /\ astray' = TRUE
    /\ UNCHANGED <<client, picking, starting>>

Enable ==
    /\ ~enabled /\ enabled' = TRUE
    /\ starting' = TRUE
    /\ UNCHANGED <<discoveryVars, active, client, picking, astray>>

\* The workspace turns out to use Drift, and discovery starts, enabled still
\* or not.
StartsUp ==
    /\ starting /\ starting' = FALSE
    /\ Start \/ (running /\ UNCHANGED discoveryVars)
    /\ UNCHANGED <<active, client, picking, enabled, astray>>

Next ==
    \/ DiscoveryStep /\ UNCHANGED managerVars
    \/ \E c \in Polls, alive \in SUBSET Ports : PollReturns(c, alive)
    \/ SelectServer \/ Dismiss \/ Adopt
    \/ \E s \in Ports : Pick(s) \/ OpenUrl(s)
    \/ Disable \/ Enable \/ StartsUp

Spec == Init /\ [][Next]_vars

----------------------------------------------------------------------------
(* Properties.                                                             *)

\* The only server on the list is the active one, unless the active server
\* was set from something older than the list, or cleared by the master
\* switch, and discovery has not fired since.
ActiveFollowsList == \A p \in Ports : servers = {p} /\ ~astray => active = p
=============================================================================
