------------------------------ MODULE AgentLink ------------------------------
(***************************************************************************)
(* The life of an agent's WebSocket in the backend: authentication, the    *)
(* connection registry (AgentConnectionManager), the host events and the   *)
(* web-shell sessions that a connection's teardown touches, and host       *)
(* removal, which unregisters the agent by force.                          *)
(*                                                                         *)
(* The backend is one asyncio event loop: a step of this model is the code *)
(* between two points where a coroutine can really be suspended.  The      *)
(* registry's _connection_lock is held across a suspension only while      *)
(* register_connection closes the superseded socket, so lockHolder names a *)
(* socket only then.  Database sessions are synchronous.                   *)
(***************************************************************************)
EXTENDS Naturals, FiniteSets

CONSTANTS
    Agents,     \* agent ids
    Sockets,    \* WebSocket connections, each accepted at most once
    Shells,     \* browser shell session ids (uuid4: never reused)
    None        \* Python's None

ASSUME NoneIsFresh == None \notin Agents \cup Sockets \cup Shells

VARIABLES
    hpc,          \* [Sockets -> program point of handle_connection]
    agentOf,      \* [Sockets -> self.agent_id, None before authentication]
    open,         \* [Sockets -> BOOLEAN] the peer end is still there
    connections,  \* [Agents -> registered socket or None]
    lockHolder,   \* socket that holds _connection_lock across an await
    row,          \* [Agents -> BOOLEAN] the Agent row exists
    status,       \* [Agents -> Agent.status]
    reported,     \* [Agents -> last host event logged]
    removing,     \* [Agents -> progress of remove_host]
    shell,        \* [Shells -> progress of the browser's shell endpoint]
    openedOn,     \* [Shells -> socket that the endpoint's check saw registered]
    toClose       \* [Sockets \cup Agents -> sessions_to_close of a teardown]

registryVars == <<hpc, agentOf, open, connections, lockHolder>>
dbVars == <<row, status, reported>>
shellVars == <<shell, openedOn, toClose>>
linkVars == <<registryVars, dbVars, removing, shellVars>>

HandlerPoints == {"new", "authed", "closing_old", "syncing", "loop",
                  "teardown", "emitting", "closing_shells", "done"}

\* Handlers between the registration and the end of their own teardown.
Registered == {"syncing", "loop", "teardown"}

LinkTypeOK ==
    /\ hpc \in [Sockets -> HandlerPoints]
    /\ agentOf \in [Sockets -> Agents \cup {None}]
    /\ open \in [Sockets -> BOOLEAN]
    /\ connections \in [Agents -> Sockets \cup {None}]
    /\ lockHolder \in Sockets \cup {None}
    /\ row \in [Agents -> BOOLEAN]
    /\ status \in [Agents -> {"online", "offline"}]
    /\ reported \in [Agents -> {"none", "up", "down"}]
    /\ removing \in [Agents -> {"no", "closing", "done"}]
    /\ shell \in [Shells -> {"unused", "accepting", "live", "over"}]
    /\ openedOn \in [Shells -> Sockets \cup {None}]
    /\ toClose \in [Sockets \cup Agents -> SUBSET Shells]

LinkInit ==
    /\ hpc = [s \in Sockets |-> "new"]
    /\ agentOf = [s \in Sockets |-> None]
    /\ open = [s \in Sockets |-> TRUE]
    /\ connections = [a \in Agents |-> None]
    /\ lockHolder = None
    /\ row = [a \in Agents |-> FALSE]
    /\ status = [a \in Agents |-> "offline"]
    /\ reported = [a \in Agents |-> "none"]
    /\ removing = [a \in Agents |-> "no"]
    /\ shell = [x \in Shells |-> "unused"]
    /\ openedOn = [x \in Shells |-> None]
    /\ toClose = [k \in Sockets \cup Agents |-> {}]

------------------------------------------------------------------------------
(* Authentication: register_agent writes status "online" and creates the    *)
(* row of a new agent; the handler then awaits the auth_success send.  An   *)
(* agent whose host was removed has lost its permanent token.               *)

Authenticate(s, a) ==
    /\ hpc[s] = "new"
    /\ row[a] \/ removing[a] = "no"
    /\ hpc' = [hpc EXCEPT ![s] = "authed"]
    /\ agentOf' = [agentOf EXCEPT ![s] = a]
    /\ row' = [row EXCEPT ![a] = TRUE]
    /\ status' = [status EXCEPT ![a] = "online"]
    /\ UNCHANGED <<open, connections, lockHolder, reported, removing, shellVars>>

\* Bad token, bad data or the 30 s timeout: self.agent_id stays None, so the
\* finally block has nothing to undo.
RejectAuth(s) ==
    /\ hpc[s] = "new"
    /\ hpc' = [hpc EXCEPT ![s] = "done"]
    /\ open' = [open EXCEPT ![s] = FALSE]
    /\ UNCHANGED <<agentOf, connections, lockHolder, dbVars, removing, shellVars>>

------------------------------------------------------------------------------
(* register_connection                                                      *)

\* The registration itself and the synchronous status write that follows it.
Enter(s, a) ==
    /\ connections' = [connections EXCEPT ![a] = s]
    /\ hpc' = [hpc EXCEPT ![s] = "syncing"]
    /\ status' = IF row[a] THEN [status EXCEPT ![a] = "online"] ELSE status

Register(s) ==
    LET a == agentOf[s]
        old == connections[a]
    IN /\ hpc[s] = "authed" /\ open[s]
       /\ lockHolder = None
       /\ \/ /\ old = None
             /\ Enter(s, a)
             /\ UNCHANGED <<open, lockHolder>>
          \/ /\ old # None
             /\ open' = [open EXCEPT ![old] = FALSE]
             /\ lockHolder' = s
             /\ hpc' = [hpc EXCEPT ![s] = "closing_old"]
             /\ UNCHANGED <<connections, status>>
       /\ UNCHANGED <<agentOf, row, reported, removing, shellVars>>

\* Mutant: the lock is not released when the old socket has been closed.
RegisterKeepsLock(s) ==
    /\ hpc[s] = "closing_old"
    /\ Enter(s, agentOf[s])
    /\ UNCHANGED <<agentOf, open, lockHolder, row, reported, removing, shellVars>>

RegisterAfterClose(s) ==
    /\ hpc[s] = "closing_old"
    /\ lockHolder' = None
    /\ Enter(s, agentOf[s])
    /\ UNCHANGED <<agentOf, open, row, reported, removing, shellVars>>

\* _sync_health_check_configs ends (its exceptions are swallowed), then
\* HOST_CONNECTED is logged and the message loop starts.
EmitConnected(s) ==
    /\ hpc[s] = "syncing"
    /\ reported' = [reported EXCEPT ![agentOf[s]] = "up"]
    /\ hpc' = [hpc EXCEPT ![s] = "loop"]
    /\ UNCHANGED <<agentOf, open, connections, lockHolder, row, status,
                   removing, shellVars>>

------------------------------------------------------------------------------
(* Disconnection and the finally block                                      *)

\* The peer goes away, or an exception in a message handler closes the socket.
LosePeer(s) ==
    /\ open[s] /\ hpc[s] \in {"authed", "closing_old", "syncing", "loop"}
    /\ open' = [open EXCEPT ![s] = FALSE]
    /\ UNCHANGED <<hpc, agentOf, connections, lockHolder, dbVars, removing,
                   shellVars>>

\* The receive (or the auth_success send) raises.
Disconnect(s) ==
    /\ ~open[s] /\ hpc[s] \in {"authed", "loop"}
    /\ hpc' = [hpc EXCEPT ![s] = "teardown"]
    /\ UNCHANGED <<agentOf, open, connections, lockHolder, dbVars, removing,
                   shellVars>>

\* The tracked ShellSessions of agent a.
SessionsOf(a) ==
    {x \in Shells : shell[x] = "live" /\ agentOf[openedOn[x]] = a}

\* Close shell sessions only when the agent has no connection: the check and
\* the snapshot of close_sessions_for_agent are not separated by a suspension.
\* Mutant: the teardown does not re-check the registry.
MayAlwaysCloseShells(a) == TRUE

MayCloseShells(a) == connections[a] = None

ShellCheck(s) ==
    LET a == agentOf[s]
        snapshot == IF MayCloseShells(a) THEN SessionsOf(a) ELSE {}
    IN /\ toClose' = [toClose EXCEPT ![s] = snapshot]
       /\ hpc' = [hpc EXCEPT ![s] = IF snapshot = {} THEN "done"
                                    ELSE "closing_shells"]

\* The identity gate of unregister_connection.  Mutant: no gate.
NoGate(s, a) == connections[a] # None

IsCurrent(s, a) == connections[a] = s

\* unregister_connection(agent_id, websocket): only the registered socket
\* removes the entry, writes "offline" and logs HOST_DISCONNECTED; a
\* superseded socket goes straight on to the shell check.
Unregister(s) ==
    LET a == agentOf[s] IN
    /\ hpc[s] = "teardown"
    /\ lockHolder = None
    /\ \/ /\ IsCurrent(s, a)
          /\ connections' = [connections EXCEPT ![a] = None]
          /\ status' = IF row[a] THEN [status EXCEPT ![a] = "offline"] ELSE status
          /\ reported' = [reported EXCEPT ![a] = "down"]
          /\ hpc' = [hpc EXCEPT ![s] = "emitting"]
          /\ UNCHANGED toClose
       \/ /\ ~IsCurrent(s, a)
          /\ ShellCheck(s)
          /\ UNCHANGED <<connections, status, reported>>
    /\ UNCHANGED <<agentOf, open, lockHolder, row, removing, shell, openedOn>>

\* The disconnect emit (alert evaluation, subscribers) has returned.
AfterEmit(s) ==
    /\ hpc[s] = "emitting"
    /\ ShellCheck(s)
    /\ UNCHANGED <<agentOf, open, connections, lockHolder, dbVars, removing,
                   shell, openedOn>>

\* One round of the closing loop: await the browser close, forget the session.
CloseShell(s, x) ==
    /\ hpc[s] = "closing_shells" /\ x \in toClose[s]
    /\ shell' = [shell EXCEPT ![x] = "over"]
    /\ toClose' = [toClose EXCEPT ![s] = @ \ {x}]
    /\ hpc' = [hpc EXCEPT ![s] = IF toClose[s] = {x} THEN "done" ELSE @]
    /\ UNCHANGED <<agentOf, open, connections, lockHolder, dbVars, removing,
                   openedOn>>

------------------------------------------------------------------------------
(* remove_host: forced unregistration, shell cleanup, deletion of the row.  *)

RemoveHost(a) ==
    /\ row[a] /\ removing[a] = "no"
    /\ lockHolder = None
    /\ connections' = [connections EXCEPT ![a] = None]
    /\ status' = [status EXCEPT ![a] = "offline"]
    /\ toClose' = [toClose EXCEPT ![a] = SessionsOf(a)]
    /\ removing' = [removing EXCEPT ![a] = "closing"]
    /\ UNCHANGED <<hpc, agentOf, open, lockHolder, row, reported, shell,
                   openedOn>>

RemoveShell(a, x) ==
    /\ removing[a] = "closing" /\ x \in toClose[a]
    /\ shell' = [shell EXCEPT ![x] = "over"]
    /\ toClose' = [toClose EXCEPT ![a] = @ \ {x}]
    /\ UNCHANGED <<registryVars, dbVars, removing, openedOn>>

DeleteRow(a) ==
    /\ removing[a] = "closing" /\ toClose[a] = {}
    /\ row' = [row EXCEPT ![a] = FALSE]
    /\ removing' = [removing EXCEPT ![a] = "done"]
    /\ UNCHANGED <<registryVars, status, reported, shellVars>>

------------------------------------------------------------------------------
(* Web shells (the browser side)                                            *)

\* The endpoint finds the agent's row, checks is_connected and awaits accept()
\* ...
OpenShell(x, a) ==
    /\ shell[x] = "unused"
    /\ row[a] /\ connections[a] # None
    /\ shell' = [shell EXCEPT ![x] = "accepting"]
    /\ openedOn' = [openedOn EXCEPT ![x] = connections[a]]
    /\ UNCHANGED <<registryVars, dbVars, removing, toClose>>

\* ... then start_session tracks the session, connected or not.
StartSession(x) ==
    /\ shell[x] = "accepting"
    /\ shell' = [shell EXCEPT ![x] = "live"]
    /\ UNCHANGED <<registryVars, dbVars, removing, openedOn, toClose>>

\* close_session by the browser, or a closed/error message from the agent.
EndSession(x) ==
    /\ shell[x] = "live"
    /\ shell' = [shell EXCEPT ![x] = "over"]
    /\ UNCHANGED <<registryVars, dbVars, removing, openedOn, toClose>>

------------------------------------------------------------------------------
Handler(s) ==
    \/ Register(s) \/ RegisterAfterClose(s) \/ EmitConnected(s)
    \/ Disconnect(s) \/ Unregister(s) \/ AfterEmit(s)
    \/ \E x \in Shells : CloseShell(s, x)

LinkNext ==
    \/ \E s \in Sockets : Handler(s)
    \/ \E s \in Sockets : RejectAuth(s) \/ LosePeer(s)
    \/ \E s \in Sockets, a \in Agents : Authenticate(s, a)
    \/ \E a \in Agents : RemoveHost(a) \/ DeleteRow(a)
    \/ \E a \in Agents, x \in Shells : RemoveShell(a, x) \/ OpenShell(x, a)
    \/ \E x \in Shells : StartSession(x) \/ EndSession(x)

\* The event loop runs every ready coroutine; browsers, agents and operators
\* owe nothing.
LinkFairness == \A s \in Sockets : WF_linkVars(Handler(s))

LinkSpec == LinkInit /\ [][LinkNext]_linkVars /\ LinkFairness
------------------------------------------------------------------------------
(* Properties                                                               *)

\* A registered socket is one that authenticated as that agent and whose
\* handler still has its own teardown ahead of it: the registry never keeps an
\* entry nobody will remove (register_connection / unregister_connection).
NoZombieEntry ==
    \A a \in Agents : connections[a] # None =>
        /\ agentOf[connections[a]] = a
        /\ hpc[connections[a]] \in Registered

\* A socket that serves its agent: registered, its peer there, host not removed.
InService(s, points) ==
    /\ hpc[s] \in points /\ open[s]
    /\ removing[agentOf[s]] = "no"

\* The teardown of a superseded socket never evicts the live connection, in
\* whatever order the reconnect and the teardown run.
LiveSocketIsRegistered ==
    \A s \in Sockets : InService(s, {"syncing", "loop"}) =>
        connections[agentOf[s]] = s

\* The status writes run after the lock is released, yet a served agent is
\* "online" in the database.
LiveAgentIsOnline ==
    \A s \in Sockets : InService(s, {"syncing", "loop"}) =>
        status[agentOf[s]] = "online"

\* A host whose agent is being served is never left reported as disconnected
\* by a late teardown of an older socket.
LiveHostReportedUp ==
    \A s \in Sockets : InService(s, {"loop"}) => reported[agentOf[s]] = "up"

\* A teardown (or a host removal) never closes a web shell that was opened on
\* the connection registered now: the snapshot is taken only while the agent
\* has no connection, and a socket registers once.
TeardownSparesLiveShells ==
    \A k \in Sockets \cup Agents : \A x \in toClose[k], a \in Agents :
        connections[a] # openedOn[x]

\* A connection whose peer is gone does not stay in the registry: the lock is
\* always released and the handler reaches its finally block.
DeadSocketIsDropped ==
    \A s \in Sockets, a \in Agents :
        (~open[s] /\ connections[a] = s) ~> connections[a] # s

\* The registry, the database and the event log all follow the live socket,
\* in whatever order reconnects and teardowns run.
RegistryFollowsSocket ==
    /\ NoZombieEntry /\ LiveSocketIsRegistered
    /\ LiveAgentIsOnline /\ LiveHostReportedUp
==============================================================================
