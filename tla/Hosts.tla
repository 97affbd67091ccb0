------------------------------- MODULE Hosts -------------------------------
(***************************************************************************)
(* The life of a monitored host: docker_hosts and agents rows, the         *)
(* monitor's hosts and clients dictionaries, the polling of each host with *)
(* reconnection and backoff, registration tokens, the registration of      *)
(* agents and the migration of a Docker host to an agent, and restarts of  *)
(* the backend.  add_host and update_host run in worker threads (task),    *)
(* everything else on the event loop.  All hosts and agents report the     *)
(* same engine id: the interesting case of every comparison of engine ids. *)
(* An id is used for one host only, as uuid4 is; URLs are not modelled, a  *)
(* URL already in use is one more reason for add_host to fail.             *)
(***************************************************************************)
EXTENDS Naturals, FiniteSets

CONSTANTS
    Ids,          \* host ids, each used once
    Polled,       \* bound: the hosts that are polled; polls of different hosts share nothing
    MaxRequests   \* bound: user requests other than adding a host, and restarts

ASSUME HostsAssumption ==
    IsFiniteSet(Ids) /\ "none" \notin Ids /\ Polled \subseteq Ids /\ MaxRequests \in Nat

VARIABLES
    row,        \* docker_hosts: connection type, is_active, replaced_by_host_id, engine id known
    agent,      \* agents: "none", or the host's agent, "strict" or "forced" (force_unique)
    linked,     \* hosts whose agent has a registered connection
    token,      \* the registration token: kind and use_count
    filed,      \* container settings: the host id they are filed under
    born,       \* ids in use
    mem,        \* monitor.hosts: "absent", or the host's kind
    online,     \* hosts whose in-memory status is "online"
    clients,    \* monitor.clients
    certs,      \* certificate directories
    task,       \* the worker thread of add_host / update_host
    leaving,    \* remove_host of a monitored host
    retiring,   \* the clean-up of a host that register_agent has migrated
    poll,       \* get_containers: the host it is working on, and the point it has reached
    held,       \* the DockerHost object of that poll is still the one in monitor.hosts
    due,        \* hosts whose reconnection backoff is over
    previous,   \* discovery.host_previous_status
    told,       \* the last HOST_CONNECTED / HOST_DISCONNECTED of a Docker host
    contested,  \* history: hosts edited by update_host, or removed while add_host was at work
    requests    \* history: number of requests so far

db == <<row, agent, token, filed>>
memory == <<mem, online, clients>>
departing == <<leaving, retiring>>
polling == <<poll, held, due, previous, told>>
vars == <<row, agent, linked, token, filed, born, mem, online, clients, certs, task,
          leaving, retiring, poll, held, due, previous, told, contested, requests>>

None == "none"
Kinds == {"local", "remote", "agent"}
Settings == {"short", "composite"}
NoRow == [kind |-> None, active |-> FALSE, replaced |-> None, engine |-> FALSE]
Idle == [host |-> None, at |-> "idle"]
NoToken == [kind |-> None, uses |-> 0]
Exists(h) == row[h].kind # None
NewRow(k, e) == [kind |-> k, active |-> TRUE, replaced |-> None, engine |-> e]

MemKind(k) == IF k = "agent" THEN "agent" ELSE "docker"

(* get_hosts(active_only=True). *)
ActiveRows == {h \in Ids : Exists(h) /\ row[h].active}

(* Rows of the tables. *)
DockerHostDB == [kind : Kinds \cup {None}, active : BOOLEAN, replaced : Ids \cup {None}, engine : BOOLEAN]
Agent == {None, "strict", "forced"}
RegistrationToken == [kind : {None, "single", "multi"}, uses : 0..Cardinality(Ids)]

TypeOK ==
    /\ row \in [Ids -> DockerHostDB]
    /\ agent \in [Ids -> Agent]
    /\ token \in RegistrationToken
    /\ filed \in [Settings -> Ids \cup {None}]
    /\ mem \in [Ids -> {"absent", "docker", "agent"}]
    /\ \A S \in {linked, born, online, clients, certs, due, contested} : S \subseteq Ids
    /\ task \in [Ids -> {"idle", "adding", "saving", "closing", "pinging"}]
    /\ leaving \in [Ids -> {"no", "unlinking", "unregistering"}]
    /\ retiring \in [Ids -> {"no", "announcing", "cleaning"}]
    /\ poll \in {Idle} \cup [host : Ids, at : {"connecting", "announcing", "registering", "listing"}]
    /\ held \in BOOLEAN
    /\ previous \in [Ids -> {"unknown", "online", "offline"}]
    /\ told \in [Ids -> {"nothing", "up", "down"}]
    /\ requests \in 0..MaxRequests

Init ==
    /\ row = [h \in Ids |-> NoRow] /\ agent = [h \in Ids |-> None]
    /\ linked = {} /\ token = NoToken /\ filed = [k \in Settings |-> None] /\ born = {}
    /\ mem = [h \in Ids |-> "absent"] /\ online = {} /\ clients = {} /\ certs = {}
    /\ task = [h \in Ids |-> "idle"] /\ leaving = [h \in Ids |-> "no"]
    /\ retiring = [h \in Ids |-> "no"] /\ poll = Idle /\ held = FALSE /\ due = Ids
    /\ previous = [h \in Ids |-> "unknown"] /\ told = [h \in Ids |-> "nothing"]
    /\ contested = {} /\ requests = 0

Request == requests < MaxRequests /\ requests' = requests + 1

----------------------------------------------------------------------------
(* add_host, in a worker thread: the certificate files, the ping, the two  *)
(* dictionaries, and only then the row.                                    *)
AddHost(h) ==
    /\ h \notin born
    /\ born' = born \cup {h}
    /\ certs' = certs \cup {h}
    /\ task' = [task EXCEPT ![h] = "adding"]
    /\ UNCHANGED <<db, linked, memory, departing, polling, contested, requests>>

AddHostConnects(h) ==
    /\ task[h] = "adding"
    /\ clients' = clients \cup {h}
    /\ mem' = [mem EXCEPT ![h] = "docker"]
    /\ online' = online \cup {h}
    /\ task' = [task EXCEPT ![h] = "saving"]
    /\ UNCHANGED <<db, linked, born, certs, departing, polling, contested, requests>>

(* The registration with the stats service is a coroutine that a worker    *)
(* thread has no loop to run on: nothing is registered here.               *)
AddHostSaves(h) ==
    /\ task[h] = "saving"
    /\ \E k \in {"local", "remote"}, e \in BOOLEAN : row' = [row EXCEPT ![h] = NewRow(k, e)]
    /\ task' = [task EXCEPT ![h] = "idle"]
    /\ UNCHANGED <<agent, token, filed, linked, born, memory, certs, departing, polling, contested, requests>>

(* The except block: the client is closed and the certificates go, whether *)
(* the connection or the insertion has failed; the dictionaries are left.  *)
AddHostFails(h) ==
    /\ task[h] \in {"adding", "saving"}
    /\ certs' = certs \ {h}
    /\ task' = [task EXCEPT ![h] = "idle"]
    /\ UNCHANGED <<db, linked, born, memory, departing, polling, contested, requests>>

(* update_host, in a worker thread. *)
UpdateHost(h) ==
    /\ Request
    /\ Exists(h) /\ task[h] = "idle"
    /\ clients' = clients \ {h}
    /\ task' = [task EXCEPT ![h] = "closing"]
    /\ contested' = contested \cup {h}
    /\ UNCHANGED <<db, linked, born, mem, online, certs, departing, polling>>

UpdateForgets(h) ==
    /\ task[h] = "closing"
    /\ mem' = [mem EXCEPT ![h] = "absent"]
    /\ online' = online \ {h}
    /\ held' = (held /\ poll.host # h)
    /\ task' = [task EXCEPT ![h] = IF Exists(h) THEN "pinging" ELSE "idle"]
    /\ UNCHANGED <<db, linked, born, clients, certs, departing, poll, due, previous, told,
                   contested, requests>>

(* An agent:// URL needs no connection; its Docker registration is dropped *)
(* by a task of its own, whose failure is only logged.                     *)
UpdateToAgent(h) ==
    /\ task[h] = "pinging"
    /\ mem' = [mem EXCEPT ![h] = "agent"]
    /\ task' = [task EXCEPT ![h] = "idle"]
    /\ UNCHANGED <<db, linked, born, online, clients, certs, departing, polling, contested, requests>>

UpdateConnects(h) ==
    /\ task[h] = "pinging"
    /\ clients' = clients \cup {h}
    /\ mem' = [mem EXCEPT ![h] = "docker"]
    /\ online' = online \cup {h}
    /\ certs' = certs \cup {h}
    /\ task' = [task EXCEPT ![h] = "idle"]
    /\ UNCHANGED <<db, linked, born, departing, polling, contested, requests>>

(* The host stays out of memory until the backend restarts or it is edited *)
(* again.                                                                  *)
UpdateFails(h) ==
    /\ task[h] = "pinging"
    /\ certs' = certs \cup {h}
    /\ task' = [task EXCEPT ![h] = "idle"]
    /\ UNCHANGED <<db, linked, born, memory, departing, polling, contested, requests>>

----------------------------------------------------------------------------
(* delete_host: with the row go its agent, its settings, and the rows that *)
(* were migrated to it.                                                    *)
Deleted(h) == IF Exists(h) THEN {h} \cup {o \in Ids : row[o].replaced = h /\ ~row[o].active} ELSE {}

DeleteRows(h) ==
    /\ row' = [o \in Ids |-> IF o \in Deleted(h) THEN NoRow ELSE row[o]]
    /\ agent' = [o \in Ids |-> IF o \in Deleted(h) THEN None ELSE agent[o]]
    /\ filed' = [k \in Settings |-> IF filed[k] \in Deleted(h) THEN None ELSE filed[k]]

(* remove_host of a monitored host: an agent is disconnected first.        *)
RemoveHost(h) ==
    /\ Request
    /\ mem[h] # "absent" /\ leaving[h] = "no"
    /\ linked' = IF mem[h] = "agent" /\ agent[h] # None THEN linked \ {h} ELSE linked
    /\ leaving' = [leaving EXCEPT ![h] = "unlinking"]
    /\ contested' = IF task[h] # "idle" THEN contested \cup {h} ELSE contested
    /\ UNCHANGED <<retiring, db, born, memory, certs, task, polling>>

Forget(h) ==
    /\ mem' = [mem EXCEPT ![h] = "absent"]
    /\ online' = online \ {h}
    /\ clients' = clients \ {h}
    /\ held' = (held /\ poll.host # h)

(* `del self.hosts[host_id]` raises if the host has gone meanwhile, and    *)
(* the removal ends there.                                                 *)
RemoveForgets(h) ==
    /\ leaving[h] = "unlinking"
    /\ \/ mem[h] # "absent" /\ Forget(h) /\ leaving' = [leaving EXCEPT ![h] = "unregistering"]
       \/ mem[h] = "absent" /\ leaving' = [leaving EXCEPT ![h] = "no"] /\ UNCHANGED <<memory, held>>
    /\ UNCHANGED <<retiring, db, linked, born, certs, task, poll, due, previous, told, contested, requests>>

RemoveDeletes(h) ==
    /\ leaving[h] = "unregistering"
    /\ DeleteRows(h)
    /\ certs' = certs \ {h}
    /\ leaving' = [leaving EXCEPT ![h] = "no"]
    /\ due' = due \cup {h}
    /\ previous' = [previous EXCEPT ![h] = "unknown"]
    /\ UNCHANGED <<retiring, token, linked, born, memory, task, poll, held, told, contested, requests>>

(* remove_host of a host that is only in the database. *)
RemoveUnmonitored(h) ==
    /\ Request
    /\ mem[h] = "absent" /\ Exists(h)
    /\ linked' = linked \ {h}
    /\ DeleteRows(h)
    /\ UNCHANGED <<token, born, memory, certs, task, departing, polling, contested>>

----------------------------------------------------------------------------
(* Registration tokens. *)
GenerateToken(k) == token = NoToken /\ token' = [kind |-> k, uses |-> 0]

(* generate_agent_registration_token. *)
RequestToken ==
    /\ Request
    /\ \E k \in {"single", "multi"} : GenerateToken(k)
    /\ UNCHANGED <<row, agent, filed, linked, born, memory, certs, task, departing, polling, contested>>

(* After 15 minutes a token is refused; the daily clean-up deletes it. *)
TokenExpires ==
    /\ token # NoToken
    /\ token' = NoToken
    /\ UNCHANGED <<row, agent, filed, linked, born, memory, certs, task, departing, polling, contested, requests>>

(* Mutant: any token that has not expired is accepted. *)
ValidUnexpired == token # NoToken

ValidRegistrationToken ==
    token # NoToken /\ (token.kind = "single" => token.uses = 0)

UseToken == token' = [token EXCEPT !.uses = @ + 1]

AlreadyRegistered == \E h \in Ids : agent[h] # None

LocalHostBlocks == \E h \in Ids : row[h].kind = "local" /\ row[h].engine

Candidates == {h \in Ids : row[h].kind = "remote" /\ row[h].engine /\ row[h].replaced = None}

(* add_agent_host for a new id. *)
EnterAgentHost(h) ==
    /\ mem' = [mem EXCEPT ![h] = "agent"]
    /\ online' = online \cup {h}

(* register_agent with a registration token, when there is no single host  *)
(* to migrate: several candidates are left to the user.                    *)
RegisterAgent(h, forced) ==
    /\ h \notin born /\ ValidRegistrationToken /\ ~LocalHostBlocks
    /\ ~forced => ~AlreadyRegistered /\ Cardinality(Candidates) # 1
    /\ born' = born \cup {h}
    /\ row' = [row EXCEPT ![h] = NewRow("agent", TRUE)]
    /\ agent' = [agent EXCEPT ![h] = IF forced THEN "forced" ELSE "strict"]
    /\ UseToken
    /\ EnterAgentHost(h)
    /\ UNCHANGED <<filed, linked, clients, certs, task, departing, polling, contested, requests>>

(* Only records that are filed under a composite key follow the host:      *)
(* tags, update records, health checks, alerts, deployments and their      *)
(* metadata; auto_restart_configs and container_desired_states hold short  *)
(* ids.                                                                    *)
Follows(k) == k = "composite"

(* Mutant: the records are deleted with the old key but not added anew. *)
MovedAway(old, new) ==
    [k \in Settings |-> IF filed[k] = old /\ Follows(k) THEN None ELSE filed[k]]

Moved(old, new) ==
    [k \in Settings |-> IF filed[k] = old /\ Follows(k) THEN new ELSE filed[k]]

Retired(old, new) == [row[old] EXCEPT !.replaced = new, !.active = FALSE]

(* _migrate_host_to_agent: one transaction; the old host leaves the memory *)
(* only after the browsers have been told (authenticate).  It may be being *)
(* removed at the same time.                                               *)
MigrateHostToAgent(old, h) ==
    /\ h \notin born /\ ValidRegistrationToken /\ ~LocalHostBlocks /\ ~AlreadyRegistered
    /\ Candidates = {old}
    /\ born' = born \cup {h}
    /\ row' = [row EXCEPT ![h] = NewRow("agent", TRUE), ![old] = Retired(old, h)]
    /\ agent' = [agent EXCEPT ![h] = "strict"]
    /\ filed' = Moved(old, h)
    /\ UseToken
    /\ EnterAgentHost(h)
    /\ retiring' = [retiring EXCEPT ![old] = "announcing"]
    /\ UNCHANGED <<leaving, linked, clients, certs, task, polling, contested, requests>>

MigrationForgets(old) ==
    /\ retiring[old] = "announcing"
    /\ Forget(old)
    /\ retiring' = [retiring EXCEPT ![old] = "cleaning"]
    /\ UNCHANGED <<leaving, db, linked, born, certs, task, poll, due, previous, told, contested, requests>>

MigrationUnregisters(old) ==
    /\ retiring[old] = "cleaning"
    /\ retiring' = [retiring EXCEPT ![old] = "no"]
    /\ UNCHANGED <<leaving, db, linked, born, memory, certs, task, polling, contested, requests>>

Choosable(old, h) ==
    agent[h] # None /\ Exists(h) /\ row[old].kind = "remote" /\ row[old].replaced = None

(* migrate_from_host: one transaction, and the memory at once.  The old    *)
(* host keeps its registration at the stats service.                       *)
MigrateFromHost(old, h) ==
    /\ row' = [row EXCEPT ![old] = Retired(old, h)]
    /\ filed' = Moved(old, h)
    /\ Forget(old)

(* migrate_agent_from_host: the user picks one of several candidates. *)
ChooseHost(old, h) ==
    /\ Request
    /\ Choosable(old, h)
    /\ MigrateFromHost(old, h)
    /\ UNCHANGED <<agent, token, linked, born, certs, task, departing, poll, due, previous, told, contested>>

(* register_agent with the permanent token, and add_agent_host: a host     *)
(* that was edited into a Docker host is turned back into an agent host.   *)
AgentReconnects(h) ==
    /\ agent[h] # None
    /\ linked' = linked \cup {h}
    /\ EnterAgentHost(h)
    /\ clients' = IF mem[h] = "docker" THEN clients \ {h} ELSE clients
    /\ row' = IF mem[h] = "docker" THEN [row EXCEPT ![h].kind = "agent"] ELSE row
    /\ UNCHANGED <<agent, token, filed, born, certs, task, departing, polling, contested, requests>>

(* The connection itself is the subject of AgentLink. *)
AgentDisconnects(h) ==
    /\ h \in linked
    /\ linked' = linked \ {h}
    /\ UNCHANGED <<db, born, memory, certs, task, departing, polling, contested, requests>>

----------------------------------------------------------------------------
(* get_containers for one host, with attempt_reconnection where needed.    *)
At(h, point) == poll = [host |-> h, at |-> point]
GoTo(h, point) == poll' = [host |-> h, at |-> point]

Poll(h) ==
    /\ poll = Idle /\ mem[h] = "docker"
    /\ held' = TRUE
    /\ \/ h \in clients \cap online /\ GoTo(h, "listing") /\ UNCHANGED certs
       \/ /\ h \notin clients \cap online /\ h \in due
          /\ certs' = IF Exists(h) THEN certs \cup {h} ELSE certs
          /\ GoTo(h, "connecting")
    /\ UNCHANGED <<db, linked, born, memory, task, departing, due, previous, told, contested, requests>>

(* The backoff is not over: the host is offline for this round. *)
PollSkips(h) ==
    /\ poll = Idle /\ mem[h] = "docker" /\ h \notin clients \cap online /\ h \notin due
    /\ online' = online \ {h}
    /\ UNCHANGED <<db, linked, born, mem, clients, certs, task, departing, polling, contested, requests>>

(* An agent host has no client, so its connection is looked up each time. *)
PollAgent(h) ==
    /\ poll = Idle /\ mem[h] = "agent"
    /\ IF h \in linked /\ agent[h] # None
         THEN online' = online \cup {h} /\ GoTo(h, "listing") /\ held' = TRUE
         ELSE online' = online \ {h} /\ UNCHANGED <<poll, held>>
    /\ UNCHANGED <<db, linked, born, mem, clients, certs, task, departing, due, previous, told, contested, requests>>

(* Mutant: the host is not looked up again after the ping. *)
KeepClient(h) == clients \cup {h}

(* A client is kept only if the host was not removed meanwhile. *)
NewClients(h) == IF mem[h] # "absent" THEN clients \cup {h} ELSE clients

ConnectSucceeds(h) ==
    /\ At(h, "connecting")
    /\ clients' = NewClients(h)
    /\ IF mem[h] # "absent" THEN GoTo(h, "announcing") ELSE poll' = Idle
    /\ UNCHANGED <<db, linked, born, mem, online, certs, task, departing, held, due, previous,
                   told, contested, requests>>

ConnectFails(h) ==
    /\ At(h, "connecting")
    /\ due' = due \ {h}
    /\ online' = IF held THEN online \ {h} ELSE online
    /\ poll' = Idle
    /\ UNCHANGED <<db, linked, born, mem, clients, certs, task, departing, held, previous, told, contested, requests>>

(* Mutant: after a failure the host is not tried again. *)
GiveUp(h) == due

(* The backoff doubles with every failure but is at most 300 s. *)
BackoffOver(h) == due \cup {h}

BackoffExpires(h) ==
    /\ h \notin due
    /\ due' = BackoffOver(h)
    /\ UNCHANGED <<db, linked, born, memory, certs, task, departing, poll, held, previous, told, contested, requests>>

(* The broadcast is awaited, then the object is looked at again: it may    *)
(* have become an agent host.  Otherwise the host is registered with the   *)
(* stats service, which is awaited too.                                    *)
Announced(h) ==
    /\ At(h, "announcing")
    /\ GoTo(h, IF held /\ mem[h] = "agent" THEN "listing" ELSE "registering")
    /\ UNCHANGED <<db, linked, born, memory, certs, task, departing, held, due, previous, told, contested, requests>>

Registered(h) ==
    /\ At(h, "registering")
    /\ GoTo(h, "listing")
    /\ held' = (mem[h] # "absent")
    /\ UNCHANGED <<db, linked, born, memory, certs, task, departing, due, previous, told, contested, requests>>

(* host_previous_status is written only for a host that is still there. *)
StatusNoted(h, s) == IF mem[h] # "absent" THEN [previous EXCEPT ![h] = s] ELSE previous

(* discover_containers_for_host of a Docker host; its lock admits one      *)
(* listing per host.                                                       *)
ListSucceeds(h) ==
    /\ At(h, "listing") /\ mem[h] # "agent"
    /\ poll' = Idle
    /\ online' = IF held /\ h \in clients THEN online \cup {h} ELSE online
    /\ IF mem[h] = "docker" /\ h \in clients
         THEN /\ told' = IF previous[h] = "offline" THEN [told EXCEPT ![h] = "up"] ELSE told
              /\ previous' = StatusNoted(h, "online")
         ELSE UNCHANGED <<previous, told>>
    /\ UNCHANGED <<db, linked, born, mem, clients, certs, task, departing, held, due, contested, requests>>

(* The transition is judged on host_previous_status as it is after the     *)
(* await; the listing also fails when remove_host closes its client.       *)
ListFails(h) ==
    /\ At(h, "listing") /\ mem[h] # "agent"
    /\ poll' = Idle
    /\ online' = IF held THEN online \ {h} ELSE online
    /\ told' = IF previous[h] # "offline" THEN [told EXCEPT ![h] = "down"] ELSE told
    /\ previous' = StatusNoted(h, "offline")
    /\ UNCHANGED <<db, linked, born, mem, clients, certs, task, departing, held, due, contested, requests>>

(* An agent host is listed by a command to its agent, which may fail; no   *)
(* event is sent either way.                                               *)
AgentLists(h) ==
    /\ At(h, "listing") /\ mem[h] = "agent"
    /\ poll' = Idle
    /\ \E answered \in BOOLEAN :
         online' = IF ~held THEN online ELSE IF answered THEN online \cup {h} ELSE online \ {h}
    /\ UNCHANGED <<db, linked, born, mem, clients, certs, task, departing, held, due, previous,
                   told, contested, requests>>

----------------------------------------------------------------------------
(* validate_engine_ids_periodic. *)
ValidateEngine(h) ==
    /\ h \in clients /\ h \in ActiveRows /\ row[h].kind # "agent" /\ ~row[h].engine
    /\ row' = [row EXCEPT ![h].engine = TRUE]
    /\ UNCHANGED <<agent, token, filed, linked, born, memory, certs, task, departing, polling, contested, requests>>

(* cleanup_orphaned_certificates, daily. *)
CleanupCertificates ==
    /\ \E h \in certs : ~Exists(h)
    /\ certs' = {h \in certs : Exists(h)}
    /\ UNCHANGED <<db, linked, born, memory, task, departing, polling, contested, requests>>

SaveSetting(k, h) ==
    /\ Request
    /\ filed[k] = None /\ Exists(h)
    /\ filed' = [filed EXCEPT ![k] = h]
    /\ UNCHANGED <<row, agent, token, linked, born, memory, certs, task, departing, polling, contested>>

Loaded == ActiveRows

(* The backend stops at any point and starts again.                        *)
(* _load_persistent_config: agent hosts are offline until they reconnect;  *)
(* a Docker host that does not answer loses its certificate files to       *)
(* add_host's except block and is loaded as offline.                       *)
Restart ==
    LET docker == {h \in Loaded : row[h].kind # "agent"} IN
    /\ Request
    /\ \E answering \in SUBSET docker :
         clients' = answering /\ online' = answering /\ certs' = certs \ (docker \ answering)
    /\ linked' = {}
    /\ mem' = [h \in Ids |-> IF h \in Loaded THEN MemKind(row[h].kind) ELSE "absent"]
    /\ task' = [h \in Ids |-> "idle"] /\ leaving' = [h \in Ids |-> "no"]
    /\ retiring' = [h \in Ids |-> "no"] /\ poll' = Idle /\ held' = FALSE /\ due' = Ids
    /\ previous' = [h \in Ids |-> "unknown"] /\ told' = [h \in Ids |-> "nothing"]
    /\ contested' = {}
    /\ UNCHANGED <<db, born>>

----------------------------------------------------------------------------
PollStep(h) ==
    \/ Poll(h) \/ PollSkips(h) \/ PollAgent(h)
    \/ ConnectSucceeds(h) \/ ConnectFails(h) \/ Announced(h) \/ Registered(h)
    \/ ListSucceeds(h) \/ ListFails(h) \/ AgentLists(h)

Next ==
    \/ \E h \in Ids :
         \/ AddHost(h) \/ AddHostConnects(h) \/ AddHostSaves(h) \/ AddHostFails(h)
         \/ UpdateHost(h) \/ UpdateForgets(h) \/ UpdateToAgent(h) \/ UpdateConnects(h) \/ UpdateFails(h)
         \/ RemoveHost(h) \/ RemoveForgets(h) \/ RemoveDeletes(h) \/ RemoveUnmonitored(h)
         \/ MigrationForgets(h) \/ MigrationUnregisters(h)
         \/ AgentReconnects(h) \/ AgentDisconnects(h)
         \/ ValidateEngine(h)
    \/ \E h \in Polled : PollStep(h) \/ BackoffExpires(h)
    \/ \E h \in Ids, forced \in BOOLEAN : RegisterAgent(h, forced)
    \/ \E old, h \in Ids : MigrateHostToAgent(old, h) \/ ChooseHost(old, h)
    \/ \E k \in Settings, h \in Ids : SaveSetting(k, h)
    \/ RequestToken \/ TokenExpires
    \/ CleanupCertificates \/ Restart

(* The monitoring loop comes round to every host; a call to a daemon ends, *)
(* and a daemon that is asked again and again answers at last; a backoff   *)
(* passes.                                                                 *)
Fairness ==
    \A h \in Polled :
      /\ WF_vars(Poll(h)) /\ WF_vars(BackoffExpires(h)) /\ WF_vars(poll # Idle /\ PollStep(h))
      /\ SF_vars(ConnectSucceeds(h)) /\ SF_vars(ListSucceeds(h))

Spec == Init /\ [][Next]_vars /\ Fairness

----------------------------------------------------------------------------
(* A single-use registration token admits one agent, although an agent is  *)
(* admitted by two different paths and only one of them looks at the count *)
(* again before it uses the token.                                         *)
TokenWithinUses == token.kind = "single" => token.uses <= 1

(* Two agents of one engine exist only if the later one asked for it       *)
(* (idx_agent_engine_id_strict): at most one agent is strict.              *)
OneAgentPerEngine == Cardinality({h \in Ids : agent[h] = "strict"}) <= 1

(* No interleaving of polling, removal, migration and restart leaves a     *)
(* client behind whose host is gone (attempt_reconnection: "otherwise we'd *)
(* leak the open daemon connection").  Contested hosts are excepted: the   *)
(* worker thread of update_host races with the loop.                       *)
ClientHasHost == \A h \in clients \ contested : mem[h] # "absent"

(* A host that has been replaced by an agent is monitored no more once the *)
(* migration has cleaned up, and never again.                              *)
RetiredStaysRetired ==
    \A h \in Ids \ contested :
      row[h].replaced # None /\ retiring[h] # "announcing" => mem[h] = "absent" /\ h \notin clients

(* Every active host in the database is monitored, also after a restart at *)
(* any point, except while it is removed and unless an edit failed.        *)
ActiveIsMonitored ==
    \A h \in ActiveRows \ contested : mem[h] # "absent" \/ leaving[h] = "unregistering"

(* What was last announced about a Docker host is what the discovery       *)
(* remembers, so that each outage is announced once and each recovery      *)
(* follows an outage.                                                      *)
ReportedIsKnown ==
    \A h \in Ids \ contested :
      mem[h] = "docker" => (told[h] = "down" <=> previous[h] = "offline")

(* What a step does to the settings k: they stay with their host, follow   *)
(* it when it is replaced, and are deleted with it.                        *)
Carried(k) ==
    LET h == filed[k]
    IN \/ h = None
       \/ row'[h].kind = None /\ filed'[k] = None
       \/ row'[h].kind # None /\ row'[h].replaced # row[h].replaced /\ filed'[k] = row'[h].replaced
       \/ row'[h].kind # None /\ row'[h].replaced = row[h].replaced /\ filed'[k] = h

(* Whichever way a host comes to be replaced, removed or edited, and       *)
(* whatever is going on with it, the settings that are filed under         *)
(* composite keys go with it: they are lost only with their host or with   *)
(* the host it was migrated to.                                            *)
SettingsSurvive == [][\A k \in Settings : Follows(k) => Carried(k)]_vars

(* "Transfer container settings (auto-restart, tags, desired states)"      *)
(* (_migrate_host_to_agent): no settings stay behind with a retired host.  *)
SettingsAreTransferred == [][\A k \in Settings : Carried(k)]_vars

(* A monitored Docker host whose daemon answers now and then comes online: *)
(* the backoff never keeps it out for ever.                                *)
ReachableHostComesBack ==
    \A h \in Polled : mem[h] = "docker" ~> (h \in online \cap clients \/ mem[h] # "docker")

(* A token and an engine id admit one agent, on either path of            *)
(* registration.                                                           *)
RegistrationIsOnce == TokenWithinUses /\ OneAgentPerEngine

(* The hosts in the database, the ones monitored, their clients and what   *)
(* was announced about them agree.                                         *)
HostsAgree ==
    /\ TypeOK
    /\ ClientHasHost /\ RetiredStaysRetired /\ ActiveIsMonitored /\ ReportedIsKnown
============================================================================
