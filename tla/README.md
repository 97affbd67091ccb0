# DockMon in TLA+

DockMon watches and operates Docker hosts. A Python backend (FastAPI on one
asyncio loop, SQLite) holds the state and drives the hosts, either directly
through the Docker API or through a Go agent that connects to it over a
WebSocket. Two Go services run beside the backend: `compose-service` executes
updates and compose deployments, `stats-service` collects statistics.

This directory specifies the parts of DockMon whose correctness depends on
interleavings, failures and long sequences of legal calls, checks them with TLC
on small instances, and proves all of their safety properties with TLAPS for
every value of the constants. `PROJECT.json` maps each definition
to the lines it models, and lists runs, mutants, hazards and theorems.

## 1. Inventory

| Component | State it keeps | Operations | Interacts with | Module |
|---|---|---|---|---|
| Agent connections (`backend/agent/connection_manager.py`, `websocket_handler.py`) | registry agent -> socket, agent row and status | authenticate, register, unregister, message loop | shells, event bus, host removal | `AgentLink` |
| Web shells (`shell_manager.py`, endpoint in `main.py`) | session id -> browser socket | start, data, close, close all of an agent | agent connections, permissions | `AgentLink`, `Access` |
| Agent commands (`command_executor.py`) | pending futures, one circuit breaker per agent | execute with retry, match a response, admit or reject | agent connections, every remote operation | `AgentCommand` |
| Rolling update (`shared/update`) | none of its own: containers, names and run states on the host | pull, back up, create, verify, recreate dependents, roll back | Docker daemon, backup cleanup job | `RollingUpdate`, `Replacement` |
| Update coordination (`backend/updates/update_executor.py` and helpers) | containers being updated, pending completions, records keyed by container id | update_container, completion handler, record migration | agent commands, compose-service, rolling update | `UpdateCoordinator` |
| Update checks (`update_checker.py`, `registry_adapter.py`, policies, action tokens, image pruning) | update record, digest caches, tokens, settings | check, announce, select automatic updates, act on a link, prune | update coordination, monitor, notifications | `UpdateChecks` |
| Stack deployments (`backend/deployment`) | deployment row (status, committed), container links | create, execute, edit, delete, roll back, agent events | agent commands, compose-service | `Deployment` |
| Stack storage (`stack_storage.py`, `stack_routes.py`, `routes.py`) | directories, metadata rows, deployment rows | create, edit, rename, copy, import, delete, deploy | deployments | `Stacks` |
| Alerts and notifications (`backend/alerts`, `notifications.py`, `blackout_manager.py`) | alert rows with dedup keys, delayed alerts and clears, notification stamps, retry queue | evaluate metric or event, resolve, snooze, verify, notify, suppress, retry | event bus, updates, monitor | `Alerts` (event rules) |
| Hosts (`docker_monitor/monitor.py`, `agent/manager.py`) | host and agent rows, hosts and clients in memory, backoff, tokens | add, edit, remove, poll, reconnect, register an agent, migrate to an agent, restart | everything | `Hosts` |
| Containers (`docker_monitor`, `health_check`, `batch_manager.py`, `periodic_jobs.py`) | restart attempts and flags, health check rows and loops, job and item rows | discover, restart, probe, run a batch, clean up | operations, agents, database | `Containers` |
| Access (`backend/auth`, `websocket/connection.py`) | users, groups, grants, keys, sessions, OIDC configuration, browser sockets | sign in, edit, revoke, refresh sockets | every request | `Access` |
| Agent process (`agent/`) | reconnect state, background jobs, statistics backlog | connect, dispatch, long-running jobs, self-update | backend | its jobs, in `UpdateCoordinator`, `Deployment` and `Stacks` |
| Statistics (`stats-service`, persistence), event log, audit log, UI, migrations | see `PROJECT.json` | | | not modelled |

What is hard here:

* **One event loop, many coroutines, and some threads.** Between two awaits the
  backend is atomic; across an await everything may have changed. Reconnects,
  teardowns, status writes and shell closures of one agent run in different
  coroutines; adding and editing a host and all file operations of stacks run in
  worker threads.
* **Work that outlives its caller.** Updates and deployments run on the agent or
  in compose-service under a detached context. The backend may give up (timeout,
  broken stream, restart) while the job goes on, and the answer may come late,
  never, or while a later call waits for an answer of its own.
* **Many-step operations on Docker**, each step of which can fail, including the
  steps of the rollback.
* **Identity that changes**: an updated container has a new id, a host that is
  taken over by an agent has a new id, and all records must follow exactly once.
* **One fact, several copies**: a host is a row, an entry in `hosts`, a client and
  a remembered status; a user's rights are rows and a cached set on each socket;
  a stack is a directory and a row. Each copy is written by different code.
* **One row, many writers**: an alert is written by event handlers, five
  background loops, the retry queue and users, each selecting on columns that the
  others write, and the same row serves every episode of the alert.
* **Shared counters and deadlines**: circuit breaker windows, restart attempts,
  failed logins, retries, timeouts.

The hazards that follow from this are listed in `PROJECT.json`, each at the line
where it bites and with the properties that would catch it.

## 2. Conventions

A step of a model is the code between two points where a coroutine can be
suspended, or one call to the Docker daemon. Database sessions are synchronous,
so a session that is opened and committed without an await is part of the step
around it. Acquiring an uncontended `asyncio.Lock` does not suspend.

Each component has a module; `MC<component>` adds what TLC needs beyond it;
`<component>Proofs` holds the theorems, where two components of one part of the
system share a module of proofs: `AgentLink` has its theorems in
`AgentCommandProofs`, `Stacks` in `DeploymentProofs`, `UpdateChecks` in
`RollingUpdateProofs`. The specifications of these three, and of `Containers`, are
therefore named after their module (`LinkSpec`, `StacksSpec`, `ChecksSpec`,
`ContainersSpec`). Definitions marked *Mutant* in a comment
are plausible bugs; they are not part of any specification. `PROJECT.json` says
which definition each replaces and which property then fails.

A property that a run checks is often a conjunction of named parts, each with a
comment of its own; sections 3 and 4 name the parts.

Where a docstring, comment or test of DockMon promises more than the code keeps,
that promise is a property too, with a configuration of its own that TLC finishes
with a counterexample (section 4, third table; section 6 tells the behaviours). The
properties that hold are then stated so that they except exactly that case.

All runs except `alerts` use `CHECK_DEADLOCK FALSE`: each model has a finite
supply of requests, sockets or calls, and the system may come to rest once they
are used up. "Nothing is stuck" is stated by the liveness properties instead.

*Scenarios.* `Containers`, `UpdateChecks` and `Stacks` have more features than
can interleave in one run. Their variable `uses` holds the set of features in
use in a behaviour, chosen in `Init` from the constant `Scenarios` and never
changed; an action whose feature is not in use does not happen. The scenarios
bring together the features that write the same state.

*History variables* (marked so in the modules) record what happened but are not
read by any action that models code, except as bounds. Some name cases that a
property excepts; each of these exceptions is a behaviour of the code that is
reported in section 6. `mixed` of `Stacks` and `contested` of `Hosts` are such.

## 3. The modules

### AgentLink

`hpc[s]` is the point that `handle_connection` has reached for socket `s`:
*new*, *authed*, *closing_old* (in `register_connection`, holding the lock while
the old socket is closed), *syncing*, *loop*, *teardown*, *emitting* (the
disconnect event), *closing_shells*, *done*. `connections` is the registry,
`status` and `row` the agent's database row, `reported` the last host event,
`shell`, `openedOn` and `toClose` the web shells and the snapshots that
teardowns work through. `RemoveHost`, `RemoveShell` and `DeleteRow` are
`remove_host`. Sockets, browsers and operators act at any time.

* `RegistryFollowsSocket`: the identity gate of `unregister_connection` is right
  in both directions (`NoZombieEntry`: no entry stays whose handler is finished;
  `LiveSocketIsRegistered`: no late teardown evicts a live socket), and status
  writes and host events made outside the lock still follow the live connection
  (`LiveAgentIsOnline`, `LiveHostReportedUp`).
* `TeardownSparesLiveShells`: a snapshot of shells to close never contains one
  that was opened on the connection registered now.
* `DeadSocketIsDropped` (liveness): a registered socket whose peer has gone is
  eventually dropped.

### AgentCommand

Calls of `execute_command` for one agent, sharing its circuit breaker. A message
travels per attempt (`message[<<call, n>>]`), can be lost or delayed until long
after the attempt timed out, and can be answered while the send is still being
awaited. The breaker is a record transformed by operators named after the
methods. Failure timestamps are pairs of time and call.

* `PendingIsAwaited`: `_pending_commands` holds exactly the attempts that some
  call is sending or awaiting. This matters because the periodic sweep of that
  table has no caller.
* `SuccessIsOwnResponse`: a call that reports success got the answer to its own
  last attempt.
* `BreakerWithinThresholds`: counters, opening time and state agree.
* `BreakerEdges`: the breaker takes only the edges of its state diagram, and
  leaves OPEN only when its timeout has expired.
* `CallReturns` (liveness): every call returns to its caller.

### RollingUpdate and Replacement

A container is `<<p, v>>`, the old or new container of the parent or a
dependent; `name` says whether it holds its proper name, a backup or temporary
name, or does not exist. `pc` walks through `Update`, `RestoreBackup` and
`recreateDependentContainer`, one Docker call per step, and every call may fail.
`Exit` lets any container stop, `Kill` ends the updater anywhere, and
`ListBackup` and `CleanupOldBackup` are the backend's periodic job: it goes by the
age of the container, which `longAgo` leaves open in `Init`, and removes what it
has listed under whatever name that has by then.

`Replacement` is what the owner of the workload relies on, in four variables and
without Docker calls: the name passes from the old container over nobody to the
new one and perhaps back; the old one is given up only for a verified one, except
that a `perishable` one may be gone at any time (`Expire`); a report is true when
it is made. What is perishable is a container older than a day, and everything
once a day has passed (`Age`). `RollingUpdate` implements it under the mapping
`exists <- Remaining`, `holder <- Holder`, `outcome <- result`.

* `NothingIsLost` (`WorkloadSurvives`, `DependentsSurvive`): nothing that is being
  replaced disappears before its replacement has been verified, unless the daily
  job took it.
* `BackupIsKeptADay`: within a day of the update that job takes no backup that is
  all there is of the workload. Refuted.
* `ResultIsTruthful` (`TruthfulSuccess`, `TruthfulRollback`): what the caller is
  told is so.
* `ImplementsReplacement`: the refinement.
* `UpdateEnds` (liveness).

### UpdateCoordinator

Calls of `update_container` for one logical container whose id grows with every
successful job. `job`, `created` and `event` are the update elsewhere and its
`update_complete`; `pending` and `signal` are the registry and the events of the
waiting calls; `dbKey` is the id that the records are filed under. `RollingUpdate`
appears as `JobStarts`, `JobSucceeds`, `JobFails`.

* `CallsOwnTheirContainer` (`OneCallPerContainer`, `RegistryEntryIsOwn`): the mark
  and the registry entry of a container belong to exactly one call.
* `ResultsAreReal` (`SuccessIsReal`, `RecordsFollowContainer`): even when the
  completion of an abandoned call answers a later one, the reported success and
  the move of the records correspond to a replacement that took place.
* `CallsEnd` (liveness).

### Deployment

One deployment row and the executions requested for it. `status`, `committed`,
`links` and `via`, the connection type of its host, are the row; an edit may move
it to another host at any time (`EditEnd`), while executions and agents work on
for the host they were started for (`where`). `host` is what runs on each host;
`seen` remembers what an execution's session has loaded of the row, because
SQLAlchemy writes only attributes that changed. Requests, edits and deletion come
at any time; from an agent, status and result come as events that can be lost or
late, and are written to the row wherever it is by then. `delegated` (history) says
that the last writer of the status was one that leaves the rest to an agent.

* `InProgressIsOwned`: an in-progress status that is not delegated always has an
  execution at work that will replace it, also after the row was moved.
* `InProgressIsExecuting`: so has a delegated one, or an agent's result is still to
  come. Refuted.
* `RollbackSparesCommitted`: a rollback removes no container that was committed.
  Refuted.
* `ExecutionEnds` (liveness).

### Alerts

One alert: an event rule of kind `container_stopped`, one container, one row of
`alerts_v2`, and everything that writes it. `alert` is the row, reduced to its
state and to which of its stamps are set; `pendingFire` and `pendingClear` are
the engine's two in-memory maps of delayed alerts and clears; `retry` is the
attempt count of the retry entry. `pc` says of each event handler and each loop
whether it is idle, awaits the container query of a verification, or awaits the
channels; these are the only awaits that suspend. `view` is what a verifying
loop works with meanwhile: its detached copy of the row, and whether the
container has been down ever since. `down` and `event` are the container and the
state change on its way to the engine. The rule is chosen in `Init` and can be
switched off and on.

`Stopped` and `Started` are `handle_container_event`; `FirePending` and
`ClearPending` are the loop of delayed alerts and clears; `LoadPending`,
`ResolveSilently` and `SendNotification` the notification loop;
`LoadSuppressed` the loop that takes up alerts after a blackout; `ProcessRetry`
the retry queue; `DispatchResolve` and `ResolveSent` the recovery messages.
`BeginSend`, `SendSucceeds` and `SendFails` are `send_alert_v2`, called from
four of these.

* `PendingIsCurrent` (`PendingFireIsCurrent`, `PendingClearIsCurrent`): a delayed
  alert or clear never outlives a report of the opposite state.
* `OpenAlertIsNotified` (liveness): an open alert is notified, or given up after
  24 hours, unless it is resolved or snoozed first. No combination of flag, stamp
  and failed sends leaves it to none of the loops.
* `SuppressedAlertResurfaces` (liveness): the blackout flag does not stay.

### Hosts

The docker_hosts and agents rows (`row`, `agent`, `token`, and `filed`, the host
id that a container's settings are filed under), the monitor's memory (`mem`,
`online`, `clients`), and the coroutines and threads that work on them: `task` is
the worker thread of `add_host` or `update_host`, `leaving` is `remove_host` or
the clean-up after a migration, `poll` with `held` is `get_containers` and
`attempt_reconnection` for one host, which works on the DockerHost object it
found at the beginning even if another has taken its place. `previous` and `told`
are the discovery's remembered status and the last host event. Every host
reports the same engine id, the case in which the uniqueness checks matter.
`RegisterAgent`, `MigrateHostToAgent` and `ChooseHost` are the three paths to an
agent host; `Restart` is a backend that stops anywhere and runs
`_load_persistent_config`.

* `RegistrationIsOnce` (`TokenWithinUses`, `OneAgentPerEngine`): a single-use token
  and an engine id admit one agent, on either path of registration.
* `HostsAgree` (`ClientHasHost`, `RetiredStaysRetired`, `ActiveIsMonitored`,
  `ReportedIsKnown`): rows, memory, clients and announcements agree through every
  interleaving of polling, removal, migration and restart.
* `SettingsSurvive`: settings that are filed under composite keys are lost only
  with their host, and follow it when it is replaced.
* `SettingsAreTransferred`: all settings do. Refuted for those under short ids.
* `ReachableHostComesBack` (liveness): the backoff never keeps a host out for ever.

### Containers

One container that may be recreated under a new id (`live`, `up`), on a host that
may be unreachable (`reach`), and everything that acts on it. `listed` and `sweep`
are the monitoring loop with its list, `dies` the Docker events on their way;
`cfg`, `memo`, `attempts` and `flag` the auto-restart setting, its cached status,
the attempts and the set of containers being restarted; `task` the
`auto_restart_container` tasks; `check`, `loop`, `episode` the health check row,
its loop with the status it had loaded, and the restart episode; `job` the batch
job with counters and items; `maint` the daily maintenance, which awaits a list of
containers before it deletes by it. Operations exist twice, directly and by
agent.

* `RestartsAreBounded` (`OneRestartTask`, `StatusFollowsSetting`,
  `EpisodeIsLimited`): one task per container, settings obeyed, limits kept, by
  whichever of the two restarters.
* `JobIsToldTruly` (`CountersMatchItems`, `VerdictIsTrue`).
* `WorkIsDone` (liveness: `StoppedIsRestarted`, `EnabledCheckRuns`,
  `JobIsFinished`).
* `SettingsAreKept`: as long as the container is the same, what applies to it
  (`InForce`: its own settings once it was discovered, before that the ones it is
  still to take over from its predecessor) changes only with its user's edits,
  whatever is discovered, checked, lost, unreachable or cleaned up. The clean-up by
  a list that is older than the container, and the restart, are excepted:
* `CleanupIsOfDeleted`, `RestartKeepsSettings`: those two change nothing either.
  Refuted.

### UpdateChecks

How an update is found and decided on, for one container under all its ids.
Images are numbered by version; `head` is what each tag stands for in the
registry, `img` what each id was created from, `ltag` and `images` what the host
has. `rec` is `container_updates`, `latest` its row with the last `updated_at`
(re-attachment looks for no other), `stored` and `memory` the two digest caches,
`token` the cached registry authentication, `check` the scheduled and the
requested check, each of which awaits the registry between reading and writing,
`upd` the update under way with its migration of the record, `link` the one-time
token in a notification, `prune` the images `cleanup_old_images` has listed,
`dockmon` the check for releases of DockMon. Labels, policies and patterns
(`label`, `rec.policy`, `pattern`) decide who may update, `own` is DockMon's own
container, `skipped` the setting that leaves Compose containers out of checks, and
`saving` a request that awaits between looking for the row and inserting it.
`kind`, `versioned` and `named` say where the image comes from, whether its
versions can be read, and whether its name has a registry host: without readable
versions there is no protection from downgrades (`IsDowngrade`), and an image
without a registry host is marked as local when the registry denies it, be it that
the token service failed (`TokenIsLost`, `RegistryDenies`).

* `OfferIsTrue` (`OfferIsNewer`, `OfferIsAnnounced`): an offer is another image than
  the one that runs, a newer one if versions can be read, and was announced,
  unless the container has run that version or a newer one before.
* `NoDowngradeIsOffered`: an offer is newer in any case. `LocalMarkIsTrue`: no public
  image is marked as local. Both refuted.
* `SettingsFollow`: the user's settings follow the container to a new id, whether
  discovery or the migration comes first.
* `NothingForbiddenIsDone` (`LabelForbids`, `LinkActsOnce`, `PruneSparesUsed`).
* `UpdateIsFound` (liveness): a newer version is found in spite of caches and
  failures, false local marks among them, unless checks exclude the container.

The e-mailed link itself starts no update: `consume_action_token` uses up the token
and returns the action, and the page then calls the endpoint of `UserUpdate`, with
its own session. That use of a link acts once is `LinkActsOnce`; that the update
obeys the label is `LabelForbids` for `UserUpdate`.

### Stacks

`dir` is the stack directories, `meta` and `rows` the metadata and deployment rows,
`req` the requests with the point each has reached (every file operation runs in
a worker thread, so that requests on one stack interleave between them), `run`
the compose run that a deployment has started. Content is named by the request
that wrote it; a directory has a generation, so that a rename can be told from a
new directory of the same name. Files are written beside their place and renamed
(`Writable`, `WriteCompose`), but `copytree` opens the directory, then copies file by
file in place (`CopyBegins`, `CopyFile`, `FillFile`, `CopyEnds`), and `rmtree` removes
file by file and last the directory (`RemoveFiles`, `RemoveFile`, `RemoveDir`); other
requests and deployments come between these steps. `torn` is the copy that has yet
to write the rest of a compose file, `Half` what a deployment reads of it. Writes
fail, streams break, events are lost, the backend dies anywhere.

* `ShippedFilesAreWhole` (`FilesAreWhole`, `OnlyReferencedIsShipped`): half a compose
  file comes only from a copy that is under way or was cut off (or from copying
  such a copy), and a deployment ships an env file only if what it ships refers to
  it.
* `NoHalfStackIsDeployed`, `StacksAreRecorded`, `NoNameIsBlocked`: a copy is not
  deployed by halves; at rest every stack has its metadata, and only a stack keeps
  a name from being used. Refuted, the last two without overlapping requests.
* `NothingIsReplaced`: creating and renaming never replace another stack's compose
  file; a create replaces at most what a request that overlapped with it has
  written into the directory that the create has made itself.
* `DeploysAreReported` (`ReportIsTrue`, and the liveness `DeployIsReported`).

### Access

Accounts, groups with grants and tag scopes, API keys, sessions, OIDC
configuration and sign-ins (`flow`), and browser sockets (`sock`). A socket has the
capabilities twice: in the manager (`caps`, with the visible hosts `sees`), which
decides what is delivered and is refreshed, and in a variable of the endpoint
(`own`), which decides on statistics subscriptions and is not. Endpoints
that do not await between check and commit are one step; accepting a socket,
refreshing the visible hosts of a user's sockets (`behind`) and closing shells are
several. `Restart` runs `_ensure_default_groups` and forgets sessions and sockets.

* `LiveKeyIsAnchored`: a key that works has a group and a user who answers for it.
* `OpenSocketsAreAllowed` (`SocketIsCurrent`, `ShellIsAllowed`): a right that is
  taken away while a socket is being accepted does not survive in what the manager
  delivers, nor does a shell.
* `EndpointIsCurrent`: nor in the endpoint's variable. Refuted.
* `NoLockout` (`AdminRemains`, `EveryUserHasAGroup`, `SsoOnlyIsUsable`,
  `EditsKeepCritical`): no sequence of legal edits, sign-ins and restarts leaves
  nobody in the administrators' group, a user without a group, or no way to sign
  in; no edit of permissions and no deletion takes a critical capability from its
  last holder.
* `CriticalIsHeld`: no edit of memberships does either. Refuted.
* `HiddenHostsAreDropped` (liveness): a socket that a refresh has passed over, because
  it had to close another socket's shell first, is refreshed in the end
  (`AccessSockets.cfg`).

## 4. Runs and bounds

| Run | Properties | Instance | Why it is enough |
|---|---|---|---|
| link | RegistryFollowsSocket, TeardownSparesLiveShells, DeadSocketIsDropped | 1 agent, 3 sockets, 1 shell | a superseding and a superseded socket plus one more in teardown, a close under the lock while a teardown waits for it. Agents share only the lock; shells do not affect each other |
| command_retry | PendingIsAwaited, SuccessIsOwnResponse, CallReturns | 2 calls, 2 attempts, a good and a malformed reply | late answers within a call and between calls; the error replies differ only in the code that is returned |
| command_breaker | BreakerWithinThresholds, BreakerEdges | 4 calls, thresholds 2 and 2, window 1, timeout 1, time 0..2 | fail, open, time out, half-open with two probes, close or reopen |
| update | NothingIsLost, ResultIsTruthful, ImplementsReplacement, UpdateEnds | 2 dependents, legacy API, container of any age | all steps including the separate network connect; a second dependent after a failed one; the cleanup at any step |
| coordinator | CallsOwnTheirContainer, ResultsAreReal, CallsEnd | 3 calls, ids 0..2 | an abandoned call, its successor on the same id, and one on the new id |
| deployment | InProgressIsOwned, ExecutionEnds | 2 executions, both kinds of host to begin with, edits that move the row to the directly connected one | two crossing executions, one for the host the row has left. An agent's late event is what a move can bring to the wrong row; the other direction brings none, and is in the proof |
| alerts | PendingIsCurrent, OpenAlertIsNotified, SuppressedAlertResurfaces | 1 handler, 4 rules (immediate; all delays; auto-resolving; no channels), 2 retries, 1 blackout | the handler, the five loops and the users interleave freely on a container that stops and starts without bound; a second window adds no new state of the flag |
| hosts | RegistrationIsOnce, HostsAgree, SettingsSurvive, ReachableHostComesBack | 2 host ids, one of them polled, 2 requests | a Docker host and the agent that takes it over, or two hosts; polls of different hosts share nothing. Two requests suffice for a token and a choice, a removal of what was edited, a restart after a removal |
| containers | RestartsAreBounded, JobIsToldTruly, WorkIsDone, SettingsAreKept | 2 ids, 2 tasks, 3 items at 2 per host, 2 retries, 2 restarts per episode, 6 scenarios of 3 or 4 requests | a container and its successor; a second task is the one the flag must refuse; an item waits for the semaphore while two run |
| updatechecks | OfferIsTrue, SettingsFollow, NothingForbiddenIsDone, UpdateIsFound | 3 ids, 3 versions, 15 scenarios of 3 or 4 requests | an update and a recreation after it; a cached version older than the one installed meanwhile; two checks at once; images with and without readable versions and registry host |
| stacks | ShippedFilesAreWhole, NothingIsReplaced, DeploysAreReported | 2 names, 2 or 3 requests, 1 fault, 9 scenarios | two stacks exchange names; a third request comes between the steps of two others; each deployment has its own stream and report; faults are not combined |
| access | LiveKeyIsAnchored, OpenSocketsAreAllowed, NoLockout | 3 users (one from OIDC), 3 groups (two system groups), 1 key, 1 socket, 3 requests | the founder, another administrator, a user of the provider; what is kept of a socket depends on that socket and its user |

`PROJECT.json` lists the runs above. Beside them are instances to be run by hand
(`tlc -config X.cfg MCY`, seconds each, except the first: 2.5 minutes). One holds:

| Instance | Property | Why it is apart |
|---|---|---|
| AccessSockets.cfg, MCAccess | OpenSocketsAreAllowed, HiddenHostsAreDropped | with two sockets, one of which is passed over while the shell of the other one is closed, three edits are affordable only without keys and OIDC |

The others end with a counterexample. Each checks one property, which a docstring or
comment of the code promises and the code does not keep; section 6 says how:

| Instance | Property | Behaviour | What the code says (under `src/backend`) |
|---|---|---|---|
| BackupAge.cfg, MCRollingUpdate | BackupIsKeptADay | an old container is set aside, the cleanup lists and removes it | "Remove backup containers older than 24 hours." (`docker_monitor/periodic_jobs.py:773`) |
| DeploymentStuck.cfg, MCDeployment | InProgressIsExecuting | a lost or late agent event leaves an in-progress status | "These states indicate the deployment is in progress", "Wait for completion or failure." (`deployment/routes.py:985`, `990`) |
| DeploymentRollback.cfg, MCDeployment | RollbackSparesCommitted | a redeploy resets the flag and its rollback removes what ran before | "This prevents rollback operations from destroying successfully committed state, even if post-commit operations fail." (`deployment/state_machine.py:32`) |
| StacksCopy.cfg, MCStacks | NoHalfStackIsDeployed | a deployment reads the file that a copy is writing | "Atomic operations (create_only, rename, copy, delete)" (`tests/unit/stacks/test_stack_storage.py:8`) |
| StacksRecorded.cfg, MCStacks | StacksAreRecorded | an import writes no metadata | "Create metadata if it doesn't exist (for pre-v2.3.0 stacks)" (`deployment/stack_routes.py:350`) |
| StacksBlocked.cfg, MCStacks | NoNameIsBlocked | a create fails after mkdir | "(with create_only) the stack already exists." (`deployment/stack_storage.py:428`), a stack being one of the "directories containing a compose file" (`588`) |
| AccessEndpoint.cfg, MCAccess | EndpointIsCurrent | a capability is revoked while a socket is open | "Refresh what open WebSocket connections are allowed to receive: capabilities and the visible-host set." (`auth/custom_groups_routes.py:72`) |
| AccessCritical.cfg, MCAccess | CriticalIsHeld | the last holder is removed from the group | "Capabilities that must always be held by at least one group with members" (`auth/utils.py:225`) |
| HostsTransfer.cfg, MCHosts | SettingsAreTransferred | an agent takes over a host with auto-restart settings | "Transfer container settings (auto-restart, tags, desired states)" (`agent/manager.py:634`) |
| ContainersCleanup.cfg, MCContainers | CleanupIsOfDeleted | a container is recreated and discovered after the listing | "Clean up stale container-related database entries (for deleted containers)" (`docker_monitor/periodic_jobs.py:318`) |
| ContainersRestart.cfg, MCContainers | RestartKeepsSettings | a deleted health check is taken over again | "Reattach is idempotent setup; only run on first sight." (`docker_monitor/container_discovery.py:784`) |
| UpdateChecksDowngrade.cfg, MCUpdateChecks | NoDowngradeIsOffered | the cache answers with the version before the installed one | "Issue #147: Suppress false positive updates (downgrades)" (`updates/update_checker.py:412`) |
| UpdateChecksLocal.cfg, MCUpdateChecks | LocalMarkIsTrue | no token, hence 401, hence "local" | "Lets callers avoid misreading a transient blip as 'image not in any registry'." (`updates/registry_adapter.py:29`) |

A run with a liveness property uses no symmetry, which TLC would not handle
soundly there; `command_breaker` uses the symmetry of calls.

Bounds: `MaxTime` caps the clock, `MaxAttempts` the retries, `MaxId` the number of
successful replacements, `MaxBlackouts` the blackout windows, `MaxRequests` the
requests of users (and, where a module says so, restarts, pushes and
recreations), `MaxFaults` the faults of `Stacks`, `Tasks` the restart tasks at one
time, `Polled` the hosts that are polled. Sockets, shells, calls, ids and
executions are used once each, as their ids are in the code.

Each property of a listed run has a mutant: a definition that is changed the way a
plausible bug would change it, under which TLC finds the property violated in the same run.

## 5. Fairness

Fairness is weak and only on the steps of the code, except where stated.

* Coroutines that are ready run (`Handler`, `Execution`, `TaskStep`, `JobStep`,
  `Step`), and awaits end because they have a timeout (a command's `wait_for`, the
  300 s of the update registry, `asyncio.timeout(1800)`, the health check
  deadline, the timeouts of both compose clients). For `UpdateEnds` the Docker
  daemon must answer every call; compose-service bounds that by its 30-minute
  context, the agent relies on the daemon. Agents, browsers, networks and
  operators owe nothing.
* `Alerts`: the loops sleep for seconds and run on; sends end because the HTTP
  client has timeouts; blackout windows end and days pass because time does. A
  backoff or a delay may be over at any later moment; the model thereby assumes
  that re-triggers do not postpone the notification delay for ever.
* `Hosts`: the monitoring loop comes round to every host and backoffs pass (at
  most 300 s). Strong fairness of `ConnectSucceeds` and `ListSucceeds` is the
  premise of `ReachableHostComesBack`: a daemon that is asked again and again
  answers at last.
* `Containers`: the monitoring loop, the reload of health checks and the tasks go
  on.
* `UpdateChecks`: the daily check runs again and again, checks and updates end,
  cached digests expire. User requests are not assumed.
* `Access`: a socket that was accepted is registered, a socket that is closed is
  closed, the refresh after shells were closed takes place.

## 6. What modelling has shown about the code

The properties of the first two tables of section 4 hold, those of the third do not.
What refutes these, the exceptions that the others state, and other behaviour a
maintainer may want to know of, are listed here with the line where they arise
(under `src/backend` unless a path is given).

Connections, commands, updates, deployments:

* `remove_host` says that it closes the agent's WebSocket; it only forgets it, and
  the agent's handler keeps processing messages (`RemoveHost` in `AgentLink`).
* The check-and-set of `update_container` does not prevent two concurrent jobs on
  a container once the backend has given up waiting for the first
  (`WaitTimesOut`, `Release`).
* The cleanup of backups older than 24 hours looks at the creation time of the
  original container (`docker_monitor/periodic_jobs.py:810`). Of any container that
  is older than a day it can therefore remove the backup of an update that is at
  work, or that was killed a minute ago (`BackupIsKeptADay`); the update then fails,
  and has nothing to roll back to. All other theorems hold in spite of it.
* The row lock of the execute endpoint does not exist on SQLite, and the status
  changes only later: two requests can both execute a deployment.
* Redeploying a running stack resets the commitment point
  (`deployment/state_machine.py:176`); when the redeploy fails, the rollback
  removes the containers that were running before. It also decides on a flag that
  was loaded before an await (`deployment/executor.py:418`), which a late
  `deploy_complete` may have set since (`RollbackSparesCommitted`).
* A lost `deploy_complete`, or a `deploy_progress` that comes after the final
  report, leaves a deployment in progress with every operation on it refused
  (`InProgressIsExecuting`). Neither event is checked against the host that the row
  is on now, so that this happens to a row on a direct host too.
* Calls admitted before the circuit opened still report to it while it is OPEN,
  which the docstrings of `record_success` and `record_failure` exclude; the code
  ignores such reports.

Alerts:

* A failed retry queues a retry, which resets the attempt counter of the entry
  that is being retried (`notifications.py:1879`): it never reaches the maximum.
* A reopened alert keeps the stamp of its last recovery message
  (`alerts/engine.py:190`), so its next recovery is not announced.
* The clear timer of a metric rule is not reset when the metric fires again
  (`alerts/engine.py:976`, against the comment at 1022).

Hosts:

* `add_host` and `update_host` run in a thread without an event loop, so that
  their `asyncio.create_task` for the registration with the statistics service
  raises; a new host is registered at its next reconnection or restart
  (`docker_monitor/monitor.py:577`).
* A failed INSERT leaves the host in memory. `update_host` takes the host out of
  memory before it pings the new address and does not put it back; its thread can
  race with `remove_host` and with a reconnection. `contested` names these hosts.
* Migration to an agent moves the records with composite keys only; auto-restart
  and desired-state rows hold short ids and stay behind (`agent/manager.py:726`,
  `754`; `SettingsAreTransferred`). A migration to an agent host that already has rows for the same
  containers fails on a unique key.
* `migrate_from_host` does not unregister the old host from the statistics
  services, which `docker_monitor/monitor.py:1343` expects of every transition.
* A listing that fails because its host was just removed announces
  HOST_DISCONNECTED for it. The check for duplicate URLs is check-then-act.

Containers:

* The health check loop decides on a retry by the status it loaded before the
  check (`health_check/http_checker.py:177`); results that come from an agent or
  from the test endpoint do not reset the restart episode; the agent's results
  emit no CONTAINER_HEALTH_CHANGED, and `agent/websocket_handler.py:942` imports a
  name that does not exist.
* A *die* event handled before the first discovery caches "off" for a container
  whose setting is about to be re-attached (`early`). Switching auto-restart off,
  and the daily clean-up, take the restarting flag from a task at work
  (`cleared`); a task that sleeps still starts the container after auto-restart was
  switched off. Giving up after the last retry is remembered in memory only, and
  switching auto-restart on again leaves the attempts at their maximum.
* Auto-restart and desired state are not re-attached on agent hosts, and
  `delete_container` looks for the desired state under a key it is not stored
  under. A daily clean-up that lists before a container appears can delete its
  rows (`CleanupIsOfDeleted`).
* A health check that the user has deleted comes back with the next restart of the
  backend while the row of the container's predecessor is still there, because
  re-attachment only asks whether the container has a row (`RestartKeepsSettings`).
* Nothing resumes a batch job after a restart (`orphan`); its total counts
  containers that were not found. The daily resolution of stale alerts resolves
  all container alerts of hosts that cannot be listed.

Update checks:

* An older version is suppressed only if both versions can be read
  (`updates/update_checker.py:424`). Without them, the cached answer of a tag whose
  newer version was pulled by an update since is offered as an update
  (`NoDowngradeIsOffered`).
* The token request swallows timeouts and errors
  (`updates/registry_adapter.py:404`, `487`, `624`); the manifest request then fails
  with 401, which is taken as definitive, and an image without a registry host is
  marked as local (`LocalMarkIsTrue`). A later check corrects the mark.
* Once a check has found an update for any container, all pending ones with
  automatic updates are executed, also for a container that patterns or
  `skip_compose_containers` exclude from checks
  (`docker_monitor/periodic_jobs.py:641`; `OthersAreUpdated`).
* On agent hosts automatic and batch updates are not validated and labels are
  ignored (`updates/update_executor.py:561`, `main.py:2489`); `LabelForbids` is
  about direct hosts. A batch update needs a record but not an available update
  (`batch_manager.py:498`), and so may reinstall or go back. When it goes back, the
  row that migrates may already hold the digest of a newer image that was found
  meanwhile; the later offer of that image is then not announced, which
  `OfferIsAnnounced` excepts.
* The automatic selection re-reads only `update_available` before each update. A
  check that bypasses the cache still meets the adapter's two-minute cache. Of two
  checks the slower may store the older answer. A check in flight while the
  container is replaced stores a row under the old id (`stray`).
* Settings made on the new id before the migration are deleted by it. Private
  images without credentials, if their name has no registry host, are marked as
  local. Pruning goes by the build time
  of images. A crash between storing an offer and emitting its event loses the
  announcement.

Stacks:

* A copy writes its files in place (`deployment/stack_storage.py:546`), and can be
  deployed, copied or renamed meanwhile; when it is cut off, half a compose file
  stays (`NoHalfStackIsDeployed`). An import writes no metadata row
  (`StacksAreRecorded`).
* Renaming or deleting a stack leaves deployments with a name that no longer
  exists. A create or copy that fails before its compose file leaves a directory
  that can be neither created nor deleted (`NoNameIsBlocked`). Overlapping create and delete leave orphan
  metadata, after which a create answers 500. An update or a copy that was let in
  before a delete writes into the directory that a new create has made meanwhile,
  and is then replaced by the create. `mixed` names these stacks.
* An import without overwrite is check-then-write, and an import of a stopped
  stack, or of a stack that another user deployed, violates a database constraint
  after the files were written (`deployment/routes.py:1213`).
* Compose file and env file may come from two different edits when they are read
  during one.

Access:

* The endpoint of an open socket subscribes to statistics by capabilities that it
  has read when the socket was opened (`main.py:6330`); `realtime.py:140` checks what
  is sent against the manager's (`EndpointIsCurrent`).
* `remove_member`, `update_user` and the OIDC synchronization do not verify the
  critical capabilities (`CriticalIsHeld`); `EditsKeepCritical` is about edits of
  permissions and deletions. Copying another group's permissions onto a system group deletes rows,
  and a restart grants the defaults again; a restart re-adds the first user to the
  administrators. A session that expires does not close its sockets.

## 7. Proofs

The theorems are of the form `Spec => []P`, `Spec => [][A]_vars` or, for the
refinement, `Spec => R!Spec`, and hold for every value of the constants under the
named assumptions of each module. The shape is always the same: an inductive
invariant, one lemma for `Init`, one per action or group of actions, a temporal
conclusion by PTL.

* **AgentCommandProofs**, `CommandInv`. Adds that a future is resolved only with
  the outcome of its own id, that attempts not yet begun have no message and no
  entry, and that each failure in the breaker belongs to a call that has
  returned, which bounds the counters. `BreakerEdges` follows from the types:
  a report to an open circuit changes nothing, and a probe that fails at once
  leaves the circuit open.
* **AgentCommandProofs**, `LinkInv` (of `AgentLink`). The properties are not
  inductive alone. What makes them so: a registered socket authenticated as the
  agent it is registered for and has its own teardown ahead; the socket that holds the lock is exactly
  the one at *closing_old*; a socket that is served, open and not removed is the
  registered one, because being superseded closes it in the same step; a shell
  in a snapshot was opened on a socket that is registered no more, and a socket
  registers only once.
* **RollingUpdateProofs**, `UpdateInv` = `TypeOK`, `ParentInv` and
  `DependentInv`: for each program point, which of the two containers exist and
  under which name. For the refinement it also says that at most one of them has
  the workload's name and that the updater has ended exactly when a result is
  there. `UpdateImplementsReplacement` then maps each action to a step of
  `Replacement` or to a stutter. Nothing is assumed of the container's age: in each
  part of the invariant the old container exists or the daily job has removed it.
* **UpdateCoordinatorProofs**, `CoordinatorInv`. Adds that a job's event carries
  the id that the job created and that the job's target is smaller than what it
  created, so that a signal found by the old id, whoever waits under it, is about
  that very container.
* **RollingUpdateProofs**, `ChecksInv` (of `UpdateChecks`). `SettingsFollow` says
  nothing of a container that is not discovered yet, nor of the time between the
  replacement of a container and the migration of its row. `SettingsAreKept` says
  where the settings are then: in the latest row, which is the one that discovery
  will copy, and in the row that is about to migrate. `CheckedIsSeen` says that a
  check of the live container was preceded by its discovery, so that its result
  finds the settings in place. `OfferIsAnnounced` needs `RowsAreTrue`: a digest
  greater than the image was announced even while nothing is offered, because the
  next check compares with it. `ForbiddenIsStopped` adds that a forced update of a
  forbidden container is never even begun, since only the executor's second
  validation is skipped.
* **DeploymentProofs**, `DeploymentInv`: types, and that every writer of an
  in-progress status is still at work or has written on an agent's behalf, which
  is inductive, because whoever takes an execution to its end writes a status first.
* **DeploymentProofs**, `StacksInv` (of `Stacks`). `PointsInv` says which operation
  may be at which point and `Sound` what a directory holds; `CreateInv` follows a
  create from its mkdir, after which the directory is of its generation until
  somebody else meets it, and `MeetInv` says that two requests that touch one name
  have made it `mixed`; `RunInv` ties what was read and reported to how the compose
  run ended. Half a file has a copy as its author, and a copy that has ended has
  completed its own.
* **HostsProofs**, `HostsInv`. Adds what an id is between its choice and its row
  (`FreshInv`, `RowsInv`), that every use of a token takes a new id (`TokenInv`),
  that the races of the worker threads touch `contested` hosts only
  (`ContestInv`), and that a host being forgotten does not become a Docker host
  again (`ForgottenInv`).
* **AccessProofs**, `AccessInv`. Adds that the system groups stay and that who has
  no account is in no group (`DirectoryInv`), and what a socket holds while it is
  accepted: as long as the generation counter has not moved, the permissions that
  were read are current (`SocketInv`).
* **ContainersProofs**, `ContainersInv`, in three parts that share no state.
  `RestartsInv`: the flag stands for the only task, and the attempts are the ones
  that this task has counted; whatever was listed has been discovered; no id is
  known before it is used; a status that was given up is the one of an exhausted
  count. `HealthInv`: no restart is asked for that the episode has not counted.
  `JobInv`: verdict and counters go together with the items. Re-attachment takes
  the row that was updated last; the model chooses any row of a predecessor, and
  `SettingsAreKept` is proved whichever it is.
* **AlertsProofs**, `Inv`. Adds that the state change on its way tells the truth
  about the container (`EventIsCurrent`); with it, handling a stop makes an alert
  pending only when the container is down, and handling a start delays a clear
  only when it runs. The rest is that every coroutine keeps the row typed.

Two properties were restated because their proof failed for a good reason, and
TLC then showed the counterexample in an instance larger than the run's:
`NothingIsReplaced` and `OfferIsAnnounced` (section 6 has the behaviours). The
scenario that shows the first is part of the run `stacks` now; the other needs more
requests than its run can afford, and rests on the proof.

The assumptions say of the constants what any instance of the code has: sets of
ids, names, tasks and items are finite, ids are distinct from the value for "no
id", there is at least one name, one id and one task, the limits and thresholds
that are constants of the code or validated to be at least 1 are not zero (the
number of automatic restarts, `max_retries`, may be), numbers are natural.

Only model-checked: the liveness properties (`DeadSocketIsDropped`, `CallReturns`,
`UpdateEnds`, `CallsEnd`, `ExecutionEnds`, `OpenAlertIsNotified`,
`SuppressedAlertResurfaces`, `HiddenHostsAreDropped`, `ReachableHostComesBack`,
`WorkIsDone`, `UpdateIsFound`, and `DeployIsReported`, the second half of
`DeploysAreReported`), because they need fairness and ENABLED. Every safety
invariant and action property of the runs is a theorem.

## 8. Abstractions, and what is not modelled

* Messages, images, compose files, credentials and error texts are not modelled;
  replies and errors are members of small sets; versions and tags are numbers.
* All database sessions commit their own work. In the program they share one
  SQLite connection, so that another session's commit can include flushed but
  uncommitted statements.
* A restart of the backend is an action of `Hosts`, `Containers`, `UpdateChecks`,
  `Access` and (as `Crash`) `Stacks`; the death of the updater process one of
  `RollingUpdate`. The other modules are about one life of the backend.
* `Alerts` has one alert. Loops that work through a batch of alerts use data
  loaded before the first await of the batch; with one alert only the alert's own
  awaits come in between. One state change at a time is on its way. The states
  *restarting* and *unhealthy*, metric rules, host events, the deletion of
  containers, alerts and rules, and a rule edited while it is in use are left out.
* `Access` has two capabilities, one that is critical and one that is not, and
  hosts without tags; the streams behind a statistics subscription are left out; `Hosts` leaves out URLs and certificates' contents.
* Docker, registries, OIDC providers and compose are nondeterministic outcomes.

Not modelled: the statistics service and the persistence of statistics (bucket
arithmetic and retention; their interaction with hosts is a registration that
`Hosts` mentions), the event log, the audit log, schema migrations, the web
interface, scripts and images, and everything that only reads or formats. The Go
agent appears by its background jobs; its reconnect loop, its health check
scheduler and its self-update do not. `deployment/container_executor.py` and
`deployment/security_validator.py` have no caller.

## 9. Plan

Done: the modules above, their runs, the refinement, and a proof of every safety
property that a run checks.

Next, in this order:

1. Metric rules (`evaluate_metric`) and the times of blackout windows, as operators
   on the sliding window checked against a reference.
2. The composition of `UpdateCoordinator` with `Replacement` as its job, and a
   proof that the composition implements what the backend's caller relies on.
3. The statistics service's streams while hosts come and go, and the cascade of
   resolutions as operators.
