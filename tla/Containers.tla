----------------------------- MODULE Containers -----------------------------
(***************************************************************************)
(* One container of a monitored host, which may be recreated under a new   *)
(* id, and everything in the backend that acts on it: the monitoring loop  *)
(* with discovery and re-attachment of settings, the handler of Docker     *)
(* events, auto-restart tasks, HTTP health checks, user requests, batch    *)
(* jobs, the daily maintenance, and restarts of the backend.               *)
(* _container_states is left out: it only fills the old_state of events.   *)
(***************************************************************************)
EXTENDS Naturals, FiniteSets

CONSTANTS
    Ids,               \* container ids, each used once
    Tasks,             \* bound: auto_restart_container tasks at one time
    Items,             \* items of a batch job; the first is the container of the model
    Target,            \* that item
    Scenarios,         \* bound: the sets of features that are in use together
    MaxRetries,        \* settings.max_retries
    FailureThreshold, SuccessThreshold,   \* of the health check
    MaxRestarts,       \* its max_restart_attempts
    MaxPerHost,        \* host_semaphores
    MaxRequests        \* bound, for each scenario: requests, recreations and restarts

ASSUME ContainersAssumption ==
    /\ IsFiniteSet(Ids) /\ Ids # {} /\ "none" \notin Ids
    /\ IsFiniteSet(Tasks) /\ Tasks # {} /\ IsFiniteSet(Items) /\ Target \in Items
    /\ MaxRetries \in Nat
    /\ {FailureThreshold, SuccessThreshold, MaxRestarts, MaxPerHost} \subseteq Nat \ {0}
    /\ MaxRequests \in [Scenarios -> Nat]

VARIABLES
    uses,       \* the features in use
    live,       \* id of the existing container
    up,         \* it is running
    reach,      \* the host can be listed
    born,       \* ids used so far
    dies,       \* ids with an undelivered "die" event
    listed,     \* _last_containers: the container as last listed
    sweep,      \* the monitoring loop: "idle", or "acting" on the list
    seen,       \* _reattached_container_ids
    cfg,        \* auto_restart_configs by id: "none", "on", "off"
    memo,       \* auto_restart_status
    attempts,   \* restart_attempts
    flag,       \* restarting_containers
    task,       \* the auto_restart_container tasks
    early,      \* history: ids whose status was cached before they were discovered
    cleared,    \* history: ids that lost their flag to a reset, or their row to a stale list
    check,      \* container_http_health_checks by id
    loop,       \* _check_loop by id: where it is, and the status it has loaded
    episode,    \* restart_episode_attempts
    waited,     \* ids whose restart_retry_delay is over
    spent,      \* history: restarts by the health check since the status was last healthy
    job,        \* the batch job with its counters and items
    maint,      \* daily maintenance: "idle", "memory" or "records", and what it has listed
    requests    \* history: number of requests so far

world == <<live, up, reach, born, dies>>
monitoring == <<listed, sweep, seen>>
restarts == <<cfg, memo, attempts, flag, task, early, cleared>>
health == <<check, loop, episode, waited, spent>>
containerVars == <<uses, world, monitoring, restarts, health, job, maint, requests>>

Nil == "none"
First == CHOOSE c \in Ids : TRUE
NoList == [id |-> Nil, up |-> FALSE]
NoTask == [id |-> Nil, at |-> "free", n |-> 0]
NoCheck == [from |-> Nil, on |-> FALSE, status |-> "unknown", fails |-> 0, oks |-> 0]
NoLoop == [at |-> "off", was |-> "unknown"]
NoJob == [status |-> Nil, item |-> [i \in Items |-> Nil], done |-> 0, ok |-> 0, bad |-> 0, act |-> "other",
         orphan |-> FALSE]
Acts == {"start", "stop", "other"}
Finals == {"success", "error", "skipped"}
Settled == {"completed", "partial", "failed"}
Statuses == {"unknown", "healthy", "unhealthy"}
Fewer(a, b) == IF a < b THEN a ELSE b

AutoRestartConfig == {"none", "on", "off"}
ContainerHttpHealthCheck ==
    [from : {Nil, "backend", "agent"}, on : BOOLEAN, status : Statuses,
     fails : 0..FailureThreshold, oks : 0..SuccessThreshold]

ContainersTypeOK ==
    /\ uses \in Scenarios
    /\ live \in Ids \cup {Nil} /\ up \in BOOLEAN /\ reach \in BOOLEAN
    /\ listed \in [id : Ids \cup {Nil}, up : BOOLEAN] /\ sweep \in {"idle", "acting"}
    /\ \A S \in {born, dies, seen, flag, early, cleared, waited} : S \subseteq Ids
    /\ {cfg, memo} \subseteq [Ids -> AutoRestartConfig]
    /\ attempts \in [Ids -> 0..(MaxRetries + Cardinality(Tasks) - 1)]
    /\ task \in [Tasks -> [id : Ids \cup {Nil}, n : 0..(MaxRetries + Cardinality(Tasks) - 1),
                           at : {"free", "new", "delay", "starting", "ending"}]]
    /\ check \in [Ids -> ContainerHttpHealthCheck]
    /\ loop \in [Ids -> [at : {"off", "idle", "asking", "retrying"}, was : Statuses]]
    /\ episode \in [Ids -> 0..MaxRestarts] /\ spent \in [Ids -> 0..(2 * MaxRestarts)]
    /\ job \in [status : {Nil, "queued", "running"} \cup Settled, orphan : BOOLEAN, act : Acts,
                item : [Items -> {Nil, "queued", "running"} \cup Finals],
                done : 0..Cardinality(Items), ok : 0..Cardinality(Items), bad : 0..Cardinality(Items)]
    /\ maint \in [at : {"idle", "memory", "records"}, id : Ids \cup {Nil}]
    /\ requests \in 0..MaxRequests[uses]

ContainersInit ==
    /\ uses \in Scenarios
    /\ live = First /\ born = {First}
    /\ up = TRUE /\ reach = TRUE /\ dies = {}
    /\ listed = NoList /\ sweep = "idle" /\ seen = {}
    /\ cfg = [c \in Ids |-> "none"] /\ memo = cfg /\ attempts = [c \in Ids |-> 0] /\ flag = {}
    /\ task = [t \in Tasks |-> NoTask] /\ early = {} /\ cleared = {}
    /\ check = [c \in Ids |-> NoCheck] /\ loop = [c \in Ids |-> NoLoop]
    /\ episode = [c \in Ids |-> 0] /\ waited = Ids /\ spent = [c \in Ids |-> 0]
    /\ job = NoJob /\ maint = [at |-> "idle", id |-> Nil] /\ requests = 0

Request(feature) == feature \in uses /\ requests < MaxRequests[uses] /\ requests' = requests + 1

----------------------------------------------------------------------------
(* The container and its host. *)
Stopped == up' = FALSE /\ dies' = IF up /\ "auto" \in uses THEN dies \cup {live} ELSE dies
Started == up' = TRUE /\ UNCHANGED dies

ContainerDies ==
    /\ live # Nil /\ up
    /\ requests < MaxRequests[uses] /\ requests' = requests + 1
    /\ Stopped
    /\ UNCHANGED <<uses, live, reach, born, monitoring, restarts, health, job, maint>>

(* Somebody recreates the container outside DockMon, for example with      *)
(* docker compose up: the old id is gone for good.                         *)
Recreate(c) ==
    /\ Request("recreate")
    /\ c \notin born /\ born' = born \cup {c}
    /\ live' = c /\ up' = TRUE
    /\ UNCHANGED <<uses, reach, dies, monitoring, restarts, health, job, maint>>

HostChanges ==
    /\ Request("offline")
    /\ reach' = ~reach
    /\ UNCHANGED <<uses, live, up, born, dies, monitoring, restarts, health, job, maint>>

(* An event is lost, or handled while the container is being updated,      *)
(* which leaves the container to the update.                               *)
LoseEvent(c) ==
    /\ c \in dies /\ dies' = dies \ {c}
    /\ UNCHANGED <<uses, live, up, reach, born, monitoring, restarts, health, job, maint, requests>>

----------------------------------------------------------------------------
(* get_auto_restart_status: the cached value, else the row, else the       *)
(* default (off); what is found is cached.                                 *)
Status(c) == IF memo[c] # "none" THEN memo[c] ELSE IF cfg[c] # "none" THEN cfg[c] ELSE "off"

Toggled(c, s) == [memo EXCEPT ![c] = s]

(* toggle_auto_restart. *)
ToggleAutoRestart(c, s) ==
    /\ Request("auto")
    /\ c = live /\ s # Status(c)
    /\ memo' = Toggled(c, s)
    /\ cfg' = [cfg EXCEPT ![c] = s]
    /\ attempts' = IF s = "off" THEN [attempts EXCEPT ![c] = 0] ELSE attempts
    /\ flag' = IF s = "off" THEN flag \ {c} ELSE flag
    /\ cleared' = IF s = "off" /\ c \in flag THEN cleared \cup {c} ELSE cleared
    /\ UNCHANGED <<uses, world, monitoring, task, early, health, job, maint>>

MayRestart(c) == c \notin flag /\ attempts[c] < MaxRetries

(* Test and set of the flag under _state_lock, and create_task. *)
Spawn(c) ==
    \E t \in Tasks :
      /\ task[t] = NoTask
      /\ task' = [task EXCEPT ![t] = [id |-> c, at |-> "new", n |-> 0]]
      /\ flag' = flag \cup {c}

(* _handle_docker_event for "die".  A container that was not in the last   *)
(* list is left to the monitoring loop.                                    *)
HandleDie(c) ==
    /\ c \in dies /\ dies' = dies \ {c}
    /\ memo' = [memo EXCEPT ![c] = Status(c)]
    /\ early' = IF c \notin seen /\ memo[c] = "none" THEN early \cup {c} ELSE early
    /\ IF Status(c) = "on" /\ listed.id = c /\ MayRestart(c) THEN Spawn(c) ELSE UNCHANGED <<task, flag>>
    /\ UNCHANGED <<uses, live, up, reach, born, monitoring, cfg, attempts, cleared, health, job, maint, requests>>

(* reattach_*_for_container: a container that is seen for the first time   *)
(* takes over the settings of its predecessor with the same name.          *)
Others(c) == {o \in Ids \ {c} : cfg[o] # "none"}
ReattachedCfg(c) ==
    IF cfg[c] = "none" /\ Others(c) # {} THEN cfg[CHOOSE o \in Others(c) : TRUE] ELSE cfg[c]
OtherChecks(c) == {o \in Ids \ {c} : check[o] # NoCheck}
ReattachedCheck(c) ==
    IF check[c] = NoCheck /\ OtherChecks(c) # {}
    THEN LET p == check[CHOOSE o \in OtherChecks(c) : TRUE] IN [NoCheck EXCEPT !.from = p.from, !.on = p.on]
    ELSE check[c]

(* discover_containers_for_host: settings are re-attached before the       *)
(* auto-restart status is read.                                            *)
Discover ==
    IF ~reach \/ live = Nil THEN UNCHANGED <<seen, cfg, memo, check>>
    ELSE /\ cfg' = IF live \in seen THEN cfg ELSE [cfg EXCEPT ![live] = ReattachedCfg(live)]
         /\ check' = IF live \in seen THEN check ELSE [check EXCEPT ![live] = ReattachedCheck(live)]
         /\ memo' = IF memo[live] # "none" \/ "auto" \notin uses THEN memo
                    ELSE [memo EXCEPT ![live] = IF cfg'[live] = "none" THEN "off" ELSE cfg'[live]]
         /\ seen' = {live}

Listing == IF reach /\ live # Nil THEN [id |-> live, up |-> up] ELSE NoList

(* monitor_containers: the list, then the restarts it calls for. *)
SweepLists ==
    /\ sweep = "idle"
    /\ Discover
    /\ listed' = Listing
    /\ sweep' = "acting"
    /\ UNCHANGED <<uses, world, attempts, flag, task, early, cleared, loop, episode, waited, spent, job,
                   maint, requests>>

SweepActs ==
    /\ sweep = "acting" /\ sweep' = "idle"
    /\ LET c == listed.id IN
       IF c # Nil /\ ~listed.up /\ "auto" \in uses
       THEN /\ memo' = [memo EXCEPT ![c] = Status(c)]
            /\ IF Status(c) = "on" /\ MayRestart(c) THEN Spawn(c) ELSE UNCHANGED <<task, flag>>
       ELSE UNCHANGED <<memo, task, flag>>
    /\ UNCHANGED <<uses, world, listed, seen, cfg, attempts, early, cleared, health, job, maint, requests>>

----------------------------------------------------------------------------
(* auto_restart_container. *)
At(t, point) == task[t].at = point
Go(t, point) == task' = [task EXCEPT ![t].at = point]

TaskBegins(t) ==
    /\ At(t, "new")
    /\ LET n == attempts[task[t].id] + 1 IN
         /\ attempts' = [attempts EXCEPT ![task[t].id] = n]
         /\ task' = [task EXCEPT ![t].n = n, ![t].at = IF n > 1 THEN "delay" ELSE "starting"]
    /\ UNCHANGED <<uses, world, monitoring, cfg, memo, flag, early, cleared, health, job, maint, requests>>

TaskDelayed(t) ==
    /\ At(t, "delay") /\ Go(t, "starting")
    /\ UNCHANGED <<uses, world, monitoring, cfg, memo, attempts, flag, early, cleared, health, job, maint, requests>>

Startable(c) == live = c /\ reach

StartSucceeds(t) ==
    /\ At(t, "starting") /\ Startable(task[t].id)
    /\ Started
    /\ attempts' = [attempts EXCEPT ![task[t].id] = 0]
    /\ Go(t, "ending")
    /\ UNCHANGED <<uses, live, reach, born, monitoring, cfg, memo, flag, early, cleared, health, job, maint, requests>>

(* The call fails, or times out although the container was started; it may *)
(* also have exited at once.  The last attempt gives up, in memory only.   *)
StartFails(t) ==
    LET c == task[t].id IN
    /\ At(t, "starting")
    /\ \/ UNCHANGED <<up, dies>>
       \/ Startable(c) /\ Started
    /\ memo' = IF task[t].n >= MaxRetries THEN [memo EXCEPT ![c] = "off"] ELSE memo
    /\ Go(t, "ending")
    /\ UNCHANGED <<uses, live, reach, born, monitoring, cfg, attempts, flag, early, cleared, health, job, maint,
                   requests>>

(* Mutant: the flag is reset only when the restart has succeeded. *)
TaskEndsFlagged(t) ==
    /\ At(t, "ending")
    /\ task' = [task EXCEPT ![t] = NoTask]
    /\ flag' = IF attempts[task[t].id] = 0 THEN flag \ {task[t].id} ELSE flag
    /\ UNCHANGED <<uses, world, monitoring, cfg, memo, attempts, early, cleared, health, job, maint, requests>>

(* The finally block, after the outcome was broadcast. *)
TaskEnds(t) ==
    /\ At(t, "ending")
    /\ task' = [task EXCEPT ![t] = NoTask]
    /\ flag' = flag \ {task[t].id}
    /\ UNCHANGED <<uses, world, monitoring, cfg, memo, attempts, early, cleared, health, job, maint, requests>>

----------------------------------------------------------------------------
(* Requests of users. *)
Operates(Effect) ==
    /\ Request("auto") /\ live # Nil /\ reach
    /\ Effect
    /\ UNCHANGED <<uses, live, reach, born, monitoring, restarts, health, job, maint>>

Restarted == up' = TRUE /\ dies' = IF up THEN dies \cup {live} ELSE dies

UserStops == Operates(Stopped)
UserKills == Operates(Stopped)
UserStarts == Operates(Started)
UserRestarts == Operates(Restarted)

(* delete_container: the container, then its rows; the caches stay. *)
UserDeletes ==
    /\ Request("recreate") /\ live # Nil /\ reach
    /\ live' = Nil /\ up' = FALSE
    /\ cfg' = [cfg EXCEPT ![live] = "none"] /\ check' = [check EXCEPT ![live] = NoCheck]
    /\ UNCHANGED <<uses, reach, born, dies, monitoring, memo, attempts, flag, task, early, cleared,
                   loop, episode, waited, spent, job, maint>>

(* Over an agent: a call that is answered with an error has had no effect, *)
(* one that times out may have had it all the same.                        *)
AnsweredOrNot(Effect) == Effect \/ UNCHANGED <<up, dies>>

StopByAgent == Operates(AnsweredOrNot(Stopped))
KillByAgent == Operates(AnsweredOrNot(Stopped))
StartByAgent == Operates(AnsweredOrNot(Started))
RestartByAgent == Operates(AnsweredOrNot(Restarted))

(* remove_container of the agent. *)
RemovedByAgent == live' = Nil /\ up' = FALSE

(* _delete_container_via_agent: without an answer the rows stay. *)
DeleteByAgent(answered) ==
    /\ Request("recreate") /\ live # Nil /\ reach
    /\ RemovedByAgent
    /\ cfg' = IF answered THEN [cfg EXCEPT ![live] = "none"] ELSE cfg
    /\ check' = IF answered THEN [check EXCEPT ![live] = NoCheck] ELSE check
    /\ UNCHANGED <<uses, reach, born, dies, monitoring, memo, attempts, flag, task, early, cleared,
                   loop, episode, waited, spent, job, maint>>

----------------------------------------------------------------------------
(* HTTP health checks. *)
SaveCheck(c, from, on) ==
    /\ Request("health")
    /\ c = live
    /\ check' = [check EXCEPT ![c].from = from, ![c].on = on]
    /\ check' # check
    /\ spent' = IF on THEN spent ELSE [spent EXCEPT ![c] = 0]
    /\ UNCHANGED <<uses, world, monitoring, restarts, loop, episode, waited, job, maint>>

DeleteCheck(c) ==
    /\ Request("health")
    /\ check[c] # NoCheck
    /\ check' = [check EXCEPT ![c] = NoCheck]
    /\ spent' = [spent EXCEPT ![c] = 0]
    /\ UNCHANGED <<uses, world, monitoring, restarts, loop, episode, waited, job, maint>>

Wanted(c) == check[c].on /\ check[c].from = "backend"

MustStart(c) == Wanted(c) /\ loop[c].at = "off"

(* _reload_and_schedule_checks, every ten seconds: a cancelled loop is     *)
(* awaited before its entry goes.                                          *)
Reload(c) ==
    \/ /\ MustStart(c)
       /\ loop' = [loop EXCEPT ![c] = [NoLoop EXCEPT !.at = "idle"]]
       /\ UNCHANGED <<uses, world, monitoring, restarts, check, episode, waited, spent, job, maint, requests>>
    \/ /\ ~Wanted(c) /\ loop[c].at # "off"
       /\ loop' = [loop EXCEPT ![c] = NoLoop]
       /\ episode' = [episode EXCEPT ![c] = 0]
       /\ waited' = waited \cup {c}
       /\ spent' = [spent EXCEPT ![c] = 0]
       /\ UNCHANGED <<uses, world, monitoring, restarts, check, job, maint, requests>>

(* _check_loop loads the row; a loop whose row is gone or switched off     *)
(* ends by itself.                                                         *)
LoopLoads(c) ==
    /\ loop[c].at = "idle"
    /\ loop' = [loop EXCEPT ![c] = IF check[c].on THEN [at |-> "asking", was |-> check[c].status] ELSE NoLoop]
    /\ UNCHANGED <<uses, world, monitoring, restarts, check, episode, waited, spent, job, maint, requests>>

(* The counters and the status after a result; below a threshold the       *)
(* status is kept: by the loop the one it has loaded.                      *)
Counted(k, good, kept) ==
    LET oks == IF good THEN Fewer(k.oks + 1, SuccessThreshold) ELSE 0
        fails == IF good THEN 0 ELSE Fewer(k.fails + 1, FailureThreshold)
    IN  [k EXCEPT !.oks = oks, !.fails = fails,
                  !.status = IF oks >= SuccessThreshold THEN "healthy"
                             ELSE IF fails >= FailureThreshold THEN "unhealthy" ELSE kept]

(* Mutant: attempts are not counted. *)
MayTryAlways(c, n) == n = 0 \/ c \in waited

(* _trigger_auto_restart: the limits of the episode and of its pace. *)
MayTry(c, n) == n < MaxRestarts /\ (n = 0 \/ c \in waited)

(* The restart is counted before it is asked for; whether it succeeds      *)
(* makes no difference to the checker.                                     *)
TryRestart(c, n) ==
    IF ~MayTry(c, n) THEN /\ episode' = [episode EXCEPT ![c] = n]
                          /\ UNCHANGED <<up, dies, waited>>
    ELSE /\ episode' = [episode EXCEPT ![c] = Fewer(n + 1, MaxRestarts)]
         /\ waited' = waited \ {c}
         /\ \/ UNCHANGED <<up, dies>>
            \/ live = c /\ reach /\ Started

Spent(c, k, tried) ==
    [spent EXCEPT ![c] = IF k.status = "healthy" THEN 0
                         ELSE IF tried THEN Fewer(@ + 1, 2 * MaxRestarts) ELSE @]

(* _perform_check and _update_check_state: a change of the status is       *)
(* judged by the status that was loaded before the request.                *)
LoopResult(c, good) ==
    /\ loop[c].at = "asking"
    /\ loop' = [loop EXCEPT ![c].at = "retrying"]
    /\ IF check[c] = NoCheck THEN UNCHANGED <<check, episode, waited, up, dies, spent>>
       ELSE LET k == Counted(check[c], good, loop[c].was)
                n == IF k.status = "healthy" /\ loop[c].was # "healthy" THEN 0 ELSE episode[c]
            IN /\ check' = [check EXCEPT ![c] = k]
               /\ IF k.status = "unhealthy" /\ loop[c].was # "unhealthy"
                    THEN TryRestart(c, n) /\ spent' = Spent(c, k, MayTry(c, n))
                    ELSE /\ episode' = [episode EXCEPT ![c] = n]
                         /\ spent' = Spent(c, k, FALSE)
                         /\ UNCHANGED <<waited, up, dies>>
    /\ UNCHANGED <<uses, live, reach, born, monitoring, restarts, job, maint, requests>>

(* "Retry even without state change": on the status loaded before the      *)
(* check, so that the round in which the container recovers restarts it    *)
(* once more.                                                              *)
LoopRetries(c) ==
    /\ loop[c].at = "retrying"
    /\ loop' = [loop EXCEPT ![c].at = "idle"]
    /\ IF loop[c].was = "unhealthy"
         THEN TryRestart(c, episode[c]) /\ spent' = Spent(c, check[c], MayTry(c, episode[c]))
         ELSE UNCHANGED <<episode, waited, up, dies, spent>>
    /\ UNCHANGED <<uses, live, reach, born, monitoring, restarts, check, job, maint, requests>>

RetryDelayPasses(c) ==
    /\ c \notin waited /\ waited' = waited \cup {c}
    /\ UNCHANGED <<uses, world, monitoring, restarts, check, loop, episode, spent, job, maint, requests>>

(* A result from elsewhere than the loop, which keeps to the row's status. *)
ResultElsewhere(c, good) ==
    /\ Request("health")
    /\ check[c] # NoCheck
    /\ check' = [check EXCEPT ![c] = Counted(@, good, @.status)]
    /\ spent' = Spent(c, check'[c], FALSE)
    /\ UNCHANGED <<uses, world, monitoring, restarts, loop, episode, waited, job, maint>>

(* test_http_health_check. *)
TestCheck(c, good) == ResultElsewhere(c, good)

(* _handle_health_check_result: a result from an agent counts whatever     *)
(* check_from says by now; the restart it calls for fails on an import     *)
(* that does not exist.                                                    *)
AgentResult(c, good) == ResultElsewhere(c, good)

----------------------------------------------------------------------------
(* Batch jobs.  Containers that are not found are left out, yet counted in *)
(* total_items.                                                            *)
CreateJob(found, act) ==
    /\ Request("batch")
    /\ job.status = Nil
    /\ job' = [NoJob EXCEPT !.status = "queued", !.act = act,
                            !.item = [i \in Items |-> IF i \in found THEN "queued" ELSE Nil]]
    /\ UNCHANGED <<uses, world, monitoring, restarts, health, maint>>

JobStarts ==
    /\ job.status = "queued" /\ ~job.orphan
    /\ job' = [job EXCEPT !.status = "running"]
    /\ UNCHANGED <<uses, world, monitoring, restarts, health, maint, requests>>

Running == {i \in Items : job.item[i] = "running"}

FreeSlot == Cardinality(Running) < MaxPerHost

ItemStarts(i) ==
    /\ job.status = "running" /\ ~job.orphan /\ job.item[i] = "queued" /\ FreeSlot
    /\ job' = [job EXCEPT !.item[i] = "running"]
    /\ UNCHANGED <<uses, world, monitoring, restarts, health, maint, requests>>

ItemCounted(r) == [job EXCEPT !.done = @ + 1,
                              !.ok = IF r = "success" THEN @ + 1 ELSE @,
                              !.bad = IF r = "error" THEN @ + 1 ELSE @]

(* _execute_action: a container that is as the action would leave it is    *)
(* skipped, one that is not listed is an error.                            *)
Performed == \/ job.act = "start" /\ Started
             \/ job.act = "stop" /\ Stopped
             \/ job.act = "other" /\ UNCHANGED <<up, dies>>
AsWanted == (job.act = "start" /\ up) \/ (job.act = "stop" /\ ~up)
ExecuteAction(r) ==
    LET there == live # Nil /\ reach IN
    \/ r = "skipped" /\ there /\ AsWanted /\ UNCHANGED <<up, dies>>
    \/ r = "success" /\ there /\ ~AsWanted /\ Performed
    \/ r = "error" /\ there /\ ~AsWanted /\ AnsweredOrNot(Performed)
    \/ r = "error" /\ ~there /\ UNCHANGED <<up, dies>>

(* The action, and its result with the counters in one transaction. *)
ItemEnds(i, r) ==
    /\ job.item[i] = "running" /\ ~job.orphan
    /\ IF i = Target THEN ExecuteAction(r) ELSE UNCHANGED <<up, dies>>
    /\ job' = [ItemCounted(r) EXCEPT !.item[i] = r]
    /\ UNCHANGED <<uses, live, reach, born, monitoring, restarts, health, maint, requests>>

Verdict == IF job.bad > 0 /\ job.ok > 0 THEN "partial" ELSE IF job.bad > 0 THEN "failed" ELSE "completed"

(* Mutant: the job does not wait for the items that have begun. *)
NothingQueued == \A i \in Items : job.item[i] # "queued"

AllItemsEnded == \A i \in Items : job.item[i] \in Finals \cup {Nil}

JobEnds ==
    /\ job.status = "running" /\ ~job.orphan /\ AllItemsEnded
    /\ job' = [job EXCEPT !.status = Verdict]
    /\ UNCHANGED <<uses, world, monitoring, restarts, health, maint, requests>>

----------------------------------------------------------------------------
(* daily_maintenance: caches first, then rows, each after a listing; rows  *)
(* only if the host has any container in the list.                         *)
MaintLists(phase) ==
    /\ maint.at = "idle"
    /\ Request("daily")
    /\ Discover
    /\ maint' = [at |-> phase, id |-> Listing.id]
    /\ UNCHANGED <<uses, world, listed, sweep, attempts, flag, task, early, cleared, loop, episode, waited, spent, job>>

(* cleanup_stale_container_state. *)
MaintMemory ==
    /\ maint.at = "memory" /\ maint' = [at |-> "idle", id |-> Nil]
    /\ LET stale == {c \in Ids : memo[c] # "none" /\ c # maint.id} IN
         /\ memo' = [c \in Ids |-> IF c \in stale THEN "none" ELSE memo[c]]
         /\ attempts' = [c \in Ids |-> IF c \in stale THEN 0 ELSE attempts[c]]
         /\ flag' = flag \ stale
         /\ cleared' = cleared \cup (flag \cap stale)
    /\ UNCHANGED <<uses, world, monitoring, cfg, task, early, health, job, requests>>

(* Mutant: rows are deleted although nothing was listed. *)
StaleAnyway == {c \in Ids : c # maint.id}

StaleRows == IF maint.id = Nil THEN {} ELSE {c \in Ids : c # maint.id}

MaintRecords ==
    /\ maint.at = "records" /\ maint' = [at |-> "idle", id |-> Nil]
    /\ cfg' = [c \in Ids |-> IF c \in StaleRows THEN "none" ELSE cfg[c]]
    /\ check' = [c \in Ids |-> IF c \in StaleRows THEN NoCheck ELSE check[c]]
    /\ cleared' = IF live \in StaleRows THEN cleared \cup {live} ELSE cleared
    /\ UNCHANGED <<uses, world, monitoring, memo, attempts, flag, task, early,
                   loop, episode, waited, spent, job, requests>>

(* The backend stops at any point and starts again: nothing takes up a     *)
(* batch job.                                                              *)
Restart ==
    /\ Request("restart")
    /\ dies' = {} /\ listed' = NoList /\ sweep' = "idle" /\ seen' = {}
    /\ memo' = [c \in Ids |-> "none"] /\ attempts' = [c \in Ids |-> 0] /\ flag' = {}
    /\ task' = [t \in Tasks |-> NoTask] /\ early' = {} /\ cleared' = {}
    /\ loop' = [c \in Ids |-> NoLoop] /\ episode' = [c \in Ids |-> 0] /\ waited' = Ids
    /\ spent' = [c \in Ids |-> 0]
    /\ job' = [job EXCEPT !.orphan = job.status \in {"queued", "running"}]
    /\ maint' = [at |-> "idle", id |-> Nil]
    /\ UNCHANGED <<uses, live, up, reach, born, cfg, check>>

----------------------------------------------------------------------------
TaskStep(t) == TaskBegins(t) \/ TaskDelayed(t) \/ StartSucceeds(t) \/ StartFails(t) \/ TaskEnds(t)
JobStep == JobStarts \/ JobEnds \/ \E i \in Items : ItemStarts(i) \/ \E r \in Finals : ItemEnds(i, r)

ContainersNext ==
    \/ ContainerDies \/ HostChanges \/ UserStops \/ UserKills \/ UserStarts \/ UserRestarts \/ UserDeletes
    \/ StopByAgent \/ KillByAgent \/ StartByAgent \/ RestartByAgent
    \/ \E answered \in BOOLEAN : DeleteByAgent(answered)
    \/ SweepLists \/ SweepActs
    \/ \E c \in Ids :
         \/ Recreate(c) \/ LoseEvent(c) \/ HandleDie(c)
         \/ \E s \in {"on", "off"} : ToggleAutoRestart(c, s)
         \/ \E from \in {"backend", "agent"}, on \in BOOLEAN : SaveCheck(c, from, on)
         \/ DeleteCheck(c) \/ Reload(c) \/ LoopLoads(c) \/ LoopRetries(c) \/ RetryDelayPasses(c)
         \/ \E good \in BOOLEAN : LoopResult(c, good) \/ TestCheck(c, good) \/ AgentResult(c, good)
    \/ \E t \in Tasks : TaskStep(t)
    \/ \E found \in SUBSET Items, act \in Acts : CreateJob(found, act)
    \/ JobStep
    \/ \E phase \in {"memory", "records"} : MaintLists(phase)
    \/ MaintMemory \/ MaintRecords \/ Restart

(* The monitoring loop, the reloading of checks and the tasks go on; a     *)
(* call to Docker or to an agent ends.                                     *)
ContainersFairness ==
    /\ WF_containerVars(SweepLists) /\ WF_containerVars(SweepActs)
    /\ \A t \in Tasks : WF_containerVars(TaskStep(t))
    /\ \A c \in Ids : WF_containerVars(Reload(c))
    /\ WF_containerVars(JobStep)

ContainersSpec == ContainersInit /\ [][ContainersNext]_containerVars /\ ContainersFairness

----------------------------------------------------------------------------
(* The test and set under _state_lock admits one auto-restart task per     *)
(* container, whether the event or the loop asks for it, unless the flag   *)
(* was reset from outside (toggle_auto_restart, the daily clean-up).       *)
OneRestartTask ==
    \A c \in Ids \ cleared : Cardinality({t \in Tasks : task[t].id = c}) <= 1

(* The cached auto-restart status agrees with the user's setting, unless   *)
(* the retries are exhausted; containers whose status was cached before    *)
(* their settings were re-attached, or whose row the daily clean-up deleted *)
(* by a list older than the container, are excepted.                       *)
StatusFollowsSetting ==
    \A c \in Ids \ (early \cup cleared) :
      memo[c] # "none" /\ cfg[c] # "none" /\ memo[c] # cfg[c] => memo[c] = "off" /\ attempts[c] >= MaxRetries

(* A container that has stopped, and for which auto-restart is on, is      *)
(* started again or the retries are used up.                               *)
StoppedIsRestarted ==
    (live # Nil /\ ~up /\ Status(live) = "on")
      ~> (live = Nil \/ up \/ ~reach \/ Status(live) # "on" \/ attempts[live] >= MaxRetries)

(* Restarts by the health check are limited for as long as the container   *)
(* does not recover, whichever of the loop's two places asks for them.     *)
EpisodeIsLimited == \A c \in Ids : spent[c] <= MaxRestarts

(* A check that is switched on is run: its loop is started, also after its *)
(* settings were re-attached to a new container or the backend restarted.  *)
EnabledCheckRuns ==
    (\E c \in Ids : Wanted(c)) ~> (\A c \in Ids : Wanted(c) => loop[c].at # "off")

(* The counters of a job agree with its items at any time. *)
CountersMatchItems ==
    /\ job.done = Cardinality({i \in Items : job.item[i] \in Finals})
    /\ job.ok = Cardinality({i \in Items : job.item[i] = "success"})
    /\ job.bad = Cardinality({i \in Items : job.item[i] = "error"})

(* A job is over only when its items are, and says truly how they ended. *)
VerdictIsTrue ==
    job.status \in Settled =>
      /\ Running = {} /\ \A i \in Items : job.item[i] # "queued"
      /\ job.status = "completed" <=> \A i \in Items : job.item[i] # "error"
      /\ job.status = "failed" => \A i \in Items : job.item[i] # "success"

(* A job ends, unless the backend has been restarted meanwhile. *)
JobIsFinished == (job.status \in {"queued", "running"}) ~> (job.status \in Settled \/ job.orphan)

(* What applies to the container: its own settings once it was discovered, *)
(* before that the ones it is still to take over from its predecessor.     *)
InForce ==
    IF live = Nil THEN <<>>
    ELSE IF live \in seen THEN <<cfg[live], check[live].from, check[live].on>>
    ELSE <<ReattachedCfg(live), ReattachedCheck(live).from, ReattachedCheck(live).on>>

Edits(c) == \/ \E s \in {"on", "off"} : ToggleAutoRestart(c, s)
            \/ \E from \in {"backend", "agent"}, on \in BOOLEAN : SaveCheck(c, from, on)
            \/ DeleteCheck(c)

(* For as long as a container is the same, what applies to it is what its  *)
(* user asked for: no discovery, result of a check, lost event, host that  *)
(* cannot be listed or clean-up of rows changes it.  Two steps do, and are *)
(* excepted: the clean-up by a list that is older than the container, and  *)
(* the restart; CleanupIsOfDeleted and RestartKeepsSettings are about them. *)
SettingsAreKept ==
    [][live' = live /\ InForce' # InForce
         => \/ \E c \in Ids : Edits(c)
            \/ MaintRecords /\ maint.id \notin {Nil, live}
            \/ Restart]_containerVars

(* The daily clean-up deletes rows "for deleted containers" only.  The code *)
(* does not guarantee it: a container that was recreated since the list was *)
(* taken, and has taken over its settings meanwhile, is not in the list.   *)
CleanupIsOfDeleted == [][MaintRecords => InForce' = InForce]_containerVars

(* Re-attachment is idempotent, so that to see a container for the first   *)
(* time once more, after a restart of the backend, changes nothing.  The   *)
(* code does not guarantee it: a health check that the user has deleted is *)
(* taken over again from the predecessor, whose row is still there.        *)
RestartKeepsSettings == [][Restart => InForce' = InForce]_containerVars

(* Restarts, by the auto-restart tasks and by health checks, follow the    *)
(* user's settings and stay within their limits.                           *)
RestartsAreBounded ==
    ContainersTypeOK /\ OneRestartTask /\ StatusFollowsSetting /\ EpisodeIsLimited

(* What a batch job reports is true. *)
JobIsToldTruly == CountersMatchItems /\ VerdictIsTrue

(* Nothing is forgotten: a stopped container, an enabled check, a job. *)
WorkIsDone == StoppedIsRestarted /\ EnabledCheckRuns /\ JobIsFinished
============================================================================
