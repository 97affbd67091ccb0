-------------------------- MODULE UpdateCoordinator --------------------------
(***************************************************************************)
(* The backend's side of a container update: UpdateExecutor (one update    *)
(* per container at a time), AgentUpdateExecutor, PendingUpdatesRegistry   *)
(* and the update_complete handler for agent hosts, the streaming client   *)
(* of compose-service for the others, and the migration of the container's *)
(* database records to its new id.  The update itself runs elsewhere       *)
(* (RollingUpdate) and outlives the backend's wait for it: a job.          *)
(*                                                                         *)
(* One logical container is modelled.  Each successful job replaces it by  *)
(* one with a fresh id, so its ids are 0, 1, 2, ...                        *)
(***************************************************************************)
EXTENDS Naturals, FiniteSets

CONSTANTS
    Requests,   \* calls of update_container
    MaxId,      \* bound on the container ids
    None

ASSUME CoordinatorAssumption ==
    /\ MaxId \in Nat
    /\ None \notin Requests /\ None \notin Nat

Ids == 0 .. MaxId

VARIABLES
    via,       \* connection type of the host: "agent" or "docker"
    upc,       \* [Requests -> program point of update_container]
    target,    \* [Requests -> the container id it was called with]
    updating,  \* updating_containers
    pending,   \* PendingUpdatesRegistry._pending: [Ids -> request or None]
    signal,    \* [Requests -> new_container_id of its PendingUpdate, or None]
    newId,     \* [Requests -> new_container_id of its UpdateResult, or None]
    result,    \* [Requests -> outcome]
    job,       \* [Requests -> the update that runs for it elsewhere]
    created,   \* [Requests -> id that its job created, or None]
    event,     \* [Requests -> its update_complete message]
    current,   \* the container's id on the Docker host
    dbKey      \* the id under which the database keeps the container's records

vars == <<via, upc, target, updating, pending, signal, newId, result, job,
          created, event, current, dbKey>>
callVars == <<target, updating, pending, signal, newId, result>>
jobVars == <<job, created, event, current>>

Active == {"starting", "commanding", "waiting", "streaming", "emitting"}

TypeOK ==
    /\ via \in {"agent", "docker"}
    /\ upc \in [Requests -> Active \cup {"idle", "done"}]
    /\ target \in [Requests -> Ids \cup {None}]
    /\ updating \in SUBSET Ids
    /\ pending \in [Ids -> Requests \cup {None}]
    /\ signal \in [Requests -> Ids \cup {None}]
    /\ newId \in [Requests -> Ids \cup {None}]
    /\ result \in [Requests -> {"none", "success", "failed", "busy"}]
    /\ job \in [Requests -> {"none", "sent", "running", "succeeded", "failed"}]
    /\ created \in [Requests -> Ids \cup {None}]
    /\ event \in [Requests -> {"none", "queued", "gone"}]
    /\ current \in Ids
    /\ dbKey \in Ids

Init ==
    /\ via \in {"agent", "docker"}
    /\ upc = [r \in Requests |-> "idle"]
    /\ target = [r \in Requests |-> None]
    /\ updating = {}
    /\ pending = [i \in Ids |-> None]
    /\ signal = [r \in Requests |-> None]
    /\ newId = [r \in Requests |-> None]
    /\ result = [r \in Requests |-> "none"]
    /\ job = [r \in Requests |-> "none"]
    /\ created = [r \in Requests |-> None]
    /\ event = [r \in Requests |-> "none"]
    /\ current = 0
    /\ dbKey = 0

------------------------------------------------------------------------------
(* UpdateExecutor.update_container                                          *)

AlreadyUpdating(i) == i \in updating

\* The call names the container as Docker lists it or as the update record
\* does; the check and the insertion are one critical section.
Request(r, i) ==
    /\ upc[r] = "idle" /\ i \in {current, dbKey}
    /\ target' = [target EXCEPT ![r] = i]
    /\ \/ /\ AlreadyUpdating(i)
          /\ upc' = [upc EXCEPT ![r] = "done"]
          /\ result' = [result EXCEPT ![r] = "busy"]
          /\ UNCHANGED updating
       \/ /\ ~AlreadyUpdating(i)
          /\ upc' = [upc EXCEPT ![r] = "starting"]
          /\ updating' = updating \cup {i}
          /\ UNCHANGED result
    /\ UNCHANGED <<via, pending, signal, newId, jobVars, dbKey>>

\* The outcome is known; events are emitted before the finally block runs.
Conclude(r, res, new) ==
    /\ upc' = [upc EXCEPT ![r] = "emitting"]
    /\ result' = [result EXCEPT ![r] = res]
    /\ newId' = [newId EXCEPT ![r] = new]

\* DockMon's own container, a validation that blocks, no agent, no client.
Refuse(r) ==
    /\ upc[r] = "starting"
    /\ Conclude(r, "failed", None)
    /\ UNCHANGED <<via, target, updating, pending, signal, jobVars, dbKey>>

\* AgentUpdateExecutor.execute registers with the registry, then sends the
\* command; _execute_go_update posts the request.
Dispatch(r) ==
    /\ upc[r] = "starting"
    /\ job' = [job EXCEPT ![r] = "sent"]
    /\ \/ /\ via = "agent"
          /\ pending' = [pending EXCEPT ![target[r]] = r]
          /\ upc' = [upc EXCEPT ![r] = "commanding"]
       \/ /\ via = "docker"
          /\ upc' = [upc EXCEPT ![r] = "streaming"]
          /\ UNCHANGED pending
    /\ UNCHANGED <<via, target, updating, signal, newId, result, created, event,
                   current, dbKey>>

\* Mutant: the records are moved wherever they are by now.
MigrateAnyway(old, new) ==
    dbKey' \in {dbKey, IF new # None THEN new ELSE dbKey}

\* update_container_records_after_update: moves the records of old, if they
\* are still there; an exception rolls everything back and is only logged.
Migrate(old, new) ==
    dbKey' \in {dbKey, IF new # None /\ dbKey = old THEN new ELSE dbKey}

\* The finally block.  A success with a new id first migrates the records
\* (for an agent host a second time).  Mutant: the container stays marked.
ReleaseNothing(r) == updating

Release(r) == updating \ {target[r]}

Finish(r) ==
    /\ upc[r] = "emitting"
    /\ upc' = [upc EXCEPT ![r] = "done"]
    /\ updating' = Release(r)
    /\ IF result[r] = "success" THEN Migrate(target[r], newId[r]) ELSE UNCHANGED dbKey
    /\ UNCHANGED <<via, target, pending, signal, newId, result, jobVars>>

------------------------------------------------------------------------------
(* AgentUpdateExecutor.execute and PendingUpdatesRegistry                   *)

Unregister(r) == [pending EXCEPT ![target[r]] = None]

\* The agent acknowledges: the job runs in the background.
Acknowledge(r) ==
    /\ upc[r] = "commanding" /\ job[r] \notin {"none", "sent"}
    /\ upc' = [upc EXCEPT ![r] = "waiting"]
    /\ UNCHANGED <<via, callVars, jobVars, dbKey>>

\* execute_command fails or times out (the agent may have started all the same).
CommandFails(r) ==
    /\ upc[r] = "commanding"
    /\ pending' = Unregister(r)
    /\ Conclude(r, "failed", None)
    /\ UNCHANGED <<via, target, updating, signal, jobVars, dbKey>>

\* The completion event is set: read the new id, unregister, migrate.
Completed(r) ==
    /\ upc[r] = "waiting" /\ signal[r] # None
    /\ pending' = Unregister(r)
    /\ Migrate(target[r], signal[r])
    /\ Conclude(r, "success", signal[r])
    /\ UNCHANGED <<via, target, updating, signal, jobVars>>

\* Five minutes without update_complete.  A job that failed never sends one.
\* Mutant: a job that is still running is waited for.
WaitForJob(r) ==
    /\ upc[r] = "waiting" /\ job[r] # "failed"
    /\ pending' = Unregister(r)
    /\ Conclude(r, "failed", None)
    /\ UNCHANGED <<via, target, updating, signal, jobVars, dbKey>>

WaitTimesOut(r) ==
    /\ upc[r] = "waiting"
    /\ pending' = Unregister(r)
    /\ Conclude(r, "failed", None)
    /\ UNCHANGED <<via, target, updating, signal, jobVars, dbKey>>

\* signal_complete finds the entry by the old id.
SignalledBy(r) == pending[target[r]]

\* _handle_update_complete
Deliver(r) ==
    /\ event[r] = "queued"
    /\ event' = [event EXCEPT ![r] = "gone"]
    /\ signal' = IF SignalledBy(r) # None
                 THEN [signal EXCEPT ![SignalledBy(r)] = created[r]] ELSE signal
    /\ UNCHANGED <<via, upc, target, updating, pending, newId, result, job,
                   created, current, dbKey>>

LoseEvent(r) ==
    /\ event[r] = "queued"
    /\ event' = [event EXCEPT ![r] = "gone"]
    /\ UNCHANGED <<via, upc, callVars, job, created, current, dbKey>>

------------------------------------------------------------------------------
(* The stream of compose-service                                            *)

StreamCompletes(r) ==
    /\ upc[r] = "streaming"
    /\ \/ job[r] = "succeeded" /\ Conclude(r, "success", created[r])
       \/ job[r] = "failed" /\ Conclude(r, "failed", None)
    /\ UNCHANGED <<via, target, updating, pending, signal, jobVars, dbKey>>

\* Unavailable, timed out, or the stream broke; a job that started goes on.
StreamBreaks(r) ==
    /\ upc[r] = "streaming"
    /\ Conclude(r, "failed", None)
    /\ UNCHANGED <<via, target, updating, pending, signal, jobVars, dbKey>>

------------------------------------------------------------------------------
(* Jobs: RollingUpdate seen from outside                                    *)

JobStarts(r) ==
    /\ job[r] = "sent"
    /\ job' = [job EXCEPT ![r] = "running"]
    /\ UNCHANGED <<via, upc, callVars, created, event, current, dbKey>>

\* Only a container that still exists under its id can be replaced.
JobSucceeds(r) ==
    /\ job[r] = "running" /\ target[r] = current /\ current < MaxId
    /\ job' = [job EXCEPT ![r] = "succeeded"]
    /\ current' = current + 1
    /\ created' = [created EXCEPT ![r] = current + 1]
    /\ event' = [event EXCEPT ![r] = IF via = "agent" THEN "queued" ELSE @]
    /\ UNCHANGED <<via, upc, callVars, dbKey>>

JobFails(r) ==
    /\ job[r] = "running"
    /\ job' = [job EXCEPT ![r] = "failed"]
    /\ UNCHANGED <<via, upc, callVars, created, event, current, dbKey>>

------------------------------------------------------------------------------
Call(r) ==
    \/ Refuse(r) \/ Dispatch(r) \/ Acknowledge(r) \/ CommandFails(r)
    \/ Completed(r) \/ WaitTimesOut(r) \/ StreamCompletes(r) \/ StreamBreaks(r)
    \/ Finish(r)

Next ==
    \E r \in Requests :
        \/ Call(r)
        \/ \E i \in Ids : Request(r, i)
        \/ Deliver(r) \/ LoseEvent(r)
        \/ JobStarts(r) \/ JobSucceeds(r) \/ JobFails(r)

\* Awaits of the backend end by their timeouts.
Fairness == \A r \in Requests : WF_vars(Call(r))

Spec == Init /\ [][Next]_vars /\ Fairness
------------------------------------------------------------------------------
(* Properties                                                               *)

\* updating_containers is exact: a container is marked if and only if one call
\* is at work on it, and never two; every way out of update_container frees it.
OneCallPerContainer ==
    \A i \in Ids :
        /\ i \in updating <=> \E r \in Requests : upc[r] \in Active /\ target[r] = i
        /\ \A r, q \in Requests :
              upc[r] \in Active /\ upc[q] \in Active
              /\ target[r] = i /\ target[q] = i => r = q

\* The registry is keyed by container, not by call, yet an entry belongs to a
\* call that is waiting for it, and no other call overwrites or removes it.
RegistryEntryIsOwn ==
    /\ \A r \in Requests : upc[r] \in {"commanding", "waiting"} => pending[target[r]] = r
    /\ \A i \in Ids : pending[i] # None =>
           upc[pending[i]] \in {"commanding", "waiting"} /\ target[pending[i]] = i

\* A reported success is real, even when the completion of an earlier call that
\* timed out answers a later one: a job replaced exactly that container, by
\* exactly the reported id.
SuccessIsReal ==
    \A r \in Requests : result[r] = "success" =>
        \E q \in Requests : /\ job[q] = "succeeded"
                            /\ target[q] = target[r] /\ created[q] = newId[r]

\* The records move only along a replacement that took place.
RecordsFollowContainer ==
    [][dbKey' # dbKey =>
        \E q \in Requests : /\ job[q] = "succeeded"
                            /\ target[q] = dbKey /\ created[q] = dbKey']_vars

\* Every call returns, so every container is released.
CallsEnd == \A r \in Requests : upc[r] \in Active ~> upc[r] = "done"

\* Concurrent calls do not get into each other's way: marking and registry
\* are exact (update_container, PendingUpdatesRegistry).
CallsOwnTheirContainer == OneCallPerContainer /\ RegistryEntryIsOwn

\* What is reported and what is recorded took place.
ResultsAreReal == []SuccessIsReal /\ RecordsFollowContainer
==============================================================================
