------------------------------ MODULE Deployment ------------------------------
(***************************************************************************)
(* One stack deployment: its database row and state machine, the endpoints *)
(* that execute, edit and delete it, DeploymentExecutor with its rollback, *)
(* the two ways of running `compose up` (the agent, compose-service), and  *)
(* the events by which an agent reports on it.                             *)
(*                                                                         *)
(* The backend is one event loop: what happens between two awaits is one   *)
(* step.  An execution keeps an ORM session open across awaits, so what it *)
(* read of the row may be stale when it writes; sessions do not autoflush, *)
(* so what it assigned is visible to others only after its commit.         *)
(*                                                                         *)
(* Containers are known by the execution that created them.  The row may   *)
(* move between two hosts, one with an agent and one connected directly.   *)
(***************************************************************************)
EXTENDS FiniteSets

CONSTANTS
    Execs,               \* calls of the execute endpoint
    RollbackOnFailure,   \* the deployment's rollback_on_failure
    Destinations         \* hosts that an edit may move the deployment to

Hosts == {"agent", "docker"}

ASSUME DeploymentAssumption ==
    RollbackOnFailure \in BOOLEAN /\ Destinations \subseteq Hosts

VARIABLES
    status,      \* deployments.status, "gone" if the row was deleted
    committed,   \* deployments.committed
    links,       \* deployment_containers: the containers linked to the row
    via,         \* deployments.host_id, by the host's connection type
    delegated,   \* history: the status was last written on an agent's behalf
    host,        \* [Hosts -> the stack's containers there]
    xpc,         \* [Execs -> program point of execute_deployment]
    seen,        \* [Execs -> the row as its session loaded it last]
    reset,       \* [Execs -> it redeploys a running stack: committed is reset]
    doomed,      \* [Execs -> containers its rollback is removing]
    job,         \* [Execs -> its compose up]
    where,       \* [Execs -> the host of its compose up]
    made,        \* [Execs -> the containers that the agent is to report]
    mail,        \* [Execs -> whether the agent's events still arrive]
    editing      \* an edit under way: of a deployment to retry, or another

statusVars == <<status, delegated>>
rowVars == <<statusVars, committed, links, via>>
execVars == <<xpc, seen, reset, doomed>>
jobVars == <<job, where, made, mail>>
vars == <<rowVars, host, execVars, jobVars, editing>>

InProgress == {"validating", "pulling_image", "creating", "starting"}
Statuses == InProgress \cup {"planning", "running", "partial", "failed", "rolled_back"}

TypeOK ==
    /\ status \in Statuses \cup {"gone"}
    /\ committed \in BOOLEAN
    /\ links \in SUBSET Execs
    /\ via \in Hosts
    /\ delegated \in BOOLEAN
    /\ host \in [Hosts -> SUBSET Execs]
    /\ xpc \in [Execs -> {"idle", "queued", "starting", "working", "deploying",
                          "commanding", "refused", "failed", "removing", "done"}]
    /\ seen \in [Execs -> [committed : BOOLEAN, via : Hosts]]
    /\ reset \in [Execs -> BOOLEAN]
    /\ doomed \in [Execs -> SUBSET Execs]
    /\ job \in [Execs -> {"none", "sent", "running", "success", "partial", "failed"}]
    /\ where \in [Execs -> Hosts]
    /\ made \in [Execs -> SUBSET Execs]
    /\ mail \in [Execs -> {"open", "closed"}]
    /\ editing \in {"no", "retry", "other"}

\* create_deployment
Init ==
    /\ status = "planning"
    /\ committed = FALSE
    /\ links = {} /\ host = [h \in Hosts |-> {}]
    /\ via \in Hosts /\ delegated = FALSE
    /\ xpc = [e \in Execs |-> "idle"]
    /\ seen = [e \in Execs |-> [committed |-> FALSE, via |-> "agent"]]
    /\ reset = [e \in Execs |-> FALSE]
    /\ doomed = [e \in Execs |-> {}]
    /\ job = [e \in Execs |-> "none"]
    /\ where = [e \in Execs |-> "agent"]
    /\ made = [e \in Execs |-> {}]
    /\ mail = [e \in Execs |-> "open"]
    /\ editing = "no"

------------------------------------------------------------------------------
(* DeploymentStateMachine                                                   *)

\* VALID_TRANSITIONS
CanTransition(from, to) ==
    \/ to = "validating"
       /\ from \in {"planning", "running", "partial", "failed", "rolled_back"}
    \/ from = "validating" /\ to = "pulling_image"
    \/ from = "pulling_image" /\ to = "creating"
    \/ from = "creating" /\ to = "starting"
    \/ from = "starting" /\ to = "running"
    \/ from \in InProgress /\ to \in {"failed", "partial"}
    \/ from = "failed" /\ to = "rolled_back"

\* transition: an invalid one changes nothing.
Transition(from, to) == IF CanTransition(from, to) THEN to ELSE from

\* should_rollback
ShouldRollback(s, done) ==
    RollbackOnFailure /\ ~done /\ s \in InProgress \cup {"failed"}

\* A status that the backend answers for.
Write(s) == status' = s /\ delegated' = FALSE

Move(e, point) == xpc' = [xpc EXCEPT ![e] = point]

------------------------------------------------------------------------------
(* The endpoints                                                            *)

\* execute_deployment of routes.py: the status is checked, and the execution
\* is queued as a background task.  SQLite has no row locks.
Request(e, redeploy) ==
    /\ xpc[e] = "idle"
    /\ status \in {"planning", "failed", "rolled_back", "partial"}
                    \cup (IF redeploy THEN {"running"} ELSE {})
    /\ Move(e, "queued")
    /\ UNCHANGED <<rowVars, host, seen, reset, doomed, jobVars, editing>>

\* update_deployment: a deployment that failed is set to planning before the
\* await of stack_exists and committed after it, or not at all.
EditBegin ==
    /\ editing = "no"
    /\ \/ status \in {"failed", "rolled_back", "partial"} /\ editing' = "retry"
       \/ status \in {"planning", "running"} /\ editing' = "other"
    /\ UNCHANGED <<rowVars, host, execVars, jobVars>>

\* Only what the request changed is written: the status of a deployment to be
\* retried, and the host.  The stack may not exist, or the row may be gone.
EditEnd ==
    /\ editing # "no" /\ editing' = "no"
    /\ \/ /\ status # "gone"
          /\ IF editing = "retry" THEN Write("planning") ELSE UNCHANGED statusVars
          /\ via' \in Destinations \cup {via}
       \/ UNCHANGED <<statusVars, via>>
    /\ UNCHANGED <<committed, links, host, execVars, jobVars>>

\* delete_deployment; deployment_containers cascades.
Delete ==
    /\ status \notin InProgress \cup {"gone"}
    /\ Write("gone") /\ links' = {}
    /\ UNCHANGED <<committed, via, host, execVars, jobVars, editing>>

------------------------------------------------------------------------------
(* DeploymentExecutor.execute_deployment                                    *)

\* Load the row and make the transition in memory, then await the broadcast.
Start(e) ==
    /\ xpc[e] = "queued"
    /\ \/ /\ CanTransition(status, "validating")
          /\ Move(e, "starting")
          /\ reset' = [reset EXCEPT ![e] = status = "running" /\ committed]
       \/ /\ ~CanTransition(status, "validating")
          /\ Move(e, "done") /\ UNCHANGED reset
    /\ UNCHANGED <<rowVars, host, seen, doomed, jobVars, editing>>

\* Commit (the redeploy of a running stack resets committed), and load again.
Commit(e) ==
    /\ xpc[e] = "starting"
    /\ \/ /\ status # "gone"
          /\ Write("validating")
          /\ committed' = (committed /\ ~reset[e])
          /\ seen' = [seen EXCEPT ![e] = [committed |-> committed', via |-> via]]
          /\ Move(e, "working")
       \/ /\ status = "gone"
          /\ Move(e, "done") /\ UNCHANGED <<statusVars, committed, seen>>
    /\ UNCHANGED <<links, via, host, reset, doomed, jobVars, editing>>

\* Mutant: the failure handler does not make the transition.
FailUnrecorded(e, point) == Move(e, point) /\ UNCHANGED <<statusVars, seen>>

\* The exception handlers: reload the row, transition to failed, commit, load
\* it again for the event.  Whether to roll back is decided on what was loaded
\* then, after the event has been broadcast.
Fail(e, point) ==
    /\ Write(Transition(status, "failed"))
    /\ seen' = [seen EXCEPT ![e] = [committed |-> committed, via |-> via]]
    /\ Move(e, IF ShouldRollback(status', committed) THEN point ELSE "done")

\* The stack's files are missing (no rollback); it does not validate; the host
\* is unknown.
FailEarly(e) ==
    /\ xpc[e] = "working"
    /\ Fail(e, "done") \/ Fail(e, "failed")
    /\ UNCHANGED <<committed, links, via, host, reset, doomed, jobVars, editing>>

\* Mutant: no timeout, only the failure of compose up is seen.
FailLateUntimed(e) ==
    /\ xpc[e] \in {"deploying", "commanding", "refused"} /\ job[e] = "failed"
    /\ Fail(e, "failed")
    /\ UNCHANGED <<committed, links, via, host, reset, doomed, jobVars, editing>>

\* asyncio.timeout(1800), or an error of compose-service, which may go on.
FailLate(e) ==
    /\ xpc[e] \in {"deploying", "commanding", "refused"}
    /\ Fail(e, "failed")
    /\ UNCHANGED <<committed, links, via, host, reset, doomed, jobVars, editing>>

\* The transition of the row as it was loaded: from failed.
RolledBack == Write(IF status = "gone" THEN status ELSE "rolled_back")

\* _rollback_deployment: nothing is linked, or what is linked is removed.
Rollback(e) ==
    /\ xpc[e] = "failed"
    /\ \/ /\ links = {}
          /\ RolledBack
          /\ Move(e, "done") /\ UNCHANGED doomed
       \/ /\ links # {}
          /\ doomed' = [doomed EXCEPT ![e] = links]
          /\ Move(e, "removing") /\ UNCHANGED statusVars
    /\ UNCHANGED <<committed, links, via, host, seen, reset, jobVars, editing>>

\* The containers have been stopped and removed, on the host that the row was
\* seen on; errors are only logged.
RollbackEnds(e) ==
    /\ xpc[e] = "removing"
    /\ \E d \in SUBSET doomed[e] : host' = [host EXCEPT ![seen[e].via] = @ \ d]
    /\ RolledBack
    /\ Move(e, "done")
    /\ UNCHANGED <<committed, links, via, seen, reset, doomed, jobVars, editing>>

------------------------------------------------------------------------------
(* A directly connected host: execute_stack_deployment                      *)

\* What is called where is decided by the host that was loaded.
Dispatch(e) ==
    /\ seen[e].via = "docker" /\ xpc[e] = "working"
    /\ Move(e, "deploying")
    /\ job' = [job EXCEPT ![e] = "sent"] /\ where' = [where EXCEPT ![e] = "docker"]
    /\ UNCHANGED <<rowVars, host, seen, reset, doomed, made, mail, editing>>

\* The transitions up to running or partial start from the row as loaded, and
\* are committed together; deployment_containers is emptied, only
\* deployment_metadata is written.
Succeed(e) ==
    /\ xpc[e] = "deploying" /\ job[e] \in {"success", "partial"}
    /\ IF status = "gone" THEN UNCHANGED rowVars
       ELSE /\ Write(IF job[e] = "success" THEN "running" ELSE "partial")
            /\ committed' = (seen[e].committed => committed)
            /\ links' = {} /\ UNCHANGED via
    /\ Move(e, "done")
    /\ UNCHANGED <<host, seen, reset, doomed, jobVars, editing>>

------------------------------------------------------------------------------
(* An agent host: AgentDeploymentExecutor                                   *)

\* _update_deployment_status writes whatever the status was.
Report(s) == Write(IF status = "gone" THEN status ELSE s)

\* The same, for what the agent is doing.
ReportOnBehalf(s) ==
    status' = (IF status = "gone" THEN status ELSE s) /\ delegated' = TRUE

\* The compose file does not validate, the agent is too old or unknown.
Refuse(e) ==
    /\ seen[e].via = "agent" /\ xpc[e] = "working"
    /\ Report("failed") /\ Move(e, "refused")
    /\ UNCHANGED <<committed, links, via, host, seen, reset, doomed, jobVars, editing>>

Command(e) ==
    /\ seen[e].via = "agent" /\ xpc[e] = "working"
    /\ ReportOnBehalf("pulling_image") /\ Move(e, "commanding")
    /\ job' = [job EXCEPT ![e] = "sent"] /\ where' = [where EXCEPT ![e] = "agent"]
    /\ UNCHANGED <<committed, links, via, host, seen, reset, doomed, made,
                   mail, editing>>

\* execute_command fails; the agent may have received the command.
CommandFails(e) ==
    /\ xpc[e] = "commanding"
    /\ Report("failed") /\ Move(e, "refused")
    /\ UNCHANGED <<committed, links, via, host, seen, reset, doomed, jobVars, editing>>

\* "deployment_started": the rest is up to the agent's events.
Accepted(e) ==
    /\ xpc[e] = "commanding" /\ job[e] \notin {"none", "sent"}
    /\ Move(e, "done")
    /\ UNCHANGED <<rowVars, host, seen, reset, doomed, jobVars, editing>>

\* handle_deploy_progress: whatever the row says of its host by now.
Progress(e) ==
    /\ where[e] = "agent" /\ job[e] \notin {"none", "sent"} /\ mail[e] = "open"
    /\ ReportOnBehalf("starting")
    /\ UNCHANGED <<committed, links, via, host, execVars, jobVars, editing>>

\* _link_containers_to_deployment
Link(e) == links' = made[e] /\ committed' = TRUE

FinalStatus(outcome) == IF outcome = "success" THEN "running" ELSE outcome

\* handle_deploy_complete: whichever execution is under way.
Complete(e) ==
    /\ where[e] = "agent" /\ job[e] \in {"success", "partial", "failed"}
    /\ mail[e] = "open"
    /\ mail' = [mail EXCEPT ![e] = "closed"] /\ made' = [made EXCEPT ![e] = {}]
    /\ Report(FinalStatus(job[e]))
    /\ IF status # "gone" /\ job[e] # "failed" THEN Link(e)
       ELSE UNCHANGED <<committed, links>>
    /\ UNCHANGED <<via, host, execVars, job, where, editing>>

\* The agent or its connection is lost: its events are not sent again.
LoseEvents(e) ==
    /\ where[e] = "agent" /\ mail[e] = "open" /\ job[e] # "none"
    /\ mail' = [mail EXCEPT ![e] = "closed"] /\ made' = [made EXCEPT ![e] = {}]
    /\ UNCHANGED <<rowVars, host, execVars, job, where, editing>>

------------------------------------------------------------------------------
(* compose up, on the agent or in compose-service                           *)

JobStarts(e) ==
    /\ job[e] = "sent"
    /\ job' = [job EXCEPT ![e] = "running"]
    /\ UNCHANGED <<rowVars, host, execVars, where, made, mail, editing>>

\* Containers are created anew, or kept if nothing changed; a failure may come
\* before or after they were created.
JobEnds(e, outcome) ==
    /\ job[e] = "running"
    /\ job' = [job EXCEPT ![e] = outcome]
    /\ \/ host' = [host EXCEPT ![where[e]] = {e}]
       \/ UNCHANGED host /\ (host[where[e]] # {} \/ outcome = "failed")
    /\ made' = [made EXCEPT ![e] = IF outcome = "failed" \/ mail[e] = "closed" THEN {}
                                   ELSE host'[where[e]]]
    /\ UNCHANGED <<rowVars, execVars, where, mail, editing>>

------------------------------------------------------------------------------
Execution(e) ==
    \/ Start(e) \/ Commit(e) \/ FailEarly(e) \/ FailLate(e) \/ Rollback(e)
    \/ RollbackEnds(e) \/ Dispatch(e) \/ Succeed(e) \/ Refuse(e) \/ Command(e)
    \/ CommandFails(e) \/ Accepted(e)

Job(e) == JobStarts(e) \/ \E o \in {"success", "partial", "failed"} : JobEnds(e, o)

Next ==
    \/ \E e \in Execs :
          \/ Execution(e) \/ Job(e) \/ Progress(e) \/ Complete(e) \/ LoseEvents(e)
          \/ \E redeploy \in BOOLEAN : Request(e, redeploy)
    \/ EditBegin \/ EditEnd \/ Delete

\* The awaits of an execution end (asyncio.timeout).
Fairness == \A e \in Execs : WF_vars(Execution(e))

Spec == Init /\ [][Next]_vars /\ Fairness
------------------------------------------------------------------------------
(* Properties                                                               *)

\* The backend never orphans a deployment in an in-progress status, in which it
\* could be neither executed nor deleted: an execution is at work that will write
\* another one, even after two executions, edits that move the row to another
\* host, and rollbacks have written over each other's status.  Only a status
\* that an agent is to follow up may stay (InProgressIsExecuting).
InProgressIsOwned ==
    status \in InProgress /\ ~delegated =>
        \E e \in Execs : xpc[e] \in {"working", "deploying"}

\* "These states indicate the deployment is in progress" (delete_deployment): an
\* execution is at work, or an agent whose final report will still arrive.
InProgressIsExecuting ==
    status \in InProgress =>
        \E e \in Execs : \/ xpc[e] \notin {"idle", "done"}
                         \/ where[e] = "agent" /\ job[e] # "none" /\ mail[e] = "open"

\* "This prevents rollback operations from destroying successfully committed
\* state": containers are linked only at the commitment point, and no rollback
\* removes one.
RollbackSparesCommitted ==
    [][\A e \in Execs : xpc[e] = "removing" /\ xpc'[e] = "done" =>
          \A h \in Hosts : host[h] \subseteq host'[h]]_vars

\* The background task of an accepted request always comes to its end: the
\* wait for compose is bounded by asyncio.timeout, and the rollback, the final
\* status or the dispatch to the agent follows.
ExecutionEnds == \A e \in Execs : xpc[e] = "queued" ~> xpc[e] = "done"
==============================================================================
