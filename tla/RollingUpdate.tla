---------------------------- MODULE RollingUpdate ----------------------------
(***************************************************************************)
(* The rolling update of one container (shared/update, run by the agent    *)
(* and by compose-service): pull, inspect, stop and rename the old         *)
(* container to a backup name, create and start the new one, wait until it *)
(* is healthy, recreate the containers that share its network, remove the  *)
(* backup; or put the backup back.  Every call to the Docker daemon may    *)
(* fail, containers may exit by themselves, the updater may be killed, and *)
(* the backend's daily job removes old backups.                            *)
(*                                                                         *)
(* A container is <<p, v>>: the "old" or the "new" container of p, the     *)
(* updated Parent or a dependent of it.  An old dependent runs in the      *)
(* network of the old parent, a new one in that of the new parent.         *)
(***************************************************************************)
EXTENDS Naturals, FiniteSets

CONSTANTS
    Parent,          \* the container that is updated
    Deps,            \* containers with network_mode container:<Parent>
    LegacyApi        \* API < 1.44: the primary network is connected separately

ASSUME UpdateAssumption == Parent \notin Deps /\ LegacyApi \in BOOLEAN

VARIABLES
    pc,          \* the updater's next step and the container it is about
    name,        \* [Ids -> "main": its own name, "aside": backup or temp name,
                 \*         "none": does not exist]
    run,         \* [Ids -> BOOLEAN] running
    wasRunning,  \* captured before the backup
    verified,    \* the new container passed its health check
    rollback,    \* the rollback is that of a failed health check
    found,       \* dependents that FindDependentContainers returned
    todo,        \* dependents still to recreate
    failedDeps,  \* FailedDependents
    result,      \* UpdateResult
    longAgo,     \* the old container was created over 24 hours ago
    backupJob,   \* what the daily job does with the backup
    aged         \* a day has passed since the updater ended

calendar == <<longAgo, backupJob, aged>>
vars == <<pc, name, run, wasRunning, verified, rollback, found, todo,
          failedDeps, result, calendar>>
ctlVars == <<wasRunning, verified, rollback, found, todo, failedDeps, result, calendar>>

Old(p) == <<p, "old">>
New(p) == <<p, "new">>
Ids == ({Parent} \cup Deps) \X {"old", "new"}

DepPoints == {"dep_stop", "dep_rename", "dep_create", "dep_start",
              "dep_verify", "dep_drop", "dep_back", "dep_restart"}

Points == {"pull", "inspect", "stop", "rename", "create", "connect", "start",
           "health", "stop_again", "deps", "cleanup", "undo_stop", "undo",
           "find", "restore_stop", "clear", "restore_name", "restore_start",
           "ended"}

TypeOK ==
    /\ pc \in (Points \X {Parent}) \cup (DepPoints \X Deps)
    /\ name \in [Ids -> {"main", "aside", "none"}]
    /\ run \in [Ids -> BOOLEAN]
    /\ wasRunning \in BOOLEAN /\ verified \in BOOLEAN /\ rollback \in BOOLEAN
    /\ found \in SUBSET Deps /\ todo \in SUBSET found
    /\ failedDeps \in SUBSET found
    /\ result \in {"none", "success", "failed", "rolled_back", "killed"}
    /\ longAgo \in BOOLEAN /\ aged \in BOOLEAN
    /\ backupJob \in {"idle", "listed", "removed"}

Init ==
    /\ pc = <<"pull", Parent>>
    /\ name = [i \in Ids |-> IF i[2] = "old" THEN "main" ELSE "none"]
    /\ run \in {f \in [Ids -> BOOLEAN] : \A i \in Ids : f[i] => i[2] = "old"}
    /\ wasRunning = FALSE /\ verified = FALSE /\ rollback = FALSE
    /\ found = {} /\ todo = {} /\ failedDeps = {}
    /\ result = "none"
    /\ longAgo \in BOOLEAN /\ aged = FALSE
    /\ backupJob = "idle"

------------------------------------------------------------------------------
(* The Docker daemon.  A call that fails changes nothing; names are unique. *)

Unchanged == UNCHANGED <<name, run>>

Stop(i) == run' = [run EXCEPT ![i] = FALSE] /\ UNCHANGED name

StartC(i) == name[i] # "none" /\ run' = [run EXCEPT ![i] = TRUE] /\ UNCHANGED name

\* ContainerRemove with Force.
Remove(i) ==
    /\ name' = [name EXCEPT ![i] = "none"]
    /\ run' = [run EXCEPT ![i] = FALSE]

Rename(i, n) ==
    /\ name[i] # "none"
    /\ \A j \in Ids : j[1] = i[1] /\ j # i => name[j] # n
    /\ name' = [name EXCEPT ![i] = n] /\ UNCHANGED run

CreateC(p) ==
    /\ \A v \in {"old", "new"} : name[<<p, v>>] # "main"
    /\ name' = [name EXCEPT ![New(p)] = "main"] /\ UNCHANGED run

At(point, p) == pc = <<point, p>>

Goto(point, p) == pc' = <<point, p>>

\* failResult: the update returns.
Fail == Goto("ended", Parent) /\ result' = "failed"

------------------------------------------------------------------------------
(* Update                                                                   *)

Pull ==
    /\ At("pull", Parent)
    /\ \/ Goto("inspect", Parent) /\ UNCHANGED result
       \/ Fail
    /\ UNCHANGED <<name, run, wasRunning, verified, rollback, found, todo,
                   failedDeps, calendar>>

\* ContainerInspect, FindDependentContainers (what it cannot list or inspect
\* is skipped) and ExtractConfig.
Inspect ==
    /\ At("inspect", Parent)
    /\ \/ /\ name[Old(Parent)] # "none"
          /\ wasRunning' = run[Old(Parent)]
          /\ found' \in SUBSET Deps
          /\ todo' = found'
          /\ Goto("stop", Parent) /\ UNCHANGED result
       \/ Fail /\ UNCHANGED <<wasRunning, found, todo>>
    /\ UNCHANGED <<name, run, verified, rollback, failedDeps, calendar>>

\* CreateBackup: a failed stop is only logged, a failed rename ends the update.
StopOld ==
    /\ At("stop", Parent)
    /\ Goto("rename", Parent)
    /\ Stop(Old(Parent)) \/ Unchanged
    /\ UNCHANGED ctlVars

RenameOld ==
    /\ At("rename", Parent)
    /\ \/ Rename(Old(Parent), "aside") /\ Goto("create", Parent) /\ UNCHANGED result
       \/ Unchanged /\ Fail
    /\ UNCHANGED <<wasRunning, verified, rollback, found, todo, failedDeps, calendar>>

Create ==
    /\ At("create", Parent)
    /\ \/ CreateC(Parent) /\ Goto(IF LegacyApi THEN "connect" ELSE "start", Parent)
       \/ Unchanged /\ Goto("find", Parent)
    /\ UNCHANGED ctlVars

\* NetworkConnect of the primary network.
Connect ==
    /\ At("connect", Parent)
    /\ Goto("start", Parent) \/ Goto("undo", Parent)
    /\ Unchanged /\ UNCHANGED ctlVars

StartNew ==
    /\ At("start", Parent)
    /\ \/ StartC(New(Parent)) /\ Goto("health", Parent)
       \/ Unchanged /\ Goto("undo", Parent)
    /\ UNCHANGED ctlVars

\* Mutants: a failed check is ignored; an unhealthy container is waited for.
HealthIgnored ==
    /\ At("health", Parent) /\ Goto("deps", Parent) /\ Unchanged /\ UNCHANGED ctlVars
HealthNoDeadline ==
    /\ At("health", Parent) /\ ~run[New(Parent)]
    /\ Goto("undo_stop", Parent) /\ Unchanged /\ UNCHANGED ctlVars

\* WaitForHealthy: healthy (running, or exited as its restart policy accepts),
\* or crashed, unhealthy, not inspectable, timed out.
Health ==
    /\ At("health", Parent)
    /\ \/ /\ name[New(Parent)] # "none"
          /\ Goto(IF wasRunning THEN "deps" ELSE "stop_again", Parent)
          /\ verified' = TRUE /\ UNCHANGED rollback
       \/ Goto("undo_stop", Parent) /\ rollback' = TRUE /\ UNCHANGED verified
    /\ Unchanged
    /\ UNCHANGED <<wasRunning, found, todo, failedDeps, result, calendar>>

\* The container was stopped before the update: stop the new one again.
StopAgain ==
    /\ At("stop_again", Parent)
    /\ Stop(New(Parent)) \/ Unchanged
    /\ Goto("deps", Parent)
    /\ UNCHANGED ctlVars

\* RemoveBackup, whose failure is only logged; the update has succeeded.
Cleanup ==
    /\ At("cleanup", Parent)
    /\ Remove(Old(Parent)) \/ Unchanged
    /\ Goto("ended", Parent) /\ result' = "success"
    /\ UNCHANGED <<wasRunning, verified, rollback, found, todo, failedDeps, calendar>>

------------------------------------------------------------------------------
(* Rolling back: stop and remove the new container, then RestoreBackup.     *)

UndoStop ==
    /\ At("undo_stop", Parent)
    /\ Stop(New(Parent)) \/ Unchanged
    /\ Goto("undo", Parent) /\ UNCHANGED ctlVars

Undo ==
    /\ At("undo", Parent)
    /\ Remove(New(Parent)) \/ Unchanged
    /\ Goto("find", Parent) /\ UNCHANGED ctlVars

\* The verdict of a rollback.  Mutant: a failed restore is reported as a rollback.
AlwaysRolledBack(ok) == IF rollback THEN "rolled_back" ELSE "failed"

\* RolledBack is set for a failed health check only, and only if the restore
\* succeeded; the other rollbacks discard RestoreBackup's error.
Verdict(ok) == IF rollback /\ ok THEN "rolled_back" ELSE "failed"

EndRestore(ok) == Goto("ended", Parent) /\ result' = Verdict(ok)

\* GetContainerByName and ContainerInspect of the backup.
FindBackup ==
    /\ At("find", Parent)
    /\ \/ /\ name[Old(Parent)] = "aside"
          /\ Goto(IF run[Old(Parent)] THEN "restore_stop" ELSE "clear", Parent)
          /\ UNCHANGED result
       \/ EndRestore(FALSE)
    /\ Unchanged
    /\ UNCHANGED <<wasRunning, verified, rollback, found, todo, failedDeps, calendar>>

\* "Backup is running (unexpected)": stop, else kill; both may fail.
RestoreStop ==
    /\ At("restore_stop", Parent)
    /\ Stop(Old(Parent)) \/ Unchanged
    /\ Goto("clear", Parent) /\ UNCHANGED ctlVars

\* Remove whatever holds the original name.
ClearName ==
    /\ At("clear", Parent)
    /\ Remove(New(Parent)) \/ Unchanged
    /\ Goto("restore_name", Parent) /\ UNCHANGED ctlVars

RestoreName ==
    /\ At("restore_name", Parent)
    /\ \/ /\ Rename(Old(Parent), "main")
          /\ IF wasRunning THEN Goto("restore_start", Parent) /\ UNCHANGED result
             ELSE EndRestore(TRUE)
       \/ Unchanged /\ EndRestore(FALSE)
    /\ UNCHANGED <<wasRunning, verified, rollback, found, todo, failedDeps, calendar>>

RestoreStart ==
    /\ At("restore_start", Parent)
    /\ \/ StartC(Old(Parent)) /\ EndRestore(TRUE)
       \/ Unchanged /\ EndRestore(FALSE)
    /\ UNCHANGED <<wasRunning, verified, rollback, found, todo, failedDeps, calendar>>

------------------------------------------------------------------------------
(* RecreateDependentContainers: one dependent after the other.              *)

NextDep ==
    /\ At("deps", Parent)
    /\ \/ todo = {} /\ Goto("cleanup", Parent)
       \/ \E d \in todo : Goto("dep_stop", d)
    /\ Unchanged /\ UNCHANGED ctlVars

\* d is finished; ok says whether recreateDependentContainer returned nil.
DepDone(d, ok) ==
    /\ Goto("deps", Parent)
    /\ todo' = todo \ {d}
    /\ failedDeps' = IF ok THEN failedDeps ELSE failedDeps \cup {d}

depRest == <<wasRunning, verified, rollback, found, result, calendar>>

\* ExtractConfig may fail; a failed stop is followed by a kill that may fail.
DepStop(d) ==
    /\ At("dep_stop", d)
    /\ \/ /\ Stop(Old(d)) \/ Unchanged
          /\ Goto("dep_rename", d) /\ UNCHANGED <<todo, failedDeps>>
       \/ Unchanged /\ DepDone(d, FALSE)
    /\ UNCHANGED depRest

DepRename(d) ==
    /\ At("dep_rename", d)
    /\ \/ /\ Rename(Old(d), "aside")
          /\ Goto("dep_create", d) /\ UNCHANGED <<todo, failedDeps>>
       \/ Unchanged /\ DepDone(d, FALSE)
    /\ UNCHANGED depRest

\* Mutant: a failed create is treated like a success.
DepCreateUnchecked(d) ==
    /\ At("dep_create", d)
    /\ CreateC(d) \/ Unchanged
    /\ Goto("dep_drop", d)
    /\ UNCHANGED ctlVars

DepCreate(d) ==
    /\ At("dep_create", d)
    /\ \/ CreateC(d) /\ Goto("dep_start", d)
       \/ Unchanged /\ Goto("dep_back", d)
    /\ UNCHANGED ctlVars

\* The rollbacks after a failed start or a failed verification (stop and)
\* remove the new dependent.
RemoveNewDep(d) == (Remove(New(d)) \/ Unchanged) /\ Goto("dep_back", d)

DepStart(d) ==
    /\ At("dep_start", d)
    /\ \/ StartC(New(d)) /\ Goto("dep_verify", d)
       \/ RemoveNewDep(d)
    /\ UNCHANGED ctlVars

\* Three seconds later: still running?
DepVerify(d) ==
    /\ At("dep_verify", d)
    /\ \/ run[New(d)] /\ Unchanged /\ Goto("dep_drop", d)
       \/ RemoveNewDep(d)
    /\ UNCHANGED ctlVars

DepDrop(d) ==
    /\ At("dep_drop", d)
    /\ Remove(Old(d)) \/ Unchanged
    /\ DepDone(d, TRUE)
    /\ UNCHANGED depRest

\* Put the old dependent back: rename and start, neither checked.
DepBack(d) ==
    /\ At("dep_back", d)
    /\ Rename(Old(d), "main") \/ Unchanged
    /\ Goto("dep_restart", d)
    /\ UNCHANGED ctlVars

DepRestart(d) ==
    /\ At("dep_restart", d)
    /\ StartC(Old(d)) \/ Unchanged
    /\ DepDone(d, FALSE)
    /\ UNCHANGED depRest

------------------------------------------------------------------------------
(* The environment                                                          *)

\* A running container exits.
Exit(i) ==
    /\ run[i] /\ result = "none"
    /\ run' = [run EXCEPT ![i] = FALSE]
    /\ UNCHANGED <<pc, name, ctlVars>>

\* The process that runs the update dies; nothing resumes the update.
Kill ==
    /\ ~At("ended", Parent)
    /\ Goto("ended", Parent) /\ result' = "killed"
    /\ UNCHANGED <<name, run, wasRunning, verified, rollback, found, todo,
                   failedDeps, calendar>>

DayPasses ==
    /\ At("ended", Parent) /\ ~aged
    /\ aged' = TRUE /\ longAgo' = TRUE
    /\ UNCHANGED <<pc, name, run, wasRunning, verified, rollback, found, todo,
                   failedDeps, result, backupJob>>

\* cleanup_old_backup_containers lists the containers: it goes by the name, and
\* by the age of the container, which is the old container renamed, not by that
\* of the backup.
ListBackup ==
    /\ backupJob = "idle"
    /\ name[Old(Parent)] = "aside" /\ longAgo
    /\ backupJob' = "listed"
    /\ UNCHANGED <<pc, name, run, wasRunning, verified, rollback, found, todo,
                   failedDeps, result, longAgo, aged>>

\* It removes what it listed, by id: under whatever name it is now.
CleanupOldBackup ==
    /\ backupJob = "listed" /\ name[Old(Parent)] # "none"
    /\ Remove(Old(Parent))
    /\ backupJob' = "removed"
    /\ UNCHANGED <<pc, wasRunning, verified, rollback, found, todo, failedDeps,
                   result, longAgo, aged>>

------------------------------------------------------------------------------
DepStep(d) ==
    \/ DepStop(d) \/ DepRename(d) \/ DepCreate(d) \/ DepStart(d)
    \/ DepVerify(d) \/ DepDrop(d) \/ DepBack(d) \/ DepRestart(d)

Updater ==
    \/ Pull \/ Inspect \/ StopOld \/ RenameOld \/ Create \/ Connect \/ StartNew
    \/ Health \/ StopAgain \/ Cleanup \/ UndoStop \/ Undo \/ FindBackup
    \/ RestoreStop \/ ClearName \/ RestoreName \/ RestoreStart \/ NextDep
    \/ \E d \in Deps : DepStep(d)

Next ==
    \/ Updater
    \/ \E i \in Ids : Exit(i)
    \/ Kill \/ DayPasses \/ ListBackup \/ CleanupOldBackup

\* Every Docker call of the updater returns or times out.
Spec == Init /\ [][Next]_vars /\ WF_vars(Updater)
------------------------------------------------------------------------------
(* Properties                                                               *)

\* Whichever Docker calls fail, and even if the updater is killed, an update
\* does not destroy the workload: once the new container has passed its health
\* check it keeps the name, and until then the old one exists.  Only the daily
\* job may have taken the old one (BackupIsKeptADay is about that).
WorkloadSurvives ==
    IF verified THEN name[New(Parent)] = "main"
    ELSE name[Old(Parent)] # "none" \/ backupJob = "removed"

\* "Remove backup containers older than 24 hours": within a day of the update the
\* daily job does not take the only container of the workload.
BackupIsKeptADay ==
    ~aged => name[Old(Parent)] # "none"
                 \/ (verified /\ name[New(Parent)] = "main")

\* RolledBack is truthful: a caller that is told so finds the old container
\* under its own name, with the state (running or stopped) that it had, and no
\* trace of the new one.
TruthfulRollback ==
    [][result = "none" /\ result' = "rolled_back" =>
        /\ name'[Old(Parent)] = "main"
        /\ name'[New(Parent)] = "none"
        /\ run'[Old(Parent)] = wasRunning]_vars

\* A success is reported only for a new container that passed its health check
\* and holds the name, and FailedDependents is complete: every dependent that
\* was found is listed there or has its name on a container in the new
\* parent's network.
TruthfulSuccess ==
    result = "success" =>
        /\ verified /\ name[New(Parent)] = "main"
        /\ \A d \in found \ failedDeps : name[New(d)] = "main"

\* Recreating a dependent never loses it: the old one is removed only after
\* the new one was seen running.
DependentsSurvive ==
    \A d \in Deps : name[Old(d)] # "none" \/ name[New(d)] = "main"

\* An update ends, whatever fails.
UpdateEnds == <>(result # "none")

\* Neither the workload nor a dependent is lost (shared/update).
NothingIsLost == WorkloadSurvives /\ DependentsSurvive

\* The result that Update returns is true, be it a success or a rollback.
ResultIsTruthful == []TruthfulSuccess /\ TruthfulRollback

\* The containers of the updated workload, as its owner sees them.
Remaining == {v \in {"old", "new"} : name[<<Parent, v>>] # "none"}
Holder ==
    IF name[Old(Parent)] = "main" THEN "old"
    ELSE IF name[New(Parent)] = "main" THEN "new" ELSE "nobody"

R == INSTANCE Replacement WITH exists <- Remaining, holder <- Holder,
                               verified <- verified, outcome <- result,
                               perishable <- longAgo

\* Update, with all its failing Docker calls, rollbacks and kills, implements
\* the replacement that its callers rely on: the updater gives the old container
\* up only for a verified one, and every report is true.
ImplementsReplacement == R!Spec
==============================================================================
