------------------------- MODULE RollingUpdateProofs -------------------------
(***************************************************************************)
(* The safety of RollingUpdate for any set of dependents, and of           *)
(* UpdateChecks for any number of ids, versions and requests.              *)
(*                                                                         *)
(* RollingUpdate: the inductive invariant says what each phase of Update   *)
(* may rely on: the new container holds its name from the health check on, *)
(* a rollback only ever starts before that, and the dependent being        *)
(* recreated still has its old container.                                  *)
(*                                                                         *)
(* UpdateChecks: that the settings are in the row of a container that was  *)
(* discovered says nothing of the time before discovery, or between the    *)
(* replacement of the container and the migration of its row.  The         *)
(* inductive invariant says in which row they are then, and that a row is  *)
(* true of the image even while it makes no offer.                         *)
(***************************************************************************)
EXTENDS RollingUpdate, UpdateChecks, TLAPS

Before == {"pull", "inspect"}

Forward == {"stop", "rename", "create", "connect", "start", "health"}

Backward == {"undo_stop", "undo", "find", "restore_stop", "clear",
             "restore_name", "restore_start"}

Confirmed == {"stop_again", "deps", "cleanup"} \cup DepPoints

\* The phases of the updated container.
ParentInv ==
    /\ name[New(Parent)] # "aside"
    /\ name[New(Parent)] = "main" => name[Old(Parent)] # "main"
    /\ pc[1] \in Before \cup {"stop", "rename", "create"} => name[New(Parent)] = "none"
    /\ pc[1] \in Before \cup Forward \cup Backward => ~verified
    /\ pc[1] \in Confirmed => verified /\ name[New(Parent)] = "main"
    /\ pc[1] = "restore_start" => /\ wasRunning
                                  /\ name[Old(Parent)] # "aside"
                                  /\ name[New(Parent)] = "none"
    /\ pc[1] \in Forward \cup Backward \cup Confirmed =>
          (run[Old(Parent)] => wasRunning)
    /\ pc[1] # "ended" => ~aged
    /\ WorkloadSurvives
    /\ backupJob # "idle" => longAgo

\* The recreation of the dependents, one by one.
DependentInv ==
    /\ pc[1] \in Before => found = {}
    /\ pc[1] \in DepPoints => pc[2] \in todo
    /\ pc[1] \in {"dep_start", "dep_verify", "dep_drop"} => name[New(pc[2])] = "main"
    /\ \A d \in Deps : name[New(d)] # "aside"
    /\ \A d \in Deps : name[Old(d)] = "none" =>
          d \in found /\ d \notin todo /\ name[New(d)] = "main"
    /\ \A d \in found : d \in todo \/ d \in failedDeps \/ name[New(d)] = "main"
    /\ pc[1] = "cleanup" => todo = {}
    /\ pc[1] # "ended" <=> result = "none"
    /\ result = "success" => verified /\ name[New(Parent)] = "main" /\ todo = {}

\* The inductive invariant.
UpdateInv == TypeOK /\ ParentInv /\ DependentInv

USE UpdateAssumption DEF Old, New, Ids, At, Goto, Points, DepPoints, Before,
    Forward, Backward, Confirmed, calendar

------------------------------------------------------------------------------
\* The update starts with every old container under its own name.
LEMMA InitUpdateInv == Init => UpdateInv
<1> SUFFICES ASSUME Init PROVE UpdateInv
  OBVIOUS
<1>1. TypeOK
  BY DEF Init, TypeOK
<1>2. ParentInv
  BY DEF Init, ParentInv, WorkloadSurvives
<1>3. DependentInv
  BY DEF Init, DependentInv
<1>. QED  BY <1>1, <1>2, <1>3 DEF UpdateInv

\* Pulling, inspecting, and what moves the update forward without touching a
\* container.
LEMMA ForwardStep ==
  ASSUME UpdateInv, Pull \/ Inspect \/ Connect \/ Health \/ NextDep \/ Kill \/ DayPasses
  PROVE  UpdateInv'
<1> USE DEF UpdateInv, TypeOK, ParentInv, DependentInv, WorkloadSurvives,
            Unchanged, ctlVars, Fail
<1>1. CASE Pull
  BY <1>1 DEF Pull
<1>2. CASE Inspect
  <2>1. CASE UNCHANGED <<wasRunning, found, todo>> /\ Fail
    BY <1>2, <2>1 DEF Inspect
  <2>2. CASE /\ wasRunning' = run[Old(Parent)]
             /\ found' \in SUBSET Deps
             /\ todo' = found'
             /\ Goto("stop", Parent) /\ UNCHANGED result
    <3>1. /\ pc = <<"inspect", Parent>>
          /\ UNCHANGED <<name, run, verified, rollback, failedDeps, calendar>>
      BY <1>2 DEF Inspect
    <3>2. found = {} /\ todo = {} /\ failedDeps = {}
      BY <3>1
    <3>3. TypeOK'
      <4>1. wasRunning' \in BOOLEAN
        BY <2>2
      <4>2. failedDeps' \in SUBSET found'
        BY <3>1, <3>2
      <4>. QED  BY <2>2, <3>1, <4>1, <4>2
    <3>4. ParentInv'
      BY <2>2, <3>1
    <3>5. DependentInv'
      BY <2>2, <3>1, <3>2
    <3>. QED  BY <3>3, <3>4, <3>5
  <2>. QED  BY <1>2, <2>1, <2>2 DEF Inspect
<1>3. CASE Connect
  BY <1>3 DEF Connect
<1>4. CASE Health
  <2>1. TypeOK'
    <3>1. pc' \in (Points \X {Parent}) \cup (DepPoints \X Deps)
      BY <1>4 DEF Health
    <3>2. verified' \in BOOLEAN /\ rollback' \in BOOLEAN
      BY <1>4 DEF Health
    <3>. QED  BY <1>4, <3>1, <3>2 DEF Health
  <2>2. ParentInv'
    BY <1>4 DEF Health
  <2>3. DependentInv'
    BY <1>4 DEF Health
  <2>. QED  BY <2>1, <2>2, <2>3
<1>5. CASE NextDep
  BY <1>5 DEF NextDep
<1>6. CASE Kill
  BY <1>6 DEF Kill
<1>7. CASE DayPasses
  BY <1>7 DEF DayPasses
<1>. QED  BY <1>1, <1>2, <1>3, <1>4, <1>5, <1>6, <1>7

\* Setting the old container aside, creating and starting the new one, and
\* dropping the backup.
LEMMA ReplaceStep ==
  ASSUME UpdateInv, StopOld \/ RenameOld \/ Create \/ StartNew \/ StopAgain \/ Cleanup
  PROVE  UpdateInv'
<1> USE DEF UpdateInv, TypeOK, ParentInv, DependentInv, WorkloadSurvives,
            Unchanged, ctlVars, depRest, Fail, DepDone, EndRestore, Verdict,
            Stop, StartC, Remove, Rename, CreateC, RemoveNewDep
<1>1. CASE StopOld
  <2>1. TypeOK'
    BY <1>1 DEF StopOld
  <2>2. ParentInv'
    BY <1>1 DEF StopOld
  <2>3. DependentInv'
    BY <1>1 DEF StopOld
  <2>. QED  BY <2>1, <2>2, <2>3
<1>2. CASE RenameOld
  <2>1. TypeOK'
    BY <1>2 DEF RenameOld
  <2>2. ParentInv'
    BY <1>2 DEF RenameOld
  <2>3. DependentInv'
    BY <1>2 DEF RenameOld
  <2>. QED  BY <2>1, <2>2, <2>3
<1>3. CASE Create
  <2>1. TypeOK'
    BY <1>3 DEF Create
  <2>2. ParentInv'
    BY <1>3 DEF Create
  <2>3. DependentInv'
    BY <1>3 DEF Create
  <2>. QED  BY <2>1, <2>2, <2>3
<1>4. CASE StartNew
  <2>1. TypeOK'
    <3>1. pc' \in (Points \X {Parent}) \cup (DepPoints \X Deps)
      BY <1>4 DEF StartNew
    <3>2. run' \in [Ids -> BOOLEAN]
      BY <1>4 DEF StartNew
    <3>3. name' \in [Ids -> {"main", "aside", "none"}]
      BY <1>4 DEF StartNew
    <3>4. UNCHANGED <<wasRunning, verified, rollback, found, longAgo, backupJob, aged>>
      BY <1>4 DEF StartNew
    <3>5. /\ todo' \in SUBSET found /\ failedDeps' \in SUBSET found
          /\ result' \in {"none", "success", "failed", "rolled_back", "killed"}
      BY <1>4 DEF StartNew
    <3>. QED  BY <3>1, <3>2, <3>3, <3>4, <3>5
  <2>2. ParentInv'
    BY <1>4 DEF StartNew
  <2>3. DependentInv'
    BY <1>4 DEF StartNew
  <2>. QED  BY <2>1, <2>2, <2>3
<1>5. CASE StopAgain
  <2>1. TypeOK'
    BY <1>5 DEF StopAgain
  <2>2. ParentInv'
    BY <1>5 DEF StopAgain
  <2>3. DependentInv'
    BY <1>5 DEF StopAgain
  <2>. QED  BY <2>1, <2>2, <2>3
<1>6. CASE Cleanup
  <2>1. TypeOK'
    BY <1>6 DEF Cleanup
  <2>2. ParentInv'
    BY <1>6 DEF Cleanup
  <2>3. DependentInv'
    BY <1>6 DEF Cleanup
  <2>. QED  BY <2>1, <2>2, <2>3
<1>. QED  BY <1>1, <1>2, <1>3, <1>4, <1>5, <1>6

\* The rollback: the new container goes and the backup comes back.
LEMMA RollbackStep ==
  ASSUME UpdateInv, UndoStop \/ Undo \/ FindBackup \/ RestoreStop \/ ClearName \/ RestoreName \/ RestoreStart
  PROVE  UpdateInv'
<1> USE DEF UpdateInv, TypeOK, ParentInv, DependentInv, WorkloadSurvives,
            Unchanged, ctlVars, depRest, Fail, DepDone, EndRestore, Verdict,
            Stop, StartC, Remove, Rename, CreateC, RemoveNewDep
<1>1. CASE UndoStop
  <2>1. TypeOK'
    BY <1>1 DEF UndoStop
  <2>2. ParentInv'
    BY <1>1 DEF UndoStop
  <2>3. DependentInv'
    BY <1>1 DEF UndoStop
  <2>. QED  BY <2>1, <2>2, <2>3
<1>2. CASE Undo
  <2>1. TypeOK'
    BY <1>2 DEF Undo
  <2>2. ParentInv'
    BY <1>2 DEF Undo
  <2>3. DependentInv'
    BY <1>2 DEF Undo
  <2>. QED  BY <2>1, <2>2, <2>3
<1>3. CASE FindBackup
  <2>1. TypeOK'
    BY <1>3 DEF FindBackup
  <2>2. ParentInv'
    BY <1>3 DEF FindBackup
  <2>3. DependentInv'
    BY <1>3 DEF FindBackup
  <2>. QED  BY <2>1, <2>2, <2>3
<1>4. CASE RestoreStop
  <2>1. TypeOK'
    BY <1>4 DEF RestoreStop
  <2>2. ParentInv'
    BY <1>4 DEF RestoreStop
  <2>3. DependentInv'
    BY <1>4 DEF RestoreStop
  <2>. QED  BY <2>1, <2>2, <2>3
<1>5. CASE ClearName
  <2>1. TypeOK'
    BY <1>5 DEF ClearName
  <2>2. ParentInv'
    BY <1>5 DEF ClearName
  <2>3. DependentInv'
    BY <1>5 DEF ClearName
  <2>. QED  BY <2>1, <2>2, <2>3
<1>6. CASE RestoreName
  <2>1. TypeOK'
    BY <1>6 DEF RestoreName
  <2>2. ParentInv'
    BY <1>6 DEF RestoreName
  <2>3. DependentInv'
    BY <1>6 DEF RestoreName
  <2>. QED  BY <2>1, <2>2, <2>3
<1>7. CASE RestoreStart
  <2>1. TypeOK'
    <3>1. pc' \in (Points \X {Parent}) \cup (DepPoints \X Deps)
      BY <1>7 DEF RestoreStart
    <3>2. run' \in [Ids -> BOOLEAN]
      BY <1>7 DEF RestoreStart
    <3>3. name' \in [Ids -> {"main", "aside", "none"}]
      BY <1>7 DEF RestoreStart
    <3>4. UNCHANGED <<wasRunning, verified, rollback, found, longAgo, backupJob, aged>>
      BY <1>7 DEF RestoreStart
    <3>5. /\ todo' \in SUBSET found /\ failedDeps' \in SUBSET found
          /\ result' \in {"none", "success", "failed", "rolled_back", "killed"}
      BY <1>7 DEF RestoreStart
    <3>. QED  BY <3>1, <3>2, <3>3, <3>4, <3>5
  <2>2. ParentInv'
    BY <1>7 DEF RestoreStart
  <2>3. DependentInv'
    BY <1>7 DEF RestoreStart
  <2>. QED  BY <2>1, <2>2, <2>3
<1>. QED  BY <1>1, <1>2, <1>3, <1>4, <1>5, <1>6, <1>7

\* The recreation of one dependent.
LEMMA DependentStep ==
  ASSUME UpdateInv, NEW d \in Deps,
         \/ DepStop(d) \/ DepRename(d) \/ DepCreate(d) \/ DepStart(d)
         \/ DepVerify(d) \/ DepDrop(d) \/ DepBack(d) \/ DepRestart(d)
  PROVE  UpdateInv'
<1> USE DEF UpdateInv, TypeOK, ParentInv, DependentInv, WorkloadSurvives,
            Unchanged, ctlVars, depRest, Fail, DepDone, EndRestore, Verdict,
            Stop, StartC, Remove, Rename, CreateC, RemoveNewDep
<1>1. CASE DepStop(d)
  <2>1. TypeOK'
    <3>1. pc' \in (Points \X {Parent}) \cup (DepPoints \X Deps)
      BY <1>1 DEF DepStop
    <3>2. run' \in [Ids -> BOOLEAN]
      BY <1>1 DEF DepStop
    <3>3. name' \in [Ids -> {"main", "aside", "none"}]
      BY <1>1 DEF DepStop
    <3>4. UNCHANGED <<wasRunning, verified, rollback, found, longAgo, backupJob, aged>>
      BY <1>1 DEF DepStop
    <3>5. /\ todo' \in SUBSET found /\ failedDeps' \in SUBSET found
          /\ result' \in {"none", "success", "failed", "rolled_back", "killed"}
      BY <1>1 DEF DepStop
    <3>. QED  BY <3>1, <3>2, <3>3, <3>4, <3>5
  <2>2. ParentInv'
    BY <1>1 DEF DepStop
  <2>3. DependentInv'
    BY <1>1 DEF DepStop
  <2>. QED  BY <2>1, <2>2, <2>3
<1>2. CASE DepRename(d)
  <2>1. TypeOK'
    BY <1>2 DEF DepRename
  <2>2. ParentInv'
    BY <1>2 DEF DepRename
  <2>3. DependentInv'
    BY <1>2 DEF DepRename
  <2>. QED  BY <2>1, <2>2, <2>3
<1>3. CASE DepCreate(d)
  <2>1. TypeOK'
    <3>1. pc' \in (Points \X {Parent}) \cup (DepPoints \X Deps)
      BY <1>3 DEF DepCreate
    <3>2. run' \in [Ids -> BOOLEAN] /\ name' \in [Ids -> {"main", "aside", "none"}]
      BY <1>3 DEF DepCreate
    <3>3. UNCHANGED <<wasRunning, verified, rollback, found, todo, failedDeps, result, calendar>>
      BY <1>3 DEF DepCreate
    <3>. QED  BY <3>1, <3>2, <3>3
  <2>2. ParentInv'
    BY <1>3 DEF DepCreate
  <2>3. DependentInv'
    BY <1>3 DEF DepCreate
  <2>. QED  BY <2>1, <2>2, <2>3
<1>4. CASE DepStart(d)
  <2>1. TypeOK'
    <3>1. pc' \in (Points \X {Parent}) \cup (DepPoints \X Deps)
      BY <1>4 DEF DepStart
    <3>2. run' \in [Ids -> BOOLEAN]
      BY <1>4 DEF DepStart
    <3>3. name' \in [Ids -> {"main", "aside", "none"}]
      BY <1>4 DEF DepStart
    <3>4. UNCHANGED <<wasRunning, verified, rollback, found, longAgo, backupJob, aged>>
      BY <1>4 DEF DepStart
    <3>5. /\ todo' \in SUBSET found /\ failedDeps' \in SUBSET found
          /\ result' \in {"none", "success", "failed", "rolled_back", "killed"}
      BY <1>4 DEF DepStart
    <3>. QED  BY <3>1, <3>2, <3>3, <3>4, <3>5
  <2>2. ParentInv'
    BY <1>4 DEF DepStart
  <2>3. DependentInv'
    <3>1. /\ pc = <<"dep_start", d>> /\ d \in todo
          /\ name[Old(d)] # "none" /\ name[New(d)] = "main"
          /\ UNCHANGED <<verified, found, todo, failedDeps, result>>
      BY <1>4 DEF DepStart
    <3>2. CASE UNCHANGED name
      BY <1>4, <3>1, <3>2 DEF DepStart
    <3>3. CASE name' = [name EXCEPT ![New(d)] = "none"] /\ Goto("dep_back", d)
      BY <3>1, <3>3
    <3>. QED  BY <1>4, <3>2, <3>3 DEF DepStart
  <2>. QED  BY <2>1, <2>2, <2>3
<1>5. CASE DepVerify(d)
  <2>1. TypeOK'
    <3>1. pc' \in (Points \X {Parent}) \cup (DepPoints \X Deps)
      BY <1>5 DEF DepVerify
    <3>2. run' \in [Ids -> BOOLEAN]
      BY <1>5 DEF DepVerify
    <3>3. name' \in [Ids -> {"main", "aside", "none"}]
      BY <1>5 DEF DepVerify
    <3>4. UNCHANGED <<wasRunning, verified, rollback, found, longAgo, backupJob, aged>>
      BY <1>5 DEF DepVerify
    <3>5. /\ todo' \in SUBSET found /\ failedDeps' \in SUBSET found
          /\ result' \in {"none", "success", "failed", "rolled_back", "killed"}
      BY <1>5 DEF DepVerify
    <3>. QED  BY <3>1, <3>2, <3>3, <3>4, <3>5
  <2>2. ParentInv'
    BY <1>5 DEF DepVerify
  <2>3. DependentInv'
    <3>1. /\ pc = <<"dep_verify", d>> /\ d \in todo
          /\ name[Old(d)] # "none" /\ name[New(d)] = "main"
          /\ UNCHANGED <<verified, found, todo, failedDeps, result>>
      BY <1>5 DEF DepVerify
    <3>2. CASE UNCHANGED name
      BY <1>5, <3>1, <3>2 DEF DepVerify
    <3>3. CASE name' = [name EXCEPT ![New(d)] = "none"] /\ Goto("dep_back", d)
      BY <3>1, <3>3
    <3>. QED  BY <1>5, <3>2, <3>3 DEF DepVerify
  <2>. QED  BY <2>1, <2>2, <2>3
<1>6. CASE DepDrop(d)
  <2>1. TypeOK'
    BY <1>6 DEF DepDrop
  <2>2. ParentInv'
    <3>1. name'[Old(Parent)] = name[Old(Parent)] /\ name'[New(Parent)] = name[New(Parent)]
      BY <1>6 DEF DepDrop
    <3>2. run'[Old(Parent)] = run[Old(Parent)]
      BY <1>6 DEF DepDrop
    <3>3. pc[1] = "dep_drop" /\ pc'[1] = "deps" /\ UNCHANGED <<wasRunning, verified, calendar>>
      BY <1>6 DEF DepDrop
    <3>. QED  BY <3>1, <3>2, <3>3
  <2>3. DependentInv'
    <3>1. /\ pc = <<"dep_drop", d>> /\ d \in todo /\ name[New(d)] = "main"
          /\ pc' = <<"deps", Parent>> /\ todo' = todo \ {d}
          /\ UNCHANGED <<verified, found, failedDeps, result>>
      BY <1>6 DEF DepDrop
    <3>2. /\ name' \in [Ids -> {"main", "aside", "none"}]
          /\ \A i \in Ids \ {Old(d)} : name'[i] = name[i]
      BY <1>6 DEF DepDrop
    <3>3. \A e \in Deps : name'[New(e)] = name[New(e)] /\ (e # d => name'[Old(e)] = name[Old(e)])
      BY <3>2
    <3>4. name'[New(Parent)] = name[New(Parent)]
      BY <3>2
    <3>5. \A e \in Deps : name'[Old(e)] = "none" =>
            e \in found' /\ e \notin todo' /\ name'[New(e)] = "main"
      <4> SUFFICES ASSUME NEW e \in Deps, name'[Old(e)] = "none"
                   PROVE  e \in found' /\ e \notin todo' /\ name'[New(e)] = "main"
        OBVIOUS
      <4>1. CASE e = d
        BY <3>1, <3>3, <4>1
      <4>2. CASE e # d
        BY <3>1, <3>3, <4>2
      <4>. QED  BY <4>1, <4>2
    <3>6. \A e \in found' : e \in todo' \/ e \in failedDeps' \/ name'[New(e)] = "main"
      <4> SUFFICES ASSUME NEW e \in found'
                   PROVE  e \in todo' \/ e \in failedDeps' \/ name'[New(e)] = "main"
        OBVIOUS
      <4>1. CASE e = d
        BY <3>1, <3>3, <4>1
      <4>2. CASE e # d
        BY <3>1, <3>3, <4>2
      <4>. QED  BY <4>1, <4>2
    <3>7. \A e \in Deps : name'[New(e)] # "aside"
      BY <3>3
    <3>. QED  BY <3>1, <3>4, <3>5, <3>6, <3>7
  <2>. QED  BY <2>1, <2>2, <2>3
<1>7. CASE DepBack(d)
  <2>1. TypeOK'
    BY <1>7 DEF DepBack
  <2>2. ParentInv'
    BY <1>7 DEF DepBack
  <2>3. DependentInv'
    BY <1>7 DEF DepBack
  <2>. QED  BY <2>1, <2>2, <2>3
<1>8. CASE DepRestart(d)
  <2>1. TypeOK'
    BY <1>8 DEF DepRestart
  <2>2. ParentInv'
    BY <1>8 DEF DepRestart
  <2>3. DependentInv'
    BY <1>8 DEF DepRestart
  <2>. QED  BY <2>1, <2>2, <2>3
<1>. QED  BY <1>1, <1>2, <1>3, <1>4, <1>5, <1>6, <1>7, <1>8

\* A container exits; the daily job removes a backup.
LEMMA EnvironmentStep ==
  ASSUME UpdateInv, (\E i \in Ids : Exit(i)) \/ ListBackup \/ CleanupOldBackup
  PROVE  UpdateInv'
<1> USE DEF UpdateInv, TypeOK, ParentInv, DependentInv, WorkloadSurvives,
            ctlVars, Remove
<1>1. ASSUME NEW i \in Ids, Exit(i)
      PROVE  UpdateInv'
  BY <1>1 DEF Exit
<1>2. CASE CleanupOldBackup
  <2>1. TypeOK'
    BY <1>2 DEF CleanupOldBackup
  <2>2. ParentInv'
    BY <1>2 DEF CleanupOldBackup
  <2>3. DependentInv'
    BY <1>2 DEF CleanupOldBackup
  <2>. QED  BY <2>1, <2>2, <2>3
<1>3. CASE ListBackup
  BY <1>3 DEF ListBackup
<1>. QED  BY <1>1, <1>2, <1>3

\* The invariant is inductive.
LEMMA NextUpdateInv == UpdateInv /\ [Next]_vars => UpdateInv'
<1>1. CASE UpdateInv /\ Next
  BY <1>1, ForwardStep, ReplaceStep, RollbackStep, DependentStep, EnvironmentStep
  DEF Next, Updater, DepStep
<1>2. CASE UpdateInv /\ UNCHANGED vars
  BY <1>2 DEF vars, UpdateInv, TypeOK, ParentInv, DependentInv, WorkloadSurvives
<1>. QED  BY <1>1, <1>2

LEMMA UpdateInvariant == Spec => []UpdateInv
  BY InitUpdateInv, NextUpdateInv, PTL DEF Spec

------------------------------------------------------------------------------
\* Type correctness of the rolling update.
THEOREM UpdateTypeCorrect == Spec => []TypeOK
<1>1. UpdateInv => TypeOK
  BY DEF UpdateInv
<1>. QED  BY <1>1, UpdateInvariant, PTL

\* Whatever fails, the updater leaves a container of the workload at every moment.
THEOREM WorkloadSurvivesHolds == Spec => []WorkloadSurvives
<1>1. UpdateInv => WorkloadSurvives
  BY DEF UpdateInv, ParentInv
<1>. QED  BY <1>1, UpdateInvariant, PTL

\* A success is reported for a container that passed its health check and
\* holds its name, and FailedDependents names every dependent not recreated.
THEOREM TruthfulSuccessHolds == Spec => []TruthfulSuccess
<1>1. UpdateInv => TruthfulSuccess
  BY DEF UpdateInv, TypeOK, DependentInv, TruthfulSuccess
<1>. QED  BY <1>1, UpdateInvariant, PTL

\* No dependent is lost.
THEOREM DependentsSurviveHolds == Spec => []DependentsSurvive
<1>1. UpdateInv => DependentsSurvive
  BY DEF UpdateInv, DependentInv, DependentsSurvive
<1>. QED  BY <1>1, UpdateInvariant, PTL

\* A rollback is reported only if the old container is back under its name and
\* in the state it was in.
THEOREM TruthfulRollbackHolds == Spec => TruthfulRollback
<1> DEFINE Restored == /\ name'[Old(Parent)] = "main"
                       /\ name'[New(Parent)] = "none"
                       /\ run'[Old(Parent)] = wasRunning
<1>1. ASSUME UpdateInv, [Next]_vars, result = "none", result' = "rolled_back"
      PROVE  Restored
  <2>1. FindBackup \/ RestoreName \/ RestoreStart
    BY <1>1 DEF Next, Updater, DepStep, vars, ctlVars, depRest, Pull, Inspect,
        StopOld, RenameOld, Create, Connect, StartNew, Health, StopAgain,
        Cleanup, UndoStop, Undo, RestoreStop, ClearName, NextDep, DepStop,
        DepRename, DepCreate, DepStart, DepVerify, DepDrop, DepBack,
        DepRestart, Exit, Kill, DayPasses, ListBackup, CleanupOldBackup, Fail
  <2>2. ~FindBackup
    BY <1>1 DEF FindBackup, EndRestore, Verdict
  <2>3. CASE RestoreName
    <3>1. ~wasRunning /\ Rename(Old(Parent), "main") /\ pc = <<"restore_name", Parent>>
      BY <1>1, <2>3 DEF RestoreName, EndRestore, Verdict
    <3>. QED  BY <1>1, <3>1 DEF Rename, UpdateInv, TypeOK, ParentInv
  <2>4. CASE RestoreStart
    <3>1. StartC(Old(Parent)) /\ pc = <<"restore_start", Parent>>
      BY <1>1, <2>4 DEF RestoreStart, EndRestore, Verdict
    <3>. QED  BY <1>1, <3>1 DEF StartC, UpdateInv, TypeOK, ParentInv
  <2>. QED  BY <2>1, <2>2, <2>3, <2>4
<1>2. UpdateInv /\ [Next]_vars =>
        [result = "none" /\ result' = "rolled_back" => Restored]_vars
  BY <1>1
<1>. QED  BY <1>2, UpdateInvariant, PTL DEF Spec, TruthfulRollback

\* Neither the workload nor a dependent is lost by an update, however old the
\* container is; only the daily job may take its backup.
THEOREM NothingIsLostHolds == Spec => []NothingIsLost
<1>1. UpdateInv => NothingIsLost
  BY DEF UpdateInv, ParentInv, DependentInv, DependentsSurvive, NothingIsLost
<1>. QED  BY <1>1, UpdateInvariant, PTL

\* What Update returns is true of the containers.
THEOREM ResultIsTruthfulHolds == Spec => ResultIsTruthful
  BY TruthfulSuccessHolds, TruthfulRollbackHolds, PTL DEF ResultIsTruthful

------------------------------------------------------------------------------
(* The update implements Replacement.                                       *)

\* A step that leaves the names of the parent's containers, the verdict of the
\* health check and the result alone is not seen.
LEMMA Unseen ==
  ASSUME UNCHANGED <<verified, result, longAgo>>,
         \A v \in {"old", "new"} : name'[<<Parent, v>>] = name[<<Parent, v>>]
  PROVE  UNCHANGED R!rvars
  BY DEF R!rvars, Remaining, Holder

USE DEF ctlVars, Unchanged, Stop, StartC, Fail

\* The steps of the updater on the updated container.
LEMMA ParentStepImplements ==
  ASSUME UpdateInv,
         \/ Pull \/ Inspect \/ StopOld \/ RenameOld \/ Create \/ Connect
         \/ StartNew \/ Health \/ StopAgain \/ Cleanup
  PROVE  [R!Next]_(R!rvars)
<1> USE DEF R!Next, R!rvars, R!Move, R!Report, R!OldNotGivenUp, Remaining, Holder
<1> USE DEF UpdateInv, TypeOK, ParentInv, DependentInv, WorkloadSurvives
<1>1. CASE Pull
  BY <1>1 DEF Pull
<1>2. CASE Inspect
  BY <1>2 DEF Inspect
<1>3. CASE StopOld \/ Connect \/ StartNew \/ StopAgain
  BY <1>3, Unseen DEF StopOld, Connect, StartNew, StopAgain
<1>4. CASE RenameOld
  BY <1>4 DEF RenameOld, Rename, R!SetAside
<1>5. CASE Create
  BY <1>5 DEF Create, CreateC, R!Provide
<1>6. CASE Health
  BY <1>6 DEF Health, R!Verify
<1>7. CASE Cleanup
  BY <1>7 DEF Cleanup, Remove, R!Retire
<1>. QED  BY <1>1, <1>2, <1>3, <1>4, <1>5, <1>6, <1>7

\* Removing the new container before it was verified is a withdrawal.
LEMMA Withdrawn ==
  ASSUME UpdateInv, pc[1] \in Backward, Remove(New(Parent)) \/ UNCHANGED <<name, run>>,
         UNCHANGED <<verified, result, longAgo>>
  PROVE  [R!Next]_(R!rvars)
<1> USE DEF R!rvars, Remaining, Holder
<1>1. /\ ~verified /\ result = "none" /\ name[New(Parent)] # "aside"
      /\ name[Old(Parent)] # "none" \/ longAgo
      /\ name[New(Parent)] = "main" => name[Old(Parent)] # "main"
      /\ name \in [Ids -> {"main", "aside", "none"}]
  BY DEF UpdateInv, TypeOK, ParentInv, DependentInv, WorkloadSurvives
<1>2. CASE UNCHANGED name
  BY <1>2
<1>3. CASE name' = [name EXCEPT ![New(Parent)] = "none"] /\ name[New(Parent)] = "main"
  BY <1>1, <1>3 DEF R!Next, R!Move, R!Withdraw, R!OldNotGivenUp
<1>4. CASE name' = [name EXCEPT ![New(Parent)] = "none"] /\ name[New(Parent)] # "main"
  BY <1>1, <1>4
<1>. QED  BY <1>2, <1>3, <1>4 DEF Remove

\* The steps of a rollback.
LEMMA RollbackImplements ==
  ASSUME UpdateInv,
         \/ UndoStop \/ Undo \/ FindBackup \/ RestoreStop \/ ClearName
         \/ RestoreName \/ RestoreStart
  PROVE  [R!Next]_(R!rvars)
<1> USE DEF R!Next, R!rvars, R!Move, R!Report, R!OldNotGivenUp, Remaining, Holder
<1> USE DEF UpdateInv, TypeOK, ParentInv, DependentInv, WorkloadSurvives
<1>1. CASE UndoStop \/ RestoreStop
  BY <1>1, Unseen DEF UndoStop, RestoreStop
<1>2. CASE Undo
  BY <1>2, Withdrawn DEF Undo
<1>3. CASE FindBackup
  BY <1>3 DEF FindBackup, EndRestore, Verdict
<1>4. CASE ClearName
  BY <1>4, Withdrawn DEF ClearName
<1>5. CASE RestoreName
  BY <1>5 DEF RestoreName, Rename, EndRestore, Verdict, R!PutBack
<1>6. CASE RestoreStart
  BY <1>6 DEF RestoreStart, EndRestore, Verdict
<1>. QED  BY <1>1, <1>2, <1>3, <1>4, <1>5, <1>6

\* The recreation of dependents does not touch the updated container.
LEMMA DependentsUnseen ==
  ASSUME UpdateInv, NextDep \/ \E d \in Deps : DepStep(d)
  PROVE  UNCHANGED R!rvars
<1> USE DEF UpdateInv, TypeOK, DepDone, depRest, RemoveNewDep, Remove, Rename, CreateC
<1>1. UNCHANGED <<verified, result, longAgo>>
  BY DEF NextDep, DepStep, DepStop, DepRename, DepCreate, DepStart, DepVerify,
      DepDrop, DepBack, DepRestart
<1>2. ASSUME NEW v \in {"old", "new"}
      PROVE  name'[<<Parent, v>>] = name[<<Parent, v>>]
  BY DEF NextDep, DepStep, DepStop, DepRename, DepCreate, DepStart, DepVerify,
      DepDrop, DepBack, DepRestart
<1>. QED  BY <1>1, <1>2, Unseen

\* Containers that exit, the death of the updater, and the daily job.
LEMMA EnvironmentImplements ==
  ASSUME UpdateInv,
         (\E i \in Ids : Exit(i)) \/ Kill \/ DayPasses \/ ListBackup \/ CleanupOldBackup
  PROVE  [R!Next]_(R!rvars)
<1> USE DEF R!Next, R!rvars, R!Report, R!OldNotGivenUp, Remaining, Holder
<1> USE DEF UpdateInv, TypeOK, ParentInv, DependentInv
<1>1. CASE (\E i \in Ids : Exit(i)) \/ ListBackup
  BY <1>1, Unseen DEF Exit, ListBackup
<1>4. CASE DayPasses
  BY <1>4 DEF DayPasses, R!Age
<1>2. CASE Kill
  BY <1>2 DEF Kill
<1>3. CASE CleanupOldBackup
  BY <1>3 DEF CleanupOldBackup, Remove, R!Expire
<1>. QED  BY <1>1, <1>2, <1>3, <1>4

\* Every behaviour of the update is one of Replacement, whatever fails, whenever
\* the updater is killed and however old the container is.
THEOREM UpdateImplementsReplacement == Spec => ImplementsReplacement
<1>1. Init => R!Init
  BY DEF Init, R!Init, Remaining, Holder
<1>2. UpdateInv /\ [Next]_vars => [R!Next]_(R!rvars)
  <2> SUFFICES ASSUME UpdateInv, [Next]_vars PROVE [R!Next]_(R!rvars)
    OBVIOUS
  <2>1. CASE UNCHANGED vars
    BY <2>1, Unseen DEF vars
  <2>2. CASE Next
    BY <2>2, ParentStepImplements, RollbackImplements, DependentsUnseen,
       EnvironmentImplements DEF Next, Updater
  <2>. QED  BY <2>1, <2>2
<1>. QED  BY <1>1, <1>2, UpdateInvariant, PTL DEF Spec, ImplementsReplacement, R!Spec

------------------------------------------------------------------------------
(* UpdateChecks. *)

\* Everything that is kept is kept for an id that was used, and the latest
\* row is one of the rows.
OnlyUsedIsKept ==
    /\ img[live] # 0
    /\ \A c \in ContainerIds : img[c] = 0 => c \notin seen /\ rec[c] = NoRec
    /\ latest # 0 => rec[latest].is
    /\ \A c \in ContainerIds : rec[c].is => latest # 0
    /\ saving.id # 0 => img[saving.id] # 0

\* An update is one of a container that has a row, and between the creation
\* of the new container and the migration of the row the new one is the
\* container of the host.
UpdateHasRow ==
    /\ upd.at # "idle" => upd.id \in ContainerIds /\ img[upd.id] # 0 /\ rec[upd.id].is
    /\ upd.at = "pulled" => upd.v \in Versions
    /\ upd.at = "created" => upd.new = live /\ upd.new # upd.id

\* Rows tell the truth about the image the container was created from.
RowsAreTrue ==
    \A c \in ContainerIds :
      /\ rec[c].avail => rec[c].lat # img[c] /\ (versioned => rec[c].lat > img[c])
      /\ rec[c].lat > img[c] =>
           rec[c].lat \in announced[c] \/ \E d \in ContainerIds : img[d] >= rec[c].lat

\* A check is one of a container that was listed, one that is under way for
\* the container of the host has discovered it, and an answer is a version.
CheckedIsSeen ==
    \A p \in Checkers : check[p].at # "idle" =>
      /\ check[p].id \in ContainerIds /\ img[check[p].id] # 0
      /\ check[p].id = live => live \in seen
      /\ check[p].at = "got" => check[p].v # 0

\* The settings are in the latest row, in the row of the container once it
\* was discovered, and during an update in the row that is about to migrate.
SettingsAreKept ==
    ~stray /\ wish \notin {<<>>, Choice(NoRec)} =>
      /\ latest # 0 /\ rec[latest].is /\ Choice(rec[latest]) = wish
      /\ live \in seen \/ rec[live].is => rec[live].is /\ Choice(rec[live]) = wish
      /\ upd.at = "created" => Choice(rec[upd.id]) = wish

\* A forced update was validated against the label when it was requested;
\* DockMon itself is refused whoever asks.
ForbiddenIsStopped ==
    /\ LabelForbids
    /\ label = "block" /\ host = "direct" => upd.by # "forced"

\* A token that has acted stays used.
UsedIsUsed == acted = IF link = "used" THEN 1 ELSE 0

\* The inductive invariant.
ChecksInv ==
    /\ ChecksTypeOK /\ OnlyUsedIsKept /\ UpdateHasRow /\ RowsAreTrue /\ CheckedIsSeen
    /\ SettingsAreKept /\ ForbiddenIsStopped /\ UsedIsUsed /\ PruneSparesUsed

\* What the next step may do to the container, its rows, the checks and the
\* update under way.
ChecksCore == OnlyUsedIsKept /\ UpdateHasRow /\ RowsAreTrue /\ CheckedIsSeen /\ SettingsAreKept

\* What was permitted.
ChecksPermits == ForbiddenIsStopped /\ UsedIsUsed /\ PruneSparesUsed

\* What the constants are.
LEMMA ChecksConstants ==
    /\ ContainerIds \subseteq Nat /\ 0 \notin ContainerIds /\ 1 \in ContainerIds
    /\ Versions \subseteq Nat /\ 0 \notin Versions /\ 1 \in Versions
    /\ \A s \in Scenarios : MaxRequests[s] \in Nat
BY UpdateChecksAssumption

\* The invariant is about these variables: a step that leaves them alone
\* preserves its first part.
LEMMA CoreIsFramed ==
    ASSUME ChecksCore, UNCHANGED <<live, img, seen, rec, latest, announced, stray, check, upd, wish, versioned,
                                   saving>>
    PROVE  ChecksCore'
BY DEF ChecksCore, OnlyUsedIsKept, UpdateHasRow, RowsAreTrue, CheckedIsSeen, SettingsAreKept

\* The same for what was permitted.
LEMMA PermitsAreFramed ==
    ASSUME ChecksPermits, UNCHANGED <<label, host, own, upd, acted, link, img, live, images>>
    PROVE  ChecksPermits'
BY DEF ChecksPermits, ForbiddenIsStopped, LabelForbids, UsedIsUsed, PruneSparesUsed

\* The type invariant in parts.
CheckRecord == [at : {"idle", "asking", "got", "auto"}, id : ContainerIds \cup {0}, tag : Tags,
                v : Versions \cup {0}]

UpdateRecord == [at : {"idle", "validating", "running", "pulled", "created"}, id : ContainerIds \cup {0},
                 new : ContainerIds \cup {0}, tag : Tags, v : Versions \cup {0}, lat : Versions \cup {0},
                 by : {None, "auto", "user", "forced", "batch", "warned"}]

WorldIsTyped ==
    /\ uses \in Scenarios
    /\ kind \in {"public", "private", "local"} /\ label \in Verdicts
    /\ versioned \in BOOLEAN /\ named \in BOOLEAN /\ own \in BOOLEAN
    /\ host \in {"direct", "agent"} /\ creds \in BOOLEAN
    /\ {head, ltag} \subseteq [Tags -> Versions]
    /\ live \in ContainerIds /\ img \in [ContainerIds -> Versions \cup {0}] /\ platform \in BOOLEAN
    /\ images \subseteq Versions

RowsAreTyped ==
    /\ seen \subseteq ContainerIds /\ latest \in ContainerIds \cup {0}
    /\ rec \in [ContainerIds -> ContainerUpdate]
    /\ announced \in [ContainerIds -> SUBSET Versions] /\ stray \in BOOLEAN

CachesAreTyped ==
    /\ {stored, memory} \subseteq [Tags -> Versions \cup {0}] /\ token \in {None, "anonymous", "good"}

WorkIsTyped == check \in [Checkers -> CheckRecord] /\ upd \in UpdateRecord

AsideIsTyped ==
    /\ prune \subseteq Versions /\ pattern \in UpdatePolicy /\ skipped \in BOOLEAN
    /\ saving \in [id : ContainerIds \cup {0}, auto : BOOLEAN, mode : Tags]
    /\ link \in ActionToken /\ acted \in 0..2
    /\ dockmon \in [newest : 1..2, known : 0..2, cached : 0..2, agent : 0..2]

RequestsAreTyped == requests \in 0..MaxRequests[uses]

\* The type invariant is its parts.
LEMMA TypesInParts ==
    ChecksTypeOK <=> /\ WorldIsTyped /\ RowsAreTyped /\ CachesAreTyped /\ WorkIsTyped
                     /\ AsideIsTyped /\ RequestsAreTyped
BY DEF ChecksTypeOK, WorldIsTyped, RowsAreTyped, CachesAreTyped, WorkIsTyped, AsideIsTyped,
       RequestsAreTyped, CheckRecord, UpdateRecord

\* The same after a step.
LEMMA TypesFromParts ==
    ASSUME WorldIsTyped', RowsAreTyped', CachesAreTyped', WorkIsTyped', AsideIsTyped', RequestsAreTyped'
    PROVE  ChecksTypeOK'
BY DEF ChecksTypeOK, WorldIsTyped, RowsAreTyped, CachesAreTyped, WorkIsTyped, AsideIsTyped,
       RequestsAreTyped, CheckRecord, UpdateRecord

\* A request is counted, or none is made.
LEMMA RequestsStayTyped ==
    ASSUME ChecksTypeOK, uses' = uses, Counts \/ UNCHANGED requests
    PROVE  RequestsAreTyped'
BY ChecksConstants DEF ChecksTypeOK, Counts, RequestsAreTyped

\* Rows, checks and the update are replaced one at a time.
LEMMA RowIsReplaced ==
    ASSUME RowsAreTyped, NEW c \in ContainerIds, NEW r \in ContainerUpdate,
           rec' = [rec EXCEPT ![c] = r], latest' = c, stray' \in BOOLEAN, seen' \subseteq ContainerIds,
           announced' \in [ContainerIds -> SUBSET Versions]
    PROVE  RowsAreTyped'
BY DEF RowsAreTyped

\* One check is replaced.
LEMMA CheckIsReplaced ==
    ASSUME WorkIsTyped, NEW p \in Checkers, NEW k \in CheckRecord, check' = [check EXCEPT ![p] = k],
           upd' \in UpdateRecord
    PROVE  WorkIsTyped'
BY DEF WorkIsTyped

\* The records of no check, no update and no row have their types.
LEMMA IdleIsTyped == Idle \in CheckRecord /\ NoUpdate \in UpdateRecord /\ NoRec \in ContainerUpdate
BY DEF Idle, NoUpdate, NoRec, CheckRecord, UpdateRecord, ContainerUpdate, Tags, None, Verdicts

\* The inductive invariant in parts, before and after a step.
LEMMA InvInParts ==
    ASSUME ChecksInv
    PROVE  /\ WorldIsTyped /\ RowsAreTyped /\ CachesAreTyped /\ WorkIsTyped /\ AsideIsTyped
           /\ RequestsAreTyped /\ ChecksTypeOK /\ ChecksCore /\ ChecksPermits
BY TypesInParts DEF ChecksInv, ChecksCore, ChecksPermits

\* The same after a step.
LEMMA InvFromParts ==
    ASSUME WorldIsTyped', RowsAreTyped', CachesAreTyped', WorkIsTyped', AsideIsTyped', RequestsAreTyped',
           ChecksCore', ChecksPermits'
    PROVE  ChecksInv'
BY TypesFromParts DEF ChecksInv, ChecksCore, ChecksPermits

\* A step that leaves the container, its rows, the checks and the update
\* alone.
LEMMA QuietStep ==
    ASSUME ChecksInv, uses' = uses, Counts \/ UNCHANGED requests,
           UNCHANGED <<live, img, images, seen, rec, latest, announced, stray, check, upd, wish, kind,
                       label, host, versioned, own, saving>>,
           WorldIsTyped', CachesAreTyped', AsideIsTyped', UsedIsUsed'
    PROVE  ChecksInv'
<1>1. /\ WorldIsTyped /\ RowsAreTyped /\ CachesAreTyped /\ WorkIsTyped /\ AsideIsTyped
      /\ RequestsAreTyped /\ ChecksTypeOK /\ ChecksCore /\ ChecksPermits
  BY InvInParts
<1>2. RowsAreTyped' /\ WorkIsTyped'
  BY <1>1 DEF RowsAreTyped, WorkIsTyped
<1>3. RequestsAreTyped'
  BY <1>1, RequestsStayTyped
<1>4. ChecksCore'
  BY <1>1, CoreIsFramed
<1>5. ChecksPermits'
  BY <1>1 DEF ChecksPermits, ForbiddenIsStopped, LabelForbids, PruneSparesUsed
<1>6. QED
  BY <1>2, <1>3, <1>4, <1>5, InvFromParts

\* A version is pushed to the registry.
LEMMA PushPreserves ==
    ASSUME ChecksInv, NEW t \in Tags, NEW v \in Versions, Push(t, v)
    PROVE  ChecksInv'
<1>1. WorldIsTyped /\ CachesAreTyped /\ AsideIsTyped /\ UsedIsUsed
  BY InvInParts DEF ChecksPermits
<1>2. /\ uses' = uses /\ (Counts \/ UNCHANGED requests)
      /\ UNCHANGED <<live, img, images, seen, rec, latest, announced, stray, check, upd, wish, kind,
                     label, host, versioned, own, saving>>
  BY DEF Push, Request, registry, image, container, records, settings
<1>3. WorldIsTyped'
  BY <1>1 DEF WorldIsTyped, Push, registry, image, container
<1>4. CachesAreTyped'
  BY <1>1 DEF CachesAreTyped, Push, caches
<1>5. AsideIsTyped'
  BY <1>1 DEF AsideIsTyped, Push, settings, aside
<1>6. UsedIsUsed'
  BY <1>1 DEF UsedIsUsed, Push, aside
<1>7. QED
  BY <1>2, <1>3, <1>4, <1>5, <1>6, QuietStep

\* A cached digest expires.
LEMMA CacheExpiresPreserves ==
    ASSUME ChecksInv, NEW t \in Tags, CacheExpires(t)
    PROVE  ChecksInv'
<1>1. WorldIsTyped /\ CachesAreTyped /\ AsideIsTyped /\ UsedIsUsed
  BY InvInParts DEF ChecksPermits
<1>2. /\ uses' = uses /\ (Counts \/ UNCHANGED requests)
      /\ UNCHANGED <<live, img, images, seen, rec, latest, announced, stray, check, upd, wish, kind,
                     label, host, versioned, own, saving>>
  BY DEF CacheExpires, Request, registry, image, container, records, settings
<1>3. WorldIsTyped'
  BY <1>1 DEF WorldIsTyped, CacheExpires, registry, image, container
<1>4. CachesAreTyped'
  BY <1>1 DEF CachesAreTyped, CacheExpires, caches, Expired
<1>5. AsideIsTyped'
  BY <1>1 DEF AsideIsTyped, CacheExpires, settings, aside
<1>6. UsedIsUsed'
  BY <1>1 DEF UsedIsUsed, CacheExpires, aside
<1>7. QED
  BY <1>2, <1>3, <1>4, <1>5, <1>6, QuietStep

\* The token of the registry expires.
LEMMA TokenExpiresPreserves ==
    ASSUME ChecksInv, TokenExpires
    PROVE  ChecksInv'
<1>1. WorldIsTyped /\ CachesAreTyped /\ AsideIsTyped /\ UsedIsUsed
  BY InvInParts DEF ChecksPermits
<1>2. /\ uses' = uses /\ (Counts \/ UNCHANGED requests)
      /\ UNCHANGED <<live, img, images, seen, rec, latest, announced, stray, check, upd, wish, kind,
                     label, host, versioned, own, saving>>
  BY DEF TokenExpires, Request, registry, image, container, records, settings
<1>3. WorldIsTyped'
  BY <1>1 DEF WorldIsTyped, TokenExpires, registry, image, container
<1>4. CachesAreTyped'
  BY <1>1 DEF CachesAreTyped, TokenExpires, caches, None
<1>5. AsideIsTyped'
  BY <1>1 DEF AsideIsTyped, TokenExpires, settings, aside
<1>6. UsedIsUsed'
  BY <1>1 DEF UsedIsUsed, TokenExpires, aside
<1>7. QED
  BY <1>2, <1>3, <1>4, <1>5, <1>6, QuietStep

\* A cached digest is deleted.
LEMMA DeleteCacheEntryPreserves ==
    ASSUME ChecksInv, NEW t \in Tags, DeleteCacheEntry(t)
    PROVE  ChecksInv'
<1>1. WorldIsTyped /\ CachesAreTyped /\ AsideIsTyped /\ UsedIsUsed
  BY InvInParts DEF ChecksPermits
<1>2. /\ uses' = uses /\ (Counts \/ UNCHANGED requests)
      /\ UNCHANGED <<live, img, images, seen, rec, latest, announced, stray, check, upd, wish, kind,
                     label, host, versioned, own, saving>>
  BY DEF DeleteCacheEntry, Request, registry, image, container, records, settings
<1>3. WorldIsTyped'
  BY <1>1 DEF WorldIsTyped, DeleteCacheEntry, registry, image, container
<1>4. CachesAreTyped'
  BY <1>1 DEF CachesAreTyped, DeleteCacheEntry, caches
<1>5. AsideIsTyped'
  BY <1>1 DEF AsideIsTyped, DeleteCacheEntry, settings, aside
<1>6. UsedIsUsed'
  BY <1>1 DEF UsedIsUsed, DeleteCacheEntry, aside
<1>7. QED
  BY <1>2, <1>3, <1>4, <1>5, <1>6, QuietStep

\* Credentials are saved or deleted.
LEMMA SaveCredentialsPreserves ==
    ASSUME ChecksInv, NEW on \in BOOLEAN, SaveCredentials(on)
    PROVE  ChecksInv'
<1>1. WorldIsTyped /\ CachesAreTyped /\ AsideIsTyped /\ UsedIsUsed
  BY InvInParts DEF ChecksPermits
<1>2. /\ uses' = uses /\ (Counts \/ UNCHANGED requests)
      /\ UNCHANGED <<live, img, images, seen, rec, latest, announced, stray, check, upd, wish, kind,
                     label, host, versioned, own, saving>>
  BY DEF SaveCredentials, Request, registry, image, container, records, settings
<1>3. WorldIsTyped'
  BY <1>1 DEF WorldIsTyped, SaveCredentials, registry, image, container
<1>4. CachesAreTyped'
  BY <1>1 DEF CachesAreTyped, SaveCredentials, caches
<1>5. AsideIsTyped'
  BY <1>1 DEF AsideIsTyped, SaveCredentials, settings, aside
<1>6. UsedIsUsed'
  BY <1>1 DEF UsedIsUsed, SaveCredentials, aside
<1>7. QED
  BY <1>2, <1>3, <1>4, <1>5, <1>6, QuietStep

\* A policy pattern changes.
LEMMA SetPatternPreserves ==
    ASSUME ChecksInv, NEW action \in {None, "warn", "ignore"}, SetPattern(action)
    PROVE  ChecksInv'
<1>1. WorldIsTyped /\ CachesAreTyped /\ AsideIsTyped /\ UsedIsUsed
  BY InvInParts DEF ChecksPermits
<1>2. /\ uses' = uses /\ (Counts \/ UNCHANGED requests)
      /\ UNCHANGED <<live, img, images, seen, rec, latest, announced, stray, check, upd, wish, kind,
                     label, host, versioned, own, saving>>
  BY DEF SetPattern, Request, registry, image, container, records, settings
<1>3. WorldIsTyped'
  BY <1>1 DEF WorldIsTyped, SetPattern, registry, image, container
<1>4. CachesAreTyped'
  BY <1>1 DEF CachesAreTyped, SetPattern, caches
<1>5. AsideIsTyped'
  BY <1>1 DEF AsideIsTyped, SetPattern, settings, aside, UpdatePolicy
<1>6. UsedIsUsed'
  BY <1>1 DEF UsedIsUsed, SetPattern, aside, UpdatePolicy
<1>7. QED
  BY <1>2, <1>3, <1>4, <1>5, <1>6, QuietStep

\* A notification with an action token is sent.
LEMMA SendLinkPreserves ==
    ASSUME ChecksInv, SendLink
    PROVE  ChecksInv'
<1>1. WorldIsTyped /\ CachesAreTyped /\ AsideIsTyped /\ UsedIsUsed
  BY InvInParts DEF ChecksPermits
<1>2. /\ uses' = uses /\ (Counts \/ UNCHANGED requests)
      /\ UNCHANGED <<live, img, images, seen, rec, latest, announced, stray, check, upd, wish, kind,
                     label, host, versioned, own, saving>>
  BY DEF SendLink, Request, registry, image, container, records, settings
<1>3. WorldIsTyped'
  BY <1>1 DEF WorldIsTyped, SendLink, registry, image, container
<1>4. CachesAreTyped'
  BY <1>1 DEF CachesAreTyped, SendLink, caches
<1>5. AsideIsTyped'
  BY <1>1 DEF AsideIsTyped, SendLink, settings, aside, ActionToken, None
<1>6. UsedIsUsed'
  BY <1>1 DEF UsedIsUsed, SendLink, aside, ActionToken, None
<1>7. QED
  BY <1>2, <1>3, <1>4, <1>5, <1>6, QuietStep

\* The action token expires.
LEMMA LinkExpiresPreserves ==
    ASSUME ChecksInv, LinkExpires
    PROVE  ChecksInv'
<1>1. WorldIsTyped /\ CachesAreTyped /\ AsideIsTyped /\ UsedIsUsed
  BY InvInParts DEF ChecksPermits
<1>2. /\ uses' = uses /\ (Counts \/ UNCHANGED requests)
      /\ UNCHANGED <<live, img, images, seen, rec, latest, announced, stray, check, upd, wish, kind,
                     label, host, versioned, own, saving>>
  BY DEF LinkExpires, Request, registry, image, container, records, settings
<1>3. WorldIsTyped'
  BY <1>1 DEF WorldIsTyped, LinkExpires, registry, image, container
<1>4. CachesAreTyped'
  BY <1>1 DEF CachesAreTyped, LinkExpires, caches
<1>5. AsideIsTyped'
  BY <1>1 DEF AsideIsTyped, LinkExpires, settings, aside, ActionToken
<1>6. UsedIsUsed'
  BY <1>1 DEF UsedIsUsed, LinkExpires, aside, ActionToken
<1>7. QED
  BY <1>2, <1>3, <1>4, <1>5, <1>6, QuietStep

\* The action token is claimed at most once.
LEMMA ConsumeLinkPreserves ==
    ASSUME ChecksInv, ConsumeLink
    PROVE  ChecksInv'
<1>1. WorldIsTyped /\ CachesAreTyped /\ AsideIsTyped /\ UsedIsUsed
  BY InvInParts DEF ChecksPermits
<1>2. /\ uses' = uses /\ (Counts \/ UNCHANGED requests)
      /\ UNCHANGED <<live, img, images, seen, rec, latest, announced, stray, check, upd, wish, kind,
                     label, host, versioned, own, saving>>
  BY DEF ConsumeLink, Request, registry, image, container, records, settings
<1>3. WorldIsTyped'
  BY <1>1 DEF WorldIsTyped, ConsumeLink, registry, image, container
<1>4. CachesAreTyped'
  BY <1>1 DEF CachesAreTyped, ConsumeLink, caches
<1>5. AsideIsTyped'
  BY <1>1 DEF AsideIsTyped, ConsumeLink, settings, aside, ActionToken, Claimed, UsedIsUsed
<1>6. UsedIsUsed'
  BY <1>1 DEF UsedIsUsed, ConsumeLink, aside, ActionToken, Claimed, UsedIsUsed
<1>7. QED
  BY <1>2, <1>3, <1>4, <1>5, <1>6, QuietStep

\* An expired token is deleted.
LEMMA CleanupLinksPreserves ==
    ASSUME ChecksInv, CleanupLinks
    PROVE  ChecksInv'
<1>1. WorldIsTyped /\ CachesAreTyped /\ AsideIsTyped /\ UsedIsUsed
  BY InvInParts DEF ChecksPermits
<1>2. /\ uses' = uses /\ (Counts \/ UNCHANGED requests)
      /\ UNCHANGED <<live, img, images, seen, rec, latest, announced, stray, check, upd, wish, kind,
                     label, host, versioned, own, saving>>
  BY DEF CleanupLinks, Request, registry, image, container, records, settings
<1>3. WorldIsTyped'
  BY <1>1 DEF WorldIsTyped, CleanupLinks, registry, image, container
<1>4. CachesAreTyped'
  BY <1>1 DEF CachesAreTyped, CleanupLinks, caches
<1>5. AsideIsTyped'
  BY <1>1 DEF AsideIsTyped, CleanupLinks, settings, aside, ActionToken, None
<1>6. UsedIsUsed'
  BY <1>1 DEF UsedIsUsed, CleanupLinks, aside, ActionToken, None
<1>7. QED
  BY <1>2, <1>3, <1>4, <1>5, <1>6, QuietStep

\* Images are listed for pruning.
LEMMA PruneListsPreserves ==
    ASSUME ChecksInv, PruneLists
    PROVE  ChecksInv'
<1>1. WorldIsTyped /\ CachesAreTyped /\ AsideIsTyped /\ UsedIsUsed
  BY InvInParts DEF ChecksPermits
<1>2. /\ uses' = uses /\ (Counts \/ UNCHANGED requests)
      /\ UNCHANGED <<live, img, images, seen, rec, latest, announced, stray, check, upd, wish, kind,
                     label, host, versioned, own, saving>>
  BY DEF PruneLists, Request, registry, image, container, records, settings
<1>3. WorldIsTyped'
  BY <1>1 DEF WorldIsTyped, PruneLists, registry, image, container
<1>4. CachesAreTyped'
  BY <1>1 DEF CachesAreTyped, PruneLists, caches
<1>5. AsideIsTyped'
  BY <1>1 DEF AsideIsTyped, PruneLists, settings, aside, Superfluous, Tagged, WorldIsTyped
<1>6. UsedIsUsed'
  BY <1>1 DEF UsedIsUsed, PruneLists, aside, Superfluous, Tagged, WorldIsTyped
<1>7. QED
  BY <1>2, <1>3, <1>4, <1>5, <1>6, QuietStep

\* DockMon is released.
LEMMA ReleasePreserves ==
    ASSUME ChecksInv, Release
    PROVE  ChecksInv'
<1>1. WorldIsTyped /\ CachesAreTyped /\ AsideIsTyped /\ UsedIsUsed
  BY InvInParts DEF ChecksPermits
<1>2. /\ uses' = uses /\ (Counts \/ UNCHANGED requests)
      /\ UNCHANGED <<live, img, images, seen, rec, latest, announced, stray, check, upd, wish, kind,
                     label, host, versioned, own, saving>>
  BY DEF Release, Request, registry, image, container, records, settings
<1>3. WorldIsTyped'
  BY <1>1 DEF WorldIsTyped, Release, registry, image, container
<1>4. CachesAreTyped'
  BY <1>1 DEF CachesAreTyped, Release, caches
<1>5. AsideIsTyped'
  BY <1>1 DEF AsideIsTyped, Release, settings, aside
<1>6. UsedIsUsed'
  BY <1>1 DEF UsedIsUsed, Release, aside
<1>7. QED
  BY <1>2, <1>3, <1>4, <1>5, <1>6, QuietStep

\* DockMon looks for its own release.
LEMMA CheckForUpdatePreserves ==
    ASSUME ChecksInv, NEW ok \in BOOLEAN, CheckForUpdate(ok)
    PROVE  ChecksInv'
<1>1. WorldIsTyped /\ CachesAreTyped /\ AsideIsTyped /\ UsedIsUsed
  BY InvInParts DEF ChecksPermits
<1>2. /\ uses' = uses /\ (Counts \/ UNCHANGED requests)
      /\ UNCHANGED <<live, img, images, seen, rec, latest, announced, stray, check, upd, wish, kind,
                     label, host, versioned, own, saving>>
  BY DEF CheckForUpdate, Request, registry, image, container, records, settings
<1>3. WorldIsTyped'
  BY <1>1 DEF WorldIsTyped, CheckForUpdate, registry, image, container
<1>4. CachesAreTyped'
  BY <1>1 DEF CachesAreTyped, CheckForUpdate, caches
<1>5. AsideIsTyped'
  BY <1>1 DEF AsideIsTyped, CheckForUpdate, settings, aside, Known
<1>6. UsedIsUsed'
  BY <1>1 DEF UsedIsUsed, CheckForUpdate, aside, Known
<1>7. QED
  BY <1>2, <1>3, <1>4, <1>5, <1>6, QuietStep

\* DockMon looks for the agent's release.
LEMMA CheckForAgentUpdatePreserves ==
    ASSUME ChecksInv, NEW ok \in BOOLEAN, CheckForAgentUpdate(ok)
    PROVE  ChecksInv'
<1>1. WorldIsTyped /\ CachesAreTyped /\ AsideIsTyped /\ UsedIsUsed
  BY InvInParts DEF ChecksPermits
<1>2. /\ uses' = uses /\ (Counts \/ UNCHANGED requests)
      /\ UNCHANGED <<live, img, images, seen, rec, latest, announced, stray, check, upd, wish, kind,
                     label, host, versioned, own, saving>>
  BY DEF CheckForAgentUpdate, Request, registry, image, container, records, settings
<1>3. WorldIsTyped'
  BY <1>1 DEF WorldIsTyped, CheckForAgentUpdate, registry, image, container
<1>4. CachesAreTyped'
  BY <1>1 DEF CachesAreTyped, CheckForAgentUpdate, caches
<1>5. AsideIsTyped'
  <2>1. dockmon.cached \in 0..2 /\ dockmon.newest \in 0..2
    BY <1>1 DEF AsideIsTyped
  <2>2. PICK w \in 0..2 : dockmon' = [dockmon EXCEPT !.cached = w, !.agent = w] \/ dockmon' = dockmon
    BY <2>1 DEF CheckForAgentUpdate
  <2>3. dockmon' \in [newest : 1..2, known : 0..2, cached : 0..2, agent : 0..2]
    BY <1>1, <2>2 DEF AsideIsTyped
  <2>4. QED
    BY <1>1, <2>3 DEF AsideIsTyped, CheckForAgentUpdate, settings, aside
<1>6. UsedIsUsed'
  BY <1>1 DEF UsedIsUsed, CheckForAgentUpdate, aside
<1>7. QED
  BY <1>2, <1>3, <1>4, <1>5, <1>6, QuietStep

\* The list of releases expires.
LEMMA ReleasesExpirePreserves ==
    ASSUME ChecksInv, ReleasesExpire
    PROVE  ChecksInv'
<1>1. WorldIsTyped /\ CachesAreTyped /\ AsideIsTyped /\ UsedIsUsed
  BY InvInParts DEF ChecksPermits
<1>2. /\ uses' = uses /\ (Counts \/ UNCHANGED requests)
      /\ UNCHANGED <<live, img, images, seen, rec, latest, announced, stray, check, upd, wish, kind,
                     label, host, versioned, own, saving>>
  BY DEF ReleasesExpire, Request, registry, image, container, records, settings
<1>3. WorldIsTyped'
  BY <1>1 DEF WorldIsTyped, ReleasesExpire, registry, image, container
<1>4. CachesAreTyped'
  BY <1>1 DEF CachesAreTyped, ReleasesExpire, caches
<1>5. AsideIsTyped'
  BY <1>1 DEF AsideIsTyped, ReleasesExpire, settings, aside
<1>6. UsedIsUsed'
  BY <1>1 DEF UsedIsUsed, ReleasesExpire, aside
<1>7. QED
  BY <1>2, <1>3, <1>4, <1>5, <1>6, QuietStep

\* Versions are numbers.
LEMMA NumbersAreNatural ==
    ASSUME WorldIsTyped, RowsAreTyped
    PROVE  \A d \in ContainerIds : rec[d].lat \in Nat /\ img[d] \in Nat /\ rec[d] \in ContainerUpdate
<1>1. \A v \in Versions \cup {0} : v \in Nat
  BY ChecksConstants
<1>2. \A d \in ContainerIds : rec[d] \in ContainerUpdate /\ img[d] \in Versions \cup {0}
  BY DEF WorldIsTyped, RowsAreTyped
<1>3. \A d \in ContainerIds : rec[d].lat \in Versions \cup {0}
  BY <1>2 DEF ContainerUpdate
<1>4. QED
  BY <1>1, <1>2, <1>3

\* The container is recreated outside DockMon under an id not used before:
\* nothing is kept for that id, so nothing wrong can be.
LEMMA RecreatePreserves ==
    ASSUME ChecksInv, NEW c \in ContainerIds, Recreate(c)
    PROVE  ChecksInv'
<1>1. /\ WorldIsTyped /\ RowsAreTyped /\ CachesAreTyped /\ WorkIsTyped /\ AsideIsTyped
      /\ RequestsAreTyped /\ ChecksTypeOK /\ ChecksCore /\ ChecksPermits
  BY InvInParts
<1>2. PICK t \in Tags : img' = [img EXCEPT ![c] = ltag[t]] /\ ltag[t] \in images
  BY DEF Recreate
<1>3. /\ uses' = uses /\ Counts /\ upd.at = "idle" /\ live' = c /\ img[c] = 0
      /\ UNCHANGED <<kind, label, host, versioned, named, own, platform, head, creds, images, ltag, seen, rec,
                     latest, announced, stray, stored, memory, token, pattern, wish, skipped, saving, check, upd,
                     link, acted, prune, dockmon>>
  BY DEF Recreate, Request, NewId, registry, image, records, caches, settings, aside
<1>4. WorldIsTyped'
  BY <1>1, <1>2, <1>3 DEF WorldIsTyped
<1>5. RowsAreTyped' /\ CachesAreTyped' /\ WorkIsTyped' /\ AsideIsTyped'
  BY <1>1, <1>3 DEF RowsAreTyped, CachesAreTyped, WorkIsTyped, AsideIsTyped
<1>6. RequestsAreTyped'
  BY <1>1, <1>3, RequestsStayTyped
<1>7. /\ ltag[t] \in Versions /\ ltag[t] # 0 /\ ltag[t] \in Nat /\ img'[c] = ltag[t]
      /\ \A d \in ContainerIds : d # c => img'[d] = img[d]
  BY <1>1, <1>2, ChecksConstants DEF WorldIsTyped
<1>8. c \notin seen /\ rec[c] = NoRec
  BY <1>1, <1>3 DEF ChecksCore, OnlyUsedIsKept
<1>9. OnlyUsedIsKept' /\ CheckedIsSeen'
  BY <1>1, <1>3, <1>7, <1>8 DEF ChecksCore, OnlyUsedIsKept, CheckedIsSeen, AsideIsTyped
<1>10. UpdateHasRow'
  BY <1>1, <1>3, <1>7 DEF ChecksCore, UpdateHasRow
<1>11. RowsAreTrue'
  <2>1. \A d \in ContainerIds : rec[d].lat \in Nat /\ img[d] \in Nat
    BY <1>1, NumbersAreNatural
  <2>2. /\ rec[c].lat = 0 /\ ~rec[c].avail
    BY <1>8 DEF NoRec
  <2>3. QED
    BY <1>1, <1>3, <1>7, <2>1, <2>2 DEF ChecksCore, RowsAreTrue
<1>12. SettingsAreKept'
  BY <1>1, <1>3, <1>8 DEF ChecksCore, SettingsAreKept, NoRec
<1>13. ChecksPermits'
  BY <1>1, <1>2, <1>3, <1>7 DEF ChecksPermits, ForbiddenIsStopped, LabelForbids, UsedIsUsed, PruneSparesUsed
<1>14. QED
  BY <1>4, <1>5, <1>6, <1>9, <1>10, <1>11, <1>12, <1>13, InvFromParts DEF ChecksCore

\* The row of a container that is discovered has the settings of the latest
\* one, and makes no offer.
LEMMA ReattachedIsTyped ==
    ASSUME RowsAreTyped, latest # 0
    PROVE  /\ Reattached \in ContainerUpdate
           /\ Reattached.is /\ ~Reattached.avail /\ Reattached.lat = 0
           /\ Choice(Reattached) = Choice(rec[latest])
<1>1. PICK q \in ContainerUpdate : q = rec[latest]
  BY DEF RowsAreTyped
<1>2. Reattached = [is |-> TRUE, lat |-> 0, tag |-> "exact", avail |-> FALSE, local |-> FALSE,
                    auto |-> q.auto, mode |-> q.mode, policy |-> q.policy]
  <2>1. Reattached = [NoRec EXCEPT !.is = TRUE, !.auto = q.auto, !.mode = q.mode, !.policy = q.policy]
    BY <1>1 DEF Reattached
  <2>2. QED
    BY <2>1 DEF NoRec
<1>3. q.auto \in BOOLEAN /\ q.mode \in Tags /\ q.policy \in Verdicts
  BY <1>1 DEF ContainerUpdate
<1>4. Reattached \in ContainerUpdate
  BY <1>2, <1>3, ChecksConstants DEF ContainerUpdate, Tags
<1>5. QED
  BY <1>1, <1>2, <1>4 DEF Choice

\* Discovery keeps everything but that the container is seen.
LEMMA DiscoverKeeps ==
    ASSUME RowsAreTyped, WorldIsTyped, ChecksCore, Discover,
           UNCHANGED <<live, img, announced, stray, upd, wish, versioned, saving>>
    PROVE  /\ RowsAreTyped' /\ OnlyUsedIsKept' /\ UpdateHasRow'
           /\ RowsAreTrue' /\ SettingsAreKept' /\ live \in seen'
<1>1. CASE live \in seen \/ rec[live].is \/ latest = 0
  <2>1. seen' = {live} /\ UNCHANGED <<rec, latest>>
    BY <1>1 DEF Discover
  <2>2. RowsAreTyped' /\ UpdateHasRow' /\ RowsAreTrue'
    BY <2>1 DEF RowsAreTyped, WorldIsTyped, ChecksCore, UpdateHasRow, RowsAreTrue
  <2>3. OnlyUsedIsKept'
    BY <2>1 DEF ChecksCore, OnlyUsedIsKept
  <2>4. SettingsAreKept'
    BY <1>1, <2>1 DEF ChecksCore, SettingsAreKept
  <2>5. QED
    BY <2>1, <2>2, <2>3, <2>4
<1>2. CASE ~(live \in seen \/ rec[live].is \/ latest = 0)
  <2>1. PICK r : r = Reattached
    OBVIOUS
  <2>2. seen' = {live} /\ latest' = live /\ rec' = [rec EXCEPT ![live] = r]
    BY <1>2, <2>1 DEF Discover, Touched
  <2>3. /\ r \in ContainerUpdate
        /\ r.is /\ ~r.avail /\ r.lat = 0
        /\ Choice(r) = Choice(rec[latest])
    BY <1>2, <2>1, ReattachedIsTyped
  <2>4. RowsAreTyped'
    BY <2>2, <2>3, RowIsReplaced DEF WorldIsTyped, RowsAreTyped
  <2>5. /\ rec'[live] = r /\ \A d \in ContainerIds : d # live => rec'[d] = rec[d]
        /\ live \in ContainerIds /\ live # 0
    BY <2>2, ChecksConstants DEF RowsAreTyped, WorldIsTyped
  <2>6. OnlyUsedIsKept'
    BY <2>2, <2>3, <2>5 DEF ChecksCore, OnlyUsedIsKept
  <2>7. UpdateHasRow'
    BY <2>2, <2>3, <2>5 DEF ChecksCore, UpdateHasRow
  <2>8. img[live] \in Nat
    BY <2>5, NumbersAreNatural
  <2>9. RowsAreTrue'
    BY <2>3, <2>5, <2>8 DEF ChecksCore, RowsAreTrue
  <2>10. SettingsAreKept'
    BY <2>2, <2>3, <2>5 DEF ChecksCore, SettingsAreKept, UpdateHasRow
  <2>11. QED
    BY <2>2, <2>4, <2>6, <2>7, <2>9, <2>10
<1>3. QED
  BY <1>1, <1>2

\* The monitoring loop discovers the container.
LEMMA SweepPreserves ==
    ASSUME ChecksInv, Sweep
    PROVE  ChecksInv'
<1>1. /\ WorldIsTyped /\ RowsAreTyped /\ CachesAreTyped /\ WorkIsTyped /\ AsideIsTyped
      /\ RequestsAreTyped /\ ChecksTypeOK /\ ChecksCore /\ ChecksPermits
  BY InvInParts
<1>2. /\ Discover /\ uses' = uses
      /\ UNCHANGED <<kind, label, host, versioned, named, own, platform, head, creds, live, img, images, ltag,
                     announced, stray, stored, memory, token, pattern, wish, skipped, saving, check, upd, link,
                     acted, prune, dockmon, requests>>
  BY DEF Sweep, registry, image, container, caches, settings, aside
<1>3. /\ RowsAreTyped' /\ OnlyUsedIsKept' /\ UpdateHasRow'
      /\ RowsAreTrue' /\ SettingsAreKept' /\ live \in seen'
  BY <1>1, <1>2, DiscoverKeeps
<1>4. WorldIsTyped' /\ CachesAreTyped' /\ WorkIsTyped' /\ AsideIsTyped'
  BY <1>1, <1>2 DEF WorldIsTyped, CachesAreTyped, WorkIsTyped, AsideIsTyped
<1>5. RequestsAreTyped'
  BY <1>1, <1>2, RequestsStayTyped
<1>6. CheckedIsSeen'
  BY <1>1, <1>2, <1>3 DEF ChecksCore, CheckedIsSeen
<1>7. ChecksPermits'
  BY <1>1, <1>2, PermitsAreFramed
<1>8. QED
  BY <1>3, <1>4, <1>5, <1>6, <1>7, InvFromParts DEF ChecksCore

\* A check begins by discovering the container.
LEMMA CheckBeginsPreserves ==
    ASSUME ChecksInv, NEW p \in Checkers, CheckBegins(p), Counts \/ UNCHANGED requests
    PROVE  ChecksInv'
<1>1. /\ WorldIsTyped /\ RowsAreTyped /\ CachesAreTyped /\ WorkIsTyped /\ AsideIsTyped
      /\ RequestsAreTyped /\ ChecksTypeOK /\ ChecksCore /\ ChecksPermits
  BY InvInParts
<1>2. PICK k : k = [at |-> "asking", id |-> live, tag |-> Mode(live), v |-> 0]
  OBVIOUS
<1>3. /\ Discover /\ uses' = uses /\ check' = [check EXCEPT ![p] = k]
      /\ UNCHANGED <<kind, label, host, versioned, named, own, platform, head, creds, live, img, images, ltag,
                     announced, stray, stored, memory, token, pattern, wish, skipped, saving, upd, link, acted,
                     prune, dockmon>>
  BY <1>2 DEF CheckBegins, registry, image, container, caches, settings, aside
<1>4. /\ RowsAreTyped' /\ OnlyUsedIsKept' /\ UpdateHasRow'
      /\ RowsAreTrue' /\ SettingsAreKept' /\ live \in seen'
  BY <1>1, <1>3, DiscoverKeeps
<1>5. WorldIsTyped' /\ CachesAreTyped' /\ AsideIsTyped'
  BY <1>1, <1>3 DEF WorldIsTyped, CachesAreTyped, AsideIsTyped
<1>6. Mode(live) \in Tags
  <2>1. rec'[live] \in ContainerUpdate
    BY <1>1, <1>4 DEF WorldIsTyped, RowsAreTyped
  <2>2. QED
    BY <2>1 DEF Mode, ContainerUpdate, Tags
<1>7. k \in CheckRecord /\ k.at = "asking" /\ k.id = live
  BY <1>1, <1>2, <1>6 DEF CheckRecord, WorldIsTyped
<1>8. WorkIsTyped'
  BY <1>1, <1>3, <1>7, CheckIsReplaced DEF WorkIsTyped
<1>9. RequestsAreTyped'
  BY <1>1, <1>3, RequestsStayTyped
<1>10. check'[p] = k /\ \A q \in Checkers : q # p => check'[q] = check[q]
  BY <1>1, <1>3 DEF WorkIsTyped
<1>11. CheckedIsSeen'
  BY <1>1, <1>3, <1>4, <1>7, <1>10 DEF ChecksCore, OnlyUsedIsKept, CheckedIsSeen, WorldIsTyped
<1>12. ChecksPermits'
  BY <1>1, <1>3, PermitsAreFramed
<1>13. QED
  BY <1>4, <1>5, <1>8, <1>9, <1>11, <1>12, InvFromParts DEF ChecksCore

\* A check goes on with the same container, or ends; nothing else changes
\* but the caches.
LEMMA CheckMoves ==
    ASSUME ChecksInv, NEW p \in Checkers, NEW k \in CheckRecord, check' = [check EXCEPT ![p] = k],
           k.at = "idle" \/ (check[p].at # "idle" /\ k.id = check[p].id /\ k.v # 0),
           CachesAreTyped', uses' = uses, Counts \/ UNCHANGED requests,
           UNCHANGED <<kind, label, host, versioned, named, own, platform, head, creds, live, img, images, ltag,
                       seen, rec, latest, announced, stray, pattern, wish, skipped, saving, upd, link, acted,
                       prune, dockmon>>
    PROVE  ChecksInv'
<1>1. /\ WorldIsTyped /\ RowsAreTyped /\ CachesAreTyped /\ WorkIsTyped /\ AsideIsTyped
      /\ RequestsAreTyped /\ ChecksTypeOK /\ ChecksCore /\ ChecksPermits
  BY InvInParts
<1>2. WorldIsTyped' /\ RowsAreTyped' /\ AsideIsTyped'
  BY <1>1 DEF WorldIsTyped, RowsAreTyped, AsideIsTyped
<1>3. WorkIsTyped'
  BY <1>1, CheckIsReplaced DEF WorkIsTyped
<1>4. RequestsAreTyped'
  BY <1>1, RequestsStayTyped
<1>5. check'[p] = k /\ \A q \in Checkers : q # p => check'[q] = check[q]
  BY <1>1 DEF WorkIsTyped
<1>6. CheckedIsSeen'
  BY <1>1, <1>5 DEF ChecksCore, CheckedIsSeen
<1>7. OnlyUsedIsKept' /\ UpdateHasRow' /\ RowsAreTrue' /\ SettingsAreKept'
  BY <1>1 DEF ChecksCore, OnlyUsedIsKept, UpdateHasRow, RowsAreTrue, SettingsAreKept
<1>8. ChecksPermits'
  BY <1>1, PermitsAreFramed
<1>9. QED
  BY <1>2, <1>3, <1>4, <1>6, <1>7, <1>8, InvFromParts DEF ChecksCore

\* A check that has its answer.
LEMMA GotIsTyped ==
    ASSUME WorkIsTyped, NEW p \in Checkers, NEW v \in Versions \cup {0},
           check' = [check EXCEPT ![p].at = "got", ![p].v = v]
    PROVE  \E k \in CheckRecord : check' = [check EXCEPT ![p] = k] /\ k.id = check[p].id /\ k.v = v
<1>1. PICK o \in CheckRecord : o = check[p]
  BY DEF WorkIsTyped
<1>2. PICK k : k = [at |-> "got", id |-> o.id, tag |-> o.tag, v |-> v]
  OBVIOUS
<1>3. k \in CheckRecord /\ k.id = o.id /\ k.v = v
  BY <1>1, <1>2 DEF CheckRecord
<1>4. k = [[o EXCEPT !.at = "got"] EXCEPT !.v = v]
  <2>1. o = [at |-> o.at, id |-> o.id, tag |-> o.tag, v |-> o.v]
    BY <1>1 DEF CheckRecord
  <2>2. PICK m : m = [o EXCEPT !.at = "got"]
    OBVIOUS
  <2>3. m = [at |-> "got", id |-> o.id, tag |-> o.tag, v |-> o.v]
    BY <2>1, <2>2
  <2>4. [m EXCEPT !.v = v] = [at |-> "got", id |-> o.id, tag |-> o.tag, v |-> v]
    BY <2>3
  <2>5. QED
    BY <1>2, <2>2, <2>4
<1>5. check' = [check EXCEPT ![p] = k]
  BY <1>1, <1>4 DEF WorkIsTyped
<1>6. QED
  BY <1>1, <1>3, <1>5

\* The answer is in the cache.
LEMMA CachedDigestPreserves ==
    ASSUME ChecksInv, NEW p \in Checkers, CachedDigest(p)
    PROVE  ChecksInv'
<1>1. CachesAreTyped /\ WorkIsTyped
  BY InvInParts
<1>2. PICK v : v = stored[check[p].tag]
  OBVIOUS
<1>3. /\ check[p].at # "idle" /\ check' = [check EXCEPT ![p].at = "got", ![p].v = v]
      /\ uses' = uses /\ UNCHANGED <<stored, memory, token, requests>>
      /\ UNCHANGED <<kind, label, host, versioned, named, own, platform, head, creds, live, img, images, ltag,
                     seen, rec, latest, announced, stray, pattern, wish, skipped, saving, upd, link, acted, prune,
                     dockmon>>
  BY <1>2 DEF CachedDigest, registry, image, container, records, caches, settings, aside
<1>4. check[p].tag \in Tags
  BY <1>1 DEF WorkIsTyped, CheckRecord
<1>5. v \in Versions \cup {0} /\ v # 0
  BY <1>1, <1>2, <1>4 DEF CachesAreTyped, CachedDigest
<1>6. PICK k \in CheckRecord : check' = [check EXCEPT ![p] = k] /\ k.id = check[p].id /\ k.v = v
  BY <1>1, <1>3, <1>5, GotIsTyped
<1>7. CachesAreTyped'
  BY <1>1, <1>3 DEF CachesAreTyped
<1>8. QED
  BY <1>3, <1>5, <1>6, <1>7, CheckMoves

\* The registry answers: both caches get the version.
LEMMA RegistryAnswersPreserves ==
    ASSUME ChecksInv, NEW p \in Checkers, RegistryAnswers(p)
    PROVE  ChecksInv'
<1>1. WorldIsTyped /\ CachesAreTyped /\ WorkIsTyped
  BY InvInParts
<1>2. PICK t : t = check[p].tag
  OBVIOUS
<1>3. PICK v : v = IF memory[t] # 0 THEN memory[t] ELSE head[t]
  OBVIOUS
<1>4. /\ check[p].at # "idle" /\ check' = [check EXCEPT ![p].at = "got", ![p].v = v]
      /\ memory' = [memory EXCEPT ![t] = v] /\ stored' = [stored EXCEPT ![t] = v]
      /\ token' \in {token, AuthToken} /\ uses' = uses /\ UNCHANGED requests
      /\ UNCHANGED <<kind, label, host, versioned, named, own, platform, head, creds, live, img, images, ltag,
                     seen, rec, latest, announced, stray, pattern, wish, skipped, saving, upd, link, acted, prune,
                     dockmon>>
  BY <1>2, <1>3 DEF RegistryAnswers, NeedsRegistry, Cached, registry, image, container, records, settings, aside
<1>5. t \in Tags
  BY <1>1, <1>2 DEF WorkIsTyped, CheckRecord
<1>6. v \in Versions \cup {0} /\ v # 0
  BY <1>1, <1>3, <1>5, ChecksConstants DEF CachesAreTyped, WorldIsTyped
<1>7. PICK k \in CheckRecord : check' = [check EXCEPT ![p] = k] /\ k.id = check[p].id /\ k.v = v
  BY <1>1, <1>4, <1>6, GotIsTyped
<1>8. CachesAreTyped'
  BY <1>1, <1>4, <1>6 DEF CachesAreTyped, AuthToken, Fetched
<1>9. QED
  BY <1>4, <1>6, <1>7, <1>8, CheckMoves

\* The check ends without an answer.
LEMMA RegistryFailsPreserves ==
    ASSUME ChecksInv, NEW p \in Checkers, RegistryFails(p)
    PROVE  ChecksInv'
<1>1. CachesAreTyped
  BY InvInParts
<1>2. /\ check' = [check EXCEPT ![p] = Idle] /\ uses' = uses /\ Counts /\ UNCHANGED <<stored, memory, token>>
      /\ UNCHANGED <<kind, label, host, versioned, named, own, platform, head, creds, live, img, images, ltag,
                     seen, rec, latest, announced, stray, pattern, wish, skipped, saving, upd, link, acted, prune,
                     dockmon>>
  BY DEF RegistryFails, Request, registry, image, container, records, caches, settings, aside
<1>3. Idle \in CheckRecord /\ Idle.at = "idle"
  BY IdleIsTyped DEF Idle
<1>4. CachesAreTyped'
  BY <1>1, <1>2 DEF CachesAreTyped
<1>5. QED
  BY <1>2, <1>3, <1>4, CheckMoves

\* A check writes its result into the row of the container it was made for:
\* true of the image, announced, and without a change to the settings.
LEMMA ResultIsStored ==
    ASSUME ChecksInv, NEW p \in Checkers, NEW c, c = check[p].id, check[p].at # "idle",
           NEW r \in ContainerUpdate, rec' = [rec EXCEPT ![c] = r], latest' = c,
           r.is, rec[c].is => Choice(r) = Choice(rec[c]),
           r.avail => r.lat # img[c] /\ (versioned => r.lat > img[c]),
           r.lat > img[c] => r.lat \in announced'[c] \/ \E d \in ContainerIds : img[d] >= r.lat,
           announced' \in [ContainerIds -> SUBSET Versions],
           \A d \in ContainerIds : announced[d] \subseteq announced'[d],
           stray' = (stray \/ c # live),
           NEW k \in CheckRecord, check' = [check EXCEPT ![p] = k], k.at # "got", k.at = "idle" \/ k.id = c,
           CachesAreTyped', uses' = uses, Counts \/ UNCHANGED requests,
           UNCHANGED <<kind, label, host, versioned, named, own, platform, head, creds, live, img, images, ltag,
                       seen, pattern, wish, skipped, saving, upd, link, acted, prune, dockmon>>
    PROVE  ChecksInv'
<1>1. /\ WorldIsTyped /\ RowsAreTyped /\ CachesAreTyped /\ WorkIsTyped /\ AsideIsTyped
      /\ RequestsAreTyped /\ ChecksTypeOK /\ ChecksCore /\ ChecksPermits
  BY InvInParts
<1>2. c \in ContainerIds /\ img[c] # 0 /\ (c = live => live \in seen) /\ c # 0
  BY <1>1, ChecksConstants DEF ChecksCore, CheckedIsSeen
<1>3. WorldIsTyped' /\ AsideIsTyped'
  BY <1>1 DEF WorldIsTyped, AsideIsTyped
<1>4. RowsAreTyped'
  <2>1. stray' \in BOOLEAN /\ seen' \subseteq ContainerIds
    BY <1>1 DEF RowsAreTyped
  <2>2. QED
    BY <1>1, <1>2, <2>1, RowIsReplaced
<1>5. WorkIsTyped'
  BY <1>1, CheckIsReplaced DEF WorkIsTyped
<1>6. RequestsAreTyped'
  BY <1>1, RequestsStayTyped
<1>7. check'[p] = k /\ \A q \in Checkers : q # p => check'[q] = check[q]
  BY <1>1 DEF WorkIsTyped
<1>8. rec'[c] = r /\ \A d \in ContainerIds : d # c => rec'[d] = rec[d]
  BY <1>1, <1>2 DEF RowsAreTyped
<1>9. CheckedIsSeen'
  BY <1>1, <1>2, <1>7 DEF ChecksCore, CheckedIsSeen
<1>10. OnlyUsedIsKept' /\ UpdateHasRow'
  BY <1>1, <1>2, <1>8 DEF ChecksCore, OnlyUsedIsKept, UpdateHasRow
<1>11. RowsAreTrue'
  BY <1>1, <1>2, <1>8 DEF ChecksCore, RowsAreTrue
<1>12. SettingsAreKept'
  <2>1. SUFFICES ASSUME ~stray', wish \notin {<<>>, Choice(NoRec)}
                 PROVE  /\ latest' # 0 /\ rec'[latest'].is /\ Choice(rec'[latest']) = wish
                        /\ live \in seen \/ rec'[live].is => rec'[live].is /\ Choice(rec'[live]) = wish
                        /\ upd.at = "created" => Choice(rec'[upd.id]) = wish
    BY DEF SettingsAreKept
  <2>2. ~stray /\ c = live /\ live \in seen
    BY <2>1, <1>1, <1>2 DEF RowsAreTyped
  <2>3. rec[live].is /\ Choice(rec[live]) = wish /\ (upd.at = "created" => Choice(rec[upd.id]) = wish)
    BY <1>1, <2>1, <2>2 DEF ChecksCore, SettingsAreKept
  <2>4. upd.at = "created" => upd.id \in ContainerIds /\ upd.id # live
    BY <1>1 DEF ChecksCore, UpdateHasRow
  <2>5. QED
    BY <1>2, <1>8, <2>2, <2>3, <2>4
<1>13. ChecksPermits'
  BY <1>1, PermitsAreFramed
<1>14. QED
  BY <1>3, <1>4, <1>5, <1>6, <1>9, <1>10, <1>11, <1>12, <1>13, InvFromParts DEF ChecksCore

\* The registry denies the image, or was asked without a token: it is marked
\* as local, unless its reference names the registry.
LEMMA RegistryDeniesPreserves ==
    ASSUME ChecksInv, NEW p \in Checkers, RegistryDenies(p)
    PROVE  ChecksInv'
<1>1. WorldIsTyped /\ RowsAreTyped /\ CachesAreTyped /\ WorkIsTyped /\ ChecksCore
  BY InvInParts
<1>2. PICK c : c = check[p].id
  OBVIOUS
<1>3. PICK o : o = rec[c]
  OBVIOUS
<1>4. PICK r : r = [o EXCEPT !.is = TRUE, !.local = TRUE, !.avail = FALSE, !.lat = 0]
  OBVIOUS
<1>5. /\ check[p].at # "idle" /\ check' = [check EXCEPT ![p] = Idle] /\ (Counts \/ UNCHANGED requests)
      /\ token' \in {token, AuthToken} /\ UNCHANGED <<seen, stored, memory, announced>> /\ uses' = uses
      /\ UNCHANGED <<kind, label, host, versioned, named, own, platform, head, creds, live, img, images, ltag,
                     pattern, wish, skipped, saving, upd, link, acted, prune, dockmon>>
  BY DEF RegistryDenies, NeedsRegistry, Denied, TokenIsLost, Request, registry, image, container, settings, aside
<1>6. \/ UNCHANGED <<rec, latest, stray>>
      \/ rec' = [rec EXCEPT ![c] = r] /\ latest' = c /\ stray' = (stray \/ c # live)
  BY <1>2, <1>3, <1>4 DEF RegistryDenies, StoresLocal, Touched
<1>7. CachesAreTyped'
  BY <1>1, <1>5 DEF CachesAreTyped, AuthToken, Fetched
<1>8. Idle \in CheckRecord /\ Idle.at = "idle"
  BY IdleIsTyped DEF Idle
<1>9. CASE UNCHANGED <<rec, latest, stray>>
  BY <1>5, <1>7, <1>8, <1>9, CheckMoves
<1>10. CASE rec' = [rec EXCEPT ![c] = r] /\ latest' = c /\ stray' = (stray \/ c # live)
  <2>1. c \in ContainerIds /\ o \in ContainerUpdate
    BY <1>1, <1>2, <1>3, <1>5 DEF ChecksCore, CheckedIsSeen, RowsAreTyped
  <2>2. /\ r \in ContainerUpdate /\ r.is /\ ~r.avail /\ r.lat = 0 /\ Choice(r) = Choice(o)
    BY <1>4, <2>1 DEF ContainerUpdate, Choice
  <2>3. ~(r.lat > img[c])
    BY <1>1, <2>1, <2>2, NumbersAreNatural
  <2>4. announced' \in [ContainerIds -> SUBSET Versions] /\ \A d \in ContainerIds : announced[d] \subseteq announced'[d]
    BY <1>1, <1>5 DEF RowsAreTyped
  <2>5. QED
    BY <1>2, <1>3, <1>5, <1>7, <1>8, <1>10, <2>2, <2>3, <2>4, ResultIsStored
<1>11. QED
  BY <1>6, <1>9, <1>10

\* The digests of an image are compared, of the list and of the platform: a
\* version that counts as new is another one, and a greater one if versions
\* can be read; one that is greater counts as new.
LEMMA NewerIsOther ==
    ASSUME NEW c, img[c] \in Nat, NEW v \in Nat
    PROVE  /\ Newer(c, v) => v # img[c] /\ (versioned => v > img[c])
           /\ v > img[c] => Newer(c, v)
<1>1. HasDigest(c, v) <=> v = img[c]
  <2>1. PICK d \in {"list", "platform"} : RepoDigests(c) = {<<d, img[c]>>}
    BY DEF RepoDigests
  <2>2. <<d, img[c]>> \in Resolved(v) <=> v = img[c]
    BY <2>1 DEF Resolved
  <2>3. QED
    BY <2>1, <2>2 DEF HasDigest
<1>2. QED
  BY <1>1 DEF Newer, IsDowngrade

\* The result of a check is stored, and announced if it is new.
LEMMA CheckStoresPreserves ==
    ASSUME ChecksInv, NEW p \in Checkers, CheckStores(p)
    PROVE  ChecksInv'
<1>1. WorldIsTyped /\ RowsAreTyped /\ CachesAreTyped /\ WorkIsTyped /\ ChecksCore
  BY InvInParts
<1>2. PICK c : c = check[p].id
  OBVIOUS
<1>3. PICK v : v = check[p].v
  OBVIOUS
<1>4. PICK o : o = rec[c]
  OBVIOUS
<1>5. PICK r : r = [o EXCEPT !.is = TRUE, !.lat = v, !.tag = check[p].tag, !.local = FALSE,
                             !.avail = Newer(c, v), !.mode = IF o.is THEN o.mode ELSE check[p].tag]
  OBVIOUS
<1>6. PICK k : k = IF p = "daily" /\ Newer(c, v) THEN [Idle EXCEPT !.at = "auto", !.id = c] ELSE Idle
  OBVIOUS
<1>7. /\ check[p].at # "idle" /\ rec' = [rec EXCEPT ![c] = r] /\ latest' = c
      /\ stray' = (stray \/ c # live) /\ check' = [check EXCEPT ![p] = k]
      /\ announced' = IF Newer(c, v) /\ o.lat # v THEN [announced EXCEPT ![c] = @ \cup {v}] ELSE announced
      /\ UNCHANGED <<stored, memory, token, requests>> /\ uses' = uses
      /\ UNCHANGED <<kind, label, host, versioned, named, own, platform, head, creds, live, img, images, ltag,
                     seen, pattern, wish, skipped, saving, upd, link, acted, prune, dockmon>>
  <2>1. rec' = [rec EXCEPT ![c] = r]
    BY <1>2, <1>3, <1>4, <1>5 DEF CheckStores
  <2>2. QED
    BY <2>1, <1>2, <1>3, <1>4, <1>6
     DEF CheckStores, Touched, PreviousDigest, registry, image, container, caches, settings, aside
<1>8. c \in ContainerIds /\ o \in ContainerUpdate /\ check[p].tag \in Tags /\ v \in Versions \cup {0}
  BY <1>1, <1>2, <1>3, <1>4, <1>7 DEF ChecksCore, CheckedIsSeen, RowsAreTyped, WorkIsTyped, CheckRecord
<1>9. v \in Nat /\ img[c] \in Nat /\ (v # 0 => v \in Versions)
  <2>1. v \in Nat /\ (v # 0 => v \in Versions)
    BY <1>8, ChecksConstants
  <2>2. QED
    BY <1>1, <1>8, <2>1, NumbersAreNatural
<1>10. /\ Newer(c, v) => v # img[c] /\ (versioned => v > img[c])
       /\ v > img[c] => Newer(c, v)
  BY <1>9, NewerIsOther
<1>11. Newer(c, v) \in BOOLEAN
  BY DEF Newer, HasDigest, IsDowngrade
<1>12. /\ r \in ContainerUpdate /\ r.is /\ (r.avail => Newer(c, v)) /\ r.lat = v
       /\ (o.is => Choice(r) = Choice(o))
  BY <1>5, <1>8, <1>11 DEF ContainerUpdate, Choice
<1>13. /\ announced' \in [ContainerIds -> SUBSET Versions]
       /\ \A d \in ContainerIds : announced[d] \subseteq announced'[d]
       /\ v > img[c] /\ o.lat # v => v \in announced'[c]
  <2>1. v \in Versions
    BY <1>1, <1>3, <1>8, <1>9 DEF ChecksCore, CheckedIsSeen, CheckStores
  <2>2. CASE Newer(c, v) /\ o.lat # v
    BY <1>1, <1>7, <1>8, <2>1, <2>2 DEF RowsAreTyped
  <2>3. CASE ~(Newer(c, v) /\ o.lat # v)
    BY <1>1, <1>7, <1>10, <2>3 DEF RowsAreTyped
  <2>4. QED
    BY <2>2, <2>3
<1>14. v > img[c] => v \in announced'[c] \/ \E d \in ContainerIds : img[d] >= v
  BY <1>1, <1>4, <1>8, <1>13 DEF ChecksCore, RowsAreTrue
<1>15. k \in CheckRecord /\ k.at # "got" /\ (k.at = "idle" \/ k.id = c)
  BY <1>6, <1>8, IdleIsTyped DEF CheckRecord, Idle
<1>16. CachesAreTyped'
  BY <1>1, <1>7 DEF CachesAreTyped
<1>17. QED
  BY <1>2, <1>4, <1>7, <1>10, <1>12, <1>13, <1>14, <1>15, <1>16, ResultIsStored

\* The user writes the settings of the container into its row.
LEMMA SettingsAreWritten ==
    ASSUME ChecksInv, NEW r \in ContainerUpdate, live \in seen, Written(live, r), r.is,
           r.avail = rec[live].avail, r.lat = rec[live].lat,
           Counts, uses' = uses,
           UNCHANGED <<kind, label, host, versioned, named, own, platform, head, creds, live, img, images, ltag,
                       seen, announced, stray, stored, memory, token, pattern, skipped, saving, check, upd, link,
                       acted, prune, dockmon>>
    PROVE  ChecksInv'
<1>1. /\ WorldIsTyped /\ RowsAreTyped /\ CachesAreTyped /\ WorkIsTyped /\ AsideIsTyped
      /\ RequestsAreTyped /\ ChecksTypeOK /\ ChecksCore /\ ChecksPermits
  BY InvInParts
<1>2. /\ rec' = [rec EXCEPT ![live] = r] /\ latest' = live
      /\ wish' = IF upd.at = "created" THEN <<>> ELSE Choice(r)
  BY DEF Written, Touched
<1>3. live \in ContainerIds /\ live # 0
  BY <1>1, ChecksConstants DEF WorldIsTyped
<1>4. WorldIsTyped' /\ CachesAreTyped' /\ WorkIsTyped' /\ AsideIsTyped'
  BY <1>1 DEF WorldIsTyped, CachesAreTyped, WorkIsTyped, AsideIsTyped
<1>5. RowsAreTyped'
  BY <1>1, <1>2, <1>3, RowIsReplaced DEF RowsAreTyped
<1>6. RequestsAreTyped'
  BY <1>1, RequestsStayTyped
<1>7. rec'[live] = r /\ \A d \in ContainerIds : d # live => rec'[d] = rec[d]
  BY <1>1, <1>2, <1>3 DEF RowsAreTyped
<1>8. OnlyUsedIsKept' /\ UpdateHasRow' /\ CheckedIsSeen'
  BY <1>1, <1>2, <1>3, <1>7 DEF ChecksCore, OnlyUsedIsKept, UpdateHasRow, CheckedIsSeen
<1>9. RowsAreTrue'
  BY <1>1, <1>3, <1>7 DEF ChecksCore, RowsAreTrue
<1>10. SettingsAreKept'
  BY <1>2, <1>3, <1>7 DEF SettingsAreKept
<1>11. ChecksPermits'
  BY <1>1, PermitsAreFramed
<1>12. QED
  BY <1>4, <1>5, <1>6, <1>8, <1>9, <1>10, <1>11, InvFromParts DEF ChecksCore

\* The user sets automatic updates and the tag to follow.
LEMMA SetAutoUpdatePreserves ==
    ASSUME ChecksInv, NEW c \in ContainerIds, NEW auto \in BOOLEAN, NEW mode \in Tags, SetAutoUpdate(c, auto, mode)
    PROVE  ChecksInv'
<1>1. PICK o : o = rec[live]
  OBVIOUS
<1>2. o \in ContainerUpdate /\ o.is
  BY <1>1, InvInParts DEF WorldIsTyped, RowsAreTyped, SetAutoUpdate
<1>3. PICK r : r = [o EXCEPT !.auto = auto, !.mode = mode]
  OBVIOUS
<1>4. r \in ContainerUpdate /\ r.is /\ r.avail = o.avail /\ r.lat = o.lat
  BY <1>2, <1>3 DEF ContainerUpdate
<1>5. live \in seen /\ Written(live, r)
  BY <1>1, <1>3 DEF SetAutoUpdate
<1>6. /\ Counts /\ uses' = uses
      /\ UNCHANGED <<kind, label, host, versioned, named, own, platform, head, creds, live, img, images, ltag,
                     seen, announced, stray, stored, memory, token, pattern, skipped, saving, check, upd, link,
                     acted, prune, dockmon>>
  BY DEF SetAutoUpdate, Request, registry, image, container, caches, aside
<1>7. QED
  BY <1>1, <1>4, <1>5, <1>6, SettingsAreWritten

\* The user sets the policy of the container.
LEMMA SetPolicyPreserves ==
    ASSUME ChecksInv, NEW c \in ContainerIds, NEW policy \in Verdicts, SetPolicy(c, policy)
    PROVE  ChecksInv'
<1>1. PICK o : o = rec[live]
  OBVIOUS
<1>2. o \in ContainerUpdate /\ o.is
  BY <1>1, InvInParts DEF WorldIsTyped, RowsAreTyped, SetPolicy
<1>3. PICK r : r = [o EXCEPT !.policy = policy]
  OBVIOUS
<1>4. r \in ContainerUpdate /\ r.is /\ r.avail = o.avail /\ r.lat = o.lat
  BY <1>2, <1>3 DEF ContainerUpdate
<1>5. live \in seen /\ Written(live, r)
  BY <1>1, <1>3 DEF SetPolicy
<1>6. /\ Counts /\ uses' = uses
      /\ UNCHANGED <<kind, label, host, versioned, named, own, platform, head, creds, live, img, images, ltag,
                     seen, announced, stray, stored, memory, token, pattern, skipped, saving, check, upd, link,
                     acted, prune, dockmon>>
  BY DEF SetPolicy, Request, registry, image, container, caches, aside
<1>7. QED
  BY <1>1, <1>4, <1>5, <1>6, SettingsAreWritten

\* A setting is about to be inserted, or no longer; nothing else changes.
LEMMA SavingMoves ==
    ASSUME ChecksInv, saving' \in [id : ContainerIds \cup {0}, auto : BOOLEAN, mode : Tags],
           saving'.id # 0 => img[saving'.id] # 0, uses' = uses, Counts \/ UNCHANGED requests,
           UNCHANGED <<kind, label, host, versioned, named, own, platform, head, creds, live, img, images, ltag,
                       seen, rec, latest, announced, stray, stored, memory, token, pattern, wish, skipped, check,
                       upd, link, acted, prune, dockmon>>
    PROVE  ChecksInv'
<1>1. /\ WorldIsTyped /\ RowsAreTyped /\ CachesAreTyped /\ WorkIsTyped /\ AsideIsTyped
      /\ RequestsAreTyped /\ ChecksTypeOK /\ ChecksCore /\ ChecksPermits
  BY InvInParts
<1>2. WorldIsTyped' /\ RowsAreTyped' /\ CachesAreTyped' /\ WorkIsTyped' /\ AsideIsTyped'
  BY <1>1 DEF WorldIsTyped, RowsAreTyped, CachesAreTyped, WorkIsTyped, AsideIsTyped
<1>3. RequestsAreTyped'
  BY <1>1, RequestsStayTyped
<1>4. OnlyUsedIsKept'
  BY <1>1 DEF ChecksCore, OnlyUsedIsKept
<1>5. UpdateHasRow' /\ RowsAreTrue' /\ CheckedIsSeen' /\ SettingsAreKept'
  BY <1>1 DEF ChecksCore, UpdateHasRow, RowsAreTrue, CheckedIsSeen, SettingsAreKept
<1>6. ChecksPermits'
  BY <1>1, PermitsAreFramed
<1>7. QED
  BY <1>2, <1>3, <1>4, <1>5, <1>6, InvFromParts DEF ChecksCore

\* A setting for a container without a row: the containers are listed first.
LEMMA SetAutoBeginsPreserves ==
    ASSUME ChecksInv, NEW c \in ContainerIds, NEW auto \in BOOLEAN, NEW mode \in Tags, SetAutoBegins(c, auto, mode)
    PROVE  ChecksInv'
<1>1. saving' \in [id : ContainerIds \cup {0}, auto : BOOLEAN, mode : Tags] /\ saving'.id = live
  BY DEF SetAutoBegins
<1>2. img[live] # 0
  BY InvInParts DEF ChecksCore, OnlyUsedIsKept
<1>3. QED
  BY <1>1, <1>2, SavingMoves
     DEF SetAutoBegins, Request, registry, image, container, records, caches, aside

\* The row is inserted with the settings, unless there is one by now.
LEMMA SetAutoInsertsPreserves ==
    ASSUME ChecksInv, SetAutoInserts
    PROVE  ChecksInv'
<1>1. /\ WorldIsTyped /\ RowsAreTyped /\ CachesAreTyped /\ WorkIsTyped /\ AsideIsTyped
      /\ RequestsAreTyped /\ ChecksTypeOK /\ ChecksCore /\ ChecksPermits
  BY InvInParts
<1>2. PICK c : c = saving.id
  OBVIOUS
<1>3. PICK r : r = [NoRec EXCEPT !.is = TRUE, !.auto = saving.auto, !.mode = saving.mode]
  OBVIOUS
<1>4. /\ c # 0 /\ saving' = NoSave /\ uses' = uses
      /\ UNCHANGED <<kind, label, host, versioned, named, own, platform, head, creds, live, img, images, ltag,
                     seen, announced, stored, memory, token, pattern, skipped, check, upd, link, acted, prune,
                     dockmon, requests>>
  BY <1>2 DEF SetAutoInserts, registry, image, container, caches, aside
<1>5. \/ Written(c, r) /\ stray' = (stray \/ c # live)
      \/ UNCHANGED <<rec, latest, wish, stray>>
  BY <1>2, <1>3 DEF SetAutoInserts
<1>6. c \in ContainerIds /\ img[c] # 0 /\ saving.auto \in BOOLEAN /\ saving.mode \in Tags
  BY <1>1, <1>2, <1>4 DEF AsideIsTyped, ChecksCore, OnlyUsedIsKept
<1>7. NoSave \in [id : ContainerIds \cup {0}, auto : BOOLEAN, mode : Tags] /\ NoSave.id = 0
  BY DEF NoSave, Tags
<1>8. CASE UNCHANGED <<rec, latest, wish, stray>>
  BY <1>4, <1>7, <1>8, SavingMoves
<1>9. CASE Written(c, r) /\ stray' = (stray \/ c # live)
  <2>1. /\ rec' = [rec EXCEPT ![c] = r] /\ latest' = c
        /\ wish' = IF upd.at = "created" THEN <<>> ELSE Choice(r)
    BY <1>9 DEF Written, Touched
  <2>2. r \in ContainerUpdate /\ r.is /\ ~r.avail /\ r.lat = 0
    <3>1. r = [is |-> TRUE, lat |-> 0, tag |-> "exact", avail |-> FALSE, local |-> FALSE,
               auto |-> saving.auto, mode |-> saving.mode, policy |-> None]
      BY <1>3 DEF NoRec
    <3>2. QED
      BY <1>6, <3>1 DEF ContainerUpdate, Tags, Verdicts
  <2>3. rec'[c] = r /\ \A d \in ContainerIds : d # c => rec'[d] = rec[d]
    BY <1>1, <1>6, <2>1 DEF RowsAreTyped
  <2>4. WorldIsTyped' /\ CachesAreTyped' /\ WorkIsTyped' /\ AsideIsTyped'
    BY <1>1, <1>4, <1>7 DEF WorldIsTyped, CachesAreTyped, WorkIsTyped, AsideIsTyped
  <2>5. RowsAreTyped'
    BY <1>1, <1>4, <1>6, <1>9, <2>1, <2>2, RowIsReplaced DEF RowsAreTyped
  <2>6. RequestsAreTyped'
    BY <1>1, <1>4, RequestsStayTyped
  <2>7. OnlyUsedIsKept' /\ UpdateHasRow' /\ CheckedIsSeen'
    BY <1>1, <1>4, <1>6, <1>7, <2>1, <2>2, <2>3 DEF ChecksCore, OnlyUsedIsKept, UpdateHasRow, CheckedIsSeen
  <2>8. ~(r.lat > img[c])
    BY <1>1, <1>6, <2>2, NumbersAreNatural
  <2>9. RowsAreTrue'
    BY <1>1, <1>4, <1>6, <2>2, <2>3, <2>8 DEF ChecksCore, RowsAreTrue
  <2>10. SettingsAreKept'
    <3>1. SUFFICES ASSUME ~stray', wish' # <<>>
                   PROVE  /\ latest' # 0 /\ rec'[latest'].is /\ Choice(rec'[latest']) = wish'
                          /\ rec'[live].is /\ Choice(rec'[live]) = wish' /\ upd.at # "created"
      BY <1>4 DEF SettingsAreKept
    <3>2. c = live
      BY <1>1, <1>9, <3>1 DEF RowsAreTyped
    <3>3. QED
      BY <1>4, <2>1, <2>2, <2>3, <3>1, <3>2, <1>6
  <2>11. ChecksPermits'
    BY <1>1, <1>4, PermitsAreFramed
  <2>12. QED
    BY <2>4, <2>5, <2>6, <2>7, <2>9, <2>10, <2>11, InvFromParts DEF ChecksCore
<1>10. QED
  BY <1>5, <1>8, <1>9

\* Containers of Docker Compose are checked again, or no longer.
LEMMA SetSkipComposePreserves ==
    ASSUME ChecksInv, SetSkipCompose
    PROVE  ChecksInv'
<1>1. WorldIsTyped /\ CachesAreTyped /\ AsideIsTyped /\ UsedIsUsed
  BY InvInParts DEF ChecksPermits
<1>2. /\ uses' = uses /\ (Counts \/ UNCHANGED requests)
      /\ UNCHANGED <<live, img, images, seen, rec, latest, announced, stray, check, upd, wish, kind,
                     label, host, versioned, own, saving>>
  BY DEF SetSkipCompose, Request, registry, image, container, records
<1>3. WorldIsTyped'
  BY <1>1 DEF WorldIsTyped, SetSkipCompose, registry, image, container
<1>4. CachesAreTyped'
  BY <1>1 DEF CachesAreTyped, SetSkipCompose, caches
<1>5. AsideIsTyped' /\ UsedIsUsed'
  BY <1>1 DEF AsideIsTyped, UsedIsUsed, SetSkipCompose, aside
<1>6. QED
  BY <1>2, <1>3, <1>4, <1>5, QuietStep

\* The update under way begins, goes on or ends before the container is
\* replaced.
LEMMA UpdateMoves ==
    ASSUME ChecksInv, upd' \in UpdateRecord, upd'.at # "created",
           upd'.at # "idle" => upd'.id \in ContainerIds /\ img[upd'.id] # 0 /\ rec[upd'.id].is,
           upd'.at = "pulled" => upd'.v \in Versions,
           own \/ (label = "block" /\ host = "direct") => upd'.at \notin {"running", "pulled"},
           label = "block" /\ host = "direct" => upd'.by # "forced",
           \A p \in Checkers : check'[p] \in {Idle, check[p]},
           WorldIsTyped', WorkIsTyped', uses' = uses, Counts \/ UNCHANGED requests, images \subseteq images',
           UNCHANGED <<kind, label, host, versioned, own, live, img, seen, rec, latest, announced, stray,
                       stored, memory, token, pattern, wish, skipped, saving, link, acted, prune, dockmon>>
    PROVE  ChecksInv'
<1>1. /\ WorldIsTyped /\ RowsAreTyped /\ CachesAreTyped /\ WorkIsTyped /\ AsideIsTyped
      /\ RequestsAreTyped /\ ChecksTypeOK /\ ChecksCore /\ ChecksPermits
  BY InvInParts
<1>2. RowsAreTyped' /\ CachesAreTyped' /\ AsideIsTyped'
  BY <1>1 DEF RowsAreTyped, CachesAreTyped, AsideIsTyped
<1>3. RequestsAreTyped'
  BY <1>1, RequestsStayTyped
<1>4. OnlyUsedIsKept' /\ RowsAreTrue' /\ UpdateHasRow' /\ SettingsAreKept'
  BY <1>1 DEF ChecksCore, OnlyUsedIsKept, RowsAreTrue, UpdateHasRow, SettingsAreKept
<1>5. CheckedIsSeen'
  <2>1. Idle.at = "idle"
    BY DEF Idle
  <2>2. QED
    BY <1>1, <2>1 DEF ChecksCore, CheckedIsSeen
<1>6. ChecksPermits'
  BY <1>1 DEF ChecksPermits, ForbiddenIsStopped, LabelForbids, UsedIsUsed, PruneSparesUsed
<1>7. QED
  BY <1>2, <1>3, <1>4, <1>5, <1>6, InvFromParts DEF ChecksCore

\* An update that begins is one of the container's row.
LEMMA BegunIsTyped ==
    ASSUME RowsAreTyped, NEW c \in ContainerIds, NEW by \in {None, "auto", "user", "forced", "batch", "warned"},
           upd' = [NoUpdate EXCEPT !.at = "validating", !.id = c, !.tag = rec[c].tag, !.lat = rec[c].lat, !.by = by]
    PROVE  upd' \in UpdateRecord /\ upd'.at = "validating" /\ upd'.id = c /\ upd'.by = by
<1>1. PICK o \in ContainerUpdate : o = rec[c]
  BY DEF RowsAreTyped
<1>2. o.tag \in Tags /\ o.lat \in Versions \cup {0}
  BY <1>1 DEF ContainerUpdate
<1>3. upd' = [at |-> "validating", id |-> c, new |-> 0, tag |-> o.tag, v |-> 0, lat |-> o.lat, by |-> by]
  BY <1>1 DEF NoUpdate
<1>4. QED
  BY <1>2, <1>3 DEF UpdateRecord

\* The daily check starts the update it has found.
LEMMA AutoUpdatePreserves ==
    ASSUME ChecksInv, AutoUpdate
    PROVE  ChecksInv'
<1>1. /\ WorldIsTyped /\ RowsAreTyped /\ WorkIsTyped /\ ChecksCore /\ ChecksPermits
  BY InvInParts
<1>2. PICK c : c = check["daily"].id
  OBVIOUS
<1>3. /\ check["daily"].at = "auto" /\ check' = [check EXCEPT !["daily"] = Idle]
      /\ \/ upd.at = "idle" /\ StartUpdate(c, "auto")
         \/ upd' = upd
      /\ uses' = uses /\ UNCHANGED requests
      /\ UNCHANGED <<kind, label, host, versioned, named, own, platform, head, creds, live, img, images, ltag,
                     seen, rec, latest, announced, stray, stored, memory, token, pattern, wish, skipped, saving,
                     link, acted, prune, dockmon>>
  BY <1>2 DEF AutoUpdate, registry, image, container, records, caches, settings, aside
<1>4. c \in ContainerIds /\ img[c] # 0
  BY <1>1, <1>2, <1>3 DEF ChecksCore, CheckedIsSeen, Checkers
<1>5. \A p \in Checkers : check'[p] \in {Idle, check[p]}
  BY <1>1, <1>3 DEF WorkIsTyped
<1>6. WorldIsTyped'
  BY <1>1, <1>3 DEF WorldIsTyped
<1>7. CASE upd.at = "idle" /\ StartUpdate(c, "auto")
  <2>1. upd' \in UpdateRecord /\ upd'.at = "validating" /\ upd'.id = c /\ upd'.by = "auto" /\ rec[c].is
    BY <1>1, <1>4, <1>7, BegunIsTyped DEF StartUpdate
  <2>2. WorkIsTyped'
    BY <1>1, <1>3, <2>1, IdleIsTyped, CheckIsReplaced DEF Checkers
  <2>3. QED
    BY <1>3, <1>4, <1>5, <1>6, <2>1, <2>2, UpdateMoves
<1>8. CASE upd' = upd
  <2>1. WorkIsTyped'
    BY <1>1, <1>3, <1>8, IdleIsTyped, CheckIsReplaced DEF Checkers, WorkIsTyped
  <2>2. Idle \in CheckRecord /\ Idle.at = "idle"
    BY IdleIsTyped DEF Idle
  <2>3. CachesAreTyped'
    BY <1>3, InvInParts DEF CachesAreTyped
  <2>4. QED
    BY <1>3, <1>8, <2>2, <2>3, CheckMoves DEF Checkers
<1>9. QED
  BY <1>3, <1>7, <1>8

\* The updates of the other containers begin, and with them that of a row
\* whose container was not checked.
LEMMA OthersAreUpdatedPreserves ==
    ASSUME ChecksInv, NEW c \in ContainerIds, OthersAreUpdated(c)
    PROVE  ChecksInv'
<1>1. /\ WorldIsTyped /\ RowsAreTyped /\ WorkIsTyped /\ ChecksCore
  BY InvInParts
<1>2. /\ StartUpdate(c, "auto") /\ uses' = uses /\ Counts
      /\ UNCHANGED <<kind, label, host, versioned, named, own, platform, head, creds, live, img, images, ltag,
                     seen, rec, latest, announced, stray, stored, memory, token, pattern, wish, skipped, saving,
                     check, link, acted, prune, dockmon>>
  BY DEF OthersAreUpdated, Request, registry, image, container, records, caches, settings, aside
<1>3. upd' \in UpdateRecord /\ upd'.at = "validating" /\ upd'.id = c /\ upd'.by = "auto" /\ rec[c].is
  BY <1>1, <1>2, BegunIsTyped DEF StartUpdate
<1>4. WorldIsTyped' /\ WorkIsTyped'
  BY <1>1, <1>2, <1>3 DEF WorldIsTyped, WorkIsTyped
<1>5. img[c] # 0
  <2>1. ~NoRec.is
    BY DEF NoRec
  <2>2. QED
    BY <1>1, <1>3, <2>1 DEF ChecksCore, OnlyUsedIsKept
<1>6. QED
  BY <1>2, <1>3, <1>4, <1>5, UpdateMoves

\* The user starts an update; a label that forbids it is met on a direct host.
LEMMA UserUpdatePreserves ==
    ASSUME ChecksInv, NEW c \in ContainerIds, NEW forced \in BOOLEAN, UserUpdate(c, forced)
    PROVE  ChecksInv'
<1>1. /\ WorldIsTyped /\ RowsAreTyped /\ WorkIsTyped /\ ChecksCore /\ ChecksPermits
  BY InvInParts
<1>2. PICK by : by = IF forced THEN "forced" ELSE "user"
  OBVIOUS
<1>3. /\ c = live /\ StartUpdate(c, by) /\ uses' = uses /\ Counts
      /\ UNCHANGED <<kind, label, host, versioned, named, own, platform, head, creds, live, img, images, ltag,
                     seen, rec, latest, announced, stray, stored, memory, token, pattern, wish, skipped, saving,
                     check, link, acted, prune, dockmon>>
  BY <1>2 DEF UserUpdate, Request, registry, image, container, records, caches, settings, aside
<1>4. ~(label = "block" /\ host = "direct")
  BY DEF UserUpdate, Validate, None
<1>5. upd' \in UpdateRecord /\ upd'.at = "validating" /\ upd'.id = c /\ rec[c].is
  BY <1>1, <1>2, <1>3, BegunIsTyped DEF StartUpdate
<1>6. WorldIsTyped' /\ WorkIsTyped'
  BY <1>1, <1>3, <1>5 DEF WorldIsTyped, WorkIsTyped
<1>7. img[c] # 0
  BY <1>1, <1>3 DEF ChecksCore, OnlyUsedIsKept
<1>8. QED
  BY <1>3, <1>4, <1>5, <1>6, <1>7, UpdateMoves

\* A batch job starts an update.
LEMMA BatchUpdatePreserves ==
    ASSUME ChecksInv, NEW c \in ContainerIds, NEW warned \in BOOLEAN, BatchUpdate(c, warned)
    PROVE  ChecksInv'
<1>1. /\ WorldIsTyped /\ RowsAreTyped /\ WorkIsTyped /\ ChecksCore /\ ChecksPermits
  BY InvInParts
<1>2. PICK by : by = IF warned THEN "warned" ELSE "batch"
  OBVIOUS
<1>3. /\ c = live /\ rec[c].is /\ uses' = uses /\ Counts
      /\ upd' = [NoUpdate EXCEPT !.at = "validating", !.id = c, !.tag = rec[c].tag, !.lat = rec[c].lat, !.by = by]
      /\ UNCHANGED <<kind, label, host, versioned, named, own, platform, head, creds, live, img, images, ltag,
                     seen, rec, latest, announced, stray, stored, memory, token, pattern, wish, skipped, saving,
                     check, link, acted, prune, dockmon>>
  BY <1>2 DEF BatchUpdate, Request, registry, image, container, records, caches, settings, aside
<1>4. upd' \in UpdateRecord /\ upd'.at = "validating" /\ upd'.id = c /\ upd'.by = by /\ by # "forced"
  BY <1>1, <1>2, <1>3, BegunIsTyped
<1>5. WorldIsTyped' /\ WorkIsTyped'
  BY <1>1, <1>3, <1>4 DEF WorldIsTyped, WorkIsTyped
<1>6. img[c] # 0
  BY <1>1, <1>3 DEF ChecksCore, OnlyUsedIsKept
<1>7. QED
  BY <1>3, <1>4, <1>5, <1>6, UpdateMoves

\* On a direct host a label that forbids updates is met here at the latest.
LEMMA UpdateValidatedPreserves ==
    ASSUME ChecksInv, UpdateValidated
    PROVE  ChecksInv'
<1>1. /\ WorldIsTyped /\ RowsAreTyped /\ WorkIsTyped /\ ChecksCore /\ ChecksPermits
  BY InvInParts
<1>2. /\ upd.at = "validating" /\ uses' = uses
      /\ UNCHANGED <<kind, label, host, versioned, named, own, platform, head, creds, live, img, images, ltag,
                     seen, rec, latest, announced, stray, stored, memory, token, pattern, wish, skipped, saving,
                     check, link, acted, prune, dockmon, requests>>
  BY DEF UpdateValidated, registry, image, container, records, caches, settings, aside
<1>3. \/ upd' = NoUpdate
      \/ upd' = [upd EXCEPT !.at = "running"] /\ ~own /\ ~(host = "direct" /\ Refuses(Validate(upd.id, label), upd.by))
  BY DEF UpdateValidated
<1>4. /\ upd \in UpdateRecord /\ upd.id \in ContainerIds /\ img[upd.id] # 0 /\ rec[upd.id].is
      /\ label = "block" /\ host = "direct" => upd.by # "forced"
  BY <1>1, <1>2 DEF WorkIsTyped, ChecksCore, UpdateHasRow, ChecksPermits, ForbiddenIsStopped
<1>5. WorldIsTyped'
  BY <1>1, <1>2 DEF WorldIsTyped
<1>6. CASE upd' = NoUpdate
  <2>1. upd' \in UpdateRecord /\ upd'.at = "idle" /\ upd'.by = None /\ upd'.by # "forced"
    BY <1>6, IdleIsTyped DEF NoUpdate, None
  <2>2. WorkIsTyped'
    BY <1>1, <1>2, <2>1 DEF WorkIsTyped
  <2>3. QED
    BY <1>2, <1>5, <2>1, <2>2, UpdateMoves
<1>7. CASE /\ upd' = [upd EXCEPT !.at = "running"] /\ ~own
           /\ ~(host = "direct" /\ Refuses(Validate(upd.id, label), upd.by))
  <2>1. upd' \in UpdateRecord /\ upd'.at = "running" /\ upd'.id = upd.id /\ upd'.by = upd.by
    BY <1>4, <1>7 DEF UpdateRecord
  <2>2. ~own /\ ~(label = "block" /\ host = "direct")
    BY <1>4, <1>7 DEF Refuses, Validate, None
  <2>3. WorkIsTyped'
    BY <1>1, <1>2, <2>1 DEF WorkIsTyped
  <2>4. QED
    BY <1>2, <1>4, <1>5, <2>1, <2>2, <2>3, UpdateMoves
<1>8. QED
  BY <1>3, <1>6, <1>7

\* The image of the tag is pulled.
LEMMA UpdatePullsPreserves ==
    ASSUME ChecksInv, UpdatePulls
    PROVE  ChecksInv'
<1>1. /\ WorldIsTyped /\ RowsAreTyped /\ WorkIsTyped /\ ChecksCore /\ ChecksPermits
  BY InvInParts
<1>2. PICK w : w = head[upd.tag]
  OBVIOUS
<1>3. /\ upd.at = "running" /\ uses' = uses /\ upd' = [[upd EXCEPT !.at = "pulled"] EXCEPT !.v = w]
      /\ images' = images \cup {w} /\ ltag' = [ltag EXCEPT ![upd.tag] = w]
      /\ UNCHANGED <<kind, label, host, versioned, named, own, platform, head, creds, live, img, seen, rec,
                     latest, announced, stray, stored, memory, token, pattern, wish, skipped, saving, check, link,
                     acted, prune, dockmon, requests>>
  BY <1>2 DEF UpdatePulls, registry, image, records, caches, settings, aside
<1>4. /\ upd \in UpdateRecord /\ upd.id \in ContainerIds /\ img[upd.id] # 0 /\ rec[upd.id].is
      /\ ~own /\ ~(label = "block" /\ host = "direct")
  BY <1>1, <1>3 DEF WorkIsTyped, ChecksCore, UpdateHasRow, ChecksPermits, ForbiddenIsStopped, LabelForbids
<1>5. upd.tag \in Tags
  BY <1>4 DEF UpdateRecord
<1>6. w \in Versions
  BY <1>1, <1>2, <1>5 DEF WorldIsTyped
<1>7. WorldIsTyped'
  BY <1>1, <1>3, <1>5, <1>6 DEF WorldIsTyped
<1>8. upd' \in UpdateRecord /\ upd'.at = "pulled" /\ upd'.id = upd.id /\ upd'.v = w
  BY <1>3, <1>4, <1>6 DEF UpdateRecord
<1>9. WorkIsTyped'
  BY <1>1, <1>3, <1>8 DEF WorkIsTyped
<1>10. QED
  BY <1>3, <1>4, <1>6, <1>7, <1>8, <1>9, UpdateMoves

\* The update fails before the container is replaced.
LEMMA UpdateFailsPreserves ==
    ASSUME ChecksInv, UpdateFails
    PROVE  ChecksInv'
<1>1. WorldIsTyped /\ WorkIsTyped
  BY InvInParts
<1>2. /\ uses' = uses /\ (Counts \/ UNCHANGED requests) /\ upd' = NoUpdate
      /\ UNCHANGED <<kind, label, host, versioned, named, own, platform, head, creds, live, img, images, ltag,
                     seen, rec, latest, announced, stray, stored, memory, token, pattern, wish, skipped, saving,
                     check, link, acted, prune, dockmon>>
  BY DEF UpdateFails, registry, image, container, records, caches, settings, aside
<1>3. upd' \in UpdateRecord /\ upd'.at = "idle" /\ upd'.by # "forced"
  BY <1>2, IdleIsTyped DEF NoUpdate, None
<1>4. WorldIsTyped' /\ WorkIsTyped'
  BY <1>1, <1>2, <1>3 DEF WorldIsTyped, WorkIsTyped
<1>5. QED
  BY <1>2, <1>3, <1>4, UpdateMoves

\* The update replaces the container: the new id has nothing yet, and the
\* settings are in the row of the old one, which is about to migrate.
LEMMA UpdateCreatesPreserves ==
    ASSUME ChecksInv, NEW c \in ContainerIds, UpdateCreates(c)
    PROVE  ChecksInv'
<1>1. /\ WorldIsTyped /\ RowsAreTyped /\ CachesAreTyped /\ WorkIsTyped /\ AsideIsTyped
      /\ RequestsAreTyped /\ ChecksTypeOK /\ ChecksCore /\ ChecksPermits
  BY InvInParts
<1>2. /\ upd.at = "pulled" /\ upd.v \in images /\ upd.id = live /\ img[c] = 0 /\ live' = c
      /\ img' = [img EXCEPT ![c] = upd.v] /\ upd' = [[upd EXCEPT !.at = "created"] EXCEPT !.new = c]
      /\ uses' = uses
      /\ UNCHANGED <<kind, label, host, versioned, named, own, platform, head, creds, images, ltag, seen, rec,
                     latest, announced, stray, stored, memory, token, pattern, wish, skipped, saving, check, link,
                     acted, prune, dockmon, requests>>
  BY DEF UpdateCreates, NewId, registry, image, records, caches, settings, aside
<1>3. upd \in UpdateRecord /\ upd.v \in Versions /\ upd.v # 0 /\ upd.v \in Nat /\ upd.id # c
  BY <1>1, <1>2, ChecksConstants DEF WorkIsTyped, WorldIsTyped, ChecksCore, UpdateHasRow
<1>4. WorldIsTyped'
  BY <1>1, <1>2, <1>3 DEF WorldIsTyped
<1>5. RowsAreTyped' /\ CachesAreTyped' /\ AsideIsTyped'
  BY <1>1, <1>2 DEF RowsAreTyped, CachesAreTyped, AsideIsTyped
<1>6. upd' \in UpdateRecord /\ upd'.at = "created" /\ upd'.new = c /\ upd'.id = live /\ upd'.by = upd.by
  BY <1>2, <1>3 DEF UpdateRecord
<1>7. WorkIsTyped'
  BY <1>1, <1>2, <1>6 DEF WorkIsTyped
<1>8. RequestsAreTyped'
  BY <1>1, <1>2, RequestsStayTyped
<1>9. img'[c] = upd.v /\ \A d \in ContainerIds : d # c => img'[d] = img[d]
  BY <1>1, <1>2 DEF WorldIsTyped
<1>10. c \notin seen /\ rec[c] = NoRec /\ live # c /\ live \in ContainerIds /\ img[live] # 0 /\ rec[live].is
  BY <1>1, <1>2, <1>3 DEF ChecksCore, OnlyUsedIsKept, UpdateHasRow, WorldIsTyped
<1>11. rec[c].lat = 0 /\ ~rec[c].avail /\ ~rec[c].is
  BY <1>10 DEF NoRec
<1>12. OnlyUsedIsKept' /\ CheckedIsSeen' /\ UpdateHasRow'
  BY <1>1, <1>2, <1>3, <1>6, <1>9, <1>10 DEF ChecksCore, OnlyUsedIsKept, CheckedIsSeen, UpdateHasRow, AsideIsTyped
<1>13. RowsAreTrue'
  <2>1. \A d \in ContainerIds : rec[d].lat \in Nat /\ img[d] \in Nat
    BY <1>1, NumbersAreNatural
  <2>2. QED
    BY <1>1, <1>2, <1>3, <1>9, <1>11, <2>1 DEF ChecksCore, RowsAreTrue
<1>14. SettingsAreKept'
  BY <1>1, <1>2, <1>6, <1>10, <1>11 DEF ChecksCore, SettingsAreKept
<1>15. ChecksPermits'
  BY <1>1, <1>2, <1>6, <1>9 DEF ChecksPermits, ForbiddenIsStopped, LabelForbids, UsedIsUsed, PruneSparesUsed
<1>16. QED
  BY <1>4, <1>5, <1>7, <1>8, <1>12, <1>13, <1>14, <1>15, InvFromParts DEF ChecksCore

\* The row migrates to the new id, in place of what discovery has put there.
LEMMA UpdateMigratesPreserves ==
    ASSUME ChecksInv, UpdateMigrates
    PROVE  ChecksInv'
<1>1. /\ WorldIsTyped /\ RowsAreTyped /\ CachesAreTyped /\ WorkIsTyped /\ AsideIsTyped
      /\ RequestsAreTyped /\ ChecksTypeOK /\ ChecksCore /\ ChecksPermits
  BY InvInParts
<1>2. PICK a : a = upd.id
  OBVIOUS
<1>3. /\ upd.at = "created" /\ a \in ContainerIds /\ a # live /\ upd.new = live /\ rec[a].is
      /\ img[a] # 0 /\ live \in ContainerIds /\ live # 0
  BY <1>1, <1>2, ChecksConstants DEF UpdateMigrates, ChecksCore, UpdateHasRow, WorldIsTyped
<1>4. PICK r : r = [rec[a] EXCEPT !.avail = FALSE]
  OBVIOUS
<1>5. /\ rec' = [rec EXCEPT ![live] = r, ![a] = NoRec] /\ latest' = live
      /\ announced' = [announced EXCEPT ![live] = announced[a]] /\ upd' = NoUpdate
      /\ uses' = uses
      /\ UNCHANGED <<kind, label, host, versioned, named, own, platform, head, creds, live, img, images, ltag,
                     seen, stray, stored, memory, token, pattern, wish, skipped, saving, check, link, acted,
                     prune, dockmon, requests>>
  BY <1>2, <1>3, <1>4 DEF UpdateMigrates, Migrated, Touched, registry, image, container, caches, settings, aside
<1>6. rec[a] \in ContainerUpdate
  BY <1>1, <1>3 DEF RowsAreTyped
<1>7. /\ r \in ContainerUpdate /\ r.is /\ ~r.avail /\ r.lat = rec[a].lat
      /\ Choice(r) = Choice(rec[a])
  BY <1>3, <1>4, <1>6 DEF ContainerUpdate, Choice
<1>8. /\ rec'[live] = r /\ rec'[a] = NoRec /\ \A d \in ContainerIds : d # live /\ d # a => rec'[d] = rec[d]
      /\ announced'[live] = announced[a] /\ \A d \in ContainerIds : d # live => announced'[d] = announced[d]
  BY <1>1, <1>3, <1>5 DEF RowsAreTyped
<1>9. WorldIsTyped' /\ CachesAreTyped' /\ AsideIsTyped'
  BY <1>1, <1>5 DEF WorldIsTyped, CachesAreTyped, AsideIsTyped
<1>10. RowsAreTyped'
  <2>1. rec' \in [ContainerIds -> ContainerUpdate]
    BY <1>1, <1>3, <1>5, <1>7, IdleIsTyped DEF RowsAreTyped
  <2>2. announced' \in [ContainerIds -> SUBSET Versions]
    BY <1>1, <1>3, <1>5 DEF RowsAreTyped
  <2>3. QED
    BY <1>1, <1>3, <1>5, <2>1, <2>2 DEF RowsAreTyped
<1>11. upd' \in UpdateRecord /\ upd'.at = "idle" /\ upd'.by # "forced"
  BY <1>5, IdleIsTyped DEF NoUpdate, None
<1>12. WorkIsTyped'
  BY <1>1, <1>5, <1>11 DEF WorkIsTyped
<1>13. RequestsAreTyped'
  BY <1>1, <1>5, RequestsStayTyped
<1>14. NoRec.lat = 0 /\ ~NoRec.avail /\ ~NoRec.is
  BY DEF NoRec
<1>15. OnlyUsedIsKept' /\ CheckedIsSeen' /\ UpdateHasRow'
  <2>1. CheckedIsSeen' /\ UpdateHasRow'
    BY <1>1, <1>5, <1>11 DEF ChecksCore, CheckedIsSeen, UpdateHasRow
  <2>2. img[live] # 0
    BY <1>1 DEF ChecksCore, OnlyUsedIsKept
  <2>3. \A d \in ContainerIds : img[d] = 0 => d \notin seen /\ rec'[d] = NoRec
    BY <1>1, <1>3, <1>8, <2>2 DEF ChecksCore, OnlyUsedIsKept
  <2>4. rec'[latest'].is /\ latest' # 0
    BY <1>3, <1>5, <1>7, <1>8
  <2>5. OnlyUsedIsKept'
    BY <1>1, <1>5, <2>2, <2>3, <2>4 DEF ChecksCore, OnlyUsedIsKept
  <2>6. QED
    BY <2>1, <2>5
<1>16. RowsAreTrue'
  <2>1. \A d \in ContainerIds : rec[d].lat \in Nat /\ img[d] \in Nat
    BY <1>1, NumbersAreNatural
  <2>2. \A d \in ContainerIds :
          /\ rec[d].avail => rec[d].lat # img[d] /\ (versioned => rec[d].lat > img[d])
          /\ rec[d].lat > img[d] => rec[d].lat \in announced[d] \/ \E e \in ContainerIds : img[e] >= rec[d].lat
    BY <1>1 DEF ChecksCore, RowsAreTrue
  <2>3. rec[a].lat \in announced[a] \/ \E e \in ContainerIds : img[e] >= rec[a].lat
    BY <1>3, <2>1, <2>2
  <2>4. SUFFICES ASSUME NEW d \in ContainerIds
                 PROVE  /\ rec'[d].avail => rec'[d].lat # img[d] /\ (versioned => rec'[d].lat > img[d])
                        /\ rec'[d].lat > img[d] =>
                             rec'[d].lat \in announced'[d] \/ \E e \in ContainerIds : img[e] >= rec'[d].lat
    BY <1>5 DEF RowsAreTrue
  <2>5. CASE d = live
    BY <1>3, <1>7, <1>8, <2>2, <2>3, <2>5
  <2>6. CASE d = a
    BY <1>8, <1>14, <2>1, <2>6
  <2>7. CASE d # live /\ d # a
    BY <1>8, <2>2, <2>7
  <2>8. QED
    BY <2>5, <2>6, <2>7
<1>17. SettingsAreKept'
  BY <1>1, <1>2, <1>3, <1>5, <1>7, <1>8, <1>11 DEF ChecksCore, SettingsAreKept
<1>18. ChecksPermits'
  BY <1>1, <1>5, <1>11 DEF ChecksPermits, ForbiddenIsStopped, LabelForbids, UsedIsUsed, PruneSparesUsed
<1>19. QED
  BY <1>9, <1>10, <1>12, <1>13, <1>15, <1>16, <1>17, <1>18, InvFromParts DEF ChecksCore

\* A restart forgets what is in memory; the rows keep the settings.
LEMMA RestartPreserves ==
    ASSUME ChecksInv, Restart
    PROVE  ChecksInv'
<1>1. /\ WorldIsTyped /\ RowsAreTyped /\ CachesAreTyped /\ WorkIsTyped /\ AsideIsTyped
      /\ RequestsAreTyped /\ ChecksTypeOK /\ ChecksCore /\ ChecksPermits
  BY InvInParts
<1>2. /\ check' = [p \in Checkers |-> Idle] /\ upd' = NoUpdate /\ memory' = [t \in Tags |-> 0] /\ token' = None
      /\ seen' = {} /\ prune' = {} /\ dockmon' = [dockmon EXCEPT !.cached = 0] /\ Counts /\ uses' = uses
      /\ saving' = NoSave
      /\ UNCHANGED <<kind, label, host, versioned, named, own, platform, head, creds, live, img, images, ltag,
                     rec, latest, announced, stray, stored, pattern, wish, skipped, link, acted>>
  BY DEF Restart, Request, registry, image, container, settings
<1>3. upd' \in UpdateRecord /\ upd'.at = "idle" /\ upd'.by # "forced" /\ Idle.at = "idle" /\ Idle \in CheckRecord
  BY <1>2, IdleIsTyped DEF NoUpdate, None, Idle
<1>4. WorldIsTyped' /\ RowsAreTyped' /\ CachesAreTyped'
  BY <1>1, <1>2 DEF WorldIsTyped, RowsAreTyped, CachesAreTyped
<1>5. WorkIsTyped' /\ AsideIsTyped'
  BY <1>1, <1>2, <1>3 DEF WorkIsTyped, AsideIsTyped, NoSave, Tags
<1>6. RequestsAreTyped'
  BY <1>1, <1>2, RequestsStayTyped
<1>7. OnlyUsedIsKept' /\ CheckedIsSeen' /\ UpdateHasRow' /\ RowsAreTrue'
  BY <1>1, <1>2, <1>3 DEF ChecksCore, OnlyUsedIsKept, CheckedIsSeen, UpdateHasRow, RowsAreTrue, NoSave
<1>8. SettingsAreKept'
  BY <1>1, <1>2, <1>3 DEF ChecksCore, SettingsAreKept
<1>9. ChecksPermits'
  BY <1>1, <1>2, <1>3 DEF ChecksPermits, ForbiddenIsStopped, LabelForbids, UsedIsUsed, PruneSparesUsed
<1>10. QED
  BY <1>4, <1>5, <1>6, <1>7, <1>8, <1>9, InvFromParts DEF ChecksCore

\* The engine refuses to remove the image of the container.
LEMMA PruneRemovesPreserves ==
    ASSUME ChecksInv, NEW v \in Versions, PruneRemoves(v)
    PROVE  ChecksInv'
<1>1. /\ WorldIsTyped /\ RowsAreTyped /\ CachesAreTyped /\ WorkIsTyped /\ AsideIsTyped
      /\ RequestsAreTyped /\ ChecksTypeOK /\ ChecksCore /\ ChecksPermits
  BY InvInParts
<1>2. /\ prune' = prune \ {v} /\ images' \subseteq images /\ (img[live] \in images => img[live] \in images')
      /\ uses' = uses
      /\ UNCHANGED <<kind, label, host, versioned, named, own, platform, head, creds, live, img, ltag, seen, rec,
                     latest, announced, stray, stored, memory, token, pattern, wish, skipped, saving, check, upd,
                     link, acted, dockmon, requests>>
  BY DEF PruneRemoves, Removed, registry, image, records, caches, settings
<1>3. WorldIsTyped' /\ RowsAreTyped' /\ CachesAreTyped' /\ WorkIsTyped' /\ AsideIsTyped'
  BY <1>1, <1>2 DEF WorldIsTyped, RowsAreTyped, CachesAreTyped, WorkIsTyped, AsideIsTyped
<1>4. RequestsAreTyped'
  BY <1>1, <1>2, RequestsStayTyped
<1>5. ChecksCore'
  BY <1>1, <1>2, CoreIsFramed
<1>6. ChecksPermits'
  BY <1>1, <1>2 DEF ChecksPermits, ForbiddenIsStopped, LabelForbids, UsedIsUsed, PruneSparesUsed
<1>7. QED
  BY <1>3, <1>4, <1>5, <1>6, InvFromParts

\* The inductive invariant holds initially.
LEMMA ChecksInitEstablishes == ChecksInit => ChecksInv
<1> SUFFICES ASSUME ChecksInit
             PROVE  ChecksInv
  OBVIOUS
<1> USE DEF ChecksInit, First
<1>1. WorldIsTyped
  BY ChecksConstants DEF WorldIsTyped
<1>2. RowsAreTyped
  BY IdleIsTyped DEF RowsAreTyped
<1>3. CachesAreTyped
  BY DEF CachesAreTyped, None
<1>4. WorkIsTyped
  BY IdleIsTyped DEF WorkIsTyped
<1>5. AsideIsTyped
  <2>1. saving \in [id : ContainerIds \cup {0}, auto : BOOLEAN, mode : Tags] /\ skipped \in BOOLEAN
    BY DEF NoSave, Tags
  <2>2. /\ prune \subseteq Versions /\ pattern \in UpdatePolicy
        /\ link \in ActionToken /\ acted \in 0..2
    BY DEF UpdatePolicy, ActionToken, None
  <2>3. dockmon \in [newest : 1..2, known : 0..2, cached : 0..2, agent : 0..2]
    OBVIOUS
  <2>4. QED
    BY <2>1, <2>2, <2>3 DEF AsideIsTyped
<1>6. RequestsAreTyped
  BY ChecksConstants DEF RequestsAreTyped
<1>7. /\ ~NoRec.is /\ ~NoRec.avail /\ NoRec.lat = 0 /\ NoSave.id = 0
      /\ Idle.at = "idle" /\ NoUpdate.at = "idle" /\ NoUpdate.by # "forced"
  BY DEF NoRec, Idle, NoUpdate, None, NoSave
<1>8. OnlyUsedIsKept /\ UpdateHasRow /\ CheckedIsSeen /\ SettingsAreKept
  BY <1>7, ChecksConstants DEF OnlyUsedIsKept, UpdateHasRow, CheckedIsSeen, SettingsAreKept
<1>9. RowsAreTrue
  BY <1>7, ChecksConstants DEF RowsAreTrue
<1>10. ForbiddenIsStopped /\ UsedIsUsed /\ PruneSparesUsed
  BY <1>7, ChecksConstants DEF ForbiddenIsStopped, LabelForbids, UsedIsUsed, PruneSparesUsed, None
<1>11. ChecksTypeOK
  BY <1>1, <1>2, <1>3, <1>4, <1>5, <1>6, TypesInParts
<1>12. QED
  BY <1>8, <1>9, <1>10, <1>11 DEF ChecksInv

\* Nothing changes in a step of somebody else.
LEMMA ChecksStutter ==
    ASSUME ChecksInv, UNCHANGED checksVars
    PROVE  ChecksInv'
<1>1. UNCHANGED <<uses, kind, label, host, versioned, named, own, platform, head, creds, live, img, images,
                  ltag, seen, rec, latest, announced, stray, stored, memory, token, pattern, wish, skipped, saving,
                  check, upd, link, acted, prune, dockmon, requests>>
  BY DEF checksVars, registry, image, container, records, caches, settings, aside
<1>2. WorldIsTyped /\ CachesAreTyped /\ AsideIsTyped /\ UsedIsUsed
  BY InvInParts DEF ChecksPermits
<1>3. WorldIsTyped' /\ CachesAreTyped' /\ AsideIsTyped' /\ UsedIsUsed'
  BY <1>1, <1>2 DEF WorldIsTyped, CachesAreTyped, AsideIsTyped, UsedIsUsed
<1>4. QED
  BY <1>1, <1>3, QuietStep

\* Every step preserves the inductive invariant.
LEMMA ChecksNextPreserves ==
    ASSUME ChecksInv, [ChecksNext]_checksVars
    PROVE  ChecksInv'
<1>1. CASE \E t \in Tags : DeleteCacheEntry(t) \/ CacheExpires(t) \/ \E v \in Versions : Push(t, v)
  BY <1>1, DeleteCacheEntryPreserves, CacheExpiresPreserves, PushPreserves
<1>2. CASE \E c \in ContainerIds : Recreate(c)
  BY <1>2, RecreatePreserves
<1>3. CASE \E c \in ContainerIds :
             \E auto \in BOOLEAN, mode \in Tags : SetAutoUpdate(c, auto, mode) \/ SetAutoBegins(c, auto, mode)
  BY <1>3, SetAutoUpdatePreserves, SetAutoBeginsPreserves
<1>4. CASE \E c \in ContainerIds : \E policy \in Verdicts : SetPolicy(c, policy)
  BY <1>4, SetPolicyPreserves
<1>5. CASE \E c \in ContainerIds : \E forced \in BOOLEAN : UserUpdate(c, forced) \/ BatchUpdate(c, forced)
  BY <1>5, UserUpdatePreserves, BatchUpdatePreserves
<1>6. CASE DailyCheck \/ UserCheck
  BY <1>6, CheckBeginsPreserves DEF DailyCheck, UserCheck, Request, Checkers
<1>7. CASE \E p \in Checkers : CheckStep(p) \/ RegistryFails(p)
  BY <1>7, CachedDigestPreserves, RegistryAnswersPreserves, RegistryDeniesPreserves, CheckStoresPreserves,
     RegistryFailsPreserves DEF CheckStep
<1>8. CASE \/ \E on \in BOOLEAN : SaveCredentials(on)
           \/ \E action \in {None, "warn", "ignore"} : SetPattern(action)
  BY <1>8, SaveCredentialsPreserves, SetPatternPreserves
<1>9. CASE Sweep \/ TokenExpires \/ AutoUpdate \/ UpdateStep \/ UpdateFails \/ Restart
  BY <1>9, SweepPreserves, TokenExpiresPreserves, AutoUpdatePreserves, UpdateValidatedPreserves,
     UpdatePullsPreserves, UpdateMigratesPreserves, UpdateCreatesPreserves, UpdateFailsPreserves,
     RestartPreserves DEF UpdateStep
<1>10. CASE SendLink \/ LinkExpires \/ ConsumeLink \/ CleanupLinks
  BY <1>10, SendLinkPreserves, LinkExpiresPreserves, ConsumeLinkPreserves, CleanupLinksPreserves
<1>11. CASE PruneLists \/ \E v \in Versions : PruneRemoves(v)
  BY <1>11, PruneListsPreserves, PruneRemovesPreserves
<1>12. CASE Release \/ ReleasesExpire \/ \E ok \in BOOLEAN : CheckForUpdate(ok) \/ CheckForAgentUpdate(ok)
  BY <1>12, ReleasePreserves, ReleasesExpirePreserves, CheckForUpdatePreserves, CheckForAgentUpdatePreserves
<1>13. CASE UNCHANGED checksVars
  BY <1>13, ChecksStutter
<1>14. CASE SetAutoInserts \/ SetSkipCompose \/ \E c \in ContainerIds : OthersAreUpdated(c)
  BY <1>14, SetAutoInsertsPreserves, SetSkipComposePreserves, OthersAreUpdatedPreserves
<1>15. QED
  BY <1>1, <1>2, <1>3, <1>4, <1>5, <1>6, <1>7, <1>8, <1>9, <1>10, <1>11, <1>12, <1>13, <1>14 DEF ChecksNext

\* The inductive invariant holds in every state that is reached: rows tell
\* the truth about their container, the settings are in the row that comes
\* next, and no update of a forbidden container gets past its validation.
THEOREM ChecksInvariant == ChecksSpec => []ChecksInv
<1>1. ChecksInit => ChecksInv
  BY ChecksInitEstablishes
<1>2. ChecksInv /\ [ChecksNext]_checksVars => ChecksInv'
  BY ChecksNextPreserves
<1>3. QED
  BY <1>1, <1>2, PTL DEF ChecksSpec

\* For any number of ids, versions and requests: what check_container_update
\* and the daily check offer is another image than the one the container
\* runs, newer than it if versions can be read, and was announced by
\* UPDATE_AVAILABLE (or it, or a newer one, has been run before).
THEOREM OfferIsTrueHolds == ChecksSpec => []OfferIsTrue
<1>1. ChecksInv => OfferIsTrue
  <2> SUFFICES ASSUME ChecksInv
               PROVE  OfferIsTrue
    OBVIOUS
  <2>1. WorldIsTyped /\ RowsAreTyped /\ ChecksTypeOK /\ RowsAreTrue
    BY InvInParts DEF ChecksCore
  <2>2. \A c \in ContainerIds : UpdateStatus(c) # 0 => rec[c].avail /\ UpdateStatus(c) = rec[c].lat
    BY DEF UpdateStatus
  <2>3. OfferIsNewer
    BY <2>1, <2>2 DEF OfferIsNewer, RowsAreTrue
  <2>4. OfferIsAnnounced
    <3>1. \A c \in ContainerIds : rec[c].lat \in Nat /\ img[c] \in Nat
      BY <2>1, NumbersAreNatural
    <3>2. \A c \in ContainerIds : rec[c].avail => rec[c].lat > img[c] \/ img[c] >= rec[c].lat
      BY <3>1
    <3>3. QED
      BY <2>1, <2>2, <3>2 DEF OfferIsAnnounced, RowsAreTrue
  <2>5. QED
    BY <2>1, <2>3, <2>4 DEF OfferIsTrue
<1>2. QED
  BY <1>1, ChecksInvariant, PTL

\* For any number of ids and requests: reattach_update_settings_for_container
\* and update_container_records_after_update together bring the user's
\* settings to the row of the container, in whatever order they run.
THEOREM SettingsFollowHolds == ChecksSpec => []SettingsFollow
<1>1. ChecksInv => SettingsFollow
  BY DEF ChecksInv, SettingsAreKept, SettingsFollow
<1>2. QED
  BY <1>1, ChecksInvariant, PTL

\* For any number of ids, versions and requests: neither an update nor a
\* pruning goes beyond what was permitted.
THEOREM NothingForbiddenIsDoneHolds == ChecksSpec => []NothingForbiddenIsDone
<1>1. ChecksInv => NothingForbiddenIsDone
  BY DEF ChecksInv, ForbiddenIsStopped, UsedIsUsed, NothingForbiddenIsDone, LinkActsOnce
<1>2. QED
  BY <1>1, ChecksInvariant, PTL
==============================================================================
