----------------------- MODULE UpdateCoordinatorProofs -----------------------
(***************************************************************************)
(* The safety of UpdateCoordinator for any number of concurrent calls and  *)
(* of successive ids.  Neither SuccessIsReal nor RegistryEntryIsOwn is     *)
(* inductive: what a call reports was read from its PendingUpdate, which   *)
(* any job on the same container may have signalled, and that a job's      *)
(* entry is the right one rests on updating_containers being exact.        *)
(***************************************************************************)
EXTENDS UpdateCoordinator, TLAPS

\* A job replaced container i by container n.
Replaced(i, n) ==
    \E q \in Requests : job[q] = "succeeded" /\ target[q] = i /\ created[q] = n

\* A call that has not been dispatched has left no trace, and one that has been
\* made has a target.
CallsInOrder ==
    \A r \in Requests :
        /\ upc[r] = "idle" => signal[r] = None /\ result[r] = "none"
        /\ upc[r] # "idle" => target[r] \in Ids
        /\ upc[r] \in {"idle", "starting"} => job[r] = "none"

\* An update_complete message comes from a job that created a container, and
\* a PendingUpdate is signalled with the replacement of its own container.
SignalsAreReal ==
    /\ \A r \in Requests : event[r] = "queued" => job[r] = "succeeded"
    /\ \A r \in Requests : job[r] = "succeeded" => created[r] \in Ids
    /\ \A r \in Requests : signal[r] # None => Replaced(target[r], signal[r])

\* SuccessIsReal, said with Replaced.
SuccessReplaced ==
    \A r \in Requests : result[r] = "success" => Replaced(target[r], newId[r])

\* The inductive invariant.
CoordinatorInv ==
    /\ TypeOK
    /\ OneCallPerContainer
    /\ RegistryEntryIsOwn
    /\ CallsInOrder
    /\ SignalsAreReal
    /\ SuccessReplaced

USE CoordinatorAssumption DEF Ids, Active

------------------------------------------------------------------------------
\* Nothing is being updated initially.
LEMMA InitCoordinatorInv == Init => CoordinatorInv
  BY DEF Init, CoordinatorInv, TypeOK, OneCallPerContainer, RegistryEntryIsOwn,
         CallsInOrder, SignalsAreReal, SuccessReplaced

\* No step of the system undoes a replacement: a job that succeeded stays so
\* and its call keeps its target.
LEMMA ReplacedStable ==
  ASSUME CoordinatorInv, Next
  PROVE  \A i, n : Replaced(i, n) =>
            \E q \in Requests :
               job'[q] = "succeeded" /\ target'[q] = i /\ created'[q] = n
<1> SUFFICES ASSUME NEW i, NEW n, Replaced(i, n)
             PROVE  \E q \in Requests :
               job'[q] = "succeeded" /\ target'[q] = i /\ created'[q] = n
  OBVIOUS
<1>1. PICK q \in Requests : job[q] = "succeeded" /\ target[q] = i /\ created[q] = n
  BY DEF Replaced
<1>2. job'[q] = "succeeded" /\ target'[q] = i /\ created'[q] = n
  BY <1>1 DEF Next, Call, CoordinatorInv, CallsInOrder, TypeOK,
      Request, Refuse, Dispatch, Acknowledge, CommandFails, Completed,
      WaitTimesOut, StreamCompletes, StreamBreaks, Finish, Deliver, LoseEvent,
      JobStarts, JobSucceeds, JobFails, callVars, jobVars
<1>. QED  BY <1>2

\* Every step is type-correct.
LEMMA TypeStep ==
  ASSUME CoordinatorInv, Next
  PROVE  TypeOK'
<1> USE DEF CoordinatorInv, TypeOK, callVars, jobVars
<1>1. PICK r \in Requests :
        \/ Call(r)
        \/ \E i \in Ids : Request(r, i)
        \/ Deliver(r) \/ LoseEvent(r)
        \/ JobStarts(r) \/ JobSucceeds(r) \/ JobFails(r)
  BY DEF Next
<1>2. ASSUME NEW i \in Ids, Request(r, i)
      PROVE  TypeOK'
  <2>1. upc' \in [Requests -> Active \cup {"idle", "done"}]
    BY <1>2 DEF Request
  <2>2. /\ target' \in [Requests -> Ids \cup {None}]
        /\ updating' \in SUBSET Ids
        /\ result' \in [Requests -> {"none", "success", "failed", "busy"}]
    BY <1>2 DEF Request
  <2>. QED  BY <1>2, <2>1, <2>2 DEF Request
<1>3. CASE Refuse(r) \/ CommandFails(r) \/ WaitTimesOut(r) \/ StreamBreaks(r)
  BY <1>3 DEF Refuse, CommandFails, WaitTimesOut, StreamBreaks, Conclude, Unregister
<1>4. CASE Dispatch(r)
  BY <1>4 DEF Dispatch
<1>5. CASE Acknowledge(r)
  BY <1>5 DEF Acknowledge
<1>6. CASE Completed(r)
  <2>1. dbKey' \in Ids
    BY <1>6 DEF Completed, Migrate
  <2>2. pending' \in [Ids -> Requests \cup {None}]
    BY <1>6 DEF Completed, Unregister
  <2>. QED  BY <1>6, <2>1, <2>2 DEF Completed, Conclude
<1>7. CASE StreamCompletes(r)
  <2>1. \E res \in {"success", "failed"}, new \in Ids \cup {None} : Conclude(r, res, new)
    BY <1>7 DEF StreamCompletes
  <2>2. UNCHANGED <<via, target, updating, pending, signal, jobVars, dbKey>>
    BY <1>7 DEF StreamCompletes
  <2>. QED  BY <2>1, <2>2 DEF Conclude
<1>8. CASE Finish(r)
  BY <1>8 DEF Finish, Release, Migrate
<1>9. CASE Deliver(r) \/ LoseEvent(r)
  <2>1. event' \in [Requests -> {"none", "queued", "gone"}]
    BY <1>9 DEF Deliver, LoseEvent
  <2>2. signal' \in [Requests -> Ids \cup {None}]
    BY <1>9 DEF Deliver, LoseEvent
  <2>. QED  BY <1>9, <2>1, <2>2 DEF Deliver, LoseEvent
<1>10. CASE JobStarts(r) \/ JobFails(r)
  BY <1>10 DEF JobStarts, JobFails
<1>11. CASE JobSucceeds(r)
  <2>1. event' \in [Requests -> {"none", "queued", "gone"}]
    BY <1>11 DEF JobSucceeds
  <2>. QED  BY <1>11, <2>1 DEF JobSucceeds
<1>. QED
  BY <1>11, <1>1, <1>2, <1>3, <1>4, <1>5, <1>6, <1>7, <1>8, <1>9, <1>10 DEF Call

\* The marks, the registry and the order of a call's steps are preserved: they
\* depend on the calls, not on what the jobs do.
LEMMA CallsStep ==
  ASSUME CoordinatorInv, Next
  PROVE  (OneCallPerContainer /\ RegistryEntryIsOwn /\ CallsInOrder)'
<1> USE DEF CoordinatorInv, TypeOK, OneCallPerContainer, RegistryEntryIsOwn,
            CallsInOrder, callVars, jobVars
<1>1. PICK r \in Requests :
        \/ Call(r)
        \/ \E i \in Ids : Request(r, i)
        \/ Deliver(r) \/ LoseEvent(r)
        \/ JobStarts(r) \/ JobSucceeds(r) \/ JobFails(r)
  BY DEF Next
<1>2. ASSUME NEW i \in Ids, Request(r, i)
      PROVE  (OneCallPerContainer /\ RegistryEntryIsOwn /\ CallsInOrder)'
  <2>1. CASE AlreadyUpdating(i)
    <3>1. /\ upc[r] = "idle" /\ target' = [target EXCEPT ![r] = i]
          /\ upc' = [upc EXCEPT ![r] = "done"]
          /\ result' = [result EXCEPT ![r] = "busy"]
          /\ UNCHANGED <<updating, pending, signal, job>>
      BY <1>2, <2>1 DEF Request
    <3>2. OneCallPerContainer'
      BY <3>1
    <3>3. RegistryEntryIsOwn'
      BY <3>1
    <3>. QED  BY <3>1, <3>2, <3>3
  <2>2. CASE ~AlreadyUpdating(i)
    <3>1. /\ upc[r] = "idle" /\ target' = [target EXCEPT ![r] = i]
          /\ upc' = [upc EXCEPT ![r] = "starting"]
          /\ updating' = updating \cup {i} /\ i \notin updating
          /\ UNCHANGED <<result, pending, signal, job>>
      BY <1>2, <2>2 DEF Request, AlreadyUpdating
    <3>2. OneCallPerContainer'
      BY <3>1
    <3>3. RegistryEntryIsOwn'
      BY <3>1
    <3>. QED  BY <3>1, <3>2, <3>3
  <2>. QED  BY <2>1, <2>2
<1>3. CASE Refuse(r) \/ StreamBreaks(r) \/ StreamCompletes(r)
  <2>1. /\ upc[r] \in {"starting", "streaming"}
        /\ upc' = [upc EXCEPT ![r] = "emitting"]
        /\ UNCHANGED <<target, updating, pending, signal, job>>
        /\ \A q \in Requests : q # r => result'[q] = result[q]
    BY <1>3 DEF Refuse, StreamBreaks, StreamCompletes, Conclude
  <2>2. OneCallPerContainer'
    BY <2>1
  <2>3. RegistryEntryIsOwn'
    BY <2>1
  <2>. QED  BY <2>1, <2>2, <2>3
<1>4. CASE CommandFails(r) \/ WaitTimesOut(r) \/ Completed(r)
  <2>1. /\ upc[r] \in {"commanding", "waiting"}
        /\ upc' = [upc EXCEPT ![r] = "emitting"]
        /\ pending' = [pending EXCEPT ![target[r]] = None]
        /\ UNCHANGED <<target, updating, signal, job>>
        /\ \A q \in Requests : q # r => result'[q] = result[q]
    BY <1>4 DEF CommandFails, WaitTimesOut, Completed, Conclude, Unregister
  <2>2. OneCallPerContainer'
    BY <2>1
  <2>3. RegistryEntryIsOwn'
    BY <2>1
  <2>. QED  BY <2>1, <2>2, <2>3
<1>5. CASE Dispatch(r)
  <2>1. /\ upc[r] = "starting"
        /\ UNCHANGED <<target, updating, signal, result>>
        /\ \A q \in Requests : q # r => job'[q] = job[q]
        /\ \/ /\ pending' = [pending EXCEPT ![target[r]] = r]
              /\ upc' = [upc EXCEPT ![r] = "commanding"]
           \/ /\ pending' = pending
              /\ upc' = [upc EXCEPT ![r] = "streaming"]
    BY <1>5 DEF Dispatch
  <2>2. OneCallPerContainer'
    BY <2>1
  <2>3. RegistryEntryIsOwn'
    <3>1. \A q \in Requests : q # r /\ upc[q] \in Active => target[q] # target[r]
      BY <2>1
    <3>2. \A i \in Ids : pending[i] # r
      BY <2>1
    <3>3. CASE pending' = pending
      BY <2>1, <3>2, <3>3
    <3>4. CASE pending' = [pending EXCEPT ![target[r]] = r]
                 /\ upc' = [upc EXCEPT ![r] = "commanding"]
      <4>1. \A q \in Requests : upc'[q] \in {"commanding", "waiting"}
               => pending'[target'[q]] = q
        BY <2>1, <3>1, <3>4
      <4>2. \A i \in Ids : pending'[i] # None =>
               upc'[pending'[i]] \in {"commanding", "waiting"}
               /\ target'[pending'[i]] = i
        BY <2>1, <3>2, <3>4
      <4>. QED  BY <4>1, <4>2
    <3>. QED  BY <2>1, <3>3, <3>4
  <2>. QED  BY <2>1, <2>2, <2>3
<1>6. CASE Acknowledge(r)
  BY <1>6 DEF Acknowledge
<1>8. CASE Finish(r)
  BY <1>8 DEF Finish, Release
<1>9. CASE Deliver(r) \/ LoseEvent(r)
  BY <1>9 DEF Deliver, LoseEvent, SignalledBy, SignalsAreReal
<1>10. CASE JobStarts(r) \/ JobSucceeds(r) \/ JobFails(r)
  BY <1>10 DEF JobStarts, JobSucceeds, JobFails
<1>. QED
  BY <1>1, <1>2, <1>3, <1>4, <1>5, <1>6, <1>8, <1>9, <1>10 DEF Call

\* A signal is the replacement of the container its call is about: the handler
\* of update_complete finds the entry under the id of the replaced container,
\* and that entry belongs to a call on the same container.
LEMMA SignalsStep ==
  ASSUME CoordinatorInv, Next
  PROVE  SignalsAreReal'
<1>0. \A i, n : Replaced(i, n) =>
         \E q \in Requests :
            job'[q] = "succeeded" /\ target'[q] = i /\ created'[q] = n
  BY ReplacedStable
<1> USE DEF CoordinatorInv, TypeOK, CallsInOrder, callVars, jobVars
<1>1. PICK r \in Requests :
        \/ Call(r)
        \/ \E i \in Ids : Request(r, i)
        \/ Deliver(r) \/ LoseEvent(r)
        \/ JobStarts(r) \/ JobSucceeds(r) \/ JobFails(r)
  BY DEF Next
<1>2. \A q \in Requests : event'[q] = "queued" => job'[q] = "succeeded"
  BY <1>1 DEF SignalsAreReal, Call, Request, Refuse, Dispatch, Acknowledge,
      CommandFails, Completed, WaitTimesOut, StreamCompletes, StreamBreaks,
      Finish, Deliver, LoseEvent, JobStarts, JobSucceeds, JobFails
<1>3. \A q \in Requests : job'[q] = "succeeded" => created'[q] \in Ids
  BY <1>1 DEF SignalsAreReal, Call, Request, Refuse, Dispatch, Acknowledge,
      CommandFails, Completed, WaitTimesOut, StreamCompletes, StreamBreaks,
      Finish, Deliver, LoseEvent, JobStarts, JobSucceeds, JobFails
<1>4. ASSUME NEW q \in Requests, signal'[q] # None
      PROVE  Replaced(target[q], signal'[q]) /\ target'[q] = target[q]
  <2>1. CASE ~Deliver(r)
    <3>1. signal' = signal
      BY <1>1, <2>1 DEF Call, Request, Refuse, Dispatch, Acknowledge,
        CommandFails, Completed, WaitTimesOut, StreamCompletes, StreamBreaks,
        Finish, LoseEvent, JobStarts, JobSucceeds, JobFails
    <3>2. upc[q] # "idle" /\ Replaced(target[q], signal[q])
      BY <1>4, <3>1 DEF SignalsAreReal
    <3>3. target'[q] = target[q]
      BY <1>1, <2>1, <3>2 DEF Call, Request, Refuse, Dispatch, Acknowledge,
        CommandFails, Completed, WaitTimesOut, StreamCompletes, StreamBreaks,
        Finish, LoseEvent, JobStarts, JobSucceeds, JobFails
    <3>. QED  BY <3>1, <3>2, <3>3
  <2>2. CASE Deliver(r)
    <3>1. target' = target /\ job[r] = "succeeded" /\ target[r] \in Ids
      BY <2>2 DEF Deliver, SignalsAreReal
    <3>2. CASE pending[target[r]] = q
      <4>1. target[q] = target[r] /\ signal'[q] = created[r]
        BY <2>2, <3>1, <3>2 DEF Deliver, SignalledBy, RegistryEntryIsOwn
      <4>. QED  BY <3>1, <4>1 DEF Replaced
    <3>3. CASE pending[target[r]] # q
      <4>1. signal'[q] = signal[q]
        BY <2>2, <3>1, <3>3 DEF Deliver, SignalledBy
      <4>. QED  BY <1>4, <3>1, <4>1 DEF SignalsAreReal
    <3>. QED  BY <3>2, <3>3
  <2>. QED  BY <2>1, <2>2
<1>5. ASSUME NEW q \in Requests, signal'[q] # None
      PROVE  \E p \in Requests : /\ job'[p] = "succeeded"
                                 /\ target'[p] = target'[q]
                                 /\ created'[p] = signal'[q]
  <2>1. Replaced(target[q], signal'[q]) /\ target'[q] = target[q]
    BY <1>4, <1>5
  <2>2. \E p \in Requests : /\ job'[p] = "succeeded"
                            /\ target'[p] = target[q] /\ created'[p] = signal'[q]
    BY <1>0, <2>1
  <2>. QED  BY <2>1, <2>2
<1>. QED  BY <1>2, <1>3, <1>5 DEF SignalsAreReal, Replaced

\* A call reports success with the id it was signalled or that its stream
\* delivered, so a reported replacement took place.
LEMMA SuccessStep ==
  ASSUME CoordinatorInv, Next
  PROVE  SuccessReplaced'
<1>0. \A i, n : Replaced(i, n) =>
         \E q \in Requests :
            job'[q] = "succeeded" /\ target'[q] = i /\ created'[q] = n
  BY ReplacedStable
<1> USE DEF CoordinatorInv, TypeOK, CallsInOrder, callVars, jobVars
<1>1. PICK r \in Requests :
        \/ Call(r)
        \/ \E i \in Ids : Request(r, i)
        \/ Deliver(r) \/ LoseEvent(r)
        \/ JobStarts(r) \/ JobSucceeds(r) \/ JobFails(r)
  BY DEF Next
<1>2. ASSUME NEW q \in Requests, result'[q] = "success"
      PROVE  Replaced(target[q], newId'[q]) /\ target'[q] = target[q]
  <2>1. CASE result[q] = "success" /\ newId'[q] = newId[q]
    <3>1. target'[q] = target[q]
      BY <1>1, <2>1 DEF Call, Request, Refuse, Dispatch, Acknowledge,
        CommandFails, Completed, WaitTimesOut, StreamCompletes, StreamBreaks,
        Finish, Deliver, LoseEvent, JobStarts, JobSucceeds, JobFails
    <3>. QED  BY <2>1, <3>1 DEF SuccessReplaced
  <2>2. CASE q = r /\ Completed(r)
    BY <2>2 DEF Completed, Conclude, SignalsAreReal
  <2>3. CASE q = r /\ StreamCompletes(r)
    <3>1. job[r] = "succeeded" /\ newId'[r] = created[r] /\ target' = target
      BY <1>2, <2>3 DEF StreamCompletes, Conclude
    <3>. QED  BY <2>3, <3>1 DEF Replaced
  <2>4. \/ result[q] = "success" /\ newId'[q] = newId[q]
        \/ q = r /\ Completed(r)
        \/ q = r /\ StreamCompletes(r)
    BY <1>1, <1>2 DEF Call, Request, Refuse, Dispatch, Acknowledge,
        CommandFails, Completed, WaitTimesOut, StreamCompletes, StreamBreaks,
        Finish, Deliver, LoseEvent, JobStarts, JobSucceeds, JobFails, Conclude
  <2>. QED  BY <2>1, <2>2, <2>3, <2>4
<1>3. ASSUME NEW q \in Requests, result'[q] = "success"
      PROVE  \E p \in Requests : /\ job'[p] = "succeeded"
                                 /\ target'[p] = target'[q]
                                 /\ created'[p] = newId'[q]
  BY <1>0, <1>2, <1>3
<1>. QED  BY <1>3 DEF SuccessReplaced, Replaced

\* The invariant is inductive.
LEMMA NextCoordinatorInv == CoordinatorInv /\ [Next]_vars => CoordinatorInv'
<1>1. CASE CoordinatorInv /\ Next
  BY <1>1, TypeStep, CallsStep, SignalsStep, SuccessStep DEF CoordinatorInv
<1>2. CASE CoordinatorInv /\ UNCHANGED vars
  BY <1>2 DEF vars, CoordinatorInv, TypeOK, OneCallPerContainer,
      RegistryEntryIsOwn, CallsInOrder, SignalsAreReal, SuccessReplaced, Replaced
<1>. QED  BY <1>1, <1>2

LEMMA CoordinatorInvariant == Spec => []CoordinatorInv
  BY InitCoordinatorInv, NextCoordinatorInv, PTL DEF Spec

------------------------------------------------------------------------------
\* Type correctness of the coordinator.
THEOREM CoordinatorTypeCorrect == Spec => []TypeOK
<1>1. CoordinatorInv => TypeOK
  BY DEF CoordinatorInv
<1>. QED  BY <1>1, CoordinatorInvariant, PTL

\* updating_containers admits one call per container at a time and is freed by
\* every way out of update_container.
THEOREM OneCallPerContainerHolds == Spec => []OneCallPerContainer
<1>1. CoordinatorInv => OneCallPerContainer
  BY DEF CoordinatorInv
<1>. QED  BY <1>1, CoordinatorInvariant, PTL

\* No call overwrites or removes the registry entry of another.
THEOREM RegistryEntryIsOwnHolds == Spec => []RegistryEntryIsOwn
<1>1. CoordinatorInv => RegistryEntryIsOwn
  BY DEF CoordinatorInv
<1>. QED  BY <1>1, CoordinatorInvariant, PTL

\* A reported success names a replacement of that container that took place.
THEOREM SuccessIsRealHolds == Spec => []SuccessIsReal
<1>1. CoordinatorInv => SuccessIsReal
  BY DEF CoordinatorInv, SuccessReplaced, Replaced, SuccessIsReal
<1>. QED  BY <1>1, CoordinatorInvariant, PTL

\* The database records move only along a replacement that took place.
THEOREM RecordsFollowContainerHolds == Spec => RecordsFollowContainer
<1>1. ASSUME CoordinatorInv, [Next]_vars, dbKey' # dbKey
      PROVE  Replaced(dbKey, dbKey')
  <2>1. PICK r \in Requests :
           (Completed(r) /\ Migrate(target[r], signal[r]))
           \/ (Finish(r) /\ result[r] = "success" /\ Migrate(target[r], newId[r]))
    BY <1>1 DEF Next, Call, vars, Request, Refuse, Dispatch, Acknowledge,
        CommandFails, Completed, WaitTimesOut, StreamCompletes, StreamBreaks,
        Finish, Deliver, LoseEvent, JobStarts, JobSucceeds, JobFails
  <2>2. CASE Completed(r) /\ Migrate(target[r], signal[r])
    BY <1>1, <2>2 DEF Completed, Migrate, CoordinatorInv, SignalsAreReal
  <2>3. CASE Finish(r) /\ result[r] = "success" /\ Migrate(target[r], newId[r])
    BY <1>1, <2>3 DEF Migrate, CoordinatorInv, SuccessReplaced
  <2>. QED  BY <2>1, <2>2, <2>3
<1>2. CoordinatorInv /\ [Next]_vars =>
        [dbKey' # dbKey =>
           \E q \in Requests : /\ job[q] = "succeeded"
                               /\ target[q] = dbKey /\ created[q] = dbKey']_vars
  BY <1>1 DEF Replaced
<1>. QED  BY <1>2, CoordinatorInvariant, PTL DEF Spec, RecordsFollowContainer

\* Marking and registry are exact for any number of concurrent calls.
THEOREM CallsOwnTheirContainerHolds == Spec => []CallsOwnTheirContainer
<1>1. OneCallPerContainer /\ RegistryEntryIsOwn => CallsOwnTheirContainer
  BY DEF CallsOwnTheirContainer
<1>. QED  BY <1>1, OneCallPerContainerHolds, RegistryEntryIsOwnHolds, PTL

\* A reported success and a migrated record stand for a replacement that took
\* place.
THEOREM ResultsAreRealHolds == Spec => ResultsAreReal
  BY SuccessIsRealHolds, RecordsFollowContainerHolds, PTL DEF ResultsAreReal
==============================================================================
