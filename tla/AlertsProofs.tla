---------------------------- MODULE AlertsProofs -----------------------------
(***************************************************************************)
(* The safety invariants of Alerts, for every set of handlers and rules.   *)
(* The delayed alert and the delayed clear are current because the state   *)
(* change that is on its way always tells the truth about the container    *)
(* (EventIsCurrent): this is the strengthening that makes them inductive.  *)
(***************************************************************************)
EXTENDS Alerts, TLAPS

EventIsCurrent ==
    /\ event = "stopped" => down
    /\ event = "started" => ~down

Inv ==
    /\ TypeOK
    /\ EventIsCurrent
    /\ PendingFireIsCurrent
    /\ PendingClearIsCurrent

Coroutines == Handlers \cup Loops
PcType == [Coroutines -> {"idle", "verifying", "sending"}]

\* What a coroutine's own step may change, and keeps typed.
Typed ==
    /\ alert \in AlertType
    /\ retry \in RetryType
    /\ pc \in PcType

------------------------------------------------------------------------------
(* The row's life cycle keeps the row a row.                                *)

\* Reopening, creating, resolving and unflagging a row yields a row.
LEMMA RowLemma ==
    ASSUME NEW r \in AlertType
    PROVE  /\ Resolved(r) \in AlertType
           /\ Updated(r) \in AlertType
           /\ Triggered(r) \in AlertType
           /\ \A s : Unflagged(s, r) \in AlertType
           /\ [r EXCEPT !.notified = FALSE] \in AlertType
           /\ [r EXCEPT !.suppressed = TRUE] \in AlertType
  BY DEF AlertType, Resolved, Updated, Triggered, Unflagged, NoAlert

\* So does what _send_notification records.
LEMMA RecordedLemma ==
    ASSUME NEW r \in AlertType, NEW result
    PROVE  Recorded(r, result) \in AlertType
  BY DEF AlertType, Recorded

\* An attempt that failed leaves an entry within the bound, or none.
LEMMA NextRetryLemma ==
    ASSUME NEW n \in RetryType
    PROVE  NextRetry(n) \in RetryType
  BY AlertsAssumption DEF RetryType, NextRetry

------------------------------------------------------------------------------
(* The parts of the coroutines' steps                                       *)

\* What send_alert_v2 writes, and what its caller records, is typed.
LEMMA ReturnLemma ==
    ASSUME Typed, NEW s \in Coroutines, NEW r \in AlertType, NEW n \in RetryType,
           NEW result, Return(s, r, n, result)
    PROVE  Typed'
<1>1. pc' \in PcType
  BY DEF Return, Typed, PcType
<1>2. Recorded(r, result) \in AlertType
  BY RecordedLemma
<1>3. alert' \in AlertType
  BY <1>2, RowLemma DEF Return
<1>4. retry' \in RetryType
  <2>1. NextRetry(n) \in RetryType
    BY NextRetryLemma
  <2>2. None \in RetryType
    BY DEF RetryType
  <2>3. QED
    BY <2>1, <2>2 DEF Return
<1>5. QED
  BY <1>1, <1>3, <1>4 DEF Typed

\* A coroutine that ends with a row leaves everything typed.
LEMMA DoneLemma ==
    ASSUME Typed, NEW s \in Coroutines, NEW r \in AlertType, Done(s, r)
    PROVE  Typed'
  BY DEF Done, Typed, PcType

\* So does send_alert_v2 up to its first await.
LEMMA BeginSendLemma ==
    ASSUME Typed, NEW s \in Coroutines, NEW r \in AlertType, NEW notified,
           BeginSend(s, r, notified)
    PROVE  Typed'
<1>1. CASE \E result : Return(s, r, retry, result)
  BY <1>1, ReturnLemma DEF Typed
<1>2. CASE Return(s, [r EXCEPT !.suppressed = TRUE], retry, "failed")
  <2>1. [r EXCEPT !.suppressed = TRUE] \in AlertType
    BY RowLemma
  <2>2. QED
    BY <1>2, <2>1, ReturnLemma DEF Typed
<1>3. CASE pc' = [pc EXCEPT ![s] = "sending"] /\ alert' = r /\ UNCHANGED retry
  BY <1>3 DEF Typed, PcType
<1>4. QED
  BY <1>1, <1>2, <1>3 DEF BeginSend

\* So does _handle_alert_notification.
LEMMA HandleNotificationLemma ==
    ASSUME Typed, NEW s \in Coroutines, NEW r \in AlertType,
           HandleNotification(s, r)
    PROVE  Typed'
<1>1. CASE Done(s, r)
  BY <1>1, DoneLemma
<1>2. CASE Done(s, [r EXCEPT !.notified = FALSE])
  <2>1. [r EXCEPT !.notified = FALSE] \in AlertType
    BY RowLemma
  <2>2. QED
    BY <1>2, <2>1, DoneLemma
<1>3. CASE BeginSend(s, r, r.notified)
  BY <1>3, BeginSendLemma
<1>4. QED
  BY <1>1, <1>2, <1>3 DEF HandleNotification

\* Evaluating a stop keeps everything typed; it may make the alert pending only.
LEMMA EvaluateEventLemma ==
    ASSUME Typed, pendingFire \in BOOLEAN, NEW h \in Handlers, EvaluateEvent(h)
    PROVE  Typed' /\ pendingFire' \in BOOLEAN
<1>1. h \in Coroutines /\ alert \in AlertType /\ Triggered(alert) \in AlertType
  BY RowLemma DEF Typed, Coroutines
<1>2. CASE Done(h, alert)
  BY <1>1, <1>2, DoneLemma DEF EvaluateEvent
<1>3. CASE Done(h, Triggered(alert))
  BY <1>1, <1>3, DoneLemma DEF EvaluateEvent
<1>4. CASE HandleNotification(h, Triggered(alert))
  BY <1>1, <1>4, HandleNotificationLemma DEF EvaluateEvent
<1>5. QED
  BY <1>2, <1>3, <1>4 DEF EvaluateEvent

------------------------------------------------------------------------------
(* The steps                                                                *)

\* The typed part of the invariant.
LEMMA InvTyped ==
    ASSUME Inv
    PROVE  Typed
  BY DEF Inv, TypeOK, Typed, PcType, Coroutines

\* A step that leaves the world, the rule and the pending maps alone, and keeps
\* the rest typed, preserves the invariant.
LEMMA FrameLemma ==
    ASSUME Inv, Typed', view' \in [Verifiers -> ViewType],
           UNCHANGED <<envVars, ruleVars, pending>>
    PROVE  Inv'
<1>1. TypeOK'
  BY DEF Inv, TypeOK, Typed, PcType, Coroutines, envVars, ruleVars, pending
<1>2. EventIsCurrent'
  BY DEF Inv, EventIsCurrent, envVars
<1>3. PendingFireIsCurrent' /\ PendingClearIsCurrent'
  BY DEF Inv, PendingFireIsCurrent, PendingClearIsCurrent, ToldDown, envVars, pending
<1>4. QED
  BY <1>1, <1>2, <1>3 DEF Inv

\* A stop cancels the delayed clear; if it makes the alert pending, the container
\* is down (EventIsCurrent).
LEMMA StoppedLemma ==
    ASSUME Inv, NEW h \in Handlers, Stopped(h)
    PROVE  Inv'
<1>1. Typed' /\ pendingFire' \in BOOLEAN
  <2>1. pendingFire \in BOOLEAN /\ EvaluateEvent(h)
    BY DEF Inv, TypeOK, Stopped
  <2>2. QED
    BY <2>1, InvTyped, EvaluateEventLemma
<1>2. TypeOK'
  BY <1>1 DEF Inv, TypeOK, Typed, PcType, Coroutines, Stopped, CancelPendingClears, ruleVars
<1>3. EventIsCurrent'
  BY DEF Stopped, EventIsCurrent
<1>4. PendingFireIsCurrent'
  BY DEF Inv, Stopped, EventIsCurrent, PendingFireIsCurrent, ToldDown
<1>5. PendingClearIsCurrent'
  BY DEF Stopped, CancelPendingClears, PendingClearIsCurrent
<1>6. QED
  BY <1>2, <1>3, <1>4, <1>5 DEF Inv

\* A start drops the pending alert; if it delays the clear, the container runs.
LEMMA StartedLemma ==
    ASSUME Inv, Started
    PROVE  Inv'
<1>1. alert' \in AlertType /\ pendingClear' \in BOOLEAN
  <2>1. alert \in AlertType /\ pendingClear \in BOOLEAN
    BY DEF Inv, TypeOK
  <2>2. Resolved(alert) \in AlertType
    BY <2>1, RowLemma
  <2>3. QED
    BY <2>1, <2>2 DEF Started, AutoClear, AddPendingAlertClear
<1>2. TypeOK'
  BY <1>1 DEF Inv, TypeOK, Started, ClearPendingForScope, ruleVars
<1>3. EventIsCurrent'
  BY DEF Started, EventIsCurrent
<1>4. PendingFireIsCurrent'
  BY DEF Started, ClearPendingForScope, PendingFireIsCurrent
<1>5. PendingClearIsCurrent'
  BY DEF Inv, Started, EventIsCurrent, PendingClearIsCurrent, ToldDown
<1>6. QED
  BY <1>2, <1>3, <1>4, <1>5 DEF Inv

\* A send has ended, in whichever coroutine and however.
LEMMA SendLemma ==
    ASSUME Inv, NEW s \in Coroutines, Send(s)
    PROVE  Inv'
<1>1. view' \in [Verifiers -> ViewType] /\ UNCHANGED <<envVars, ruleVars, pending>>
  BY DEF Send, SendSucceeds, SendFails, Inv, TypeOK
<1>2. Typed'
  <2>1. 0 \in RetryType
    BY AlertsAssumption DEF RetryType
  <2>2. alert \in AlertType /\ retry \in RetryType
    BY DEF Inv, TypeOK
  <2>3. [alert EXCEPT !.notified = TRUE,
                      !.state = IF rule.autoResolve THEN "resolved" ELSE @]
            \in AlertType
    BY <2>2 DEF AlertType
  <2>4. CASE SendSucceeds(s)
    BY <2>2, <2>3, <2>4, InvTyped, ReturnLemma DEF SendSucceeds
  <2>5. CASE SendFails(s)
    BY <2>1, <2>2, <2>5, InvTyped, ReturnLemma DEF SendFails
  <2>6. QED
    BY <2>4, <2>5 DEF Send
<1>3. QED
  BY <1>1, <1>2, FrameLemma

\* The active delay of the pending alert is over.
LEMMA FirePendingLemma ==
    ASSUME Inv, FirePending
    PROVE  Inv'
<1>1. Typed'
  <2>1. "fire" \in Coroutines /\ alert \in AlertType /\ Triggered(alert) \in AlertType
    BY RowLemma DEF Inv, TypeOK, Coroutines, Loops
  <2>2. QED
    BY <2>1, InvTyped, DoneLemma, HandleNotificationLemma DEF FirePending
<1>2. TypeOK'
  BY <1>1 DEF Inv, TypeOK, Typed, PcType, Coroutines, FirePending, envVars, ruleVars
<1>3. EventIsCurrent' /\ PendingFireIsCurrent' /\ PendingClearIsCurrent'
  BY DEF Inv, FirePending, EventIsCurrent, PendingFireIsCurrent,
         PendingClearIsCurrent, ToldDown, envVars
<1>4. QED
  BY <1>2, <1>3 DEF Inv

\* The delay of the pending clear is over.
LEMMA ClearPendingLemma ==
    ASSUME Inv, ClearPending
    PROVE  Inv'
<1>1. alert' \in AlertType
  <2>1. alert \in AlertType /\ Resolved(alert) \in AlertType
    BY RowLemma DEF Inv, TypeOK
  <2>2. QED
    BY <2>1 DEF ClearPending
<1>2. TypeOK'
  BY <1>1 DEF Inv, TypeOK, ClearPending, envVars, ruleVars
<1>3. EventIsCurrent' /\ PendingFireIsCurrent' /\ PendingClearIsCurrent'
  BY DEF Inv, ClearPending, EventIsCurrent, PendingFireIsCurrent,
         PendingClearIsCurrent, ToldDown, envVars
<1>4. QED
  BY <1>2, <1>3 DEF Inv

\* A verifying loop takes the alert up, or just takes its flag off.
LEMMA LoadLemma ==
    ASSUME Inv, LoadPending \/ LoadSuppressed
    PROVE  Inv'
<1>1. /\ alert \in AlertType /\ down \in BOOLEAN
      /\ view \in [Verifiers -> ViewType]
      /\ "notify" \in Coroutines /\ "blackout" \in Coroutines
  BY DEF Inv, TypeOK, Coroutines, Loops
<1>2. UNCHANGED <<envVars, ruleVars, pending>>
  BY DEF LoadPending, LoadSuppressed
<1>3. ASSUME NEW s \in Coroutines, Load(s), UNCHANGED <<alert, retry>>
      PROVE  Inv'
  <2>1. [down |-> down, notified |-> alert.notified] \in ViewType
    BY <1>1 DEF AlertType, ViewType
  <2>2. view' \in [Verifiers -> ViewType]
    BY <1>1, <1>3, <2>1 DEF Load
  <2>3. Typed'
    BY <1>3, InvTyped DEF Load, Typed, PcType
  <2>4. QED
    BY <1>2, <2>2, <2>3, FrameLemma
<1>4. ASSUME Done("blackout", Unflagged("blackout", alert)), UNCHANGED view
      PROVE  Inv'
  <2>1. Unflagged("blackout", alert) \in AlertType
    BY <1>1, RowLemma
  <2>2. Typed'
    BY <1>1, <1>4, <2>1, InvTyped, DoneLemma
  <2>3. QED
    BY <1>1, <1>2, <1>4, <2>2, FrameLemma
<1>5. QED
  BY <1>1, <1>3, <1>4 DEF LoadPending, LoadSuppressed

\* A verification has come back.
LEMMA VerifiedLemma ==
    ASSUME Inv, NEW s \in Verifiers, ResolveSilently(s) \/ SendNotification(s)
    PROVE  Inv'
<1>1. alert \in AlertType /\ s \in Coroutines
  BY DEF Inv, TypeOK, Verifiers, Coroutines, Loops
<1>2. UNCHANGED <<envVars, ruleVars, pending>>
  BY DEF ResolveSilently, SendNotification
<1>3. view' \in [Verifiers -> ViewType]
  <2>1. NoView \in ViewType
    BY DEF NoView, ViewType
  <2>2. view \in [Verifiers -> ViewType] /\ view' = [view EXCEPT ![s] = NoView]
    BY DEF ResolveSilently, SendNotification, Inv, TypeOK
  <2>3. QED
    BY <2>1, <2>2
<1>4. CASE ResolveSilently(s)
  <2>1. Resolved(alert) \in AlertType
    BY <1>1, RowLemma
  <2>2. (IF alert.state = "open" THEN Resolved(alert) ELSE alert) \in AlertType
    BY <1>1, <2>1
  <2>3. Unflagged(s, IF alert.state = "open" THEN Resolved(alert) ELSE alert)
            \in AlertType
    BY <2>2, RowLemma
  <2>4. Typed'
    BY <1>1, <1>4, <2>3, InvTyped, DoneLemma DEF ResolveSilently
  <2>5. QED
    BY <1>2, <1>3, <2>4, FrameLemma
<1>5. CASE SendNotification(s)
  <2>1. [alert EXCEPT !.suppressed = TRUE] \in AlertType
    BY <1>1, RowLemma
  <2>2. Unflagged(s, [alert EXCEPT !.suppressed = TRUE]) \in AlertType
    BY <2>1, RowLemma
  <2>3. Typed'
    BY <1>1, <1>5, <2>2, InvTyped, DoneLemma, BeginSendLemma DEF SendNotification
  <2>4. QED
    BY <1>2, <1>3, <2>3, FrameLemma
<1>6. QED
  BY <1>4, <1>5

\* The retry queue and the recovery messages.
LEMMA QueueLemma ==
    ASSUME Inv, ProcessRetry \/ ResolveLoop
    PROVE  Inv'
<1>1. alert \in AlertType /\ "retry" \in Coroutines /\ "resolve" \in Coroutines
  BY DEF Inv, TypeOK, Coroutines, Loops
<1>2. /\ UNCHANGED <<envVars, ruleVars, pending>>
      /\ view' \in [Verifiers -> ViewType]
  BY DEF ProcessRetry, ResolveLoop, DispatchResolve, ResolveSent, Inv, TypeOK
<1>3. CASE ProcessRetry
  <2>1. Typed'
    BY <1>1, <1>3, InvTyped, BeginSendLemma DEF ProcessRetry
  <2>2. QED
    BY <1>2, <2>1, FrameLemma
<1>4. CASE ResolveLoop
  <2>1. Typed'
    BY <1>1, <1>4, InvTyped
       DEF ResolveLoop, DispatchResolve, ResolveSent, Typed, PcType, AlertType
  <2>2. QED
    BY <1>2, <2>1, FrameLemma
<1>5. QED
  BY <1>3, <1>4

\* Users, and the clock of the 24 hours, write the row; toggling the rule does not.
LEMMA UsersLemma ==
    ASSUME Inv, Users \/ DayPasses
    PROVE  Inv'
<1>1. CASE ToggleRule
  BY <1>1 DEF ToggleRule, Inv, TypeOK, EventIsCurrent, PendingFireIsCurrent,
              PendingClearIsCurrent, ToldDown, envVars, pending
<1>2. CASE ManualResolve \/ Snooze \/ Unsnooze \/ DayPasses
  <2>1. /\ UNCHANGED <<envVars, ruleVars, pending>>
        /\ view' \in [Verifiers -> ViewType]
    BY <1>2 DEF ManualResolve, Snooze, Unsnooze, DayPasses, Inv, TypeOK
  <2>2. Typed'
    BY <1>2, InvTyped
       DEF ManualResolve, Snooze, Unsnooze, DayPasses, Typed, PcType, AlertType
  <2>3. QED
    BY <2>1, <2>2, FrameLemma
<1>3. QED
  BY <1>1, <1>2 DEF Users

\* The container changes state: the new event tells so, and ToldDown stays.
LEMMA FlipLemma ==
    ASSUME Inv, Flip
    PROVE  Inv'
<1>1. down \in BOOLEAN /\ view \in [Verifiers -> ViewType]
  BY DEF Inv, TypeOK
<1>2. view' \in [Verifiers -> ViewType]
  BY <1>1 DEF Flip, ViewType
<1>3. TypeOK'
  BY <1>1, <1>2 DEF Flip, Inv, TypeOK, ruleVars, pending
<1>4. EventIsCurrent'
  BY <1>1 DEF Flip, EventIsCurrent
<1>5. ToldDown' = ToldDown
  BY <1>1 DEF Flip, ToldDown
<1>6. PendingFireIsCurrent' /\ PendingClearIsCurrent'
  BY <1>5 DEF Flip, Inv, PendingFireIsCurrent, PendingClearIsCurrent, pending
<1>7. QED
  BY <1>3, <1>4, <1>6 DEF Inv

\* Blackout windows begin and end.
LEMMA BlackoutLemma ==
    ASSUME Inv, BlackoutBegins \/ BlackoutEnds
    PROVE  Inv'
<1>1. TypeOK'
  <2>1. blackout' \in BOOLEAN
    BY DEF BlackoutBegins, BlackoutEnds
  <2>2. blackouts \in 0..MaxBlackouts /\ MaxBlackouts \in Nat
    BY AlertsAssumption DEF Inv, TypeOK
  <2>3. blackouts' \in 0..MaxBlackouts
    <3>1. CASE BlackoutBegins
      BY <2>2, <3>1 DEF BlackoutBegins
    <3>2. CASE BlackoutEnds
      BY <2>2, <3>2 DEF BlackoutEnds
    <3>3. QED
      BY <3>1, <3>2
  <2>4. UNCHANGED <<down, event, ruleVars, alert, pending, retry, pc, view>>
    BY DEF BlackoutBegins, BlackoutEnds
  <2>5. QED
    BY <2>1, <2>3, <2>4 DEF Inv, TypeOK, ruleVars, pending
<1>2. EventIsCurrent' /\ PendingFireIsCurrent' /\ PendingClearIsCurrent'
  BY DEF BlackoutBegins, BlackoutEnds, Inv, EventIsCurrent, PendingFireIsCurrent,
         PendingClearIsCurrent, ToldDown, pending
<1>3. QED
  BY <1>1, <1>2 DEF Inv

------------------------------------------------------------------------------
(* The theorems                                                             *)

\* The invariant holds at first,
LEMMA InitInv == Init => Inv
<1> SUFFICES ASSUME Init PROVE Inv
  OBVIOUS
<1>1. alert \in AlertType /\ NoView \in ViewType /\ retry \in RetryType
  BY DEF Init, AlertType, NoAlert, ViewType, NoView, RetryType
<1>2. rule \in RuleType /\ blackouts \in 0..MaxBlackouts
  BY AlertsAssumption DEF Init
<1>3. view \in [Verifiers -> ViewType]
  BY <1>1 DEF Init
<1>4. TypeOK
  BY <1>1, <1>2, <1>3 DEF Init, TypeOK
<1>5. EventIsCurrent /\ PendingFireIsCurrent /\ PendingClearIsCurrent
  BY DEF Init, EventIsCurrent, PendingFireIsCurrent, PendingClearIsCurrent
<1>6. QED
  BY <1>4, <1>5 DEF Inv

\* every step preserves it,
LEMMA NextInv == Inv /\ [Next]_vars => Inv'
<1> SUFFICES ASSUME Inv, [Next]_vars PROVE Inv'
  OBVIOUS
<1>1. \A s \in Coroutines : Send(s) => Inv'
  BY SendLemma
<1>2. {"fire", "notify", "blackout", "retry"} \cup Handlers \subseteq Coroutines
  BY DEF Coroutines, Loops
<1>3. CASE \E h \in Handlers : Handler(h)
  BY <1>1, <1>2, <1>3, StoppedLemma DEF Handler
<1>4. CASE Started
  BY <1>4, StartedLemma
<1>5. CASE FireLoop
  BY <1>1, <1>2, <1>5, FirePendingLemma, ClearPendingLemma DEF FireLoop
<1>6. CASE NotifyLoop
  BY <1>1, <1>2, <1>6, LoadLemma, VerifiedLemma DEF NotifyLoop, Verifiers
<1>7. CASE BlackoutLoop
  BY <1>1, <1>2, <1>7, LoadLemma, VerifiedLemma DEF BlackoutLoop, Verifiers
<1>8. CASE RetryLoop
  BY <1>1, <1>2, <1>8, QueueLemma DEF RetryLoop
<1>9. CASE ResolveLoop
  BY <1>9, QueueLemma
<1>10. CASE Users \/ DayPasses
  BY <1>10, UsersLemma
<1>11. CASE Flip
  BY <1>11, FlipLemma
<1>12. CASE BlackoutBegins \/ BlackoutEnds
  BY <1>12, BlackoutLemma
<1>13. CASE UNCHANGED vars
  BY <1>13, InvTyped, FrameLemma
     DEF vars, Inv, TypeOK, Typed, PcType, envVars, ruleVars, pending
<1>14. QED
  BY <1>3, <1>4, <1>5, <1>6, <1>7, <1>8, <1>9, <1>10, <1>11, <1>12, <1>13 DEF Next

\* and so it always holds.
LEMMA SpecInv == Spec => []Inv
  BY InitInv, NextInv, PTL DEF Spec

\* Every write of the engine, the loops, the retry queue and the users leaves
\* the alert's row, its retry entry and the coroutines well typed.
THEOREM AlertsTypeOK == Spec => []TypeOK
<1>1. Inv => TypeOK
  BY DEF Inv
<1>2. QED
  BY SpecInv, <1>1, PTL

\* A delayed alert is never left pending for a container that was reported
\* running again (clear_pending_for_scope).
THEOREM DelayedAlertIsCurrent == Spec => []PendingFireIsCurrent
<1>1. Inv => PendingFireIsCurrent
  BY DEF Inv
<1>2. QED
  BY SpecInv, <1>1, PTL

\* A delayed clear is never left pending for a container that was reported
\* stopped again (cancel_pending_clears_for_scope).
THEOREM DelayedClearIsCurrent == Spec => []PendingClearIsCurrent
<1>1. Inv => PendingClearIsCurrent
  BY DEF Inv
<1>2. QED
  BY SpecInv, <1>1, PTL

\* Neither a delayed alert nor a delayed clear outlives its condition.
THEOREM PendingIsCurrentHolds == Spec => []PendingIsCurrent
<1>1. PendingFireIsCurrent /\ PendingClearIsCurrent => PendingIsCurrent
  BY DEF PendingIsCurrent
<1>2. QED
  BY <1>1, DelayedAlertIsCurrent, DelayedClearIsCurrent, PTL
==============================================================================
