------------------------------- MODULE Alerts --------------------------------
(***************************************************************************)
(* One alert of the alert system: an event rule of kind container_stopped  *)
(* and one container, hence one dedup_key and one row of alerts_v2.  The   *)
(* engine (alerts/engine.py), the background loops of the evaluation       *)
(* service, the notification service with its retry queue, and the users   *)
(* who snooze and resolve all write that row.                              *)
(*                                                                         *)
(* Everything runs on one event loop with synchronous database sessions: a *)
(* step is the code between two awaits that really suspend, which are the  *)
(* sends to the channels and the container query of a verification.        *)
(* Durations are abstract: a delay, cooldown or backoff may be over at any *)
(* later moment.                                                           *)
(***************************************************************************)
EXTENDS Naturals

CONSTANTS
    Handlers,      \* concurrent handle_container_event coroutines
    Rules,         \* the rules to consider
    MaxRetries,    \* max_retries of the retry queue
    MaxBlackouts,  \* bound: number of blackout windows that begin
    None           \* Python's None

RuleType == [activeDelay : BOOLEAN,      \* alert_active_delay_seconds > 0
             clearDelay : BOOLEAN,       \* alert_clear_delay_seconds > 0
             notifyDelay : BOOLEAN,      \* notification_active_delay_seconds > 0
             channels : BOOLEAN,         \* notify_channels_json is not empty
             autoResolve : BOOLEAN,
             autoResolveOnClear : BOOLEAN,
             notifyOnResolve : BOOLEAN]

Loops == {"fire", "notify", "blackout", "retry", "resolve"}

ASSUME AlertsAssumption ==
    /\ Rules \subseteq RuleType
    /\ Handlers \cap Loops = {}
    /\ MaxRetries \in Nat \ {0} /\ MaxBlackouts \in Nat
    /\ None \notin Nat

VARIABLES
    down,          \* the container is stopped
    event,         \* the state change that is on its way to the engine
    rule,          \* the rule
    enabled,       \* rule.enabled
    alert,         \* the row of alerts_v2
    pendingFire,   \* the key is in _pending_event_alerts
    pendingClear,  \* the alert is in _pending_alert_clears
    retry,         \* attempt_count of the alert's NotificationRetry, or None
    pc,            \* [Handlers \cup Loops -> where the coroutine waits]
    view,          \* [verifying loops -> what they know of their alert]
    blackout,      \* is_in_blackout_window()
    blackouts      \* number of windows that have begun

envVars == <<down, event, blackout, blackouts>>
ruleVars == <<rule, enabled>>
pending == <<pendingFire, pendingClear>>
vars == <<envVars, ruleVars, alert, pending, retry, pc, view>>

Verifiers == {"notify", "blackout"}

\* last_notification_attempt_at is never cleared; "old" is 24 hours ago.
AlertType == [state : {"none", "open", "snoozed", "resolved"},
              notified : BOOLEAN,      \* notified_at is set
              suppressed : BOOLEAN,    \* suppressed_by_blackout
              announced : BOOLEAN,     \* resolve_notified_at is set
              firstTry : {"none", "recent", "old"}]

\* A verifying loop's query has found the container down so far, and its copy of
\* the row, as it was loaded, has notified_at set.
ViewType == [down : BOOLEAN, notified : BOOLEAN]

RetryType == 0..(MaxRetries - 1) \cup {None}

TypeOK ==
    /\ down \in BOOLEAN
    /\ event \in {"none", "stopped", "started"}
    /\ rule \in RuleType /\ enabled \in BOOLEAN
    /\ alert \in AlertType
    /\ pendingFire \in BOOLEAN /\ pendingClear \in BOOLEAN
    /\ retry \in RetryType
    /\ pc \in [Handlers \cup Loops -> {"idle", "verifying", "sending"}]
    /\ view \in [Verifiers -> ViewType]
    /\ blackout \in BOOLEAN /\ blackouts \in 0..MaxBlackouts

NoAlert == [state |-> "none", notified |-> FALSE, suppressed |-> FALSE,
            announced |-> FALSE, firstTry |-> "none"]

NoView == [down |-> FALSE, notified |-> FALSE]

Init ==
    /\ down = FALSE /\ event = "none"
    /\ rule \in Rules /\ enabled = TRUE
    /\ alert = NoAlert
    /\ pendingFire = FALSE /\ pendingClear = FALSE
    /\ retry = None
    /\ pc = [s \in Handlers \cup Loops |-> "idle"]
    /\ view = [s \in Verifiers |-> NoView]
    /\ blackout = FALSE /\ blackouts = 0

------------------------------------------------------------------------------
(* The row's life cycle                                                     *)

\* _resolve_alert with notify = True leaves resolve_notified_at as it is.
Resolved(r) == [r EXCEPT !.state = "resolved"]

\* _update_alert: a resolved alert is reopened, to be notified again.
Updated(r) ==
    IF r.state = "resolved" THEN [r EXCEPT !.state = "open", !.notified = FALSE]
    ELSE r

\* _get_or_create_alert and, for an existing row, _update_alert.
Triggered(r) ==
    IF r.state = "none" THEN [NoAlert EXCEPT !.state = "open"] ELSE Updated(r)

\* Mutant: a temporary failure never ends the retries.
RecordedForever(r, result) ==
    [r EXCEPT !.firstTry = IF @ = "none" THEN "recent" ELSE @,
              !.notified = @ \/ result # "failed"]

\* What _send_notification writes after send_alert_v2 has returned: a success,
\* a permanent failure, and a temporary one after 24 hours all count as notified.
Recorded(r, result) ==
    [r EXCEPT !.firstTry = IF @ = "none" THEN "recent" ELSE @,
              !.notified = @ \/ result # "failed" \/ r.firstTry = "old"]

------------------------------------------------------------------------------
(* send_alert_v2                                                            *)

\* The loop at the end of a window takes the flag off whatever came out of it.
Unflagged(s, r) == IF s = "blackout" THEN [r EXCEPT !.suppressed = FALSE] ELSE r

\* _process_retry_queue after a failed attempt.
NextRetry(n) ==
    IF n = None \/ n + 1 >= MaxRetries THEN None ELSE n + 1

\* send_alert_v2 returns to coroutine s, with row r and retry entry n.
Return(s, r, n, result) ==
    /\ pc' = [pc EXCEPT ![s] = "idle"]
    /\ \/ /\ s \in Handlers \cup {"fire"}
          /\ alert' = r /\ retry' = n
       \/ /\ s \in Verifiers
          /\ alert' = Unflagged(s, Recorded(r, result)) /\ retry' = n
       \/ /\ s = "retry"
          /\ alert' = r
          /\ retry' = IF result = "sent" THEN None ELSE NextRetry(n)

\* Coroutine s ends without a call of send_alert_v2.
Done(s, r) ==
    /\ pc' = [pc EXCEPT ![s] = "idle"]
    /\ alert' = r
    /\ UNCHANGED retry

\* From the call of send_alert_v2 to its first await: a duplicate within 5
\* seconds of what the caller's copy has as notified_at, no channels, a
\* blackout, or the sending begins.
BeginSend(s, r, notified) ==
    \/ notified /\ Return(s, r, retry, IF rule.channels THEN "failed" ELSE "permanent")
    \/ ~rule.channels /\ Return(s, r, retry, "permanent")
    \/ rule.channels /\ blackout
           /\ Return(s, [r EXCEPT !.suppressed = TRUE], retry, "failed")
    \/ /\ rule.channels /\ ~blackout
       /\ pc' = [pc EXCEPT ![s] = "sending"]
       /\ alert' = r
       /\ UNCHANGED retry

\* Some channel took it.
SendSucceeds(s) ==
    /\ pc[s] = "sending" /\ s # "resolve"
    /\ Return(s, [alert EXCEPT !.notified = TRUE,
                               !.state = IF rule.autoResolve THEN "resolved" ELSE @],
              retry, "sent")
    /\ UNCHANGED <<envVars, ruleVars, pending, view>>

\* All channels failed or were rate limited: _queue_retry makes an entry, or
\* resets the one there is.
SendFails(s) ==
    /\ pc[s] = "sending" /\ s # "resolve"
    /\ Return(s, alert, 0, "failed")
    /\ UNCHANGED <<envVars, ruleVars, pending, view>>

------------------------------------------------------------------------------
(* Events                                                                   *)

\* _handle_alert_notification for the row that a trigger has produced.
HandleNotification(s, r) ==
    \/ r.state # "open" /\ Done(s, r)
    \/ r.state = "open" /\ rule.notifyDelay /\ Done(s, [r EXCEPT !.notified = FALSE])
    \/ r.state = "open" /\ ~rule.notifyDelay
           /\ BeginSend(s, r, r.notified)

\* _check_cooldown, whose period may be over or not.
MayBeInCooldown(r) == r.notified

\* Mutant: the wrong kind is cleared.
PendingKept == UNCHANGED pendingFire

\* clear_pending_for_scope
ClearPendingForScope == pendingFire' = FALSE

\* add_pending_alert_clear
AddPendingAlertClear == pendingClear' = TRUE

\* cancel_pending_clears_for_scope
CancelPendingClears == pendingClear' = FALSE

\* evaluate_event for the stop: the rule is disabled, its selectors do not
\* match or the container is being updated; it has a delay; the last
\* notification is too recent; or the alert is handed on.
EvaluateEvent(h) ==
    \/ Done(h, alert) /\ UNCHANGED pendingFire
    \/ enabled /\ rule.activeDelay /\ pendingFire' = TRUE /\ Done(h, alert)
    \/ /\ enabled /\ ~rule.activeDelay /\ MayBeInCooldown(alert)
       /\ Done(h, Triggered(alert)) /\ UNCHANGED pendingFire
    \/ /\ enabled /\ ~rule.activeDelay
       /\ HandleNotification(h, Triggered(alert)) /\ UNCHANGED pendingFire

\* handle_container_event: stopped, exited or dead.
Stopped(h) ==
    /\ event = "stopped" /\ pc[h] = "idle"
    /\ event' = "none"
    /\ CancelPendingClears
    /\ EvaluateEvent(h)
    /\ UNCHANGED <<down, blackout, blackouts, ruleVars, view>>

\* _auto_clear_alerts_by_kind: at once, after the clear delay, or not at all.
AutoClear ==
    LET clears == alert.state = "open" /\ rule.autoResolveOnClear
    IN \/ ~clears /\ UNCHANGED <<alert, pendingClear>>
       \/ clears /\ rule.clearDelay /\ AddPendingAlertClear /\ UNCHANGED alert
       \/ clears /\ ~rule.clearDelay /\ alert' = Resolved(alert)
              /\ UNCHANGED pendingClear

\* handle_container_event: running or restarting.
Started ==
    /\ event = "started"
    /\ event' = "none"
    /\ AutoClear
    /\ ClearPendingForScope
    /\ UNCHANGED <<down, blackout, blackouts, ruleVars, retry, pc, view>>

------------------------------------------------------------------------------
(* The background loops                                                     *)

\* check_pending_event_alerts: the active delay has passed.
FirePending ==
    /\ pendingFire /\ pc["fire"] = "idle"
    /\ pendingFire' = FALSE
    /\ \/ ~enabled /\ Done("fire", alert)
       \/ enabled /\ HandleNotification("fire", Triggered(alert))
    /\ UNCHANGED <<envVars, ruleVars, pendingClear, view>>

\* check_pending_alert_clears, later in the same loop: the clear delay has
\* passed; an alert that is no longer open is left alone.
ClearPending ==
    /\ pendingClear /\ pc["fire"] = "idle"
    /\ pendingClear' = FALSE
    /\ alert' = IF alert.state = "open" THEN Resolved(alert) ELSE alert
    /\ UNCHANGED <<envVars, ruleVars, pendingFire, retry, pc, view>>

\* Loop s keeps a copy of the row and begins to verify its condition.
Load(s) ==
    /\ pc' = [pc EXCEPT ![s] = "verifying"]
    /\ view' = [view EXCEPT ![s] = [down |-> down, notified |-> alert.notified]]

\* _check_pending_notifications selects the alert and begins to verify it.
LoadPending ==
    /\ pc["notify"] = "idle"
    /\ alert.state = "open" /\ ~alert.notified /\ ~alert.suppressed
    /\ Load("notify")
    /\ UNCHANGED <<envVars, ruleVars, alert, pending, retry>>

\* Mutant: only open alerts are taken care of after a window.
LoadSuppressedOpen ==
    /\ pc["blackout"] = "idle" /\ ~blackout
    /\ alert.suppressed /\ alert.state = "open"
    /\ Load("blackout")
    /\ UNCHANGED <<envVars, ruleVars, alert, pending, retry>>

\* _check_blackout_transitions: outside a window, an open alert is verified and
\* any other just loses its flag.
LoadSuppressed ==
    /\ pc["blackout"] = "idle" /\ ~blackout
    /\ alert.suppressed
    /\ \/ /\ alert.state = "open"
                /\ Load("blackout")
          /\ UNCHANGED <<alert, retry>>
       \/ /\ alert.state # "open"
          /\ Done("blackout", Unflagged("blackout", alert))
          /\ UNCHANGED view
    /\ UNCHANGED <<envVars, ruleVars, pending>>

\* _verify_alert_condition has returned False: the container was seen to run
\* at some moment of the query.
ResolveSilently(s) ==
    /\ pc[s] = "verifying"
    /\ ~view[s].down
    /\ Done(s, Unflagged(s, IF alert.state = "open" THEN Resolved(alert) ELSE alert))
    /\ view' = [view EXCEPT ![s] = NoView]
    /\ UNCHANGED <<envVars, ruleVars, pending>>

\* It has returned True, as it also does after any error: _send_notification,
\* whatever has become of the alert meanwhile.
SendNotification(s) ==
    /\ pc[s] = "verifying"
    /\ \/ blackout /\ Done(s, Unflagged(s, [alert EXCEPT !.suppressed = TRUE]))
       \/ ~blackout /\ BeginSend(s, alert, view[s].notified)
    /\ view' = [view EXCEPT ![s] = NoView]
    /\ UNCHANGED <<envVars, ruleVars, pending>>

\* _process_retry_queue, whatever the state of the alert.
ProcessRetry ==
    /\ retry # None /\ pc["retry"] = "idle"
    /\ BeginSend("retry", alert, alert.notified)
    /\ UNCHANGED <<envVars, ruleVars, pending, view>>

\* _drain_and_dispatch_resolves and _send_resolve_notification up to the send.
DispatchResolve ==
    /\ pc["resolve"] = "idle"
    /\ alert.state = "resolved" /\ alert.notified /\ ~alert.announced
    /\ rule.notifyOnResolve /\ ~rule.autoResolve
    /\ rule.channels /\ ~blackout
    /\ pc' = [pc EXCEPT !["resolve"] = "sending"]
    /\ UNCHANGED <<envVars, ruleVars, alert, pending, retry, view>>

\* The stamp is set once some channel took the message, however the alert is now.
ResolveSent(sent) ==
    /\ pc["resolve"] = "sending"
    /\ pc' = [pc EXCEPT !["resolve"] = "idle"]
    /\ alert' = [alert EXCEPT !.announced = @ \/ sent]
    /\ UNCHANGED <<envVars, ruleVars, pending, retry, view>>

------------------------------------------------------------------------------
(* Users and the world                                                      *)

\* resolve_alert of the API is silent: it stamps the recovery message away.
ManualResolve ==
    /\ alert.state \in {"open", "snoozed"}
    /\ alert' = [alert EXCEPT !.state = "resolved", !.announced = TRUE]
    /\ UNCHANGED <<envVars, ruleVars, pending, retry, pc, view>>

Snooze ==
    /\ alert.state \in {"open", "snoozed"}
    /\ alert' = [alert EXCEPT !.state = "snoozed"]
    /\ UNCHANGED <<envVars, ruleVars, pending, retry, pc, view>>

\* unsnooze_alert, or _check_expired_snoozes.
Unsnooze ==
    /\ alert.state = "snoozed"
    /\ alert' = [alert EXCEPT !.state = "open"]
    /\ UNCHANGED <<envVars, ruleVars, pending, retry, pc, view>>

ToggleRule ==
    /\ enabled' = ~enabled
    /\ UNCHANGED <<envVars, rule, alert, pending, retry, pc, view>>

\* The container stops or starts; its previous event has been handled.
Flip ==
    /\ event = "none"
    /\ down' = ~down
    /\ event' = IF down THEN "started" ELSE "stopped"
    /\ view' = [s \in Verifiers |-> [view[s] EXCEPT !.down = @ /\ ~down]]
    /\ UNCHANGED <<blackout, blackouts, ruleVars, alert, pending, retry, pc>>

BlackoutBegins ==
    /\ ~blackout /\ blackouts < MaxBlackouts
    /\ blackout' = TRUE /\ blackouts' = blackouts + 1
    /\ UNCHANGED <<down, event, ruleVars, alert, pending, retry, pc, view>>

BlackoutEnds ==
    /\ blackout
    /\ blackout' = FALSE
    /\ UNCHANGED <<down, event, blackouts, ruleVars, alert, pending, retry, pc,
                   view>>

DayPasses ==
    /\ alert.firstTry = "recent"
    /\ alert' = [alert EXCEPT !.firstTry = "old"]
    /\ UNCHANGED <<envVars, ruleVars, pending, retry, pc, view>>

------------------------------------------------------------------------------
Send(s) == SendSucceeds(s) \/ SendFails(s)

Handler(h) == Stopped(h) \/ Send(h)
FireLoop == FirePending \/ ClearPending \/ Send("fire")
NotifyLoop ==
    LoadPending \/ ResolveSilently("notify") \/ SendNotification("notify")
        \/ Send("notify")
BlackoutLoop ==
    LoadSuppressed \/ ResolveSilently("blackout") \/ SendNotification("blackout")
        \/ Send("blackout")
RetryLoop == ProcessRetry \/ Send("retry")
ResolveLoop == DispatchResolve \/ \E sent \in BOOLEAN : ResolveSent(sent)
Users == ManualResolve \/ Snooze \/ Unsnooze \/ ToggleRule

Next ==
    \/ \E h \in Handlers : Handler(h)
    \/ Started
    \/ FireLoop \/ NotifyLoop \/ BlackoutLoop \/ RetryLoop \/ ResolveLoop
    \/ Users
    \/ Flip \/ BlackoutBegins \/ BlackoutEnds \/ DayPasses

\* The event loop runs every coroutine that is ready, sends have timeouts and
\* loops sleep for seconds; and time passes: windows end, days go by.
Fairness ==
    /\ \A h \in Handlers : WF_vars(Handler(h))
    /\ WF_vars(Started)
    /\ WF_vars(FireLoop) /\ WF_vars(NotifyLoop) /\ WF_vars(BlackoutLoop)
    /\ WF_vars(RetryLoop) /\ WF_vars(ResolveLoop)
    /\ WF_vars(BlackoutEnds) /\ WF_vars(DayPasses)

Spec == Init /\ [][Next]_vars /\ Fairness
------------------------------------------------------------------------------
(* Properties                                                               *)

\* The condition as the engine knows it: the last event that it has handled.
ToldDown == IF event = "none" THEN down ELSE ~down

\* A delayed alert never fires for a container that was reported running again
\* before the delay was over (clear_pending_for_scope), however often it flaps.
PendingFireIsCurrent == pendingFire => ToldDown

\* A delayed clear never resolves the alert of a container that was reported
\* stopped again before the delay was over (cancel_pending_clears_for_scope),
\* whatever users and loops did to the alert meanwhile.
PendingClearIsCurrent == pendingClear => ~ToldDown

\* An open alert is notified, or given up after 24 hours, unless it is resolved
\* or snoozed first: neither a blackout, nor failing channels, nor the other
\* loops' writes to its row make the notification loops forget it.
OpenAlertIsNotified ==
    (alert.state = "open" /\ ~alert.notified)
        ~> (alert.state # "open" \/ alert.notified)

\* An alert held back by a blackout window is taken up again after it, in
\* whatever state it is by then (_check_blackout_transitions).
SuppressedAlertResurfaces == alert.suppressed ~> ~alert.suppressed

\* What waits for a delay is cancelled when its condition is over.
PendingIsCurrent == PendingFireIsCurrent /\ PendingClearIsCurrent
==============================================================================
