---------------------------- MODULE AgentCommand ----------------------------
(***************************************************************************)
(* AgentCommandExecutor: request/response over the WebSocket of one agent. *)
(* A call of execute_command passes the agent's circuit breaker, registers *)
(* a future under a fresh correlation id, sends the command, waits for the *)
(* response or the timeout, retries what its policy allows and records one *)
(* success or failure with the breaker.  Calls run concurrently on one     *)
(* event loop; the agent executes commands in any order, and commands and  *)
(* responses are lost with the connection.                                 *)
(*                                                                         *)
(* The executor keeps one breaker per agent and shares only the dictionary *)
(* of pending commands, whose keys are fresh uuids: one agent is modelled. *)
(***************************************************************************)
EXTENDS Naturals, FiniteSets

CONSTANTS
    Calls,             \* invocations of execute_command
    MaxAttempts,       \* largest RetryPolicy.max_attempts (1: no policy)
    Replies,           \* responses an agent may send
    FailureThreshold,  \* failures in the window that open the circuit
    SuccessThreshold,  \* successes that close it again
    FailureWindow,     \* failure_window_seconds, in ticks
    OpenTimeout,       \* timeout_seconds in OPEN, in ticks
    MaxTime            \* bound on the clock

ASSUME CommandAssumption ==
    /\ IsFiniteSet(Calls)
    /\ MaxAttempts \in Nat \ {0}
    /\ "ok" \in Replies
    /\ Replies \subseteq {"ok", "malformed", "legacy_error",
                          "permission_denied", "docker_error", "agent_error"}
    /\ FailureThreshold \in Nat \ {0} /\ SuccessThreshold \in Nat \ {0}
    /\ FailureWindow \in Nat \ {0} /\ OpenTimeout \in Nat /\ MaxTime \in Nat

\* correlation_id: one uuid4 per attempt of a call.
Ids == Calls \X (1 .. MaxAttempts)

VARIABLES
    cpc,       \* [Calls -> program point of execute_command]
    limit,     \* [Calls -> max_attempts of the call's policy]
    attempt,   \* [Calls -> number of the current attempt]
    pending,   \* ids in _pending_commands
    future,    \* [Ids -> "unset" or the response the future was resolved with]
    result,    \* [Calls -> outcome returned to the caller]
    message,   \* [Ids -> where the command or its response travels]
    outcome,   \* [Ids -> what the agent did: "none" or its response]
    connected, \* the agent is in the connection registry
    circuit,   \* the CircuitBreaker
    now        \* the clock

vars == <<cpc, limit, attempt, pending, future, result, message, outcome,
          connected, circuit, now>>
callVars == <<limit, attempt, pending, future, result>>
netVars  == <<message, outcome, connected>>

ErrorCodes == {"network_error", "agent_not_connected", "timeout",
               "permission_denied", "docker_error", "agent_error",
               "invalid_response", "circuit_open"}

NotOpened == MaxTime + 1    \* opened_at = None

\* failure_timestamps: a call records at most once, so <<time, call>> is one entry.
CircuitType ==
    [state: {"closed", "open", "half_open"},
     failures: SUBSET ((0 .. MaxTime) \X Calls),
     successes: Nat,
     openedAt: 0 .. NotOpened]

TypeOK ==
    /\ cpc \in [Calls -> {"idle", "sending", "waiting", "backoff", "done"}]
    /\ limit \in [Calls -> 1 .. MaxAttempts]
    /\ attempt \in [Calls -> 1 .. MaxAttempts]
    /\ pending \in SUBSET Ids
    /\ future \in [Ids -> Replies \cup {"unset"}]
    /\ result \in [Calls -> ErrorCodes \cup {"none", "success"}]
    /\ message \in [Ids -> {"none", "command", "response", "gone"}]
    /\ outcome \in [Ids -> Replies \cup {"none"}]
    /\ connected \in BOOLEAN
    /\ circuit \in CircuitType
    /\ now \in 0 .. MaxTime

Init ==
    /\ cpc = [c \in Calls |-> "idle"]
    /\ limit = [c \in Calls |-> 1]
    /\ attempt = [c \in Calls |-> 1]
    /\ pending = {}
    /\ future = [i \in Ids |-> "unset"]
    /\ result = [c \in Calls |-> "none"]
    /\ message = [i \in Ids |-> "none"]
    /\ outcome = [i \in Ids |-> "none"]
    /\ connected = TRUE
    /\ circuit = [state |-> "closed", failures |-> {}, successes |-> 0,
                  openedAt |-> NotOpened]
    /\ now = 0

-----------------------------------------------------------------------------
(* CircuitBreaker                                                          *)

\* Mutant: opened_at is not written.
ToOpenUnstamped(cb) == [cb EXCEPT !.state = "open"]

ToOpen(cb) == [state |-> "open", failures |-> cb.failures,
               successes |-> 0, openedAt |-> now]

ToHalfOpen(cb) == [state |-> "half_open", failures |-> cb.failures,
                   successes |-> 0, openedAt |-> NotOpened]

ToClosed(cb) == [state |-> "closed", failures |-> {},
                 successes |-> 0, openedAt |-> NotOpened]

RecordSuccess(cb) ==
    CASE cb.state = "closed" -> [cb EXCEPT !.failures = {}]
      [] cb.state = "half_open" ->
            IF cb.successes + 1 >= SuccessThreshold THEN ToClosed(cb)
            ELSE [cb EXCEPT !.successes = @ + 1]
      [] cb.state = "open" -> cb

\* The failures still inside the window once c's failure has been appended.
InWindow(cb, c) ==
    {f \in cb.failures \cup {<<now, c>>} : f[1] + FailureWindow > now}

RecordFailure(cb, c) ==
    CASE cb.state = "closed" ->
            LET kept == [cb EXCEPT !.failures = InWindow(cb, c)]
            IN IF Cardinality(kept.failures) >= FailureThreshold
               THEN ToOpen(kept) ELSE kept
      [] cb.state = "half_open" -> ToOpen(cb)
      [] cb.state = "open" -> cb

\* The reopening timeout of an OPEN circuit has expired.
TimedOut(cb) == cb.openedAt # NotOpened /\ now >= cb.openedAt + OpenTimeout

\* Mutant: an OPEN circuit lets a probe through at any time.
ShouldAllowProbe(cb) == TRUE

ShouldAllowRequest(cb) == cb.state = "open" => TimedOut(cb)

\* The transition that should_allow_request makes when it lets a probe through.
Admit(cb) == IF cb.state = "open" THEN ToHalfOpen(cb) ELSE cb

-----------------------------------------------------------------------------
(* execute_command                                                         *)

\* RetryPolicy.retryable_error_codes
RetryableCodes == {"network_error", "agent_disconnected", "timeout",
                   "unknown_error"}

\* What _execute_command_once makes of a response.
Classify(reply) ==
    IF reply = "ok" THEN "success"
    ELSE IF reply \in {"malformed", "legacy_error"} THEN "invalid_response"
    ELSE reply

Id(c) == <<c, attempt[c]>>

\* The attempt of c ended with code: return to the caller and record with the
\* breaker, or sleep before the next attempt.
Conclude(c, code, cb, n, max) ==
    IF code \in RetryableCodes /\ n < max
    THEN /\ cpc' = [cpc EXCEPT ![c] = "backoff"]
         /\ circuit' = cb
         /\ UNCHANGED result
    ELSE /\ cpc' = [cpc EXCEPT ![c] = "done"]
         /\ result' = [result EXCEPT ![c] = code]
         /\ circuit' = IF code = "success" THEN RecordSuccess(cb)
                       ELSE RecordFailure(cb, c)

\* The head of _execute_command_once: the connection check, then the
\* registration of the pending command (no suspension in between).
BeginAttempt(c, cb, n, max) ==
    \/ /\ ~connected
       /\ Conclude(c, "agent_not_connected", cb, n, max)
       /\ UNCHANGED pending
    \/ /\ connected
       /\ pending' = pending \cup {<<c, n>>}
       /\ cpc' = [cpc EXCEPT ![c] = "sending"]
       /\ circuit' = cb
       /\ UNCHANGED result

Execute(c, max) ==
    /\ cpc[c] = "idle"
    /\ ShouldAllowRequest(circuit)
    /\ limit' = [limit EXCEPT ![c] = max]
    /\ BeginAttempt(c, Admit(circuit), 1, max)
    /\ UNCHANGED <<attempt, future, netVars, now>>

\* The circuit is open: the call returns at once and records nothing.
Reject(c) ==
    /\ cpc[c] = "idle"
    /\ ~ShouldAllowRequest(circuit)
    /\ cpc' = [cpc EXCEPT ![c] = "done"]
    /\ result' = [result EXCEPT ![c] = "circuit_open"]
    /\ UNCHANGED <<limit, attempt, pending, future, netVars, circuit, now>>

\* The backoff sleep is over; the circuit is not consulted again.
Retry(c) ==
    /\ cpc[c] = "backoff"
    /\ attempt' = [attempt EXCEPT ![c] = @ + 1]
    /\ BeginAttempt(c, circuit, attempt[c] + 1, limit[c])
    /\ UNCHANGED <<limit, future, netVars, now>>

\* The command leaves while send_json is still awaited: its response can come
\* before the send returns.
Transmit(c) ==
    /\ cpc[c] = "sending" /\ message[Id(c)] = "none"
    /\ message' = [message EXCEPT ![Id(c)] = "command"]
    /\ UNCHANGED <<cpc, callVars, outcome, connected, circuit, now>>

SendReturns(c) ==
    /\ cpc[c] = "sending" /\ message[Id(c)] # "none"
    /\ cpc' = [cpc EXCEPT ![c] = "waiting"]
    /\ UNCHANGED <<callVars, netVars, circuit, now>>

\* send_command returns False: the entry is removed.  The peer may still have
\* received the command.
SendFails(c) ==
    /\ cpc[c] = "sending"
    /\ pending' = pending \ {Id(c)}
    /\ Conclude(c, "network_error", circuit, attempt[c], limit[c])
    /\ UNCHANGED <<limit, attempt, future, netVars, now>>

\* The future is resolved and the waiter runs.
Return(c) ==
    /\ cpc[c] = "waiting" /\ future[Id(c)] # "unset"
    /\ pending' = pending \ {Id(c)}
    /\ Conclude(c, Classify(future[Id(c)]), circuit, attempt[c], limit[c])
    /\ UNCHANGED <<limit, attempt, future, netVars, now>>

\* Mutants: the timeout leaves the entry; no timeout while the agent is connected.
TimeoutKeepsPending(c) ==
    /\ cpc[c] = "waiting"
    /\ Conclude(c, "timeout", circuit, attempt[c], limit[c])
    /\ UNCHANGED <<limit, attempt, pending, future, netVars, now>>
TimeoutOnlyOffline(c) ==
    /\ cpc[c] = "waiting" /\ ~connected
    /\ pending' = pending \ {Id(c)}
    /\ Conclude(c, "timeout", circuit, attempt[c], limit[c])
    /\ UNCHANGED <<limit, attempt, future, netVars, now>>

\* wait_for expires.  (Python 3.13 raises TimeoutError even if the future was
\* resolved after the expiry was scheduled.)
Timeout(c) ==
    /\ cpc[c] = "waiting"
    /\ pending' = pending \ {Id(c)}
    /\ Conclude(c, "timeout", circuit, attempt[c], limit[c])
    /\ UNCHANGED <<limit, attempt, future, netVars, now>>

-----------------------------------------------------------------------------
(* The agent, the network and handle_agent_response                        *)

AgentExecutes(i, reply) ==
    /\ message[i] = "command"
    /\ message' = [message EXCEPT ![i] = "response"]
    /\ outcome' = [outcome EXCEPT ![i] = reply]
    /\ UNCHANGED <<cpc, callVars, connected, circuit, now>>

\* The id a response resolves.  Mutant: the call's newest attempt.
MatchCall(i) == <<i[1], attempt[i[1]]>>
Match(i) == i

\* handle_agent_response: an unknown correlation id and a future that is
\* already done are ignored.
Respond(i) ==
    /\ message[i] = "response" /\ connected
    /\ message' = [message EXCEPT ![i] = "gone"]
    /\ future' = IF Match(i) \in pending /\ future[Match(i)] = "unset"
                 THEN [future EXCEPT ![Match(i)] = outcome[i]] ELSE future
    /\ UNCHANGED <<cpc, limit, attempt, pending, result, outcome, connected,
                   circuit, now>>

Lose(i) ==
    /\ message[i] \in {"command", "response"}
    /\ message' = [message EXCEPT ![i] = "gone"]
    /\ UNCHANGED <<cpc, callVars, outcome, connected, circuit, now>>

Reconnect ==
    /\ connected' = ~connected
    /\ UNCHANGED <<cpc, callVars, message, outcome, circuit, now>>

Tick ==
    /\ now < MaxTime
    /\ now' = now + 1
    /\ UNCHANGED <<cpc, callVars, netVars, circuit>>

-----------------------------------------------------------------------------
\* The steps of a call that the event loop and its timers owe it.
Advance(c) ==
    \/ Retry(c) \/ SendReturns(c) \/ SendFails(c) \/ Return(c) \/ Timeout(c)

Next ==
    \/ \E c \in Calls : Advance(c) \/ Transmit(c) \/ Reject(c)
    \/ \E c \in Calls, max \in 1 .. MaxAttempts : Execute(c, max)
    \/ \E i \in Ids : Respond(i) \/ Lose(i)
    \/ \E i \in Ids, reply \in Replies : AgentExecutes(i, reply)
    \/ Reconnect
    \/ Tick

Fairness == \A c \in Calls : WF_vars(Advance(c))

Spec == Init /\ [][Next]_vars /\ Fairness
-----------------------------------------------------------------------------
(* Properties                                                              *)

\* _pending_commands holds exactly the attempts somebody is still waiting for:
\* no exit of _execute_command_once leaks an entry and none is missing while
\* its response can still be used.
PendingIsAwaited ==
    pending = {Id(c) : c \in {d \in Calls : cpc[d] \in {"sending", "waiting"}}}

\* A call reports success only for a response the agent gave to that very
\* attempt: a late response to an attempt that timed out never answers a retry.
SuccessIsOwnResponse ==
    \A c \in Calls : result[c] = "success" => outcome[Id(c)] = "ok"

\* The breaker cannot get stuck or stay closed past its thresholds: an OPEN
\* circuit knows when it was opened (else should_allow_request rejects for
\* ever), a CLOSED one has seen fewer failures than the threshold, a HALF_OPEN
\* one fewer successes.
BreakerWithinThresholds ==
    /\ circuit.state = "open" <=> circuit.openedAt # NotOpened
    /\ circuit.state = "closed" => Cardinality(circuit.failures) < FailureThreshold
    /\ circuit.successes < SuccessThreshold
    /\ circuit.state # "half_open" => circuit.successes = 0

\* The class comment's state machine, under concurrent calls: the circuit
\* leaves OPEN only to HALF_OPEN and only after the timeout, and reaches CLOSED
\* only from HALF_OPEN.
BreakerEdges ==
    [][circuit'.state # circuit.state =>
        \/ circuit.state = "closed" /\ circuit'.state = "open"
        \/ circuit.state = "half_open"
        \/ circuit.state = "open" /\ TimedOut(circuit)
               /\ circuit'.state = "half_open"]_vars

\* Whatever the agent and the network do, a call returns to its caller.
CallReturns ==
    \A c \in Calls : cpc[c] # "idle" ~> cpc[c] = "done"
=============================================================================
