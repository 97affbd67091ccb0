------------------------- MODULE AgentCommandProofs -------------------------
(***************************************************************************)
(* The safety of AgentCommand for every number of calls, every retry       *)
(* policy and every threshold of the circuit breaker, and of AgentLink for *)
(* any sets of agents, sockets and web shells.                             *)
(***************************************************************************)
EXTENDS AgentCommand, AgentLink, FiniteSetTheorems, TLAPS

\* A circuit breaker that is well typed and within its thresholds.
GoodBreaker(cb) ==
    /\ cb \in CircuitType
    /\ cb.state = "open" <=> cb.openedAt # NotOpened
    /\ cb.state = "closed" => Cardinality(cb.failures) < FailureThreshold
    /\ cb.successes < SuccessThreshold
    /\ cb.state # "half_open" => cb.successes = 0

\* A future holds what the agent answered to that id, and only after the
\* response has left the agent.
FutureIsOutcome ==
    \A i \in Ids :
        /\ future[i] # "unset" => future[i] = outcome[i]
        /\ message[i] \in {"none", "command"} => future[i] = "unset"
        /\ message[i] = "response" => outcome[i] \in Replies

\* A success was read from the future of the last attempt, and a call that
\* sleeps before a retry has an attempt left.
CallsInOrder ==
    \A c \in Calls :
        /\ result[c] = "success" => cpc[c] = "done" /\ future[Id(c)] = "ok"
        /\ cpc[c] = "backoff" => attempt[c] < limit[c]
        /\ cpc[c] = "idle" => attempt[c] = 1

\* The inductive invariant.
CommandInv ==
    /\ TypeOK
    /\ GoodBreaker(circuit)
    /\ PendingIsAwaited
    /\ FutureIsOutcome
    /\ CallsInOrder

-----------------------------------------------------------------------------
\* The set of failure timestamps is finite.
LEMMA FailuresFinite ==
  ASSUME NEW S \in SUBSET ((0 .. MaxTime) \X Calls)
  PROVE  IsFiniteSet(S) /\ Cardinality(S) \in Nat
<1>1. IsFiniteSet(0 .. MaxTime)
  BY FS_Interval, CommandAssumption
<1>2. IsFiniteSet((0 .. MaxTime) \X Calls)
  BY <1>1, FS_Product, CommandAssumption
<1>3. IsFiniteSet(S)
  BY <1>2, FS_Subset
<1>. QED  BY <1>3, FS_CardinalityType

\* The state changes of the breaker keep it within its thresholds
\* (_transition_to_open, _transition_to_half_open, _transition_to_closed).
LEMMA TransitionsGood ==
  ASSUME NEW cb \in CircuitType, now \in 0 .. MaxTime
  PROVE  GoodBreaker(ToOpen(cb)) /\ GoodBreaker(ToHalfOpen(cb))
            /\ GoodBreaker(ToClosed(cb))
<1>1. Cardinality({}) = 0
  BY FS_EmptySet
<1>2. GoodBreaker(ToOpen(cb))
  BY CommandAssumption DEF GoodBreaker, CircuitType, ToOpen, NotOpened
<1>3. GoodBreaker(ToHalfOpen(cb))
  BY CommandAssumption DEF GoodBreaker, CircuitType, ToHalfOpen, NotOpened
<1>4. GoodBreaker(ToClosed(cb))
  BY <1>1, CommandAssumption DEF GoodBreaker, CircuitType, ToClosed, NotOpened
<1>. QED  BY <1>2, <1>3, <1>4

\* record_success keeps the breaker within its thresholds.
LEMMA RecordSuccessGood ==
  ASSUME NEW cb, GoodBreaker(cb), now \in 0 .. MaxTime
  PROVE  GoodBreaker(RecordSuccess(cb))
<1>1. Cardinality({}) = 0
  BY FS_EmptySet
<1>2. cb \in CircuitType
  BY DEF GoodBreaker
<1>3. CASE cb.state = "closed"
  BY <1>1, <1>3, CommandAssumption DEF GoodBreaker, CircuitType, RecordSuccess, NotOpened
<1>4. CASE cb.state = "half_open"
  <2>1. CASE cb.successes + 1 >= SuccessThreshold
    BY <1>2, <1>4, <2>1, TransitionsGood DEF RecordSuccess
  <2>2. CASE ~(cb.successes + 1 >= SuccessThreshold)
    BY <1>4, <2>2, CommandAssumption DEF GoodBreaker, CircuitType, RecordSuccess, NotOpened
  <2>. QED  BY <2>1, <2>2
<1>5. CASE cb.state = "open"
  BY <1>5 DEF RecordSuccess
<1>. QED  BY <1>2, <1>3, <1>4, <1>5 DEF CircuitType

\* record_failure keeps the breaker within its thresholds.
LEMMA RecordFailureGood ==
  ASSUME NEW cb, NEW c \in Calls, GoodBreaker(cb), now \in 0 .. MaxTime
  PROVE  GoodBreaker(RecordFailure(cb, c))
<1>2. cb \in CircuitType
  BY DEF GoodBreaker
<1>3. CASE cb.state = "closed"
  <2> DEFINE kept == [cb EXCEPT !.failures = InWindow(cb, c)]
  <2>1. InWindow(cb, c) \in SUBSET ((0 .. MaxTime) \X Calls)
    BY <1>2 DEF InWindow, CircuitType
  <2>2. Cardinality(InWindow(cb, c)) \in Nat
    BY <2>1, FailuresFinite
  <2>3. kept \in CircuitType /\ kept.failures = InWindow(cb, c)
           /\ kept.state = "closed" /\ kept.openedAt = cb.openedAt
           /\ kept.successes = cb.successes
    BY <1>2, <1>3, <2>1 DEF CircuitType
  <2>4. RecordFailure(cb, c) = IF Cardinality(kept.failures) >= FailureThreshold
                               THEN ToOpen(kept) ELSE kept
    BY <1>3 DEF RecordFailure
  <2> HIDE DEF kept
  <2>5. CASE Cardinality(kept.failures) >= FailureThreshold
    BY <2>3, <2>4, <2>5, TransitionsGood
  <2>6. CASE ~(Cardinality(kept.failures) >= FailureThreshold)
    BY <1>3, <2>2, <2>3, <2>4, <2>6, CommandAssumption DEF GoodBreaker
  <2>. QED  BY <2>5, <2>6
<1>4. CASE cb.state = "half_open"
  BY <1>2, <1>4, TransitionsGood DEF RecordFailure
<1>5. CASE cb.state = "open"
  BY <1>5 DEF RecordFailure
<1>. QED  BY <1>2, <1>3, <1>4, <1>5 DEF CircuitType

\* Letting a probe through keeps the breaker within its thresholds.
LEMMA AdmitGood ==
  ASSUME NEW cb, GoodBreaker(cb), now \in 0 .. MaxTime
  PROVE  GoodBreaker(Admit(cb))
<1>1. cb \in CircuitType
  BY DEF GoodBreaker
<1>. QED  BY <1>1, TransitionsGood DEF Admit

-----------------------------------------------------------------------------
\* How an attempt ends, whatever its outcome: the call is done or backs off,
\* the breaker stays good, and only a success is reported as one.
LEMMA ConcludeStep ==
  ASSUME CommandInv, NEW c \in Calls, NEW cb, GoodBreaker(cb),
         NEW n \in Nat, NEW max \in Nat,
         NEW code \in ErrorCodes \cup {"success"},
         Conclude(c, code, cb, n, max)
  PROVE  /\ GoodBreaker(circuit')
         /\ \/ cpc' = [cpc EXCEPT ![c] = "backoff"] /\ n < max /\ result' = result
            \/ /\ cpc' = [cpc EXCEPT ![c] = "done"]
               /\ result' = [result EXCEPT ![c] = code]
<1>1. now \in 0 .. MaxTime
  BY DEF CommandInv, TypeOK
<1>2. GoodBreaker(RecordSuccess(cb)) /\ GoodBreaker(RecordFailure(cb, c))
  BY <1>1, RecordSuccessGood, RecordFailureGood
<1>. QED  BY <1>2 DEF Conclude

\* The head of an attempt: pending and the program point move together.
LEMMA BeginStep ==
  ASSUME CommandInv, NEW c \in Calls, NEW cb, GoodBreaker(cb),
         NEW n \in Nat, NEW max \in Nat,
         BeginAttempt(c, cb, n, max)
  PROVE  /\ GoodBreaker(circuit')
         /\ \/ /\ cpc' = [cpc EXCEPT ![c] = "sending"]
               /\ pending' = pending \cup {<<c, n>>}
               /\ result' = result
            \/ /\ pending' = pending
               /\ cpc' = [cpc EXCEPT ![c] = "done"]
               /\ result' = [result EXCEPT ![c] = "agent_not_connected"]
<1>1. CASE connected /\ pending' = pending \cup {<<c, n>>}
             /\ cpc' = [cpc EXCEPT ![c] = "sending"]
             /\ circuit' = cb /\ UNCHANGED result
  BY <1>1
<1>2. CASE Conclude(c, "agent_not_connected", cb, n, max) /\ UNCHANGED pending
  <2>1. cpc' = [cpc EXCEPT ![c] = "done"]
          /\ result' = [result EXCEPT ![c] = "agent_not_connected"]
    BY <1>2 DEF Conclude, RetryableCodes
  <2>. QED  BY <1>2, <2>1, ConcludeStep DEF ErrorCodes
<1>. QED  BY <1>1, <1>2 DEF BeginAttempt

\* The initial state satisfies the inductive invariant.
LEMMA InitCommandInv == Init => CommandInv
<1> SUFFICES ASSUME Init PROVE CommandInv
  OBVIOUS
<1>1. TypeOK
  BY CommandAssumption DEF Init, TypeOK, CircuitType, NotOpened
<1>2. GoodBreaker(circuit)
  BY FS_EmptySet, CommandAssumption DEF Init, GoodBreaker, CircuitType, NotOpened
<1>3. PendingIsAwaited
  BY DEF Init, PendingIsAwaited
<1>4. FutureIsOutcome /\ CallsInOrder
  BY DEF Init, FutureIsOutcome, CallsInOrder
<1>. QED  BY <1>1, <1>2, <1>3, <1>4 DEF CommandInv

\* A new call keeps the invariant.
LEMMA ExecuteStep ==
  ASSUME CommandInv, NEW c \in Calls, NEW max \in 1 .. MaxAttempts, Execute(c, max)
  PROVE  CommandInv'
<1>1. GoodBreaker(Admit(circuit))
  BY AdmitGood DEF CommandInv, TypeOK
<1>2. BeginAttempt(c, Admit(circuit), 1, max) /\ cpc[c] = "idle" /\ attempt[c] = 1
        /\ limit' = [limit EXCEPT ![c] = max]
        /\ UNCHANGED <<attempt, future, message, outcome, connected, now>>
  BY DEF Execute, CommandInv, CallsInOrder, netVars
<1>3. /\ GoodBreaker(circuit')
      /\ \/ /\ cpc' = [cpc EXCEPT ![c] = "sending"]
            /\ pending' = pending \cup {<<c, 1>>}
            /\ result' = result
         \/ /\ pending' = pending
            /\ cpc' = [cpc EXCEPT ![c] = "done"]
            /\ result' = [result EXCEPT ![c] = "agent_not_connected"]
  BY <1>1, <1>2, BeginStep, CommandAssumption
<1>4. TypeOK'
  BY <1>2, <1>3, CommandAssumption DEF CommandInv, TypeOK, GoodBreaker, Ids, ErrorCodes
<1>5. PendingIsAwaited'
  BY <1>2, <1>3 DEF CommandInv, TypeOK, PendingIsAwaited, Id
<1>6. FutureIsOutcome' /\ CallsInOrder'
  BY <1>2, <1>3 DEF CommandInv, TypeOK, FutureIsOutcome, CallsInOrder, Id
<1>. QED  BY <1>3, <1>4, <1>5, <1>6 DEF CommandInv

\* A retry keeps the invariant: the next id is a fresh one.
LEMMA RetryStep ==
  ASSUME CommandInv, NEW c \in Calls, Retry(c)
  PROVE  CommandInv'
<1> DEFINE n == attempt[c] + 1
<1>1. n \in 1 .. MaxAttempts /\ limit[c] \in 1 .. MaxAttempts /\ cpc[c] = "backoff"
  BY CommandAssumption DEF Retry, CommandInv, TypeOK, CallsInOrder
<1>2. BeginAttempt(c, circuit, n, limit[c])
        /\ attempt' = [attempt EXCEPT ![c] = n]
        /\ UNCHANGED <<limit, future, message, outcome, connected, now>>
  BY DEF Retry, CommandInv, TypeOK, netVars
<1>3. GoodBreaker(circuit)
  BY DEF CommandInv
<1>4. /\ GoodBreaker(circuit')
      /\ \/ /\ cpc' = [cpc EXCEPT ![c] = "sending"]
            /\ pending' = pending \cup {<<c, n>>}
            /\ result' = result
         \/ /\ pending' = pending
            /\ cpc' = [cpc EXCEPT ![c] = "done"]
            /\ result' = [result EXCEPT ![c] = "agent_not_connected"]
  BY <1>1, <1>2, <1>3, BeginStep, CommandAssumption
<1> HIDE DEF n
<1>5. TypeOK'
  BY <1>1, <1>2, <1>4, CommandAssumption DEF CommandInv, TypeOK, GoodBreaker, Ids, ErrorCodes
<1>6. PendingIsAwaited'
  BY <1>1, <1>2, <1>4 DEF CommandInv, TypeOK, PendingIsAwaited, Id
<1>7. FutureIsOutcome'
  BY <1>2 DEF CommandInv, FutureIsOutcome
<1>8. CallsInOrder'
  <2> SUFFICES ASSUME NEW d \in Calls
               PROVE  /\ result'[d] = "success" => cpc'[d] = "done" /\ future'[<<d, attempt'[d]>>] = "ok"
                      /\ cpc'[d] = "backoff" => attempt'[d] < limit'[d]
                      /\ cpc'[d] = "idle" => attempt'[d] = 1
    BY DEF CallsInOrder, Id
  <2>1. CASE d = c
    BY <1>1, <1>4, <2>1 DEF CommandInv, TypeOK, CallsInOrder
  <2>2. CASE d # c
    BY <1>2, <1>4, <2>2 DEF CommandInv, TypeOK, CallsInOrder, Id
  <2>. QED  BY <2>1, <2>2
<1>. QED  BY <1>4, <1>5, <1>6, <1>7, <1>8 DEF CommandInv

\* The end of an attempt (failed send, response, timeout) keeps the invariant.
LEMMA EndStep ==
  ASSUME CommandInv, NEW c \in Calls, cpc[c] \in {"sending", "waiting"},
         NEW code \in ErrorCodes \cup {"success"},
         code = "success" => future[Id(c)] = "ok",
         pending' = pending \ {Id(c)},
         Conclude(c, code, circuit, attempt[c], limit[c]),
         UNCHANGED <<limit, attempt, future, netVars, now>>
  PROVE  CommandInv'
<1>1. UNCHANGED <<limit, attempt, future, message, outcome, connected, now>>
  BY DEF netVars
<1>2. attempt[c] \in Nat /\ limit[c] \in Nat /\ GoodBreaker(circuit)
  BY DEF CommandInv, TypeOK
<1>3. /\ GoodBreaker(circuit')
      /\ \/ cpc' = [cpc EXCEPT ![c] = "backoff"] /\ attempt[c] < limit[c] /\ result' = result
         \/ /\ cpc' = [cpc EXCEPT ![c] = "done"]
            /\ result' = [result EXCEPT ![c] = code]
  BY <1>2, ConcludeStep
<1>4. TypeOK'
  BY <1>1, <1>3 DEF CommandInv, TypeOK, GoodBreaker
<1>5. PendingIsAwaited'
  BY <1>1, <1>3 DEF CommandInv, TypeOK, PendingIsAwaited, Id
<1>6. FutureIsOutcome' /\ CallsInOrder'
  BY <1>1, <1>3 DEF CommandInv, TypeOK, FutureIsOutcome, CallsInOrder, Id
<1>. QED  BY <1>3, <1>4, <1>5, <1>6 DEF CommandInv

\* Every step of the executor, the agent and the network keeps the invariant.
LEMMA NextCommandInv == CommandInv /\ [Next]_vars => CommandInv'
<1> SUFFICES ASSUME CommandInv, [Next]_vars PROVE CommandInv'
  OBVIOUS
<1>1. ASSUME NEW c \in Calls, Reject(c) PROVE CommandInv'
  BY <1>1 DEF CommandInv, TypeOK, GoodBreaker, PendingIsAwaited, FutureIsOutcome,
              CallsInOrder, Id, Reject, netVars, ErrorCodes
<1>2. ASSUME NEW c \in Calls, Transmit(c) PROVE CommandInv'
  BY <1>2 DEF CommandInv, TypeOK, GoodBreaker, PendingIsAwaited, FutureIsOutcome,
              CallsInOrder, Id, Transmit, callVars
<1>3. ASSUME NEW c \in Calls, SendReturns(c) PROVE CommandInv'
  BY <1>3 DEF CommandInv, TypeOK, GoodBreaker, PendingIsAwaited, FutureIsOutcome,
              CallsInOrder, Id, SendReturns, callVars, netVars
<1>4. ASSUME NEW c \in Calls, SendFails(c) PROVE CommandInv'
  BY <1>4, EndStep DEF SendFails, ErrorCodes
<1>5. ASSUME NEW c \in Calls, Timeout(c) PROVE CommandInv'
  BY <1>5, EndStep DEF Timeout, ErrorCodes
<1>6. ASSUME NEW c \in Calls, Return(c) PROVE CommandInv'
  <2> DEFINE code == Classify(future[Id(c)])
  <2>1. Id(c) \in Ids
    BY DEF Id, Ids, CommandInv, TypeOK
  <2>2. future[Id(c)] \in Replies
    BY <1>6, <2>1 DEF Return, CommandInv, TypeOK
  <2>3. code \in ErrorCodes \cup {"success"} /\ (code = "success" => future[Id(c)] = "ok")
    BY <2>2, CommandAssumption DEF Classify, ErrorCodes
  <2>. QED  BY <1>6, <2>3, EndStep DEF Return
<1>7. ASSUME NEW i \in Ids, Respond(i) PROVE CommandInv'
  <2>1. TypeOK' /\ FutureIsOutcome' /\ CallsInOrder'
    BY <1>7, CommandAssumption DEF CommandInv, TypeOK, FutureIsOutcome, CallsInOrder, Id, Respond, Match
  <2>2. GoodBreaker(circuit)' /\ PendingIsAwaited'
    BY <1>7 DEF CommandInv, GoodBreaker, PendingIsAwaited, Id, Respond
  <2>. QED  BY <2>1, <2>2 DEF CommandInv
<1>8. ASSUME NEW i \in Ids, Lose(i) PROVE CommandInv'
  BY <1>8 DEF CommandInv, TypeOK, GoodBreaker, PendingIsAwaited, FutureIsOutcome,
              CallsInOrder, Id, Lose, callVars
<1>9. ASSUME NEW i \in Ids, NEW reply \in Replies, AgentExecutes(i, reply) PROVE CommandInv'
  BY <1>9 DEF CommandInv, TypeOK, GoodBreaker, PendingIsAwaited, FutureIsOutcome,
              CallsInOrder, Id, AgentExecutes, callVars
<1>10. ASSUME Reconnect PROVE CommandInv'
  <2>1. TypeOK'
    BY <1>10 DEF CommandInv, TypeOK, Reconnect, callVars
  <2>2. GoodBreaker(circuit)' /\ PendingIsAwaited' /\ FutureIsOutcome' /\ CallsInOrder'
    BY <1>10 DEF CommandInv, GoodBreaker, PendingIsAwaited, FutureIsOutcome,
                 CallsInOrder, Id, Reconnect, callVars
  <2>. QED  BY <2>1, <2>2 DEF CommandInv
<1>11. ASSUME Tick PROVE CommandInv'
  <2>1. now' \in 0 .. MaxTime
    BY <1>11, CommandAssumption DEF CommandInv, TypeOK, Tick
  <2>2. TypeOK'
    BY <1>11, <2>1 DEF CommandInv, TypeOK, Tick, callVars, netVars
  <2>3. GoodBreaker(circuit)' /\ PendingIsAwaited' /\ FutureIsOutcome' /\ CallsInOrder'
    BY <1>11 DEF CommandInv, GoodBreaker, PendingIsAwaited, FutureIsOutcome,
                 CallsInOrder, Id, Tick, callVars, netVars
  <2>. QED  BY <2>2, <2>3 DEF CommandInv
<1>12. CASE UNCHANGED vars
  BY <1>12 DEF CommandInv, TypeOK, GoodBreaker, PendingIsAwaited, FutureIsOutcome,
               CallsInOrder, Id, vars
<1>. QED
  BY <1>1, <1>2, <1>3, <1>4, <1>5, <1>6, <1>7, <1>8, <1>9, <1>10, <1>11, <1>12,
     ExecuteStep, RetryStep DEF Next, Advance

-----------------------------------------------------------------------------
\* Type correctness of the executor, its futures and the breaker.
THEOREM CommandTypeCorrect == Spec => []TypeOK
<1>1. CommandInv => TypeOK  BY DEF CommandInv
<1>. QED  BY <1>1, InitCommandInv, NextCommandInv, PTL DEF Spec

\* No exit of _execute_command_once leaks or loses a pending entry.
THEOREM PendingIsAwaitedHolds == Spec => []PendingIsAwaited
<1>1. CommandInv => PendingIsAwaited  BY DEF CommandInv
<1>. QED  BY <1>1, InitCommandInv, NextCommandInv, PTL DEF Spec

\* A reported success is the agent's own answer to that attempt.
THEOREM SuccessIsOwnResponseHolds == Spec => []SuccessIsOwnResponse
<1>1. CommandInv => SuccessIsOwnResponse
  <2> SUFFICES ASSUME CommandInv, NEW c \in Calls, result[c] = "success"
               PROVE  outcome[Id(c)] = "ok"
    BY DEF SuccessIsOwnResponse
  <2>1. Id(c) \in Ids
    BY DEF Id, Ids, CommandInv, TypeOK
  <2>2. future[Id(c)] = "ok"
    BY DEF CommandInv, CallsInOrder
  <2>. QED  BY <2>1, <2>2 DEF CommandInv, FutureIsOutcome
<1>. QED  BY <1>1, InitCommandInv, NextCommandInv, PTL DEF Spec

\* The breaker neither sticks in OPEN nor stays CLOSED past its threshold.
THEOREM BreakerWithinThresholdsHolds == Spec => []BreakerWithinThresholds
<1>1. CommandInv => BreakerWithinThresholds
  BY DEF CommandInv, GoodBreaker, BreakerWithinThresholds
<1>. QED  BY <1>1, InitCommandInv, NextCommandInv, PTL DEF Spec

\* What record_success and record_failure make of the state: a closed circuit
\* stays so or opens, an open one stays open.
LEMMA RecordingKeepsEdges ==
  ASSUME NEW cb \in CircuitType, NEW c \in Calls, NEW b, b \in {RecordSuccess(cb), RecordFailure(cb, c)}
  PROVE  /\ cb.state = "closed" => b.state \in {"closed", "open"}
         /\ cb.state = "open" => b = cb
<1>1. CASE cb.state = "closed"
  <2>1. RecordSuccess(cb) = [cb EXCEPT !.failures = {}]
    BY <1>1 DEF RecordSuccess
  <2>2. PICK kept : kept = [cb EXCEPT !.failures = InWindow(cb, c)]
    OBVIOUS
  <2>3. RecordFailure(cb, c) \in {ToOpen(kept), kept}
    BY <1>1, <2>2 DEF RecordFailure
  <2>4. kept.state = "closed" /\ ToOpen(kept).state = "open" /\ [cb EXCEPT !.failures = {}].state = "closed"
    BY <1>1, <2>2 DEF ToOpen, CircuitType
  <2>. QED  BY <1>1, <2>1, <2>3, <2>4
<1>2. CASE cb.state = "open"
  BY <1>2 DEF RecordSuccess, RecordFailure
<1>. QED  BY <1>1, <1>2

\* The end of an attempt records or leaves the circuit alone.
LEMMA ConcludeRecords ==
  ASSUME NEW c \in Calls, NEW code, NEW cb, NEW n, NEW max, Conclude(c, code, cb, n, max)
  PROVE  circuit' = cb \/ circuit' \in {RecordSuccess(cb), RecordFailure(cb, c)}
BY DEF Conclude

\* A call that ends takes the circuit along the edges of its state machine.
LEMMA EndKeepsEdges ==
  ASSUME CommandInv, NEW c \in Calls, NEW code, NEW n, NEW max, Conclude(c, code, circuit, n, max)
  PROVE  /\ circuit.state = "closed" => circuit'.state \in {"closed", "open"}
         /\ circuit.state = "open" => circuit'.state = "open"
<1>1. circuit \in CircuitType
  BY DEF CommandInv, TypeOK
<1>2. circuit' = circuit \/ circuit' \in {RecordSuccess(circuit), RecordFailure(circuit, c)}
  BY ConcludeRecords
<1>3. PICK b : b = circuit'
  OBVIOUS
<1>. QED  BY <1>1, <1>2, <1>3, RecordingKeepsEdges

\* For every number of concurrent calls, threshold and window, the circuit of
\* an agent moves only along the edges of the class comment's state machine:
\* CLOSED to OPEN, OPEN to HALF_OPEN once the timeout has expired.
THEOREM BreakerEdgesHold == Spec => BreakerEdges
<1> DEFINE Edge == circuit'.state # circuit.state =>
                     \/ circuit.state = "closed" /\ circuit'.state = "open"
                     \/ circuit.state = "half_open"
                     \/ circuit.state = "open" /\ TimedOut(circuit) /\ circuit'.state = "half_open"
<1>1. CommandInv /\ [Next]_vars => Edge
  <2> SUFFICES ASSUME CommandInv, [Next]_vars PROVE Edge
    OBVIOUS
  <2>1. circuit \in CircuitType /\ circuit.state \in {"closed", "open", "half_open"}
    BY DEF CommandInv, TypeOK, CircuitType
  <2>2. ASSUME NEW c \in Calls, SendFails(c) \/ Return(c) \/ Timeout(c) PROVE Edge
    BY <2>1, <2>2, EndKeepsEdges DEF SendFails, Return, Timeout
  <2>3. ASSUME NEW c \in Calls, Retry(c) PROVE Edge
    <3>1. circuit' = circuit \/ \E code, n, max : Conclude(c, code, circuit, n, max)
      BY <2>3 DEF Retry, BeginAttempt
    <3>. QED  BY <2>1, <3>1, EndKeepsEdges
  <2>4. ASSUME NEW c \in Calls, NEW max \in 1 .. MaxAttempts, Execute(c, max) PROVE Edge
    <3>1. circuit.state = "open" => TimedOut(circuit)
      BY <2>4 DEF Execute, ShouldAllowRequest
    <3>2. PICK cb : cb = Admit(circuit)
      OBVIOUS
    <3>3. circuit' = cb \/ circuit' = RecordFailure(cb, c)
      BY <2>4, <3>2 DEF Execute, BeginAttempt, Conclude
    <3>4. CASE circuit.state = "open"
      <4>1. cb.state = "half_open" /\ cb = ToHalfOpen(circuit)
        BY <3>2, <3>4 DEF Admit, ToHalfOpen
      <4>2. RecordFailure(cb, c).state = "open"
        BY <4>1 DEF RecordFailure, ToOpen
      <4>. QED  BY <3>1, <3>3, <3>4, <4>1, <4>2
    <3>5. CASE circuit.state # "open"
      <4>1. cb = circuit
        BY <3>2, <3>5 DEF Admit
      <4>2. PICK b : b = circuit'
        OBVIOUS
      <4>. QED  BY <2>1, <3>3, <3>5, <4>1, <4>2, RecordingKeepsEdges
    <3>. QED  BY <3>4, <3>5
  <2>5. ASSUME circuit' = circuit PROVE Edge
    BY <2>5
  <2>6. \/ \E c \in Calls : SendFails(c) \/ Return(c) \/ Timeout(c)
        \/ \E c \in Calls : Retry(c)
        \/ \E c \in Calls, max \in 1 .. MaxAttempts : Execute(c, max)
        \/ circuit' = circuit
    BY DEF Next, Advance, SendReturns, Transmit, Reject, Respond, Lose, AgentExecutes, Reconnect, Tick, vars
  <2>. QED  BY <2>2, <2>3, <2>4, <2>5, <2>6
<1>. QED  BY <1>1, InitCommandInv, NextCommandInv, PTL DEF Spec, BreakerEdges

(***************************************************************************)
(* The connections of agents.  The inductive invariant LinkInv adds to the *)
(* properties what the code relies on without saying it: who holds the     *)
(* lock and what it knows of the socket it closes, that an authenticated   *)
(* socket has an agent, and that a shell's endpoint saw a socket that had  *)
(* registered.                                                             *)
(***************************************************************************)

\* A socket past authentication has an agent, whose row exists until the
\* agent's host is removed.
AuthenticatedHasAgent ==
    \A s \in Sockets :
        /\ hpc[s] \notin {"new", "done"} => agentOf[s] \in Agents
        /\ agentOf[s] \in Agents /\ removing[agentOf[s]] = "no"
              => row[agentOf[s]]

\* The lock is held across an await only by the socket that is closing the
\* one it supersedes, and that one is closed and still registered.
LockHolderCloses ==
    \A s \in Sockets :
        /\ hpc[s] = "closing_old" <=> lockHolder = s
        /\ hpc[s] = "closing_old" =>
              /\ connections[agentOf[s]] # None
              /\ ~open[connections[agentOf[s]]]

\* The socket a shell endpoint saw had registered before.
ShellsFollowRegistration ==
    /\ \A x \in Shells : shell[x] # "unused" =>
          /\ openedOn[x] \in Sockets
          /\ hpc[openedOn[x]] \notin {"new", "authed", "closing_old"}
    /\ \A k \in Sockets \cup Agents : \A x \in toClose[k] : shell[x] # "unused"

LinkInv ==
    /\ LinkTypeOK
    /\ AuthenticatedHasAgent
    /\ LockHolderCloses
    /\ NoZombieEntry
    /\ LiveSocketIsRegistered
    /\ LiveAgentIsOnline
    /\ LiveHostReportedUp
    /\ ShellsFollowRegistration
    /\ TeardownSparesLiveShells

USE NoneIsFresh DEF HandlerPoints, Registered

\* The empty registry satisfies the inductive invariant.
LEMMA InitLinkInv == LinkInit => LinkInv
  BY DEF LinkInit, LinkInv, LinkTypeOK, AuthenticatedHasAgent, LockHolderCloses,
         NoZombieEntry, InService, LiveSocketIsRegistered, LiveAgentIsOnline,
         LiveHostReportedUp, ShellsFollowRegistration, TeardownSparesLiveShells
\* A socket enters the registry, with nobody to supersede or after it has
\* closed the socket it supersedes.
LEMMA RegisterStep ==
  ASSUME LinkInv, NEW s \in Sockets, Register(s)
  PROVE  LinkInv'
<1> DEFINE a == agentOf[s]
<1>1. a \in Agents /\ connections[a] \in Sockets \cup {None}
  BY DEF Register, LinkInv, AuthenticatedHasAgent, LinkTypeOK
<1>2. CASE connections[a] = None
  <2>1. /\ hpc[s] = "authed" /\ open[s] /\ lockHolder = None
        /\ Enter(s, a)
        /\ UNCHANGED <<open, lockHolder, agentOf, row, reported, removing,
                       shellVars>>
    BY <1>2 DEF Register
  <2>2. \A t \in Sockets : t # s /\ agentOf[t] = a
           => ~InService(t, {"syncing", "loop"})
    BY <1>1, <1>2 DEF LinkInv, LiveSocketIsRegistered
  <2>. QED
    BY <1>1, <1>2, <2>1, <2>2
    DEF Enter, LinkInv, LinkTypeOK, AuthenticatedHasAgent, LockHolderCloses,
         NoZombieEntry, InService, LiveSocketIsRegistered, LiveAgentIsOnline,
         LiveHostReportedUp, ShellsFollowRegistration,
         TeardownSparesLiveShells, registryVars, dbVars, shellVars
<1>3. CASE connections[a] # None
  <2> DEFINE old == connections[a]
  <2>1. old \in Sockets /\ old # s /\ hpc[old] \in Registered /\ agentOf[old] = a
    BY <1>1, <1>3 DEF Register, LinkInv, NoZombieEntry
  <2>2. /\ hpc[s] = "authed" /\ open[s] /\ lockHolder = None
        /\ open' = [open EXCEPT ![old] = FALSE]
        /\ lockHolder' = s
        /\ hpc' = [hpc EXCEPT ![s] = "closing_old"]
        /\ UNCHANGED <<connections, status, agentOf, row, reported, removing,
                       shellVars>>
    BY <1>3 DEF Register
  <2>. QED
    BY <1>1, <1>3, <2>1, <2>2
    DEF LinkInv, LinkTypeOK, AuthenticatedHasAgent, LockHolderCloses,
         NoZombieEntry, InService, LiveSocketIsRegistered, LiveAgentIsOnline,
         LiveHostReportedUp, ShellsFollowRegistration,
         TeardownSparesLiveShells, registryVars, dbVars, shellVars
<1>. QED  BY <1>2, <1>3

\* A teardown removes the entry of its own socket or, superseded, nothing.
LEMMA UnregisterStep ==
  ASSUME LinkInv, NEW s \in Sockets, Unregister(s)
  PROVE  LinkInv'
<1> DEFINE a == agentOf[s]
<1>1. a \in Agents
  BY DEF Unregister, LinkInv, AuthenticatedHasAgent
<1>2. CASE IsCurrent(s, a)
  <2>1. /\ hpc[s] = "teardown" /\ lockHolder = None
        /\ connections' = [connections EXCEPT ![a] = None]
        /\ status' = IF row[a] THEN [status EXCEPT ![a] = "offline"] ELSE status
        /\ reported' = [reported EXCEPT ![a] = "down"]
        /\ hpc' = [hpc EXCEPT ![s] = "emitting"]
        /\ UNCHANGED <<toClose, agentOf, open, lockHolder, row, removing, shell,
                       openedOn>>
    BY <1>2 DEF Unregister
  <2>2. \A t \in Sockets : agentOf[t] = a
           => ~InService(t, {"syncing", "loop"})
    BY <1>1, <1>2, <2>1 DEF IsCurrent, InService, LinkInv, LiveSocketIsRegistered
  <2>. QED
    BY <1>1, <1>2, <2>1, <2>2
    DEF IsCurrent, LinkInv, LinkTypeOK, AuthenticatedHasAgent, LockHolderCloses,
         NoZombieEntry, InService, LiveSocketIsRegistered, LiveAgentIsOnline,
         LiveHostReportedUp, ShellsFollowRegistration,
         TeardownSparesLiveShells, registryVars, dbVars, shellVars
<1>3. CASE ~IsCurrent(s, a)
  <2>1. /\ hpc[s] = "teardown" /\ ShellCheck(s)
        /\ UNCHANGED <<connections, status, reported, agentOf, open, lockHolder,
                       row, removing, shell, openedOn>>
    BY <1>3 DEF Unregister
  <2>. QED
    BY <1>1, <1>3, <2>1
    DEF IsCurrent, ShellCheck, MayCloseShells, SessionsOf,
         LinkInv, LinkTypeOK, AuthenticatedHasAgent, LockHolderCloses,
         NoZombieEntry, InService, LiveSocketIsRegistered, LiveAgentIsOnline,
         LiveHostReportedUp, ShellsFollowRegistration,
         TeardownSparesLiveShells, registryVars, dbVars, shellVars
<1>. QED  BY <1>2, <1>3

\* Every step of the link preserves the inductive invariant: one case per
\* action.
LEMMA NextLinkInv == LinkInv /\ [LinkNext]_linkVars => LinkInv'
<1> SUFFICES ASSUME LinkInv, [LinkNext]_linkVars PROVE LinkInv'
  OBVIOUS
<1> USE DEF LinkInv, LinkTypeOK, AuthenticatedHasAgent, LockHolderCloses,
            NoZombieEntry, InService, LiveSocketIsRegistered,
            LiveAgentIsOnline, LiveHostReportedUp, ShellsFollowRegistration,
            TeardownSparesLiveShells, registryVars, dbVars, shellVars
<1>1. ASSUME NEW s \in Sockets, NEW a \in Agents, Authenticate(s, a) PROVE LinkInv'
  BY <1>1 DEF Authenticate
<1>2. ASSUME NEW s \in Sockets, RejectAuth(s) PROVE LinkInv'
  BY <1>2 DEF RejectAuth
<1>3. ASSUME NEW s \in Sockets, RegisterAfterClose(s) PROVE LinkInv'
  BY <1>3 DEF RegisterAfterClose, Enter
<1>4. ASSUME NEW s \in Sockets, EmitConnected(s) PROVE LinkInv'
  BY <1>4 DEF EmitConnected
<1>5. ASSUME NEW s \in Sockets, LosePeer(s) PROVE LinkInv'
  BY <1>5 DEF LosePeer
<1>6. ASSUME NEW s \in Sockets, Disconnect(s) PROVE LinkInv'
  BY <1>6 DEF Disconnect
<1>7. ASSUME NEW s \in Sockets, AfterEmit(s) PROVE LinkInv'
  BY <1>7 DEF AfterEmit, ShellCheck, MayCloseShells, SessionsOf
<1>8. ASSUME NEW s \in Sockets, NEW x \in Shells, CloseShell(s, x) PROVE LinkInv'
  BY <1>8 DEF CloseShell
<1>9. ASSUME NEW a \in Agents, RemoveHost(a) PROVE LinkInv'
  BY <1>9 DEF RemoveHost, SessionsOf
<1>10. ASSUME NEW a \in Agents, NEW x \in Shells, RemoveShell(a, x) PROVE LinkInv'
  BY <1>10 DEF RemoveShell
<1>11. ASSUME NEW a \in Agents, DeleteRow(a) PROVE LinkInv'
  BY <1>11 DEF DeleteRow
<1>12. ASSUME NEW x \in Shells, NEW a \in Agents, OpenShell(x, a) PROVE LinkInv'
  BY <1>12 DEF OpenShell
<1>13. ASSUME NEW x \in Shells, StartSession(x) PROVE LinkInv'
  BY <1>13 DEF StartSession
<1>14. ASSUME NEW x \in Shells, EndSession(x) PROVE LinkInv'
  BY <1>14 DEF EndSession
<1>15. CASE UNCHANGED linkVars
  BY <1>15 DEF linkVars
<1>. QED
  BY <1>1, <1>2, <1>3, <1>4, <1>5, <1>6, <1>7, <1>8, <1>9, <1>10, <1>11, <1>12, <1>13, <1>14, <1>15,
     RegisterStep, UnregisterStep DEF LinkNext, Handler

\* Type correctness of the registry, the handlers, the database and the shells.
THEOREM LinkTypeCorrect == LinkSpec => []LinkTypeOK
<1>1. LinkInv => LinkTypeOK  BY DEF LinkInv
<1>. QED  BY <1>1, InitLinkInv, NextLinkInv, PTL DEF LinkSpec

\* No registry entry outlives its handler's teardown (register_connection and
\* unregister_connection, for any number of agents and sockets).
THEOREM NoZombieEntryHolds == LinkSpec => []NoZombieEntry
<1>1. LinkInv => NoZombieEntry  BY DEF LinkInv
<1>. QED  BY <1>1, InitLinkInv, NextLinkInv, PTL DEF LinkSpec

\* A stale teardown never evicts a live connection.
THEOREM LiveSocketIsRegisteredHolds == LinkSpec => []LiveSocketIsRegistered
<1>1. LinkInv => LiveSocketIsRegistered  BY DEF LinkInv
<1>. QED  BY <1>1, InitLinkInv, NextLinkInv, PTL DEF LinkSpec

\* A served agent is online in the database.
THEOREM LiveAgentIsOnlineHolds == LinkSpec => []LiveAgentIsOnline
<1>1. LinkInv => LiveAgentIsOnline  BY DEF LinkInv
<1>. QED  BY <1>1, InitLinkInv, NextLinkInv, PTL DEF LinkSpec

\* A served host's last logged event is HOST_CONNECTED.
THEOREM LiveHostReportedUpHolds == LinkSpec => []LiveHostReportedUp
<1>1. LinkInv => LiveHostReportedUp  BY DEF LinkInv
<1>. QED  BY <1>1, InitLinkInv, NextLinkInv, PTL DEF LinkSpec

\* No teardown closes a shell opened on the connection registered now.
THEOREM TeardownSparesLiveShellsHolds == LinkSpec => []TeardownSparesLiveShells
<1>1. LinkInv => TeardownSparesLiveShells  BY DEF LinkInv
<1>. QED  BY <1>1, InitLinkInv, NextLinkInv, PTL DEF LinkSpec

\* Registry, database status and last host event follow the live socket, for
\* any number of agents, sockets and shells.
THEOREM RegistryFollowsSocketHolds == LinkSpec => []RegistryFollowsSocket
<1>1. LinkInv => RegistryFollowsSocket  BY DEF LinkInv, RegistryFollowsSocket
<1>. QED  BY <1>1, InitLinkInv, NextLinkInv, PTL DEF LinkSpec
=============================================================================
