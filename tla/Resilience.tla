----------------------------- MODULE Resilience -----------------------------
(***************************************************************************)
(* runtime/fallback.py: the circuit breaker, the retry loop and the chain  *)
(* of fallback strategies, put together the way the three are made to be:  *)
(* a caller runs a FallbackChain of two strategies, first retry_async over *)
(* CircuitBreaker.call of a cloud function, then a local function.         *)
(*                                                                         *)
(* The callers share one breaker and one event loop; a step is the code    *)
(* between two awaits.  The failure counter is only compared with the      *)
(* threshold and reset, so it stops there; `since` is the time since       *)
(* _last_failure and stops once it is over the reset timeout.              *)
(***************************************************************************)
EXTENDS Integers, FiniteSets

CONSTANTS Callers,       \* tasks that run the chain
          Threshold,     \* CircuitBreaker.failure_threshold
          ResetTimeout,  \* CircuitBreaker.reset_timeout, in ticks
          MaxRetries,    \* RetryConfig.max_retries
          BaseDelay,     \* RetryConfig.base_delay
          MaxDelay,      \* RetryConfig.max_delay
          Factor         \* RetryConfig.backoff_factor

ASSUME BreakerAssumption == Threshold \in Nat \ {0} /\ ResetTimeout \in Nat
ASSUME RetryAssumption == MaxRetries \in Nat
ASSUME DelayAssumption == BaseDelay \in Nat /\ MaxDelay \in Nat /\ Factor \in Nat

VARIABLES
  state,     \* CircuitBreaker._state
  failures,  \* CircuitBreaker._failures
  since,     \* time since CircuitBreaker._last_failure
  at,        \* where each caller is in the chain
  attempt,   \* retry_async: the attempt under way, from 0
  delay,     \* retry_async: the delay before the next attempt
  admitted   \* the calls that were under way when the circuit opened last

breakerVars == <<state, failures, since>>
callerVars == <<at, attempt, delay>>
resilienceVars == <<breakerVars, callerVars, admitted>>

Under == {c \in Callers : at[c] = "call"}

ResilienceInit ==
  /\ state = "closed"
  /\ failures = 0
  /\ since = ResetTimeout + 1
  /\ at = [c \in Callers |-> "idle"]
  /\ attempt = [c \in Callers |-> 0]
  /\ delay = [c \in Callers |-> BaseDelay]
  /\ admitted = {}

-----------------------------------------------------------------------------
(* The breaker.                                                            *)

\* is_open answers yes.
IsOpen == state = "open" /\ since <= ResetTimeout

RecordSuccess ==
  /\ failures' = 0
  /\ state' = "closed"
  /\ UNCHANGED <<since, admitted>>

\* record_failure, of a call that is over; `admitted` notes the others.
RecordFailure(c) ==
  LET n == IF failures < Threshold THEN failures + 1 ELSE Threshold IN
  /\ failures' = n
  /\ since' = 0
  /\ state' = IF n >= Threshold THEN "open" ELSE state
  /\ admitted' = IF n >= Threshold /\ state # "open" THEN Under \ {c} ELSE admitted

-----------------------------------------------------------------------------
(* retry_async and the chain.                                              *)

Goto(c, label) == at' = [at EXCEPT ![c] = label]

\* The caller is done; the next chain starts with fresh locals.
Leave(c) ==
  /\ Goto(c, "idle")
  /\ attempt' = [attempt EXCEPT ![c] = 0]
  /\ delay' = [delay EXCEPT ![c] = BaseDelay]
  /\ UNCHANGED <<breakerVars, admitted>>

\* for attempt in range(max_retries + 1): no attempt is left after this one.
OutOfAttempts(c) == attempt[c] >= MaxRetries

\* An attempt raised something retryable: sleep, or give the strategy up.
AttemptFailed(c) ==
  IF OutOfAttempts(c)
  THEN Goto(c, "local") /\ UNCHANGED <<attempt, delay>>
  ELSE Goto(c, "sleep") /\ UNCHANGED <<attempt, delay>>

\* A mutation: the circuit stays "open" when the reset timeout is over.
EnterCallStaysOpen(c) ==
  IF IsOpen
  THEN AttemptFailed(c) /\ UNCHANGED <<breakerVars, admitted>>
  ELSE Goto(c, "call") /\ UNCHANGED <<breakerVars, attempt, delay, admitted>>

\* CircuitBreaker.call up to its await: an open circuit raises ConnectionError,
\* which is retryable, unless the reset timeout is over.
EnterCall(c) ==
  IF IsOpen
  THEN AttemptFailed(c) /\ UNCHANGED <<breakerVars, admitted>>
  ELSE /\ Goto(c, "call")
       /\ state' = IF state = "open" THEN "half-open" ELSE state
       /\ UNCHANGED <<failures, since, attempt, delay, admitted>>

\* FallbackChain.execute and retry_async start.
Begin(c) ==
  /\ at[c] = "idle"
  /\ Goto(c, "enter")
  /\ UNCHANGED <<breakerVars, attempt, delay, admitted>>

Enter(c) == at[c] = "enter" /\ EnterCall(c)

\* The cloud function returns; so does the chain.
CallOk(c) ==
  /\ at[c] = "call"
  /\ RecordSuccess
  /\ Goto(c, "answered")
  /\ UNCHANGED <<attempt, delay>>

\* The cloud function raises something retryable.
CallRaises(c) == at[c] = "call" /\ RecordFailure(c) /\ AttemptFailed(c)

\* The cloud function raises something else: no retry, the next strategy.
CallRefused(c) ==
  /\ at[c] = "call"
  /\ RecordFailure(c)
  /\ Goto(c, "local")
  /\ UNCHANGED <<attempt, delay>>

\* The caller's task is cancelled; CancelledError is no Exception, so nothing
\* is recorded and the chain does not go on.
Cancel(c) ==
  /\ at[c] \in {"call", "sleep"}
  /\ Leave(c)

\* min(delay * backoff_factor, max_delay)
BackedOff(d) == IF d * Factor < MaxDelay THEN d * Factor ELSE MaxDelay

\* A mutation: the attempt is not counted.
WakeUpUncounted(c) ==
  /\ at[c] = "sleep"
  /\ delay' = [delay EXCEPT ![c] = BackedOff(@)]
  /\ Goto(c, "enter")
  /\ UNCHANGED <<breakerVars, attempt, admitted>>

\* asyncio.sleep(delay) is over: the next attempt starts.
WakeUp(c) ==
  /\ at[c] = "sleep"
  /\ delay' = [delay EXCEPT ![c] = BackedOff(@)]
  /\ attempt' = [attempt EXCEPT ![c] = @ + 1]
  /\ Goto(c, "enter")
  /\ UNCHANGED <<breakerVars, admitted>>

\* The local strategy returns, or raises and the chain raises last_error.
RunLocal(c) ==
  /\ at[c] = "local"
  /\ \E label \in {"answered", "raised"} : Goto(c, label)
  /\ UNCHANGED <<breakerVars, attempt, delay, admitted>>

\* The caller takes the outcome.
ChainReturns(c) ==
  /\ at[c] \in {"answered", "raised"}
  /\ Leave(c)

Elapse ==
  /\ since <= ResetTimeout
  /\ since' = since + 1
  /\ UNCHANGED <<state, failures, callerVars, admitted>>

CallerStep(c) ==
  Enter(c) \/ CallOk(c) \/ CallRaises(c) \/ CallRefused(c) \/ WakeUp(c) \/ RunLocal(c) \/ ChainReturns(c)

ResilienceNext == Elapse \/ \E c \in Callers : Begin(c) \/ Cancel(c) \/ CallerStep(c)

\* Calls and sleeps end, and the event loop runs every task that can run.
ResilienceFairness == \A c \in Callers : WF_resilienceVars(CallerStep(c))

ResilienceSafety == ResilienceInit /\ [][ResilienceNext]_resilienceVars
ResilienceSpec == ResilienceSafety /\ ResilienceFairness

-----------------------------------------------------------------------------

\* The state is well typed; in particular the loop of retry_async never counts
\* beyond max_retries.
ResilienceTypeOK ==
  /\ state \in {"closed", "open", "half-open"}
  /\ failures \in 0 .. Threshold
  /\ since \in 0 .. ResetTimeout + 1
  /\ at \in [Callers -> {"idle", "enter", "call", "sleep", "local", "answered", "raised"}]
  /\ attempt \in [Callers -> 0 .. MaxRetries]
  /\ delay \in [Callers -> Nat]
  /\ admitted \subseteq Callers

\* The breaker's state and its counter agree through any interleaving of late
\* successes, late failures and probes: the circuit is closed exactly while
\* fewer than failure_threshold calls have failed in a row.
StateMatchesCount == state = "closed" <=> failures < Threshold

\* While the circuit is open the cloud gets no new call, whatever retries are under
\* way: the calls that are running were running when it opened.
OpenShedsLoad == state = "open" => Under \subseteq admitted

\* FallbackChain.execute comes back with an answer or an error, whatever the breaker
\* and the cloud do, unless its task is cancelled.
ChainEnds ==
  \A c \in Callers : at[c] = "enter" ~> at[c] \in {"answered", "raised", "idle"}

\* What holds of the breaker and its callers at any time: no caller makes more attempts than it may,
\* and the breaker neither forgets failures nor lets a call through an open circuit.
BreakerSafe == ResilienceTypeOK /\ StateMatchesCount /\ OpenShedsLoad
=============================================================================
