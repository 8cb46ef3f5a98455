----------------------------- MODULE LocalBreaker -----------------------------
(***************************************************************************)
(* The circuit breaker of one process (tools/circuit_breaker.py), which    *)
(* the provider clients use where the application factory has not given    *)
(* them the shared one of ProviderBreaker.  Each method runs under the     *)
(* lock of the breaker and is one step of the thread that calls it.        *)
(***************************************************************************)
EXTENDS Integers, FiniteSetsExt

CONSTANTS
  Threshold,   \* failure_threshold
  Recovery     \* recovery_timeout_seconds

ASSUME BreakerAssumption == Threshold \in Nat \ {0} /\ Recovery \in Nat \ {0}

VARIABLE breaker   \* _state, _failure_count and the time left since _opened_at

NewBreaker == [state |-> "closed", failures |-> 0, openFor |-> 0]

\* _transition_if_recoverable, the first step of every admission and no change
\* of its own: an open breaker whose time is over is half open.
BreakerState == IF breaker.state = "open" /\ breaker.openFor = 0 THEN "half_open" ELSE breaker.state

\* before_request: unlike the shared breaker, whoever comes while it is half
\* open passes.
BeforeRequest == BreakerState # "open" /\ breaker' = [breaker EXCEPT !.state = BreakerState]

IsOpen == BreakerState = "open"

\* Mutant: the count survives a success.
RecordSuccess_KeepsCount == breaker' = [NewBreaker EXCEPT !.failures = breaker.failures]

RecordSuccess == breaker' = NewBreaker

\* The count is only compared with the threshold, so it stops there.
RecordFailure ==
  LET failures == Min({breaker.failures + 1, Threshold}) IN
    breaker' = IF failures = Threshold
               THEN [state |-> "open", failures |-> failures, openFor |-> Recovery]
               ELSE [breaker EXCEPT !.failures = failures]

BreakerTick == breaker.openFor > 0 /\ breaker' = [breaker EXCEPT !.openFor = @ - 1]
=============================================================================
