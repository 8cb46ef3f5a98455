--------------------------- MODULE ProviderBreaker ---------------------------
(***************************************************************************)
(* The circuit breaker that all API and worker processes share for one     *)
(* provider (storage/repositories.py,                                      *)
(* PostgresProviderCircuitBreakerRepository, behind                        *)
(* services/provider_circuit_breaker.py) and the calls that pass through   *)
(* it: tools/arxiv_client.py and tools/semantic_scholar_client.py with     *)
(* their tenacity retries.                                                 *)
(*                                                                         *)
(* Each repository method is one transaction under the row lock.  Between  *)
(* its admission and its record a call sleeps in the rate limiter and      *)
(* waits for the provider, so other calls see and change the breaker.      *)
(***************************************************************************)
EXTENDS Integers

CONSTANTS
  Callers,        \* calls that may be in progress at the same time
  NoCaller,       \* no probe
  NotFoundIsUp,   \* callers that record a 404 as success: get_metadata, all of S2
  Degrading,      \* callers that record a 429 of the last try as success: all of S2
  Threshold,      \* failure_threshold
  Recovery,       \* recovery_timeout_seconds
  MaxTries,       \* stop_after_attempt
  MaxOutages      \* bound: errors of the breaker's own database in a behaviour

ASSUME CallersAssumption ==
  /\ NoCaller \notin Callers
  /\ NotFoundIsUp \subseteq Callers
  /\ Degrading \subseteq Callers

ASSUME NumbersAssumption ==
  /\ Threshold \in Nat \ {0}
  /\ Recovery \in Nat \ {0}
  /\ MaxTries \in Nat \ {0}
  /\ MaxOutages \in Nat

VARIABLES
  state,     \* provider_circuit_breakers.state
  failures,  \* failure_count
  openFor,   \* ticks left until open_until
  pc,        \* where each call is; an answer's name once the provider answered
  tries,     \* requests sent by the call so far
  probe,     \* history: the caller that turned the breaker half open
  calm,      \* history: ticks since the breaker last let a request through or
             \* recorded a failure, up to Recovery
  outages    \* errors of the breaker's database so far

breaker == <<state, failures, openFor>>
vars == <<state, failures, openFor, pc, tries, probe, calm, outages>>

\* What may come back, as classify_provider_exception tells it apart: a good
\* response, a 404 (S2: or a 403), a 429, another 4xx or an answer that the
\* client rejects as invalid (a PDF too large), and what counts as a failure: a
\* 5xx, a timeout, a lost connection, an answer that cannot be parsed.
Answers == {"ok", "not_found", "throttled", "invalid", "broken"}
Steps == {"idle", "asking", "sending"} \cup Answers

Init ==
  /\ state = "closed"
  /\ failures = 0
  /\ openFor = 0
  /\ pc = [c \in Callers |-> "idle"]
  /\ tries = [c \in Callers |-> 0]
  /\ probe = NoCaller
  /\ calm = 0
  /\ outages = 0

-----------------------------------------------------------------------------
(* Calls *)

Goto(c, step) == pc' = [pc EXCEPT ![c] = step]

Return(c) ==
  /\ Goto(c, "idle")
  /\ tries' = [tries EXCEPT ![c] = 0]

Send(c) ==
  /\ Goto(c, "sending")
  /\ tries' = [tries EXCEPT ![c] = @ + 1]

TriesLeft(c) == tries[c] < MaxTries

\* The exception of a try is raised to tenacity: try again or give up.
Raise(c) == IF TriesLeft(c) THEN Goto(c, "asking") /\ UNCHANGED tries ELSE Return(c)

\* The breaker's database is down: both sides of the breaker fail open.
Outage == outages < MaxOutages /\ outages' = outages + 1

Call(c) ==
  /\ pc[c] = "idle"
  /\ Goto(c, "asking")
  /\ UNCHANGED <<breaker, tries, probe, calm, outages>>

-----------------------------------------------------------------------------
(* before_request *)

Admit(c) ==
  /\ pc[c] = "asking"
  /\ state = "closed"
  /\ calm' = 0
  /\ Send(c)
  /\ UNCHANGED <<breaker, probe, outages>>

\* Mutant: the timeout is never over.
AdmitProbe_Never(c) ==
  /\ pc[c] = "asking"
  /\ state = "open"
  /\ openFor < 0
  /\ state' = "half_open"
  /\ probe' = c
  /\ calm' = 0
  /\ Send(c)
  /\ UNCHANGED <<failures, openFor, outages>>

\* The first request after open_until becomes the probe.
AdmitProbe(c) ==
  /\ pc[c] = "asking"
  /\ state = "open"
  /\ openFor = 0
  /\ state' = "half_open"
  /\ probe' = c
  /\ calm' = 0
  /\ Send(c)
  /\ UNCHANGED <<failures, openFor, outages>>

\* CircuitBreakerOpenError is not retryable.
Deny(c) ==
  /\ pc[c] = "asking"
  /\ state = "half_open" \/ (state = "open" /\ openFor > 0)
  /\ Return(c)
  /\ UNCHANGED <<breaker, probe, calm, outages>>

AdmitBlindly(c) ==
  /\ pc[c] = "asking"
  /\ Outage
  /\ Send(c)
  /\ UNCHANGED <<breaker, probe, calm>>

-----------------------------------------------------------------------------
(* The answer and its record *)

\* The rate limiter's sleep, the request and the provider's answer.
Answer(c) ==
  /\ pc[c] = "sending"
  /\ \E answer \in Answers : Goto(c, answer)
  /\ UNCHANGED <<breaker, tries, probe, calm, outages>>

CountsAsUp(c) ==
  \/ pc[c] = "ok"
  \/ pc[c] = "not_found" /\ c \in NotFoundIsUp
  \/ pc[c] = "throttled" /\ c \in Degrading /\ ~TriesLeft(c)

\* Mutant: the failures counted so far are kept.
RecordSuccess_KeepsCount(c) ==
  /\ CountsAsUp(c)
  /\ state' = "closed"
  /\ openFor' = 0
  /\ probe' = NoCaller
  /\ Return(c)
  /\ UNCHANGED <<failures, calm, outages>>

\* record_success: whatever the state, the breaker closes.
RecordSuccess(c) ==
  /\ CountsAsUp(c)
  /\ state' = "closed"
  /\ failures' = 0
  /\ openFor' = 0
  /\ probe' = NoCaller
  /\ Return(c)
  /\ UNCHANGED <<calm, outages>>

\* Mutant: an open breaker keeps the open_until of the failure that opened it.
OpenBreaker_KeepsTimeout ==
  /\ state' = "open"
  /\ openFor' = IF openFor = 0 THEN Recovery ELSE openFor
  /\ probe' = NoCaller

\* _open_breaker
OpenBreaker ==
  /\ state' = "open"
  /\ openFor' = Recovery
  /\ probe' = NoCaller

\* record_failure
RecordFailure(c) ==
  /\ pc[c] = "broken"
  /\ \/ /\ state = "half_open"
        /\ OpenBreaker
        /\ UNCHANGED failures
     \/ /\ state # "half_open"
        /\ failures' = failures + 1
        /\ IF failures + 1 >= Threshold
           THEN OpenBreaker
           ELSE UNCHANGED <<state, openFor, probe>>
  /\ calm' = 0
  /\ Raise(c)
  /\ UNCHANGED outages

\* A 429 is tried again and, like the 404 and the other answers of a provider
\* that is up, not recorded.
Unrecorded(c) ==
  /\ ~CountsAsUp(c)
  /\ \/ pc[c] = "throttled" /\ Raise(c)
     \/ pc[c] \in {"not_found", "invalid"} /\ Return(c)
  /\ UNCHANGED <<breaker, probe, calm, outages>>

\* The record is lost to an outage and the call goes on (fail_open).
RecordLost(c) ==
  /\ Outage
  /\ \/ CountsAsUp(c) /\ Return(c)
     \/ pc[c] = "broken" /\ Raise(c)
  /\ UNCHANGED <<breaker, probe, calm>>

\* The process dies before it recorded anything.
Crash(c) ==
  /\ pc[c] # "idle"
  /\ Return(c)
  /\ UNCHANGED <<breaker, probe, calm, outages>>

\* One less, but never below zero.
Down(n) == IF n > 0 THEN n - 1 ELSE 0

Tick ==
  /\ openFor > 0 \/ calm < Recovery
  /\ openFor' = Down(openFor)
  /\ calm' = IF calm < Recovery THEN calm + 1 ELSE calm
  /\ UNCHANGED <<state, failures, pc, tries, probe, outages>>

Ask(c) == Admit(c) \/ AdmitProbe(c) \/ Deny(c) \/ AdmitBlindly(c)

Record(c) == RecordSuccess(c) \/ RecordFailure(c) \/ Unrecorded(c) \/ RecordLost(c)

Proceed(c) == Ask(c) \/ Answer(c) \/ Record(c)

Next ==
  \/ \E c \in Callers : Call(c) \/ Proceed(c) \/ Crash(c)
  \/ Tick

Spec == Init /\ [][Next]_vars

\* Time passes, papers keep being analyzed, requests end (httpx timeouts), and
\* processes do not die for ever just before the next step of a call.
FairSpec ==
  /\ Spec
  /\ WF_vars(Tick)
  /\ \A c \in Callers : WF_vars(Call(c)) /\ SF_vars(Proceed(c))

-----------------------------------------------------------------------------
(* Properties *)

TypeOK ==
  /\ state \in {"closed", "open", "half_open"}
  /\ failures \in Nat
  /\ openFor \in 0..Recovery
  /\ pc \in [Callers -> Steps]
  /\ tries \in [Callers -> 0..MaxTries]
  /\ probe \in Callers \cup {NoCaller}
  /\ calm \in 0..Recovery
  /\ outages \in 0..MaxOutages

\* The breaker is closed exactly while fewer failures than the threshold have
\* been recorded since the last success, in whatever order slow calls from
\* before and after a state change record theirs.
StateMatchesCount ==
  /\ state = "closed" <=> failures < Threshold
  /\ openFor > 0 => state = "open"
  /\ state = "half_open" <=> probe # NoCaller

\* What the breaker is for (docs/DISTRIBUTED_RESILIENCE_RUNBOOK.md): until a
\* provider has answered well again it gets one request per recovery timeout,
\* of all callers together.  Whoever is let through while the breaker is not
\* closed comes a whole timeout after the last request that was let through and
\* after the last failure that was recorded, be it the probe's or that of a
\* slow call from before the opening or of a probe that another has replaced.
\* Only an error of the breaker's own database lets more through.
ProviderIsSpared ==
  [][\A c \in Callers :
       state # "closed" /\ pc[c] = "asking" /\ pc'[c] = "sending"
         => calm = Recovery \/ outages' = outages + 1]_vars

\* An open breaker does not stay open: failures that slow calls record late
\* extend the timeout only so often.
OpenIsProbed == state = "open" ~> state # "open"

\* docs/DISTRIBUTED_RESILIENCE_RUNBOOK.md: half_open means that one shared
\* probe is in flight.  Probes end, so half_open must end too.
HalfOpenEnds == state = "half_open" ~> state # "half_open"
=============================================================================
