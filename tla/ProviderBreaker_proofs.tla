----------------------- MODULE ProviderBreaker_proofs -----------------------
(***************************************************************************)
(* Safety of ProviderBreaker for any number of callers, any threshold,     *)
(* recovery time and number of tries.                                      *)
(***************************************************************************)
EXTENDS ProviderBreaker, TLAPS

\* Why no call sends more than MaxTries requests: it comes back to
\* before_request only with a try left, and starts every call with none used.
TriesOK ==
  \A c \in Callers :
    /\ pc[c] = "asking" => tries[c] < MaxTries
    /\ pc[c] = "idle" => tries[c] = 0

\* Why a probe comes a whole timeout after everything before it: what is left
\* of the timeout of an open breaker makes up for what is still missing.
TimeoutCoversCalm == state = "open" => calm + openFor >= Recovery

IInv == TypeOK /\ TriesOK /\ StateMatchesCount /\ TimeoutCoversCalm

-----------------------------------------------------------------------------
\* The invariant holds of a fresh row and of callers that have not called.
LEMMA InitInv == Init => IInv
BY CallersAssumption, NumbersAssumption
   DEF Init, IInv, TypeOK, TriesOK, StateMatchesCount, TimeoutCoversCalm, Steps

\* The breaker's own part of the invariant.
BreakerOK ==
  /\ state \in {"closed", "open", "half_open"}
  /\ failures \in Nat
  /\ openFor \in 0..Recovery
  /\ probe \in Callers \cup {NoCaller}
  /\ calm \in 0..Recovery
  /\ StateMatchesCount
  /\ TimeoutCoversCalm

LEMMA BreakerUnchanged ==
  ASSUME IInv, UNCHANGED <<breaker, probe, calm>>
  PROVE  BreakerOK'
BY DEF IInv, TypeOK, BreakerOK, StateMatchesCount, TimeoutCoversCalm, breaker

\* Whoever a closed breaker lets through starts the calm anew.
LEMMA AdmissionKeepsBreaker ==
  ASSUME IInv, NEW c \in Callers, Admit(c)
  PROVE  BreakerOK'
BY NumbersAssumption
   DEF IInv, TypeOK, Admit, BreakerOK, StateMatchesCount, TimeoutCoversCalm, breaker

\* What a return, a request and a retry do to the caller's own part.
LEMMA Returns ==
  ASSUME IInv, NEW c \in Callers, Return(c), outages' \in 0..MaxOutages
  PROVE  /\ pc' \in [Callers -> Steps]
         /\ tries' \in [Callers -> 0..MaxTries]
         /\ TriesOK'
BY NumbersAssumption DEF IInv, TypeOK, TriesOK, Return, Goto, Steps

LEMMA Sends ==
  ASSUME IInv, NEW c \in Callers, pc[c] = "asking", Send(c)
  PROVE  /\ pc' \in [Callers -> Steps]
         /\ tries' \in [Callers -> 0..MaxTries]
         /\ TriesOK'
<1>1. tries[c] \in 0..MaxTries /\ tries[c] < MaxTries
  BY DEF IInv, TypeOK, TriesOK
<1>2. tries[c] + 1 \in 0..MaxTries
  BY <1>1, NumbersAssumption
<1>. QED
  BY <1>2 DEF IInv, TypeOK, TriesOK, Send, Goto, Steps

LEMMA Raises ==
  ASSUME IInv, NEW c \in Callers, Raise(c)
  PROVE  /\ pc' \in [Callers -> Steps]
         /\ tries' \in [Callers -> 0..MaxTries]
         /\ TriesOK'
<1>1. CASE TriesLeft(c)
  BY <1>1 DEF IInv, TypeOK, TriesOK, Raise, TriesLeft, Goto, Steps
<1>2. CASE ~TriesLeft(c)
  BY <1>2, NumbersAssumption DEF IInv, TypeOK, TriesOK, Raise, Return, Goto, Steps
<1>. QED
  BY <1>1, <1>2

LEMMA Outages ==
  ASSUME IInv, Outage
  PROVE  outages' \in 0..MaxOutages
BY NumbersAssumption DEF IInv, TypeOK, Outage

-----------------------------------------------------------------------------
\* Opening: the count is at the threshold, the timeout starts, no probe is out.
LEMMA Opens ==
  ASSUME IInv, OpenBreaker, calm' = 0, failures' \in Nat, failures' >= Threshold
  PROVE  BreakerOK'
BY CallersAssumption, NumbersAssumption
   DEF IInv, TypeOK, OpenBreaker, BreakerOK, StateMatchesCount, TimeoutCoversCalm

\* A failure of the probe opens the breaker again; any other failure counts,
\* and can only find an open breaker at or above the threshold.
LEMMA FailureKeepsBreaker ==
  ASSUME IInv, NEW c \in Callers, RecordFailure(c)
  PROVE  BreakerOK'
<1>. USE NumbersAssumption
<1>1. failures \in Nat
  BY DEF IInv, TypeOK
<1>. calm' = 0
  BY DEF RecordFailure
<1>2. CASE state = "half_open" /\ OpenBreaker /\ UNCHANGED failures
  <2>1. failures' >= Threshold
    BY <1>1, <1>2 DEF IInv, StateMatchesCount
  <2>. QED
    BY <1>1, <1>2, <2>1, Opens
<1>3. CASE state # "half_open" /\ failures' = failures + 1
           /\ failures + 1 >= Threshold /\ OpenBreaker
  BY <1>1, <1>3, Opens
<1>4. CASE state # "half_open" /\ failures' = failures + 1
           /\ ~(failures + 1 >= Threshold) /\ UNCHANGED <<state, openFor, probe>>
  <2>1. failures < Threshold /\ failures' < Threshold
    BY <1>1, <1>4
  <2>. QED
    BY <1>1, <1>4, <2>1 DEF IInv, TypeOK, BreakerOK, StateMatchesCount, TimeoutCoversCalm
<1>. QED
  BY <1>2, <1>3, <1>4 DEF RecordFailure

LEMMA SuccessKeepsBreaker ==
  ASSUME IInv, NEW c \in Callers, RecordSuccess(c)
  PROVE  BreakerOK'
BY CallersAssumption, NumbersAssumption
   DEF IInv, TypeOK, RecordSuccess, BreakerOK, StateMatchesCount, TimeoutCoversCalm

LEMMA ProbeKeepsBreaker ==
  ASSUME IInv, NEW c \in Callers, AdmitProbe(c)
  PROVE  BreakerOK'
BY CallersAssumption, NumbersAssumption
   DEF IInv, TypeOK, AdmitProbe, BreakerOK, StateMatchesCount, TimeoutCoversCalm

-----------------------------------------------------------------------------
LEMMA NextInv == IInv /\ [Next]_vars => IInv'
<1>. SUFFICES ASSUME IInv, [Next]_vars PROVE IInv'
  OBVIOUS
<1>. USE CallersAssumption, NumbersAssumption
<1>. DEFINE CallerOK ==
       /\ pc' \in [Callers -> Steps]
       /\ tries' \in [Callers -> 0..MaxTries]
       /\ outages' \in 0..MaxOutages
       /\ TriesOK'
<1>0. outages \in 0..MaxOutages
  BY DEF IInv, TypeOK
<1>1. ASSUME NEW c \in Callers, Call(c) PROVE BreakerOK' /\ CallerOK
  <2>1. BreakerOK'
    BY <1>1, BreakerUnchanged DEF Call
  <2>2. CallerOK
    BY <1>1, <1>0 DEF Call, Goto, IInv, TypeOK, TriesOK, Steps
  <2>. QED
    BY <2>1, <2>2
<1>2. ASSUME NEW c \in Callers, Admit(c) PROVE BreakerOK' /\ CallerOK
  BY <1>2, <1>0, AdmissionKeepsBreaker, Sends DEF Admit
<1>3. ASSUME NEW c \in Callers, AdmitProbe(c) PROVE BreakerOK' /\ CallerOK
  BY <1>3, <1>0, ProbeKeepsBreaker, Sends DEF AdmitProbe
<1>4. ASSUME NEW c \in Callers, Deny(c) PROVE BreakerOK' /\ CallerOK
  BY <1>4, <1>0, BreakerUnchanged, Returns DEF Deny
<1>5. ASSUME NEW c \in Callers, AdmitBlindly(c) PROVE BreakerOK' /\ CallerOK
  BY <1>5, BreakerUnchanged, Sends, Outages DEF AdmitBlindly
<1>6. ASSUME NEW c \in Callers, Answer(c) PROVE BreakerOK' /\ CallerOK
  <2>1. BreakerOK'
    BY <1>6, BreakerUnchanged DEF Answer
  <2>2. CallerOK
    BY <1>6, <1>0 DEF Answer, Answers, Goto, IInv, TypeOK, TriesOK, Steps
  <2>. QED
    BY <2>1, <2>2
<1>7. ASSUME NEW c \in Callers, RecordSuccess(c) PROVE BreakerOK' /\ CallerOK
  BY <1>7, <1>0, SuccessKeepsBreaker, Returns DEF RecordSuccess
<1>8. ASSUME NEW c \in Callers, RecordFailure(c) PROVE BreakerOK' /\ CallerOK
  BY <1>8, <1>0, FailureKeepsBreaker, Raises DEF RecordFailure
<1>9. ASSUME NEW c \in Callers, Unrecorded(c) PROVE BreakerOK' /\ CallerOK
  BY <1>9, <1>0, BreakerUnchanged, Raises, Returns DEF Unrecorded
<1>10. ASSUME NEW c \in Callers, RecordLost(c) PROVE BreakerOK' /\ CallerOK
  BY <1>10, BreakerUnchanged, Raises, Returns, Outages DEF RecordLost
<1>11. ASSUME NEW c \in Callers, Crash(c) PROVE BreakerOK' /\ CallerOK
  BY <1>11, <1>0, BreakerUnchanged, Returns DEF Crash
<1>12. CASE Tick
  <2>1. /\ openFor \in 0..Recovery /\ openFor' = Down(openFor)
        /\ calm \in 0..Recovery /\ calm' = IF calm < Recovery THEN calm + 1 ELSE calm
    BY <1>12 DEF Tick, IInv, TypeOK
  <2>2. /\ openFor' \in 0..Recovery /\ calm' \in 0..Recovery
        /\ openFor' > 0 => openFor > 0
        /\ calm + openFor >= Recovery => calm' + openFor' >= Recovery
    BY <2>1 DEF Down
  <2>3. StateMatchesCount' /\ TimeoutCoversCalm'
    BY <1>12, <2>2 DEF Tick, IInv, StateMatchesCount, TimeoutCoversCalm
  <2>4. TypeOK' /\ TriesOK'
    BY <1>12, <2>2 DEF Tick, IInv, TypeOK, TriesOK
  <2>. QED
    BY <2>3, <2>4 DEF IInv
<1>13. CASE UNCHANGED vars
  BY <1>13 DEF vars, IInv, TypeOK, TriesOK, StateMatchesCount, TimeoutCoversCalm
<1>14. BreakerOK' /\ CallerOK => IInv'
  BY DEF IInv, TypeOK, BreakerOK
<1>. QED
  BY <1>1, <1>2, <1>3, <1>4, <1>5, <1>6, <1>7, <1>8, <1>9, <1>10, <1>11, <1>12,
     <1>13, <1>14
     DEF Next, Proceed, Ask, Record

LEMMA Invariance == Spec => []IInv
BY InitInv, NextInv, PTL DEF Spec

-----------------------------------------------------------------------------
\* The row and the calls keep their types; no call sends more than MaxTries
\* requests, whatever the provider answers and however often the breaker's
\* database fails.
THEOREM TypeCorrect == Spec => []TypeOK
<1>1. IInv => TypeOK
  BY DEF IInv
<1>. QED
  BY <1>1, Invariance, PTL

\* The breaker is closed exactly while the failures recorded since the last
\* success are below the threshold, however late slow calls record theirs.
THEOREM Matches == Spec => []StateMatchesCount
<1>1. IInv => StateMatchesCount
  BY DEF IInv
<1>. QED
  BY <1>1, Invariance, PTL

\* Until a provider has answered well again it gets one request per recovery
\* timeout, of all callers together, except when the breaker's database fails:
\* whoever is let through while the breaker is not closed comes a whole timeout
\* after the last request and after the last recorded failure.
THEOREM Spared == Spec => ProviderIsSpared
<1>. DEFINE Passes(c) == state # "closed" /\ pc[c] = "asking" /\ pc'[c] = "sending"
            Spares(c) == calm = Recovery \/ outages' = outages + 1
<1>1. IInv /\ [Next]_vars => [\A c \in Callers : Passes(c) => Spares(c)]_vars
  <2>. SUFFICES ASSUME IInv, Next, NEW c \in Callers, Passes(c)
                PROVE  Spares(c)
    OBVIOUS
  <2>1. pc \in [Callers -> Steps]
    BY DEF IInv, TypeOK
  <2>2. PICK d \in Callers : Call(d) \/ Proceed(d) \/ Crash(d)
    BY <2>1 DEF Next, Tick
  <2>3. CASE AdmitBlindly(d)
    BY <2>3 DEF AdmitBlindly, Outage
  <2>4. CASE Call(d) \/ Answer(d) \/ Crash(d) \/ Deny(d) \/ RecordSuccess(d)
    BY <2>4, <2>1 DEF Call, Answer, Answers, Crash, Deny, RecordSuccess, Return, Goto
  <2>5. CASE RecordFailure(d) \/ Unrecorded(d) \/ RecordLost(d)
    BY <2>5, <2>1 DEF RecordFailure, Unrecorded, RecordLost, Raise, Return, Goto
  <2>6. CASE Admit(d)
    BY <2>6 DEF Admit
  <2>7. CASE AdmitProbe(d)
    <3>1. state = "open" /\ openFor = 0
      BY <2>7 DEF AdmitProbe
    <3>2. calm \in 0..Recovery /\ calm >= Recovery
      BY <3>1, NumbersAssumption DEF IInv, TypeOK, TimeoutCoversCalm
    <3>. QED
      BY <3>2, NumbersAssumption
  <2>. QED
    BY <2>2, <2>3, <2>4, <2>5, <2>6, <2>7 DEF Proceed, Ask, Record
<1>. QED
  BY <1>1, Invariance, PTL DEF Spec, ProviderIsSpared
=============================================================================
