------------------------ MODULE WorkflowJobs_proofs ------------------------
(***************************************************************************)
(* Theorems about WorkflowJobs, for any number of jobs and workers, any    *)
(* lease, any retry policy.                                                *)
(***************************************************************************)
EXTENDS WorkflowJobs, TLAPS

\* The delay of a retry is a number of ticks when the attempt is in budget.
LEMMA RetryDelayType ==
  ASSUME NEW j \in Jobs, NEW a \in 1..MaxAttempts[j], NEW hint \in RetryHints
  PROVE  RetryDelay(a, hint) \in Nat
<1>1. Backoff(a) \in Nat /\ hint \in Nat
  BY BackoffAssumption, NumbersAssumption
<1>. QED  BY <1>1 DEF RetryDelay

\* A busy worker has a job, an idle one has none and no heartbeat thread.
BusyHasJob ==
  \A w \in Workers :
    /\ pc[w] # "idle" => held[w] \in Jobs
    /\ pc[w] \notin {"executing", "returned"} => heart[w] = "off"

\* Where the attempts counter of a live row stands.
AttemptsInBudget ==
  \A j \in Jobs :
    /\ status[j] = "absent" => attempts[j] = 0 /\ error[j] = "none"
    /\ status[j] = "queued" => attempts[j] < MaxAttempts[j]
    /\ status[j] = "running" => attempts[j] \in 1..MaxAttempts[j]

Typing == TypeOK /\ BusyHasJob /\ AttemptsInBudget

LEMMA TypingInit == Init => Typing
BY SetsAssumption, NumbersAssumption
   DEF Init, Typing, TypeOK, BusyHasJob, AttemptsInBudget, Statuses, Terminal,
       Errors, Steps

LEMMA TypingNext == Typing /\ [Next]_vars => Typing'
<1>. SUFFICES ASSUME Typing, [Next]_vars  PROVE Typing'
  OBVIOUS
<1>. USE SetsAssumption, NumbersAssumption
<1>. USE DEF Typing, TypeOK, BusyHasJob, AttemptsInBudget, Statuses, Terminal,
             Errors, Steps, rows, procs, Drop, Enter, LeaveWith, Finish
<1>1. ASSUME NEW j \in Jobs, Submit(j)  PROVE Typing'
  BY <1>1 DEF Submit
<1>2. ASSUME NEW j \in Jobs, RequestCancel(j)  PROVE Typing'
  <2>1. CASE status[j] = "queued"
    BY <1>2, <2>1 DEF RequestCancel
  <2>2. CASE status[j] = "running"
    <3>1. cancel' \in [Jobs -> BOOLEAN]
      BY <1>2, <2>2 DEF RequestCancel
    <3>2. UNCHANGED <<status, lockedBy, lease, delay, error, jobRef, attempts, runs, procs>>
      BY <1>2, <2>2 DEF RequestCancel
    <3>. QED  BY <3>1, <3>2
  <2>. QED  BY <1>2, <2>1, <2>2 DEF RequestCancel
<1>3. ASSUME NEW w \in Workers, NEW j \in Jobs, ClaimAndRun(w, j)  PROVE Typing'
  BY <1>3 DEF ClaimAndRun, Due, Abandoned
<1>4. ASSUME NEW w \in Workers, NEW j \in Jobs, ClaimToFinish(w, j)  PROVE Typing'
  <2>1. CASE cancel[j] /\ Finish(j, "canceled", "canceled")
    BY <1>4, <2>1 DEF ClaimToFinish, Abandoned
  <2>2. CASE Finish(j, "failed", "retry_exhausted")
    BY <1>4, <2>2 DEF ClaimToFinish, Abandoned
  <2>. QED  BY <1>4, <2>1, <2>2 DEF ClaimToFinish
<1>5. ASSUME NEW w \in Workers, BeforeExecution(w)  PROVE Typing'
  BY <1>5 DEF BeforeExecution, CallbackRaises
<1>6. ASSUME NEW w \in Workers, Heartbeat(w)  PROVE Typing'
  BY <1>6 DEF Heartbeat, HoldsLease
<1>7. ASSUME NEW w \in Workers, HeartbeatError(w)  PROVE Typing'
  BY <1>7 DEF HeartbeatError
<1>8. ASSUME NEW w \in Workers, ExecutionEnds(w)  PROVE Typing'
  BY <1>8 DEF ExecutionEnds
<1>9. ASSUME NEW w \in Workers, AfterExecution(w)  PROVE Typing'
  BY <1>9 DEF AfterExecution, CallbackRaises
<1>10. ASSUME NEW w \in Workers, CallbackError(w)  PROVE Typing'
  BY <1>10 DEF CallbackError
<1>11. ASSUME NEW w \in Workers, CommitRefused(w)  PROVE Typing'
  BY <1>11 DEF CommitRefused
<1>12. ASSUME NEW w \in Workers, CommitCanceled(w)  PROVE Typing'
  BY <1>12 DEF CommitCanceled, Committing, HoldsLease
<1>13. ASSUME NEW w \in Workers, CommitSuccess(w)  PROVE Typing'
  BY <1>13 DEF CommitSuccess, HoldsLease
<1>14. ASSUME NEW w \in Workers, CommitFailure(w)  PROVE Typing'
  BY <1>14 DEF CommitFailure, HoldsLease
<1>15. ASSUME NEW w \in Workers, CommitRetry(w)  PROVE Typing'
  <2>1. held[w] \in Jobs /\ attempts[held[w]] \in 1..MaxAttempts[held[w]]
    BY <1>15 DEF CommitRetry, CanRetry, HoldsLease
  <2>2. \A hint \in RetryHints : RetryDelay(attempts[held[w]], hint) \in Nat
    BY <2>1, RetryDelayType
  <2>. QED  BY <1>15, <2>1, <2>2 DEF CommitRetry, CanRetry, HoldsLease
<1>16. ASSUME NEW w \in Workers, Crash(w)  PROVE Typing'
  BY <1>16 DEF Crash
<1>17. CASE Tick
  BY <1>17 DEF Tick, Countdown
<1>18. CASE UNCHANGED vars
  BY <1>18 DEF vars
<1>. QED
  BY <1>1, <1>2, <1>3, <1>4, <1>5, <1>6, <1>7, <1>8, <1>9, <1>10, <1>11, <1>12,
     <1>13, <1>14, <1>15, <1>16, <1>17, <1>18
     DEF Next, RunOnce, Commit

\* Type correctness of every reachable state.
THEOREM TypeCorrect == Spec => []TypeOK
<1>1. Typing => TypeOK
  BY DEF Typing
<1>. QED  BY TypingInit, TypingNext, <1>1, PTL DEF Spec

-----------------------------------------------------------------------------
(* The inductive invariant *)

\* Fencing without the clock: whoever is named in locked_by of a running row
\* and works on that row was given its current attempt.
OwnerHasAttempt ==
  \A w \in Workers :
    pc[w] # "idle" /\ status[held[w]] = "running" /\ lockedBy[held[w]] = w
      => snap[w] = attempts[held[w]]

\* Every attempt starts at most one execution, and the owner that has not
\* started yet still has its attempt to spend.
AttemptsCoverRuns ==
  /\ \A j \in Jobs : runs[j] <= MaxAttempts[j] /\ runs[j] <= attempts[j]
  /\ \A w \in Workers :
       pc[w] = "claimed" /\ status[held[w]] = "running" /\ lockedBy[held[w]] = w
         => runs[held[w]] < attempts[held[w]]

IInv ==
  /\ Typing
  /\ OwnerHasAttempt
  /\ AttemptsCoverRuns
  /\ CancelIsNeverLost
  /\ JobPinsItsBlob
  /\ RetryableIsTruthful

LEMMA IInvInit == Init => IInv
<1>. SUFFICES ASSUME Init  PROVE IInv
  OBVIOUS
<1>1. Typing
  BY TypingInit
<1>. QED
  BY <1>1, SetsAssumption, NumbersAssumption
     DEF Init, IInv, OwnerHasAttempt, AttemptsCoverRuns, CancelIsNeverLost,
         JobPinsItsBlob, RetryableIsTruthful, Terminal

\* Finishing a live row keeps the row invariants.
LEMMA FinishKeepsRows ==
  ASSUME IInv, NEW j \in Jobs, NEW outcome \in Terminal, NEW err \in Errors \ {"will_retry"},
         status[j] \in {"queued", "running"}, Finish(j, outcome, err),
         cancel' = cancel, attempts' \in [Jobs -> Nat],
         \A k \in Jobs \ {j} : attempts'[k] = attempts[k],
         cancel[j] => outcome = "canceled"
  PROVE  CancelIsNeverLost' /\ JobPinsItsBlob' /\ RetryableIsTruthful'
<1>. USE DEF IInv, Typing, TypeOK, Finish, Terminal, Errors
<1>1. CancelIsNeverLost'
  BY DEF CancelIsNeverLost
<1>2. JobPinsItsBlob'
  BY SetsAssumption DEF JobPinsItsBlob
<1>3. RetryableIsTruthful'
  BY DEF RetryableIsTruthful
<1>. QED  BY <1>1, <1>2, <1>3

LEMMA RowInvariantsNext ==
  ASSUME IInv, [Next]_vars
  PROVE  CancelIsNeverLost' /\ JobPinsItsBlob' /\ RetryableIsTruthful'
<1>. DEFINE Goal == CancelIsNeverLost' /\ JobPinsItsBlob' /\ RetryableIsTruthful'
<1>. USE SetsAssumption, NumbersAssumption
<1>t. Typing /\ Typing'
  BY TypingNext DEF IInv
<1>1. ASSUME NEW j \in Jobs, Submit(j)  PROVE Goal
  <2>. USE <1>1 DEF Submit, IInv, Typing, TypeOK, AttemptsInBudget, Terminal
  <2>1. CancelIsNeverLost'
    BY DEF CancelIsNeverLost
  <2>2. JobPinsItsBlob'
    BY DEF JobPinsItsBlob
  <2>3. RetryableIsTruthful'
    BY DEF RetryableIsTruthful
  <2>. QED  BY <2>1, <2>2, <2>3
<1>2. ASSUME NEW j \in Jobs, RequestCancel(j)  PROVE Goal
  <2>1. CASE status[j] = "queued"
    <3>1. Finish(j, "canceled", "canceled") /\ cancel' = cancel /\ attempts' = attempts
      BY <1>2, <2>1 DEF RequestCancel
    <3>. QED
      BY <1>t, <2>1, <3>1, FinishKeepsRows DEF Typing, TypeOK, Terminal, Errors
  <2>2. CASE status[j] = "running"
    <3>1. /\ cancel' = [cancel EXCEPT ![j] = TRUE]
          /\ UNCHANGED <<status, error, jobRef, attempts>>
      BY <1>2, <2>2 DEF RequestCancel
    <3>. QED
      BY <2>2, <3>1 DEF IInv, Typing, TypeOK, CancelIsNeverLost, JobPinsItsBlob,
                        RetryableIsTruthful
  <2>. QED  BY <1>2, <2>1, <2>2 DEF RequestCancel
<1>3. ASSUME NEW w \in Workers, NEW j \in Jobs, ClaimAndRun(w, j)  PROVE Goal
  <2>. USE <1>3 DEF ClaimAndRun, Due, Abandoned, IInv, Typing, TypeOK, Terminal
  <2>1. CancelIsNeverLost'
    BY DEF CancelIsNeverLost
  <2>2. JobPinsItsBlob'
    BY DEF JobPinsItsBlob
  <2>3. RetryableIsTruthful'
    BY DEF RetryableIsTruthful
  <2>. QED  BY <2>1, <2>2, <2>3
<1>4. ASSUME NEW w \in Workers, NEW j \in Jobs, ClaimToFinish(w, j)  PROVE Goal
  <2>1. /\ \/ cancel[j] /\ Finish(j, "canceled", "canceled")
           \/ ~cancel[j] /\ Finish(j, "failed", "retry_exhausted")
        /\ cancel' = cancel
        /\ attempts' = [attempts EXCEPT ![j] = @ + 1]
        /\ status[j] = "running"
    BY <1>4 DEF ClaimToFinish, Abandoned
  <2>. QED
    BY <1>t, <2>1, FinishKeepsRows DEF Typing, TypeOK, Terminal, Errors
<1>5. ASSUME NEW w \in Workers, CommitCanceled(w) \/ CommitSuccess(w) \/ CommitFailure(w)
      PROVE Goal
  <2>1. held[w] \in Jobs
    BY <1>5, <1>t DEF CommitCanceled, CommitSuccess, CommitFailure, Committing,
                      Typing, BusyHasJob
  <2>2. /\ \/ cancel[held[w]] /\ Finish(held[w], "canceled", "canceled")
           \/ ~cancel[held[w]] /\ Finish(held[w], "succeeded", "none")
           \/ ~cancel[held[w]] /\ Finish(held[w], "failed", "final")
        /\ cancel' = cancel
        /\ attempts' = attempts
        /\ status[held[w]] = "running"
    BY <1>5 DEF CommitCanceled, CommitSuccess, CommitFailure, HoldsLease
  <2>. QED
    BY <1>t, <2>1, <2>2, FinishKeepsRows DEF Typing, TypeOK, Terminal, Errors
<1>6. ASSUME NEW w \in Workers, CommitRetry(w)  PROVE Goal
  <2>. USE <1>6 DEF CommitRetry, CanRetry, HoldsLease, IInv, Typing, TypeOK,
                    BusyHasJob, AttemptsInBudget, Terminal
  <2>1. held[w] \in Jobs /\ snap[w] = attempts[held[w]] /\ attempts[held[w]] # 0
    BY DEF OwnerHasAttempt
  <2>2. CancelIsNeverLost'
    BY <2>1 DEF CancelIsNeverLost
  <2>3. JobPinsItsBlob'
    BY <2>1 DEF JobPinsItsBlob
  <2>4. RetryableIsTruthful'
    BY <2>1 DEF RetryableIsTruthful
  <2>. QED  BY <2>2, <2>3, <2>4
<1>7. CASE UNCHANGED <<status, attempts, cancel, error, jobRef>>
  BY <1>7 DEF IInv, CancelIsNeverLost, JobPinsItsBlob, RetryableIsTruthful
<1>8. ASSUME NEW w \in Workers,
             \/ BeforeExecution(w) \/ ExecutionEnds(w) \/ AfterExecution(w)
             \/ CommitRefused(w) \/ Heartbeat(w) \/ HeartbeatError(w)
             \/ CallbackError(w) \/ Crash(w)
      PROVE  UNCHANGED <<status, attempts, cancel, error, jobRef>>
  BY <1>8 DEF BeforeExecution, ExecutionEnds, AfterExecution, CommitRefused,
              Heartbeat, HeartbeatError, CallbackError, Crash, rows
<1>. QED
  BY <1>1, <1>2, <1>3, <1>4, <1>5, <1>6, <1>7, <1>8
     DEF Next, RunOnce, Commit, Tick, vars

\* A worker that drops its job, or moves within run_once, keeps whatever the
\* invariants say of its attempt; only a claim hands out a new one.
LEMMA OwnerHasAttemptNext ==
  ASSUME IInv, [Next]_vars
  PROVE  OwnerHasAttempt'
<1>. USE SetsAssumption DEF IInv, Typing, TypeOK, BusyHasJob, OwnerHasAttempt
<1>1. ASSUME NEW j \in Jobs, Submit(j) \/ RequestCancel(j)  PROVE OwnerHasAttempt'
  BY <1>1 DEF Submit, RequestCancel, Finish, procs
<1>2. ASSUME NEW w \in Workers, NEW j \in Jobs, ClaimAndRun(w, j)
      PROVE  OwnerHasAttempt'
  <2>. SUFFICES ASSUME NEW v \in Workers,
                       pc'[v] # "idle", status'[held'[v]] = "running",
                       lockedBy'[held'[v]] = v
                PROVE  snap'[v] = attempts'[held'[v]]
    OBVIOUS
  <2>1. CASE v = w
    BY <1>2, <2>1 DEF ClaimAndRun
  <2>2. CASE v # w
    <3>1. pc[v] # "idle" /\ held'[v] = held[v] /\ snap'[v] = snap[v]
      BY <1>2, <2>2 DEF ClaimAndRun
    <3>2. held[v] # j
      BY <1>2, <2>2, <3>1 DEF ClaimAndRun
    <3>. QED  BY <1>2, <2>2, <3>1, <3>2 DEF ClaimAndRun
  <2>. QED  BY <2>1, <2>2
<1>3. ASSUME NEW w \in Workers, NEW j \in Jobs, ClaimToFinish(w, j)
      PROVE  OwnerHasAttempt'
  BY <1>3 DEF ClaimToFinish, Finish, procs
<1>4. ASSUME NEW w \in Workers, BeforeExecution(w) \/ ExecutionEnds(w) \/ AfterExecution(w)
      PROVE  OwnerHasAttempt'
  BY <1>4 DEF BeforeExecution, ExecutionEnds, AfterExecution, CallbackRaises,
              LeaveWith, Drop, Enter, rows
<1>5. ASSUME NEW w \in Workers, Heartbeat(w) \/ HeartbeatError(w) \/ CallbackError(w) \/ Crash(w)
      PROVE  OwnerHasAttempt'
  BY <1>5 DEF Heartbeat, HeartbeatError, CallbackError, Crash, LeaveWith, Drop,
              Enter, rows
<1>6. ASSUME NEW w \in Workers, Commit(w)  PROVE OwnerHasAttempt'
  BY <1>6 DEF Commit, CommitRefused, CommitCanceled, CommitSuccess, CommitFailure,
              CommitRetry, CanRetry, Committing, Drop, Enter, Finish, rows
<1>7. CASE Tick
  BY <1>7 DEF Tick, procs
<1>8. CASE UNCHANGED vars
  BY <1>8 DEF vars
<1>. QED
  BY <1>1, <1>2, <1>3, <1>4, <1>5, <1>6, <1>7, <1>8 DEF Next, RunOnce

LEMMA AttemptsCoverRunsNext ==
  ASSUME IInv, [Next]_vars
  PROVE  AttemptsCoverRuns'
<1>. USE SetsAssumption, NumbersAssumption
     DEF IInv, Typing, TypeOK, BusyHasJob, AttemptsInBudget, AttemptsCoverRuns
<1>1. ASSUME NEW j \in Jobs, Submit(j) \/ RequestCancel(j)  PROVE AttemptsCoverRuns'
  BY <1>1 DEF Submit, RequestCancel, Finish, procs
<1>2. ASSUME NEW w \in Workers, NEW j \in Jobs, ClaimAndRun(w, j)
      PROVE  AttemptsCoverRuns'
  BY <1>2 DEF ClaimAndRun
<1>3. ASSUME NEW w \in Workers, NEW j \in Jobs, ClaimToFinish(w, j)
      PROVE  AttemptsCoverRuns'
  BY <1>3 DEF ClaimToFinish, Finish, procs
<1>4. ASSUME NEW w \in Workers, BeforeExecution(w)  PROVE AttemptsCoverRuns'
  <2>1. CASE UNCHANGED runs
    BY <1>4, <2>1 DEF BeforeExecution, CallbackRaises, LeaveWith, Drop, Enter, rows
  <2>2. CASE /\ HoldsLease(w, held[w])
             /\ Enter(w, "executing")
             /\ runs' = [runs EXCEPT ![held[w]] = @ + 1]
             /\ UNCHANGED held
    BY <1>4, <2>2 DEF BeforeExecution, HoldsLease, Enter, rows
  <2>. QED  BY <1>4, <2>1, <2>2 DEF BeforeExecution
<1>5. ASSUME NEW w \in Workers, ExecutionEnds(w) \/ AfterExecution(w)
      PROVE  AttemptsCoverRuns'
  BY <1>5 DEF ExecutionEnds, AfterExecution, CallbackRaises, LeaveWith, Drop,
              Enter, rows
<1>6. ASSUME NEW w \in Workers, Heartbeat(w) \/ HeartbeatError(w) \/ CallbackError(w) \/ Crash(w)
      PROVE  AttemptsCoverRuns'
  BY <1>6 DEF Heartbeat, HeartbeatError, CallbackError, Crash, LeaveWith, Drop,
              Enter, rows
<1>7. ASSUME NEW w \in Workers, Commit(w)  PROVE AttemptsCoverRuns'
  BY <1>7 DEF Commit, CommitRefused, CommitCanceled, CommitSuccess, CommitFailure,
              CommitRetry, CanRetry, Committing, Drop, Enter, Finish, rows
<1>8. CASE Tick
  BY <1>8 DEF Tick, procs
<1>9. CASE UNCHANGED vars
  BY <1>9 DEF vars
<1>. QED
  BY <1>1, <1>2, <1>3, <1>4, <1>5, <1>6, <1>7, <1>8, <1>9 DEF Next, RunOnce

LEMMA IInvNext == IInv /\ [Next]_vars => IInv'
BY TypingNext, RowInvariantsNext, OwnerHasAttemptNext, AttemptsCoverRunsNext DEF IInv

LEMMA Invariance == Spec => []IInv
BY IInvInit, IInvNext, PTL DEF Spec

-----------------------------------------------------------------------------
(* What the invariant gives *)

\* Whoever passes the lease check works on the row's current attempt: comparing
\* worker_id and lease is enough to fence off stale workers.
THEOREM Fencing == Spec => []LeaseFencing
<1>1. IInv => LeaseFencing
  BY DEF IInv, OwnerHasAttempt, LeaseFencing, HoldsLease
<1>. QED  BY <1>1, Invariance, PTL

\* No execution beyond max_attempts, however workers crash or lose leases.
THEOREM Budget == Spec => []ExecutionBudget
<1>1. IInv => ExecutionBudget
  BY DEF IInv, AttemptsCoverRuns, ExecutionBudget
<1>. QED  BY <1>1, Invariance, PTL

\* A recorded cancel request is never lost.
THEOREM CancelKept == Spec => []CancelIsNeverLost
<1>1. IInv => CancelIsNeverLost
  BY DEF IInv
<1>. QED  BY <1>1, Invariance, PTL

\* A live blob job has an active blob reference, a finished one has none.
THEOREM BlobPinned == Spec => []JobPinsItsBlob
<1>1. IInv => JobPinsItsBlob
  BY DEF IInv
<1>. QED  BY <1>1, Invariance, PTL

\* error_json.retryable = true is only seen on jobs that will be, or are being,
\* tried again.
THEOREM RetryableTruth == Spec => []RetryableIsTruthful
<1>1. IInv => RetryableIsTruthful
  BY DEF IInv
<1>. QED  BY <1>1, Invariance, PTL

\* A finished row has no owner.
NoOwnerWhenFinished ==
  \A j \in Jobs : status[j] # "running" => lockedBy[j] = NoWorker

LEMMA NoOwnerNext == IInv /\ NoOwnerWhenFinished /\ [Next]_vars => NoOwnerWhenFinished'
<1>. SUFFICES ASSUME IInv, NoOwnerWhenFinished, [Next]_vars
              PROVE  NoOwnerWhenFinished'
  OBVIOUS
<1>. USE DEF IInv, Typing, TypeOK, BusyHasJob, NoOwnerWhenFinished
<1>1. ASSUME NEW j \in Jobs, Submit(j) \/ RequestCancel(j)  PROVE NoOwnerWhenFinished'
  BY <1>1 DEF Submit, RequestCancel, Finish
<1>2. ASSUME NEW w \in Workers, NEW j \in Jobs, ClaimAndRun(w, j) \/ ClaimToFinish(w, j)
      PROVE  NoOwnerWhenFinished'
  BY <1>2 DEF ClaimAndRun, ClaimToFinish, Finish
<1>3. ASSUME NEW w \in Workers, Commit(w)  PROVE NoOwnerWhenFinished'
  BY <1>3 DEF Commit, CommitRefused, CommitCanceled, CommitSuccess, CommitFailure,
              CommitRetry, CanRetry, Committing, Finish, rows
<1>4. CASE UNCHANGED <<status, lockedBy>>
  BY <1>4
<1>5. ASSUME NEW w \in Workers,
             \/ BeforeExecution(w) \/ ExecutionEnds(w) \/ AfterExecution(w)
             \/ Heartbeat(w) \/ HeartbeatError(w) \/ CallbackError(w) \/ Crash(w)
      PROVE  UNCHANGED <<status, lockedBy>>
  BY <1>5 DEF BeforeExecution, ExecutionEnds, AfterExecution, Heartbeat,
              HeartbeatError, CallbackError, Crash, rows
<1>. QED
  BY <1>1, <1>2, <1>3, <1>4, <1>5 DEF Next, RunOnce, Tick, vars

\* A finished row is never written again.
THEOREM TerminalRows == Spec => FinishedIsFinal
<1>1. Init => NoOwnerWhenFinished
  BY DEF Init, NoOwnerWhenFinished
<1>2. IInv /\ NoOwnerWhenFinished /\ NoOwnerWhenFinished' /\ [Next]_vars =>
        [\A j \in Jobs : status[j] \in Terminal =>
           /\ status'[j] = status[j]
           /\ error'[j] = error[j]
           /\ attempts'[j] = attempts[j]
           /\ lockedBy'[j] = NoWorker]_vars
  <2>. SUFFICES ASSUME IInv, NoOwnerWhenFinished, NoOwnerWhenFinished', Next,
                       NEW k \in Jobs, status[k] \in Terminal
                PROVE  /\ status'[k] = status[k]
                       /\ error'[k] = error[k]
                       /\ attempts'[k] = attempts[k]
                       /\ lockedBy'[k] = NoWorker
    BY DEF vars
  <2>. USE DEF IInv, Typing, TypeOK, BusyHasJob, NoOwnerWhenFinished, Terminal
  <2>1. ASSUME status'[k] = status[k], error'[k] = error[k], attempts'[k] = attempts[k]
        PROVE  lockedBy'[k] = NoWorker
    BY <2>1
  <2>2. ASSUME NEW j \in Jobs, Submit(j) \/ RequestCancel(j)
        PROVE  status'[k] = status[k] /\ error'[k] = error[k] /\ attempts'[k] = attempts[k]
    BY <2>2 DEF Submit, RequestCancel, Finish
  <2>3. ASSUME NEW w \in Workers, NEW j \in Jobs, ClaimAndRun(w, j) \/ ClaimToFinish(w, j)
        PROVE  status'[k] = status[k] /\ error'[k] = error[k] /\ attempts'[k] = attempts[k]
    BY <2>3 DEF ClaimAndRun, ClaimToFinish, Due, Abandoned, Finish
  <2>4. ASSUME NEW w \in Workers, Commit(w)
        PROVE  status'[k] = status[k] /\ error'[k] = error[k] /\ attempts'[k] = attempts[k]
    BY <2>4 DEF Commit, CommitRefused, CommitCanceled, CommitSuccess, CommitFailure,
                CommitRetry, CanRetry, Committing, HoldsLease, Finish, rows
  <2>5. ASSUME NEW w \in Workers,
               \/ BeforeExecution(w) \/ ExecutionEnds(w) \/ AfterExecution(w)
               \/ Heartbeat(w) \/ HeartbeatError(w) \/ CallbackError(w) \/ Crash(w)
        PROVE  status'[k] = status[k] /\ error'[k] = error[k] /\ attempts'[k] = attempts[k]
    BY <2>5 DEF BeforeExecution, ExecutionEnds, AfterExecution, Heartbeat,
                HeartbeatError, CallbackError, Crash, rows
  <2>6. CASE Tick
    BY <2>6, <2>1 DEF Tick
  <2>. QED
    BY <2>1, <2>2, <2>3, <2>4, <2>5, <2>6 DEF Next, RunOnce
<1>3. IInv /\ NoOwnerWhenFinished /\ [Next]_vars => NoOwnerWhenFinished'
  BY NoOwnerNext
<1>. QED  BY <1>1, <1>2, <1>3, Invariance, PTL DEF Spec, FinishedIsFinal

\* A running attempt is ended only by the worker it was given to.
THEOREM SoleCommitter == Spec => OnlyTheCurrentAttemptCommits
<1>1. IInv /\ [Next]_vars =>
        [\A j \in Jobs :
           status[j] = "running" /\ status'[j] # "running" /\ attempts'[j] = attempts[j] =>
             \E w \in Workers :
               /\ held[w] = j
               /\ snap[w] = attempts[j]
               /\ pc'[w] = "idle"
               /\ status'[j] = "succeeded" => pc[w] = "succeeding"
               /\ status'[j] = "queued" => pc[w] = "retrying"]_vars
  <2>. SUFFICES ASSUME IInv, Next, NEW k \in Jobs, status[k] = "running",
                       status'[k] # "running", attempts'[k] = attempts[k]
                PROVE  \E w \in Workers :
                         /\ held[w] = k
                         /\ snap[w] = attempts[k]
                         /\ pc'[w] = "idle"
                         /\ status'[k] = "succeeded" => pc[w] = "succeeding"
                         /\ status'[k] = "queued" => pc[w] = "retrying"
    BY DEF vars
  <2>. USE DEF IInv, Typing, TypeOK, BusyHasJob
  <2>1. ASSUME NEW j \in Jobs, Submit(j) \/ RequestCancel(j)  PROVE FALSE
    BY <2>1 DEF Submit, RequestCancel, Finish
  <2>2. ASSUME NEW w \in Workers, NEW j \in Jobs, ClaimAndRun(w, j)  PROVE FALSE
    BY <2>2 DEF ClaimAndRun
  <2>3. ASSUME NEW w \in Workers, NEW j \in Jobs, ClaimToFinish(w, j)  PROVE FALSE
    BY <2>3 DEF ClaimToFinish, Finish
  <2>4. ASSUME NEW w \in Workers,
               \/ BeforeExecution(w) \/ ExecutionEnds(w) \/ AfterExecution(w)
               \/ Heartbeat(w) \/ HeartbeatError(w) \/ CallbackError(w) \/ Crash(w)
               \/ CommitRefused(w)
        PROVE  FALSE
    BY <2>4 DEF BeforeExecution, ExecutionEnds, AfterExecution, Heartbeat,
                HeartbeatError, CallbackError, Crash, CommitRefused, rows
  <2>5. ASSUME NEW w \in Workers,
               CommitCanceled(w) \/ CommitSuccess(w) \/ CommitFailure(w) \/ CommitRetry(w)
        PROVE  /\ held[w] = k
               /\ snap[w] = attempts[k]
               /\ pc'[w] = "idle"
               /\ status'[k] = "succeeded" => pc[w] = "succeeding"
               /\ status'[k] = "queued" => pc[w] = "retrying"
    <3>1. held[w] = k
      BY <2>5 DEF CommitCanceled, CommitSuccess, CommitFailure, CommitRetry, Finish
    <3>2. pc'[w] = "idle" /\ pc[w] # "idle"
      BY <2>5 DEF CommitCanceled, CommitSuccess, CommitFailure, CommitRetry, CanRetry,
                  Committing, Drop, Enter
    <3>3. snap[w] = attempts[k]
      BY <2>5, <3>1, <3>2
         DEF CommitCanceled, CommitSuccess, CommitFailure, CommitRetry, HoldsLease,
             OwnerHasAttempt
    <3>4. /\ status'[k] = "succeeded" => pc[w] = "succeeding"
          /\ status'[k] = "queued" => pc[w] = "retrying"
      BY <2>5, <3>1
         DEF CommitCanceled, CommitSuccess, CommitFailure, CommitRetry, CanRetry, Finish
    <3>. QED  BY <3>1, <3>2, <3>3, <3>4
  <2>6. CASE Tick
    BY <2>6 DEF Tick
  <2>. QED
    BY <2>1, <2>2, <2>3, <2>4, <2>5, <2>6 DEF Next, RunOnce, Commit
<1>. QED  BY <1>1, Invariance, PTL DEF Spec, OnlyTheCurrentAttemptCommits

-----------------------------------------------------------------------------
(* Refinement *)

\* Every step of the queue is a step of the promised life cycle or changes
\* nothing a client polls.
LEMMA StepRefines == IInv /\ [Next]_vars => [Lifecycle!LNext]_(Lifecycle!lvars)
<1>. SUFFICES ASSUME IInv, [Next]_vars
              PROVE  Lifecycle!LNext \/ UNCHANGED <<status, cancel, attempts>>
  BY DEF Lifecycle!lvars
<1>. USE DEF IInv, Typing, TypeOK, BusyHasJob, AttemptsInBudget, Lifecycle!LNext,
             Lifecycle!Serve, Lifecycle!Move, Lifecycle!Charge
<1>1. ASSUME NEW j \in Jobs, Submit(j)  PROVE Lifecycle!Submit(j)
  BY <1>1 DEF Submit, Lifecycle!Submit
<1>2. ASSUME NEW j \in Jobs, RequestCancel(j)
      PROVE  Lifecycle!CancelQueued(j) \/ Lifecycle!AskCancel(j)
  BY <1>2 DEF RequestCancel, Finish, Lifecycle!CancelQueued, Lifecycle!AskCancel
<1>3. ASSUME NEW w \in Workers, NEW j \in Jobs, ClaimAndRun(w, j)
      PROVE  Lifecycle!Start(j) \/ Lifecycle!Reassign(j)
  <2>1. CASE Due(j)
    BY <1>3, <2>1 DEF ClaimAndRun, Due, Lifecycle!Start
  <2>2. CASE Abandoned(j) /\ ~cancel[j] /\ attempts[j] + 1 < MaxAttempts[j]
    <3>1. status' = status
      BY <1>3, <2>2 DEF ClaimAndRun, Abandoned
    <3>. QED  BY <1>3, <2>2, <3>1 DEF ClaimAndRun, Abandoned, Lifecycle!Reassign
  <2>. QED  BY <1>3, <2>1, <2>2 DEF ClaimAndRun
<1>4. ASSUME NEW w \in Workers, NEW j \in Jobs, ClaimToFinish(w, j)
      PROVE  Lifecycle!ObeyCancel(j) \/ Lifecycle!GiveUp(j)
  BY <1>4 DEF ClaimToFinish, Abandoned, Finish, Lifecycle!ObeyCancel, Lifecycle!GiveUp
<1>5. ASSUME NEW w \in Workers, CommitCanceled(w)
      PROVE  held[w] \in Jobs /\ Lifecycle!ObeyCancel(held[w])
  BY <1>5 DEF CommitCanceled, Committing, HoldsLease, Finish, Lifecycle!ObeyCancel
<1>6. ASSUME NEW w \in Workers, CommitSuccess(w) \/ CommitFailure(w)
      PROVE  held[w] \in Jobs /\ Lifecycle!Finish(held[w])
  BY <1>6 DEF CommitSuccess, CommitFailure, HoldsLease, Finish, Lifecycle!Finish
<1>7. ASSUME NEW w \in Workers, CommitRetry(w)
      PROVE  held[w] \in Jobs /\ Lifecycle!Requeue(held[w])
  BY <1>7 DEF CommitRetry, CanRetry, HoldsLease, Lifecycle!Requeue
<1>8. ASSUME NEW w \in Workers,
             \/ BeforeExecution(w) \/ ExecutionEnds(w) \/ AfterExecution(w)
             \/ Heartbeat(w) \/ HeartbeatError(w) \/ CallbackError(w) \/ Crash(w)
             \/ CommitRefused(w)
      PROVE  UNCHANGED <<status, cancel, attempts>>
  BY <1>8 DEF BeforeExecution, ExecutionEnds, AfterExecution, Heartbeat,
              HeartbeatError, CallbackError, Crash, CommitRefused, rows
<1>9. CASE Tick \/ UNCHANGED vars
  BY <1>9 DEF Tick, vars
<1>. QED
  BY <1>1, <1>2, <1>3, <1>4, <1>5, <1>6, <1>7, <1>8, <1>9 DEF Next, RunOnce, Commit

\* The queue with its workers, leases and crashes implements the life cycle a
\* client is promised.
THEOREM Refinement == Spec => ImplementsLifecycle
<1>1. Init => Lifecycle!LInit
  BY DEF Init, Lifecycle!LInit
<1>. QED
  BY <1>1, StepRefines, Invariance, PTL DEF Spec, ImplementsLifecycle, Lifecycle!LSpec

\* The row of a job is sound: the four invariants of its lease, its budget, its
\* blob and its announced retry hold together.
THEOREM RowSound == Spec => []RowIsSound
BY Fencing, Budget, BlobPinned, RetryableTruth, PTL DEF RowIsSound

\* Only the worker of the current attempt ends it, and terminal rows stay.
THEOREM CommitsFenced == Spec => CommitsAreFenced
BY TerminalRows, SoleCommitter DEF CommitsAreFenced

=============================================================================
