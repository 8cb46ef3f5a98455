---------------------------- MODULE WorkflowJobs ----------------------------
(***************************************************************************)
(* The Postgres workflow job queue (storage/repositories.py,               *)
(* PostgresWorkflowJobRepository) and the worker processes that drain it   *)
(* (workers/workflow_worker.py).  Every repository method locks the job    *)
(* row and commits once, so it is one action; a worker's run_once is a     *)
(* sequence of such actions, with its heartbeat thread, the clients that   *)
(* cancel, crashes and the clock interleaved between them.                 *)
(*                                                                         *)
(* A timestamp is compared with the present only, so it is kept as the     *)
(* number of ticks until it is reached: lease_expires_at <= now or NULL is *)
(* lease = 0, next_attempt_at <= now or NULL is delay = 0.                 *)
(***************************************************************************)
EXTENDS Integers, FiniteSets

CONSTANTS
  Jobs,          \* ids of the rows clients may create
  Workers,       \* worker processes; each runs under a worker_id of its own
  NoWorker,      \* locked_by is NULL
  NoJob,         \* an idle worker
  BlobJobs,      \* the analyze_pdf_blob jobs, created with a blob reference
  MaxAttempts,   \* max_attempts of each row
  LeaseSeconds,  \* lease_seconds of every worker
  BaseDelay,     \* retry_policy_json base_delay_seconds
  MaxDelay,      \* retry_policy_json max_delay_seconds
  RetryHints     \* retry_after_seconds a provider may send; 0: none

VARIABLES
  status,    \* workflow_jobs.status, "absent" before the row exists
  lockedBy,  \* workflow_jobs.locked_by
  lease,     \* ticks left until lease_expires_at
  delay,     \* ticks left until next_attempt_at
  attempts,  \* workflow_jobs.attempts
  cancel,    \* cancel_requested_at IS NOT NULL
  error,     \* what error_json says of the job's future
  jobRef,    \* the workflow_job row of blob_references that names the job
  pc,        \* where each worker is in run_once
  held,      \* the job a worker works on
  snap,      \* job.attempts in the copy the claim returned to the worker
  heart,     \* the heartbeat thread: running, or stopped by what it raised
  runs       \* history: executions of the job started so far

rows == <<status, lockedBy, lease, delay, attempts, cancel, error, jobRef>>
procs == <<pc, held, snap, heart>>
vars == <<status, lockedBy, lease, delay, attempts, cancel, error, jobRef,
          pc, held, snap, heart, runs>>

Terminal == {"succeeded", "failed", "canceled"}
Statuses == {"absent", "queued", "running"} \cup Terminal
Errors == {"none", "will_retry", "final", "canceled", "retry_exhausted"}
Steps == {"idle", "claimed", "executing", "returned", "succeeding",
          "retrying", "failing", "outage", "canceling"}
\* The except clauses of run_once hold a retryable exception, one that fails
\* fast, a database error (internal_error: it fails fast too), a cancellation.
Committing == {"succeeding", "retrying", "failing", "outage", "canceling"}

\* _retry_delay_seconds
Backoff(a) ==
  LET raw == BaseDelay * 2 ^ (a - 1)
  IN  IF raw < MaxDelay THEN raw ELSE MaxDelay

\* Mutant: the hint is taken for a time that has partly passed.
RetryDelay_Remaining(a, hint) == hint - Backoff(a)

RetryDelay(a, hint) == IF hint > Backoff(a) THEN hint ELSE Backoff(a)

ASSUME SetsAssumption ==
  /\ NoWorker \notin Workers
  /\ NoJob \notin Jobs
  /\ BlobJobs \subseteq Jobs

ASSUME NumbersAssumption ==
  /\ MaxAttempts \in [Jobs -> Nat \ {0}]
  /\ LeaseSeconds \in Nat \ {0}
  /\ RetryHints \subseteq Nat

\* Exponentiation is opaque to the provers; TLC evaluates this at startup.
ASSUME BackoffAssumption ==
  \A j \in Jobs : \A a \in 1..MaxAttempts[j] : Backoff(a) \in Nat

-----------------------------------------------------------------------------
(* The rows *)

Init ==
  /\ status = [j \in Jobs |-> "absent"]
  /\ lockedBy = [j \in Jobs |-> NoWorker]
  /\ lease = [j \in Jobs |-> 0]
  /\ delay = [j \in Jobs |-> 0]
  /\ attempts = [j \in Jobs |-> 0]
  /\ cancel = [j \in Jobs |-> FALSE]
  /\ error = [j \in Jobs |-> "none"]
  /\ jobRef = [j \in Jobs |-> "none"]
  /\ pc = [w \in Workers |-> "idle"]
  /\ held = [w \in Workers |-> NoJob]
  /\ snap = [w \in Workers |-> 0]
  /\ heart = [w \in Workers |-> "off"]
  /\ runs = [j \in Jobs |-> 0]

\* Mutant: the owner is not compared.
HoldsLease_AnyOwner(w, j) == status[j] = "running" /\ lease[j] > 0

\* _require_active_lease
HoldsLease(w, j) ==
  /\ status[j] = "running"
  /\ lockedBy[j] = w
  /\ lease[j] > 0

\* Mutant: the blob reference of the job is kept.
Finish_KeepsReference(j, outcome, err) ==
  /\ status' = [status EXCEPT ![j] = outcome]
  /\ error' = [error EXCEPT ![j] = err]
  /\ lockedBy' = [lockedBy EXCEPT ![j] = NoWorker]
  /\ lease' = [lease EXCEPT ![j] = 0]
  /\ delay' = [delay EXCEPT ![j] = 0]
  /\ UNCHANGED jobRef

\* _finish_workflow_job, with _clear_workflow_job_lock and
\* _release_workflow_job_reference
Finish(j, outcome, err) ==
  /\ status' = [status EXCEPT ![j] = outcome]
  /\ error' = [error EXCEPT ![j] = err]
  /\ lockedBy' = [lockedBy EXCEPT ![j] = NoWorker]
  /\ lease' = [lease EXCEPT ![j] = 0]
  /\ delay' = [delay EXCEPT ![j] = 0]
  /\ jobRef' = [jobRef EXCEPT ![j] = IF @ = "active" THEN "released" ELSE @]

\* create, and the insert of enqueue_pdf_blob with its blob reference
Submit(j) ==
  /\ status[j] = "absent"
  /\ status' = [status EXCEPT ![j] = "queued"]
  /\ jobRef' = [jobRef EXCEPT ![j] = IF j \in BlobJobs THEN "active" ELSE "none"]
  /\ UNCHANGED <<lockedBy, lease, delay, attempts, cancel, error, runs, procs>>

\* mark_canceled: a client cancels through REST or MCP
RequestCancel(j) ==
  /\ \/ /\ status[j] = "queued"
        /\ Finish(j, "canceled", "canceled")
        /\ UNCHANGED cancel
     \/ /\ status[j] = "running"
        /\ cancel' = [cancel EXCEPT ![j] = TRUE]
        /\ UNCHANGED <<status, lockedBy, lease, delay, error, jobRef>>
  /\ UNCHANGED <<attempts, runs, procs>>

-----------------------------------------------------------------------------
(* claim_next *)

Due(j) == status[j] = "queued" /\ delay[j] = 0

Abandoned(j) == status[j] = "running" /\ lease[j] = 0

\* The claim takes the oldest due row whose lock is free (SKIP LOCKED); a
\* client or another worker may hold any row's lock for a moment, so any due
\* row may be the one taken.  A worker without a due row just sleeps.
ClaimAndRun(w, j) ==
  /\ pc[w] = "idle"
  /\ \/ Due(j)
     \/ Abandoned(j) /\ ~cancel[j] /\ attempts[j] + 1 < MaxAttempts[j]
  /\ status' = [status EXCEPT ![j] = "running"]
  /\ lockedBy' = [lockedBy EXCEPT ![j] = w]
  /\ lease' = [lease EXCEPT ![j] = LeaseSeconds]
  /\ delay' = [delay EXCEPT ![j] = 0]
  /\ attempts' = [attempts EXCEPT ![j] = @ + 1]
  /\ pc' = [pc EXCEPT ![w] = "claimed"]
  /\ held' = [held EXCEPT ![w] = j]
  /\ snap' = [snap EXCEPT ![w] = attempts[j] + 1]
  /\ UNCHANGED <<cancel, error, jobRef, heart, runs>>

\* Mutant: retry exhaustion is tested before the cancel request.
ClaimToFinish_ExhaustedFirst(w, j) ==
  /\ pc[w] = "idle"
  /\ Abandoned(j)
  /\ IF attempts[j] + 1 >= MaxAttempts[j]
     THEN Finish(j, "failed", "retry_exhausted")
     ELSE cancel[j] /\ Finish(j, "canceled", "canceled")
  /\ attempts' = [attempts EXCEPT ![j] = @ + 1]
  /\ UNCHANGED <<cancel, runs, procs>>

\* A reclaimed row that must not run again is finished by the claim itself,
\* and run_once returns it: the worker stays idle.
ClaimToFinish(w, j) ==
  /\ pc[w] = "idle"
  /\ Abandoned(j)
  /\ \/ cancel[j] /\ Finish(j, "canceled", "canceled")
     \/ /\ ~cancel[j]
        /\ attempts[j] + 1 >= MaxAttempts[j]
        /\ Finish(j, "failed", "retry_exhausted")
  /\ attempts' = [attempts EXCEPT ![j] = @ + 1]
  /\ UNCHANGED <<cancel, runs, procs>>

-----------------------------------------------------------------------------
(* run_once after the claim *)

Enter(w, step) == pc' = [pc EXCEPT ![w] = step]

\* run_once returns (or the process dies and its supervisor restarts it).
Drop(w) ==
  /\ Enter(w, "idle")
  /\ held' = [held EXCEPT ![w] = NoJob]
  /\ snap' = [snap EXCEPT ![w] = 0]
  /\ heart' = [heart EXCEPT ![w] = "off"]

\* Leaving the with block stops and joins the heartbeat thread.
LeaveWith(w, step) ==
  /\ Enter(w, step)
  /\ heart' = [heart EXCEPT ![w] = "off"]
  /\ UNCHANGED <<held, snap>>

\* The cancellation callback raised: WorkflowJobLeaseLostError makes run_once
\* return the row as it is, WorkflowJobCanceledError goes to complete_canceled.
CallbackRaises(w) ==
  \/ ~HoldsLease(w, held[w]) /\ Drop(w)
  \/ HoldsLease(w, held[w]) /\ cancel[held[w]] /\ LeaveWith(w, "canceling")

\* The callback before the execution; the heartbeat thread starts after it.
BeforeExecution(w) ==
  /\ pc[w] = "claimed"
  /\ \/ CallbackRaises(w) /\ UNCHANGED runs
     \/ /\ HoldsLease(w, held[w]) /\ ~cancel[held[w]]
        /\ Enter(w, "executing")
        /\ heart' = [heart EXCEPT ![w] = "on"]
        /\ runs' = [runs EXCEPT ![held[w]] = @ + 1]
        /\ UNCHANGED <<held, snap>>
  /\ UNCHANGED rows

\* One turn of heartbeat_loop.  The thread stops at the first exception: a lost
\* lease, or whatever the database driver raised.
Heartbeat(w) ==
  /\ heart[w] = "on"
  /\ IF HoldsLease(w, held[w])
     THEN /\ lease' = [lease EXCEPT ![held[w]] = LeaseSeconds]
          /\ UNCHANGED heart
     ELSE /\ heart' = [heart EXCEPT ![w] = "lost"]
          /\ UNCHANGED lease
  /\ UNCHANGED <<status, lockedBy, delay, attempts, cancel, error, jobRef,
                 pc, held, snap, runs>>

HeartbeatError(w) ==
  /\ heart[w] = "on"
  /\ heart' = [heart EXCEPT ![w] = "error"]
  /\ UNCHANGED <<rows, pc, held, snap, runs>>

\* executor.execute returns, raises, or, for the one kind that passes the
\* callback down to the graph nodes, stops at a cancel request.
ExecutionEnds(w) ==
  /\ pc[w] = "executing"
  /\ \/ Enter(w, "returned") /\ UNCHANGED <<held, snap, heart>>
     \/ \E step \in {"retrying", "failing"} : LeaveWith(w, step)
     \/ /\ held[w] \in BlobJobs
        /\ HoldsLease(w, held[w]) /\ cancel[held[w]]
        /\ LeaveWith(w, "canceling")
  /\ UNCHANGED <<rows, runs>>

\* The callback after the execution, then the errors of the heartbeat thread.
AfterExecution(w) ==
  /\ pc[w] = "returned"
  /\ \/ CallbackRaises(w)
     \/ /\ HoldsLease(w, held[w]) /\ ~cancel[held[w]]
        /\ \/ heart[w] = "on" /\ LeaveWith(w, "succeeding")
           \/ heart[w] = "lost" /\ Drop(w)
           \/ heart[w] = "error" /\ LeaveWith(w, "outage")
  /\ UNCHANGED <<rows, runs>>

\* A callback whose query fails raises into the same except clause.
CallbackError(w) ==
  /\ pc[w] \in {"claimed", "returned"}
  /\ LeaveWith(w, "outage")
  /\ UNCHANGED <<rows, runs>>

-----------------------------------------------------------------------------
(* The commit that ends run_once *)

\* Every commit first requires the lease, and a lost one changes no row.
CommitRefused(w) ==
  /\ pc[w] \in Committing
  /\ ~HoldsLease(w, held[w])
  /\ Drop(w)
  /\ UNCHANGED <<rows, runs>>

\* The other commits of a row with a cancel request end in canceled too.
CommitCanceled(w) ==
  /\ pc[w] \in Committing
  /\ HoldsLease(w, held[w])
  /\ cancel[held[w]]
  /\ Finish(held[w], "canceled", "canceled")
  /\ Drop(w)
  /\ UNCHANGED <<attempts, cancel, runs>>

\* Mutant: the cancel request is not read before the success is written.
CommitSuccess_IgnoresCancel(w) ==
  /\ pc[w] = "succeeding"
  /\ HoldsLease(w, held[w])
  /\ Finish(held[w], "succeeded", "none")
  /\ Drop(w)
  /\ UNCHANGED <<attempts, cancel, runs>>

\* mark_succeeded
CommitSuccess(w) ==
  /\ pc[w] = "succeeding"
  /\ HoldsLease(w, held[w])
  /\ ~cancel[held[w]]
  /\ Finish(held[w], "succeeded", "none")
  /\ Drop(w)
  /\ UNCHANGED <<attempts, cancel, runs>>

CanRetry(w, j) == pc[w] = "retrying" /\ attempts[j] < MaxAttempts[j]

\* Mutant: the cancel request is not read before the failure is written.
CommitFailure_IgnoresCancel(w) ==
  /\ pc[w] \in {"retrying", "failing", "outage"}
  /\ HoldsLease(w, held[w])
  /\ ~CanRetry(w, held[w])
  /\ Finish(held[w], "failed", "final")
  /\ Drop(w)
  /\ UNCHANGED <<attempts, cancel, runs>>

\* record_failure, terminal
CommitFailure(w) ==
  /\ pc[w] \in {"retrying", "failing", "outage"}
  /\ HoldsLease(w, held[w])
  /\ ~cancel[held[w]]
  /\ ~CanRetry(w, held[w])
  /\ Finish(held[w], "failed", "final")
  /\ Drop(w)
  /\ UNCHANGED <<attempts, cancel, runs>>

\* record_failure, back to the queue.  error_json.retryable is will_retry,
\* which run_once computed from its own copy of attempts.
CommitRetry(w) ==
  LET j == held[w]
  IN  /\ CanRetry(w, j)
      /\ HoldsLease(w, j)
      /\ ~cancel[j]
      /\ status' = [status EXCEPT ![j] = "queued"]
      /\ \E hint \in RetryHints :
           delay' = [delay EXCEPT ![j] = RetryDelay(attempts[j], hint)]
      /\ error' = [error EXCEPT ![j] =
                     IF snap[w] < MaxAttempts[j] THEN "will_retry" ELSE "final"]
      /\ lockedBy' = [lockedBy EXCEPT ![j] = NoWorker]
      /\ lease' = [lease EXCEPT ![j] = 0]
      /\ Drop(w)
      /\ UNCHANGED <<attempts, cancel, jobRef, runs>>

\* A worker process dies where it stands: the row keeps its lock and lease.
\* Also what an exception of claim_next or of a commit itself amounts to.
Crash(w) ==
  /\ pc[w] # "idle"
  /\ Drop(w)
  /\ UNCHANGED <<rows, runs>>

Countdown(f) == [j \in Jobs |-> IF f[j] > 0 THEN f[j] - 1 ELSE 0]

Tick ==
  /\ lease' = Countdown(lease)
  /\ delay' = Countdown(delay)
  /\ UNCHANGED <<status, lockedBy, attempts, cancel, error, jobRef, runs, procs>>

Commit(w) ==
  \/ CommitRefused(w) \/ CommitCanceled(w) \/ CommitSuccess(w)
  \/ CommitFailure(w) \/ CommitRetry(w)

RunOnce(w) ==
  \/ \E j \in Jobs : ClaimAndRun(w, j) \/ ClaimToFinish(w, j)
  \/ BeforeExecution(w) \/ ExecutionEnds(w) \/ AfterExecution(w) \/ Commit(w)

Next ==
  \/ \E j \in Jobs : Submit(j) \/ RequestCancel(j)
  \/ \E w \in Workers : RunOnce(w)
  \/ \E w \in Workers : Heartbeat(w) \/ HeartbeatError(w)
  \/ \E w \in Workers : CallbackError(w) \/ Crash(w)
  \/ Tick

Spec == Init /\ [][Next]_vars

\* Time passes and every worker process keeps running its loop (run_forever):
\* it polls, its executions end, its commits are sent.  Clients, crashes,
\* database errors and the heartbeat thread owe nothing.
FairSpec == Spec /\ WF_vars(Tick) /\ \A w \in Workers : WF_vars(RunOnce(w))

-----------------------------------------------------------------------------
(* Properties *)

TypeOK ==
  /\ status \in [Jobs -> Statuses]
  /\ lockedBy \in [Jobs -> Workers \cup {NoWorker}]
  /\ lease \in [Jobs -> Nat]
  /\ delay \in [Jobs -> Nat]
  /\ attempts \in [Jobs -> Nat]
  /\ cancel \in [Jobs -> BOOLEAN]
  /\ error \in [Jobs -> Errors]
  /\ jobRef \in [Jobs -> {"none", "active", "released"}]
  /\ pc \in [Workers -> Steps]
  /\ held \in [Workers -> Jobs \cup {NoJob}]
  /\ snap \in [Workers -> Nat]
  /\ heart \in [Workers -> {"off", "on", "lost", "error"}]
  /\ runs \in [Jobs -> Nat]

\* A worker that passes the lease check of a commit works on the row's current
\* attempt: locked_by and the lease alone, which is all _require_active_lease
\* looks at, fence off every process whose attempt was handed to another.
LeaseFencing ==
  \A w \in Workers :
    pc[w] # "idle" /\ HoldsLease(w, held[w]) => snap[w] = attempts[held[w]]

\* A recorded cancel request is never lost: the row stays running until it is
\* canceled; it is not requeued, failed or reported as succeeded, whoever
\* commits first and however often the job is reclaimed.
CancelIsNeverLost == \A j \in Jobs : cancel[j] => status[j] \in {"running", "canceled"}

\* Crashes, lost leases and retries together never start more executions than
\* max_attempts, although a reclaim may charge one attempt more than that.
ExecutionBudget ==
  \A j \in Jobs : runs[j] <= MaxAttempts[j] /\ runs[j] <= attempts[j]

\* A job that may still run keeps its blob referenced (blob cleanup deletes
\* what has no active reference), and a finished one pins it no longer.
JobPinsItsBlob ==
  \A j \in BlobJobs :
    /\ status[j] \in {"queued", "running"} => jobRef[j] = "active"
    /\ status[j] \in Terminal => jobRef[j] = "released"

\* error_json with retryable = true is only seen on a job that is queued for
\* its next attempt or already in it, and every requeued job carries it
\* (docs/RESILIENCE.md, Worker Retry Semantics).
RetryableIsTruthful ==
  \A j \in Jobs :
    /\ error[j] = "will_retry" => status[j] \in {"queued", "running"}
    /\ status[j] = "queued" => error[j] = (IF attempts[j] = 0 THEN "none" ELSE "will_retry")

\* A finished row is never written again: not by a stale worker, a late
\* heartbeat, a second cancel or a reclaim.
FinishedIsFinal ==
  [][\A j \in Jobs : status[j] \in Terminal =>
       /\ status'[j] = status[j]
       /\ error'[j] = error[j]
       /\ attempts'[j] = attempts[j]
       /\ lockedBy'[j] = NoWorker]_vars

\* A job leaves its running attempt (attempts unchanged) only through the one
\* worker that was given this attempt and through what that worker decided.
OnlyTheCurrentAttemptCommits ==
  [][\A j \in Jobs :
       status[j] = "running" /\ status'[j] # "running" /\ attempts'[j] = attempts[j] =>
         \E w \in Workers :
           /\ held[w] = j
           /\ snap[w] = attempts[j]
           /\ pc'[w] = "idle"
           /\ status'[j] = "succeeded" => pc[w] = "succeeding"
           /\ status'[j] = "queued" => pc[w] = "retrying"]_vars

\* Every submitted job reaches a terminal status, whatever crashes and lost
\* leases happen, as long as time passes and workers keep polling.
EveryJobFinishes ==
  \A j \in Jobs : status[j] = "queued" ~> status[j] \in Terminal

\* A cancel request on a running job ends in canceled.
CancelIsHonoured == \A j \in Jobs : cancel[j] ~> status[j] = "canceled"

\* A failure reported as retryable is followed by another attempt, unless a
\* client cancels the job.
RetryableIsRetried ==
  \A j \in Jobs : status[j] = "queued" /\ error[j] = "will_retry"
                    ~> status[j] \in {"running", "canceled"}

\* The queue implements the life cycle a client is promised.
Lifecycle == INSTANCE JobLifecycle WITH
  Budget <- MaxAttempts, phase <- status, wanted <- cancel, charged <- attempts

ImplementsLifecycle == Lifecycle!LSpec

ImplementsFairLifecycle == Lifecycle!LFairSpec

\* The row of a job is what a client and a worker are told: who holds it works
\* on its current attempt, it has been executed no more often than allowed, it
\* pins the blob it still needs and announces only retries that will come.
RowIsSound == LeaseFencing /\ ExecutionBudget /\ JobPinsItsBlob /\ RetryableIsTruthful

\* Only the worker of the current attempt ends it, and what is over stays so.
CommitsAreFenced == FinishedIsFinal /\ OnlyTheCurrentAttemptCommits

\* Whatever a client waits for comes: the end of a job, the end of a canceled
\* one, the retry it was told of.
JobsProgress == EveryJobFinishes /\ CancelIsHonoured /\ RetryableIsRetried
=============================================================================
