---------------------------- MODULE JobLifecycle ----------------------------
(***************************************************************************)
(* What the workflow job queue promises to a client that submits jobs and  *)
(* polls them: the life of one row of workflow_jobs, without workers,      *)
(* leases, heartbeats or clocks.  WorkflowJobs implements it.              *)
(***************************************************************************)
EXTENDS Integers

CONSTANTS
  Jobs,     \* the jobs clients may submit
  Budget    \* Budget[j]: the job's max_attempts

VARIABLES
  phase,    \* what a poll of the job shows
  wanted,   \* the client asked a running job to stop
  charged   \* attempts charged to the job so far

lvars == <<phase, wanted, charged>>

Terminal == {"succeeded", "failed", "canceled"}
Phases == {"absent", "queued", "running"} \cup Terminal

LInit ==
  /\ phase = [j \in Jobs |-> "absent"]
  /\ wanted = [j \in Jobs |-> FALSE]
  /\ charged = [j \in Jobs |-> 0]

Move(j, from, to) ==
  /\ phase[j] = from
  /\ phase' = [phase EXCEPT ![j] = to]

Charge(j) == charged' = [charged EXCEPT ![j] = @ + 1]

Submit(j) ==
  /\ Move(j, "absent", "queued")
  /\ UNCHANGED <<wanted, charged>>

Start(j) ==
  /\ Move(j, "queued", "running")
  /\ Charge(j)
  /\ UNCHANGED wanted

\* A job whose executor went silent goes to another one while budget is left.
Reassign(j) ==
  /\ phase[j] = "running"
  /\ ~wanted[j]
  /\ charged[j] + 1 < Budget[j]
  /\ Charge(j)
  /\ UNCHANGED <<phase, wanted>>

GiveUp(j) ==
  /\ ~wanted[j]
  /\ charged[j] + 1 >= Budget[j]
  /\ Move(j, "running", "failed")
  /\ Charge(j)
  /\ UNCHANGED wanted

Requeue(j) ==
  /\ ~wanted[j]
  /\ charged[j] < Budget[j]
  /\ Move(j, "running", "queued")
  /\ UNCHANGED <<wanted, charged>>

Finish(j) ==
  /\ ~wanted[j]
  /\ \/ Move(j, "running", "succeeded")
     \/ Move(j, "running", "failed")
  /\ UNCHANGED <<wanted, charged>>

CancelQueued(j) ==
  /\ Move(j, "queued", "canceled")
  /\ UNCHANGED <<wanted, charged>>

AskCancel(j) ==
  /\ phase[j] = "running"
  /\ wanted' = [wanted EXCEPT ![j] = TRUE]
  /\ UNCHANGED <<phase, charged>>

\* The request is honoured by the executor, or by the worker that takes the
\* job over from a silent one (which is charged like any claim).
ObeyCancel(j) ==
  /\ wanted[j]
  /\ Move(j, "running", "canceled")
  /\ Charge(j) \/ UNCHANGED charged
  /\ UNCHANGED wanted

Serve(j) ==
  \/ Start(j) \/ Reassign(j) \/ GiveUp(j) \/ Requeue(j)
  \/ Finish(j) \/ ObeyCancel(j)

LNext == \E j \in Jobs : Serve(j) \/ Submit(j) \/ CancelQueued(j) \/ AskCancel(j)

LSpec == LInit /\ [][LNext]_lvars

LFairSpec == LSpec /\ \A j \in Jobs : WF_lvars(Serve(j))
=============================================================================
