--------------------------- MODULE MCWorkflowJobs ---------------------------
(***************************************************************************)
(* Instances of WorkflowJobs for TLC.                                      *)
(***************************************************************************)
EXTENDS WorkflowJobs, TLC

CONSTANTS pdf, url   \* an analyze_pdf_blob job and a job of another kind

\* enqueue_pdf_blob creates jobs with three attempts, create with one.
MCMaxAttempts == (pdf :> 3 @@ url :> 1)

\* One blob job alone, for the runs that need its three attempts and two
\* workers but no second job.
MCPdfOnly == (pdf :> 3)

MCRetryHints == {0, 2}

MCSymmetry == Permutations(Workers)
=============================================================================
