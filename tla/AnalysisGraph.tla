----------------------------- MODULE AnalysisGraph -----------------------------
(***************************************************************************)
(* The analysis workflow: the graph of graph.py with its agents, and the   *)
(* handler around it (api/chat_handler.py) that invokes it, stores the     *)
(* artifacts of its result and sets the phase of the session.              *)
(*                                                                         *)
(* One run analyses papers 1..Total of one session; later runs repeat it   *)
(* (the next attempt of a job, or a user who asks again), and what the     *)
(* databases hold survives from run to run.  A paper's metadata, text and  *)
(* report are abstracted to the number of the paper they are about.  The   *)
(* graph is the one app_factory.py compiles: no checkpointer and no        *)
(* interrupt, so human_review is passed through.  Records of agent runs    *)
(* and the contents of the conversation turns are left out.                *)
(***************************************************************************)
EXTENDS Integers, Sequences, FiniteSets

CONSTANTS
  Total,           \* total_papers
  FromSelection,   \* TRUE: analyze_selected_papers; FALSE: analyze_paper_input
  RecursionLimit,  \* supersteps LangGraph allows one run
  MaxRuns          \* bound: how often the analysis is asked for

ASSUME NumbersAssumption ==
  /\ Total \in Nat \ {0}
  /\ FromSelection \in BOOLEAN
  /\ RecursionLimit \in Nat
  /\ MaxRuns \in Nat

\* Only a selection has several URLs: analyze_paper_input passes batch_urls None.
ASSUME BatchAssumption == Total > 1 => FromSelection

VARIABLES
  (* PaperIntelState of the current run, gone when it ends *)
  node,        \* what runs next: a node of the graph or a step of the handler
  stage,       \* processing_stage
  index,       \* current_paper_index
  papers,      \* the PaperSlots
  scratch,     \* the paper that metadata and raw_text are about, or None
  report,      \* the paper that engineer_report is about, or None
  paperFailed, \* paper_failed
  compared,    \* comparison_markdown is there
  steps,       \* supersteps of the run
  (* the databases *)
  runs,        \* runs started
  unanswered,  \* user turns without an assistant turn
  phase,       \* phase of the session
  chunks,      \* rows of paper_chunks: paper -> position it is stored under, or None
  vectors,     \* Qdrant: paper -> position in the payload, or None
  active,      \* active_paper_ids
  workspaces,  \* paper workspaces of the session
  comparison,  \* papers of the stored comparison artifact
  analyzed     \* selected candidates with status "analyzed"

graphState == <<node, stage, index, papers, scratch, report, paperFailed, compared, steps>>
stores == <<runs, unanswered, phase, chunks, vectors, active, workspaces, comparison, analyzed>>
vars == <<graphState, stores>>

Papers == 1..Total
None == 0
IsBatch == Total > 1

GraphNodes ==
  {"supervisor", "ingestion", "extraction", "human_review", "benchmark", "readiness",
   "report", "evidence_critic", "report_finalize", "chunk_and_index",
   "paper_failure_finalize", "comparator", "error"}
IndexingSteps == {"embedding", "activating"}
HandlerSteps == {"idle", "persist", "respond", "marking"}

Init ==
  /\ node = "idle" /\ stage = "ingestion" /\ index = 0 /\ papers = <<>>
  /\ scratch = None /\ report = None /\ paperFailed = FALSE /\ compared = FALSE
  /\ steps = 0 /\ runs = 0 /\ unanswered = 0 /\ phase = "idle"
  /\ chunks = [p \in Papers |-> None]
  /\ vectors = [p \in Papers |-> None]
  /\ active = {} /\ workspaces = {} /\ comparison = {} /\ analyzed = {}

-----------------------------------------------------------------------------
(* Routers and error helpers *)

\* The four routers after ingestion, extraction, benchmark and readiness.
RouteAfter(s, expected, next) ==
  CASE s = "failed" -> "error"
    [] s = "paper_failure_finalize" -> "paper_failure_finalize"
    [] s = expected -> next
    [] OTHER -> "error"

\* Mutant: the last index is taken for one more paper.
RouteAfterFinalize_OneMore(i, slots) ==
  IF i <= Total THEN "ingestion"
  ELSE IF Len(slots) >= 2 THEN "comparator" ELSE "persist"

\* Mutant: two slots are enough to compare.
RouteAfterFinalize_Early(i, slots) ==
  IF Len(slots) >= 2 THEN "comparator"
  ELSE IF i < Total THEN "ingestion" ELSE "persist"

RouteAfterFinalize(i, slots) ==
  IF i < Total THEN "ingestion"
  ELSE IF Len(slots) >= 2 THEN "comparator" ELSE "persist"

PaperErrorStage == IF IsBatch THEN "paper_failure_finalize" ELSE "failed"

PaperError ==
  /\ stage' = PaperErrorStage
  /\ paperFailed' = TRUE
  /\ UNCHANGED <<scratch, report>>

FatalError ==
  /\ stage' = "failed"
  /\ paperFailed' = FALSE

\* Mutant: the metadata is forgotten.
ScratchReset_KeepsMetadata ==
  /\ report' = None
  /\ paperFailed' = FALSE
  /\ UNCHANGED scratch

ScratchReset ==
  /\ scratch' = None
  /\ report' = None
  /\ paperFailed' = FALSE

\* The node n runs in the next superstep of the run.
Superstep(n) ==
  /\ node = n
  /\ steps < RecursionLimit
  /\ steps' = steps + 1

-----------------------------------------------------------------------------
(* Nodes of the graph *)

\* The entry router always finds stage "ingestion".
Supervisor ==
  /\ Superstep("supervisor")
  /\ node' = "ingestion"
  /\ UNCHANGED <<stage, index, papers, scratch, report, paperFailed, compared, stores>>

\* PDF or abstract of the paper at current_paper_index, or neither.
Ingestion ==
  /\ Superstep("ingestion")
  /\ \/ /\ scratch' = index + 1
        /\ stage' = "extraction"
        /\ UNCHANGED <<report, paperFailed>>
     \/ PaperError
  /\ node' = RouteAfter(stage', "extraction", "extraction")
  /\ UNCHANGED <<index, papers, compared, stores>>

\* Low confidence sets needs_human_review, which only the next router reads.
Extraction ==
  /\ Superstep("extraction")
  /\ \/ /\ stage' = "benchmark"
        /\ node' \in {"benchmark", "human_review"}
        /\ UNCHANGED <<scratch, report, paperFailed>>
     \/ /\ PaperError
        /\ node' = RouteAfter(stage', "benchmark", "benchmark")
  /\ UNCHANGED <<index, papers, compared, stores>>

HumanReview ==
  /\ Superstep("human_review")
  /\ stage' = "benchmark"
  /\ node' = "benchmark"
  /\ UNCHANGED <<index, papers, scratch, report, paperFailed, compared, stores>>

\* benchmark and readiness: an LLM call that succeeds or fails the paper.
Analyst(n, done, next) ==
  /\ Superstep(n)
  /\ \/ /\ stage' = done
        /\ UNCHANGED <<scratch, report, paperFailed>>
     \/ PaperError
  /\ node' = RouteAfter(stage', done, next)
  /\ UNCHANGED <<index, papers, compared, stores>>

Benchmark == Analyst("benchmark", "readiness", "readiness")

Readiness == Analyst("readiness", "report", "report")

\* The edge to evidence_critic is unconditional, also after an error.
Report ==
  /\ Superstep("report")
  /\ \/ /\ report' = scratch
        /\ stage' = "completed"
        /\ UNCHANGED <<scratch, paperFailed>>
     \/ PaperError
  /\ node' = "evidence_critic"
  /\ UNCHANGED <<index, papers, compared, stores>>

\* May downgrade the wording of the report, which stays about the same paper.
EvidenceCritic ==
  /\ Superstep("evidence_critic")
  /\ node' = "report_finalize"
  /\ UNCHANGED <<stage, index, papers, scratch, report, paperFailed, compared, stores>>

\* A PaperSlot: its index, the papers its metadata and its report are about.
Slot(done) ==
  [paper_index |-> index, about |-> scratch, report |-> report, completed |-> done]

\* Mutant: the index is not moved on.
ReportFinalize_KeepsIndex ==
  /\ Superstep("report_finalize")
  /\ \/ /\ report # None
        /\ papers' = Append(papers, Slot(TRUE))
        /\ stage' = "report_finalize"
        /\ UNCHANGED <<paperFailed, index>>
     \/ /\ report = None
        /\ FatalError
        /\ UNCHANGED <<papers, index>>
  /\ node' = "chunk_and_index"
  /\ UNCHANGED <<scratch, report, compared, stores>>

ReportFinalize ==
  /\ Superstep("report_finalize")
  /\ \/ /\ report # None
        /\ papers' = Append(papers, Slot(TRUE))
        /\ index' = index + 1
        /\ stage' = "report_finalize"
        /\ UNCHANGED paperFailed
     \/ /\ report = None
        /\ FatalError
        /\ UNCHANGED <<papers, index>>
  /\ node' = "chunk_and_index"
  /\ UNCHANGED <<scratch, report, compared, stores>>

PaperFailureFinalize ==
  /\ Superstep("paper_failure_finalize")
  /\ papers' = Append(papers, Slot(FALSE))
  /\ index' = index + 1
  /\ stage' = "paper_failure_finalize"
  /\ ScratchReset
  /\ node' = RouteAfterFinalize(index', papers')
  /\ UNCHANGED <<compared, stores>>

\* Every return of chunk_and_index_node, whatever its status.
IndexingReturns ==
  /\ stage' = "chunk_and_index"
  /\ ScratchReset
  /\ node' = RouteAfterFinalize(index, papers)
  /\ UNCHANGED <<index, papers, compared>>

\* The position chunks are stored under: that of the last finalized slot.
LastSlotIndex == papers[Len(papers)].paper_index + 1

\* No slot or a chunking error, or the rows of paper_chunks are committed.
ChunkAndIndex ==
  /\ Superstep("chunk_and_index")
  /\ \/ /\ IndexingReturns
        /\ UNCHANGED chunks
     \/ /\ papers # <<>>
        /\ chunks' = [chunks EXCEPT ![scratch] = LastSlotIndex]
        /\ node' = "embedding"
        /\ UNCHANGED <<stage, index, papers, scratch, report, paperFailed, compared>>
  /\ UNCHANGED <<runs, unanswered, phase, vectors, active, workspaces, comparison, analyzed>>

\* Mutant: an error of the embedding is swallowed and the paper activated.
EmbedAndUpsert_Swallows ==
  /\ node = "embedding"
  /\ vectors' \in {vectors, [vectors EXCEPT ![scratch] = LastSlotIndex]}
  /\ node' = "activating"
  /\ UNCHANGED <<stage, index, papers, scratch, report, paperFailed, compared>>
  /\ UNCHANGED <<steps, runs, unanswered, phase, chunks, active, workspaces, comparison, analyzed>>

\* Still in the node: the vectors are embedded and upserted, or an error is caught.
EmbedAndUpsert ==
  /\ node = "embedding"
  /\ \/ /\ IndexingReturns
        /\ UNCHANGED vectors
     \/ /\ vectors' = [vectors EXCEPT ![scratch] = LastSlotIndex]
        /\ node' = "activating"
        /\ UNCHANGED <<stage, index, papers, scratch, report, paperFailed, compared>>
  /\ UNCHANGED <<steps, runs, unanswered, phase, chunks, active, workspaces, comparison, analyzed>>

\* An error of add_active_paper is a warning.
AddActivePaper ==
  /\ node = "activating"
  /\ active' \in {active \cup {scratch}, active}
  /\ IndexingReturns
  /\ UNCHANGED <<steps, runs, unanswered, phase, chunks, vectors, workspaces, comparison, analyzed>>

Comparator ==
  /\ Superstep("comparator")
  /\ compared' = TRUE
  /\ stage' = "comparison_completed"
  /\ node' = "persist"
  /\ UNCHANGED <<index, papers, scratch, report, paperFailed, stores>>

ErrorNode ==
  /\ Superstep("error")
  /\ stage' = "failed"
  /\ node' = "persist"
  /\ UNCHANGED <<index, papers, scratch, report, paperFailed, compared, stores>>

-----------------------------------------------------------------------------
(* The handler *)

\* The user turn is appended, then the graph starts from a fresh state.
Invoke ==
  /\ node = "idle"
  /\ runs < MaxRuns
  /\ runs' = runs + 1
  /\ unanswered' = unanswered + 1
  /\ node' = "supervisor" /\ stage' = "ingestion" /\ index' = 0 /\ papers' = <<>>
  /\ scratch' = None /\ report' = None /\ paperFailed' = FALSE /\ compared' = FALSE
  /\ steps' = 0
  /\ UNCHANGED <<phase, chunks, vectors, active, workspaces, comparison, analyzed>>

\* cancellation_guard raises WorkflowCancellationRequested before a node; only
\* the analysis of one uploaded PDF passes a callback.
Cancel ==
  /\ ~FromSelection
  /\ node \in GraphNodes
  /\ node' = "idle"
  /\ UNCHANGED <<stage, index, papers, scratch, report, paperFailed, compared, steps, stores>>

\* Mutant: the handler starts the graph again instead of reporting a failure.
GraphRaises_Retries ==
  /\ node \in GraphNodes
  /\ node' = "supervisor" /\ stage' = "ingestion" /\ index' = 0 /\ papers' = <<>>
  /\ scratch' = None /\ report' = None /\ paperFailed' = FALSE /\ compared' = FALSE
  /\ steps' = 0
  /\ UNCHANGED stores

\* Any other exception out of the graph, GraphRecursionError among them.
GraphRaises ==
  /\ node \in GraphNodes
  /\ node' = "idle"
  /\ phase' = "failed"
  /\ unanswered' = unanswered - 1
  /\ UNCHANGED <<stage, index, papers, scratch, report, paperFailed, compared, steps,
                 runs, chunks, vectors, active, workspaces, comparison, analyzed>>

AnalysisFailed == paperFailed \/ stage = "failed"

\* The positions of the slots that the artifacts are made from.
Completed(slots) == {k \in 1..Len(slots) : slots[k].completed}

Workspace(s) == [paper |-> s.about, source |-> s.paper_index + 1, report |-> s.report]

\* upsert_workspace replaces the row of the same paper.
Upsert(stored, new) == {w \in stored : \A v \in new : v.paper # w.paper} \cup new

\* An exception in the middle of the writes is a warning: a prefix is stored.
PersistArtifacts ==
  /\ node = "persist"
  /\ \/ /\ AnalysisFailed
        /\ UNCHANGED <<workspaces, comparison>>
     \/ /\ ~AnalysisFailed
        /\ \E last \in 0..Len(papers) :
             LET saved == {k \in Completed(papers) : k <= last} IN
             /\ workspaces' = Upsert(workspaces, {Workspace(papers[k]) : k \in saved})
             /\ \/ UNCHANGED comparison
                \/ /\ saved = Completed(papers)
                   /\ compared /\ Cardinality(saved) >= 2
                   /\ comparison' = {papers[k].about : k \in saved}
  /\ node' = "respond"
  /\ UNCHANGED <<stage, index, papers, scratch, report, paperFailed, compared, steps,
                 runs, unanswered, phase, chunks, vectors, active, analyzed>>

NextPhase == IF AnalysisFailed THEN "failed" ELSE "qa"

\* update_phase and the assistant turn.
Respond ==
  /\ node = "respond"
  /\ phase' = NextPhase
  /\ unanswered' = unanswered - 1
  /\ node' = IF FromSelection THEN "marking" ELSE "idle"
  /\ UNCHANGED <<stage, index, papers, scratch, report, paperFailed, compared, steps,
                 runs, chunks, vectors, active, workspaces, comparison, analyzed>>

\* analyze_selected_papers marks its candidates one by one; the process may die.
MarkCandidates ==
  /\ node = "marking"
  /\ \/ /\ phase = "qa"
        /\ \E last \in 0..Total : analyzed' = analyzed \cup 1..last
     \/ /\ phase # "qa"
        /\ UNCHANGED analyzed
  /\ node' = "idle"
  /\ UNCHANGED <<stage, index, papers, scratch, report, paperFailed, compared, steps,
                 runs, unanswered, phase, chunks, vectors, active, workspaces, comparison>>

\* The process dies anywhere in a run.
Crash ==
  /\ node # "idle"
  /\ node' = "idle"
  /\ UNCHANGED <<stage, index, papers, scratch, report, paperFailed, compared, steps, stores>>

GraphStep ==
  \/ Supervisor \/ Ingestion \/ Extraction \/ HumanReview \/ Benchmark \/ Readiness
  \/ Report \/ EvidenceCritic \/ ReportFinalize \/ PaperFailureFinalize
  \/ ChunkAndIndex \/ EmbedAndUpsert \/ AddActivePaper \/ Comparator \/ ErrorNode

HandlerStep == GraphRaises \/ PersistArtifacts \/ Respond \/ MarkCandidates

Next == Invoke \/ GraphStep \/ HandlerStep \/ Cancel \/ Crash

Spec == Init /\ [][Next]_vars

(* A run is one thread of a live process: it keeps going until it has ended.  *)
(* Nobody has to ask for an analysis, cancel it, or crash.                    *)
FairSpec == Spec /\ WF_vars(GraphStep \/ HandlerStep)

-----------------------------------------------------------------------------
(* Properties *)

Stages == {"ingestion", "extraction", "benchmark", "readiness", "report", "completed",
           "report_finalize", "chunk_and_index", "paper_failure_finalize",
           "comparison_completed", "failed"}

SlotRecords ==
  [paper_index : 0..(Total - 1), about : 0..Total, report : 0..Total, completed : BOOLEAN]

WorkspaceRecords == [paper : 0..Total, source : Papers, report : 0..Total]

(* Every variable has the type the code gives it; the index never passes the *)
(* batch and no more turns are answered than were asked.                     *)
TypeOK ==
  /\ node \in GraphNodes \cup IndexingSteps \cup HandlerSteps
  /\ stage \in Stages
  /\ index \in 0..Total
  /\ papers \in Seq(SlotRecords)
  /\ scratch \in 0..Total /\ report \in 0..Total
  /\ paperFailed \in BOOLEAN /\ compared \in BOOLEAN
  /\ steps \in 0..RecursionLimit /\ runs \in 0..MaxRuns /\ unanswered \in Nat
  /\ phase \in {"idle", "qa", "failed"}
  /\ chunks \in [Papers -> 0..Total] /\ vectors \in [Papers -> 0..Total]
  /\ active \subseteq Papers /\ analyzed \subseteq Papers
  /\ workspaces \subseteq WorkspaceRecords
  /\ comparison \subseteq 0..Total

(* agents/report_finalize.py, agents/paper_failure_finalize.py: after any    *)
(* mixture of successes, failures and repeated papers the slots are those of *)
(* papers 1, 2, ... in order, one each, as many as the index says.           *)
SlotsInOrder ==
  /\ Len(papers) = index
  /\ \A k \in 1..Len(papers) : papers[k].paper_index = k - 1

(* _SCRATCH_RESET: nothing of an earlier paper is left in a later one: a     *)
(* slot holds metadata and a report of its own paper or none at all, and a   *)
(* completed slot holds both.                                                *)
SlotHoldsItsPaper ==
  \A k \in 1..Len(papers) :
    LET s == papers[k] IN
    /\ s.about \in {None, k}
    /\ s.report \in {None, k}
    /\ s.completed => s.about = k /\ s.report = k

(* agents/chunk_and_index.py, services/retrieval_layer.py: whatever fails or *)
(* crashes in between, in any run, an active paper has vectors, and a paper  *)
(* with vectors has the chunk rows that a search result is read from.        *)
ActiveIsIndexed ==
  /\ \A p \in active : vectors[p] # None
  /\ \A p \in Papers : vectors[p] # None => chunks[p] # None

(* _workspaces_from_analysis_raw: a stored workspace is of a paper that was  *)
(* completed, filed under its own URL and holding its own report, and a      *)
(* stored comparison is of at least two papers with workspaces.              *)
WorkspacesAreFinished ==
  /\ \A w \in workspaces : w.paper \in Papers /\ w.source = w.paper /\ w.report = w.paper
  /\ comparison # {} => Cardinality(comparison) >= 2
  /\ comparison \subseteq {w.paper : w \in workspaces}

(* route_after_finalize, _normalize_analysis_result: a run whose result is   *)
(* not a failure has decided every paper of the batch, and the only paper of *)
(* a single run was completed.                                               *)
SuccessDecidesEveryPaper ==
  node \in {"persist", "respond"} /\ ~AnalysisFailed =>
    /\ index = Total
    /\ ~IsBatch => papers[1].completed

(* agents/cancellation.py: wherever a job can be canceled, its run has made  *)
(* nothing durable: the first run of a PDF leaves no chunks, vectors, active *)
(* paper or workspace when a guard stops it.                                 *)
CancelIsClean ==
  ~FromSelection /\ node \in GraphNodes /\ runs = 1 =>
    /\ \A p \in Papers : chunks[p] = None /\ vectors[p] = None
    /\ active = {} /\ workspaces = {}

(* graph.py, chat_handler.py: every run ends although the path of a failed   *)
(* report leads back to ingestion.                                           *)
EveryRunEnds == node # "idle" ~> node = "idle"

-----------------------------------------------------------------------------
(* Claims of the documentation that the code does not keep *)

(* agents/error_utils.py, "Fatal errors: Always fail the whole run": a run   *)
(* whose stage is "failed" stays failed until it ends.                       *)
FailureIsFinal == [][node # "idle" /\ stage = "failed" => stage' = "failed" \/ node' = "idle"]_vars

(* docs/ARCHITECTURE.md, step 6 of discovery: candidates are marked          *)
(* "analyzed" only after successful analysis.                                *)
AnalyzedWasSuccessful ==
  [][\A p \in analyzed' \ analyzed : \E k \in 1..Len(papers) :
       papers[k].about = p /\ papers[k].completed]_vars

\* The papers of a batch keep their order, their own data and their verdict:
\* slot k is about paper k, mixed with no other, and only completed papers
\* leave a workspace.
PapersKeepTheirPlace == SlotsInOrder /\ SlotHoldsItsPaper /\ WorkspacesAreFinished

\* What a run reports is so: canceled means that nothing has been written,
\* success that every paper was decided.
OutcomeIsHonest == CancelIsClean /\ SuccessDecidesEveryPaper
=============================================================================
