------------------------ MODULE AnalysisGraph_proofs ------------------------
(***************************************************************************)
(* Safety of AnalysisGraph for any number of papers and runs and any limit *)
(* of supersteps.                                                          *)
(***************************************************************************)
EXTENDS AnalysisGraph, SequenceTheorems, TLAPS

\* Nodes before the paper of the current index has been given a slot.
Deciding == {"supervisor", "ingestion", "extraction", "human_review", "benchmark", "readiness",
             "report", "evidence_critic", "report_finalize", "paper_failure_finalize"}

\* Nodes that work on the metadata and text of the current paper.
Loaded == {"extraction", "human_review", "benchmark", "readiness",
           "report", "evidence_critic", "report_finalize"}

\* Nodes that run before the report of the current paper is written.
Unreported == (Deciding \ {"evidence_critic", "report_finalize"})

\* What the scratch state holds, node by node.
ScratchFollows ==
  /\ node \in Deciding => index < Total
  /\ node \in {"supervisor", "ingestion"} => scratch = None
  /\ node \in Loaded => scratch = index + 1
  /\ node = "paper_failure_finalize" => scratch \in {None, index + 1}
  /\ node \in Unreported => report = None
  /\ node \in {"evidence_critic", "report_finalize"} => report \in {None, index + 1}
  /\ node \in {"chunk_and_index", "embedding", "activating"} => scratch \in Papers

\* What the steps of chunk_and_index have made durable before the next one.
IndexingFollows ==
  /\ node \in {"embedding", "activating"} => papers # <<>> /\ chunks[scratch] # None
  /\ node = "activating" => vectors[scratch] # None

\* The user turn of a run that has not responded is unanswered.
TurnIsOpen == node \notin {"idle", "marking"} => unanswered >= 1

IInv ==
  /\ TypeOK /\ SlotsInOrder /\ SlotHoldsItsPaper /\ ActiveIsIndexed
  /\ ScratchFollows /\ IndexingFollows /\ TurnIsOpen /\ WorkspacesAreFinished

\* The part of the type invariant that a node of the graph can disturb.
LocalType ==
  /\ node \in GraphNodes \cup IndexingSteps \cup HandlerSteps
  /\ stage \in Stages
  /\ scratch \in 0..Total /\ report \in 0..Total
  /\ paperFailed \in BOOLEAN /\ compared \in BOOLEAN
  /\ steps \in 0..RecursionLimit

\* What the nodes between ingestion and report leave alone.
LEMMA Quiet ==
  ASSUME IInv, UNCHANGED <<index, papers, stores>>, LocalType'
  PROVE  TypeOK' /\ SlotsInOrder' /\ SlotHoldsItsPaper' /\ ActiveIsIndexed'
         /\ WorkspacesAreFinished'
<1>1. TypeOK'
  BY DEF IInv, TypeOK, LocalType, stores
<1>2. SlotsInOrder' /\ SlotHoldsItsPaper'
  BY DEF IInv, SlotsInOrder, SlotHoldsItsPaper
<1>3. ActiveIsIndexed' /\ WorkspacesAreFinished'
  BY DEF IInv, ActiveIsIndexed, WorkspacesAreFinished, stores
<1>. QED
  BY <1>1, <1>2, <1>3

\* A superstep stays within the limit.
LEMMA Counted ==
  ASSUME IInv, NEW n, Superstep(n)
  PROVE  node = n /\ steps' \in 0..RecursionLimit
BY NumbersAssumption DEF Superstep, IInv, TypeOK

\* The invariant holds before the first run.
LEMMA InitInv == Init => IInv
<1>. SUFFICES ASSUME Init PROVE IInv
  OBVIOUS
<1>. USE NumbersAssumption
<1>1. TypeOK
  <2>1. papers \in Seq(SlotRecords)
    BY EmptySeq DEF Init
  <2>2. node \in HandlerSteps /\ stage \in Stages
    BY DEF Init, HandlerSteps, Stages
  <2>3. /\ index \in 0..Total /\ scratch \in 0..Total /\ report \in 0..Total
        /\ steps \in 0..RecursionLimit /\ runs \in 0..MaxRuns
    BY DEF Init, None
  <2>. QED
    BY <2>1, <2>2, <2>3 DEF Init, TypeOK, None
<1>2. SlotsInOrder /\ SlotHoldsItsPaper
  BY DEF Init, SlotsInOrder, SlotHoldsItsPaper
<1>3. ActiveIsIndexed /\ WorkspacesAreFinished
  BY DEF Init, ActiveIsIndexed, WorkspacesAreFinished
<1>4. ScratchFollows /\ IndexingFollows /\ TurnIsOpen
  BY DEF Init, ScratchFollows, IndexingFollows, TurnIsOpen, Deciding, Loaded, Unreported
<1>. QED
  BY <1>1, <1>2, <1>3, <1>4 DEF IInv

LEMMA SupervisorInv ==
  ASSUME IInv, Supervisor
  PROVE  IInv'
<1>. USE NumbersAssumption
<1>1. node = "supervisor" /\ steps' \in 0..RecursionLimit
  BY Counted DEF Supervisor
<1>2. LocalType'
  BY <1>1 DEF Supervisor, LocalType, IInv, TypeOK, GraphNodes
<1>3. ScratchFollows' /\ IndexingFollows' /\ TurnIsOpen'
  BY <1>1 DEF Supervisor, IInv, ScratchFollows, IndexingFollows, TurnIsOpen, Deciding, Loaded,
     Unreported, stores
<1>. QED
  BY <1>2, <1>3, Quiet DEF Supervisor, IInv

LEMMA IngestionInv ==
  ASSUME IInv, Ingestion
  PROVE  IInv'
<1>. USE NumbersAssumption
<1>1. /\ node = "ingestion" /\ steps' \in 0..RecursionLimit
      /\ index < Total /\ index \in 0..Total /\ scratch = None /\ report = None
      /\ unanswered >= 1
  BY Counted DEF Ingestion, IInv, ScratchFollows, Deciding, Unreported, TurnIsOpen, TypeOK
<1>2. \/ /\ node' = "extraction" /\ scratch' = index + 1 /\ stage' = "extraction"
         /\ UNCHANGED <<report, paperFailed>>
      \/ /\ node' \in {"error", "paper_failure_finalize"} /\ scratch' = scratch
         /\ stage' \in {"failed", "paper_failure_finalize"} /\ paperFailed' = TRUE
         /\ report' = report
  <2>1. CASE scratch' = index + 1 /\ stage' = "extraction" /\ UNCHANGED <<report, paperFailed>>
    BY <2>1 DEF Ingestion, RouteAfter
  <2>2. CASE PaperError
    BY <2>2 DEF Ingestion, PaperError, PaperErrorStage, RouteAfter
  <2>. QED
    BY <2>1, <2>2 DEF Ingestion
<1>3. UNCHANGED <<index, papers, compared, stores>>
  BY DEF Ingestion
<1>4. LocalType'
  <2>1. index + 1 \in 0..Total /\ None \in 0..Total
    BY <1>1 DEF None
  <2>2. scratch' \in 0..Total /\ report' \in 0..Total
    BY <1>1, <1>2, <2>1
  <2>3. node' \in GraphNodes /\ stage' \in Stages /\ paperFailed' \in BOOLEAN
    BY <1>2 DEF IInv, TypeOK, GraphNodes, Stages
  <2>. QED
    BY <1>1, <1>3, <2>2, <2>3 DEF LocalType, IInv, TypeOK
<1>5. ScratchFollows' /\ IndexingFollows' /\ TurnIsOpen'
  BY <1>1, <1>2, <1>3 DEF ScratchFollows, IndexingFollows, TurnIsOpen, Deciding, Loaded,
     Unreported, None, stores
<1>. QED
  BY <1>3, <1>4, <1>5, Quiet DEF IInv

\* Nodes between extraction and report: the paper stays, the next node works
\* on it too, or the paper has failed.
LEMMA WorkInv ==
  ASSUME IInv, node \in {"extraction", "human_review", "benchmark", "readiness"},
         steps' \in 0..RecursionLimit, stage' \in Stages, paperFailed' \in BOOLEAN,
         UNCHANGED <<index, papers, compared, scratch, report, stores>>,
         node' \in {"human_review", "benchmark", "readiness", "report", "error",
                    "paper_failure_finalize"}
  PROVE  IInv'
<1>1. /\ index < Total /\ scratch = index + 1 /\ report = None /\ unanswered >= 1
  BY DEF IInv, ScratchFollows, Deciding, Loaded, Unreported, TurnIsOpen
<1>2. LocalType'
  BY DEF LocalType, IInv, TypeOK, GraphNodes
<1>3. ScratchFollows' /\ IndexingFollows' /\ TurnIsOpen'
  BY <1>1 DEF ScratchFollows, IndexingFollows, TurnIsOpen, Deciding, Loaded, Unreported, stores
<1>. QED
  BY <1>2, <1>3, Quiet DEF IInv

LEMMA ExtractionInv ==
  ASSUME IInv, Extraction
  PROVE  IInv'
<1>1. node = "extraction" /\ steps' \in 0..RecursionLimit
  BY Counted DEF Extraction
<1>2. CASE /\ stage' = "benchmark"
           /\ node' \in {"benchmark", "human_review"}
           /\ UNCHANGED <<scratch, report, paperFailed>>
  BY <1>1, <1>2, WorkInv DEF Extraction, Stages, IInv, TypeOK
<1>3. CASE PaperError /\ node' = RouteAfter(stage', "benchmark", "benchmark")
  BY <1>1, <1>3, WorkInv DEF Extraction, PaperError, PaperErrorStage, RouteAfter, Stages
<1>. QED
  BY <1>2, <1>3 DEF Extraction

LEMMA HumanReviewInv ==
  ASSUME IInv, HumanReview
  PROVE  IInv'
<1>1. node = "human_review" /\ steps' \in 0..RecursionLimit
  BY Counted DEF HumanReview
<1>. QED
  BY <1>1, WorkInv DEF HumanReview, Stages, IInv, TypeOK

LEMMA AnalystInv ==
  ASSUME IInv, NEW n \in {"benchmark", "readiness"}, NEW next \in {"readiness", "report"},
         Analyst(n, next, next)
  PROVE  IInv'
<1>1. node = n /\ steps' \in 0..RecursionLimit
  BY Counted DEF Analyst
<1>2. CASE stage' = next /\ UNCHANGED <<scratch, report, paperFailed>>
  BY <1>1, <1>2, WorkInv DEF Analyst, RouteAfter, Stages, IInv, TypeOK
<1>3. CASE PaperError
  BY <1>1, <1>3, WorkInv DEF Analyst, PaperError, PaperErrorStage, RouteAfter, Stages
<1>. QED
  BY <1>2, <1>3 DEF Analyst

LEMMA ReportInv ==
  ASSUME IInv, Report
  PROVE  IInv'
<1>. USE NumbersAssumption
<1>1. /\ node = "report" /\ steps' \in 0..RecursionLimit
      /\ index < Total /\ index \in 0..Total /\ scratch = index + 1 /\ report = None
      /\ scratch \in 0..Total /\ unanswered >= 1
  BY Counted DEF Report, IInv, ScratchFollows, Deciding, Loaded, Unreported, TurnIsOpen, TypeOK
<1>2. /\ node' = "evidence_critic" /\ scratch' = scratch /\ report' \in {None, scratch}
      /\ stage' \in Stages /\ paperFailed' \in BOOLEAN
  BY <1>1 DEF Report, PaperError, PaperErrorStage, Stages, IInv, TypeOK
<1>3. UNCHANGED <<index, papers, compared, stores>>
  BY DEF Report
<1>4. LocalType'
  BY <1>1, <1>2, <1>3 DEF LocalType, IInv, TypeOK, GraphNodes, None
<1>5. ScratchFollows' /\ IndexingFollows' /\ TurnIsOpen'
  BY <1>1, <1>2, <1>3 DEF ScratchFollows, IndexingFollows, TurnIsOpen, Deciding, Loaded,
     Unreported, None, stores
<1>. QED
  BY <1>3, <1>4, <1>5, Quiet DEF IInv

LEMMA EvidenceCriticInv ==
  ASSUME IInv, EvidenceCritic
  PROVE  IInv'
<1>1. /\ node = "evidence_critic" /\ steps' \in 0..RecursionLimit
      /\ index < Total /\ scratch = index + 1 /\ report \in {None, index + 1}
      /\ unanswered >= 1
  BY Counted DEF EvidenceCritic, IInv, ScratchFollows, Deciding, Loaded, TurnIsOpen
<1>2. LocalType'
  BY <1>1 DEF EvidenceCritic, LocalType, IInv, TypeOK, GraphNodes
<1>3. ScratchFollows' /\ IndexingFollows' /\ TurnIsOpen'
  BY <1>1 DEF EvidenceCritic, ScratchFollows, IndexingFollows, TurnIsOpen, Deciding, Loaded,
     Unreported, stores
<1>. QED
  BY <1>2, <1>3, Quiet DEF EvidenceCritic, IInv

\* The slot of the current paper is appended and the index moved on.
LEMMA SlotAppended ==
  ASSUME IInv, NEW done \in BOOLEAN, index < Total,
         scratch \in {None, index + 1}, report \in {None, index + 1},
         done => scratch = index + 1 /\ report = index + 1,
         papers' = Append(papers, Slot(done)), index' = index + 1
  PROVE  /\ papers' \in Seq(SlotRecords)
         /\ index' \in 0..Total
         /\ papers' # <<>>
         /\ SlotsInOrder' /\ SlotHoldsItsPaper'
<1>. USE NumbersAssumption
<1>. DEFINE s == Slot(done)
<1>1. index \in 0..Total /\ papers \in Seq(SlotRecords) /\ Len(papers) = index
  BY DEF IInv, TypeOK, SlotsInOrder
<1>2. /\ s \in SlotRecords
      /\ s.paper_index = index /\ s.about = scratch /\ s.report = report
      /\ s.completed = done
  <2>1. index \in 0..(Total - 1) /\ scratch \in 0..Total /\ report \in 0..Total
    BY <1>1 DEF None
  <2>. QED
    BY <2>1 DEF Slot, SlotRecords
<1>. HIDE DEF s
<1>3. /\ papers' \in Seq(SlotRecords) /\ papers' # <<>>
      /\ Len(papers') = index + 1
      /\ \A k \in 1..index : papers'[k] = papers[k]
      /\ papers'[index + 1] = s
  BY <1>1, <1>2, AppendProperties DEF s
<1>4. SlotsInOrder'
  BY <1>1, <1>2, <1>3 DEF IInv, SlotsInOrder
<1>5. SlotHoldsItsPaper'
  <2>. SUFFICES ASSUME NEW k \in 1..Len(papers')
                PROVE  /\ papers'[k].about \in {None, k}
                       /\ papers'[k].report \in {None, k}
                       /\ papers'[k].completed =>
                            papers'[k].about = k /\ papers'[k].report = k
    BY DEF SlotHoldsItsPaper
  <2>1. CASE k = index + 1
    BY <2>1, <1>2, <1>3
  <2>2. CASE k \in 1..Len(papers)
    BY <2>2, <1>1, <1>3 DEF IInv, SlotHoldsItsPaper
  <2>. QED
    BY <2>1, <2>2, <1>1, <1>3
<1>. QED
  BY <1>1, <1>3, <1>4, <1>5

\* The type invariant and the invariants of the databases after a graph step
\* that may append a slot but leaves the databases alone.
LEMMA Finalized ==
  ASSUME IInv, UNCHANGED stores, LocalType', papers' \in Seq(SlotRecords), index' \in 0..Total
  PROVE  TypeOK' /\ ActiveIsIndexed' /\ WorkspacesAreFinished'
<1>1. TypeOK'
  BY DEF IInv, TypeOK, LocalType, stores
<1>2. ActiveIsIndexed' /\ WorkspacesAreFinished'
  BY DEF IInv, ActiveIsIndexed, WorkspacesAreFinished, stores
<1>. QED
  BY <1>1, <1>2

LEMMA ReportFinalizeInv ==
  ASSUME IInv, ReportFinalize
  PROVE  IInv'
<1>. USE NumbersAssumption
<1>1. /\ node = "report_finalize" /\ steps' \in 0..RecursionLimit
      /\ index < Total /\ index \in 0..Total /\ scratch = index + 1
      /\ report \in {None, index + 1} /\ unanswered >= 1
      /\ papers \in Seq(SlotRecords)
  BY Counted DEF ReportFinalize, IInv, ScratchFollows, Deciding, Loaded, TurnIsOpen, TypeOK
<1>2. /\ papers' \in Seq(SlotRecords) /\ index' \in 0..Total
      /\ SlotsInOrder' /\ SlotHoldsItsPaper'
  <2>1. CASE report = None
    BY <2>1, <1>1 DEF ReportFinalize, IInv, SlotsInOrder, SlotHoldsItsPaper
  <2>2. CASE report # None
    BY <2>2, <1>1, SlotAppended DEF ReportFinalize
  <2>. QED
    BY <2>1, <2>2
<1>3. LocalType'
  BY <1>1 DEF ReportFinalize, FatalError, LocalType, IInv, TypeOK, GraphNodes, Stages
<1>4. ScratchFollows' /\ IndexingFollows' /\ TurnIsOpen'
  BY <1>1 DEF ReportFinalize, ScratchFollows, IndexingFollows, TurnIsOpen, Deciding, Loaded,
     Unreported, Papers, stores
<1>. QED
  BY <1>2, <1>3, <1>4, Finalized DEF ReportFinalize, IInv

\* After a paper is decided the next one starts, or the run is over.
LEMMA Routed ==
  ASSUME NEW i, NEW slots
  PROVE  /\ RouteAfterFinalize(i, slots) \in {"ingestion", "comparator", "persist"}
         /\ RouteAfterFinalize(i, slots) = "ingestion" => i < Total
BY DEF RouteAfterFinalize

LEMMA PaperFailureFinalizeInv ==
  ASSUME IInv, PaperFailureFinalize
  PROVE  IInv'
<1>. USE NumbersAssumption
<1>1. /\ node = "paper_failure_finalize" /\ steps' \in 0..RecursionLimit
      /\ index < Total /\ index \in 0..Total /\ scratch \in {None, index + 1}
      /\ report = None /\ unanswered >= 1
  BY Counted DEF PaperFailureFinalize, IInv, ScratchFollows, Deciding, Unreported, TurnIsOpen,
     TypeOK
<1>2. /\ papers' \in Seq(SlotRecords) /\ index' \in 0..Total
      /\ SlotsInOrder' /\ SlotHoldsItsPaper'
  BY <1>1, SlotAppended DEF PaperFailureFinalize
<1>3. /\ node' \in {"ingestion", "comparator", "persist"}
      /\ node' = "ingestion" => index' < Total
      /\ scratch' = None /\ report' = None /\ paperFailed' = FALSE
  BY Routed DEF PaperFailureFinalize, ScratchReset
<1>4. LocalType'
  BY <1>1, <1>3 DEF PaperFailureFinalize, LocalType, IInv, TypeOK, GraphNodes, HandlerSteps,
     Stages, None
<1>5. ScratchFollows' /\ IndexingFollows' /\ TurnIsOpen'
  BY <1>1, <1>3 DEF PaperFailureFinalize, ScratchFollows, IndexingFollows, TurnIsOpen, Deciding,
     Loaded, Unreported, stores
<1>. QED
  BY <1>2, <1>4, <1>5, Finalized DEF PaperFailureFinalize, IInv

\* Whatever made chunk_and_index return, the graph goes on as after a paper.
LEMMA Returned ==
  ASSUME IInv, IndexingReturns, node \in {"chunk_and_index", "embedding", "activating"},
         steps' \in 0..RecursionLimit, unanswered' = unanswered
  PROVE  /\ LocalType' /\ SlotsInOrder' /\ SlotHoldsItsPaper'
         /\ ScratchFollows' /\ IndexingFollows' /\ TurnIsOpen'
<1>. USE NumbersAssumption
<1>1. /\ node' \in {"ingestion", "comparator", "persist"}
      /\ node' = "ingestion" => index < Total
      /\ stage' = "chunk_and_index"
      /\ scratch' = None /\ report' = None /\ paperFailed' = FALSE
      /\ UNCHANGED <<index, papers, compared>>
  BY Routed DEF IndexingReturns, ScratchReset
<1>2. LocalType'
  <2>1. node' \in GraphNodes \cup HandlerSteps /\ stage' \in Stages
    BY <1>1 DEF GraphNodes, HandlerSteps, Stages
  <2>2. None \in 0..Total
    BY DEF None
  <2>3. compared' \in BOOLEAN
    BY <1>1 DEF IInv, TypeOK
  <2>. QED
    BY <1>1, <2>1, <2>2, <2>3 DEF LocalType
<1>3. SlotsInOrder' /\ SlotHoldsItsPaper'
  BY <1>1 DEF IInv, SlotsInOrder, SlotHoldsItsPaper
<1>4. ScratchFollows' /\ IndexingFollows' /\ TurnIsOpen'
  BY <1>1 DEF IInv, ScratchFollows, IndexingFollows, TurnIsOpen, Deciding, Loaded, Unreported
<1>. QED
  BY <1>2, <1>3, <1>4

\* The next step of the node works on the same paper.
LEMMA Proceeds ==
  ASSUME IInv, node \in {"chunk_and_index", "embedding"}, node' \in {"embedding", "activating"},
         UNCHANGED <<stage, index, papers, scratch, report, paperFailed, compared, unanswered>>,
         steps' \in 0..RecursionLimit
  PROVE  LocalType' /\ SlotsInOrder' /\ SlotHoldsItsPaper' /\ ScratchFollows' /\ TurnIsOpen'
<1>1. LocalType'
  BY DEF LocalType, IInv, TypeOK, IndexingSteps
<1>2. SlotsInOrder' /\ SlotHoldsItsPaper'
  BY DEF IInv, SlotsInOrder, SlotHoldsItsPaper
<1>3. ScratchFollows' /\ TurnIsOpen'
  BY DEF IInv, ScratchFollows, TurnIsOpen, Deciding, Loaded, Unreported
<1>. QED
  BY <1>1, <1>2, <1>3

\* The position chunks are stored under is that of a paper.
LEMMA LastSlot ==
  ASSUME IInv, papers # <<>>
  PROVE  LastSlotIndex \in Papers
<1>1. papers \in Seq(SlotRecords)
  BY DEF IInv, TypeOK
<1>2. Len(papers) \in Nat \ {0}
  BY <1>1, EmptySeq
<1>3. papers[Len(papers)] \in SlotRecords
  BY <1>1, <1>2, ElementOfSeq
<1>. QED
  BY <1>3, NumbersAssumption DEF LastSlotIndex, SlotRecords, Papers

LEMMA ChunkAndIndexInv ==
  ASSUME IInv, ChunkAndIndex
  PROVE  IInv'
<1>. USE NumbersAssumption
<1>1. node = "chunk_and_index" /\ steps' \in 0..RecursionLimit /\ scratch \in Papers
  BY Counted DEF ChunkAndIndex, IInv, ScratchFollows
<1>2. UNCHANGED <<runs, unanswered, phase, vectors, active, workspaces, comparison, analyzed>>
  BY DEF ChunkAndIndex
<1>3. WorkspacesAreFinished'
  BY <1>2 DEF IInv, WorkspacesAreFinished
<1>4. CASE IndexingReturns /\ UNCHANGED chunks
  <2>1. LocalType' /\ SlotsInOrder' /\ SlotHoldsItsPaper' /\ ScratchFollows'
        /\ IndexingFollows' /\ TurnIsOpen'
    BY <1>1, <1>2, <1>4, Returned
  <2>2. TypeOK'
    BY <1>2, <1>4, <2>1 DEF IndexingReturns, LocalType, IInv, TypeOK
  <2>3. ActiveIsIndexed'
    BY <1>2, <1>4 DEF IInv, ActiveIsIndexed
  <2>. QED
    BY <1>3, <2>1, <2>2, <2>3 DEF IInv
<1>5. CASE /\ papers # <<>>
           /\ chunks' = [chunks EXCEPT ![scratch] = LastSlotIndex]
           /\ node' = "embedding"
           /\ UNCHANGED <<stage, index, papers, scratch, report, paperFailed, compared>>
  <2>1. LocalType' /\ SlotsInOrder' /\ SlotHoldsItsPaper' /\ ScratchFollows' /\ TurnIsOpen'
    BY <1>1, <1>2, <1>5, Proceeds
  <2>2. LastSlotIndex \in 0..Total /\ LastSlotIndex # None
    BY <1>5, LastSlot DEF Papers, None
  <2>3. chunks \in [Papers -> 0..Total]
    BY DEF IInv, TypeOK
  <2>4. TypeOK'
    BY <1>2, <1>5, <2>1, <2>2 DEF LocalType, IInv, TypeOK
  <2>5. IndexingFollows'
    BY <1>1, <1>5, <2>2, <2>3 DEF IndexingFollows
  <2>6. ActiveIsIndexed'
    BY <1>1, <1>2, <1>5, <2>2, <2>3 DEF IInv, ActiveIsIndexed
  <2>. QED
    BY <1>3, <2>1, <2>4, <2>5, <2>6 DEF IInv
<1>. QED
  BY <1>4, <1>5 DEF ChunkAndIndex

LEMMA EmbedAndUpsertInv ==
  ASSUME IInv, EmbedAndUpsert
  PROVE  IInv'
<1>. USE NumbersAssumption
<1>1. /\ node = "embedding" /\ steps' \in 0..RecursionLimit /\ scratch \in Papers
      /\ papers # <<>> /\ chunks[scratch] # None
  BY DEF EmbedAndUpsert, IInv, ScratchFollows, IndexingFollows, TypeOK
<1>2. UNCHANGED <<steps, runs, unanswered, phase, chunks, active, workspaces, comparison, analyzed>>
  BY DEF EmbedAndUpsert
<1>3. WorkspacesAreFinished'
  BY <1>2 DEF IInv, WorkspacesAreFinished
<1>4. CASE IndexingReturns /\ UNCHANGED vectors
  <2>1. LocalType' /\ SlotsInOrder' /\ SlotHoldsItsPaper' /\ ScratchFollows'
        /\ IndexingFollows' /\ TurnIsOpen'
    BY <1>1, <1>2, <1>4, Returned
  <2>2. TypeOK'
    BY <1>2, <1>4, <2>1 DEF IndexingReturns, LocalType, IInv, TypeOK
  <2>3. ActiveIsIndexed'
    BY <1>2, <1>4 DEF IInv, ActiveIsIndexed
  <2>. QED
    BY <1>3, <2>1, <2>2, <2>3 DEF IInv
<1>5. CASE /\ vectors' = [vectors EXCEPT ![scratch] = LastSlotIndex]
           /\ node' = "activating"
           /\ UNCHANGED <<stage, index, papers, scratch, report, paperFailed, compared>>
  <2>1. LocalType' /\ SlotsInOrder' /\ SlotHoldsItsPaper' /\ ScratchFollows' /\ TurnIsOpen'
    BY <1>1, <1>2, <1>5, Proceeds
  <2>2. LastSlotIndex \in 0..Total /\ LastSlotIndex # None
    BY <1>1, LastSlot DEF Papers, None
  <2>3. vectors \in [Papers -> 0..Total]
    BY DEF IInv, TypeOK
  <2>4. TypeOK'
    BY <1>2, <1>5, <2>1, <2>2 DEF LocalType, IInv, TypeOK
  <2>5. IndexingFollows'
    BY <1>1, <1>2, <1>5, <2>2, <2>3 DEF IndexingFollows
  <2>6. ActiveIsIndexed'
    BY <1>1, <1>2, <1>5, <2>2, <2>3 DEF IInv, ActiveIsIndexed
  <2>. QED
    BY <1>3, <2>1, <2>4, <2>5, <2>6 DEF IInv
<1>. QED
  BY <1>4, <1>5 DEF EmbedAndUpsert

LEMMA AddActivePaperInv ==
  ASSUME IInv, AddActivePaper
  PROVE  IInv'
<1>. USE NumbersAssumption
<1>1. /\ node = "activating" /\ steps' \in 0..RecursionLimit /\ scratch \in Papers
      /\ vectors[scratch] # None /\ IndexingReturns
      /\ active' \in {active \cup {scratch}, active}
  BY DEF AddActivePaper, IInv, ScratchFollows, IndexingFollows, TypeOK
<1>2. UNCHANGED <<runs, unanswered, phase, chunks, vectors, workspaces, comparison, analyzed>>
  BY DEF AddActivePaper
<1>3. LocalType' /\ SlotsInOrder' /\ SlotHoldsItsPaper' /\ ScratchFollows'
      /\ IndexingFollows' /\ TurnIsOpen'
  BY <1>1, <1>2, Returned
<1>4. TypeOK'
  BY <1>1, <1>2, <1>3 DEF IndexingReturns, LocalType, IInv, TypeOK
<1>5. ActiveIsIndexed' /\ WorkspacesAreFinished'
  BY <1>1, <1>2 DEF IInv, ActiveIsIndexed, WorkspacesAreFinished
<1>. QED
  BY <1>3, <1>4, <1>5 DEF IInv

\* A step that ends the graph or the run and leaves its result alone.
LEMMA Leaves ==
  ASSUME IInv, UNCHANGED <<index, papers, scratch, report, paperFailed>>,
         UNCHANGED <<runs, chunks, vectors, active>>,
         node' \in {"idle", "persist", "respond", "marking"}
  PROVE  /\ SlotsInOrder' /\ SlotHoldsItsPaper' /\ ActiveIsIndexed'
         /\ ScratchFollows' /\ IndexingFollows'
<1>1. SlotsInOrder' /\ SlotHoldsItsPaper' /\ ActiveIsIndexed'
  BY DEF IInv, SlotsInOrder, SlotHoldsItsPaper, ActiveIsIndexed
<1>2. ScratchFollows' /\ IndexingFollows'
  BY DEF ScratchFollows, IndexingFollows, Deciding, Loaded, Unreported
<1>. QED
  BY <1>1, <1>2

LEMMA EndsInv ==
  ASSUME IInv, Comparator \/ ErrorNode
  PROVE  IInv'
<1>1. /\ node \in {"comparator", "error"} /\ steps' \in 0..RecursionLimit
      /\ node' = "persist" /\ compared' \in BOOLEAN /\ stage' \in Stages
      /\ UNCHANGED <<index, papers, scratch, report, paperFailed, stores>>
  BY Counted DEF Comparator, ErrorNode, IInv, TypeOK, Stages
<1>2. TypeOK'
  BY <1>1 DEF IInv, TypeOK, HandlerSteps, stores
<1>3. WorkspacesAreFinished' /\ TurnIsOpen'
  BY <1>1 DEF IInv, WorkspacesAreFinished, TurnIsOpen, stores
<1>. QED
  BY <1>1, <1>2, <1>3, Leaves DEF IInv, stores

LEMMA InvokeInv ==
  ASSUME IInv, Invoke
  PROVE  IInv'
<1>. USE NumbersAssumption
<1>1. papers' = <<>> /\ papers' \in Seq(SlotRecords) /\ Len(papers') = 0
  BY EmptySeq DEF Invoke
<1>2. /\ node' \in GraphNodes /\ stage' \in Stages
      /\ index' \in 0..Total /\ scratch' \in 0..Total /\ report' \in 0..Total
      /\ steps' \in 0..RecursionLimit /\ unanswered' \in Nat /\ runs' \in 0..MaxRuns
      /\ unanswered' >= 1
  BY DEF Invoke, GraphNodes, Stages, None, IInv, TypeOK
<1>3. TypeOK'
  BY <1>1, <1>2 DEF Invoke, IInv, TypeOK
<1>4. SlotsInOrder' /\ SlotHoldsItsPaper'
  BY <1>1 DEF Invoke, SlotsInOrder, SlotHoldsItsPaper
<1>5. ActiveIsIndexed' /\ WorkspacesAreFinished'
  BY DEF Invoke, IInv, ActiveIsIndexed, WorkspacesAreFinished
<1>6. ScratchFollows' /\ IndexingFollows' /\ TurnIsOpen'
  BY <1>2 DEF Invoke, ScratchFollows, IndexingFollows, TurnIsOpen, Deciding, Loaded, Unreported
<1>. QED
  BY <1>3, <1>4, <1>5, <1>6 DEF IInv

\* Cancellation and crash.
LEMMA StopsInv ==
  ASSUME IInv, Cancel \/ Crash
  PROVE  IInv'
<1>1. /\ node' = "idle"
      /\ UNCHANGED <<stage, index, papers, scratch, report, paperFailed, compared, steps, stores>>
  BY DEF Cancel, Crash
<1>2. TypeOK'
  BY <1>1 DEF IInv, TypeOK, HandlerSteps, stores
<1>3. WorkspacesAreFinished' /\ TurnIsOpen'
  BY <1>1 DEF IInv, WorkspacesAreFinished, TurnIsOpen, stores
<1>. QED
  BY <1>1, <1>2, <1>3, Leaves DEF IInv, stores

LEMMA GraphRaisesInv ==
  ASSUME IInv, GraphRaises
  PROVE  IInv'
<1>1. unanswered \in Nat /\ unanswered >= 1
  BY DEF GraphRaises, IInv, TypeOK, TurnIsOpen, GraphNodes
<1>2. TypeOK'
  BY <1>1 DEF GraphRaises, IInv, TypeOK, HandlerSteps
<1>3. WorkspacesAreFinished' /\ TurnIsOpen'
  BY DEF GraphRaises, IInv, WorkspacesAreFinished, TurnIsOpen
<1>. QED
  BY <1>2, <1>3, Leaves DEF GraphRaises, IInv

LEMMA RespondInv ==
  ASSUME IInv, Respond
  PROVE  IInv'
<1>1. unanswered \in Nat /\ unanswered >= 1
  BY DEF Respond, IInv, TypeOK, TurnIsOpen
<1>2. node' \in {"marking", "idle"} /\ phase' \in {"idle", "qa", "failed"}
  BY DEF Respond, NextPhase
<1>3. TypeOK'
  BY <1>1, <1>2 DEF Respond, IInv, TypeOK, HandlerSteps
<1>4. WorkspacesAreFinished' /\ TurnIsOpen'
  BY <1>2 DEF Respond, IInv, WorkspacesAreFinished, TurnIsOpen
<1>. QED
  BY <1>2, <1>3, <1>4, Leaves DEF Respond, IInv

LEMMA MarkCandidatesInv ==
  ASSUME IInv, MarkCandidates
  PROVE  IInv'
<1>. USE NumbersAssumption
<1>1. analyzed' \subseteq Papers
  <2>1. analyzed \subseteq Papers
    BY DEF IInv, TypeOK
  <2>2. \A last \in 0..Total : 1..last \subseteq Papers
    BY DEF Papers
  <2>3. analyzed' = analyzed \/ \E last \in 0..Total : analyzed' = analyzed \cup 1..last
    BY DEF MarkCandidates
  <2>. QED
    BY <2>1, <2>2, <2>3
<1>2. TypeOK'
  BY <1>1 DEF MarkCandidates, IInv, TypeOK, HandlerSteps
<1>3. WorkspacesAreFinished' /\ TurnIsOpen'
  BY DEF MarkCandidates, IInv, WorkspacesAreFinished, TurnIsOpen
<1>. QED
  BY <1>2, <1>3, Leaves DEF MarkCandidates, IInv

\* The workspace of a completed slot is that of the paper at its position.
LEMMA WorkspaceOfSlot ==
  ASSUME IInv, NEW k \in Completed(papers)
  PROVE  /\ k \in Papers
         /\ papers[k].about = k
         /\ Workspace(papers[k]) = [paper |-> k, source |-> k, report |-> k]
<1>1. /\ k \in 1..Len(papers) /\ Len(papers) = index /\ index \in 0..Total
      /\ papers[k].paper_index = k - 1
      /\ papers[k].about = k /\ papers[k].report = k
  BY DEF Completed, IInv, TypeOK, SlotsInOrder, SlotHoldsItsPaper
<1>2. k \in Papers
  BY <1>1, NumbersAssumption DEF Papers
<1>3. papers[k].paper_index + 1 = k
  BY <1>1, <1>2 DEF Papers
<1>. QED
  BY <1>1, <1>2, <1>3 DEF Workspace

LEMMA PersistArtifactsInv ==
  ASSUME IInv, PersistArtifacts
  PROVE  IInv'
<1>. USE NumbersAssumption
<1>1. CASE UNCHANGED <<workspaces, comparison>>
  <2>1. TypeOK'
    BY <1>1 DEF PersistArtifacts, IInv, TypeOK, HandlerSteps
  <2>2. WorkspacesAreFinished' /\ TurnIsOpen'
    BY <1>1 DEF PersistArtifacts, IInv, WorkspacesAreFinished, TurnIsOpen
  <2>. QED
    BY <1>1, <2>1, <2>2, Leaves DEF PersistArtifacts, IInv
<1>2. ASSUME NEW last \in 0..Len(papers),
             NEW saved, saved = {k \in Completed(papers) : k <= last},
             workspaces' = Upsert(workspaces, {Workspace(papers[k]) : k \in saved}),
             \/ UNCHANGED comparison
             \/ /\ Cardinality(saved) >= 2
                /\ comparison' = {papers[k].about : k \in saved}
      PROVE  IInv'
  <2>. DEFINE new == {[paper |-> k, source |-> k, report |-> k] : k \in saved}
  <2>1. \A k \in saved : /\ k \in Papers
                         /\ papers[k].about = k
                         /\ Workspace(papers[k]) = [paper |-> k, source |-> k, report |-> k]
    BY <1>2, WorkspaceOfSlot
  <2>2. /\ {Workspace(papers[k]) : k \in saved} = new
        /\ {papers[k].about : k \in saved} = saved
        /\ saved \subseteq Papers
    <3>1. {Workspace(papers[k]) : k \in saved} = new
      BY <2>1
    <3>2. {papers[k].about : k \in saved} = saved
      BY <2>1
    <3>3. saved \subseteq Papers
      BY <2>1
    <3>. QED
      BY <3>1, <3>2, <3>3
  <2>3. workspaces' = {w \in workspaces : \A v \in new : v.paper # w.paper} \cup new
    BY <1>2, <2>2 DEF Upsert
  <2>4. workspaces' \subseteq WorkspaceRecords
    <3>1. new \subseteq WorkspaceRecords
      BY <2>2 DEF WorkspaceRecords, Papers
    <3>. QED
      BY <2>3, <3>1 DEF IInv, TypeOK
  <2>5. comparison' \subseteq 0..Total
    <3>1. Papers \subseteq 0..Total
      BY DEF Papers
    <3>2. comparison \subseteq 0..Total
      BY DEF IInv, TypeOK
    <3>. QED
      BY <1>2, <2>2, <3>1, <3>2
  <2>6. TypeOK'
    BY <2>4, <2>5 DEF PersistArtifacts, IInv, TypeOK, HandlerSteps
  <2>7. \A w \in workspaces' : w.paper \in Papers /\ w.source = w.paper /\ w.report = w.paper
    BY <2>2, <2>3 DEF IInv, WorkspacesAreFinished
  <2>8. comparison' # {} => Cardinality(comparison') >= 2
    BY <1>2, <2>2 DEF IInv, WorkspacesAreFinished
  <2>9. comparison' \subseteq {w.paper : w \in workspaces'}
    <3>1. \A k \in saved : \E w \in workspaces' : w.paper = k
      <4>1. ASSUME NEW k \in saved
            PROVE  [paper |-> k, source |-> k, report |-> k] \in workspaces'
        BY <2>3
      <4>. QED
        BY <4>1
    <3>2. \A w \in workspaces : \E v \in workspaces' : v.paper = w.paper
      BY <2>3
    <3>3. CASE UNCHANGED comparison
      BY <3>2, <3>3 DEF IInv, WorkspacesAreFinished
    <3>4. CASE comparison' = saved
      BY <3>1, <3>4
    <3>. QED
      BY <1>2, <2>2, <3>3, <3>4
  <2>10. TurnIsOpen'
    BY DEF PersistArtifacts, IInv, TurnIsOpen
  <2>. QED
    BY <2>6, <2>7, <2>8, <2>9, <2>10, Leaves DEF PersistArtifacts, IInv, WorkspacesAreFinished
<1>. QED
  BY <1>1, <1>2 DEF PersistArtifacts

\* Every step of the workflow preserves the invariant.
LEMMA StepInv == IInv /\ [Next]_vars => IInv'
<1>. SUFFICES ASSUME IInv, [Next]_vars PROVE IInv'
  OBVIOUS
<1>1. CASE GraphStep
  <2>1. CASE Benchmark
    BY <2>1, AnalystInv DEF Benchmark
  <2>2. CASE Readiness
    BY <2>2, AnalystInv DEF Readiness
  <2>. QED
    BY <1>1, <2>1, <2>2, SupervisorInv, IngestionInv, ExtractionInv, HumanReviewInv, ReportInv,
       EvidenceCriticInv, ReportFinalizeInv, PaperFailureFinalizeInv, ChunkAndIndexInv,
       EmbedAndUpsertInv, AddActivePaperInv, EndsInv DEF GraphStep
<1>2. CASE HandlerStep
  BY <1>2, GraphRaisesInv, PersistArtifactsInv, RespondInv, MarkCandidatesInv DEF HandlerStep
<1>3. CASE Invoke \/ Cancel \/ Crash
  BY <1>3, InvokeInv, StopsInv
<1>4. CASE UNCHANGED vars
  <2>1. TypeOK'
    BY <1>4 DEF vars, graphState, stores, IInv, TypeOK
  <2>2. SlotsInOrder' /\ SlotHoldsItsPaper' /\ ActiveIsIndexed' /\ WorkspacesAreFinished'
    BY <1>4 DEF vars, graphState, stores, IInv, SlotsInOrder, SlotHoldsItsPaper, ActiveIsIndexed,
       WorkspacesAreFinished
  <2>3. ScratchFollows' /\ IndexingFollows' /\ TurnIsOpen'
    BY <1>4 DEF vars, graphState, stores, IInv, ScratchFollows, IndexingFollows, TurnIsOpen
  <2>. QED
    BY <2>1, <2>2, <2>3 DEF IInv
<1>. QED
  BY <1>1, <1>2, <1>3, <1>4 DEF Next

LEMMA Invariance == Spec => []IInv
BY InitInv, StepInv, PTL DEF Spec

(* Types hold in every run over any number of papers, and the index never    *)
(* passes the batch (models/state.py).                                       *)
THEOREM TypeCorrect == Spec => []TypeOK
BY Invariance, PTL DEF IInv

(* Whatever papers fail or repeat, slots and papers stay in step             *)
(* (agents/report_finalize.py, agents/paper_failure_finalize.py).            *)
THEOREM InOrder == Spec => []SlotsInOrder
BY Invariance, PTL DEF IInv

(* No slot mixes two papers (_SCRATCH_RESET).                                *)
THEOREM OwnPaper == Spec => []SlotHoldsItsPaper
BY Invariance, PTL DEF IInv

(* Active papers have vectors and vectors have rows, in spite of failures,   *)
(* crashes and repeated runs (agents/chunk_and_index.py).                    *)
THEOREM Indexed == Spec => []ActiveIsIndexed
BY Invariance, PTL DEF IInv

(* Stored workspaces and comparisons are of completed papers only            *)
(* (api/chat_handler.py, _persist_analysis_artifacts).                       *)
THEOREM Finished == Spec => []WorkspacesAreFinished
BY Invariance, PTL DEF IInv

\* The papers of a batch keep their order and their data, and only completed
\* ones leave a workspace.
THEOREM KeepTheirPlace == Spec => []PapersKeepTheirPlace
BY InOrder, OwnPaper, Finished, PTL DEF PapersKeepTheirPlace

-----------------------------------------------------------------------------
\* Nothing durable of any analysis.
Untouched ==
  /\ \A p \in Papers : chunks[p] = None /\ vectors[p] = None
  /\ active = {} /\ workspaces = {}

\* The first run writes nothing before its only paper is indexed, and from
\* there no way leads back to a node where it could be canceled.
CleanSoFar ==
  /\ runs = 0 => node = "idle" /\ Untouched
  /\ ~FromSelection /\ runs = 1 /\ node \in GraphNodes => Untouched

\* The graph is left behind the last paper or with a failure, and in a run
\* over one paper a failure is not a slot.
DecidedSoFar ==
  /\ node = "comparator" => index = Total
  /\ node \in {"persist", "respond"} => index = Total \/ AnalysisFailed
  /\ ~IsBatch => node # "paper_failure_finalize"
  /\ ~IsBatch => \A k \in 1..Len(papers) : papers[k].completed

OInv == CleanSoFar /\ DecidedSoFar

LEMMA InitOutcome == Init => OInv
BY DEF Init, OInv, CleanSoFar, DecidedSoFar, Untouched

\* A single paper that has its slot was the last one.
LEMMA LastOfOne ==
  ASSUME IInv, ~FromSelection, papers # <<>>
  PROVE  RouteAfterFinalize(index, papers) = "persist"
<1>1. Total = 1
  BY NumbersAssumption, BatchAssumption
<1>2. papers \in Seq(SlotRecords) /\ Len(papers) = index /\ index \in 0..Total
  BY DEF IInv, TypeOK, SlotsInOrder
<1>3. index = 1 /\ Len(papers) = 1
  BY <1>1, <1>2, EmptySeq
<1>. QED
  BY <1>1, <1>3 DEF RouteAfterFinalize

\* The router behind a decided paper goes on, or is done with all of them.
LEMMA Behind ==
  ASSUME IInv, IInv', node' = RouteAfterFinalize(index', papers')
  PROVE  /\ node' \in {"ingestion", "comparator", "persist"}
         /\ node' # "ingestion" => index' = Total
<1>1. index' \in 0..Total
  BY DEF IInv, TypeOK
<1>. QED
  BY <1>1, NumbersAssumption DEF RouteAfterFinalize

\* Steps that write nothing durable stay clean.
LEMMA StaysClean ==
  ASSUME OInv, node # "idle", node \in GraphNodes \/ node' \notin GraphNodes,
         UNCHANGED <<runs, chunks, vectors, active, workspaces>>
  PROVE  CleanSoFar'
BY DEF OInv, CleanSoFar, Untouched

\* The nodes in which a paper is worked on.
LEMMA WorkOutcome ==
  ASSUME IInv, OInv,
         \/ Supervisor \/ Ingestion \/ Extraction \/ HumanReview \/ Benchmark \/ Readiness
         \/ Report \/ EvidenceCritic
  PROVE  OInv'
<1>1. /\ node \in GraphNodes /\ node # "idle" /\ UNCHANGED <<index, papers, stores>>
      /\ node' \notin {"comparator", "persist", "respond"}
  BY DEF Supervisor, Ingestion, Extraction, HumanReview, Benchmark, Readiness, Analyst, Report,
         EvidenceCritic, Superstep, GraphNodes, RouteAfter
<1>2. ~IsBatch => node' # "paper_failure_finalize"
  BY DEF Supervisor, Ingestion, Extraction, HumanReview, Benchmark, Readiness, Analyst, Report,
         EvidenceCritic, PaperError, PaperErrorStage, RouteAfter
<1>3. CleanSoFar'
  BY <1>1, StaysClean DEF stores
<1>. QED
  BY <1>1, <1>2, <1>3 DEF OInv, DecidedSoFar

\* A slot is appended or the run has failed.
LEMMA SlotOutcome ==
  ASSUME IInv, IInv', OInv, ReportFinalize \/ PaperFailureFinalize
  PROVE  OInv'
<1>. USE NumbersAssumption
<1>1. /\ node \in {"report_finalize", "paper_failure_finalize"} /\ UNCHANGED stores
      /\ papers \in Seq(SlotRecords)
  BY DEF ReportFinalize, PaperFailureFinalize, Superstep, IInv, TypeOK
<1>2. CleanSoFar'
  BY <1>1, StaysClean DEF stores, GraphNodes
<1>3. CASE PaperFailureFinalize
  <2>1. IsBatch
    BY <1>3 DEF OInv, DecidedSoFar, PaperFailureFinalize, Superstep
  <2>2. /\ node' \in {"ingestion", "comparator", "persist"}
        /\ node' # "ingestion" => index' = Total
    BY <1>3, Behind DEF PaperFailureFinalize
  <2>. QED
    BY <1>2, <2>1, <2>2 DEF OInv, DecidedSoFar, IsBatch
<1>4. CASE ReportFinalize
  <2>1. node' = "chunk_and_index"
    BY <1>4 DEF ReportFinalize
  <2>2. ASSUME ~IsBatch, papers' = Append(papers, Slot(TRUE))
        PROVE  \A k \in 1..Len(papers') : papers'[k].completed
    <3>. DEFINE slot == Slot(TRUE)
    <3>1. \A k \in 1..Len(papers) : papers[k].completed
      BY <2>2 DEF OInv, DecidedSoFar
    <3>2. slot \in SlotRecords /\ slot.completed
      <4>1. index \in 0..(Total - 1) /\ scratch \in 0..Total /\ report \in 0..Total
        BY <1>4 DEF ReportFinalize, Superstep, IInv, TypeOK, ScratchFollows, Deciding
      <4>. QED
        BY <4>1 DEF Slot, SlotRecords
    <3>3. papers' = Append(papers, slot)
      BY <2>2
    <3>. HIDE DEF slot
    <3>4. /\ Len(papers') = Len(papers) + 1 /\ papers'[Len(papers) + 1] = slot
          /\ \A k \in 1..Len(papers) : papers'[k] = papers[k]
      BY <1>1, <3>2, <3>3, AppendProperties
    <3>5. Len(papers) \in Nat
      BY DEF IInv, TypeOK, SlotsInOrder
    <3>6. ASSUME NEW k \in 1..Len(papers') PROVE papers'[k].completed
      <4>1. CASE k = Len(papers) + 1
        BY <4>1, <3>2, <3>4
      <4>2. CASE k \in 1..Len(papers)
        BY <4>2, <3>1, <3>4
      <4>. QED
        BY <3>4, <3>5, <3>6, <4>1, <4>2
    <3>. QED
      BY <3>6
  <2>3. ~IsBatch => \A k \in 1..Len(papers') : papers'[k].completed
    BY <1>4, <2>2 DEF ReportFinalize, OInv, DecidedSoFar, IsBatch
  <2>. QED
    BY <1>2, <2>1, <2>3 DEF OInv, DecidedSoFar, IsBatch
<1>. QED
  BY <1>3, <1>4

\* chunk_and_index goes on to its next step, or returns.
LEMMA IndexingOutcome ==
  ASSUME IInv, IInv', OInv, ChunkAndIndex \/ EmbedAndUpsert \/ AddActivePaper
  PROVE  OInv'
<1>1. /\ node \in {"chunk_and_index", "embedding", "activating"}
      /\ UNCHANGED <<index, papers, runs, workspaces>>
  BY DEF ChunkAndIndex, EmbedAndUpsert, AddActivePaper, Superstep, IndexingReturns
<1>2. \/ node' = RouteAfterFinalize(index', papers')
      \/ node' \in {"embedding", "activating"}
  BY DEF ChunkAndIndex, EmbedAndUpsert, AddActivePaper, IndexingReturns
<1>3. DecidedSoFar'
  BY <1>1, <1>2, Behind DEF OInv, DecidedSoFar, IsBatch
<1>4. ASSUME ChunkAndIndex PROVE CleanSoFar'
  <2>1. CASE UNCHANGED chunks
    BY <1>1, <1>4, <2>1, StaysClean DEF ChunkAndIndex, Superstep, GraphNodes
  <2>2. CASE node' = "embedding"
    BY <1>1, <2>2 DEF OInv, CleanSoFar, GraphNodes
  <2>. QED
    BY <1>4, <2>1, <2>2 DEF ChunkAndIndex
<1>5. ASSUME EmbedAndUpsert \/ AddActivePaper PROVE CleanSoFar'
  <2>1. papers # <<>>
    BY <1>5 DEF EmbedAndUpsert, AddActivePaper, IInv, IndexingFollows
  <2>2. ~FromSelection => node' \notin GraphNodes
    BY <1>1, <1>2, <2>1, LastOfOne DEF GraphNodes
  <2>. QED
    BY <1>1, <2>2 DEF OInv, CleanSoFar
<1>. QED
  BY <1>3, <1>4, <1>5 DEF OInv

\* The graph and the run end.
LEMMA EndOutcome ==
  ASSUME IInv, OInv, Comparator \/ ErrorNode \/ HandlerStep \/ Cancel \/ Crash
  PROVE  OInv'
<1>1. /\ node # "idle" /\ node' \notin GraphNodes /\ node' \notin {"comparator", "paper_failure_finalize"}
      /\ UNCHANGED <<index, papers, runs>>
  BY DEF Comparator, ErrorNode, HandlerStep, GraphRaises, PersistArtifacts, Respond, MarkCandidates,
         Cancel, Crash, Superstep, GraphNodes, stores
<1>2. CleanSoFar'
  BY <1>1 DEF OInv, CleanSoFar
<1>3. node' \in {"persist", "respond"} => index' = Total \/ AnalysisFailed'
  <2>1. CASE Comparator
    BY <2>1 DEF Comparator, Superstep, OInv, DecidedSoFar
  <2>2. CASE ErrorNode
    BY <2>2 DEF ErrorNode, AnalysisFailed
  <2>3. CASE PersistArtifacts
    BY <2>3 DEF PersistArtifacts, OInv, DecidedSoFar, AnalysisFailed
  <2>4. CASE GraphRaises \/ Respond \/ MarkCandidates \/ Cancel \/ Crash
    BY <2>4 DEF GraphRaises, Respond, MarkCandidates, Cancel, Crash
  <2>. QED
    BY <2>1, <2>2, <2>3, <2>4 DEF HandlerStep
<1>. QED
  BY <1>1, <1>2, <1>3 DEF OInv, DecidedSoFar, IsBatch

LEMMA InvokeOutcome ==
  ASSUME IInv, OInv, Invoke
  PROVE  OInv'
<1>1. runs \in Nat /\ runs' = runs + 1 /\ node' = "supervisor" /\ papers' = <<>>
      /\ UNCHANGED <<chunks, vectors, active, workspaces>>
  BY NumbersAssumption DEF Invoke, IInv, TypeOK
<1>2. runs' = 1 => Untouched
  BY <1>1 DEF OInv, CleanSoFar
<1>3. CleanSoFar'
  BY <1>1, <1>2 DEF CleanSoFar, Untouched
<1>. QED
  BY <1>1, <1>3 DEF OInv, DecidedSoFar

LEMMA OutcomeStep == IInv /\ IInv' /\ OInv /\ [Next]_vars => OInv'
<1>. SUFFICES ASSUME IInv, IInv', OInv, [Next]_vars PROVE OInv'
  OBVIOUS
<1>1. CASE UNCHANGED vars
  BY <1>1 DEF vars, graphState, stores, OInv, CleanSoFar, DecidedSoFar, Untouched, AnalysisFailed, IsBatch
<1>2. CASE GraphStep
  BY <1>2, WorkOutcome, SlotOutcome, IndexingOutcome, EndOutcome DEF GraphStep
<1>. QED
  BY <1>1, <1>2, EndOutcome, InvokeOutcome DEF Next

(* A run that says canceled has written nothing (agents/cancellation.py),    *)
(* and a run that does not say failed has decided every paper                *)
(* (_normalize_analysis_result), for any batch and any limit.                *)
THEOREM Honest == Spec => []OutcomeIsHonest
<1>1. OInv => CancelIsClean
  BY DEF OInv, CleanSoFar, Untouched, CancelIsClean
<1>2. IInv /\ OInv => SuccessDecidesEveryPaper
  <2>. SUFFICES ASSUME IInv, OInv, node \in {"persist", "respond"}, ~AnalysisFailed
                PROVE  index = Total /\ (~IsBatch => papers[1].completed)
    BY DEF SuccessDecidesEveryPaper
  <2>1. index = Total /\ Len(papers) = Total
    BY DEF OInv, DecidedSoFar, IInv, SlotsInOrder
  <2>. QED
    BY <2>1, NumbersAssumption DEF OInv, DecidedSoFar
<1>3. OInv /\ IInv => OutcomeIsHonest
  BY <1>1, <1>2 DEF OutcomeIsHonest
<1>. QED
  BY <1>3, InitOutcome, OutcomeStep, Invariance, PTL DEF Spec

=============================================================================
