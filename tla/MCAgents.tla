------------------------------- MODULE MCAgents -------------------------------
(* The parts of the program that compute one result from their inputs and    *)
(* share no state: each behaviour runs one of them, on its inputs.           *)
EXTENDS Discovery, Comparison, Chunking, PaperVerdict, Extraction, Synthesis, JobRequests, PreviewUi,
        Conversation, Integers, Sequences, SequencesExt

agents == <<discovery, comparison, chunking, verdict, extraction, synthesis, request, ui, conversation>>

MCJobInput(kind) ==
  [kind |-> kind, text |-> Null, version |-> Null, paper |-> Null, ids |-> Null, prompt |-> Null]

AtRest(component) == [component EXCEPT !.node = "rest"]

DiscoveryRests == discovery = AtRest(NewDiscovery)
ComparisonRests == comparison = AtRest(ComparisonOf("batch_comparator", <<>>))
ChunkingRests == chunking = AtRest(ChunkingOf([abstract |-> FALSE, pages |-> <<>>]))
VerdictRests == verdict = AtRest(VerdictOf([tables |-> FALSE, hard |-> FALSE, text |-> FALSE], <<>>))
ExtractionRests == extraction = AtRest(ExtractionOf("pdf", 0))
SynthesisRests == synthesis = AtRest(SynthesisOf("engineer", {}, <<>>, {}))
RequestRests == request = AtRest(RequestOf("service", MCJobInput("analyze_selected")))
UiRests == ui = AtRest(NewUi)
ConversationRests ==
  /\ persona = "engineer"
  /\ graph = AtRest(Fresh) /\ runs = {} /\ errors = {} /\ reply = NoReply

Init ==
  \/ /\ DiscoveryInit
     /\ ComparisonRests /\ ChunkingRests /\ VerdictRests /\ ExtractionRests
     /\ SynthesisRests /\ RequestRests /\ UiRests /\ ConversationRests
  \/ /\ ComparisonInit
     /\ DiscoveryRests /\ ChunkingRests /\ VerdictRests /\ ExtractionRests
     /\ SynthesisRests /\ RequestRests /\ UiRests /\ ConversationRests
  \/ /\ ChunkingInit
     /\ DiscoveryRests /\ ComparisonRests /\ VerdictRests /\ ExtractionRests
     /\ SynthesisRests /\ RequestRests /\ UiRests /\ ConversationRests
  \/ /\ VerdictInit
     /\ DiscoveryRests /\ ComparisonRests /\ ChunkingRests /\ ExtractionRests
     /\ SynthesisRests /\ RequestRests /\ UiRests /\ ConversationRests
  \/ /\ ExtractionInit
     /\ DiscoveryRests /\ ComparisonRests /\ ChunkingRests /\ VerdictRests
     /\ SynthesisRests /\ RequestRests /\ UiRests /\ ConversationRests
  \/ /\ SynthesisInit
     /\ DiscoveryRests /\ ComparisonRests /\ ChunkingRests /\ VerdictRests
     /\ ExtractionRests /\ RequestRests /\ UiRests /\ ConversationRests
  \/ /\ RequestInit
     /\ DiscoveryRests /\ ComparisonRests /\ ChunkingRests /\ VerdictRests
     /\ ExtractionRests /\ SynthesisRests /\ UiRests /\ ConversationRests
  \/ /\ UiInit
     /\ DiscoveryRests /\ ComparisonRests /\ ChunkingRests /\ VerdictRests
     /\ ExtractionRests /\ SynthesisRests /\ RequestRests /\ ConversationRests
  \/ /\ ConversationInit
     /\ DiscoveryRests /\ ComparisonRests /\ ChunkingRests /\ VerdictRests
     /\ ExtractionRests /\ SynthesisRests /\ RequestRests /\ UiRests

ConversationStep ==
  /\ ~At("rest") /\ ConversationNext
  /\ UNCHANGED <<discovery, comparison, chunking, verdict, extraction, synthesis, request, ui>>

Next ==
  \/ DiscoveryNext /\ UNCHANGED <<comparison, chunking, verdict, extraction, synthesis, request, ui, conversation>>
  \/ ComparisonNext /\ UNCHANGED <<discovery, chunking, verdict, extraction, synthesis, request, ui, conversation>>
  \/ ChunkingNext /\ UNCHANGED <<discovery, comparison, verdict, extraction, synthesis, request, ui, conversation>>
  \/ VerdictNext /\ UNCHANGED <<discovery, comparison, chunking, extraction, synthesis, request, ui, conversation>>
  \/ ExtractionNext /\ UNCHANGED <<discovery, comparison, chunking, verdict, synthesis, request, ui, conversation>>
  \/ SynthesisNext /\ UNCHANGED <<discovery, comparison, chunking, verdict, extraction, request, ui, conversation>>
  \/ RequestNext /\ UNCHANGED <<discovery, comparison, chunking, verdict, extraction, synthesis, ui, conversation>>
  \/ UiNext /\ UNCHANGED <<discovery, comparison, chunking, verdict, extraction, synthesis, request, conversation>>
  \/ ConversationStep

Spec == Init /\ [][Next]_agents

(* A turn is run by one thread that goes on until it is done; nobody has to  *)
(* ask.                                                                      *)
TurnStep ==
  /\ ~At("rest") /\ Turn
  /\ UNCHANGED <<discovery, comparison, chunking, verdict, extraction, synthesis, request, ui>>

FairSpec == Spec /\ WF_agents(TurnStep)

-----------------------------------------------------------------------------
(* Discovery: a topic of two words; three papers, one of them in two         *)
(* versions and one whose title is that of another.                          *)

Entry(id, version, title, abstract, age) ==
  [id |-> id, version |-> version, title |-> title, abstract |-> abstract, age |-> age]

MCTopic == <<1, 2>>
MCEntries ==
  {Entry(1, 1, <<1, 2>>, <<3>>, 9), Entry(1, 2, <<1, 2, 3>>, <<3>>, 1), Entry(2, 1, <<1, 2>>, <<1>>, 0),
   Entry(3, 1, <<2>>, <<1, 3>>, 12)}
    \cup {NoEntry}

MCQueryItems ==
  {[words |-> <<1, 2>>, spelling |-> 0, limit |-> NotANumber], [words |-> <<1, 2>>, spelling |-> 1, limit |-> 0],
   [words |-> <<3>>, spelling |-> 0, limit |-> 9], [words |-> <<>>, spelling |-> 0, limit |-> 1]}

-----------------------------------------------------------------------------
(* Comparison: two tasks, one metric where more is better and one where less *)
(* is; a spelling of one task that the aliases bring together.               *)

Result(task, metric, value, unit, condition) ==
  [task |-> task, metric |-> metric, value |-> value, unit |-> unit, condition |-> condition]

MCCanonical ==
  [name \in {"qa", "QA", "mt", "f1", "time", "percent", "%", "ms", "test", "dev", "cheap", NoName} |->
     CASE name = "QA" -> "qa" [] name = "%" -> "percent" [] OTHER -> name]

MCBenchmarks ==
  {<<>>,
   <<Result("qa", "f1", 1, "%", "test")>>, <<Result("QA", "f1", 2, "percent", NoName)>>,
   <<Result("qa", "f1", 2, NoName, "dev")>>, <<Result("qa", "f1", 2, "ms", "test")>>,
   <<Result("qa", "f1", 1, "%", "test"), Result("QA", "f1", 3, "%", "test")>>,
   <<Result("qa", "f1", 3, "%", "dev"), Result("QA", "f1", 1, "%", "test")>>,
   <<Result("qa", "time", 1, NoName, NoName), Result("mt", "f1", 1, NoName, NoName)>>,
   <<Result("qa", "time", 2, NoName, NoName), Result("qa", "f1", 2, NoName, "test")>>}

MCPaperSlots ==
  {[completed |-> TRUE, maturity |-> 2, benchmarks |-> b] : b \in MCBenchmarks}
    \cup {[completed |-> TRUE, maturity |-> 1, benchmarks |-> <<Result("qa", "f1", 1, NoName, NoName)>>],
          [completed |-> FALSE, maturity |-> 0, benchmarks |-> <<>>]}

-----------------------------------------------------------------------------
(* Chunking: pages of up to six blocks and papers of one or two pages.       *)

Blocks == {<<"x", "x", "x">>, <<"n", "n">>, <<".", " ">>}
Joined(blocks) == FlattenSeq(blocks)
Pages(n) == {Joined(blocks) : blocks \in BoundedSeq(Blocks, n)}
MCPapers ==
  [abstract : {FALSE}, pages : {<<page>> : page \in Pages(6)}]
    \cup [abstract : {TRUE}, pages : {<<>>} \cup {<<p, q>> : p, q \in Pages(2) \cup {<<"x", " ", "n", "x">>}}]

-----------------------------------------------------------------------------
(* Verdict: a repository below the floor with releases, one above without,   *)
(* one above with.                                                           *)

CONSTANTS small, large, full, weights
MCStars == small :> 1 @@ large :> 6 @@ full :> 5

-----------------------------------------------------------------------------
(* Synthesis and extraction: three papers; texts up to and over the limit.   *)

MCConfidenceClaims == {-10, 40, 70, 95, 150, 9000, NoNumber, NaN}

-----------------------------------------------------------------------------
(* Jobs: each kind of request with everything that can be wrong with it.     *)

T(word, padded, long) == [word |-> word, padded |-> padded, long |-> long]
MCWord == T("w", FALSE, FALSE)
MCTexts ==
  {NotText, NoWord, T("", TRUE, FALSE), T("", TRUE, TRUE), MCWord, T("w", TRUE, FALSE), T("w", TRUE, TRUE), T("l", FALSE, TRUE)}

MCIds ==
  {Null, NotText, <<T("a", TRUE, FALSE), MCWord>>, <<T("a", FALSE, FALSE), MCWord, T("c", FALSE, FALSE)>>,
   <<T("a", FALSE, FALSE), MCWord, MCWord>>}
    \cup BoundedSeq({NotText, T("", TRUE, FALSE), MCWord, T("w", TRUE, FALSE), T("l", FALSE, TRUE)}, 2)

MCDelays == {-3, 5}

MCJobInputs ==
  {MCJobInput("analyze_selected")}
    \cup {[MCJobInput(kind) EXCEPT !.text = t] : kind \in {"analyze_paper", "discover"}, t \in MCTexts \cup {T("url", TRUE, FALSE)}}
    \cup {[MCJobInput("analyze_pdf_blob") EXCEPT !.text = MCWord, !.version = v, !.paper = p] :
            v \in MCTexts, p \in MCTexts \cup {Null}}
    \cup {[MCJobInput(kind) EXCEPT !.ids = ids, !.prompt = t] :
            kind \in {"compare", "synthesize"}, ids \in MCIds, t \in MCTexts \cup {Null}}

-----------------------------------------------------------------------------
(* The page: two sessions, and two handlers at the same time.                *)

CONSTANTS s1, s2

-----------------------------------------------------------------------------
(* Conversation: two papers, one with an equation, which some first plans    *)
(* find, and one with an abstract, which only a second plan finds.           *)

CONSTANTS p1, p2

Chunk(p, type, n) == [paper |-> p, type |-> type, n |-> n]
MCChunks == {Chunk(p1, "equation", 0), Chunk(p2, "abstract", 0)}
=============================================================================
