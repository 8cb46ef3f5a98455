------------------------------ MODULE Extraction ------------------------------
(* extraction_agent of agents/extraction.py: what is read of a paper, one    *)
(* call of the LLM and one repair of its JSON, and how sure the result is,   *)
(* which decides whether the paper goes on through human_review              *)
(* (agents/supervisor.py).  The analysis graph of the application is         *)
(* compiled without the interrupt that node is written for: it asks nobody.  *)
EXTENDS Integers, FiniteSetsExt

CONSTANTS
  TextLengths,               \* of the raw text, in the unit of the two below
  HeadChars, TailChars,
  ConfidenceClaims,          \* what the LLM gives, in hundredths of one, or one of the two below
  NoNumber, NaN,             \* a value that float() refuses, and "NaN", which it takes
  ConfidenceThreshold

\* CONFIDENCE_THRESHOLD is 0.7: above the 0.5 an abstract is capped at.
ASSUME ExtractionAssumption ==
  /\ TextLengths \subseteq Nat /\ HeadChars \in Nat /\ TailChars \in Nat \ {0}
  /\ ConfidenceClaims \ {NoNumber, NaN} \subseteq Int
  /\ ConfidenceThreshold \in 51..100

(* source is ingestion_provenance.text_source, review needs_human_review;    *)
(* gated is a history: whether the paper came through human_review.          *)
VARIABLE extraction   \* node, source, length, read, calls, confidence, review, gated

ExtractionOf(source, length) ==
  [node |-> "start", source |-> source, length |-> length, read |-> {}, calls |-> 0, confidence |-> 0,
   review |-> FALSE, gated |-> FALSE]

ExtractionInit ==
  \E source \in {"pdf", "abstract_fallback"}, length \in TextLengths : extraction = ExtractionOf(source, length)

(* A percentage is brought to a share of one; min and max let NaN through as *)
(* their first argument.                                                     *)
ParseConfidence(claim) ==
  CASE claim = NoNumber -> 0
    [] claim = NaN -> 100
    [] OTHER -> Max({0, Min({100, IF claim > 100 THEN claim \div 100 ELSE claim})})

\* Mutant: the abstract is as good as the paper.
MaxConfidence_Ignored == 100
MaxConfidence == IF extraction.source = "abstract_fallback" THEN 50 ELSE 100

(* _select_relevant_text *)
Selected(length) ==
  IF length <= HeadChars + TailChars THEN 1..length
  ELSE 1..HeadChars \cup (length - TailChars + 1)..length

ReadPaper ==
  /\ extraction.node = "start"
  /\ extraction' = IF extraction.length = 0 THEN [extraction EXCEPT !.node = "failed"]
                   ELSE [extraction EXCEPT !.node = "asking", !.read = Selected(extraction.length)]

(* The call fails.                                                           *)
ExtractionFails ==
  /\ extraction.node \in {"asking", "repairing"}
  /\ extraction' = [extraction EXCEPT !.node = "failed", !.calls = @ + 1]

(* An answer that is no JSON object is given back to be repaired, once.      *)
AfterBadJson == IF extraction.node = "asking" THEN "repairing" ELSE "failed"

ExtractionUnreadable ==
  /\ extraction.node \in {"asking", "repairing"}
  /\ extraction' = [extraction EXCEPT !.node = AfterBadJson, !.calls = @ + 1]

Extract ==
  /\ extraction.node \in {"asking", "repairing"}
  /\ \E claim \in ConfidenceClaims :
       LET confidence == Min({ParseConfidence(claim), MaxConfidence}) IN
         extraction' = [extraction EXCEPT !.calls = @ + 1, !.confidence = confidence,
                          !.review = confidence < ConfidenceThreshold,
                          !.node = IF confidence < ConfidenceThreshold THEN "human_review" ELSE "benchmark"]

(* human_review_node, and its edge to benchmark (graph.py).                  *)
HumanReview ==
  /\ extraction.node = "human_review"
  /\ extraction' = [extraction EXCEPT !.node = "benchmark", !.review = FALSE, !.gated = TRUE]

ExtractionNext == ReadPaper \/ ExtractionFails \/ ExtractionUnreadable \/ Extract \/ HumanReview

-----------------------------------------------------------------------------
(* Properties *)

(* agents/extraction.py, "Text source is abstract_fallback; capping          *)
(* confidence at 0.5" and "beginning + tail rather than naive head-only      *)
(* truncation": of the papers that go on to their benchmarks exactly the     *)
(* unsure ones, all that have only an abstract among them, came through      *)
(* human_review and have its flag cleared; no paper costs more than a call   *)
(* and its repair, and what is read has the beginning and the end of the     *)
(* paper, or all of it.                                                      *)
ExtractionIsCautious ==
  /\ extraction.node = "benchmark" =>
       /\ extraction.gated <=> extraction.confidence < ConfidenceThreshold
       /\ extraction.source = "abstract_fallback" => extraction.gated /\ extraction.confidence <= 50
  /\ extraction.review <=> extraction.node = "human_review"
  /\ extraction.calls <= 2
  /\ extraction.node = "asking" =>
       \A n \in 1..extraction.length :
         n <= HeadChars \/ n > extraction.length - TailChars => n \in extraction.read

-----------------------------------------------------------------------------
(* Claims of the documentation that the code does not keep *)

(* agents/human_review.py:13, "graph is compiled with                        *)
(* interrupt_before=["human_review"]": that the unsure ones wait for a human *)
(* is so of create_app of graph.py, which only tests call; the graph that    *)
(* api/app_factory.py compiles does not stop.                                *)
UnsureWaits == extraction.node = "benchmark" => extraction.confidence >= ConfidenceThreshold
=============================================================================
