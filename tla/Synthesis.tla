------------------------------ MODULE Synthesis ------------------------------
(* synthesize_papers of services/paperintel_service.py with the agent of     *)
(* agents/synthesis_agent.py: one call of the LLM over the workspaces of the *)
(* papers that were asked for, or the report the code writes without it.     *)
(* The checks of the papers themselves are in SessionRequests.               *)
EXTENDS Naturals, FiniteSets

CONSTANTS
  SynthesisPapers,   \* papers of the session that have a workspace
  Stranger,          \* a paper the LLM invents
  Parts              \* the parts of a workspace that may be missing: method, benchmarks, readiness, report

ASSUME SynthesisAssumption == Stranger \notin SynthesisPapers

(* missing: the missing parts of each paper; compared: the papers of the     *)
(* latest comparison; context: the same, if it is used.                      *)
VARIABLE synthesis   \* node, persona, papers, missing, compared, context, report, status

Readers == {"engineer", "researcher", "techlead"}
NoSynthesis == [persona |-> "none", cites |-> {}, limits |-> {}, by |-> "nobody"]

SynthesisOf(persona, papers, missing, compared) ==
  [node |-> "selected", persona |-> persona, papers |-> papers, missing |-> missing,
   compared |-> compared, context |-> {}, report |-> NoSynthesis, status |-> "none"]

SynthesisInit ==
  \E persona \in Readers, papers \in SUBSET SynthesisPapers, compared \in SUBSET SynthesisPapers :
    \E missing \in [papers -> SUBSET Parts] :
      /\ Cardinality(papers) >= 2 /\ Cardinality(compared) # 1
      /\ synthesis = SynthesisOf(persona, papers, missing, compared)

(* The latest comparison is context when it is about one of the papers.      *)
LatestRelevantComparison ==
  /\ synthesis.node = "selected"
  /\ synthesis' = [synthesis EXCEPT !.node = "asking",
                     !.context = IF synthesis.papers \cap synthesis.compared = {} THEN {} ELSE synthesis.compared]

(* What is missing in a workspace, as its limitations.                       *)
Limitations(p) == {<<p, part>> : part \in synthesis.missing[p]}

FallbackCites == synthesis.papers

FallbackReport ==
  [persona |-> synthesis.persona, cites |-> FallbackCites,
   limits |-> UNION {Limitations(p) : p \in synthesis.papers}, by |-> "code"]

(* The report is of any persona and cites anything; valid says whether it    *)
(* has its other fields.                                                     *)
Payloads == [persona : Readers, cites : SUBSET (SynthesisPapers \cup {Stranger}), valid : BOOLEAN]

\* Mutant: citations are taken as they come.
Kept_All(payload) == payload.cites
Kept(payload) == payload.cites \cap synthesis.papers

Usable(payload) == payload.valid /\ Kept(payload) # {}

SynthesisAnswers ==
  /\ synthesis.node = "asking"
  /\ \E payload \in Payloads :
       /\ Usable(payload)
       /\ synthesis' = [synthesis EXCEPT !.node = "end", !.status = "completed",
            !.report = [persona |-> synthesis.persona, cites |-> Kept(payload), limits |-> {}, by |-> "llm"]]

(* The call fails, or what it returns cannot be used: there is no repair.    *)
SynthesisFallsBack ==
  /\ synthesis.node = "asking"
  /\ synthesis' = [synthesis EXCEPT !.node = "end", !.status = "fallback_used", !.report = FallbackReport]

SynthesisNext == LatestRelevantComparison \/ SynthesisAnswers \/ SynthesisFallsBack

-----------------------------------------------------------------------------
(* Properties *)

(* agents/synthesis_agent.py, "Do not invent paper ids": a synthesis is for  *)
(* the persona of the session, cites at least one of the papers it is about  *)
(* and no other; what the code writes itself cites all of them and names     *)
(* every part that is missing; and the agent run says which of the two it is.*)
SynthesisIsGrounded ==
  synthesis.node = "end" =>
    /\ synthesis.report.persona = synthesis.persona
    /\ synthesis.report.cites # {} /\ synthesis.report.cites \subseteq synthesis.papers
    /\ synthesis.report.by = "code" <=> synthesis.status = "fallback_used"
    /\ synthesis.report.by = "code" =>
         /\ synthesis.report.cites = synthesis.papers
         /\ synthesis.report.limits = {l \in synthesis.papers \X Parts : l[2] \in synthesis.missing[l[1]]}
=============================================================================
