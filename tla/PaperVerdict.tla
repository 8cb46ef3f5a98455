----------------------------- MODULE PaperVerdict -----------------------------
(* What the analysis of one paper concludes, from the benchmark agent to the *)
(* evidence critic: the rows that are extracted, the repositories and models *)
(* that are checked, the maturity, and the recommendation of the report.     *)
(* The paper has an extraction: without one the graph never comes here.      *)
EXTENDS Integers, Sequences, FiniteSets, SequencesExt

CONSTANTS
  Repos,          \* GitHub repositories
  Stars,          \* repository -> stars
  Released,       \* the repositories with releases
  Models,         \* HuggingFace models
  Nothing,        \* no repository, no model
  NoGithubUrl,    \* a claimed url that is not on GitHub
  MaxRows,        \* bound: benchmark rows of one answer
  MentionLimit,   \* MAX_GITHUB_CANDIDATES
  ClaimLimit,     \* MAX_LLM_GITHUB_CANDIDATES, MAX_LLM_HF_CANDIDATES
  StarsFloor      \* PRODUCTION_READY_MIN_STARS

ASSUME VerdictAssumption ==
  /\ Stars \in [Repos -> Nat] /\ Released \subseteq Repos
  /\ Nothing \notin Repos \cup Models /\ NoGithubUrl \notin Repos
  /\ MaxRows \in Nat /\ MentionLimit \in Nat /\ ClaimLimit \in Nat
  /\ StarsFloor \in Nat \ {0}

VARIABLE verdict   \* the part of PaperIntelState that these agents read and write

Unparsed == -1   \* an answer that is no JSON array, nor its repair
Maturities == {"research_only", "experimental", "production_ready"}
Difficulties == {"trivial", "moderate", "significant", "research_only"}
VerdictActions == {"implement_now", "prototype", "watch", "skip"}
Misspelt == "misspelt"   \* a value that none of the lists has

FoundRepo(r, releases) == [repo |-> r, stars |-> Stars[r], releases |-> releases]
NoCode == [repo |-> Nothing, stars |-> 0, releases |-> FALSE]
NoReadiness == [maturity |-> "none", code |-> NoCode, model |-> Nothing]
NoVerdict == [action |-> "none", difficulty |-> "none"]

(* mentioned: the repositories in the text, each once, in order; found and   *)
(* verified: what GitHub and HuggingFace have confirmed in this run.         *)
VerdictOf(context, mentioned) ==
  [node |-> "benchmark", context |-> context, rows |-> Unparsed, parsed |-> 0, warned |-> FALSE,
   mentioned |-> mentioned, checked |-> {}, code |-> NoCode, model |-> Nothing,
   claims |-> [maturity |-> "none", repos |-> <<>>, models |-> <<>>],
   found |-> {}, verified |-> {},
   readiness |-> NoReadiness, report |-> NoVerdict, rendered |-> NoVerdict]

Contexts == [tables : BOOLEAN, hard : BOOLEAN, text : BOOLEAN]

VerdictInit ==
  \E context \in Contexts, mentioned \in BoundedSeq(Repos, Cardinality(Repos)) :
    /\ context.hard => context.tables
    /\ mentioned # <<>> => context.text
    /\ \A i, j \in DOMAIN mentioned : mentioned[i] = mentioned[j] => i = j
    /\ verdict = VerdictOf(context, mentioned)

VerdictAt(node) == verdict.node = node

(* paper_error: the LLM fails, or what it says cannot be parsed. *)
VerdictFails ==
  /\ verdict.node \in {"benchmark", "readiness", "report"}
  /\ verdict' = [verdict EXCEPT !.node = "failed"]

-----------------------------------------------------------------------------
(* benchmark_analyst_agent: Haiku, then Sonnet when Haiku found too little *)

(* _should_use_sonnet_fallback; hard: tables truncated or complex. *)
ShouldAskSonnet(rows, context) ==
  \/ rows = Unparsed
  \/ rows = 0 /\ (context.hard \/ ~context.tables \/ context.text)
  \/ rows = 1 /\ context.text

Answers(rows) ==
  [verdict EXCEPT !.rows = rows, !.parsed = IF rows = Unparsed THEN @ ELSE rows]

(* Without tables and without text there is nothing to ask about. *)
AskHaiku ==
  /\ VerdictAt("benchmark") /\ (verdict.context.tables \/ verdict.context.text)
  /\ \E rows \in 0..MaxRows \cup {Unparsed} :
       verdict' = [Answers(rows) EXCEPT
         !.node = IF ShouldAskSonnet(rows, verdict.context) THEN "sonnet" ELSE "benchmarked"]

SonnetAnswers ==
  /\ VerdictAt("sonnet")
  /\ \E rows \in 0..MaxRows :
       verdict' = [Answers(rows) EXCEPT !.node = "benchmarked", !.warned = TRUE]

(* The call fails, or its answer cannot be parsed: Haiku's rows stay. *)
SonnetFails ==
  /\ VerdictAt("sonnet")
  /\ verdict' = [verdict EXCEPT !.node = "benchmarked", !.warned = TRUE]

(* An error of parsing is no failure of the paper: it has no rows. *)
Benchmarked ==
  /\ VerdictAt("benchmarked")
  /\ LET rows == IF verdict.rows = Unparsed THEN 0 ELSE verdict.rows IN
     verdict' = [verdict EXCEPT !.node = "resources", !.rows = rows,
                   !.warned = @ \/ rows = 0, !.context = [tables |-> FALSE, hard |-> FALSE, text |-> FALSE]]

-----------------------------------------------------------------------------
(* readiness_agent *)

(* get_resources: HuggingFace does not answer, does not know the paper or    *)
(* has no model for it; or it has some.                                      *)
LinkedModels == SUBSET Models

(* _collect_hf_evidence: the linked model with the most downloads. *)
LookUpResources ==
  /\ VerdictAt("resources")
  /\ \E linked \in LinkedModels : \E model \in IF linked = {} THEN {Nothing} ELSE linked :
       verdict' = [verdict EXCEPT !.node = "repos", !.model = model,
                     !.verified = @ \cup ({model} \ {Nothing})]

(* check_repo through _check_single_github: the repository with its stars,   *)
(* without releases also when GitHub did not answer for them; or Nothing,    *)
(* for any other status.                                                     *)
CheckRepo(r) ==
  {NoCode} \cup {FoundRepo(r, releases) : releases \in {FALSE, (r \in Released)}}

(* The first of those with the most stars. *)
BetterCode(code, answer) ==
  IF answer # NoCode /\ (code = NoCode \/ answer.stars > code.stars) THEN answer ELSE code

Checks(r, answer) ==
  [verdict EXCEPT !.checked = @ \cup {r}, !.code = BetterCode(@, answer),
                  !.found = @ \cup ({answer} \ {NoCode})]

(* _collect_github_evidence *)
CheckMentioned ==
  /\ VerdictAt("repos")
  /\ Cardinality(verdict.checked) < MentionLimit
  /\ Cardinality(verdict.checked) < Len(verdict.mentioned)
  /\ LET r == verdict.mentioned[Cardinality(verdict.checked) + 1] IN
     \E answer \in CheckRepo(r) : verdict' = Checks(r, answer)

MentionsChecked ==
  /\ VerdictAt("repos")
  /\ Cardinality(verdict.checked) \in {MentionLimit, Len(verdict.mentioned)}
  /\ verdict' = [verdict EXCEPT !.node = "readiness", !.mentioned = <<>>]

FirstOf(claimed) == SubSeq(claimed, 1, IF Len(claimed) < ClaimLimit THEN Len(claimed) ELSE ClaimLimit)

ClaimReadiness ==
  /\ VerdictAt("readiness")
  /\ \E maturity \in Maturities \cup {Misspelt},
        repos \in BoundedSeq(Repos \cup {NoGithubUrl}, ClaimLimit + 1),
        models \in BoundedSeq(Models, ClaimLimit) :
       verdict' = [verdict EXCEPT !.node = "verify",
                     !.claims = [maturity |-> maturity, repos |-> FirstOf(repos), models |-> FirstOf(models)]]

(* _verify_claims: urls on GitHub that the text did not have. *)
VerifyRepo ==
  /\ VerdictAt("verify") /\ verdict.claims.repos # <<>>
  /\ LET r == Head(verdict.claims.repos)
         next(v) == [v EXCEPT !.claims.repos = Tail(@)]
     IN IF r \in verdict.checked \cup {NoGithubUrl} THEN verdict' = next(verdict)
        ELSE \E answer \in CheckRepo(r) :
               verdict' = [next(Checks(r, answer)) EXCEPT !.checked = verdict.checked]

(* _verify_hf_model: any answer but the model itself is none. *)
ModelIsConfirmed == BOOLEAN

(* Models are tried until one is confirmed, and only if none is known. *)
VerifyModel ==
  /\ VerdictAt("verify") /\ verdict.claims.repos = <<>>
  /\ verdict.claims.models # <<>> /\ verdict.model = Nothing
  /\ LET model == Head(verdict.claims.models) IN
     \E confirmed \in ModelIsConfirmed :
       verdict' = IF confirmed
                  THEN [verdict EXCEPT !.model = model, !.verified = @ \cup {model},
                                       !.claims.models = <<>>]
                  ELSE [verdict EXCEPT !.claims.models = Tail(@)]

(* _normalize: no code and no model is research; production needs the stars  *)
(* and releases or a model; anything else with code is experimental.         *)
Maturity(claimed, code, model) ==
  CASE code = NoCode /\ model = Nothing -> "research_only"
    [] /\ claimed = "production_ready"
       /\ code.stars >= StarsFloor /\ (code.releases \/ model # Nothing) -> "production_ready"
    [] OTHER -> "experimental"

NormalizeReadiness ==
  /\ VerdictAt("verify") /\ verdict.claims.repos = <<>>
  /\ verdict.claims.models = <<>> \/ verdict.model # Nothing
  /\ verdict' = [verdict EXCEPT
       !.node = "report",
       !.readiness = [maturity |-> Maturity(verdict.claims.maturity, verdict.code, verdict.model),
                      code |-> verdict.code, model |-> verdict.model],
       !.claims = [maturity |-> "none", repos |-> <<>>, models |-> <<>>]]

-----------------------------------------------------------------------------
(* report_agent and evidence_critic_agent *)

Valid(value, values, default) == IF value \in values THEN value ELSE default

AtMost(action, cap) ==
  IF action = "implement_now" \/ (action = "prototype" /\ cap = "watch") THEN cap ELSE action

\* Mutant: a report without benchmarks keeps its recommendation.
Normalized_NoBenchmarkCap(claim, readiness, rows) ==
  [action |-> CASE readiness.maturity = "research_only" -> AtMost(Valid(claim.action, VerdictActions, "skip"), "watch")
                [] readiness.maturity = "experimental" -> AtMost(Valid(claim.action, VerdictActions, "skip"), "prototype")
                [] OTHER -> Valid(claim.action, VerdictActions, "skip"),
   difficulty |-> Valid(claim.difficulty, Difficulties, "research_only")]

(* _normalize_engineer_report *)
Normalized(claim, readiness, rows) ==
  LET action == Valid(claim.action, VerdictActions, "skip")
      difficulty == Valid(claim.difficulty, Difficulties, "research_only")
      mature == CASE readiness.maturity = "research_only" -> AtMost(action, "watch")
                  [] readiness.maturity = "experimental" -> AtMost(action, "prototype")
                  [] OTHER -> action
  IN [action |-> IF rows = 0 THEN AtMost(mature, "prototype") ELSE mature,
      difficulty |-> CASE readiness.maturity = "research_only" -> "research_only"
                       [] readiness.maturity = "experimental" /\ difficulty = "trivial" -> "moderate"
                       [] OTHER -> difficulty]

(* The markdown is rendered from the report as it is here. *)
WriteReport ==
  /\ VerdictAt("report")
  /\ \E claim \in [action : VerdictActions \cup {Misspelt}, difficulty : Difficulties \cup {Misspelt}] :
       LET report == Normalized(claim, verdict.readiness, verdict.rows) IN
       verdict' = [verdict EXCEPT !.node = "evidence_critic", !.report = report, !.rendered = report]

(* Without benchmarks no implement_now, with research_only at most watch. *)
Criticized(report) ==
  LET action == IF verdict.rows = 0 THEN AtMost(report.action, "prototype") ELSE report.action
  IN IF verdict.readiness.maturity = "research_only" /\ AtMost(action, "watch") # action
     THEN [action |-> "watch", difficulty |-> "research_only"]
     ELSE [report EXCEPT !.action = action]

(* The critic replaces the report; the markdown stays. *)
EvidenceCritic ==
  /\ VerdictAt("evidence_critic")
  /\ verdict' = [verdict EXCEPT !.node = "end", !.report = Criticized(@)]

VerdictNext ==
  \/ VerdictFails \/ AskHaiku \/ SonnetAnswers \/ SonnetFails \/ Benchmarked
  \/ LookUpResources \/ CheckMentioned \/ MentionsChecked
  \/ ClaimReadiness \/ VerifyRepo \/ VerifyModel \/ NormalizeReadiness
  \/ WriteReport \/ EvidenceCritic

-----------------------------------------------------------------------------
(* Properties *)

(* benchmark_analyst_agent: the rows are those of the last answer that could *)
(* be parsed, so a fallback that fails costs nothing; and a paper that has   *)
(* none carries a warning.                                                   *)
RowsAreAccountedFor ==
  verdict.node \in {"resources", "repos", "readiness", "verify", "report", "evidence_critic", "end"} =>
    /\ verdict.rows = verdict.parsed
    /\ verdict.rows = 0 => verdict.warned

(* readiness_agent: whatever the LLM claims, the maturity says research_only *)
(* exactly when this run confirmed no code; code and model were confirmed in *)
(* this run; and no confirmed repository has more stars than the code.       *)
MaturityIsVerified ==
  verdict.readiness # NoReadiness =>
    /\ (verdict.readiness.maturity = "research_only") = (verdict.found = {} /\ verdict.verified = {})
    /\ verdict.readiness.model \in verdict.verified \cup {Nothing}
    /\ verdict.readiness.code \in verdict.found \cup {NoCode}
    /\ \A code \in verdict.found : code.stars <= verdict.readiness.code.stars

(* From readiness_agent to the critic: "implement now" needs benchmarks, a   *)
(* confirmed repository with enough stars, and releases or a model.          *)
ImplementNowIsEarned ==
  verdict.report.action = "implement_now" =>
    /\ verdict.rows > 0
    /\ \E code \in verdict.found :
         code.stars >= StarsFloor /\ (code.releases \/ verdict.verified # {})

(* report_agent renders the markdown before the critic sees the report: the  *)
(* recommendation and the difficulty the reader finds in it are those that   *)
(* are stored.                                                               *)
MarkdownMatchesVerdict == verdict.node = "end" => verdict.rendered = verdict.report

(* The recommendation rests on what was found and verified, in the report,   *)
(* in the critic's version of it and in its markdown.                        *)
VerdictIsEarned == RowsAreAccountedFor /\ MaturityIsVerified /\ ImplementNowIsEarned /\ MarkdownMatchesVerdict
=============================================================================
