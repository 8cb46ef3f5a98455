----------------------------- MODULE Conversation -----------------------------
(* The question-answering graph of graph_conversation.py: intent_router,     *)
(* retrieval_planner, answer_agent and citation_critic with its repair loop. *)
(* One turn of one session is a run of the graph.  What analyses do          *)
(* meanwhile it meets at two places: the router loads the list of active     *)
(* papers, and the planner searches the index.  Between any two of these     *)
(* reads that list and that index change in any way, papers and points going *)
(* included (SessionStore, SessionRequests: lists written back stale, points *)
(* taken by other sessions), so each of them reads just any.                 *)
(*                                                                           *)
(* An agent calls the LLM at most once per step.  The call fails, or its     *)
(* answer cannot be used (no JSON, wrong types, a number out of range), or   *)
(* it is one of a set of payloads, of which a model value stands for every   *)
(* text.  Confidence is in tenths.                                           *)
EXTENDS Naturals, FiniteSets

CONSTANTS
  Papers,               \* papers that the session may get
  Unknown,              \* a paper id the LLM invents
  Chunks,               \* the chunks analysis cuts: records [paper, type, n]
  Confidences,          \* values the LLM gives as its confidence
  MaxRepairIterations,  \* MAX_REPAIR_ITERATIONS
  MaxIterations,        \* max_iterations of the planner's policy
  DefaultK, ReplanK     \* chunks asked for by the first and the second plan

ASSUME ConversationAssumption ==
  /\ Unknown \notin Papers
  /\ \A c \in Chunks : c.paper \in Papers
  /\ Confidences \subseteq 0..10
  /\ MaxRepairIterations \in Nat /\ MaxIterations \in Nat
  /\ DefaultK \in Nat \ {0} /\ ReplanK \in Nat \ {0}

VARIABLES
  persona,   \* session.persona
  graph,     \* the ConversationState of the turn, and the node to run next
  runs,      \* the AgentRuns of the turn
  errors,    \* its StructuredErrors, by the run that made them
  reply      \* the GraphInvocationResult of the last turn

conversation == <<persona, graph, runs, errors, reply>>

Personas == {"engineer", "researcher", "techlead"}
QaIntents == {"qa_factual", "qa_math", "qa_comparison", "qa_followup"}
Intents == QaIntents \cup
  {"discover", "analyze_paper", "select_papers", "clarification_needed", "unclear"}
ChunkTypes == {"text", "abstract", "table", "equation"}
NoDraft == [cites |-> {}, confidence |-> 0, noted |-> FALSE, insufficient |-> FALSE,
            iteration |-> 0, exists |-> FALSE]
NoReview == [of |-> 0, issues |-> FALSE, exists |-> FALSE]

(* node: the node to run; asks, question: needs_clarification and whether    *)
(* there is a clarification_question; fallback: plan.fallback_used; repair:  *)
(* the iteration of the repair_context, 0 for None.  known and found are     *)
(* histories: what was active when the router loaded the session, and what   *)
(* Qdrant had of it when the planner last searched.                          *)
Fresh == [node |-> "intent_router", intent |-> "unset", refs |-> {}, asks |-> FALSE,
          question |-> FALSE, wants |-> "nothing", fallback |-> FALSE, evidence |-> {},
          draft |-> NoDraft, review |-> NoReview, repair |-> 0, known |-> {}, found |-> {}]

(* What the graph returns, with what it was when it ended.                   *)
NoReply == [kind |-> "none", result |-> Fresh]

ConversationInit ==
  /\ persona \in Personas
  /\ graph = [Fresh EXCEPT !.node = "idle"]
  /\ runs = {} /\ errors = {} /\ reply = NoReply

At(node) == graph.node = node

(* AgentRun.complete, fail and fallback: one run per agent and iteration. *)
Run(agent, status, reason) ==
  [agent |-> agent, iteration |-> graph.repair, status |-> status, reason |-> reason]

Completes(agent) == runs' = runs \cup {Run(agent, "completed", "success")} /\ UNCHANGED errors
Skips(agent) == runs' = runs \cup {Run(agent, "completed", "skipped")} /\ UNCHANGED errors
FallsBack(agent, reason) ==
  runs' = runs \cup {Run(agent, "fallback_used", reason)} /\ UNCHANGED errors
Fails(agent, reason) ==
  /\ runs' = runs \cup {Run(agent, "failed", reason)}
  /\ errors' = errors \cup {[agent |-> agent, iteration |-> graph.repair]}

(* call_text_llm answers, fails, or times out; llm_error_termination_reason. *)
CallFailures == {"error", "timeout"}

-----------------------------------------------------------------------------
(* intent_router *)

Resolutions ==
  [intent : Intents, refs : SUBSET (Papers \cup {Unknown}), ambiguous : BOOLEAN,
   question : BOOLEAN]

Clarification == [intent |-> "clarification_needed", refs |-> {}, ambiguous |-> TRUE,
                  question |-> TRUE]

(* IntentResolution: an ambiguous intent comes with a question. *)
ValidResolution(payload) == payload.ambiguous => payload.question

NormalizeResolution(payload, active) ==
  IF \/ ~(payload.refs \subseteq active)
     \/ payload.intent \in QaIntents /\ active = {}
  THEN Clarification
  ELSE payload

(* route_after_intent *)
AfterIntent(intent, asks) ==
  CASE ~asks /\ intent \in QaIntents -> "retrieval_planner"
    [] ~asks /\ intent = "analyze_paper" -> "analysis_requested"
    [] ~asks /\ intent = "discover" -> "discovery_requested"
    [] OTHER -> "clarification"

Resolved(r, active) ==
  graph' = [graph EXCEPT !.intent = r.intent, !.refs = r.refs, !.asks = r.ambiguous,
                         !.question = r.question, !.known = active,
                         !.node = AfterIntent(r.intent, r.ambiguous)]

(* The session cannot be loaded, or the LLM's answer is of no use; the LLM   *)
(* fails; or its payload is normalized, against session.active_paper_ids.    *)
RouterFails ==
  /\ At("intent_router")
  /\ Fails("intent_router", "error")
  /\ graph' = [graph EXCEPT !.node = AfterIntent("unset", FALSE)]
  /\ UNCHANGED <<persona, reply>>

RouterFallsBack ==
  /\ At("intent_router")
  /\ \E active \in SUBSET Papers : Resolved(Clarification, active)
  /\ \E failure \in CallFailures :
       FallsBack("intent_router", IF failure = "timeout" THEN "timeout" ELSE "fallback")
  /\ UNCHANGED <<persona, reply>>

RouterResolves ==
  /\ At("intent_router")
  /\ \E payload \in Resolutions, active \in SUBSET Papers :
       ValidResolution(payload) /\ Resolved(NormalizeResolution(payload, active), active)
  /\ Completes("intent_router")
  /\ UNCHANGED <<persona, reply>>

(* The three nodes that answer without evidence. *)
Respond ==
  /\ \/ /\ At("clarification")
        /\ graph' = [graph EXCEPT !.node = "end", !.asks = @ \/ ~graph.question, !.question = TRUE]
     \/ /\ At("analysis_requested")
        /\ graph' = [graph EXCEPT !.node = "end", !.wants = "analysis", !.question = TRUE]
     \/ /\ At("discovery_requested")
        /\ graph' = [graph EXCEPT !.node = "end", !.wants = "discovery", !.question = TRUE]
  /\ UNCHANGED <<persona, runs, errors, reply>>

-----------------------------------------------------------------------------
(* retrieval_planner *)

(* _persona_chunk_priorities *)
Priorities ==
  CASE graph.intent = "qa_math" -> {"equation", "text"}
    [] graph.intent = "qa_comparison" -> {"table", "text"}
    [] graph.intent \in QaIntents \ {"qa_math", "qa_comparison"} ->
         IF persona = "researcher" THEN {"text", "equation"} ELSE {"text", "table"}

(* search_chunks with the session, the papers and the types as filters gives *)
(* the k nearest of the points that Qdrant has of the session: which ones    *)
(* they are is for the vectors to say.  A filter on no type at all matches   *)
(* nothing.                                                                  *)
Matching(index, types) == {c \in index : c.paper \in graph.refs /\ c.type \in types}

Hits(index, types, k) ==
  LET m == Matching(index, types) IN
  {s \in SUBSET m : Cardinality(s) = IF Cardinality(m) < k THEN Cardinality(m) ELSE k}

Planned(evidence, fallback) ==
  graph' = [graph EXCEPT !.evidence = evidence, !.fallback = fallback, !.node = "answer_agent"]

Found(index, evidence, fallback) ==
  graph' = [graph EXCEPT !.evidence = evidence, !.fallback = fallback, !.found = index,
                         !.node = "answer_agent"]

(* No paper to search: an error, and the answer agent finds no evidence. *)
PlannerRefuses ==
  /\ At("retrieval_planner") /\ graph.refs = {}
  /\ Fails("retrieval_planner", "error")
  /\ graph' = [graph EXCEPT !.node = "answer_agent"]
  /\ UNCHANGED <<persona, reply>>

PlannerRetrieves ==
  /\ At("retrieval_planner") /\ graph.refs # {}
  /\ \E index \in SUBSET Chunks : \E hits \in Hits(index, Priorities, DefaultK) :
       IF hits = {} /\ MaxIterations > 1
       THEN /\ graph' = [graph EXCEPT !.node = "replan"]
            /\ UNCHANGED <<runs, errors>>
       ELSE /\ Found(index, hits, hits = {})
            /\ Completes("retrieval_planner")
  /\ UNCHANGED <<persona, reply>>

(* The second plan: none when the LLM fails or its answer is of no use;      *)
(* otherwise whatever types it names, and one more search.                   *)
PlannerGivesUp ==
  /\ At("replan")
  /\ Planned({}, TRUE)
  /\ \/ FallsBack("retrieval_planner", "timeout")
     \/ Completes("retrieval_planner")
  /\ UNCHANGED <<persona, reply>>

PlannerRetrievesAgain ==
  /\ At("replan")
  /\ \E index \in SUBSET Chunks, types \in SUBSET ChunkTypes, k \in {DefaultK, ReplanK} :
       \E hits \in Hits(index, types, k) : Found(index, hits, TRUE)
  /\ Completes("retrieval_planner")
  /\ UNCHANGED <<persona, reply>>

-----------------------------------------------------------------------------
(* answer_agent *)

AnswerPayloads ==
  [cites : SUBSET graph.evidence, confidence : Confidences, noted : BOOLEAN,
   insufficient : BOOLEAN]

\* Mutant: a draft does not say which repair it is.
Drafted_ForgetsIteration(a) ==
  [cites |-> a.cites, confidence |-> a.confidence, noted |-> a.noted,
   insufficient |-> a.insufficient, iteration |-> 0, exists |-> TRUE]

Drafted(a) ==
  [cites |-> a.cites, confidence |-> a.confidence, noted |-> a.noted,
   insufficient |-> a.insufficient, iteration |-> graph.repair, exists |-> TRUE]

ToCritic(draft) ==
  graph' = [graph EXCEPT !.draft = draft, !.repair = 0, !.node = "citation_critic"]

AnswerWithoutEvidence ==
  /\ At("answer_agent") /\ graph.evidence = {}
  /\ ToCritic(Drafted([cites |-> {}, confidence |-> 0, noted |-> TRUE, insufficient |-> TRUE]))
  /\ FallsBack("answer_agent", "fallback")
  /\ UNCHANGED <<persona, reply>>

\* Mutant: the error of the call is logged and not returned.
AnswerFails_Silently ==
  /\ At("answer_agent") /\ graph.evidence # {}
  /\ graph' = [graph EXCEPT !.repair = 0, !.node = "end"]
  /\ runs' = runs \cup {Run("answer_agent", "failed", "error")} /\ UNCHANGED errors
  /\ UNCHANGED <<persona, reply>>

(* The call fails, the payload is of no use, or it cites a chunk that is not *)
(* in the evidence; answer_draft keeps what it was.                          *)
AnswerFails ==
  /\ At("answer_agent") /\ graph.evidence # {}
  /\ ToCritic(graph.draft)
  /\ \E reason \in CallFailures : Fails("answer_agent", reason)
  /\ UNCHANGED <<persona, reply>>

AnswerDrafts ==
  /\ At("answer_agent") /\ graph.evidence # {}
  /\ \E a \in AnswerPayloads : ToCritic(Drafted(a))
  /\ Completes("answer_agent")
  /\ UNCHANGED <<persona, reply>>

-----------------------------------------------------------------------------
(* citation_critic, services/repair.py *)

(* issues: unsupported claims, missing evidence or contradictions. *)
Reviews == [issues : BOOLEAN, needs : BOOLEAN, instructed : BOOLEAN]

(* normalize_repair_decision and should_trigger_repair: issues always count, *)
(* a flag with neither issues nor instructions does not.                     *)
NeedsRepair(review) == review.issues \/ (review.needs /\ review.instructed)

\* Mutant: one repair more than the limit.
Exhausted_OneMore(draft) == draft.iteration > MaxRepairIterations

(* is_repair_exhausted *)
Exhausted(draft) == draft.iteration >= MaxRepairIterations

(* _downgrade_answer *)
Downgraded(draft) ==
  [draft EXCEPT !.confidence = IF @ < 3 THEN @ ELSE 3, !.noted = TRUE]

(* The runs of the critic bear the iteration of the draft. *)
CriticRun(status, reason) ==
  runs' = runs \cup {[agent |-> "citation_critic", iteration |-> graph.draft.iteration,
                      status |-> status, reason |-> reason]}

(* An error of the critic leaves the draft, if there is one, as it is. *)
CriticFails ==
  /\ At("citation_critic") /\ (graph.draft.exists => ~graph.draft.insufficient)
  /\ \E reason \in CallFailures : CriticRun("failed", reason)
  /\ errors' = errors \cup {[agent |-> "citation_critic", iteration |-> graph.draft.iteration]}
  /\ graph' = [graph EXCEPT !.repair = 0, !.node = "end"]
  /\ UNCHANGED <<persona, reply>>

Reviewed(review) ==
  [of |-> graph.draft.iteration, issues |-> review, exists |-> TRUE]

CriticSkips ==
  /\ At("citation_critic") /\ graph.draft.exists /\ graph.draft.insufficient
  /\ graph' = [graph EXCEPT !.review = Reviewed(FALSE), !.repair = 0, !.node = "end"]
  /\ CriticRun("completed", "skipped")
  /\ UNCHANGED <<persona, errors, reply>>

CriticApproves ==
  /\ At("citation_critic") /\ graph.draft.exists /\ ~graph.draft.insufficient
  /\ \E review \in Reviews :
       /\ ~NeedsRepair(review)
       /\ graph' = [graph EXCEPT !.review = Reviewed(review.issues), !.repair = 0, !.node = "end"]
  /\ CriticRun("completed", "success")
  /\ UNCHANGED <<persona, errors, reply>>

CriticDowngrades ==
  /\ At("citation_critic") /\ graph.draft.exists /\ ~graph.draft.insufficient
  /\ Exhausted(graph.draft)
  /\ \E review \in Reviews :
       /\ NeedsRepair(review)
       /\ graph' = [graph EXCEPT !.review = Reviewed(review.issues), !.repair = 0, !.node = "end",
                                 !.draft = Downgraded(graph.draft)]
  /\ CriticRun("fallback_used", "fallback")
  /\ UNCHANGED <<persona, errors, reply>>

(* A repair: the draft is gone, and answer_agent runs again. *)
CriticRepairs ==
  /\ At("citation_critic") /\ graph.draft.exists /\ ~graph.draft.insufficient
  /\ ~Exhausted(graph.draft)
  /\ \E review \in Reviews :
       /\ NeedsRepair(review)
       /\ graph' = [graph EXCEPT !.review = Reviewed(review.issues), !.draft = NoDraft,
                                 !.repair = graph.draft.iteration + 1, !.node = "answer_agent"]
  /\ CriticRun("completed", "success")
  /\ UNCHANGED <<persona, errors, reply>>

-----------------------------------------------------------------------------
(* ChatHandler._invoke_conversation *)

(* _normalize_conversation_result: the first that applies. *)
ReplyKind ==
  CASE graph.draft.exists -> "answer"
    [] ~graph.draft.exists /\ graph.wants # "nothing" -> graph.wants
    [] ~graph.draft.exists /\ graph.wants = "nothing" /\ graph.question -> "clarification"
    [] ~graph.draft.exists /\ graph.wants = "nothing" /\ ~graph.question /\ errors # {} -> "error"
    [] OTHER -> "unsure"

Ask ==
  /\ At("idle")
  /\ graph' = Fresh
  /\ runs' = {} /\ errors' = {} /\ reply' = NoReply
  /\ UNCHANGED persona

Reply ==
  /\ At("end")
  /\ reply' = [kind |-> ReplyKind, result |-> graph]
  /\ graph' = [Fresh EXCEPT !.node = "idle"]
  /\ UNCHANGED <<persona, runs, errors>>

(* An exception of the embedding provider, of Qdrant or of the database that *)
(* saves the runs: the handler answers that the request failed, and what the *)
(* graph had is lost.                                                        *)
Raise ==
  /\ graph.node \notin {"idle", "end"}
  /\ reply' = [NoReply EXCEPT !.kind = "failed"]
  /\ graph' = [Fresh EXCEPT !.node = "idle"]
  /\ runs' = {} /\ errors' = {}
  /\ UNCHANGED persona

Turn ==
  \/ RouterFails \/ RouterFallsBack \/ RouterResolves \/ Respond
  \/ PlannerRefuses \/ PlannerRetrieves \/ PlannerGivesUp \/ PlannerRetrievesAgain
  \/ AnswerWithoutEvidence \/ AnswerFails \/ AnswerDrafts
  \/ CriticFails \/ CriticSkips \/ CriticApproves \/ CriticDowngrades \/ CriticRepairs
  \/ Reply

ConversationNext == Turn \/ Ask \/ Raise

-----------------------------------------------------------------------------
(* Properties *)

(* answer_agent, _normalize_resolution (docs/ARCHITECTURE.md:120, "grounded  *)
(* in retrieved evidence"): an answer cites only chunks the planner          *)
(* retrieved for it; those were in the index of this session when it         *)
(* searched, and of papers the question names and that were active when it   *)
(* was understood, whatever ids the LLM names and however often it repairs.  *)
(* When the answer is given its chunks may be another session's and its      *)
(* papers no longer active.                                                  *)
AnswerIsGrounded ==
  LET result == reply.result IN
  reply.kind = "answer" =>
    /\ result.draft.cites \subseteq result.evidence
    /\ result.evidence \subseteq result.found
    /\ \A c \in result.evidence : c.paper \in result.refs \cap result.known

(* citation_critic: an answer the critic has found an issue with is never    *)
(* returned as it was; and an answer that claims to be supported was         *)
(* reviewed as it is, or the result tells of the failed review.              *)
AnswerIsVouchedFor ==
  LET draft == reply.result.draft
      review == reply.result.review
  IN
  reply.kind = "answer" /\ ~draft.insufficient =>
    \/ [agent |-> "citation_critic", iteration |-> draft.iteration] \in errors
    \/ /\ review.exists /\ review.of = draft.iteration
       /\ review.issues => draft.noted /\ draft.confidence <= 3

(* AgentRun and StructuredError (docs/AGENT_CONTRACT.md, "Failed runs are    *)
(* part of the audit trail"): a run failed exactly if the result has its     *)
(* error.                                                                    *)
ErrorsMatchRuns ==
  errors = {[agent |-> r.agent, iteration |-> r.iteration] : r \in {q \in runs : q.status = "failed"}}

(* _normalize_conversation_result: no path through the graph ends without    *)
(* an answer, a question, a request or an error to tell the user.            *)
ReplyIsExplained == reply.kind # "unsure"

(* services/repair.py: no answer is the product of more repairs than         *)
(* MAX_REPAIR_ITERATIONS, and no agent runs in an iteration beyond them.     *)
RepairIsBounded ==
  /\ graph.repair <= MaxRepairIterations
  /\ \A r \in runs : r.iteration <= MaxRepairIterations
  /\ reply.result.draft.iteration <= MaxRepairIterations

(* docs/AGENT_CONTRACT.md:155, "bounded ... repair loop": every turn ends.   *)
TurnEnds == graph.node \notin {"idle", "rest"} ~> graph.node = "idle"

(* What a turn answers rests on evidence of the session and on a review of   *)
(* just that answer, after no more repairs than allowed.                     *)
AnswerIsTrustworthy == AnswerIsGrounded /\ AnswerIsVouchedFor /\ RepairIsBounded

(* What goes wrong in a turn is told: in its errors and in its reply.        *)
TroubleIsTold == ErrorsMatchRuns /\ ReplyIsExplained

-----------------------------------------------------------------------------
(* Claims of the documentation that the code does not keep *)

(* docs/AGENT_CONTRACT.md:76, "`max_iter`: bounded loop stopped by iteration *)
(* limit": the run of the critic that ends the repair loop says so.          *)
LimitIsRecorded ==
  \A r \in runs : r.agent = "citation_critic" /\ r.status = "fallback_used" => r.reason = "max_iter"

=============================================================================
