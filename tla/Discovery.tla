------------------------------ MODULE Discovery -------------------------------
(* The discovery graph of graph_discovery.py: research_strategist, searcher  *)
(* with the arXiv search provider, selection_advisor and finalize_discovery. *)
(* A word is a number, ordered like the alphabet; a text is a sequence of    *)
(* words.  A query also has a spelling, which casefold() removes.  Scores    *)
(* are in hundredths.                                                        *)
EXTENDS Integers, Sequences, FiniteSets, SequencesExt, Functions, Loops

CONSTANTS
  Topic,           \* the text of the user
  QueryItems,      \* what the LLM may put in its list of queries
  PlanLength,      \* the longest list of queries it gives
  Entries,         \* what arXiv may answer: records, or NoEntry
  NoEntry,         \* an entry without id or title
  MaxQueries,      \* MAX_QUERIES
  DefaultResults,  \* DEFAULT_MAX_RESULTS
  MaxResults,      \* MAX_RESULTS_PER_QUERY
  NotANumber,      \* a max_results that int() rejects
  CandidateLimit,  \* DEFAULT_CANDIDATE_LIMIT
  ShortlistLimit   \* FALLBACK_RECOMMENDATION_LIMIT

WordTexts == Seq(Int)

ASSUME DiscoveryAssumption ==
  /\ MaxQueries \in Nat \ {0} /\ CandidateLimit \in Nat \ {0} /\ ShortlistLimit \in Nat \ {0}
  /\ MaxResults \in Nat \ {0} /\ DefaultResults \in 1..MaxResults
  /\ Topic \in WordTexts /\ Topic # <<>> /\ PlanLength \in Nat
  /\ QueryItems \subseteq [words : WordTexts, spelling : Int, limit : Int \cup {NotANumber}]
  /\ NoEntry \in Entries
  /\ Entries \ {NoEntry} \subseteq [id : Int, version : Int, title : WordTexts, abstract : WordTexts, age : Int]

VARIABLE discovery   \* the DiscoveryState: node, plan, raw, candidates, ...

NoPlan == <<>>

NewDiscovery ==
  [node |-> "research_strategist", plan |-> NoPlan, asked |-> 0, raw |-> <<>>, warnings |-> 0,
   candidates |-> <<>>, recommended |-> <<>>, advised |-> FALSE, runs |-> {}]

DiscoveryInit == discovery = NewDiscovery

DiscoveryAt(node) == discovery.node = node

-----------------------------------------------------------------------------
(* research_strategist *)

(* int() fails or gives a number, which is brought into 1..MaxResults. *)
CoerceMaxResults(value) ==
  IF value = NotANumber THEN DefaultResults
  ELSE IF value < 1 THEN 1 ELSE IF value > MaxResults THEN MaxResults ELSE value

Query(item) == [words |-> item.words, spelling |-> item.spelling,
                limit |-> CoerceMaxResults(item.limit)]

(* query.query.casefold() *)
SameQuery(q, r) == q.words = r.words

Queries == [words : WordTexts, spelling : Int, limit : 1..MaxResults]

(* Blank queries are skipped; of queries with one key the first stays; the   *)
(* list is cut at MaxQueries.                                                *)
NormalizePlan(items) ==
  LET takes == {x \in Seq(Queries) \X Queries :
                  /\ x[2].words # <<>> /\ Len(x[1]) < MaxQueries
                  /\ \A i \in DOMAIN x[1] : ~SameQuery(x[1][i], x[2])}
  IN Gathered([i \in DOMAIN items |-> Query(items[i])], takes)

FallbackPlan == <<[words |-> Topic, spelling |-> 0, limit |-> DefaultResults]>>

Strategize ==
  /\ DiscoveryAt("research_strategist")
  /\ \E items \in BoundedSeq(QueryItems, PlanLength) :
       LET plan == NormalizePlan(items) IN
       /\ plan # NoPlan
       /\ discovery' = [discovery EXCEPT !.node = "searcher", !.plan = plan,
                          !.runs = @ \cup {<<"research_strategist", "completed">>}]

(* The LLM fails, its answer cannot be parsed, or no valid query is in it. *)
StrategizeFallsBack ==
  /\ DiscoveryAt("research_strategist")
  /\ \E reason \in {"fallback", "timeout"} :
       discovery' = [discovery EXCEPT !.node = "searcher", !.plan = FallbackPlan,
                       !.runs = @ \cup {<<"research_strategist", reason>>}]

-----------------------------------------------------------------------------
(* searcher: one request per query, each with its retries, then the ranking *)

\* Mutant: the version stays in the id and in the url.
ParseEntry_KeepsVersion(e) ==
  [id |-> <<e.id, e.version>>, title |-> e.title, abstract |-> e.abstract, age |-> e.age]

(* normalize_arxiv_id cuts the version off; the url is made from the id. *)
ParseEntry(e) == [id |-> <<e.id>>, title |-> e.title, abstract |-> e.abstract, age |-> e.age]

(* parse_arxiv_feed *)
ParseFeed(feed) ==
  LET kept == Gathered(feed, {x \in Seq(Entries) \X Entries : x[2] # NoEntry})
  IN [i \in DOMAIN kept |-> ParseEntry(kept[i])]

NextQuery == discovery.plan[discovery.asked + 1]

SearchAnswers ==
  /\ DiscoveryAt("searcher") /\ discovery.asked < Len(discovery.plan)
  /\ \E n \in 0..NextQuery.limit : \E feed \in [1..n -> Entries] :
       /\ \A i, j \in 1..n : feed[i] = feed[j] => i = j
       /\ discovery' = [discovery EXCEPT !.asked = @ + 1, !.raw = @ \o ParseFeed(feed)]

SearchFails ==
  /\ DiscoveryAt("searcher") /\ discovery.asked < Len(discovery.plan)
  /\ discovery' = [discovery EXCEPT !.asked = @ + 1, !.warnings = @ + 1]

(* _dedup_keys: the id, the url made from it, and the title. *)
DedupKeys(r) == {<<"arxiv_id", r.id>>, <<"url", r.id>>, <<"title", r.title>>}

Results == [id : Seq(Int), title : WordTexts, abstract : WordTexts, age : Int]

(* The first result with a key stays; only the keys of those that stay count. *)
Dedup(results) ==
  Gathered(results, {x \in Seq(Results) \X Results :
                       \A i \in DOMAIN x[1] : DedupKeys(x[1][i]) \cap DedupKeys(x[2]) = {}})

Words(text) == {text[i] : i \in DOMAIN text}

Terms(plan) == UNION {Words(plan[i].words) : i \in DOMAIN plan}

HasPhrase(text, phrase) ==
  \E i \in 1..(Len(text) - Len(phrase) + 1) : SubSeq(text, i, i + Len(phrase) - 1) = phrase

(* The first query that occurs as a phrase decides. *)
PhraseScore(r, plan) ==
  LET found == {i \in DOMAIN plan : \/ HasPhrase(r.title, plan[i].words)
                                    \/ HasPhrase(r.abstract, plan[i].words)}
      first == CHOOSE i \in found : \A j \in found : i <= j
  IN IF found = {} THEN 0 ELSE IF HasPhrase(r.title, plan[first].words) THEN 300 ELSE 150

(* _score_result: a term counts in the title or else in the abstract. *)
Score(r, plan) ==
  LET inTitle == Terms(plan) \cap Words(r.title)
      inAbstract == (Terms(plan) \ inTitle) \cap Words(r.abstract)
      recency == IF r.age < 10 THEN 5 * (10 - r.age) ELSE 0
  IN PhraseScore(r, plan) + 400 * Cardinality(inTitle) + 150 * Cardinality(inAbstract)
       + recency + 100

\* In the order of the alphabet: the first word that differs decides, and a
\* title comes before those that it begins.
TitleBefore(s, t) ==
  \E i \in DOMAIN t :
    /\ i <= Len(s) + 1 /\ \A j \in 1..(i - 1) : s[j] = t[j]
    /\ i <= Len(s) => s[i] < t[i]

RankedBefore(r, s, plan) ==
  \/ Score(r, plan) > Score(s, plan)
  \/ Score(r, plan) = Score(s, plan) /\ TitleBefore(r.title, s.title)

(* Best score first, then by title, cut at CandidateLimit; the position is   *)
(* the display_rank.                                                         *)
Rank(results, plan) ==
  LET all == DOMAIN results
      order == CHOOSE p \in [all -> all] :
                 \A i, j \in all : i < j => RankedBefore(results[p[i]], results[p[j]], plan)
  IN [i \in 1..(IF Len(results) < CandidateLimit THEN Len(results) ELSE CandidateLimit) |-> results[order[i]]]

RankResults ==
  /\ DiscoveryAt("searcher") /\ discovery.asked = Len(discovery.plan)
  /\ discovery' = [discovery EXCEPT !.node = "selection_advisor",
                     !.candidates = Rank(Dedup(discovery.raw), discovery.plan)]

-----------------------------------------------------------------------------
(* selection_advisor *)

Ranks == DOMAIN discovery.candidates
UnknownId == 0   \* an id that is no candidate's, or no string

(* Only candidates, each once, in the order of the LLM.  The candidate of    *)
(* rank k has the id k.                                                      *)
NormalizeRecommendations(ids) ==
  Gathered(ids, {x \in Seq(Ranks) \X Ranks : x[2] \notin Range(x[1])})

FallbackRecommended ==
  [i \in 1..(IF Len(discovery.candidates) < ShortlistLimit THEN Len(discovery.candidates)
             ELSE ShortlistLimit) |-> i]

Advised(ids, status) ==
  discovery' = [discovery EXCEPT !.node = "finalize_discovery", !.recommended = ids,
                  !.advised = TRUE, !.runs = @ \cup {<<"selection_advisor", status>>}]

Advise ==
  /\ DiscoveryAt("selection_advisor") /\ discovery.candidates # <<>>
  /\ \E ids \in BoundedSeq(Ranks \cup {UnknownId}, 2) :
       LET valid == NormalizeRecommendations(ids) IN
       Advised(IF valid = <<>> THEN FallbackRecommended ELSE valid, "completed")

(* There is no candidate, the LLM fails, or its answer has no text. *)
AdviseFallsBack ==
  /\ DiscoveryAt("selection_advisor")
  /\ \E reason \in {"fallback", "timeout"} :
       /\ discovery.candidates = <<>> => reason = "fallback"
       /\ Advised(FallbackRecommended, reason)

FinalizeDiscovery ==
  /\ DiscoveryAt("finalize_discovery")
  /\ discovery' = [discovery EXCEPT !.node = "end"]

DiscoveryNext ==
  \/ Strategize \/ StrategizeFallsBack
  \/ SearchAnswers \/ SearchFails \/ RankResults
  \/ Advise \/ AdviseFallsBack \/ FinalizeDiscovery

-----------------------------------------------------------------------------
(* Properties *)

Proposed == discovery.node \in {"selection_advisor", "finalize_discovery", "end"}

(* research_strategist: the plan that is searched has between one and        *)
(* MAX_QUERIES queries, all of them different whatever their spelling, and   *)
(* each asks for 1 to MAX_RESULTS_PER_QUERY results.                         *)
PlanIsSearchable ==
  discovery.node = "searcher" \/ Proposed =>
    /\ Len(discovery.plan) \in 1..MaxQueries
    /\ \A i, j \in DOMAIN discovery.plan :
         discovery.plan[i].words = discovery.plan[j].words => i = j
    /\ \A i \in DOMAIN discovery.plan : discovery.plan[i].limit \in 1..MaxResults

(* Searcher.search: a paper that several queries found, in whatever version, *)
(* is proposed once.                                                         *)
NoPaperTwice ==
  \A i, j \in Ranks : i # j =>
    /\ discovery.candidates[i].id[1] # discovery.candidates[j].id[1]
    /\ discovery.candidates[i].title # discovery.candidates[j].title

(* Searcher.search (docs/ARCHITECTURE.md:185): no result gets lost.  What is *)
(* not proposed is a duplicate of a result that was kept; and if that one is *)
(* not proposed either, the list is full of better ones.                     *)
NothingBetterIsLost ==
  Proposed =>
    \A i \in DOMAIN discovery.raw :
      \/ \E c \in Ranks : DedupKeys(discovery.raw[i]) \cap DedupKeys(discovery.candidates[c]) # {}
      \/ /\ Len(discovery.candidates) = CandidateLimit
         /\ \E j \in DOMAIN discovery.raw :
              /\ DedupKeys(discovery.raw[i]) \cap DedupKeys(discovery.raw[j]) # {}
              /\ \A c \in Ranks : Score(discovery.candidates[c], discovery.plan)
                                    >= Score(discovery.raw[j], discovery.plan)

(* selection_advisor: the user is pointed at a paper whenever there is one,  *)
(* and only at papers of the list, each once.                                *)
ShortlistIsReal ==
  discovery.advised =>
    /\ discovery.recommended = <<>> <=> discovery.candidates = <<>>
    /\ \A i \in DOMAIN discovery.recommended : discovery.recommended[i] \in Ranks
    /\ \A i, j \in DOMAIN discovery.recommended :
         discovery.recommended[i] = discovery.recommended[j] => i = j

(* From the plan to the shortlist: what is searched for was asked for, every *)
(* paper is offered once, none is dropped for a worse one, and what is       *)
(* recommended can be selected.                                              *)
DiscoveryIsSound == PlanIsSearchable /\ NoPaperTwice /\ NothingBetterIsLost /\ ShortlistIsReal
=============================================================================
