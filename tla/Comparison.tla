------------------------------ MODULE Comparison ------------------------------
(* The comparison of papers: comparator_agent at the end of a batch analysis *)
(* and compare_workspaces on request.  Both build the same benchmark matrix, *)
(* ask the LLM for claims and keep of the claims what the papers allow.      *)
(* Papers are counted from 0 as in the code; a value is an integer, and a    *)
(* name stands for its spelling until Canonical maps it to one.              *)
EXTENDS Integers, Sequences, FiniteSets, SequencesExt, FiniteSetsExt, Functions, Loops

CONSTANTS
  PaperSlots,          \* slots [completed, maturity, benchmarks]
  MostPapers,          \* the largest batch
  Canonical,           \* name -> normalized name: *_ALIASES
  NoName,              \* a unit or condition that is not given
  LowerIsBetter,       \* normalized metrics with a LOWER_IS_BETTER hint
  Constraints,         \* constraints the LLM recommends papers for
  ClaimedPapers,       \* indexes it names, of papers or not
  MaxRecommendations   \* MAX_RECOMMENDATIONS

Names == DOMAIN Canonical
Benchmarks == [task : Names, metric : Names, value : Int, unit : Names, condition : Names]
Slots == [completed : BOOLEAN, maturity : Int, benchmarks : Seq(Benchmarks)]

ASSUME ComparisonAssumption ==
  /\ MostPapers \in Nat \ {0} /\ MaxRecommendations \in Nat \ {0}
  /\ PaperSlots \subseteq Slots /\ ClaimedPapers \subseteq Nat /\ Constraints \subseteq Names
  /\ NoName \in Names /\ \A name \in Names : Canonical[name] = NoName <=> name = NoName

VARIABLE comparison   \* node, producer, papers (a sequence of slots), matrix, report

Producers == {"batch_comparator", "comparison_analyst"}
Bases == {"readiness_dominant", "benchmark_dominant", "mixed", "no_clear_winner"}
NoPaper == -1    \* None
NoMatrix == <<>>
NoReport == [made |-> FALSE]

ComparisonOf(producer, papers) ==
  [node |-> "start", producer |-> producer, papers |-> papers, matrix |-> NoMatrix,
   report |-> NoReport]

ComparisonInit ==
  \E producer \in Producers, n \in 1..MostPapers : \E papers \in [1..n -> PaperSlots] :
    comparison = ComparisonOf(producer, papers)

Indexes(papers) == 0..(Len(papers) - 1)
Slot(papers, p) == papers[p + 1]

-----------------------------------------------------------------------------
(* The matrix *)

(* _comparison_key *)
RowKey(b) == <<Canonical[b.task], Canonical[b.metric]>>

Keys(papers) ==
  UNION {{RowKey(Slot(papers, p).benchmarks[i]) : i \in DOMAIN Slot(papers, p).benchmarks} :
           p \in Indexes(papers)}

(* What paper p reports for a task and metric, in the order of the paper. *)
Variants(papers, p, key) ==
  Gathered(Slot(papers, p).benchmarks, {x \in Seq(Benchmarks) \X Benchmarks : RowKey(x[2]) = key})

Better(x, y, metric) == IF metric \in LowerIsBetter THEN x < y ELSE x > y

(* _select_representative_benchmark: the only one; the first of several with *)
(* different conditions; else the first with the best value.                 *)
Representative(variants, metric) ==
  LET conditions == {Canonical[variants[i].condition] : i \in DOMAIN variants}
      best == {i \in DOMAIN variants :
                 \A j \in DOMAIN variants : ~Better(variants[j].value, variants[i].value, metric)}
  IN IF Cardinality(conditions) > 1 THEN variants[1] ELSE variants[Min(best)]

Reporters(papers, key) == {p \in Indexes(papers) : Variants(papers, p, key) # <<>>}

Shown(papers, key) ==
  [p \in Reporters(papers, key) |-> Representative(Variants(papers, p, key), key[2])]

(* A row is comparable when no paper has several variants and the conditions *)
(* and units that are given agree.                                           *)
Comparable(papers, key) ==
  LET shown == Shown(papers, key) IN
  /\ \A p \in Reporters(papers, key) : Len(Variants(papers, p, key)) = 1
  /\ Cardinality({Canonical[shown[p].condition] : p \in DOMAIN shown} \ {NoName}) <= 1
  /\ Cardinality({Canonical[shown[p].unit] : p \in DOMAIN shown} \ {NoName}) <= 1

\* Mutant: of equal values the first one wins.
RowWinner_FirstOfEquals(papers, key) ==
  LET shown == Shown(papers, key)
      best == {p \in DOMAIN shown :
                 \A q \in DOMAIN shown : ~Better(shown[q].value, shown[p].value, key[2])}
  IN IF Comparable(papers, key) /\ Cardinality(DOMAIN shown) >= 2 THEN Min(best) ELSE NoPaper

(* _winner_for_values: the best of at least two values, unless another paper *)
(* has the same.                                                             *)
RowWinner(papers, key) ==
  LET shown == Shown(papers, key)
      best == {p \in DOMAIN shown :
                 \A q \in DOMAIN shown : ~Better(shown[q].value, shown[p].value, key[2])}
  IN IF Comparable(papers, key) /\ Cardinality(DOMAIN shown) >= 2 /\ Cardinality(best) = 1
     THEN CHOOSE p \in best : TRUE
     ELSE NoPaper

(* _build_comparison_matrix *)
Matrix(papers) ==
  [key \in Keys(papers) |->
     [shown |-> Shown(papers, key), comparable |-> Comparable(papers, key),
      winner |-> RowWinner(papers, key)]]

(* _build_matrix_stats *)
Wins(matrix, p) == Cardinality({key \in DOMAIN matrix : matrix[key].winner = p})

RowsWithWinner(matrix) == Cardinality({key \in DOMAIN matrix : matrix[key].winner # NoPaper})

Present(matrix, task) == UNION {DOMAIN matrix[key].shown : key \in {k \in DOMAIN matrix : k[1] = task}}

(* _build_unique_tasks_per_paper, _build_unique_rows_per_paper *)
UniqueTasks(matrix, p) == {task \in {key[1] : key \in DOMAIN matrix} : Present(matrix, task) = {p}}

UniqueRows(matrix, p) == {key \in DOMAIN matrix : DOMAIN matrix[key].shown = {p}}

-----------------------------------------------------------------------------
(* What is kept of the claims *)

(* Completed papers if there are any, else all of them. *)
Eligible(papers) ==
  LET completed == {p \in Indexes(papers) : Slot(papers, p).completed}
  IN IF completed = {} THEN Indexes(papers) ELSE completed

RecommendationClaims == [constraint : Constraints, paper : ClaimedPapers, reasoned : BOOLEAN]

(* _normalize_recommendations: eligible papers, with a reason, the first for *)
(* each constraint.                                                          *)
Recommendations(claimed, papers) ==
  LET takes == {x \in Seq(RecommendationClaims) \X RecommendationClaims :
                  /\ x[2].paper \in Eligible(papers) /\ x[2].reasoned
                  /\ \A i \in DOMAIN x[1] : Canonical[x[1][i].constraint] # Canonical[x[2].constraint]
                  /\ Len(x[1]) < MaxRecommendations}
      taken == Gathered(claimed, takes)
  IN [i \in DOMAIN taken |-> [constraint |-> Canonical[taken[i].constraint], paper |-> taken[i].paper]]

OverallWinner(claimed, papers) == IF claimed \in Eligible(papers) THEN claimed ELSE NoPaper

(* _determine_winner_basis: without a claim, the winner's rows against the   *)
(* other papers' rows and its maturity against theirs.                       *)
WinnerBasis(claimed, winner, papers, matrix) ==
  LET topWins == \A p \in Indexes(papers) : Wins(matrix, p) <= Wins(matrix, winner)
      topMaturity == \A p \in Indexes(papers) :
                       Slot(papers, p).maturity <= Slot(papers, winner).maturity
  IN CASE winner = NoPaper -> "no_clear_winner"
       [] winner # NoPaper /\ claimed \in Bases \ {"no_clear_winner"} -> claimed
       [] winner # NoPaper /\ claimed \notin Bases \ {"no_clear_winner"} ->
            IF Wins(matrix, winner) = 0 \/ ~topWins THEN "readiness_dominant"
            ELSE IF topMaturity THEN "mixed" ELSE "benchmark_dominant"

(* _normalize_comparison_report *)
Report(claims, papers, matrix) ==
  LET winner == OverallWinner(claims.winner, papers)
  IN [made |-> TRUE, winner |-> winner,
      basis |-> WinnerBasis(claims.basis, winner, papers, matrix),
      rowsWithWinner |-> RowsWithWinner(matrix),
      wins |-> [p \in Indexes(papers) |-> Wins(matrix, p)],
      uniqueTasks |-> [p \in Indexes(papers) |-> UniqueTasks(matrix, p)],
      uniqueRows |-> [p \in Indexes(papers) |-> UniqueRows(matrix, p)],
      recommendations |-> Recommendations(claims.recommendations, papers)]

-----------------------------------------------------------------------------
(* comparator_agent and compare_workspaces *)

NoClaims == [winner |-> NoPaper, basis |-> "", recommendations |-> <<>>]

Claims ==
  [winner : {NoPaper} \cup ClaimedPapers, basis : {"", "mixed", "no_clear_winner"},
   recommendations : {<<>>}]
    \cup
  [winner : {NoPaper}, basis : {""}, recommendations : BoundedSeq(RecommendationClaims, 2)]

Concludes(claims) ==
  comparison' = [comparison EXCEPT !.node = "end",
                   !.report = Report(claims, comparison.papers, comparison.matrix)]

(* Fewer than two papers: a warning, or a ValueError on request. *)
CompareNothing ==
  /\ comparison.node = "start" /\ Len(comparison.papers) < 2
  /\ comparison' = [comparison EXCEPT !.node = "end"]

BuildMatrix ==
  /\ comparison.node = "start" /\ Len(comparison.papers) >= 2
  /\ comparison' = [comparison EXCEPT !.node = "claims", !.matrix = Matrix(comparison.papers)]

CompareWithClaims ==
  /\ comparison.node \in {"claims", "repair"}
  /\ \E claims \in Claims : Concludes(claims)

(* The call fails, or its answer is no JSON object and cannot be repaired. *)
CompareWithoutClaims ==
  /\ comparison.node \in {"claims", "repair"}
  /\ Concludes(NoClaims)

(* Only the batch comparator asks once more for well-formed JSON. *)
AskForRepair ==
  /\ comparison.node = "claims" /\ comparison.producer = "batch_comparator"
  /\ comparison' = [comparison EXCEPT !.node = "repair"]

ComparisonNext ==
  \/ CompareNothing \/ BuildMatrix
  \/ CompareWithClaims \/ CompareWithoutClaims \/ AskForRepair

-----------------------------------------------------------------------------
(* Properties *)

\* What the first n papers have together.
Total(wins, n) ==
  LET sum[k \in 0..n] == IF k = 0 THEN 0 ELSE sum[k - 1] + wins[k - 1] IN sum[n]

Agree(x, y) == NoName \in {x, y} \/ Canonical[x] = Canonical[y]

(* _build_comparison_matrix: the winner of a row beats every other paper of  *)
(* the row, and none of them had another number to choose from, or measured  *)
(* under conditions or in units known to differ.                             *)
WinnerIsBest ==
  comparison.node = "claims" =>
    \A key \in DOMAIN comparison.matrix :
      LET row == comparison.matrix[key] IN
      row.winner # NoPaper =>
        /\ row.winner \in DOMAIN row.shown /\ Cardinality(DOMAIN row.shown) >= 2
        /\ \A p \in DOMAIN row.shown :
             /\ p # row.winner => Better(row.shown[row.winner].value, row.shown[p].value, key[2])
             /\ Len(Variants(comparison.papers, p, key)) = 1
             /\ \A q \in DOMAIN row.shown : /\ Agree(row.shown[p].unit, row.shown[q].unit)
                                            /\ Agree(row.shown[p].condition, row.shown[q].condition)

(* _build_comparison_matrix: neither the order of the papers nor the order   *)
(* of the results in a paper decides who wins a row.                         *)
OrderDoesNotDecide ==
  LET n == Len(comparison.papers)
      turned(p) == [Slot(comparison.papers, p) EXCEPT !.benchmarks = Reverse(@)]
      backwards == [i \in 1..n |-> turned(n - i)]
      other(p) == IF p = NoPaper THEN NoPaper ELSE n - 1 - p
  IN comparison.node = "claims" =>
       \A key \in DOMAIN comparison.matrix :
         other(RowWinner(backwards, key)) = comparison.matrix[key].winner

(* _normalize_comparison_report: a paper whose analysis failed neither wins  *)
(* nor is recommended beside one that was completed; and a basis other than  *)
(* no_clear_winner always comes with the winner it explains.  The statistics *)
(* tell of the same matrix: a paper that is alone with a task is alone with  *)
(* each of its rows.                                                         *)
ReportIsConsistent ==
  comparison.report.made =>
    LET report == comparison.report
        named == {report.winner} \cup {report.recommendations[i].paper : i \in DOMAIN report.recommendations}
    IN /\ report.rowsWithWinner = Total(report.wins, Len(comparison.papers))
       /\ \A p \in Indexes(comparison.papers) : \A task \in report.uniqueTasks[p] :
            {key \in DOMAIN comparison.matrix : key[1] = task} \subseteq report.uniqueRows[p]
       /\ report.basis = "no_clear_winner" <=> report.winner = NoPaper
       /\ \A p \in named \ {NoPaper} :
            /\ p \in Indexes(comparison.papers)
            /\ Slot(comparison.papers, p).completed
                 \/ \A q \in Indexes(comparison.papers) : ~Slot(comparison.papers, q).completed

(* The best comparable value wins whatever the order of the papers, and the  *)
(* report says nothing else than its matrix.                                 *)
ComparisonIsFair == WinnerIsBest /\ OrderDoesNotDecide /\ ReportIsConsistent
=============================================================================
