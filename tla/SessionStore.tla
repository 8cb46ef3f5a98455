----------------------------- MODULE SessionStore -----------------------------
(* The tables of one session as its requests see them.  Every operator that  *)
(* primes a variable is one call of a repository, which is one transaction:  *)
(* the calls of two requests interleave freely, and no row is locked or      *)
(* versioned between two calls.                                              *)
(*                                                                           *)
(* A candidate's id is <<listing, display rank>>.  What a workspace holds is *)
(* one of a few contents: "own" for an analysis of this session, "other" for *)
(* a finished one of another session, and "partial" for one there that lacks *)
(* a part the cache asks for (a report, the method, the readiness, the       *)
(* benchmark pool) or has failed.                                            *)
(*                                                                           *)
(* The chunks an analysis makes are named <paper>:chunk:<n>, whatever the    *)
(* session: the rows and the points under these names are of the session     *)
(* that wrote them last.  Chunks copied from the cache have names of their   *)
(* own.                                                                      *)
EXTENDS Naturals, Sequences, FiniteSets

CONSTANT Papers

VARIABLES
  session,       \* the row of sessions: phase, active papers, selected candidates
  listings,      \* search_candidates: one sequence of rows per discovery turn
  workspaces,    \* paper_workspaces of this session: content by paper
  rows,          \* paper_chunks <paper>:chunk:<n>: the session they belong to
  points,        \* the points in Qdrant of the same names: likewise
  clones,        \* papers whose chunk rows were copied for this session
  clonePoints,   \* papers with points for those copies
  comparisons,   \* comparison_artifacts: the sets of papers compared
  source,        \* the workspace of each paper in another session
  embedding      \* papers whose rows it has written and whose points are to follow

index == <<rows, points, clones, clonePoints>>
elsewhere == <<source, embedding>>
store == <<session, listings, workspaces, index, comparisons, elsewhere>>

Phases == {"idle", "selection", "qa", "failed"}
Statuses == {"proposed", "selected", "analyzed"}
Rows == [paper : Papers, status : Statuses]
Contents == {"none", "own", "other", "partial"}
Holders == {"none", "here", "there"}
Ids == (Nat \ {0}) \X (Nat \ {0})

InitStore(cached) ==
  /\ session = [phase |-> "idle", active |-> {}, selected |-> {}]
  /\ listings = <<>>
  /\ workspaces = [p \in Papers |-> "none"]
  /\ clones = {} /\ clonePoints = {} /\ comparisons = {} /\ embedding = {}
  /\ source \in {f \in [Papers -> {"none", "other"}] : \A p \in Papers \ cached : f[p] = "none"}
  /\ rows \in {f \in [Papers -> {"none", "there"}] : \A p \in Papers : f[p] = "there" => source[p] # "none"}
  /\ points = rows

-----------------------------------------------------------------------------
(* PostgresSessionStore *)

UpdatePhase(p) == session' = [session EXCEPT !.phase = p]

(* add_active_paper writes the list it has read, plus the paper. *)
AddActivePaper(read, p) == session' = [session EXCEPT !.active = read \cup {p}]

SetSelectedCandidateIds(ids) == session' = [session EXCEPT !.selected = ids]

-----------------------------------------------------------------------------
(* PostgresSearchCandidateRepository *)

Latest == Len(listings)

Row(id) == listings[id[1]][id[2]]

(* upsert_many: nothing found writes nothing. *)
UpsertCandidates(found) ==
  listings' = IF found = <<>> THEN listings
              ELSE Append(listings, [k \in DOMAIN found |->
                                       [paper |-> found[k], status |-> "proposed"]])

(* list_latest_for_session: the rows of the newest turn that has rows. *)
LatestRanks == IF listings = <<>> THEN {} ELSE DOMAIN listings[Latest]

UpdateStatus(id, s) == listings' = [listings EXCEPT ![id[1]][id[2]].status = s]

-----------------------------------------------------------------------------
(* PostgresPaperChunkRepository, RetrievalLayer *)

UpsertChunks(p) == rows' = [rows EXCEPT ![p] = "here"]
UpsertPoints(p) == points' = [points EXCEPT ![p] = "here"]

(* clone_for_session finds the rows that the other session still has. *)
SourceChunks == {p \in Papers : rows[p] = "there"}
CloneChunks(p) == clones' = clones \cup {p}
ClonePoints(p) == clonePoints' = clonePoints \cup {p}

Stored == {p \in Papers : rows[p] = "here"} \cup clones

(* search_chunks: the points of a paper that carry this session's id *)
Searchable == {p \in Papers : points[p] = "here"} \cup clonePoints

-----------------------------------------------------------------------------
(* PostgresPaperWorkspaceRepository *)

UpsertWorkspace(p, content) == workspaces' = [workspaces EXCEPT ![p] = content]

SaveComparison(ids) == comparisons' = comparisons \cup {ids}

ReadyForCache(content) == content = "other"

(* find_reusable_workspace, which asks only other sessions *)
Reusable(p) == ReadyForCache(source[p])

CacheCompatible(p) == workspaces[p] = source[p] /\ ReadyForCache(source[p])

(* The other session analyses the paper too: its chunk rows, the points of   *)
(* the same names unless that fails, and at some time its workspace.         *)
IndexedElsewhere(p) == rows' = [rows EXCEPT ![p] = "there"] /\ embedding' = embedding \cup {p}

EmbeddedElsewhere(p) ==
  /\ p \in embedding /\ embedding' = embedding \ {p}
  /\ points' \in {points, [points EXCEPT ![p] = "there"]}

AnalyzedElsewhere(p) ==
  \E content \in {"other", "partial"} \ {source[p]} : source' = [source EXCEPT ![p] = content]

StoreTypeOK ==
  /\ session \in [phase : Phases, active : SUBSET Papers, selected : SUBSET Ids]
  /\ listings \in Seq(Seq(Rows))
  /\ workspaces \in [Papers -> Contents]
  /\ rows \in [Papers -> Holders] /\ points \in [Papers -> Holders]
  /\ clones \subseteq Papers /\ clonePoints \subseteq clones
  /\ comparisons \subseteq SUBSET Papers
  /\ source \in [Papers -> Contents] /\ embedding \subseteq Papers
=============================================================================
