---------------------------- MODULE SessionRequests ----------------------------
(* The requests and jobs of one session, run concurrently by the threads of  *)
(* the REST server, the MCP server and the workers: messages, discovery,     *)
(* selection, analysis of a URL (from the cache or by the graph), analysis   *)
(* of the selected candidates, and comparison.  A request is a chain of      *)
(* calls of SessionStore; what the graphs, the LLM and the providers answer  *)
(* is a choice.  A request that dies is a Crash; a job that is tried again   *)
(* is a new request.                                                         *)
(*                                                                           *)
(* A message is reduced to what routing reads in it: a paper URL, a text     *)
(* that looks like a search for papers, or any other text; and the numbers   *)
(* in it, which is all the selection parser sees.                            *)
EXTENDS SessionStore, Functions

CONSTANTS
  Cached,       \* papers that the other session has or will get
  Requests,     \* threads that serve the session
  Calls,        \* the requests that clients make
  Found,        \* what one search may find: sequences of papers
  MaxCalls,     \* bound: requests accepted in all
  MaxListings,  \* bound: discovery turns with candidates
  None

VARIABLES
  thread,   \* per thread: the call it serves, its next step and its locals
  calls,    \* requests accepted so far
  added,    \* papers ever added to the active papers
  crossed,  \* two additions have overlapped
  taken     \* papers whose points here were overwritten by the other session

ghosts == <<calls, added, crossed, taken>>
vars == <<store, thread, ghosts>>

Ops == {"ask", "discover", "select", "analyze", "analyze_selected", "compare", "synthesize"}
Kinds == {"url", "search", "text"}

CallRecords ==
  [op : Ops, kind : Kinds, paper : Papers \cup {None}, ranks : Seq(Nat), ids : SUBSET Papers]

(* A message with a URL and a request to analyse a paper name it. *)
ASSUME CallsAssumption ==
  /\ None \notin Papers
  /\ Calls \subseteq CallRecords
  /\ \A c \in Calls : c.op = "analyze" \/ c.kind = "url" => c.paper \in Papers

ASSUME PapersAssumption == Found \subseteq Seq(Papers) /\ Cached \subseteq Papers

NoCall == [op |-> "ask", kind |-> "text", paper |-> None, ranks |-> <<>>, ids |-> {}]

(* call; step; queue: papers to analyse or candidates to mark, still to      *)
(* come; paper: the one in hand; picked: candidates resolved, or papers to   *)
(* compare; done: papers the graph completed; read: the active papers as     *)
(* add_active_paper read them; next: the next_phase of the result.           *)
Idle == [call |-> NoCall, step |-> "idle", queue |-> <<>>, paper |-> None,
         picked |-> {}, done |-> {}, read |-> {}, next |-> None]

Init ==
  /\ InitStore(Cached)
  /\ thread = [r \in Requests |-> Idle]
  /\ calls = 0 /\ added = {} /\ crossed = FALSE /\ taken = {}

At(r, s) == thread[r].step = s
Goto(r, s) == thread' = [thread EXCEPT ![r].step = s]
End(r) == thread' = [thread EXCEPT ![r] = Idle]

(* The result of a graph or of the selection handler, on its way to the user. *)
Result(r, phase) == thread' = [thread EXCEPT ![r].step = "respond", ![r].next = phase]

-----------------------------------------------------------------------------
(* The first step of each operation of PaperIntelService. *)
Entry(op) ==
  CASE op = "select" -> "gate"
    [] op = "analyze" -> "find"
    [] op = "analyze_selected" -> "resolve"
    [] op \in {"compare", "synthesize"} -> "load"
    [] OTHER -> "route"

Accept(r) ==
  /\ At(r, "idle") /\ calls < MaxCalls
  /\ \E c \in Calls :
       thread' = [thread EXCEPT ![r] = [Idle EXCEPT !.call = c, !.step = Entry(c.op)]]
  /\ calls' = calls + 1
  /\ UNCHANGED <<store, added, crossed, taken>>

(* An exception that nothing catches, or the death of the process. *)
Crash(r) ==
  /\ ~At(r, "idle")
  /\ End(r)
  /\ UNCHANGED <<store, ghosts>>

-----------------------------------------------------------------------------
(* ChatHandler.handle_message *)

(* select_papers checks the phase; handle_message reads it again. *)
Gate(r) ==
  /\ At(r, "gate")
  /\ IF session.phase = "selection" THEN Goto(r, "route") ELSE End(r)
  /\ UNCHANGED <<store, ghosts>>

(* _route_message: in phase "selection" every message is a selection. *)
Route(r) ==
  LET c == thread[r].call IN
  /\ At(r, "route")
  /\ CASE session.phase = "selection" -> Goto(r, "pick")
       [] session.phase # "selection" /\ c.kind = "url" ->
            thread' = [thread EXCEPT ![r].step = "analysis", ![r].queue = <<c.paper>>]
       [] session.phase # "selection" /\ c.kind = "search" -> Goto(r, "search")
       [] session.phase # "selection" /\ c.kind = "text" -> Goto(r, "converse")
  /\ UNCHANGED <<store, ghosts>>

(* The conversation graph answers without a phase, or asks for a discovery. *)
Converse(r) ==
  /\ At(r, "converse")
  /\ Goto(r, "search") \/ End(r)
  /\ UNCHANGED <<store, ghosts>>

(* Any exception in routing or in a graph makes the phase "failed". *)
Fail(r) ==
  /\ thread[r].step \in {"pick", "mark", "save", "search", "converse", "analysis"}
  /\ UpdatePhase("failed")
  /\ End(r)
  /\ UNCHANGED <<listings, workspaces, index, comparisons, elsewhere, ghosts>>

(* update_phase with next_phase, then the assistant's turn. *)
Respond(r) ==
  LET t == thread[r] IN
  /\ At(r, "respond")
  /\ UpdatePhase(t.next)
  /\ IF t.call.op = "analyze_selected" /\ t.next = "qa" THEN Goto(r, "analyzed") ELSE End(r)
  /\ UNCHANGED <<listings, workspaces, index, comparisons, elsewhere, ghosts>>

-----------------------------------------------------------------------------
(* Discovery and selection *)

(* graph_discovery: plan, search, advise; next_phase is always "selection". *)
Search(r) ==
  /\ At(r, "search")
  /\ \E found \in Found :
       /\ found # <<>> => Len(listings) < MaxListings
       /\ UpsertCandidates(found)
  /\ Result(r, "selection")
  /\ UNCHANGED <<session, workspaces, index, comparisons, elsewhere, ghosts>>

(* parse_selection_ranks and resolve_selection over the newest listing: no   *)
(* numbers, a number below 1 or one that is not listed refuse them all.      *)
ParsedRanks(ranks) == IF \E k \in DOMAIN ranks : ranks[k] < 1 THEN {} ELSE Range(ranks)

\* Mutant: the session row is written before the statuses.
Pick_SavesFirst(r) ==
  LET ranks == ParsedRanks(thread[r].call.ranks) IN
  /\ At(r, "pick")
  /\ IF ranks # {} /\ ranks \subseteq LatestRanks
       THEN thread' = [thread EXCEPT ![r].step = "save",
                         ![r].picked = {<<Latest, k>> : k \in ranks}]
       ELSE Result(r, "selection")
  /\ UNCHANGED <<store, ghosts>>

Pick(r) ==
  LET ranks == ParsedRanks(thread[r].call.ranks) IN
  /\ At(r, "pick")
  /\ IF ranks # {} /\ ranks \subseteq LatestRanks
       THEN thread' = [thread EXCEPT ![r].step = "mark",
                         ![r].picked = {<<Latest, k>> : k \in ranks},
                         ![r].queue = [k \in DOMAIN thread[r].call.ranks |->
                                         <<Latest, thread[r].call.ranks[k]>>]]
       ELSE Result(r, "selection")
  /\ UNCHANGED <<store, ghosts>>

(* SelectionHandler.handle: one status at a time, then the session row. *)
Mark(r) ==
  LET t == thread[r] IN
  /\ At(r, "mark")
  /\ UpdateStatus(Head(t.queue), "selected")
  /\ thread' = [thread EXCEPT ![r].queue = Tail(t.queue),
                  ![r].step = IF Len(t.queue) = 1 THEN "save" ELSE "mark"]
  /\ UNCHANGED <<session, workspaces, index, comparisons, elsewhere, ghosts>>

Save(r) ==
  /\ At(r, "save")
  /\ SetSelectedCandidateIds(thread[r].picked)
  /\ Result(r, "idle")
  /\ UNCHANGED <<listings, workspaces, index, comparisons, elsewhere, ghosts>>

(* SelectedCandidateResolver.resolve: all selected, none of them missing. *)
Resolve(r) ==
  LET ids == session.selected IN
  /\ At(r, "resolve")
  /\ IF ids # {} /\ \A id \in ids : Row(id).status = "selected"
       THEN \E order \in [1..Cardinality(ids) -> ids] :
              /\ Range(order) = ids
              /\ thread' = [thread EXCEPT ![r].step = "analysis", ![r].picked = ids,
                              ![r].queue = [k \in DOMAIN order |-> Row(order[k]).paper]]
       ELSE End(r)
  /\ UNCHANGED <<store, ghosts>>

(* analyze_selected_papers: phase "qa" marks every candidate it resolved. *)
MarkAnalyzed(r) ==
  /\ At(r, "analyzed")
  /\ IF thread[r].picked = {} THEN End(r) /\ UNCHANGED listings
     ELSE \E id \in thread[r].picked :
            /\ UpdateStatus(id, "analyzed")
            /\ thread' = [thread EXCEPT ![r].picked = @ \ {id}]
  /\ UNCHANGED <<session, workspaces, index, comparisons, elsewhere, ghosts>>

-----------------------------------------------------------------------------
(* The analysis graph, one paper after the other *)

(* A paper fails; or it is completed and nothing can be indexed; or its      *)
(* chunk rows are written.                                                   *)
Analyze(r) ==
  LET p == Head(thread[r].queue)
      After(step, completed) ==
        thread' = [thread EXCEPT ![r].queue = Tail(@), ![r].step = step, ![r].paper = p,
                                 ![r].done = @ \cup completed]
  IN /\ At(r, "analysis") /\ thread[r].queue # <<>>
     /\ \/ After("analysis", {}) /\ UNCHANGED rows
        \/ After("analysis", {p}) /\ UNCHANGED rows
        \/ After("embed", {p}) /\ UpsertChunks(p)
     /\ UNCHANGED <<session, listings, workspaces, points, clones, clonePoints,
                    comparisons, elsewhere, ghosts>>

(* RetrievalLayer.upsert_chunks: the points of chunks already stored. *)
Embed(r) ==
  /\ \/ At(r, "embed") /\ Goto(r, "read")
        /\ UpsertPoints(thread[r].paper) /\ UNCHANGED clonePoints
     \/ At(r, "embed cached") /\ Goto(r, "read cached")
        /\ ClonePoints(thread[r].paper) /\ UNCHANGED points
  /\ UNCHANGED <<session, listings, workspaces, rows, clones, comparisons, elsewhere, ghosts>>

(* add_active_paper reads the list and is done when the paper is in it. *)
ReadActive(r) ==
  LET t == thread[r]
      Then(there, missing) ==
        IF t.paper \in session.active THEN Goto(r, there)
        ELSE thread' = [thread EXCEPT ![r].step = missing, ![r].read = session.active]
  IN /\ \/ At(r, "read") /\ Then("analysis", "add")
        \/ At(r, "read cached") /\ Then("activate", "add cached")
     /\ crossed' = (crossed \/ \E o \in Requests \ {r} : thread[o].step \in {"add", "add cached"})
     /\ UNCHANGED <<store, calls, added, taken>>

AddActive(r) ==
  LET t == thread[r] IN
  /\ \/ At(r, "add") /\ Goto(r, "analysis")
     \/ At(r, "add cached") /\ Goto(r, "activate")
  /\ AddActivePaper(t.read, t.paper)
  /\ added' = added \cup {t.paper}
  /\ UNCHANGED <<listings, workspaces, index, comparisons, elsewhere, calls, crossed, taken>>

(* chunk_and_index turns every error of these calls into a warning. *)
IndexingFails(r) ==
  /\ thread[r].step \in {"embed", "read", "add"}
  /\ Goto(r, "analysis")
  /\ UNCHANGED <<store, ghosts>>

(* _normalize_analysis_result: "qa" when every paper was completed, "failed" *)
(* when none was; in between the last paper decides.  Artifacts are stored   *)
(* only when the phase is not "failed".                                      *)
EndAnalysis(r) ==
  LET t == thread[r] IN
  /\ At(r, "analysis") /\ t.queue = <<>>
  /\ \/ /\ t.done # {}
        /\ thread' = [thread EXCEPT ![r].step = "artifacts", ![r].next = "qa"]
     \/ /\ t.done = {} \/ t.call.op = "analyze_selected"
        /\ Result(r, "failed")
  /\ UNCHANGED <<store, ghosts>>

(* _persist_analysis_artifacts: one workspace after the other, and then the  *)
(* comparison of a batch; an error (two inserts of one paper, for example)   *)
(* leaves out the rest.                                                      *)
PersistWorkspace(r) ==
  /\ At(r, "artifacts")
  /\ \E p \in thread[r].done :
       /\ UpsertWorkspace(p, "own")
       /\ thread' = [thread EXCEPT ![r].done = @ \ {p}, ![r].queue = Append(@, p)]
  /\ UNCHANGED <<session, listings, index, comparisons, elsewhere, ghosts>>

PersistComparison(r) ==
  LET saved == Range(thread[r].queue) IN
  /\ At(r, "artifacts") /\ thread[r].done = {}
  /\ Result(r, "qa")
  /\ IF Cardinality(saved) >= 2 THEN SaveComparison(saved) \/ UNCHANGED comparisons
     ELSE UNCHANGED comparisons
  /\ UNCHANGED <<session, listings, workspaces, index, elsewhere, ghosts>>

PersistFails(r) ==
  /\ At(r, "artifacts")
  /\ Result(r, "qa")
  /\ UNCHANGED <<store, ghosts>>

-----------------------------------------------------------------------------
(* PaperIntelService.analyze_paper from the cache *)

Find(r) ==
  LET p == thread[r].call.paper IN
  /\ At(r, "find")
  /\ IF Reusable(p)
       THEN thread' = [thread EXCEPT ![r].step = "clone", ![r].paper = p]
       ELSE Goto(r, "route")
  /\ UNCHANGED <<store, ghosts>>

\* Mutant: a cache hit writes over the workspace of the session.
Clone_Overwrites(r) ==
  /\ At(r, "clone")
  /\ IF ReadyForCache(source[thread[r].paper])
       THEN UpsertWorkspace(thread[r].paper, source[thread[r].paper]) /\ Goto(r, "copy")
       ELSE UNCHANGED workspaces /\ End(r)
  /\ UNCHANGED <<session, listings, index, comparisons, elsewhere, ghosts>>

(* clone_workspace: a new row, or the row the session has when it is the     *)
(* same; not ready any more, or in conflict with that row, is an error.      *)
Clone(r) ==
  LET p == thread[r].paper IN
  /\ At(r, "clone")
  /\ \/ /\ ReadyForCache(source[p]) /\ workspaces[p] = "none"
        /\ UpsertWorkspace(p, source[p]) /\ Goto(r, "copy")
     \/ CacheCompatible(p) /\ UNCHANGED workspaces /\ Goto(r, "copy")
     \/ /\ ~ReadyForCache(source[p]) \/ workspaces[p] # "none"
        /\ ~CacheCompatible(p)
        /\ UNCHANGED workspaces /\ End(r)
  /\ UNCHANGED <<session, listings, index, comparisons, elsewhere, ghosts>>

\* Mutant: the paper becomes active before its points are stored.
CopyChunks_ActivatesFirst(r) ==
  LET p == thread[r].paper IN
  /\ At(r, "copy")
  /\ IF p \in SourceChunks THEN CloneChunks(p) /\ Goto(r, "read cached")
     ELSE End(r) /\ UNCHANGED clones
  /\ UNCHANGED <<session, listings, workspaces, rows, points, clonePoints, comparisons,
                 elsewhere, ghosts>>

(* clone_for_session; no chunks is PaperCacheHydrationEmptyChunksError. *)
CopyChunks(r) ==
  LET p == thread[r].paper IN
  /\ At(r, "copy")
  /\ IF p \in SourceChunks THEN CloneChunks(p) /\ Goto(r, "embed cached")
     ELSE End(r) /\ UNCHANGED clones
  /\ UNCHANGED <<session, listings, workspaces, rows, points, clonePoints, comparisons,
                 elsewhere, ghosts>>

Activate(r) ==
  /\ At(r, "activate")
  /\ UpdatePhase("qa")
  /\ End(r)
  /\ UNCHANGED <<listings, workspaces, index, comparisons, elsewhere, ghosts>>

-----------------------------------------------------------------------------
(* compare_papers and synthesize_papers *)

(* _load_request_workspaces: two papers or more, each with a workspace. *)
Load(r) ==
  LET c == thread[r].call
      ids == IF c.ids # {} THEN c.ids ELSE session.active
  IN /\ At(r, "load")
     /\ IF Cardinality(ids) >= 2 /\ \A p \in ids : workspaces[p] # "none"
          THEN thread' = [thread EXCEPT ![r].step = "report", ![r].picked = ids]
          ELSE End(r)
     /\ UNCHANGED <<store, ghosts>>

(* The agent has a deterministic fallback; only a comparison is stored. *)
Report(r) ==
  /\ At(r, "report")
  /\ IF thread[r].call.op = "compare" THEN SaveComparison(thread[r].picked)
     ELSE UNCHANGED comparisons
  /\ End(r)
  /\ UNCHANGED <<session, listings, workspaces, index, elsewhere, ghosts>>

-----------------------------------------------------------------------------
(* The other session, one call at a time. *)
Elsewhere ==
  /\ \E p \in Cached :
       \/ AnalyzedElsewhere(p) /\ UNCHANGED <<rows, points, embedding, taken>>
       \/ IndexedElsewhere(p) /\ UNCHANGED <<points, source, taken>>
       \/ /\ EmbeddedElsewhere(p) /\ UNCHANGED <<rows, source>>
          /\ taken' = taken \cup {q \in Papers : points[q] = "here" /\ points'[q] = "there"}
  /\ UNCHANGED <<session, listings, workspaces, clones, clonePoints, comparisons, thread,
                 calls, added, crossed>>

Step(r) ==
  \/ Gate(r) \/ Route(r) \/ Converse(r) \/ Fail(r) \/ Respond(r)
  \/ Search(r) \/ Pick(r) \/ Mark(r) \/ Save(r) \/ Resolve(r) \/ MarkAnalyzed(r)
  \/ Analyze(r) \/ Embed(r) \/ ReadActive(r) \/ AddActive(r) \/ IndexingFails(r)
  \/ EndAnalysis(r) \/ PersistWorkspace(r) \/ PersistComparison(r) \/ PersistFails(r)
  \/ Find(r) \/ Clone(r) \/ CopyChunks(r) \/ Activate(r) \/ Load(r) \/ Report(r)

Next == Elsewhere \/ \E r \in Requests : Accept(r) \/ Crash(r) \/ Step(r)

Spec == Init /\ [][Next]_vars

-----------------------------------------------------------------------------
(* Properties *)

Steps == {"idle", "gate", "route", "converse", "respond", "search", "pick", "mark", "save",
          "resolve", "analyzed", "analysis", "embed", "embed cached", "read", "read cached",
          "add", "add cached", "artifacts", "find", "clone", "copy", "activate", "load",
          "report"}

(* Every variable keeps its type: rows refer to papers and candidates of the *)
(* session, and a thread is at a step of the operation it serves.            *)
TypeOK ==
  /\ StoreTypeOK
  /\ DOMAIN thread = Requests
  /\ \A r \in Requests :
       LET t == thread[r] IN
       /\ t.call \in CallRecords /\ t.step \in Steps
       /\ t.paper \in Papers \cup {None}
       /\ t.done \subseteq Papers /\ t.read \subseteq Papers
       /\ t.next \in Phases \cup {None}
  /\ calls \in Nat /\ added \subseteq Papers /\ taken \subseteq Papers /\ crossed \in BOOLEAN

(* chunk_and_index, _hydrate_reusable_workspace (docs/PAPER_CACHE.md,        *)
(* "upsert ... into Qdrant before the paper becomes active"): however        *)
(* analyses and cache hits of one session interleave, fail or crash, an      *)
(* active paper can be searched, unless an analysis in another session has   *)
(* taken its points.                                                         *)
LostOnlyToAnother == session.active \subseteq Searchable \cup taken

(* add_active_paper: the list is read and written back without a lock.  A    *)
(* paper that was added is missing only if two additions have overlapped.    *)
LostOnlyByOverlap == ~crossed => added = session.active

(* clone_workspace (docs/PAPER_CACHE.md, "must not be overwritten            *)
(* silently"): a workspace the session has is changed only by an analysis of *)
(* that paper in this session, never by a cache hit.                         *)
ConflictIsKept ==
  [][\A p \in Papers : workspaces[p] # "none" /\ workspaces'[p] # workspaces[p] =>
       \E r \in Requests : At(r, "artifacts") /\ p \in thread[r].done]_vars

(* SelectionHandler.handle: statuses first, the session row last, so that at *)
(* no moment, after a crash in between or with another selection under way,  *)
(* the session selects a candidate that the resolver would refuse as one     *)
(* nobody selected; and one selection comes from one listing.                *)
SelectedIsMarked ==
  /\ \A id \in session.selected :
       id[1] \in DOMAIN listings /\ id[2] \in DOMAIN listings[id[1]] /\ Row(id).status # "proposed"
  /\ \A i, j \in session.selected : i[1] = j[1]

(* docs/PAPER_CACHE.md, "A cache hit must make the target session            *)
(* operationally equivalent to a successful analysis": when a reuse is about *)
(* to answer, its paper has a workspace, rows and points, and is active      *)
(* unless another addition overlapped.                                       *)
ReuseIsComplete ==
  \A r \in Requests : At(r, "activate") =>
    LET p == thread[r].paper IN
    /\ workspaces[p] # "none" /\ p \in Stored /\ p \in Searchable
    /\ crossed \/ p \in session.active

(* compare_papers and the batch: a stored comparison is of two or more       *)
(* papers of which each has a workspace in this session.                     *)
ComparedHaveWorkspaces ==
  \A c \in comparisons : Cardinality(c) >= 2 /\ \A p \in c : workspaces[p] # "none"

-----------------------------------------------------------------------------
(* Claims of the documentation that the code does not keep *)

(* docs/API.md:56, "Find candidate papers for a research topic and enter     *)
(* selection phase": a discovery whose topic is a plain search is never      *)
(* taken for a selection.                                                    *)
DiscoverSearches ==
  \A r \in Requests : thread[r].call.op = "discover" /\ thread[r].call.kind = "search" =>
    ~At(r, "pick")

(* docs/CHUNKING_STRATEGY.md:111, "lets later storage/vector layers upsert   *)
(* safely": the papers a session has active can be searched in it.           *)
ActiveIsSearchable == session.active \subseteq Searchable

(* Requests that interleave cost a session a paper only in the two known     *)
(* ways: a paper that another session took over, a list that was read before *)
(* another request wrote it.                                                 *)
LostIsExplained == LostOnlyToAnother /\ LostOnlyByOverlap

(* What a request refers to is there as a whole: the candidates selected,    *)
(* the workspaces reused and the papers compared.                            *)
NamedIsThere == SelectedIsMarked /\ ReuseIsComplete /\ ComparedHaveWorkspaces
=============================================================================
