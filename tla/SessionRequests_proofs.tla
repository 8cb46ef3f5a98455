------------------------ MODULE SessionRequests_proofs ------------------------
(* Proofs about SessionRequests for any papers, requests, threads and        *)
(* searches.  A request keeps what it has found or written in its locals and *)
(* relies on it some steps later, while the others go on.  What makes that   *)
(* safe is that the tables only grow in what it relies on (Growth), and that *)
(* an addition that overlaps another is noted (AddersAlone).                 *)
EXTENDS SessionRequests, FiniteSetTheorems, TLAPS

Adding == {"add", "add cached"}
CachedSteps == {"copy", "embed cached", "read cached", "add cached", "activate"}

Listed == {id \in Ids : id[1] \in DOMAIN listings /\ id[2] \in DOMAIN listings[id[1]]}
Marked == {id \in Listed : Row(id).status # "proposed"}
Written == {p \in Papers : workspaces[p] # "none"}
Kept == Searchable \cup taken

\* The locals of a request are of the right kind.
ThreadRecords ==
  [call : CallRecords, step : Steps, queue : Seq(Papers) \cup Seq(Ids), paper : Papers \cup {None},
   picked : (SUBSET Papers) \cup (SUBSET Ids), done : SUBSET Papers, read : SUBSET Papers,
   next : Phases \cup {None}]

TablesTyped ==
  /\ session \in [phase : Phases \cup {None}, active : SUBSET Papers, selected : SUBSET Ids]
  /\ listings \in Seq(Seq(Rows))
  /\ workspaces \in [Papers -> Contents] /\ source \in [Papers -> Contents]
  /\ rows \in [Papers -> Holders] /\ points \in [Papers -> Holders]
  /\ clones \subseteq Papers /\ clonePoints \subseteq Papers

Typed ==
  /\ TablesTyped
  /\ thread \in [Requests -> ThreadRecords]
  /\ calls \in Nat /\ added \subseteq Papers /\ taken \subseteq Papers /\ crossed \in BOOLEAN

\* What a request has in hand at a step is there in the tables.
PaperInHand(t) ==
  /\ t.step \in CachedSteps \cup {"embed", "read", "add", "clone"} => t.paper \in Papers
  /\ t.step \in {"read", "add"} => t.paper \in Kept
  /\ t.step \in Adding => t.read \subseteq Kept
  /\ t.step \in CachedSteps => t.paper \in Written
  /\ t.step \in CachedSteps \ {"copy"} => t.paper \in clones
  /\ t.step \in CachedSteps \ {"copy", "embed cached"} => t.paper \in clonePoints
  /\ t.step = "activate" => crossed \/ t.paper \in session.active

QueueInHand(t) ==
  /\ t.step \in {"analysis", "embed", "read", "add"} => t.queue \in Seq(Papers)
  /\ t.step = "artifacts" => t.queue \in Seq(Papers) /\ Range(t.queue) \subseteq Written

PicksInHand(t) ==
  /\ t.step # "report" => t.picked \subseteq Listed
  /\ t.step = "report" => Cardinality(t.picked) >= 2 /\ t.picked \subseteq Written
  /\ t.step = "mark" => /\ t.queue \in Seq(Listed) /\ t.queue # <<>>
                        /\ t.picked \subseteq Marked \cup Range(t.queue)
  /\ t.step = "save" => t.picked \subseteq Marked
  /\ t.step \in {"mark", "save"} => IsFiniteSet(t.picked) /\ \A i, j \in t.picked : i[1] = j[1]

CallInHand(t) ==
  /\ t.call.op = "analyze" \/ t.call.kind = "url" => t.call.paper \in Papers
  /\ t.step = "find" => t.call.op = "analyze"

ThreadOK(r) ==
  /\ PaperInHand(thread[r]) /\ QueueInHand(thread[r])
  /\ PicksInHand(thread[r]) /\ CallInHand(thread[r])

\* As long as no two additions overlap, who is about to write the list of
\* active papers has read it as it is, and is the only one.
AddersAlone ==
  ~crossed => \A r \in Requests : thread[r].step \in Adding =>
    /\ thread[r].read = session.active
    /\ \A o \in Requests \ {r} : thread[o].step \notin Adding

SelectionInv ==
  /\ session.selected \subseteq Marked /\ IsFiniteSet(session.selected)
  /\ \A i, j \in session.selected : i[1] = j[1]

ComparisonInv == \A c \in comparisons : Cardinality(c) >= 2 /\ c \subseteq Written

TablesInv ==
  LostOnlyToAnother /\ LostOnlyByOverlap /\ AddersAlone /\ SelectionInv /\ ComparisonInv

IInv == Typed /\ (\A r \in Requests : ThreadOK(r)) /\ TablesInv

\* What no step takes away from a request that relies on it.
Growth ==
  /\ Written \subseteq Written' /\ Kept \subseteq Kept'
  /\ clones \subseteq clones' /\ clonePoints \subseteq clonePoints'
  /\ Listed \subseteq Listed' /\ Marked \subseteq Marked'
  /\ crossed => crossed'
  /\ ~crossed' => session.active \subseteq session'.active


USE DEF store, ghosts, index, elsewhere

-----------------------------------------------------------------------------
(* The locals of a request *)

LEMMA SetStep ==
  ASSUME NEW t \in ThreadRecords, NEW x \in Steps
  PROVE  LET u == [t EXCEPT !.step = x] IN
         /\ u \in ThreadRecords /\ u.step = x
         /\ u.call = t.call /\ u.queue = t.queue /\ u.paper = t.paper /\ u.picked = t.picked
         /\ u.done = t.done /\ u.read = t.read /\ u.next = t.next
BY DEF ThreadRecords

LEMMA SetQueue ==
  ASSUME NEW t \in ThreadRecords, NEW x \in Seq(Papers) \cup Seq(Ids)
  PROVE  LET u == [t EXCEPT !.queue = x] IN
         /\ u \in ThreadRecords /\ u.queue = x
         /\ u.call = t.call /\ u.step = t.step /\ u.paper = t.paper /\ u.picked = t.picked
         /\ u.done = t.done /\ u.read = t.read /\ u.next = t.next
BY DEF ThreadRecords

LEMMA SetPaper ==
  ASSUME NEW t \in ThreadRecords, NEW x \in Papers \cup {None}
  PROVE  LET u == [t EXCEPT !.paper = x] IN
         /\ u \in ThreadRecords /\ u.paper = x
         /\ u.call = t.call /\ u.step = t.step /\ u.queue = t.queue /\ u.picked = t.picked
         /\ u.done = t.done /\ u.read = t.read /\ u.next = t.next
BY DEF ThreadRecords

LEMMA SetPicked ==
  ASSUME NEW t \in ThreadRecords, NEW x \in (SUBSET Papers) \cup (SUBSET Ids)
  PROVE  LET u == [t EXCEPT !.picked = x] IN
         /\ u \in ThreadRecords /\ u.picked = x
         /\ u.call = t.call /\ u.step = t.step /\ u.queue = t.queue /\ u.paper = t.paper
         /\ u.done = t.done /\ u.read = t.read /\ u.next = t.next
BY DEF ThreadRecords

LEMMA SetDone ==
  ASSUME NEW t \in ThreadRecords, NEW x \in SUBSET Papers
  PROVE  LET u == [t EXCEPT !.done = x] IN
         /\ u \in ThreadRecords /\ u.done = x
         /\ u.call = t.call /\ u.step = t.step /\ u.queue = t.queue /\ u.paper = t.paper
         /\ u.picked = t.picked /\ u.read = t.read /\ u.next = t.next
BY DEF ThreadRecords

LEMMA SetRead ==
  ASSUME NEW t \in ThreadRecords, NEW x \in SUBSET Papers
  PROVE  LET u == [t EXCEPT !.read = x] IN
         /\ u \in ThreadRecords /\ u.read = x
         /\ u.call = t.call /\ u.step = t.step /\ u.queue = t.queue /\ u.paper = t.paper
         /\ u.picked = t.picked /\ u.done = t.done /\ u.next = t.next
BY DEF ThreadRecords

LEMMA SetNext ==
  ASSUME NEW t \in ThreadRecords, NEW x \in Phases \cup {None}
  PROVE  LET u == [t EXCEPT !.next = x] IN
         /\ u \in ThreadRecords /\ u.next = x
         /\ u.call = t.call /\ u.step = t.step /\ u.queue = t.queue /\ u.paper = t.paper
         /\ u.picked = t.picked /\ u.done = t.done /\ u.read = t.read
BY DEF ThreadRecords

LEMMA LocalTypes ==
  ASSUME NEW t \in ThreadRecords
  PROVE  /\ t.call \in CallRecords /\ t.step \in Steps /\ t.queue \in Seq(Papers) \cup Seq(Ids)
         /\ t.paper \in Papers \cup {None} /\ t.picked \in (SUBSET Papers) \cup (SUBSET Ids)
         /\ t.done \subseteq Papers /\ t.read \subseteq Papers /\ t.next \in Phases \cup {None}
BY DEF ThreadRecords

LEMMA IdleTyped ==
  /\ Idle \in ThreadRecords
  /\ Idle.call = NoCall /\ Idle.step = "idle" /\ Idle.picked = {}
  /\ NoCall.op = "ask" /\ NoCall.kind = "text"
BY DEF Idle, ThreadRecords, NoCall, CallRecords, Ops, Kinds, Steps

LEMMA RangeIsFinite ==
  ASSUME NEW S, NEW q \in Seq(S)
  PROVE  IsFiniteSet(Range(q))
<1>1. DOMAIN q = 1..Len(q) /\ Len(q) \in Nat OBVIOUS
<1>2. IsFiniteSet(DOMAIN q) BY <1>1, FS_Interval
<1>3. q \in Surjection(DOMAIN q, Range(q)) BY <1>1 DEF Surjection, Range
<1> QED BY <1>2, <1>3, FS_Surjection

\* The candidates that a selection names are ids.
LEMMA RanksAreIds ==
  ASSUME TablesTyped, NEW ranks \in Seq(Nat), ParsedRanks(ranks) # {}, ParsedRanks(ranks) \subseteq LatestRanks
  PROVE  /\ [k \in DOMAIN ranks |-> <<Latest, ranks[k]>>] \in Seq(Listed)
         /\ [k \in DOMAIN ranks |-> <<Latest, ranks[k]>>] \in Seq(Ids)
         /\ {<<Latest, k>> : k \in ParsedRanks(ranks)} = Range([k \in DOMAIN ranks |-> <<Latest, ranks[k]>>])
         /\ {<<Latest, k>> : k \in ParsedRanks(ranks)} \subseteq Ids
         /\ IsFiniteSet({<<Latest, k>> : k \in ParsedRanks(ranks)})
         /\ ranks # <<>>
<1>1. ParsedRanks(ranks) = {ranks[k] : k \in DOMAIN ranks} BY DEF ParsedRanks, Range
<1>2. Latest \in Nat \ {0} /\ LatestRanks = DOMAIN listings[Latest] /\ Latest \in DOMAIN listings
  BY DEF LatestRanks, Latest, TablesTyped
<1>3. listings[Latest] \in Seq(Rows) BY <1>2 DEF TablesTyped
<1>4. \A k \in DOMAIN ranks : ranks[k] \in Nat \ {0} /\ ranks[k] \in DOMAIN listings[Latest]
  BY <1>1, <1>2, <1>3
<1>5. \A k \in DOMAIN ranks : <<Latest, ranks[k]>> \in Listed
  BY <1>2, <1>4 DEF Listed, Ids
<1>6. DOMAIN ranks = 1..Len(ranks) /\ Len(ranks) \in Nat OBVIOUS
<1>7. [k \in DOMAIN ranks |-> <<Latest, ranks[k]>>] \in Seq(Listed)
  BY <1>5, <1>6
<1>8. ranks # <<>> BY <1>1
<1>9. {<<Latest, k>> : k \in ParsedRanks(ranks)} = Range([k \in DOMAIN ranks |-> <<Latest, ranks[k]>>])
  BY <1>1 DEF Range
<1>10. IsFiniteSet(Range([k \in DOMAIN ranks |-> <<Latest, ranks[k]>>]))
  BY <1>7, RangeIsFinite
<1>11. [k \in DOMAIN ranks |-> <<Latest, ranks[k]>>] \in Seq(Ids) BY <1>5, <1>6 DEF Listed
<1>12. {<<Latest, k>> : k \in ParsedRanks(ranks)} \subseteq Ids BY <1>1, <1>5 DEF Listed
<1> DEFINE q == [k \in DOMAIN ranks |-> <<Latest, ranks[k]>>]
           picked == {<<Latest, k>> : k \in ParsedRanks(ranks)}
<1> HIDE DEF q, picked
<1>13. q \in Seq(Listed) /\ q \in Seq(Ids) /\ picked = Range(q) /\ IsFiniteSet(Range(q))
  BY <1>7, <1>9, <1>10, <1>11 DEF q, picked
<1> QED BY <1>8, <1>12, <1>13 DEF q, picked

\* A step changes the locals of its own request only.
Moved(r) ==
  /\ thread' \in [Requests -> ThreadRecords]
  /\ \A o \in Requests \ {r} : thread'[o] = thread[o]

LEMMA GotoMoves ==
  ASSUME thread \in [Requests -> ThreadRecords], NEW r \in Requests, NEW s \in Steps, Goto(r, s)
  PROVE  Moved(r)
BY SetStep DEF Moved, Goto

LEMMA EndMoves ==
  ASSUME thread \in [Requests -> ThreadRecords], NEW r \in Requests, End(r)
  PROVE  Moved(r)
BY IdleTyped DEF Moved, End

LEMMA ResultMoves ==
  ASSUME thread \in [Requests -> ThreadRecords], NEW r \in Requests, NEW p \in Phases, Result(r, p)
  PROVE  Moved(r)
<1>1. "respond" \in Steps BY DEF Steps
<1> QED BY <1>1, SetStep, SetNext DEF Moved, Result

LEMMA StepMoves ==
  ASSUME TablesTyped, thread \in [Requests -> ThreadRecords], NEW r \in Requests, ThreadOK(r), Step(r)
  PROVE  Moved(r)
<1>a. thread[r] \in ThreadRecords OBVIOUS
<1>1. CASE Gate(r)
  <2>1. "route" \in Steps BY DEF Steps
  <2> QED BY <1>1, <2>1, GotoMoves, EndMoves, ResultMoves DEF Gate
<1>2. CASE Route(r)
  <2>1. "pick" \in Steps /\ "analysis" \in Steps /\ "search" \in Steps /\ "converse" \in Steps BY DEF Steps
  <2>2. \/ \E s \in Steps : Goto(r, s)
        \/ /\ thread[r].call.kind = "url"
           /\ thread' = [thread EXCEPT ![r].step = "analysis", ![r].queue = <<thread[r].call.paper>>]
    <3>1. thread[r].call.kind \in Kinds BY <1>a, LocalTypes DEF CallRecords
    <3> QED BY <1>2, <2>1, <3>1 DEF Route, Kinds
  <2>3. thread[r].call.kind = "url" => <<thread[r].call.paper>> \in Seq(Papers)
    BY DEF ThreadOK, CallInHand
  <2> QED BY <1>a, <2>1, <2>2, <2>3, GotoMoves, SetStep, SetQueue DEF Moved
<1>3. CASE Converse(r)
  <2>1. "search" \in Steps BY DEF Steps
  <2> QED BY <1>3, <2>1, GotoMoves, EndMoves, ResultMoves DEF Converse
<1>4. CASE Fail(r)
  BY <1>4, EndMoves DEF Fail
<1>5. CASE Respond(r)
  <2>1. "analyzed" \in Steps BY DEF Steps
  <2> QED BY <1>5, <2>1, GotoMoves, EndMoves, ResultMoves DEF Respond
<1>6. CASE Search(r)
  <2>1. "selection" \in Phases BY DEF Steps, Phases
  <2> QED BY <1>6, <2>1, GotoMoves, EndMoves, ResultMoves DEF Search
<1>7. CASE Pick(r)
  <2>1. "mark" \in Steps /\ "respond" \in Steps /\ "selection" \in Phases BY DEF Steps, Phases
  <2> DEFINE ranks == thread[r].call.ranks
             queue == [k \in DOMAIN ranks |-> <<Latest, ranks[k]>>]
             picked == {<<Latest, k>> : k \in ParsedRanks(ranks)}
  <2>2. CASE Result(r, "selection")
    BY <2>1, <2>2, ResultMoves
  <2>3. CASE /\ ParsedRanks(ranks) # {} /\ ParsedRanks(ranks) \subseteq LatestRanks
             /\ thread' = [thread EXCEPT ![r].step = "mark", ![r].picked = picked, ![r].queue = queue]
    <3>1. queue \in Seq(Ids) /\ picked \subseteq Ids
      <4>1. ranks \in Seq(Nat) BY <1>a, LocalTypes DEF CallRecords
      <4> QED BY <2>3, <4>1, RanksAreIds
    <3>2. [thread[r] EXCEPT !.step = "mark"] \in ThreadRecords
      BY <1>a, <2>1, SetStep
    <3>3. [[thread[r] EXCEPT !.step = "mark"] EXCEPT !.picked = picked] \in ThreadRecords
      BY <3>1, <3>2, SetPicked
    <3> HIDE DEF queue, picked
    <3> QED BY <2>3, <3>1, <3>3, SetQueue DEF Moved
  <2> QED BY <1>7, <2>2, <2>3 DEF Pick
<1>8. CASE Mark(r)
  <2>1. "mark" \in Steps /\ "save" \in Steps BY DEF Steps
  <2>2. Tail(thread[r].queue) \in Seq(Ids)
    BY <1>8 DEF Mark, At, ThreadOK, PicksInHand, Listed
  <2> QED BY <1>8, <1>a, <2>1, <2>2, SetStep, SetQueue DEF Mark, Moved
<1>9. CASE Save(r)
  <2>1. "idle" \in Phases BY DEF Steps, Phases
  <2> QED BY <1>9, <2>1, GotoMoves, EndMoves, ResultMoves DEF Save
<1>10. CASE Resolve(r)
  <2>1. "analysis" \in Steps BY DEF Steps
  <2> QED BY <1>10, <1>a, <2>1, GotoMoves, EndMoves, SetStep, SetPicked, SetQueue DEF Resolve, Moved
<1>11. CASE MarkAnalyzed(r)
  <2>1. CASE End(r) BY <2>1, EndMoves
  <2>2. CASE \E id \in thread[r].picked : thread' = [thread EXCEPT ![r].picked = @ \ {id}]
    <3>1. \A id : thread[r].picked \ {id} \in (SUBSET Papers) \cup (SUBSET Ids)
      <4>1. thread[r].picked \in (SUBSET Papers) \cup (SUBSET Ids) BY <1>a, LocalTypes
      <4> QED BY <4>1
    <3>2. PICK id \in thread[r].picked : thread' = [thread EXCEPT ![r].picked = @ \ {id}] BY <2>2
    <3> QED BY <1>a, <3>1, <3>2, SetPicked DEF Moved
  <2> QED BY <1>11, <2>1, <2>2 DEF MarkAnalyzed
<1>12. CASE Analyze(r)
  <2> DEFINE p == Head(thread[r].queue)
  <2>1. "analysis" \in Steps /\ "embed" \in Steps BY DEF Steps
  <2>2. p \in Papers /\ Tail(thread[r].queue) \in Seq(Papers)
    BY <1>12 DEF Analyze, At, ThreadOK, QueueInHand
  <2>3. PICK s \in Steps, completed \in SUBSET Papers :
          thread' = [thread EXCEPT ![r].queue = Tail(@), ![r].step = s, ![r].paper = p,
                                   ![r].done = @ \cup completed]
    BY <1>12, <2>1, <2>2, {} \in SUBSET Papers, {p} \in SUBSET Papers DEF Analyze
  <2> DEFINE t1 == [thread[r] EXCEPT !.queue = Tail(@)]
             t2 == [t1 EXCEPT !.step = s]
             t3 == [t2 EXCEPT !.paper = p]
  <2>4. t1 \in ThreadRecords BY <1>a, <2>2, SetQueue
  <2>5. t2 \in ThreadRecords BY <2>4, SetStep
  <2>6. t3 \in ThreadRecords BY <2>2, <2>5, SetPaper
  <2>7. [t3 EXCEPT !.done = @ \cup completed] \in ThreadRecords BY <2>6, SetDone, LocalTypes
  <2> QED BY <2>3, <2>7 DEF Moved
<1>13. CASE Embed(r)
  <2>1. "read" \in Steps /\ "read cached" \in Steps BY DEF Steps
  <2> QED BY <1>13, <2>1, GotoMoves DEF Embed
<1>14. CASE ReadActive(r)
  <2>1. "analysis" \in Steps /\ "add" \in Steps /\ "activate" \in Steps /\ "add cached" \in Steps BY DEF Steps
  <2>2. \E s \in Steps : Goto(r, s) \/ thread' = [thread EXCEPT ![r].step = s, ![r].read = session.active]
    BY <1>14, <2>1 DEF ReadActive
  <2>3. session.active \in SUBSET Papers BY DEF TablesTyped
  <2> QED BY <1>a, <2>2, <2>3, GotoMoves, SetStep, SetRead DEF Moved
<1>15. CASE AddActive(r)
  <2>1. "analysis" \in Steps /\ "activate" \in Steps BY DEF Steps
  <2> QED BY <1>15, <2>1, GotoMoves DEF AddActive
<1>16. CASE IndexingFails(r)
  <2>1. "analysis" \in Steps BY DEF Steps
  <2> QED BY <1>16, <2>1, GotoMoves, EndMoves, ResultMoves DEF IndexingFails
<1>17. CASE EndAnalysis(r)
  <2>1. "artifacts" \in Steps /\ "qa" \in Phases /\ "failed" \in Phases BY DEF Steps, Phases
  <2>2. CASE thread' = [thread EXCEPT ![r].step = "artifacts", ![r].next = "qa"]
    BY <1>a, <2>1, <2>2, SetStep, SetNext DEF Moved
  <2> QED BY <1>17, <2>1, <2>2, ResultMoves DEF EndAnalysis
<1>18. CASE PersistWorkspace(r)
  <2>1. PICK p \in thread[r].done : thread' = [thread EXCEPT ![r].done = @ \ {p}, ![r].queue = Append(@, p)]
    BY <1>18 DEF PersistWorkspace
  <2>2. p \in Papers /\ thread[r].done \ {p} \in SUBSET Papers BY <1>a, LocalTypes
  <2>3. thread[r].queue \in Seq(Papers) BY <1>18 DEF PersistWorkspace, At, ThreadOK, QueueInHand
  <2>4. Append(thread[r].queue, p) \in Seq(Papers) BY <2>2, <2>3
  <2> QED BY <1>a, <2>1, <2>2, <2>4, SetDone, SetQueue DEF Moved
<1>19. CASE PersistComparison(r)
  <2>1. "qa" \in Phases BY DEF Steps, Phases
  <2> QED BY <1>19, <2>1, GotoMoves, EndMoves, ResultMoves DEF PersistComparison
<1>20. CASE PersistFails(r)
  <2>1. "qa" \in Phases BY DEF Steps, Phases
  <2> QED BY <1>20, <2>1, GotoMoves, EndMoves, ResultMoves DEF PersistFails
<1>21. CASE Find(r)
  <2>1. "clone" \in Steps /\ "route" \in Steps BY DEF Steps
  <2> QED BY <1>21, <1>a, <2>1, GotoMoves, EndMoves, SetStep, SetPaper DEF Find, Moved
<1>22. CASE Clone(r)
  <2>1. "copy" \in Steps BY DEF Steps
  <2> QED BY <1>22, <2>1, GotoMoves, EndMoves, ResultMoves DEF Clone
<1>23. CASE CopyChunks(r)
  <2>1. "embed cached" \in Steps BY DEF Steps
  <2> QED BY <1>23, <2>1, GotoMoves, EndMoves DEF CopyChunks
<1>24. CASE Activate(r)
  BY <1>24, EndMoves DEF Activate
<1>25. CASE Load(r)
  <2>1. "report" \in Steps BY DEF Steps
  <2> QED BY <1>25, <1>a, <2>1, GotoMoves, EndMoves, SetStep, SetPicked DEF Load, Moved
<1>26. CASE Report(r)
  BY <1>26, EndMoves DEF Report
<1> QED
  BY <1>1, <1>2, <1>3, <1>4, <1>5, <1>6, <1>7, <1>8, <1>9, <1>10, <1>11, <1>12, <1>13, <1>14, <1>15, <1>16, <1>17, <1>18, <1>19, <1>20, <1>21, <1>22, <1>23, <1>24, <1>25, <1>26 DEF Step

-----------------------------------------------------------------------------
(* The tables: what a call of a repository changes keeps its type and takes  *)
(* nothing away.                                                             *)

Sound == TablesTyped' /\ Growth

LEMMA NothingWritten ==
  ASSUME TablesTyped, UNCHANGED <<store, ghosts>>
  PROVE  Sound
BY DEF Sound, TablesTyped, Growth, Written, Kept, Searchable, Listed, Marked, Row

LEMMA PhaseWritten ==
  ASSUME TablesTyped, NEW p \in Phases \cup {None}, UpdatePhase(p),
         UNCHANGED <<listings, workspaces, index, comparisons, elsewhere, ghosts>>
  PROVE  Sound /\ session'.active = session.active /\ session'.selected = session.selected
<1>1. /\ session' \in [phase : Phases \cup {None}, active : SUBSET Papers, selected : SUBSET Ids]
      /\ session'.active = session.active /\ session'.selected = session.selected
  BY DEF TablesTyped, UpdatePhase
<1> QED
  BY <1>1 DEF Sound, TablesTyped, Growth, Written, Kept, Searchable, Listed, Marked, Row

LEMMA ActiveWritten ==
  ASSUME TablesTyped, NEW read \in SUBSET Papers, NEW p \in Papers, AddActivePaper(read, p),
         ~crossed => session.active \subseteq read,
         UNCHANGED <<listings, workspaces, index, comparisons, elsewhere, calls, crossed, taken>>
  PROVE  Sound /\ session'.active = read \cup {p} /\ session'.selected = session.selected
<1>1. /\ session' \in [phase : Phases \cup {None}, active : SUBSET Papers, selected : SUBSET Ids]
      /\ session'.active = read \cup {p} /\ session'.selected = session.selected
  BY DEF TablesTyped, AddActivePaper
<1> QED
  BY <1>1 DEF Sound, TablesTyped, Growth, Written, Kept, Searchable, Listed, Marked, Row

LEMMA SelectionWritten ==
  ASSUME TablesTyped, NEW ids \in SUBSET Ids, SetSelectedCandidateIds(ids),
         UNCHANGED <<listings, workspaces, index, comparisons, elsewhere, ghosts>>
  PROVE  Sound /\ session'.active = session.active /\ session'.selected = ids
<1>1. /\ session' \in [phase : Phases \cup {None}, active : SUBSET Papers, selected : SUBSET Ids]
      /\ session'.active = session.active /\ session'.selected = ids
  BY DEF TablesTyped, SetSelectedCandidateIds
<1> QED
  BY <1>1 DEF Sound, TablesTyped, Growth, Written, Kept, Searchable, Listed, Marked, Row

\* A new listing stands behind the others.
LEMMA CandidatesWritten ==
  ASSUME TablesTyped, NEW found \in Seq(Papers), UpsertCandidates(found),
         UNCHANGED <<session, workspaces, index, comparisons, elsewhere, ghosts>>
  PROVE  Sound
<1> DEFINE new == [k \in DOMAIN found |-> [paper |-> found[k], status |-> "proposed"]]
<1>1. new \in Seq(Rows)
  <2>1. DOMAIN found = 1..Len(found) /\ Len(found) \in Nat OBVIOUS
  <2>2. \A k \in DOMAIN found : new[k] \in Rows BY DEF Rows, Statuses
  <2> QED BY <2>1, <2>2
<1>2. listings \in Seq(Seq(Rows)) BY DEF TablesTyped
<1>3. CASE listings' = listings
  BY <1>3 DEF Sound, TablesTyped, Growth, Written, Kept, Searchable, Listed, Marked, Row
<1>4. CASE listings' = Append(listings, new)
  <2> HIDE DEF new
  <2>1. listings' \in Seq(Seq(Rows)) BY <1>1, <1>2, <1>4
  <2>2. \A i \in DOMAIN listings : i \in DOMAIN listings' /\ listings'[i] = listings[i]
    BY <1>1, <1>2, <1>4
  <2>3. Listed \subseteq Listed' /\ Marked \subseteq Marked'
    BY <2>2 DEF Listed, Marked, Row
  <2> QED BY <2>1, <2>3 DEF Sound, TablesTyped, Growth, Written, Kept, Searchable
<1> QED BY <1>3, <1>4 DEF UpsertCandidates

\* A status is only ever raised from "proposed".
LEMMA StatusWritten ==
  ASSUME TablesTyped, NEW id \in Listed, NEW s \in {"selected", "analyzed"}, UpdateStatus(id, s),
         UNCHANGED <<session, workspaces, index, comparisons, elsewhere, ghosts>>
  PROVE  Sound /\ id \in Marked'
<1>1. listings \in Seq(Seq(Rows)) /\ id[1] \in DOMAIN listings /\ id[2] \in DOMAIN listings[id[1]]
  BY DEF TablesTyped, Listed
<1> DEFINE row == [listings[id[1]][id[2]] EXCEPT !.status = s]
           listing == [listings[id[1]] EXCEPT ![id[2]] = row]
<1>2. listings[id[1]] \in Seq(Rows) BY <1>1
<1>3. row \in Rows /\ row.status = s
  <2>1. listings[id[1]][id[2]] \in Rows BY <1>1, <1>2
  <2> QED BY <2>1 DEF Rows, Statuses
<1>4. listings' = [listings EXCEPT ![id[1]] = listing] BY DEF UpdateStatus
<1> HIDE DEF row
<1>5. listing \in Seq(Rows) /\ DOMAIN listing = DOMAIN listings[id[1]]
  <2>1. PICK n \in Nat : listings[id[1]] \in [1..n -> Rows] BY <1>2
  <2>2. listing \in [1..n -> Rows] BY <1>3, <2>1
  <2> QED BY <2>1, <2>2
<1>6. listing[id[2]] = row /\ \A k \in DOMAIN listing \ {id[2]} : listing[k] = listings[id[1]][k]
  BY <1>1, <1>2
<1> HIDE DEF listing
<1>7. listings' \in Seq(Seq(Rows)) BY <1>1, <1>4, <1>5
<1>8. /\ DOMAIN listings' = DOMAIN listings /\ listings'[id[1]] = listing
      /\ \A i \in DOMAIN listings \ {id[1]} : listings'[i] = listings[i]
  BY <1>1, <1>4
<1>9. Listed' = Listed BY <1>5, <1>8 DEF Listed
<1>10. \A j \in Listed : listings'[j[1]][j[2]].status = s \/ listings'[j[1]][j[2]] = listings[j[1]][j[2]]
  BY <1>3, <1>5, <1>6, <1>8 DEF Listed
<1>11. Marked \subseteq Marked' BY <1>9, <1>10 DEF Marked, Row
<1>12. listings'[id[1]][id[2]].status # "proposed" BY <1>3, <1>6, <1>8
<1>13. id \in Marked' BY <1>9, <1>12 DEF Marked, Row
<1> QED BY <1>7, <1>9, <1>11, <1>13 DEF Sound, TablesTyped, Growth, Written, Kept, Searchable

LEMMA WorkspaceWritten ==
  ASSUME TablesTyped, NEW p \in Papers, NEW content \in {"own", "other"}, UpsertWorkspace(p, content),
         UNCHANGED <<session, listings, index, comparisons, elsewhere, ghosts>>
  PROVE  Sound /\ p \in Written'
BY DEF UpsertWorkspace, Contents, Sound, TablesTyped, Growth, Written, Kept, Searchable, Listed, Marked, Row

\* Rows and points under the common names may pass to this session, and
\* copies are added.
LEMMA ChunksWritten ==
  ASSUME TablesTyped, NEW p \in Papers,
         \/ UpsertChunks(p) /\ UNCHANGED <<points, clones, clonePoints>>
         \/ UpsertPoints(p) /\ UNCHANGED <<rows, clones, clonePoints>>
         \/ CloneChunks(p) /\ UNCHANGED <<rows, points, clonePoints>>
         \/ ClonePoints(p) /\ UNCHANGED <<rows, points, clones>>,
         UNCHANGED <<session, listings, workspaces, comparisons, elsewhere, ghosts>>
  PROVE  Sound
BY DEF UpsertChunks, UpsertPoints, CloneChunks, ClonePoints, Holders,
       Sound, TablesTyped, Growth, Written, Kept, Searchable, Listed, Marked, Row

-----------------------------------------------------------------------------
(* The locals again: what a request relies on is there when it gets there.   *)

LEMMA OthersStay ==
  ASSUME NEW o \in Requests, ThreadOK(o), Growth, thread'[o] = thread[o]
  PROVE  ThreadOK(o)'
<1>1. PaperInHand(thread[o])' BY DEF ThreadOK, PaperInHand, Growth, CachedSteps, Adding
<1>2. QueueInHand(thread[o])' BY DEF ThreadOK, QueueInHand, Growth
<1>3. PicksInHand(thread[o])'
  <2>1. \A q : q \in Seq(Listed) => q \in Seq(Listed') BY DEF Growth
  <2> QED BY <2>1 DEF ThreadOK, PicksInHand, Growth
<1>4. CallInHand(thread[o])' BY DEF ThreadOK, CallInHand
<1> QED BY <1>1, <1>2, <1>3, <1>4 DEF ThreadOK

LEMMA GotoFields ==
  ASSUME thread \in [Requests -> ThreadRecords], NEW r \in Requests, NEW s \in Steps, Goto(r, s)
  PROVE  /\ thread'[r].step = s
         /\ thread'[r].call = thread[r].call /\ thread'[r].queue = thread[r].queue
         /\ thread'[r].paper = thread[r].paper /\ thread'[r].picked = thread[r].picked
         /\ thread'[r].done = thread[r].done /\ thread'[r].read = thread[r].read
BY SetStep DEF Goto

LEMMA EndOK ==
  ASSUME thread \in [Requests -> ThreadRecords], NEW r \in Requests, End(r)
  PROVE  ThreadOK(r)'
<1>1. thread'[r] = Idle BY DEF End
<1> QED
  BY <1>1, IdleTyped DEF ThreadOK, PaperInHand, QueueInHand, PicksInHand, CallInHand, CachedSteps, Adding

LEMMA ResultOK ==
  ASSUME thread \in [Requests -> ThreadRecords], NEW r \in Requests, NEW p \in Phases, Result(r, p),
         ThreadOK(r), Growth, thread[r].step # "report"
  PROVE  ThreadOK(r)'
<1>1. "respond" \in Steps BY DEF Steps
<1>2. /\ thread'[r].step = "respond"
      /\ thread'[r].call = thread[r].call /\ thread'[r].picked = thread[r].picked
  BY <1>1, SetStep, SetNext DEF Result
<1> QED
  BY <1>2 DEF ThreadOK, PaperInHand, QueueInHand, PicksInHand, CallInHand, CachedSteps, Adding, Growth

\* The steps at which a request has nothing in hand but its call and its picks.
LEMMA PlainOK ==
  ASSUME thread \in [Requests -> ThreadRecords], NEW r \in Requests, ThreadOK(r), Growth,
         thread[r].step # "report",
         NEW s \in {"route", "pick", "search", "converse", "respond", "analyzed", "gate", "idle"},
         Goto(r, s)
  PROVE  ThreadOK(r)'
<1>1. s \in Steps BY DEF Steps
<1>2. /\ thread'[r].step = s
      /\ thread'[r].call = thread[r].call /\ thread'[r].picked = thread[r].picked
  BY <1>1, GotoFields
<1> QED
  BY <1>2 DEF ThreadOK, PaperInHand, QueueInHand, PicksInHand, CallInHand, CachedSteps, Adding, Growth

LEMMA EmptyIsShort ==
  ASSUME NEW S, NEW q \in Seq(S)
  PROVE  q = <<>> <=> Len(q) = 0
<1>1. Len(<<>>) = 0 OBVIOUS
<1>2. q = <<>> => Len(q) = 0 BY <1>1
<1>3. Len(q) = 0 => q = <<>> OBVIOUS
<1> QED BY <1>2, <1>3

LEMMA HeadAndTail ==
  ASSUME NEW S, NEW q \in Seq(S), q # <<>>
  PROVE  /\ Head(q) \in S /\ Tail(q) \in Seq(S)
         /\ Len(q) = 1 <=> Tail(q) = <<>>
         /\ Range(q) \subseteq {Head(q)} \cup Range(Tail(q))
<1>1. Len(q) \in Nat \ {0} /\ DOMAIN q = 1..Len(q) OBVIOUS
<1>2. Head(q) = q[1] /\ Head(q) \in S /\ Tail(q) \in Seq(S) OBVIOUS
<1>3. Len(Tail(q)) = Len(q) - 1 /\ DOMAIN Tail(q) = 1..(Len(q) - 1) BY <1>1, <1>2
<1>4. Len(q) = 1 <=> Tail(q) = <<>>
  <2>1. Tail(q) = <<>> <=> Len(Tail(q)) = 0 BY <1>2, EmptyIsShort
  <2>2. Len(q) = 1 <=> Len(Tail(q)) = 0 BY <1>1, <1>3
  <2> QED BY <2>1, <2>2
<1>5. ASSUME NEW k \in DOMAIN q, k # 1 PROVE k - 1 \in DOMAIN Tail(q) /\ Tail(q)[k - 1] = q[k]
  BY <1>1, <1>3, <1>5
<1>6. \A k \in DOMAIN q : q[k] \in {Head(q)} \cup Range(Tail(q)) BY <1>2, <1>5 DEF Range
<1> QED BY <1>2, <1>4, <1>6 DEF Range

LEMMA RangeOfSeq ==
  ASSUME NEW S, NEW q \in Seq(S)
  PROVE  Range(q) \subseteq S
<1>1. \A k \in DOMAIN q : q[k] \in S OBVIOUS
<1> QED BY <1>1 DEF Range

LEMMA ListedHavePapers ==
  ASSUME TablesTyped, NEW id \in Listed
  PROVE  Row(id) \in Rows /\ Row(id).paper \in Papers
<1>1. listings[id[1]] \in Seq(Rows) BY DEF TablesTyped, Listed
<1>2. listings[id[1]][id[2]] \in Rows BY <1>1 DEF Listed
<1> QED BY <1>2 DEF Row, Rows

LEMMA RangeAppends ==
  ASSUME NEW S, NEW q \in Seq(S), NEW x \in S
  PROVE  Append(q, x) \in Seq(S) /\ Range(Append(q, x)) \subseteq Range(q) \cup {x}
<1>1. /\ DOMAIN q = 1..Len(q) /\ Len(q) \in Nat
      /\ Append(q, x) \in Seq(S) /\ DOMAIN Append(q, x) = 1..(Len(q) + 1)
  OBVIOUS
<1>2. \A k \in DOMAIN Append(q, x) :
        IF k = Len(q) + 1 THEN Append(q, x)[k] = x
        ELSE k \in DOMAIN q /\ Append(q, x)[k] = q[k]
  BY <1>1
<1>3. \A k \in DOMAIN Append(q, x) : Append(q, x)[k] \in Range(q) \cup {x}
  BY <1>2 DEF Range
<1> QED BY <1>1, <1>3 DEF Range

LEMMA ComparisonWritten ==
  ASSUME TablesTyped, UNCHANGED <<session, listings, workspaces, index, elsewhere, ghosts>>
  PROVE  Sound
BY DEF Sound, TablesTyped, Growth, Written, Kept, Searchable, Listed, Marked, Row

Keeps(r) == Sound /\ ThreadOK(r)'

LEMMA StepKeeps ==
  ASSUME IInv, NEW r \in Requests, Step(r)
  PROVE  Keeps(r)
<1> USE DEF Keeps
<1>a. TablesTyped /\ thread \in [Requests -> ThreadRecords] /\ ThreadOK(r) /\ thread[r] \in ThreadRecords
  BY DEF IInv, Typed
<1>n. UNCHANGED <<store, ghosts>> => Sound BY <1>a, NothingWritten
<1>e. End(r) => ThreadOK(r)' BY <1>a, EndOK
<1>p. ASSUME Growth, thread[r].step # "report",
             NEW s \in {"route", "pick", "search", "converse", "respond", "analyzed", "gate", "idle"}, Goto(r, s)
      PROVE  ThreadOK(r)'
  BY <1>a, <1>p, PlainOK
<1>r. ASSUME Growth, thread[r].step # "report", NEW p \in Phases, Result(r, p)
      PROVE  ThreadOK(r)'
  BY <1>a, <1>r, ResultOK
<1>1. CASE Gate(r)
  BY <1>1, <1>n, <1>e, <1>p DEF Gate, At, Sound
<1>2. CASE Route(r)
  <2>1. Sound /\ thread[r].step = "route" BY <1>2, <1>n DEF Route, At
  <2>2. CASE \E s \in {"pick", "search", "converse"} : Goto(r, s)
    BY <1>p, <2>1, <2>2 DEF Sound
  <2>3. CASE /\ thread[r].call.kind = "url"
             /\ thread' = [thread EXCEPT ![r].step = "analysis", ![r].queue = <<thread[r].call.paper>>]
    <3>1. "analysis" \in Steps /\ <<thread[r].call.paper>> \in Seq(Papers)
      BY <1>a, <2>3 DEF Steps, ThreadOK, CallInHand
    <3>2. /\ thread'[r].step = "analysis" /\ thread'[r].queue \in Seq(Papers)
          /\ thread'[r].call = thread[r].call /\ thread'[r].picked = thread[r].picked
      BY <1>a, <2>3, <3>1, SetStep, SetQueue
    <3> QED
      BY <1>a, <2>1, <3>2
      DEF Sound, Growth, ThreadOK, PaperInHand, QueueInHand, PicksInHand, CallInHand, CachedSteps, Adding
  <2> QED
    <3>1. thread[r].call.kind \in Kinds BY <1>a, LocalTypes DEF CallRecords
    <3> QED BY <1>2, <2>2, <2>3, <3>1 DEF Route, Kinds
<1>3. CASE Converse(r)
  BY <1>3, <1>n, <1>e, <1>p DEF Converse, At, Sound
<1>4. CASE Fail(r)
  <2>1. "failed" \in Phases BY DEF Phases
  <2> QED BY <1>4, <1>a, <1>e, <2>1, PhaseWritten DEF Fail
<1>5. CASE Respond(r)
  <2>1. Sound BY <1>5, <1>a, LocalTypes, PhaseWritten DEF Respond
  <2> QED BY <1>5, <1>e, <1>p, <2>1 DEF Respond, At, Sound
<1>6. CASE Search(r)
  <2>1. Sound BY <1>6, <1>a, CandidatesWritten, PapersAssumption DEF Search
  <2>2. "selection" \in Phases BY DEF Phases
  <2> QED BY <1>6, <1>r, <2>1, <2>2 DEF Search, At, Sound
<1>7. CASE Pick(r)
  <2> DEFINE ranks == thread[r].call.ranks
             queue == [k \in DOMAIN ranks |-> <<Latest, ranks[k]>>]
             picked == {<<Latest, k>> : k \in ParsedRanks(ranks)}
  <2>1. Sound /\ thread[r].step = "pick" BY <1>7, <1>n DEF Pick, At
  <2>2. CASE Result(r, "selection")
    <3>1. "selection" \in Phases BY DEF Phases
    <3> QED BY <1>r, <2>1, <2>2, <3>1 DEF Sound
  <2>3. CASE /\ ParsedRanks(ranks) # {} /\ ParsedRanks(ranks) \subseteq LatestRanks
             /\ thread' = [thread EXCEPT ![r].step = "mark", ![r].picked = picked, ![r].queue = queue]
    <3>1. ranks \in Seq(Nat) BY <1>a, LocalTypes DEF CallRecords
    <3>2. /\ queue \in Seq(Listed) /\ queue \in Seq(Ids) /\ picked \subseteq Ids
          /\ picked = Range(queue) /\ ranks # <<>> /\ IsFiniteSet(picked)
      BY <1>a, <2>3, <3>1, RanksAreIds
    <3>3. queue # <<>> BY <3>1, <3>2
    <3>4. \A i, j \in picked : i[1] = j[1] OBVIOUS
    <3>5. Range(queue) \subseteq Listed
      <4> HIDE DEF queue
      <4> QED BY <3>2, RangeOfSeq
    <3>6. "mark" \in Steps BY DEF Steps
    <3> HIDE DEF queue, picked
    <3>7. /\ thread'[r].step = "mark" /\ thread'[r].queue = queue
          /\ thread'[r].call = thread[r].call /\ thread'[r].picked = picked
      BY <1>a, <2>3, <3>2, <3>6, SetStep, SetPicked, SetQueue
    <3>8. queue \in Seq(Listed') /\ picked \subseteq Listed'
      BY <2>1, <3>2, <3>5 DEF Sound, Growth
    <3> QED
      BY <1>a, <2>1, <3>2, <3>3, <3>4, <3>7, <3>8
      DEF ThreadOK, PaperInHand, QueueInHand, PicksInHand, CallInHand, CachedSteps, Adding
  <2> QED BY <1>7, <2>2, <2>3 DEF Pick
<1>8. CASE Mark(r)
  <2> DEFINE queue == thread[r].queue
             rest == Tail(queue)
  <2>1. thread[r].step = "mark" /\ queue \in Seq(Listed) /\ queue # <<>>
    BY <1>8, <1>a DEF Mark, At, ThreadOK, PicksInHand
  <2>2. Head(queue) \in Listed /\ rest \in Seq(Listed) /\ (Len(queue) = 1 <=> rest = <<>>)
    BY <2>1, HeadAndTail
  <2>3. Range(queue) \subseteq {Head(queue)} \cup Range(rest)
    BY <2>1, HeadAndTail
  <2>4. Sound /\ Head(queue) \in Marked'
    BY <1>8, <1>a, <2>2, StatusWritten DEF Mark
  <2>5. PICK s \in {"mark", "save"} :
          /\ s = "save" <=> rest = <<>>
          /\ thread' = [thread EXCEPT ![r].queue = rest, ![r].step = s]
    <3> DEFINE step == IF Len(queue) = 1 THEN "save" ELSE "mark"
    <3>1. thread' = [thread EXCEPT ![r].queue = rest, ![r].step = step] BY <1>8 DEF Mark
    <3>2. step \in {"mark", "save"} /\ (step = "save" <=> rest = <<>>) BY <2>2
    <3> HIDE DEF step
    <3> QED BY <3>1, <3>2
  <2>6. s \in Steps /\ rest \in Seq(Ids)
    <3>1. Listed \subseteq Ids BY DEF Listed
    <3>2. s \in Steps BY DEF Steps
    <3> HIDE DEF rest
    <3> QED BY <2>2, <3>1, <3>2
  <2> HIDE DEF rest
  <2>7. /\ thread'[r].step = s /\ thread'[r].queue = rest
        /\ thread'[r].call = thread[r].call /\ thread'[r].picked = thread[r].picked
    BY <1>a, <2>5, <2>6, SetStep, SetQueue
  <2>8. thread[r].picked \subseteq Marked' \cup Range(rest)
    BY <1>a, <2>1, <2>3, <2>4 DEF ThreadOK, PicksInHand, Sound, Growth
  <2>9. rest = <<>> => Range(rest) = {} BY DEF Range
  <2>10. rest \in Seq(Listed') BY <2>2, <2>4 DEF Sound, Growth
  <2>11. /\ thread[r].picked \subseteq Listed' /\ IsFiniteSet(thread[r].picked)
         /\ \A i, j \in thread[r].picked : i[1] = j[1]
    BY <1>a, <2>1, <2>4 DEF ThreadOK, PicksInHand, Sound, Growth
  <2>12. PicksInHand(thread[r])'
    <3>1. /\ thread'[r].step \in {"mark", "save"}
          /\ thread'[r].step = "mark" <=> thread'[r].queue # <<>>
      BY <2>5, <2>7
    <3>2. thread'[r].picked \subseteq Listed' BY <2>7, <2>11
    <3>3. thread'[r].queue \in Seq(Listed') BY <2>7, <2>10
    <3>4. thread'[r].picked \subseteq Marked' \cup Range(thread'[r].queue) BY <2>7, <2>8
    <3>5. thread'[r].queue = <<>> => thread'[r].picked \subseteq Marked' BY <2>7, <2>8, <2>9
    <3>6. IsFiniteSet(thread'[r].picked) /\ \A i, j \in thread'[r].picked : i[1] = j[1]
      BY <2>7, <2>11
    <3> QED BY <3>1, <3>2, <3>3, <3>4, <3>5, <3>6 DEF PicksInHand
  <2>13. PaperInHand(thread[r])' /\ QueueInHand(thread[r])' /\ CallInHand(thread[r])'
    BY <1>a, <2>5, <2>7 DEF ThreadOK, PaperInHand, QueueInHand, CallInHand, CachedSteps, Adding
  <2> QED BY <2>4, <2>12, <2>13 DEF ThreadOK
<1>9. CASE Save(r)
  <2>1. thread[r].picked \in SUBSET Ids /\ thread[r].step = "save"
    BY <1>9, <1>a DEF Save, At, ThreadOK, PicksInHand, Listed
  <2>2. Sound BY <1>9, <1>a, <2>1, SelectionWritten DEF Save
  <2>3. "idle" \in Phases BY DEF Phases
  <2> QED BY <1>9, <1>r, <2>1, <2>2, <2>3 DEF Save, Sound
<1>10. CASE Resolve(r)
  <2> DEFINE ids == session.selected
  <2>1. Sound /\ thread[r].step = "resolve" BY <1>10, <1>n DEF Resolve, At
  <2>2. CASE End(r) BY <1>e, <2>1, <2>2
  <2>3. CASE \E order \in [1..Cardinality(ids) -> ids] :
               thread' = [thread EXCEPT ![r].step = "analysis", ![r].picked = ids,
                            ![r].queue = [k \in DOMAIN order |-> Row(order[k]).paper]]
    <3>1. PICK order \in [1..Cardinality(ids) -> ids] :
             thread' = [thread EXCEPT ![r].step = "analysis", ![r].picked = ids,
                          ![r].queue = [k \in DOMAIN order |-> Row(order[k]).paper]]
      BY <2>3
    <3> DEFINE queue == [k \in DOMAIN order |-> Row(order[k]).paper]
    <3>2. ids \subseteq Listed /\ ids \subseteq Ids /\ IsFiniteSet(ids)
      BY DEF IInv, TablesInv, SelectionInv, Marked, Listed
    <3>3. \A id \in ids : Row(id).paper \in Papers BY <1>a, <3>2, ListedHavePapers
    <3>4. queue \in Seq(Papers)
      <4>1. Cardinality(ids) \in Nat BY <3>2, FS_CardinalityType
      <4>2. DOMAIN order = 1..Cardinality(ids) /\ \A k \in DOMAIN order : order[k] \in ids OBVIOUS
      <4>3. \A k \in DOMAIN order : Row(order[k]).paper \in Papers BY <3>3, <4>2
      <4>4. queue \in [1..Cardinality(ids) -> Papers] BY <4>2, <4>3
      <4> HIDE DEF queue
      <4> QED BY <4>1, <4>4
    <3>5. "analysis" \in Steps BY DEF Steps
    <3> HIDE DEF queue
    <3>6. thread' = [thread EXCEPT ![r].step = "analysis", ![r].picked = ids, ![r].queue = queue]
      BY <3>1 DEF queue
    <3>7. /\ thread'[r].step = "analysis" /\ thread'[r].queue = queue
          /\ thread'[r].call = thread[r].call /\ thread'[r].picked = ids
      BY <1>a, <3>2, <3>4, <3>5, <3>6, SetStep, SetPicked, SetQueue
    <3> QED
      BY <1>a, <2>1, <3>2, <3>4, <3>7
      DEF Sound, Growth, ThreadOK, PaperInHand, QueueInHand, PicksInHand, CallInHand, CachedSteps, Adding
  <2> QED BY <1>10, <2>2, <2>3 DEF Resolve
<1>11. CASE MarkAnalyzed(r)
  <2>1. thread[r].step = "analyzed" /\ thread[r].picked \subseteq Listed
    BY <1>11, <1>a DEF MarkAnalyzed, At, ThreadOK, PicksInHand
  <2>2. CASE End(r) /\ UNCHANGED listings
    BY <1>11, <1>n, <1>e, <2>2 DEF MarkAnalyzed
  <2>3. CASE \E id \in thread[r].picked :
               UpdateStatus(id, "analyzed") /\ thread' = [thread EXCEPT ![r].picked = @ \ {id}]
    <3>1. PICK id \in thread[r].picked :
            UpdateStatus(id, "analyzed") /\ thread' = [thread EXCEPT ![r].picked = @ \ {id}]
      BY <2>3
    <3>2. Sound BY <1>11, <1>a, <2>1, <3>1, StatusWritten DEF MarkAnalyzed
    <3>3. thread[r].picked \ {id} \in (SUBSET Papers) \cup (SUBSET Ids)
      BY <2>1 DEF Listed
    <3>4. /\ thread'[r].step = "analyzed" /\ thread'[r].call = thread[r].call
          /\ thread'[r].picked = thread[r].picked \ {id}
      BY <1>a, <2>1, <3>1, <3>3, SetPicked
    <3> QED
      BY <1>a, <2>1, <3>2, <3>4
      DEF Sound, Growth, ThreadOK, PaperInHand, QueueInHand, PicksInHand, CallInHand, CachedSteps, Adding
  <2> QED BY <1>11, <2>2, <2>3 DEF MarkAnalyzed
<1>12. CASE Analyze(r)
  <2> DEFINE p == Head(thread[r].queue)
             rest == Tail(thread[r].queue)
  <2>1. thread[r].step = "analysis" /\ thread[r].queue \in Seq(Papers) /\ thread[r].queue # <<>>
    BY <1>12, <1>a DEF Analyze, At, ThreadOK, QueueInHand
  <2>2. p \in Papers /\ rest \in Seq(Papers) BY <2>1, HeadAndTail
  <2> HIDE DEF p, rest
  <2>3. Sound
    <3>1. CASE UNCHANGED rows BY <1>12, <1>n, <3>1 DEF Analyze
    <3>2. CASE UpsertChunks(p) BY <1>12, <1>a, <2>2, <3>2, ChunksWritten DEF Analyze
    <3> QED BY <1>12, <3>1, <3>2 DEF Analyze, p
  <2>4. PICK s \in {"analysis", "embed"}, completed \in SUBSET Papers :
          thread' = [thread EXCEPT ![r].queue = rest, ![r].step = s, ![r].paper = p,
                                   ![r].done = @ \cup completed]
    BY <1>12, <2>2, {} \in SUBSET Papers, {p} \in SUBSET Papers DEF Analyze, p, rest
  <2>5. s \in Steps BY DEF Steps
  <2>6. /\ thread'[r].step = s /\ thread'[r].queue = rest /\ thread'[r].paper = p
        /\ thread'[r].call = thread[r].call /\ thread'[r].picked = thread[r].picked
    <3> DEFINE t1 == [thread[r] EXCEPT !.queue = rest]
               t2 == [t1 EXCEPT !.step = s]
               t3 == [t2 EXCEPT !.paper = p]
    <3>1. /\ t1 \in ThreadRecords /\ t1.queue = rest /\ t1.call = thread[r].call
          /\ t1.picked = thread[r].picked
      BY <1>a, <2>2, SetQueue
    <3>2. /\ t2 \in ThreadRecords /\ t2.step = s /\ t2.queue = rest /\ t2.call = thread[r].call
          /\ t2.picked = thread[r].picked
      BY <2>5, <3>1, SetStep
    <3>3. /\ t3 \in ThreadRecords /\ t3.paper = p /\ t3.step = s /\ t3.queue = rest
          /\ t3.call = thread[r].call /\ t3.picked = thread[r].picked
      BY <2>2, <3>2, SetPaper
    <3>4. t3.done \cup completed \in SUBSET Papers BY <3>3, LocalTypes
    <3>5. thread'[r] = [t3 EXCEPT !.done = t3.done \cup completed]
      BY <1>a, <2>4
    <3> HIDE DEF t3
    <3> QED BY <3>3, <3>4, <3>5, SetDone
  <2> QED
    BY <1>a, <2>1, <2>2, <2>3, <2>6
    DEF Sound, Growth, ThreadOK, PaperInHand, QueueInHand, PicksInHand, CallInHand, CachedSteps, Adding
<1>13. CASE Embed(r)
  <2> DEFINE p == thread[r].paper
  <2>1. CASE At(r, "embed") /\ Goto(r, "read") /\ UpsertPoints(p) /\ UNCHANGED clonePoints
    <3>1. thread[r].step = "embed" /\ p \in Papers /\ "read" \in Steps
      BY <1>a, <2>1 DEF At, ThreadOK, PaperInHand, CachedSteps, Steps
    <3>2. Sound BY <1>13, <1>a, <2>1, <3>1, ChunksWritten DEF Embed
    <3>3. p \in Kept' BY <1>a, <2>1, <3>1 DEF UpsertPoints, Kept, Searchable, TablesTyped
    <3> QED
      BY <1>a, <2>1, <3>1, <3>2, <3>3, GotoFields
      DEF Sound, Growth, ThreadOK, PaperInHand, QueueInHand, PicksInHand, CallInHand, CachedSteps, Adding
  <2>2. CASE At(r, "embed cached") /\ Goto(r, "read cached") /\ ClonePoints(p) /\ UNCHANGED points
    <3>1. thread[r].step = "embed cached" /\ p \in Papers /\ p \in clones /\ "read cached" \in Steps
      BY <1>a, <2>2 DEF At, ThreadOK, PaperInHand, CachedSteps, Steps
    <3>2. Sound BY <1>13, <1>a, <2>2, <3>1, ChunksWritten DEF Embed
    <3>3. p \in clonePoints' BY <2>2 DEF ClonePoints
    <3> QED
      BY <1>a, <2>2, <3>1, <3>2, <3>3, GotoFields
      DEF Sound, Growth, ThreadOK, PaperInHand, QueueInHand, PicksInHand, CallInHand, CachedSteps, Adding
  <2> QED BY <1>13, <2>1, <2>2 DEF Embed
<1>14. CASE ReadActive(r)
  <2> DEFINE p == thread[r].paper
  <2>1. Sound
    BY <1>14, <1>a
    DEF ReadActive, Sound, TablesTyped, Growth, Written, Kept, Searchable, Listed, Marked, Row
  <2>2. session.active \subseteq Kept BY DEF IInv, TablesInv, LostOnlyToAnother, Kept
  <2>3. ASSUME NEW s \in Steps, thread' = [thread EXCEPT ![r].step = s, ![r].read = session.active]
        PROVE  /\ thread'[r].step = s /\ thread'[r].read = session.active
               /\ thread'[r].call = thread[r].call /\ thread'[r].queue = thread[r].queue
               /\ thread'[r].paper = p /\ thread'[r].picked = thread[r].picked
    <3>1. session.active \subseteq Papers BY <1>a DEF TablesTyped
    <3> QED BY <1>a, <2>3, <3>1 DEF ThreadRecords
  <2>4. session' = session BY <1>14 DEF ReadActive
  <2>5. CASE At(r, "read") /\ p \in session.active /\ Goto(r, "analysis")
    <3>1. "analysis" \in Steps BY DEF Steps
    <3> QED
      BY <1>a, <2>1, <2>5, <3>1, GotoFields
      DEF At, Sound, Growth, ThreadOK, PaperInHand, QueueInHand, PicksInHand, CallInHand, CachedSteps, Adding
  <2>6. CASE At(r, "read cached") /\ p \in session.active /\ Goto(r, "activate")
    <3>1. "activate" \in Steps BY DEF Steps
    <3> QED
      BY <1>a, <2>1, <2>4, <2>6, <3>1, GotoFields
      DEF At, Sound, Growth, ThreadOK, PaperInHand, QueueInHand, PicksInHand, CallInHand, CachedSteps, Adding
  <2>7. CASE At(r, "read") /\ thread' = [thread EXCEPT ![r].step = "add", ![r].read = session.active]
    <3>1. "add" \in Steps BY DEF Steps
    <3>2. /\ thread'[r].step = "add" /\ thread'[r].read = session.active
          /\ thread'[r].paper = p /\ thread'[r].queue = thread[r].queue
          /\ thread'[r].call = thread[r].call /\ thread'[r].picked = thread[r].picked
      BY <2>3, <2>7, <3>1
    <3> QED
      BY <1>a, <2>1, <2>2, <2>7, <3>2
      DEF At, Sound, Growth, ThreadOK, PaperInHand, QueueInHand, PicksInHand, CallInHand, CachedSteps, Adding
  <2>8. CASE /\ At(r, "read cached")
             /\ thread' = [thread EXCEPT ![r].step = "add cached", ![r].read = session.active]
    <3>1. "add cached" \in Steps BY DEF Steps
    <3>2. /\ thread'[r].step = "add cached" /\ thread'[r].read = session.active
          /\ thread'[r].paper = p /\ thread'[r].queue = thread[r].queue
          /\ thread'[r].call = thread[r].call /\ thread'[r].picked = thread[r].picked
      BY <2>3, <2>8, <3>1
    <3> QED
      BY <1>a, <2>1, <2>2, <2>8, <3>2
      DEF At, Sound, Growth, ThreadOK, PaperInHand, QueueInHand, PicksInHand, CallInHand, CachedSteps, Adding
  <2> QED BY <1>14, <2>5, <2>6, <2>7, <2>8 DEF ReadActive
<1>15. CASE AddActive(r)
  <2> DEFINE p == thread[r].paper
  <2>1. thread[r].step \in Adding /\ p \in Papers
    BY <1>15, <1>a DEF AddActive, At, ThreadOK, PaperInHand, CachedSteps, Adding
  <2>2. ~crossed => session.active \subseteq thread[r].read
    BY <2>1 DEF IInv, TablesInv, AddersAlone
  <2>3. thread[r].read \in SUBSET Papers BY <1>a, LocalTypes
  <2>4. Sound /\ p \in session'.active
    <3>1. /\ AddActivePaper(thread[r].read, p)
          /\ UNCHANGED <<listings, workspaces, index, comparisons, elsewhere, calls, crossed, taken>>
      BY <1>15 DEF AddActive
    <3> QED BY <1>a, <2>1, <2>2, <2>3, <3>1, ActiveWritten
  <2>5. CASE At(r, "add") /\ Goto(r, "analysis")
    <3>1. "analysis" \in Steps BY DEF Steps
    <3> QED
      BY <1>a, <2>4, <2>5, <3>1, GotoFields
      DEF At, Sound, Growth, ThreadOK, PaperInHand, QueueInHand, PicksInHand, CallInHand, CachedSteps, Adding
  <2>6. CASE At(r, "add cached") /\ Goto(r, "activate")
    <3>1. "activate" \in Steps BY DEF Steps
    <3> QED
      BY <1>a, <2>4, <2>6, <3>1, GotoFields
      DEF At, Sound, Growth, ThreadOK, PaperInHand, QueueInHand, PicksInHand, CallInHand, CachedSteps, Adding
  <2> QED BY <1>15, <2>5, <2>6 DEF AddActive
<1>16. CASE IndexingFails(r)
  <2>1. "analysis" \in Steps BY DEF Steps
  <2>2. Sound /\ thread[r].step \in {"embed", "read", "add"} BY <1>16, <1>n DEF IndexingFails
  <2> QED
    BY <1>16, <1>a, <2>1, <2>2, GotoFields
    DEF IndexingFails, Sound, Growth, ThreadOK, PaperInHand, QueueInHand, PicksInHand, CallInHand,
        CachedSteps, Adding
<1>17. CASE EndAnalysis(r)
  <2>1. Sound /\ thread[r].step = "analysis" /\ thread[r].queue = <<>>
    BY <1>17, <1>n DEF EndAnalysis, At
  <2>2. CASE Result(r, "failed")
    <3>1. "failed" \in Phases BY DEF Phases
    <3> QED BY <1>r, <2>1, <2>2, <3>1 DEF Sound
  <2>3. CASE thread' = [thread EXCEPT ![r].step = "artifacts", ![r].next = "qa"]
    <3>1. "artifacts" \in Steps /\ "qa" \in Phases BY DEF Steps, Phases
    <3>2. /\ thread'[r].step = "artifacts" /\ thread'[r].queue = <<>>
          /\ thread'[r].call = thread[r].call /\ thread'[r].picked = thread[r].picked
      BY <1>a, <2>1, <2>3, <3>1, SetStep, SetNext
    <3>3. <<>> \in Seq(Papers) /\ Range(<<>>) = {} BY DEF Range
    <3> QED
      BY <1>a, <2>1, <3>2, <3>3
      DEF Sound, Growth, ThreadOK, PaperInHand, QueueInHand, PicksInHand, CallInHand, CachedSteps, Adding
  <2> QED BY <1>17, <2>2, <2>3 DEF EndAnalysis
<1>18. CASE PersistWorkspace(r)
  <2>1. /\ thread[r].step = "artifacts" /\ thread[r].queue \in Seq(Papers)
        /\ Range(thread[r].queue) \subseteq Written
    BY <1>18, <1>a DEF PersistWorkspace, At, ThreadOK, QueueInHand
  <2>2. PICK p \in thread[r].done :
          /\ UpsertWorkspace(p, "own")
          /\ thread' = [thread EXCEPT ![r].done = @ \ {p}, ![r].queue = Append(@, p)]
    BY <1>18 DEF PersistWorkspace
  <2>3. p \in Papers /\ thread[r].done \ {p} \in SUBSET Papers BY <1>a, LocalTypes
  <2>4. Sound /\ p \in Written' BY <1>18, <1>a, <2>2, <2>3, WorkspaceWritten DEF PersistWorkspace
  <2> DEFINE saved == Append(thread[r].queue, p)
  <2>5. saved \in Seq(Papers) /\ Range(saved) \subseteq Written'
    BY <2>1, <2>3, <2>4, RangeAppends DEF Sound, Growth
  <2>6. /\ thread'[r].step = "artifacts" /\ thread'[r].queue = saved
        /\ thread'[r].call = thread[r].call /\ thread'[r].picked = thread[r].picked
    <3> DEFINE t1 == [thread[r] EXCEPT !.done = thread[r].done \ {p}]
    <3>1. /\ t1 \in ThreadRecords /\ t1.step = "artifacts"
          /\ t1.call = thread[r].call /\ t1.picked = thread[r].picked
      BY <1>a, <2>1, <2>3, SetDone
    <3>2. thread'[r] = [t1 EXCEPT !.queue = saved] BY <1>a, <2>2
    <3> HIDE DEF t1, saved
    <3> QED BY <2>5, <3>1, <3>2, SetQueue
  <2> HIDE DEF saved
  <2> QED
    BY <1>a, <2>1, <2>4, <2>5, <2>6
    DEF Sound, Growth, ThreadOK, PaperInHand, QueueInHand, PicksInHand, CallInHand, CachedSteps, Adding
<1>19. CASE PersistComparison(r)
  <2>1. Sound BY <1>19, <1>a, ComparisonWritten DEF PersistComparison
  <2>2. "qa" \in Phases BY DEF Phases
  <2> QED BY <1>19, <1>r, <2>1, <2>2 DEF PersistComparison, At, Sound
<1>20. CASE PersistFails(r)
  <2>1. "qa" \in Phases BY DEF Phases
  <2> QED BY <1>20, <1>n, <1>r, <2>1 DEF PersistFails, At, Sound
<1>21. CASE Find(r)
  <2> DEFINE p == thread[r].call.paper
  <2>1. Sound /\ thread[r].step = "find" BY <1>21, <1>n DEF Find, At
  <2>2. CASE Goto(r, "route") BY <1>p, <2>1, <2>2 DEF Sound
  <2>3. CASE thread' = [thread EXCEPT ![r].step = "clone", ![r].paper = p]
    <3>1. "clone" \in Steps BY DEF Steps
    <3>2. p \in Papers BY <1>a, <2>1 DEF ThreadOK, CallInHand
    <3>3. /\ thread'[r].step = "clone" /\ thread'[r].paper = p
          /\ thread'[r].call = thread[r].call /\ thread'[r].picked = thread[r].picked
      <4> DEFINE t1 == [thread[r] EXCEPT !.step = "clone"]
      <4>1. /\ t1 \in ThreadRecords /\ t1.step = "clone"
            /\ t1.call = thread[r].call /\ t1.picked = thread[r].picked
        BY <1>a, <3>1, SetStep
      <4>2. thread'[r] = [t1 EXCEPT !.paper = p] BY <1>a, <2>3
      <4> HIDE DEF t1
      <4> QED BY <3>2, <4>1, <4>2, SetPaper
    <3> QED
      BY <1>a, <2>1, <3>2, <3>3
      DEF Sound, Growth, ThreadOK, PaperInHand, QueueInHand, PicksInHand, CallInHand, CachedSteps, Adding
  <2> QED BY <1>21, <2>2, <2>3 DEF Find
<1>22. CASE Clone(r)
  <2> DEFINE p == thread[r].paper
  <2>1. thread[r].step = "clone" /\ p \in Papers
    BY <1>22, <1>a DEF Clone, At, ThreadOK, PaperInHand, CachedSteps
  <2>2. CASE UNCHANGED workspaces /\ End(r)
    BY <1>22, <1>n, <1>e, <2>2 DEF Clone
  <2>3. ASSUME Sound, p \in Written', Goto(r, "copy") PROVE ThreadOK(r)'
    <3>1. "copy" \in Steps BY DEF Steps
    <3> QED
      BY <1>a, <2>1, <2>3, <3>1, GotoFields
      DEF Sound, Growth, ThreadOK, PaperInHand, QueueInHand, PicksInHand, CallInHand, CachedSteps, Adding
  <2>4. CASE ReadyForCache(source[p]) /\ UpsertWorkspace(p, source[p]) /\ Goto(r, "copy")
    <3>1. source[p] \in {"own", "other"} BY <2>4 DEF ReadyForCache
    <3>2. Sound /\ p \in Written' BY <1>22, <1>a, <2>1, <2>4, <3>1, WorkspaceWritten DEF Clone
    <3> QED BY <2>3, <2>4, <3>2
  <2>5. CASE CacheCompatible(p) /\ UNCHANGED workspaces /\ Goto(r, "copy")
    <3>1. Sound BY <1>22, <1>n, <2>5 DEF Clone
    <3>2. p \in Written BY <2>1, <2>5 DEF CacheCompatible, ReadyForCache, Written
    <3> QED BY <2>3, <2>5, <3>1, <3>2 DEF Sound, Growth
  <2> QED BY <1>22, <2>2, <2>4, <2>5 DEF Clone
<1>23. CASE CopyChunks(r)
  <2> DEFINE p == thread[r].paper
  <2>1. thread[r].step = "copy" /\ p \in Papers /\ p \in Written
    BY <1>23, <1>a DEF CopyChunks, At, ThreadOK, PaperInHand, CachedSteps
  <2>2. CASE End(r) /\ UNCHANGED clones
    BY <1>23, <1>n, <1>e, <2>2 DEF CopyChunks
  <2>3. CASE CloneChunks(p) /\ Goto(r, "embed cached")
    <3>1. Sound BY <1>23, <1>a, <2>1, <2>3, ChunksWritten DEF CopyChunks
    <3>2. p \in clones' BY <2>3 DEF CloneChunks
    <3>3. "embed cached" \in Steps BY DEF Steps
    <3> QED
      BY <1>a, <2>1, <2>3, <3>1, <3>2, <3>3, GotoFields
      DEF Sound, Growth, ThreadOK, PaperInHand, QueueInHand, PicksInHand, CallInHand, CachedSteps, Adding
  <2> QED BY <1>23, <2>2, <2>3 DEF CopyChunks
<1>24. CASE Activate(r)
  <2>1. "qa" \in Phases BY DEF Phases
  <2> QED BY <1>24, <1>a, <1>e, <2>1, PhaseWritten DEF Activate
<1>25. CASE Load(r)
  <2> DEFINE c == thread[r].call
             ids == IF c.ids # {} THEN c.ids ELSE session.active
  <2>1. Sound /\ thread[r].step = "load" BY <1>25, <1>n DEF Load, At
  <2>2. CASE End(r) BY <1>e, <2>1, <2>2
  <2>3. CASE /\ Cardinality(ids) >= 2 /\ \A p \in ids : workspaces[p] # "none"
             /\ thread' = [thread EXCEPT ![r].step = "report", ![r].picked = ids]
    <3>1. ids \subseteq Papers
      <4>1. c.ids \subseteq Papers BY <1>a, LocalTypes DEF CallRecords
      <4> QED BY <1>a, <4>1 DEF TablesTyped
    <3> HIDE DEF ids
    <3>2. ids \subseteq Written BY <2>3, <3>1 DEF Written
    <3>3. "report" \in Steps BY DEF Steps
    <3>4. /\ thread'[r].step = "report" /\ thread'[r].picked = ids /\ thread'[r].call = c
      <4> DEFINE t1 == [thread[r] EXCEPT !.step = "report"]
      <4>1. t1 \in ThreadRecords /\ t1.step = "report" /\ t1.call = c
        BY <1>a, <3>3, SetStep
      <4>2. thread'[r] = [t1 EXCEPT !.picked = ids] BY <1>a, <2>3
      <4> HIDE DEF t1, c
      <4> QED BY <3>1, <4>1, <4>2, SetPicked
    <3> QED
      BY <1>a, <2>1, <2>3, <3>2, <3>4
      DEF Sound, Growth, ThreadOK, PaperInHand, QueueInHand, PicksInHand, CallInHand, CachedSteps, Adding
  <2> QED BY <1>25, <2>2, <2>3 DEF Load
<1>26. CASE Report(r)
  BY <1>26, <1>a, <1>e, ComparisonWritten DEF Report
<1> QED
  BY <1>1, <1>2, <1>3, <1>4, <1>5, <1>6, <1>7, <1>8, <1>9, <1>10, <1>11, <1>12, <1>13,
     <1>14, <1>15, <1>16, <1>17, <1>18, <1>19, <1>20, <1>21, <1>22, <1>23, <1>24, <1>25, <1>26
  DEF Step

-----------------------------------------------------------------------------
(* What each step leaves alone *)

LEMMA StepGhosts ==
  ASSUME IInv, NEW r \in Requests, Step(r)
  PROVE  /\ calls' = calls /\ taken' = taken
         /\ AddActive(r) \/ (added' = added /\ session'.active = session.active)
         /\ ReadActive(r) \/ crossed' = crossed
         /\ Save(r) \/ session'.selected = session.selected
         /\ PersistComparison(r) \/ Report(r) \/ comparisons' = comparisons
<1>a. TablesTyped BY DEF IInv, Typed
<1>u. ASSUME NEW p, UpdatePhase(p)
      PROVE  session'.active = session.active /\ session'.selected = session.selected
  BY <1>a, <1>u DEF TablesTyped, UpdatePhase
<1>v. ASSUME NEW ids, SetSelectedCandidateIds(ids) PROVE session'.active = session.active
  BY <1>a, <1>v DEF TablesTyped, SetSelectedCandidateIds
<1>w. ASSUME NEW read, NEW p, AddActivePaper(read, p) PROVE session'.selected = session.selected
  BY <1>a, <1>w DEF TablesTyped, AddActivePaper
<1>1. CASE Gate(r) \/ Route(r) \/ Converse(r) BY <1>1 DEF Gate, Route, Converse
<1>2. CASE Fail(r) BY <1>2, <1>u DEF Fail
<1>3. CASE Respond(r) BY <1>3, <1>u DEF Respond
<1>4. CASE Search(r) \/ Pick(r) \/ Mark(r) BY <1>4 DEF Search, Pick, Mark
<1>5. CASE Save(r) BY <1>5, <1>v DEF Save
<1>6. CASE Resolve(r) \/ MarkAnalyzed(r) \/ Analyze(r) \/ Embed(r)
  BY <1>6 DEF Resolve, MarkAnalyzed, Analyze, Embed
<1>7. CASE ReadActive(r) BY <1>7 DEF ReadActive
<1>8. CASE AddActive(r) BY <1>8, <1>w DEF AddActive
<1>9. CASE IndexingFails(r) \/ EndAnalysis(r) \/ PersistWorkspace(r) \/ PersistFails(r)
  BY <1>9 DEF IndexingFails, EndAnalysis, PersistWorkspace, PersistFails
<1>10. CASE PersistComparison(r) BY <1>10 DEF PersistComparison
<1>11. CASE Find(r) \/ Clone(r) \/ CopyChunks(r) BY <1>11 DEF Find, Clone, CopyChunks
<1>12. CASE Activate(r) BY <1>12, <1>u DEF Activate
<1>13. CASE Load(r) BY <1>13 DEF Load
<1>14. CASE Report(r) BY <1>14 DEF Report
<1> QED
  BY <1>1, <1>2, <1>3, <1>4, <1>5, <1>6, <1>7, <1>8, <1>9, <1>10, <1>11, <1>12, <1>13, <1>14
  DEF Step

\* Only the step that reads the list makes a request one that will write it.
LEMMA StepAdds ==
  ASSUME IInv, NEW r \in Requests, Step(r), ~ReadActive(r)
  PROVE  thread'[r].step \notin Adding
<1>a. thread \in [Requests -> ThreadRecords] /\ thread[r] \in ThreadRecords BY DEF IInv, Typed
<1>g. ASSUME NEW s, s \notin Adding, Goto(r, s) PROVE thread'[r].step \notin Adding
  BY <1>a, <1>g DEF Goto, ThreadRecords
<1>e. End(r) => thread'[r].step \notin Adding
  BY <1>a, IdleTyped DEF End, Adding
<1>r. ASSUME NEW p, Result(r, p) PROVE thread'[r].step \notin Adding
  BY <1>a, <1>r DEF Result, Adding, ThreadRecords
<1>1. CASE Gate(r) \/ Converse(r) \/ Fail(r) \/ Respond(r)
  BY <1>1, <1>g, <1>e, <1>r DEF Gate, Converse, Fail, Respond, Adding
<1>2. CASE Route(r)
  <2>1. CASE \E s \in {"pick", "search", "converse"} : Goto(r, s) BY <2>1, <1>g DEF Adding
  <2>2. CASE thread' = [thread EXCEPT ![r].step = "analysis", ![r].queue = <<thread[r].call.paper>>]
    BY <2>2, <1>a DEF Adding, ThreadRecords
  <2> QED
    <3>1. thread[r].call.kind \in Kinds BY <1>a, LocalTypes DEF CallRecords
    <3> QED BY <1>2, <2>1, <2>2, <3>1 DEF Route, Kinds
<1>3. CASE Search(r) \/ Save(r) BY <1>3, <1>r DEF Search, Save
<1>4. CASE Pick(r)
  <2> DEFINE queue == [k \in DOMAIN thread[r].call.ranks |-> <<Latest, thread[r].call.ranks[k]>>]
             picked == {<<Latest, k>> : k \in ParsedRanks(thread[r].call.ranks)}
  <2>1. CASE thread' = [thread EXCEPT ![r].step = "mark", ![r].picked = picked, ![r].queue = queue]
    <3> HIDE DEF queue, picked
    <3> QED BY <2>1, <1>a DEF Adding, ThreadRecords
  <2> QED BY <1>4, <1>r, <2>1 DEF Pick
<1>5. CASE Mark(r)
  <2>1. PICK s \in {"mark", "save"} : \E q :
          thread' = [thread EXCEPT ![r].queue = q, ![r].step = s]
    BY <1>5 DEF Mark
  <2>2. thread'[r].step = s BY <1>a, <2>1 DEF ThreadRecords
  <2> QED BY <2>2 DEF Adding
<1>6. CASE Resolve(r)
  <2>1. CASE \E ids, q : thread' = [thread EXCEPT ![r].step = "analysis", ![r].picked = ids, ![r].queue = q]
    BY <1>a, <2>1 DEF Adding, ThreadRecords
  <2> QED BY <1>6, <1>e, <2>1 DEF Resolve
<1>7. CASE MarkAnalyzed(r)
  <2>1. CASE \E id : thread' = [thread EXCEPT ![r].picked = @ \ {id}]
    BY <1>a, <1>7, <2>1 DEF MarkAnalyzed, At, Adding, ThreadRecords
  <2> QED BY <1>7, <1>e, <2>1 DEF MarkAnalyzed
<1>8. CASE Analyze(r)
  <2>1. PICK s \in {"analysis", "embed"}, completed \in SUBSET Papers :
          thread' = [thread EXCEPT ![r].queue = Tail(@), ![r].step = s,
                                   ![r].paper = Head(thread[r].queue), ![r].done = @ \cup completed]
    <3>1. Head(thread[r].queue) \in Papers
      <4>1. ThreadOK(r) BY DEF IInv
      <4> QED BY <1>8, <4>1, HeadAndTail DEF Analyze, At, ThreadOK, QueueInHand
    <3> QED BY <1>8, <1>a, <3>1, {} \in SUBSET Papers, {Head(thread[r].queue)} \in SUBSET Papers DEF Analyze
  <2> DEFINE q == Tail(thread[r].queue)
             p == Head(thread[r].queue)
             done == thread[r].done \cup completed
  <2>2. thread' = [thread EXCEPT ![r].queue = q, ![r].step = s, ![r].paper = p, ![r].done = done]
    BY <1>a, <2>1 DEF ThreadRecords
  <2> HIDE DEF q, p, done
  <2> QED BY <1>a, <2>2 DEF Adding, ThreadRecords
<1>9. CASE Embed(r) \/ AddActive(r) \/ IndexingFails(r)
  BY <1>9, <1>g DEF Embed, AddActive, IndexingFails, Adding
<1>10. CASE EndAnalysis(r)
  <2>1. CASE thread' = [thread EXCEPT ![r].step = "artifacts", ![r].next = "qa"]
    BY <1>a, <2>1 DEF Adding, ThreadRecords
  <2> QED BY <1>10, <1>r, <2>1 DEF EndAnalysis
<1>11. CASE PersistWorkspace(r)
  <2>1. PICK done, q : thread' = [thread EXCEPT ![r].done = done, ![r].queue = q]
    BY <1>11, <1>a DEF PersistWorkspace
  <2> QED BY <1>11, <1>a, <2>1 DEF PersistWorkspace, At, Adding, ThreadRecords
<1>12. CASE PersistComparison(r) \/ PersistFails(r)
  BY <1>12, <1>r DEF PersistComparison, PersistFails
<1>13. CASE Find(r)
  <2>1. CASE thread' = [thread EXCEPT ![r].step = "clone", ![r].paper = thread[r].call.paper]
    BY <1>a, <2>1 DEF Adding, ThreadRecords
  <2>2. CASE Goto(r, "route") BY <2>2, <1>g DEF Adding
  <2> QED BY <1>13, <2>1, <2>2 DEF Find
<1>14. CASE Clone(r) \/ CopyChunks(r) \/ Activate(r)
  BY <1>14, <1>g, <1>e DEF Clone, CopyChunks, Activate, Adding
<1>15. CASE Load(r)
  <2>1. CASE \E ids : thread' = [thread EXCEPT ![r].step = "report", ![r].picked = ids]
    BY <1>a, <2>1 DEF Adding, ThreadRecords
  <2> QED BY <1>15, <1>e, <2>1 DEF Load
<1>16. CASE Report(r) BY <1>16, <1>e DEF Report
<1> QED
  BY <1>1, <1>2, <1>3, <1>4, <1>5, <1>6, <1>7, <1>8, <1>9, <1>10, <1>11, <1>12, <1>13, <1>14,
     <1>15, <1>16
  DEF Step

-----------------------------------------------------------------------------
(* The invariant *)

LEMMA TablesStay ==
  ASSUME IInv, Growth, TablesTyped', UNCHANGED <<added, crossed, comparisons>>,
         session'.active = session.active, session'.selected = session.selected,
         \A o \in Requests : thread'[o].step \in Adding =>
           thread[o].step \in Adding /\ thread'[o].read = thread[o].read
  PROVE  TablesInv'
<1>1. TablesInv BY DEF IInv
<1>2. LostOnlyToAnother' BY <1>1 DEF TablesInv, LostOnlyToAnother, Growth, Kept
<1>3. LostOnlyByOverlap' BY <1>1 DEF TablesInv, LostOnlyByOverlap
<1>4. AddersAlone' BY <1>1 DEF TablesInv, AddersAlone
<1>5. SelectionInv' BY <1>1 DEF TablesInv, SelectionInv, Growth
<1>6. ComparisonInv' BY <1>1 DEF TablesInv, ComparisonInv, Growth
<1> QED BY <1>2, <1>3, <1>4, <1>5, <1>6 DEF TablesInv

LEMMA StepPreserves ==
  ASSUME IInv, NEW r \in Requests, Step(r)
  PROVE  IInv'
<1>a. /\ TablesTyped /\ thread \in [Requests -> ThreadRecords] /\ ThreadOK(r)
      /\ calls \in Nat /\ added \subseteq Papers /\ taken \subseteq Papers /\ crossed \in BOOLEAN
      /\ TablesInv
  BY DEF IInv, Typed
<1>b. Moved(r) BY <1>a, StepMoves
<1>c. Sound /\ ThreadOK(r)' BY StepKeeps DEF Keeps
<1>d. TablesTyped' /\ Growth BY <1>c DEF Sound
<1>1. \A o \in Requests : ThreadOK(o)'
  <2>1. ASSUME NEW o \in Requests \ {r} PROVE ThreadOK(o)'
    <3>1. ThreadOK(o) BY DEF IInv
    <3> QED BY <1>b, <1>d, <3>1, OthersStay DEF Moved
  <2> QED BY <1>c, <2>1
<1>2. CASE ReadActive(r)
  <2>1. UNCHANGED <<store, calls, added, taken>>
    BY <1>2 DEF ReadActive
  <2>2. crossed' = (crossed \/ \E o \in Requests \ {r} : thread[o].step \in Adding)
    BY <1>2 DEF ReadActive, Adding
  <2>3. thread'[r].step \in Adding => thread'[r].read = session.active
    <3>1. thread[r] \in ThreadRecords BY <1>a
    <3>2. CASE \E s \in {"analysis", "activate"} : Goto(r, s)
      BY <1>a, <3>1, <3>2 DEF Goto, Adding, ThreadRecords
    <3>3. ASSUME NEW s, thread' = [thread EXCEPT ![r].step = s, ![r].read = session.active]
          PROVE  thread'[r].read = session.active
      BY <1>a, <3>1, <3>3 DEF ThreadRecords
    <3> QED BY <1>2, <3>2, <3>3 DEF ReadActive
  <2>4. LostOnlyToAnother' BY <1>a, <1>d, <2>1 DEF TablesInv, LostOnlyToAnother, Growth, Kept
  <2>5. LostOnlyByOverlap' BY <1>a, <2>1, <2>2 DEF TablesInv, LostOnlyByOverlap
  <2>6. AddersAlone'
    <3>1. ASSUME ~crossed', NEW o \in Requests, thread'[o].step \in Adding
          PROVE  o = r
      BY <1>b, <2>2, <3>1 DEF Moved
    <3> QED BY <2>1, <2>3, <3>1 DEF AddersAlone
  <2>7. SelectionInv' BY <1>a, <1>d, <2>1 DEF TablesInv, SelectionInv, Growth
  <2>8. ComparisonInv' BY <1>a, <1>d, <2>1 DEF TablesInv, ComparisonInv, Growth
  <2>9. TablesInv' BY <2>4, <2>5, <2>6, <2>7, <2>8 DEF TablesInv
  <2>10. crossed' \in BOOLEAN BY <2>2
  <2> QED BY <1>a, <1>b, <1>d, <1>1, <2>1, <2>9, <2>10 DEF IInv, Typed, Moved
<1>3. CASE ~ReadActive(r)
  <2>1. thread'[r].step \notin Adding BY <1>3, StepAdds
  <2>2. /\ calls' = calls /\ taken' = taken /\ crossed' = crossed
        /\ AddActive(r) \/ (added' = added /\ session'.active = session.active)
        /\ Save(r) \/ session'.selected = session.selected
        /\ PersistComparison(r) \/ Report(r) \/ comparisons' = comparisons
    BY <1>3, StepGhosts
  <2> DEFINE p == thread[r].paper
             read == thread[r].read
  <2>3. ASSUME AddActive(r)
        PROVE  /\ thread[r].step \in Adding /\ p \in Kept /\ read \subseteq Kept
               /\ p \in Papers /\ read \subseteq Papers
               /\ session'.active = read \cup {p} /\ added' = added \cup {p}
    <3>1. thread[r].step \in Adding BY <2>3 DEF AddActive, At, Adding
    <3>2. p \in Kept /\ read \subseteq Kept /\ p \in Papers
      BY <1>a, <3>1 DEF ThreadOK, PaperInHand, Adding, CachedSteps, Kept, Searchable
    <3>3. session'.active = read \cup {p}
      BY <1>a, <2>3 DEF AddActive, AddActivePaper, TablesTyped
    <3>4. read \subseteq Papers BY <1>a, LocalTypes
    <3> QED BY <2>3, <3>1, <3>2, <3>3, <3>4 DEF AddActive
  <2>4. LostOnlyToAnother'
    <3>1. session'.active \subseteq Kept
      BY <1>a, <2>2, <2>3 DEF TablesInv, LostOnlyToAnother, Kept
    <3> QED BY <1>d, <3>1 DEF LostOnlyToAnother, Growth, Kept
  <2>5. LostOnlyByOverlap'
    <3>1. CASE AddActive(r)
      <4>1. ~crossed => read = session.active BY <1>a, <2>3, <3>1 DEF TablesInv, AddersAlone
      <4> QED BY <1>a, <2>2, <2>3, <3>1, <4>1 DEF TablesInv, LostOnlyByOverlap
    <3>2. CASE ~AddActive(r)
      BY <1>a, <2>2, <3>2 DEF TablesInv, LostOnlyByOverlap
    <3> QED BY <3>1, <3>2
  <2>6. AddersAlone'
    <3>1. ASSUME ~crossed', NEW o \in Requests, thread'[o].step \in Adding
          PROVE  /\ o # r /\ thread'[o] = thread[o] /\ thread[o].step \in Adding /\ ~crossed
                 /\ thread[o].read = session.active
                 /\ \A q \in Requests \ {o} : thread[q].step \notin Adding
      BY <1>a, <1>b, <2>1, <2>2, <3>1 DEF TablesInv, AddersAlone, Moved
    <3>2. ASSUME ~crossed', NEW o \in Requests, thread'[o].step \in Adding
          PROVE  session'.active = session.active
      BY <2>2, <2>3, <3>1, <3>2
    <3> QED BY <1>b, <2>1, <3>1, <3>2 DEF AddersAlone, Moved
  <2>7. SelectionInv'
    <3>1. CASE Save(r)
      <4>1. session'.selected = thread[r].picked
        BY <1>a, <3>1 DEF Save, SetSelectedCandidateIds, TablesTyped
      <4>2. /\ thread[r].picked \subseteq Marked /\ IsFiniteSet(thread[r].picked)
            /\ \A i, j \in thread[r].picked : i[1] = j[1]
        BY <1>a, <3>1 DEF Save, At, ThreadOK, PicksInHand
      <4> QED BY <1>d, <4>1, <4>2 DEF SelectionInv, Growth
    <3>2. CASE session'.selected = session.selected
      BY <1>a, <1>d, <3>2 DEF TablesInv, SelectionInv, Growth
    <3> QED BY <2>2, <3>1, <3>2
  <2>8. ComparisonInv'
    <3>1. CASE PersistComparison(r)
      <4> DEFINE saved == Range(thread[r].queue)
      <4>1. saved \subseteq Written BY <1>a, <3>1 DEF PersistComparison, At, ThreadOK, QueueInHand
      <4>2. comparisons' = comparisons \/ (Cardinality(saved) >= 2 /\ comparisons' = comparisons \cup {saved})
        BY <3>1 DEF PersistComparison, SaveComparison
      <4> HIDE DEF saved
      <4> QED BY <1>a, <1>d, <4>1, <4>2 DEF TablesInv, ComparisonInv, Growth
    <3>2. CASE Report(r)
      <4> DEFINE ids == thread[r].picked
      <4>1. ids \subseteq Written /\ Cardinality(ids) >= 2
        BY <1>a, <3>2 DEF Report, At, ThreadOK, PicksInHand
      <4>2. comparisons' = comparisons \/ comparisons' = comparisons \cup {ids}
        BY <3>2 DEF Report, SaveComparison
      <4> HIDE DEF ids
      <4> QED BY <1>a, <1>d, <4>1, <4>2 DEF TablesInv, ComparisonInv, Growth
    <3>3. CASE comparisons' = comparisons
      BY <1>a, <1>d, <3>3 DEF TablesInv, ComparisonInv, Growth
    <3> QED BY <2>2, <3>1, <3>2, <3>3
  <2>9. TablesInv' BY <2>4, <2>5, <2>6, <2>7, <2>8 DEF TablesInv
  <2>10. added' \subseteq Papers BY <1>a, <2>2, <2>3
  <2> QED BY <1>a, <1>b, <1>d, <1>1, <2>2, <2>9, <2>10 DEF IInv, Typed, Moved
<1> QED BY <1>2, <1>3

LEMMA AcceptPreserves ==
  ASSUME IInv, NEW r \in Requests, Accept(r)
  PROVE  IInv'
<1>a. /\ TablesTyped /\ thread \in [Requests -> ThreadRecords]
      /\ calls \in Nat /\ added \subseteq Papers /\ taken \subseteq Papers /\ crossed \in BOOLEAN
  BY DEF IInv, Typed
<1>1. /\ UNCHANGED <<store, added, crossed, taken>> /\ calls' = calls + 1
  BY DEF Accept
<1>2. PICK c \in Calls :
        thread' = [thread EXCEPT ![r] = [Idle EXCEPT !.call = c, !.step = Entry(c.op)]]
  BY DEF Accept
<1> DEFINE t == [Idle EXCEPT !.call = c, !.step = Entry(c.op)]
<1>3. c \in CallRecords /\ (c.op = "analyze" \/ c.kind = "url" => c.paper \in Papers)
  BY CallsAssumption
<1>4. /\ Entry(c.op) \in {"gate", "find", "resolve", "load", "route"} /\ Entry(c.op) \in Steps
      /\ Entry(c.op) = "find" => c.op = "analyze"
  BY <1>3 DEF CallRecords, Ops, Entry, Steps
<1>5. t \in ThreadRecords /\ t.call = c /\ t.step = Entry(c.op) /\ t.picked = {}
  <2> DEFINE s == Entry(c.op)
  <2> HIDE DEF s
  <2>1. [Idle EXCEPT !.call = c, !.step = s] \in ThreadRecords
    BY <1>3, <1>4, IdleTyped DEF s, ThreadRecords
  <2> QED BY <2>1, <1>3, <1>4, IdleTyped DEF s, ThreadRecords
<1> HIDE DEF t
<1>6. thread' = [thread EXCEPT ![r] = t] BY <1>2 DEF t
<1>7. thread' \in [Requests -> ThreadRecords] /\ thread'[r] = t
      /\ \A o \in Requests \ {r} : thread'[o] = thread[o]
  BY <1>a, <1>5, <1>6
<1>8. TablesTyped' BY <1>a, <1>1 DEF TablesTyped
<1>9. Growth BY <1>1 DEF Growth, Written, Kept, Searchable, Listed, Marked, Row
<1>10. ThreadOK(r)'
  BY <1>3, <1>4, <1>5, <1>7
  DEF ThreadOK, PaperInHand, QueueInHand, PicksInHand, CallInHand, CachedSteps, Adding
<1>11. \A o \in Requests : ThreadOK(o)'
  <2>1. ASSUME NEW o \in Requests \ {r} PROVE ThreadOK(o)'
    <3>1. ThreadOK(o) BY DEF IInv
    <3> QED BY <1>7, <1>9, <3>1, OthersStay
  <2> QED BY <1>10, <2>1
<1>12. TablesInv'
  <2>1. thread'[r].step \notin Adding BY <1>4, <1>5, <1>7 DEF Adding
  <2>2. \A o \in Requests : thread'[o].step \in Adding =>
          thread[o].step \in Adding /\ thread'[o].read = thread[o].read
    BY <1>7, <2>1
  <2> QED BY <1>1, <1>8, <1>9, <2>2, TablesStay
<1> QED BY <1>a, <1>1, <1>7, <1>8, <1>11, <1>12 DEF IInv, Typed

LEMMA CrashPreserves ==
  ASSUME IInv, NEW r \in Requests, Crash(r)
  PROVE  IInv'
<1>a. /\ TablesTyped /\ thread \in [Requests -> ThreadRecords]
      /\ calls \in Nat /\ added \subseteq Papers /\ taken \subseteq Papers /\ crossed \in BOOLEAN
  BY DEF IInv, Typed
<1>1. UNCHANGED <<store, ghosts>> /\ End(r) BY DEF Crash
<1>2. Moved(r) /\ ThreadOK(r)' BY <1>a, <1>1, EndMoves, EndOK
<1>3. TablesTyped' /\ Growth BY <1>a, <1>1, NothingWritten DEF Sound
<1>4. \A o \in Requests : ThreadOK(o)'
  <2>1. ASSUME NEW o \in Requests \ {r} PROVE ThreadOK(o)'
    <3>1. ThreadOK(o) BY DEF IInv
    <3> QED BY <1>2, <1>3, <3>1, OthersStay DEF Moved
  <2> QED BY <1>2, <2>1
<1>5. TablesInv'
  <2>1. thread'[r].step \notin Adding BY <1>a, <1>1, IdleTyped DEF End, Adding
  <2>2. \A o \in Requests : thread'[o].step \in Adding =>
          thread[o].step \in Adding /\ thread'[o].read = thread[o].read
    BY <1>2, <2>1 DEF Moved
  <2> QED BY <1>1, <1>3, <2>2, TablesStay
<1> QED BY <1>a, <1>1, <1>2, <1>3, <1>4, <1>5 DEF IInv, Typed, Moved

\* The other session takes rows and points over, and notes whose points.
LEMMA ElsewherePreserves ==
  ASSUME IInv, Elsewhere
  PROVE  IInv'
<1>a. /\ TablesTyped /\ thread \in [Requests -> ThreadRecords]
      /\ calls \in Nat /\ added \subseteq Papers /\ taken \subseteq Papers /\ crossed \in BOOLEAN
  BY DEF IInv, Typed
<1>1. UNCHANGED <<session, listings, workspaces, clones, clonePoints, comparisons, thread,
                  calls, added, crossed>>
  BY DEF Elsewhere
<1>2. PICK p \in Cached :
        \/ AnalyzedElsewhere(p) /\ UNCHANGED <<rows, points, embedding, taken>>
        \/ IndexedElsewhere(p) /\ UNCHANGED <<points, source, taken>>
        \/ /\ EmbeddedElsewhere(p) /\ UNCHANGED <<rows, source>>
           /\ taken' = taken \cup {q \in Papers : points[q] = "here" /\ points'[q] = "there"}
  BY DEF Elsewhere
<1>3. p \in Papers BY PapersAssumption
<1>4. /\ source' \in [Papers -> Contents] /\ rows' \in [Papers -> Holders]
      /\ points' \in [Papers -> Holders]
  <2>1. CASE AnalyzedElsewhere(p) /\ UNCHANGED <<rows, points>>
    BY <1>a, <1>3, <2>1 DEF TablesTyped, AnalyzedElsewhere, Contents
  <2>2. CASE IndexedElsewhere(p) /\ UNCHANGED <<points, source>>
    BY <1>a, <1>3, <2>2 DEF TablesTyped, IndexedElsewhere, Holders
  <2>3. CASE EmbeddedElsewhere(p) /\ UNCHANGED <<rows, source>>
    BY <1>a, <1>3, <2>3 DEF TablesTyped, EmbeddedElsewhere, Holders
  <2> QED BY <1>2, <2>1, <2>2, <2>3
<1>5. taken' \subseteq Papers /\ Kept \subseteq Kept'
  <2>1. CASE UNCHANGED <<points, taken>>
    BY <1>a, <1>1, <2>1 DEF Kept, Searchable
  <2>2. CASE /\ EmbeddedElsewhere(p)
             /\ taken' = taken \cup {q \in Papers : points[q] = "here" /\ points'[q] = "there"}
    <3>1. \A q \in Papers : points'[q] = points[q] \/ points'[q] = "there"
      BY <1>a, <1>3, <2>2 DEF EmbeddedElsewhere, TablesTyped
    <3>2. \A q \in Papers : points[q] = "here" => points'[q] = "here" \/ q \in taken'
      BY <2>2, <3>1
    <3> QED BY <1>a, <1>1, <2>2, <3>2 DEF Kept, Searchable
  <2> QED BY <1>2, <2>1, <2>2
<1>6. TablesTyped' BY <1>a, <1>1, <1>4 DEF TablesTyped
<1>7. Growth BY <1>1, <1>5 DEF Growth, Written, Listed, Marked, Row
<1>8. \A o \in Requests : ThreadOK(o)'
  <2>1. ASSUME NEW o \in Requests PROVE ThreadOK(o)'
    <3>1. ThreadOK(o) BY DEF IInv
    <3> QED BY <1>1, <1>7, <3>1, OthersStay
  <2> QED BY <2>1
<1>9. TablesInv' BY <1>1, <1>6, <1>7, TablesStay
<1> QED BY <1>a, <1>1, <1>5, <1>6, <1>8, <1>9 DEF IInv, Typed

LEMMA StutterPreserves ==
  ASSUME IInv, UNCHANGED vars
  PROVE  IInv'
<1>a. /\ TablesTyped /\ thread \in [Requests -> ThreadRecords]
      /\ calls \in Nat /\ added \subseteq Papers /\ taken \subseteq Papers /\ crossed \in BOOLEAN
  BY DEF IInv, Typed
<1>1. UNCHANGED <<store, ghosts>> /\ thread' = thread BY DEF vars
<1>2. TablesTyped' /\ Growth BY <1>a, <1>1, NothingWritten DEF Sound
<1>3. \A o \in Requests : ThreadOK(o)'
  <2>1. ASSUME NEW o \in Requests PROVE ThreadOK(o)'
    <3>1. ThreadOK(o) BY DEF IInv
    <3> QED BY <1>1, <1>2, <3>1, OthersStay
  <2> QED BY <2>1
<1>4. TablesInv' BY <1>1, <1>2, TablesStay
<1> QED BY <1>a, <1>1, <1>2, <1>3, <1>4 DEF IInv, Typed

LEMMA InitHolds == Init => IInv
<1> SUFFICES ASSUME Init PROVE IInv OBVIOUS
<1>1. /\ session = [phase |-> "idle", active |-> {}, selected |-> {}] /\ listings = <<>>
      /\ workspaces = [p \in Papers |-> "none"]
      /\ clones = {} /\ clonePoints = {} /\ comparisons = {}
      /\ source \in [Papers -> {"none", "other"}] /\ rows \in [Papers -> {"none", "there"}]
      /\ points = rows
  BY DEF Init, InitStore
<1>2. /\ thread = [r \in Requests |-> Idle]
      /\ calls = 0 /\ added = {} /\ crossed = FALSE /\ taken = {}
  BY DEF Init
<1>3. TablesTyped
  <2>1. listings \in Seq(Seq(Rows)) BY <1>1
  <2>2. /\ workspaces \in [Papers -> Contents] /\ source \in [Papers -> Contents]
        /\ rows \in [Papers -> Holders] /\ points \in [Papers -> Holders]
    BY <1>1 DEF Contents, Holders
  <2>3. session \in [phase : Phases \cup {None}, active : SUBSET Papers, selected : SUBSET Ids]
    BY <1>1 DEF Phases
  <2> QED BY <1>1, <2>1, <2>2, <2>3 DEF TablesTyped
<1>4. thread \in [Requests -> ThreadRecords] BY <1>2, IdleTyped
<1>5. Typed BY <1>2, <1>3, <1>4 DEF Typed
<1>6. ASSUME NEW r \in Requests PROVE ThreadOK(r) /\ thread[r].step \notin Adding
  <2>1. thread[r] = Idle BY <1>2
  <2> QED
    BY <2>1, IdleTyped
    DEF ThreadOK, PaperInHand, QueueInHand, PicksInHand, CallInHand, CachedSteps, Adding
<1>7. TablesInv
  <2>1. session.active = {} /\ session.selected = {} /\ IsFiniteSet({})
    BY <1>1, FS_EmptySet
  <2> QED
    BY <1>1, <1>2, <1>6, <2>1
    DEF TablesInv, LostOnlyToAnother, LostOnlyByOverlap, AddersAlone, SelectionInv, ComparisonInv
<1> QED BY <1>5, <1>6, <1>7 DEF IInv

LEMMA NextPreserves == IInv /\ [Next]_vars => IInv'
<1> SUFFICES ASSUME IInv, [Next]_vars PROVE IInv' OBVIOUS
<1>1. CASE Elsewhere BY <1>1, ElsewherePreserves
<1>2. ASSUME NEW r \in Requests, Accept(r) PROVE IInv' BY <1>2, AcceptPreserves
<1>3. ASSUME NEW r \in Requests, Crash(r) PROVE IInv' BY <1>3, CrashPreserves
<1>4. ASSUME NEW r \in Requests, Step(r) PROVE IInv' BY <1>4, StepPreserves
<1>5. CASE UNCHANGED vars BY <1>5, StutterPreserves
<1> QED BY <1>1, <1>2, <1>3, <1>4, <1>5 DEF Next

LEMMA SpecInvariant == Spec => []IInv
BY InitHolds, NextPreserves, PTL DEF Spec

-----------------------------------------------------------------------------
(* Theorems *)

\* Requests that interleave, fail or die cost the session an active paper only
\* in the two known ways (add_active_paper, chunk_and_index,
\* _hydrate_reusable_workspace).
THEOREM Explained == Spec => []LostIsExplained
<1>1. IInv => LostIsExplained BY DEF IInv, TablesInv, LostIsExplained
<1> QED BY <1>1, SpecInvariant, PTL

\* What a request refers to is there as a whole: the candidates a session has
\* selected are marked and of one listing, a reuse that is about to answer has
\* its workspace, rows and points, a comparison has the workspaces of its
\* papers (SelectionHandler.handle, _hydrate_reusable_workspace,
\* _load_request_workspaces, _persist_analysis_artifacts).
THEOREM Named == Spec => []NamedIsThere
<1>1. ASSUME IInv PROVE NamedIsThere
  <2>1. SelectedIsMarked
    BY <1>1 DEF IInv, TablesInv, SelectionInv, SelectedIsMarked, Marked, Listed
  <2>2. ReuseIsComplete
    <3>1. ASSUME NEW r \in Requests, thread[r].step = "activate"
          PROVE  LET p == thread[r].paper IN
                 /\ p \in Written /\ p \in clones /\ p \in clonePoints
                 /\ crossed \/ p \in session.active
      BY <1>1, <3>1 DEF IInv, ThreadOK, PaperInHand, CachedSteps
    <3> QED BY <3>1 DEF ReuseIsComplete, At, Written, Stored, Searchable
  <2>3. ComparedHaveWorkspaces
    BY <1>1 DEF IInv, TablesInv, ComparisonInv, ComparedHaveWorkspaces, Written
  <2> QED BY <2>1, <2>2, <2>3 DEF NamedIsThere
<1> QED BY <1>1, SpecInvariant, PTL

\* A workspace the session has is written over only by an analysis of that
\* paper in this session, never by a cache hit (clone_workspace).
THEOREM Conflict == Spec => ConflictIsKept
<1> DEFINE OnlyByAnalysis ==
      \A p \in Papers : workspaces[p] # "none" /\ workspaces'[p] # workspaces[p] =>
        \E r \in Requests : At(r, "artifacts") /\ p \in thread[r].done
<1>1. ASSUME IInv, [Next]_vars PROVE OnlyByAnalysis
  <2>a. workspaces \in [Papers -> Contents] BY <1>1 DEF IInv, Typed, TablesTyped
  <2>1. CASE UNCHANGED workspaces BY <2>1
  <2>2. ASSUME NEW r \in Requests, PersistWorkspace(r) PROVE OnlyByAnalysis
    BY <2>a, <2>2 DEF PersistWorkspace, UpsertWorkspace
  <2>3. ASSUME NEW r \in Requests, Clone(r) PROVE OnlyByAnalysis
    BY <2>a, <2>3 DEF Clone, UpsertWorkspace
  <2>4. ASSUME NEW r \in Requests, Step(r), ~PersistWorkspace(r), ~Clone(r)
        PROVE  UNCHANGED workspaces
    BY <2>4
    DEF Step, Gate, Route, Converse, Fail, Respond, Search, Pick, Mark, Save, Resolve, MarkAnalyzed,
        Analyze, Embed, ReadActive, AddActive, IndexingFails, EndAnalysis, PersistComparison,
        PersistFails, Find, CopyChunks, Activate, Load, Report
  <2>5. ASSUME NEW r \in Requests, Accept(r) \/ Crash(r) PROVE UNCHANGED workspaces
    BY <2>5 DEF Accept, Crash
  <2>6. Elsewhere \/ UNCHANGED vars => UNCHANGED workspaces BY DEF Elsewhere, vars
  <2> QED BY <1>1, <2>1, <2>2, <2>3, <2>4, <2>5, <2>6 DEF Next
<1>2. Spec => [][OnlyByAnalysis]_vars BY <1>1, SpecInvariant, PTL DEF Spec
<1> QED BY <1>2 DEF ConflictIsKept
=============================================================================
