# PaperIntel in TLA+

PaperIntel analyses scientific papers. A REST API, an MCP server and a browser page
accept PDFs, URLs, research topics and questions; a chat handler runs LangGraph graphs
of LLM agents over them; Postgres, Qdrant and an S3-compatible object store keep the
results; worker processes execute queued jobs and clean up. This directory models two
kinds of things in it: what depends on the *order* of steps (several processes at the
same rows, what a crash leaves behind, what a late answer undoes, how a graph carries
its state from one paper to the next), and what a chain of agents makes of *any* answer
of an LLM or a provider (a comparison, a recommendation, a plan, a citation).

- [Inventory](#inventory): the parts of the system
- [Plan](#plan): the modules, and what could follow
- [The models](#the-models): correspondence with the code, module by module
- [Runs](#runs): what TLC checks, with bounds and fairness
- [Proofs](#proofs): what holds for every instance, and why
- [Where code and documentation disagree](#where-code-and-documentation-disagree)
- [Limits](#limits)

Run a check with `tlc -config jobs_safety.cfg MCWorkflowJobs`, the proofs with
`tlapm WorkflowJobs_proofs.tla`. `PROJECT.json` lists the components, the runs,
for every definition the source lines it models, for every property a mutation
of the model that breaks it, and the hazards the properties are for.

## Inventory

Paths are relative to `src/`.

**Workflow job queue** — `storage/repositories.py:1031-1454`, `models/jobs.py`.
State: one row of `workflow_jobs` per job (status, owner, lease, attempts, next
attempt, cancel request, error). Operations: create / enqueue, claim, heartbeat,
cancel, three ways to finish. Every method locks the row and commits once. Hard:
leases that end while their owner still works, attempts charged on two different
paths, cancel requests that meet every other operation. Right when a stale owner
cannot change the row, a cancel is never lost, the budget holds and every job ends.
Modelled by `WorkflowJobs`.

**Workflow worker** — `workers/workflow_worker.py`. A process that polls, executes
one job at a time and commits its outcome, with a heartbeat thread next to it. Its
state is the copy of the row it was handed. Hard: the thread and the main path learn
of a lost lease, a cancel or a dead database at different moments. Modelled by
`WorkflowJobs`.

**PDF uploads** — `services/paperintel_service.py:541-695`,
`storage/repositories.py:924-1007`. State: `pdf_uploads` rows, staging objects,
content-addressed objects, `blob_artifacts`, `blob_references`. Operations:
initiate (presigned PUT), direct upload, finalize, enqueue. One request is a chain
of separate transactions and object store calls. Hard: the client can overwrite the
staging object at any moment, finalize can be called twice, a request can die between
any two steps. Right when what was accepted is readable and is what was promised,
and no verdict is revised. Modelled by `PdfUploads`.

**Blob cleanup worker** — `services/blob_cleanup.py`, `workers/blob_cleanup_worker.py`.
Writes off expired uploads and tombstones expired artifacts, one row per transaction,
deleting the object *inside* the transaction. Hard: it races the uploads, and its
commit can fail after the delete. The upload half is in `PdfUploads`; the other half
never finds a row, because no program path creates a `ttl` artifact.

**Blob registry and object store** — `services/blob_store.py`,
`storage/repositories.py:514-796`. Registration and references as the uploads and
jobs use them are in `PdfUploads` and `WorkflowJobs`.

**Provider circuit breaker** — `storage/repositories.py:198-409`,
`services/provider_circuit_breaker.py`, used by `tools/arxiv_client.py` and
`tools/semantic_scholar_client.py`. One row per provider, shared by all processes:
state, failure count, `open_until`. Operations: `before_request`, `record_success`,
`record_failure`, each with a fail-open clause. Hard: a call sleeps and waits for
seconds between its admission and its record; probes die. Right when the state
follows the recorded outcomes, the provider is spared until it has answered well, and an
open breaker is tried again.
Modelled by `ProviderBreaker`.

**Provider rate limiter** — `storage/repositories.py:107-170`,
`services/provider_rate_limiter.py`. One row per provider, `next_allowed_at`.
`acquire` reserves a slot under the row lock, then sleeps. Hard: the clock is read
before the lock is waited for, and a sleeper may oversleep. Right when slots are
spaced and the long-run rate holds. Modelled by `ProviderRateLimit`.

**Analysis graph** — `graph.py`, `agents/*`, and **the chat handler around it** —
`api/chat_handler.py:207-392, 691-790`. State: `PaperIntelState` of a run (stage,
index, slots, scratch fields), then Postgres and Qdrant. Operations: one node per
agent, the routers, the error helpers. Hard: it is a loop over papers driven by
flags that every node has to leave right, with error paths that rejoin the main
path, and three stores written one after another. Right when slots and papers stay
in step, nothing leaks from one paper into the next, success means every paper was
decided, and a run ends. Modelled by `AnalysisGraph`.

**Session store** — `storage/repositories.py:1597-1714, 1764-2313`. Phase, active papers and
selected candidates of a session, its candidate lists, workspaces, chunk rows and
comparisons. Each call is one transaction, none locks the session row: a request reads,
decides and writes in separate transactions. Right when concurrent requests cost the
session nothing but what the missing lock explains. Modelled by `SessionStore`; turns
and structured errors are an append-only log and are left out.

**Session requests** — `services/paperintel_service.py`, `api/chat_handler.py`,
`services/selection_parser.py`, `services/selected_candidate_resolver.py`: messages, discovery, selection, analysis of a URL, by the graph
or from the **paper cache** (`services/paperintel_service.py:932-1048`, which clones a
workspace of another session with chunks and vectors), analysis of the selection,
comparison. Hard: they run on threads of three kinds of processes, each a chain of
transactions that can end anywhere, while another session analyses the same papers.
Modelled by `SessionRequests`.

**Question answering and repair** — `graph_conversation.py`, `agents/intent_router.py`,
`retrieval_planner.py`, `answer_agent.py`, `citation_critic.py`, `services/repair.py`.
State of a turn: intent, evidence, draft, review, iteration; runs and errors for the
audit. Hard: every node may meet an LLM that fails, times out or says something unusable,
and the critic sends the draft round a loop. Right when an answer is grounded in
evidence that was found in the session and reviewed, the loop is bounded and no trouble
is silent. Analyses change the session's list and index while a turn runs.
Modelled by `Conversation`.

**Discovery** — `graph_discovery.py`, `agents/research_strategist.py`,
`services/searcher.py`, `agents/selection_advisor.py`: plan, searches, duplicates,
ranking, shortlist. Modelled by `Discovery`.

**Comparison** — `agents/comparator.py`, `agents/comparison_analyst.py`: the benchmark
matrix, its winners, and what is kept of the LLM's claims. Modelled by `Comparison`.

**Chunking** — `services/chunking.py`: windows, boundaries, overlap. Modelled by
`Chunking`.

**Verdict on a paper** — `agents/benchmark.py`, `readiness.py`, `report.py`,
`evidence_critic.py`: rows, repositories, maturity, recommendation. Modelled by
`PaperVerdict`. **Extraction** — `agents/extraction.py`, `human_review.py` — by
`Extraction`, **synthesis** — `agents/synthesis_agent.py` — by `Synthesis`.

**Job inputs, executor, retry policy** — `api/rest`, `mcp_server/tools.py`,
`services/paperintel_service.py` (`enqueue_*`), `workers/workflow_worker.py`,
`services/provider_policy.py`: what three pieces of code let pass, store and call, and what
an exception becomes. Modelled by `JobRequests`.

**Preview page** — `api/rest/ui.py`: JavaScript handlers that give way to each other at
every `await`. Modelled by `PreviewUi`.

**arXiv client** — `tools/arxiv_client.py`, `storage/repositories.py:412-482`,
`agents/ingestion.py`: the metadata cache row and the file that every download of a paper
shares. Modelled by `ArxivFetch`, over **the breaker of one process** —
`tools/circuit_breaker.py` — in `LocalBreaker`.

**Not modelled**: wiring, settings, health and observability (construction,
configuration, logging), table definitions and migrations, evaluation scripts, the
in-memory stores of the tests, and the `ttl` half of the blob registry, which no program
path reaches. `PROJECT.json` gives the reason for each.

**How they interact.** Clients call the service through REST or MCP. The service
calls the chat handler (which runs a graph) or inserts a job. A worker claims the job
and runs the same graph, with a callback into the queue that the graph's nodes poll
for cancellation. Nodes and services call arXiv and Semantic Scholar through breaker
and limiter. Everything shared is a row in Postgres, a vector in Qdrant, an object in
the bucket or a file in `tmp/`; there are no messages. What is concurrent is therefore:
processes and threads interleaving between two transactions, and the clock. (Within one
REST process the handlers are `async def` and call the blocking service directly, so one
request runs at a time; MCP uses threads, and workers are processes.)

## Plan

Done, most important first: what a user would lose most by is a lost or doubled job, an
unreadable upload, a mixed-up batch; then a session that loses its papers; then a result
that says more than was found.

1. `JobLifecycle` (abstract) and `WorkflowJobs` (implements it)
2. `PdfUploads` (uploads, blobs, cleanup)
3. `ProviderBreaker`, `ProviderRateLimit`
4. `AnalysisGraph` (graph and handler)
5. `SessionStore` and `SessionRequests` (composition of all requests of a session)
6. `Conversation`, `Discovery`, `Comparison`, `Chunking`, `PaperVerdict`, `Extraction`,
   `Synthesis`, `JobRequests`, `PreviewUi`, composed for checking by `MCAgents`; `Loops`
   has what several of them do with a list
7. `LocalBreaker` and `ArxivFetch`
8. `X_proofs` for each of these; the parts of 6 share `Agents_proofs`

What could follow: the `ttl` blobs, if a program path ever creates one; the composition
of `WorkflowJobs` with `SessionRequests`, for a worker that lost its lease and writes the
phase `failed` under the new one (`workers/workflow_worker.py:324`); a proof that the parts of
`MCAgents` hand each other, through a session, only what their assumptions allow.

## The models

Each module is commented line by line; this section says how its state and actions
correspond to the code. Definitions named `X_Something` with the comment "Mutant"
are deliberately wrong variants of `X`; nothing in the models uses them.

### WorkflowJobs and JobLifecycle

The columns of `workflow_jobs` are variables: functions from jobs. Timestamps are
compared with the present only, so they are kept as ticks left; a past or NULL
timestamp is 0. `jobRef` is the `blob_references` row that pins the input of an
`analyze_pdf_blob` job. Each repository method is one action because it locks its row
(`FOR UPDATE`, for the claim `SKIP LOCKED`) and commits once.

`run_once` is a sequence of actions with the program counter `pc`: claim, callback
before execution (`BeforeExecution`), execution (`ExecutionEnds`: returns, raises
retryably, raises finally, stops at a cancel), callback after it (`AfterExecution`),
one commit. The heartbeat thread acts in between; its first exception stops it and is
looked at when the execution has returned. `snap` is the copy of `attempts` that the
claim handed out. `runs` is history: executions started.

The claim that finds an abandoned row either runs it (`ClaimAndRun`) or finishes it
(`ClaimToFinish`: canceled if a cancel is recorded, `retry_exhausted` if the budget is
used up). A claim takes any due row, not the oldest: another transaction may hold the
lock of the oldest for a moment, and the claim skips it.

`JobLifecycle` is what a polling client is promised: start, reassign, requeue, give
up, finish, cancel, with nothing of workers or leases. `WorkflowJobs` implements it by
`phase <- status, wanted <- cancel, charged <- attempts, Budget <- MaxAttempts`.

### PdfUploads

`row`, `ttl`, `blob` are the columns of `pdf_uploads`; `staging` the object under the
staging key; `sending` a PUT the store has accepted but not finished (a presigned URL
is checked when a request arrives, so a slow body lands after its expiry); `objects`,
`artifacts`, `refs` are the bucket, `blob_artifacts` and the session references;
`jobs` the idempotency keys. A request has a program counter, its own copy of the
row's status (`view`) and what it materialised (`got`).

`finalize_pdf_upload` is `Receive`, `OpenUpload`, `CheckStaged`, `MarkUploaded`,
`ReadStaged`, `PutBlob`, `Register`, `Reference`, `Finalize`, `Discard`, or `Reject`
when a check fails: one action for each transaction or object store call.
`store_pdf_upload` shares them after `Create` and `PutStaging`. `Allowed` is the table
of status transitions in `_transition`. `Abort` ends a request anywhere, as the
process's death or an exception does. The cleanup is `CleanObject` (row locked, object
deleted) then `CleanCommit` or `CleanRollback`.

### ProviderBreaker

The row is `state`, `failures`, `openFor`. A call is `Call`, then for every try
`before_request` (`Admit`, `AdmitProbe`, `Deny`, or `AdmitBlindly` when the breaker's
database fails), the provider's `Answer`, and the record (`RecordSuccess`,
`RecordFailure`, `Unrecorded`, `RecordLost`); `Raise` goes back for another try.
Which answers count as up differs by caller, and CONSTANTS say so: `get_metadata` and
Semantic Scholar record a 404 as success (`NotFoundIsUp`), Semantic Scholar also the
429 of the last try (`Degrading`); arXiv searches and downloads record neither.
`probe` and `calm` are history: who turned the breaker half open, and the ticks since it
last let a request through or recorded a failure. Half open means that a probe *was* let
through: a slow call from before the opening may close the breaker while the probe is
still out, and then others pass. What holds is stated of the provider
(`ProviderIsSpared`): until it has answered well, whoever is let through comes a whole
timeout after the last request let through and the last failure recorded. (The clock is
read before the row lock is waited for; that wait is below a tick.)

### ProviderRateLimit

`ReadClock` (before the lock), `Reserve` (under it), `FallBack` (database down: sleep
one interval), `Send` (when the sleep is over, possibly late), `Crash`. The clock is
global and bounded by `MaxTime`; `granted` counts the requests sent in a slot.

### AnalysisGraph

The variables of a run are the fields of `PaperIntelState` that decide control or
identity. A paper's metadata, text and report are abstracted to the *number of the
paper they are about*, so that a value left over from another paper is visible. Every
node of the graph is an action; `Superstep` counts LangGraph's recursion limit; a
node's LLM or download failing is a choice. The handler
passes no limit to LangGraph, so `RecursionLimit` is LangGraph's default; the model only
uses that there is one. `chunk_and_index` is three actions, one for
each store it writes. The handler follows with `PersistArtifacts`, `Respond` and, for
a selection, `MarkCandidates`. `Cancel` is possible at the nodes that `graph.py`
wraps in the cancellation guard, and only for the job kind that passes the callback
down; `GraphRaises` is an exception that leaves the graph; `Crash` ends the run
anywhere and keeps the stores. Later runs start with what the stores hold.

### SessionStore and SessionRequests

In `SessionStore` every operator that primes a variable is one call of a repository, that
is, one transaction. Texts, vectors and fields are abstracted away: a workspace is its
content class (of this session, reusable of another one, or lacking a part the cache asks
for), chunk rows and points are the session that owns them. Analysis names its chunks
`<paper>:chunk:<n>`, the same in every session, so `rows` and `points` are shared with
the other session, and `clones`, which have names of their own, are not.

`SessionRequests` runs requests on threads. A request is its call and the next step;
each step is one action: routing, the three steps of a selection, the nodes of an
analysis that write (`Analyze`, `Embed`, `ReadActive`, `AddActive`), artifacts, the steps
of a cache hit (`Find`, `Clone`, `CopyChunks`, `Embed`, `ReadActive`, `AddActive`,
`Activate`), `Load` and `Report` of a comparison. `add_active_paper` is the two actions
it is, a read and a write of the whole list. `Crash` ends a request anywhere, `Fail` is
the handler's exception clause, `Elsewhere` the other session, one call at a time. Three
ghosts record history: the papers `added`, whether two additions `crossed`, and the
papers whose points the other session has `taken`.

### Conversation

One turn is a run of the graph; each node is an action, or one for each of its branches,
with the LLM failing, being unusable, or saying any of a set of payloads. Chunks are
records `[paper, type, n]` and retrieval is a choice of the right number of matching
chunks. An `AgentRun` is the record of agent, iteration, status and reason; `errors` are
the `StructuredError`s of the result. `Raise` is an exception the graph lets through.

A turn meets what analyses do meanwhile when the router loads `active_paper_ids` and when
the planner searches Qdrant. Between two such reads the list and the index change in any
way, and both may shrink: `add_active_paper` writes back a list it read before
(`storage/repositories.py:1640`), and an analysis of a paper in another session takes the
points of the same chunk ids (`services/chunking.py:198`). Any paper and any chunk may
come and go at any moment, so the model keeps neither: each read returns any set
(`\E active \in SUBSET Papers`, `\E index \in SUBSET Chunks`), and the histories `known` and
`found` keep what was read. Grounding is stated against them; that a cited chunk is
still there when the answer is given is not so, and not claimed. How list and index come
to change is `SessionStore` and `SessionRequests`.

### Discovery, Comparison, Chunking, PaperVerdict, Extraction, Synthesis

Each is one record variable with a field `node` and one action per agent, or per choice
of an agent. What is pure in the code is an operator.

- `Discovery`: a word is a number, a text a sequence of words, so that token overlap,
  title keys and scores are computed as in the code. arXiv answers any subset of entries.
- `Comparison`: names are mapped by `Canonical`, as the alias tables do; values are
  integers; the LLM claims a winner, a basis and recommendations, of papers that may not
  exist. The same operators serve the batch comparator and the comparison on request.
- `Chunking`: a text is a sequence of newline, dot, space and other characters, and the
  loop over a page is an action per window.
- `PaperVerdict`: rows are counted; a repository is its stars and releases, a model is
  itself; GitHub and HuggingFace answer or do not. `rendered` is the report as the
  markdown shows it.
- `Extraction`: confidence in hundredths, with the two claims that are no numbers; the
  text is its length and the positions that are read. `HumanReview` is the node that an
  unsure extraction goes through on its way to `benchmark`: in the graph of
  `api/app_factory.py` it asks nobody. `gated` is history: whether the paper came by it.
- `Synthesis`: a report is its persona, citations, limitations and author.

Many loops of these agents go over a list once and append an element or skip it, which
may depend on what they have taken so far: queries and results without their duplicates,
the rows of a paper for one metric, the ids of a request. `Loops!Gathered` is that loop,
a recursive function, and each use of it says by a set of pairs what it takes. The
ranking is the order that `sort` produces, chosen as such: the titles of what is ranked
differ, so there is exactly one.

### JobRequests

One request from the client to the outcome of its job: `sent`, `storing` (a PDF comes
with it), `asked` (arguments of `enqueue_*`), `queued`, `running`, `called`, `succeeded`
or `failed`. A text is a word with or without blanks and length, so that every check on
blanks and limits can differ between the adapter, the service and the executor, as they
do. The classification of exceptions is modelled case by case; the row and its lease are
in `WorkflowJobs`.

### PreviewUi

`handlers` are the running tasks and what each awaits; every action is what happens from
one `await` to the next. The user types, presses what is enabled, and clicks workspaces,
which are never disabled.

### ArxivFetch and LocalBreaker

A PDF is its blocks as `iter_bytes` delivers them, the file is the set of blocks in it,
the metadata row is none, errors only, or fetched. Threads open, write, unlink and find
the same file; a thread whose file was unlinked goes on writing to nowhere (`linked`).
`Restart` empties the breaker and the calls and keeps file and row. In `LocalBreaker`
every method is one step because it holds the breaker's lock.

### MCAgents

The nine components of the run `agents` share no variable, so their product says nothing
that the parts do not: `Init` chooses one of them and its input, the others rest, and a
behaviour is a behaviour of that component.

## Runs

| run | instance | shows |
|---|---|---|
| `jobs_safety` | 2 workers, a 3-attempt blob job and a 1-attempt job, lease 2, retry hints 0 and 2 | fencing, cancellation, budget, blob pin, truthful `retryable`, terminal rows |
| `jobs_progress` | 2 workers, the 3-attempt job, fairness | every job ends, cancels are honoured, announced retries happen, `JobLifecycle` with its fairness is implemented |
| `uploads_race` | 1 upload, 2 requests, right and wrong contents, fairness | accepted means readable and promised, verdicts are final, uploads are decided, rejected objects reclaimed |
| `uploads_share` | 2 uploads of one PDF, 1 request, 2 pipeline versions | registry backed by objects, every job finds its input |
| `breaker_safety` | 2 searches and a `get_metadata` on arXiv, threshold 2, 2 tries, timeout 2, 1 outage, fairness | state follows count, a provider is spared until it has answered well, an open breaker is probed |
| `breaker_stuck` | the Semantic Scholar breaker | the first disagreement below (violation) |
| `limiter_safety` | 3 callers, interval 2, clock to 4, 1 outage | slots spaced, nobody early, rate bounded |
| `graph_single` | one uploaded PDF, 2 runs, recursion limit 20, fairness | clean cancellation, active papers are indexed, success means completed, runs end |
| `graph_batch` | 3 selected papers, recursion limit 34 | slots in order and unmixed, artifacts only of completed papers, success decides every paper |
| `session_safety` | 3 requests on 2 threads, 2 papers of which 1 is also elsewhere, 2 listings | papers are lost in two known ways only, what is named exists, own workspaces are kept |
| `agents` | each part over its inputs, see below; fairness of the turn | the nine results are sound, a turn ends |
| `fetch` | 2 threads, one with metadata of its own; PDF of 1 or 2 blocks, limit 1; threshold 2, 2 tries, recovery 1; fairness | a text is whole or lost, the breaker follows its count, metadata stays, ingestions end |

A property of a run is often a conjunction of named parts that belong together, each
with its own comment: `RowIsSound` (fencing, budget, blob pin, truth of `retryable`),
`CommitsAreFenced`, `JobsProgress`, `UploadsEnd`, `SlotsAreKept`, `PapersKeepTheirPlace`,
`OutcomeIsHonest`, `LostIsExplained`, `NamedIsThere`, `DiscoveryIsSound`,
`ComparisonIsFair`, `ChunksCoverThePaper`, `VerdictIsEarned`, `JobKeepsItsWord`,
`UiIsOrderly`, `AnswerIsTrustworthy`, `TroubleIsTold`, `IngestionIsHonest`.

**Why these bounds.** Two workers are what fencing is about: one that lost the job and
one that has it; the stale one may come back as a third attempt by restarting. Three
attempts are the code's own number and let a retry, a reclaim and exhaustion happen in
one behaviour; the one-attempt job meets exhaustion at once. A lease of two ticks can be
half used when it is renewed. Two requests and one upload contain every race of two
finalizes with a cleanup and a client's PUT; two uploads of one content share blob,
reference and key. Three callers are a probe, a straggler from before the opening and
one who must be denied; threshold and tries of 2 let one call alone open the breaker.
Clock 4 with interval 2 has three slots for three callers. One outage at a time is
enough: each affects one step of one call. Three papers have a first, a middle and a
last one, and every path through the loop may be followed by every other; 34
supersteps are enough for three complete papers and for repeated reports in between.

In `session_safety` every pair of requests overlaps while a third has gone before or
follows: a selection needs a discovery before it, a lost update two analyses, a conflict
of the cache an analysis next to a hit. Two papers are what a selection of two, a
comparison and a lost update need. In `agents`: discovery has two queries and six
entries, with a paper in two versions and a title that is shared; comparisons have up to
three papers with every kind of row (variants, other units, other conditions, ties, both
directions); pages have up to six blocks of text, breaks and sentence ends, with target 7,
overlap 4, minimum 2; the verdict has a repository below the star limit, one above it
without releases and one with both; the 800 job inputs have each field absent, blank,
padded, long, of another type or right; the page has two handlers at once; the question
has two papers, one with a chunk that some first plans find and one with a chunk that only
a second plan finds, every list and index it may meet, and up to two repairs, the code's
number. In `fetch` the second block of a PDF is both what a broken download lacks and
what exceeds the limit.

**Symmetry** is used in `jobs_safety` (workers), `limiter_safety` (callers) and
`session_safety` (threads), which check no liveness.

**Fairness** is only what the code's loops and timeouts justify:
- `WorkflowJobs`: time passes and each worker keeps taking steps (`run_forever`). A
  worker may crash at any time, clients owe nothing, the heartbeat thread may starve.
- `PdfUploads`: time passes, requests and PUTs end, the hourly cleanup pass comes back.
  `CleanCommit` is strongly fair: rollbacks may happen, but not for ever.
- `ProviderBreaker`: time passes, papers keep being analysed, calls go on. Strong
  fairness of a call's steps says that processes do not die for ever at the same step;
  each single probe may still die.
- `AnalysisGraph`: a run is one thread that keeps going; nobody need start, cancel or
  crash one.
- `Conversation`: a turn is one thread that keeps going (`WF` of `TurnStep` in
  `MCAgents!FairSpec`); nobody need ask.
- `ArxivFetch`: each thread keeps going; every request has a client timeout. Restarts are
  never forced and never forbidden.

**Deadlock** is checked except where the system really stops: when the bounded number
of analyses (`graph_*`) or of requests (`session_safety`) has been asked for, when the
bounded clock is used up (`limiter_safety`), and in `agents`, where a part that has its
result is done.

## Proofs

Each `X_proofs` module extends `X` and proves, with TLAPS, for *every* value of the
constants that satisfies the named assumptions of `X` (`SetsAssumption`,
`NumbersAssumption`, ...: sets do not contain their null values, bounds are numbers).
The scheme is the same everywhere: an inductive invariant `IInv`, `Init => IInv`,
`IInv /\ [Next]_vars => IInv'` with one step per action, and the properties from it.

**WorkflowJobs_proofs** — `TypeCorrect`, `Fencing`, `Budget`, `CancelKept`,
`BlobPinned`, `RetryableTruth`, `TerminalRows`, `SoleCommitter`, `Refinement`, and the
conjunctions the runs check, `RowSound` and `CommitsFenced`.
`LeaseFencing` is not inductive: `_require_active_lease` looks at the owner and the
lease, not at the attempt. What makes it true is `OwnerHasAttempt`: a worker that holds
a job and is still named in the row has the row's current attempt in its copy, because
a worker drops what it holds before it claims again. `ExecutionBudget` needs
`AttemptsCoverRuns` (an attempt that was claimed but not yet executed is not counted as
a run) and `AttemptsInBudget`. The two action properties and the step refinement to
`JobLifecycle!LSpec` use the same invariant. `BackoffAssumption` says that the retry
delay is a number: the provers know nothing of `2 ^ n`, TLC evaluates the assumption at
the start of every run.

**PdfUploads_proofs** — `TypeCorrect`, `Backed`, `Readable`, `JobInput`,
`FinalVerdict`. `RequestsInOrder` says what a request has achieved where it stands
(after `PutBlob` the object is there, after `Register` the artifact row, and so on,
for the content it materialised, which is the promised one): nobody deletes
content-addressed objects, so what one request established another cannot undo.
`LockedAreOpen` says that the row a cleanup pass holds is still one it may expire.

**ProviderBreaker_proofs** — `TypeCorrect`, `Matches`, `Spared`. `TriesOK` bounds the
tries by where a call is, so that no answer is ever for one try too many. `Spared` needs
`TimeoutCoversCalm`: while the breaker is open, what is left of the timeout and the ticks
since the last request or failure make up a whole timeout, because every late failure
restarts both.

**ProviderRateLimit_proofs** — `TypeCorrect`, `Spaced`, `NotBeforeSlot`, `SlotsKept`,
`Bounded`. `RowIsAhead` (every outstanding slot plus the interval is at most
`nextAllowed`) makes a new slot distant from all of them; `ReadingsArePast` makes the
sleep long enough although the clock was read before the lock was granted. The rate is
bounded by counting (`RInv`): `RowCounts` says that `nextAllowed` has moved on by at
least one interval for every slot granted or still slept for, `SlotCounts` that the slots
granted and those slept for before a sleeper's own are no more than fit before its slot,
or before the clock when others have overslept.

**AnalysisGraph_proofs** — `TypeCorrect`, `InOrder`, `OwnPaper`, `Indexed`,
`Finished`, `KeepTheirPlace`, `Honest`. `ScratchFollows` says that scratch and report are
about the paper at the index, or empty, at each node; `IndexingFollows` that the indexing
steps work on a paper whose earlier stores are written. `Honest` needs a second invariant
`OInv`: `CleanSoFar` (the first run writes nothing before its only paper is indexed, and
no way leads back from there to a node where it could be canceled) and `DecidedSoFar` (the
graph is left behind the last paper or with a failure, and in a run over one paper a
failure is not a slot).

**SessionRequests_proofs** — `Explained`, `Named`, `Conflict`, for any papers, requests,
threads and searches. A request keeps in its locals what it has found or written and
relies on it many steps later, while others go on. `ThreadOK` says, per step, what a
request has in hand (a reuse behind its clone has the workspace, then the rows, then the
points; a selection that is being marked has the rest still in its queue; the artifacts
written so far are workspaces), and `Growth` that no step of anybody takes such a thing
away: workspaces, copies, candidates and their marks only grow, and points that go to
another session are noted in `taken`. `AddersAlone` is what the list of active papers
needs: as long as no two additions have overlapped, who is about to write the list has
read it as it is, and is the only one. `StepKeeps` shows the first two action by action,
`StepPreserves` the rest.

**ArxivFetch_proofs** — `FetchTyped`, `BreakerCounts`, `IngestionsAreHonest`,
`FetchedStays`, for any callers, block counts, limits, tries and thresholds. That no part
is taken for the whole is a statement about one call that depends on all of them, because
they share the file. `FileIsTrue` says what holds as long as nothing broke off and no two
calls met in the file (`hurt`): there is one writer at most and nobody parses beside it
(`WriterIsAlone`), the file has the blocks the writer has written so far
(`WriterHasWritten`), it is there for whoever parses (`ParserHasFile`), and without a
writer it is whole (`LeftIsWhole`). `Honest` says step by step what metadata and text a
call has in hand, which is what the last fallback relies on.

**Agents_proofs** — `DiscoveriesAreSound`, `ComparisonsAreFair`, `ChunksCoverPapers`,
`VerdictsAreEarned`, `SynthesesAreGrounded`, `ExtractionsAreCautious`,
`JobsKeepTheirWord`, `PagesAreOrderly`, `ConversationAnswersAreTrustworthy`,
`ConversationTellsItsTroubles`: every invariant of the run `agents`, of the specification
of its part (`DiscoverySpec`, ...), for any inputs, sizes and limits that satisfy the
part's assumption. The assumptions type the inputs and say that limits are positive (and,
of the alias tables, that no name becomes the absent one): a plan of any length, a paper
of any pages, a slot of any rows, a request with any field of another type.

- *What the loops compute.* The library's induction rules take an operator, which the
  provers cannot instantiate, so induction is restated over sets: a set of naturals that
  is not empty has a least element (`LeastNatural`, from `WFMin`), hence a set that has 0
  and every successor has them all (`SetInduction`), hence a set of sequences that is
  closed under `Append` has them all (`SequenceInduction`). `GatheringExists` shows that
  the recursive function of `Gathered` is one, and `GatheredOfAppend` is the only fact
  about it that the rest needs: one more element, one more round.
- *Discovery.* `DedupKeepsEachOnce`: what is kept shares no key, and a result is dropped
  only for one that is kept. `RankRanksTheBest` needs the order to exist before it can be
  chosen: scores are numbers, the alphabet is a strict total order on titles
  (`TitleBeforeIsTotal` looks at the first word that differs), and an order can be listed
  by counting what is before each element (`OrderCanBeListed`).
- *Comparison.* That the order of papers does not decide is proved by a mirror:
  `IsMirror` relates two lists of papers whose rows for a metric are none, one and the
  same, or several, in opposite places; both show the same values (`MirrorShows`), a
  winner of one wins in the other (`MirrorWins`), and being a mirror is symmetric.
  `VariantsSayWhichMatch` gives the three cases, by induction over a paper's rows.
  `WinsAddUp` counts each row with a winner exactly once, by induction over the papers.
- *Chunking.* A loop invariant for the page in turn (`PageGoesOn`): what is before the
  next window is covered, the last chunk begins before the window and reaches into it by
  the overlap at most. The pages before are done and nobody touches their chunks.
- *Verdict.* `SignalsOf` (the code is the best of what was found), `MaturityOf` (what the
  maturity implies of code and model) and `ReportOf`: the report is already within the
  caps of the critic, which is why the markdown, rendered before, stays true.
- *Synthesis, extraction.* The property itself with what is known at each node: what
  waits at `human_review` is not sure, and what has come by it is at `benchmark`.
- *Requests.* `RequestInv` keeps what was passed on, stored and called as functions of
  what was asked. `StoredIsValid` and `CallMeansWhatWasAsked` relate the three checks:
  what `enqueue_*` accepts, the executor never finds fault with and takes to mean the
  same; `NoInputIsRejected` shows that one action is never possible.
- *Page.* As long as no workspace was clicked beside a handler there is one handler, and
  if it is sure of its session then the field, what it asks for and what is shown agree
  at each of its awaits (`SureOfItsSession`).
- *Conversation.* `GraphIsGrounded` holds of the graph while it runs, against the list
  and the index as they were read, with a draft gone wherever an older one could come
  back; `GraphIsExplained` says that the end of the graph
  has a reviewed draft, a question, a request or an error to show.

The proofs changed three definitions. `AnswerTo` of `JobRequests` was a `CASE` with
overlapping arms, which TLA+ leaves open; it now asks for the adapter first, then for the
exception. `ChunksHaveTheirSize` is stated for every minimum, also one above the target.
`Rank` and the loops no longer use recursive or Java-backed operators.

**Only model-checked**: `JobsProgress`, `ImplementsFairLifecycle`, `UploadsEnd`,
`OpenIsProbed`, `EveryRunEnds`, `TurnEnds`, `IngestionEnds`, because liveness under
fairness is out of the prover's reach. Every other property of a passing run is a theorem
as well. That the parts of `agents` may be checked side by side in `MCAgents` is not
proved; the theorems are about each part alone.

## Where code and documentation disagree

The first is a run that TLC refutes. The others are stated as definitions in the modules
(except where said) and TLC refuted them on the instances above, but no run of the
project repeats that; `PROJECT.json` quotes the lines.

- **A half-open breaker can stay half open for ever** (run `breaker_stuck`).
  `before_request` denies every call in state `half_open` and never looks at
  `half_open_claimed_at`. If the probe records nothing, because its process died, its
  record was lost or the answer is one of those that are not recorded, nobody else is
  ever admitted, and `reset` has no caller. The runbook says half open means that a
  probe is in flight.
- **A fatal error is overwritten** (`FailureIsFinal`). The edge from `report` on is
  unconditional: a failed report reaches `report_finalize`, whose fatal error reaches
  `chunk_and_index`, which sets another stage. `agents/error_utils.py` says fatal
  errors always fail the whole run. The run goes back to ingestion until a report
  succeeds or the recursion limit raises.
- **Candidates of failed papers are marked analyzed** (`AnalyzedWasSuccessful`): the
  service looks at the phase of the whole batch, which is `qa` even if a paper failed.
- **A staging object can be left for good** (`AcceptedObjectIsReclaimed`): when its
  deletion fails after a successful finalize, the comment promises that the cleanup
  reconciles it, but the cleanup does not select finalized rows.
- **An active paper may not be searchable** (`ActiveIsSearchable`): chunk ids do not name
  the session, so an analysis of the paper elsewhere moves its rows and points there.
- **A discovery may search nothing** (`DiscoverSearches`): in phase `selection` every
  message, and so every discovery, is parsed as a selection; a first discovery without
  results leaves the session in that phase.
- **Chunks may repeat each other** (`ChunksAdvance`): behind a boundary the next windows
  end at the same boundary again and begin one character later each.
- **A part of a PDF stays the PDF** (`PartIsReplaced`): a download that breaks off leaves
  its file, which every later one takes for the whole.
- **A provider that is down is a success** (`RetryableIsNoSuccess`): inside the graphs
  every failure becomes a result, so the job succeeds with phase `failed` and is not
  tried again as `docs/RESILIENCE.md` says.
- **Nobody reviews an unsure extraction** (`UnsureWaits`): `agents/human_review.py` says
  that the graph is compiled with an interrupt before it. `create_app` of `graph.py` does
  so and only tests call it; the graph of `api/app_factory.py` goes on to `benchmark`.
- **The repair limit is not recorded** (`LimitIsRecorded`): `docs/AGENT_CONTRACT.md`
  has the termination reason `max_iter`; the critic that ends the loop says `fallback`.

Read off the code while modelling, without a definition of their own:

- Analysis. The comparator counts slots, not completed papers (`agents/supervisor.py:173`).
  After a failed report the second paper of a batch is indexed under the first one's
  position (`agents/chunk_and_index.py:126`). An answer of Sonnet replaces Haiku's rows
  even if it has fewer. The report's caps make the evidence critic's redundant. A
  confidence of `NaN` becomes 1. A metric's direction is guessed by substring:
  `answer_f1` contains `wer`. The abstract fallback may succeed with an empty text.
- Questions. A failure of the critic returns the unreviewed answer with an error. A repair
  discards the draft it repairs. A question that resolves to no paper ends in
  "insufficient evidence" without a search. No first plan searches chunks of type
  `abstract`. An LLM's synthesis need not state limitations, and may use a comparison that
  shares one paper only.
- Jobs. A retryable failure moves a job from running back to queued, which the life cycle
  in `docs/ASYNC_JOBS.md` does not list (`JobLifecycle!Requeue` has it); a Postgres error
  of a heartbeat is not retried. An empty list of papers means "all" to a job and is an
  error to the direct call.
- Adapters. The form endpoint stores the PDF before it finds that the version is blank.
  REST ignores `paper_ids` of a synthesis; it accepts a comparison of one paper, MCP does
  not. `RegisteredPdfBlobNotAuthorizedError` is a 500 over REST.
- The page. A click on a workspace during a job enables the buttons and overwrites the
  panel; "Load" does not refresh the list of workspaces; the session field, edited during
  a job, makes the refresh show another session; a job that outlives the half hour is
  reported as running whatever the last poll said.
- Providers. Late records of calls from before the opening decide a half-open breaker.
  Slots are spaced, but a caller that oversleeps sends right before the next one (which is
  why `RateIsBounded` speaks of the long run). Two first inserts into the metadata cache
  conflict, and the loser, perhaps the success, is dropped.

## Limits

- Data: what an agent computes from a text, how texts are worded, rendered and embedded.
  Failures of these computations, and every shape of answer the code tells apart, are
  choices.
- `mark_running`, `reset` and `search_papers` (no caller), `ttl` artifacts and
  `release_reference` (no program path reaches them) are left out.
- Postgres transactions on one locked row are atomic; the clock is one clock for all
  processes (a lease compared with two skewed clocks is not modelled).
- A PUT whose body arrives after the cleanup deleted the staging object leaks that
  object (`storage/repositories.py:837`); a caller whose limiter database is down sleeps
  alone, so that several exceed the rate (`services/provider_rate_limiter.py:90`); a
  worker that lost its lease inside a graph node writes phase `failed` under the new
  worker (`workers/workflow_worker.py:324`). The code has no answer to these, and no
  property excludes them.
- Turns and structured errors of a session are appended, never read back to decide
  anything but a prompt; they are left out.
- A turn of `Conversation` meets any list and any index; which of them other requests
  can bring about together is in `SessionRequests`, not composed with it.
- The values of a benchmark are integers; `NaN` and infinity, which the parser lets
  pass, are not compared.
- `MCAgents` checks each part on its own; what they exchange through a session is in
  `AnalysisGraph` and `SessionRequests`.
