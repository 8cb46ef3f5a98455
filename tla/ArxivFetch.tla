------------------------------ MODULE ArxivFetch ------------------------------
(***************************************************************************)
(* The ingestion of one arXiv paper by URL (agents/ingestion.py,           *)
(* _route_url) in the threads of one process: the metadata through the     *)
(* cache table (tools/arxiv_client.py get_metadata, storage/repositories.py*)
(* PostgresArxivMetadataCacheRepository), then the PDF through a file in   *)
(* tmp/ that has the same name for every call (download_pdf), then the     *)
(* text, with what is left when one of them fails.                         *)
(*                                                                         *)
(* A PDF is its blocks, as iter_bytes delivers them.  The enrichment with  *)
(* Semantic Scholar never fails the ingestion and is left out.             *)
(***************************************************************************)
EXTENDS LocalBreaker, Integers

CONSTANTS
  Callers,    \* threads that ingest the paper, again and again
  Injected,   \* callers whose run brings metadata of its own, perhaps to skip arXiv's
  MaxTries,   \* stop_after_attempt
  Limit,      \* MAX_PDF_SIZE_MB, in blocks
  Sizes       \* what the size of the PDF may be

ASSUME FetchAssumption ==
  /\ Injected \subseteq Callers
  /\ MaxTries \in Nat \ {0} /\ Limit \in Nat \ {0} /\ Sizes \subseteq Nat \ {0}

VARIABLES
  size,   \* of the PDF at arXiv
  file,   \* tmp/<arxiv_id>.pdf: whether it is there, and the blocks in it
  row,    \* of arxiv_metadata_cache: none, with errors only, or fetched
  call,   \* what each caller is doing
  hurt    \* history: a download broke off, or somebody met one in progress

fetch == <<size, file, row, call, hurt, breaker>>

NoFile == [there |-> FALSE, blocks |-> {}]
NoCall == [at |-> "idle", try |-> 1, meta |-> "none", seen |-> "none", why |-> "ok",
           written |-> 0, linked |-> FALSE, text |-> "none"]

Whole == 1..size

Init ==
  /\ size \in Sizes
  /\ file = NoFile
  /\ row = "none"
  /\ call = [c \in Callers |-> NoCall]
  /\ hurt = FALSE
  /\ breaker = NewBreaker

\* The next step of a call: what it needs of the step before it, it is given.
Going(c, step) ==
  [call[c] EXCEPT !.at = step, !.seen = "none", !.why = "ok", !.written = 0, !.linked = FALSE]
Now(c, going) == call' = [call EXCEPT ![c] = going]
At(c, step) == call[c].at = step

-----------------------------------------------------------------------------
(* What came back: a 404, a 429, another refusal, or what a breaker counts.  *)

Failures == {"missing", "throttled", "invalid", "broken"}
Retryable(why) == why \in {"throttled", "broken"}
TriesLeft(c) == call[c].try < MaxTries

\* Mutant: the tries are not counted.
NextTry_Same(c) == call[c].try
NextTry(c) == call[c].try + 1

\* _record_arxiv_failure
RecordArxivFailure(why) == IF why = "broken" THEN RecordFailure ELSE UNCHANGED breaker

-----------------------------------------------------------------------------
(* Metadata *)

Start(c) ==
  /\ At(c, "idle")
  /\ \/ Now(c, Going(c, "metadata"))
     \/ c \in Injected /\ Now(c, [Going(c, "download") EXCEPT !.meta = "injected"])
  /\ UNCHANGED <<size, file, row, hurt, breaker>>

\* Without metadata of arXiv: injected metadata takes its place.
WithoutMetadata(c) ==
  [Going(c, "download") EXCEPT !.try = 1, !.meta = IF c \in Injected THEN "injected" ELSE "none"]

\* A read that fails is a miss.
ReadCache(c) ==
  /\ At(c, "metadata")
  /\ \/ row = "fetched" /\ Now(c, [Going(c, "download") EXCEPT !.try = 1, !.meta = "arxiv"])
     \/ Now(c, Going(c, "asking"))
  /\ UNCHANGED <<size, file, row, hurt, breaker>>

AskMetadata(c) ==
  /\ At(c, "asking")
  /\ \/ BeforeRequest /\ Now(c, Going(c, "asked"))
     \/ IsOpen /\ Now(c, WithoutMetadata(c)) /\ UNCHANGED breaker
  /\ UNCHANGED <<size, file, row, hurt>>

MetadataAnswer(c) ==
  /\ At(c, "asked")
  /\ \/ RecordSuccess /\ Now(c, [Going(c, "recording") EXCEPT !.seen = row])
     \/ /\ \E why \in Failures : Now(c, [Going(c, "recording") EXCEPT !.seen = row, !.why = why])
        /\ UNCHANGED breaker
  /\ UNCHANGED <<size, file, row, hurt>>

\* Mutant: an existing row is written as it was read.
Noted_WritesRow(c) == IF call[c].seen = "none" THEN "errors" ELSE call[c].seen

\* record_error writes the columns of the error only.
Noted(c) == IF row = "none" THEN "errors" ELSE row

\* The row is inserted where the read found none; a row that is there by then
\* is an IntegrityError, which is swallowed like every error of this write.
WriteCache(c) ==
  LET why == call[c].why IN
    \/ UNCHANGED row
    \/ /\ call[c].seen # "none" \/ row = "none"
       /\ row' = IF why = "ok" THEN "fetched" ELSE Noted(c)

RecordMetadata(c) ==
  LET why == call[c].why IN
    /\ At(c, "recording")
    /\ WriteCache(c)
    /\ \/ /\ why = "ok"
          /\ Now(c, [Going(c, "download") EXCEPT !.try = 1, !.meta = "arxiv"])
          /\ UNCHANGED breaker
       \/ /\ why = "missing"
          /\ Now(c, WithoutMetadata(c))
          /\ RecordSuccess
       \/ /\ why \notin {"ok", "missing"}
          /\ Now(c, IF Retryable(why) /\ TriesLeft(c)
                    THEN [Going(c, "metadata") EXCEPT !.try = NextTry(c)]
                    ELSE WithoutMetadata(c))
          /\ RecordArxivFailure(why)
    /\ UNCHANGED <<size, file, hurt>>

-----------------------------------------------------------------------------
(* The PDF *)

Writers == {c \in Callers : At(c, "writing")}

\* The abstract is what is left of a paper whose PDF failed.
WithoutPdf(c) ==
  [Going(c, "done") EXCEPT !.try = 1, !.text = IF call[c].meta = "none" THEN "none" ELSE "abstract"]

FailPdf(c, why) ==
  /\ Now(c, IF Retryable(why) /\ TriesLeft(c)
            THEN [Going(c, "download") EXCEPT !.try = NextTry(c)]
            ELSE WithoutPdf(c))
  /\ RecordArxivFailure(why)

\* Whatever an earlier call left there is the PDF.
FindFile(c) ==
  /\ At(c, "download")
  /\ file.there
  /\ Now(c, [Going(c, "parsing") EXCEPT !.try = 1])
  /\ hurt' = (hurt \/ Writers # {})
  /\ UNCHANGED <<size, file, row, breaker>>

AskPdf(c) ==
  /\ At(c, "download")
  /\ ~file.there
  /\ \/ BeforeRequest /\ Now(c, Going(c, "streaming"))
     \/ IsOpen /\ Now(c, WithoutPdf(c)) /\ UNCHANGED breaker
  /\ UNCHANGED <<size, file, row, hurt>>

PdfRefused(c) ==
  /\ At(c, "streaming")
  /\ \E why \in Failures : FailPdf(c, why)
  /\ UNCHANGED <<size, file, row, hurt>>

\* A Content-Length over the limit is a ValueError; without one the limit is
\* found while writing.  Opening truncates a file that is there by now.
OpenFile(c) ==
  /\ At(c, "streaming")
  /\ file' = [there |-> TRUE, blocks |-> {}]
  /\ hurt' = (hurt \/ file.there)
  /\ Now(c, [Going(c, "writing") EXCEPT !.linked = TRUE])
  /\ UNCHANGED <<size, row, breaker>>

WriteBlock(c) ==
  LET n == call[c].written + 1 IN
    /\ At(c, "writing")
    /\ n <= size /\ n <= Limit
    /\ file' = IF call[c].linked THEN [file EXCEPT !.blocks = @ \cup {n}] ELSE file
    /\ Now(c, [call[c] EXCEPT !.written = n])
    /\ UNCHANGED <<size, row, hurt, breaker>>

\* Mutant: what was written stays.
Unlinked_Stays == file

Unlinked == NoFile

\* Who still writes to the file that was unlinked writes to nowhere.
ExceedLimit(c) ==
  /\ At(c, "writing")
  /\ call[c].written = Limit /\ Limit < size
  /\ file' = Unlinked
  /\ call' = [d \in Callers |->
                IF d = c THEN WithoutPdf(c) ELSE [call[d] EXCEPT !.linked = FALSE]]
  /\ hurt' = (hurt \/ Writers # {c})
  /\ UNCHANGED <<size, row, breaker>>

BreakOff(c) ==
  /\ At(c, "writing")
  /\ FailPdf(c, "broken")
  /\ hurt' = TRUE
  /\ UNCHANGED <<size, file, row>>

CloseFile(c) ==
  /\ At(c, "writing")
  /\ call[c].written = size
  /\ Now(c, [Going(c, "parsing") EXCEPT !.try = 1])
  /\ RecordSuccess
  /\ UNCHANGED <<size, file, row, hurt>>

Parsed(c, text) ==
  [Going(c, "done") EXCEPT !.text = text, !.meta = IF @ = "none" THEN "pdf" ELSE @]

\* parse_pdf and the text it finds: nothing in a file that is gone, perhaps
\* nothing in a scanned one, and what PyMuPDF repairs of an incomplete one.
Parse(c) ==
  /\ At(c, "parsing")
  /\ \/ Now(c, WithoutPdf(c))
     \/ file.there /\ Now(c, Parsed(c, IF file.blocks = Whole THEN "whole" ELSE "part"))
  /\ UNCHANGED <<size, file, row, hurt, breaker>>

\* The node returns; a later run may ingest the paper again.
Return(c) ==
  /\ At(c, "done")
  /\ Now(c, NoCall)
  /\ UNCHANGED <<size, file, row, hurt, breaker>>

\* The process restarts with an empty breaker; tmp/ and the table stay.
Restart ==
  /\ \E c \in Callers : ~At(c, "idle")
  /\ call' = [c \in Callers |-> NoCall]
  /\ hurt' = (hurt \/ Writers # {})
  /\ breaker' = NewBreaker
  /\ UNCHANGED <<size, file, row>>

Tick == BreakerTick /\ UNCHANGED <<size, file, row, call, hurt>>

FetchMetadata(c) == ReadCache(c) \/ AskMetadata(c) \/ MetadataAnswer(c) \/ RecordMetadata(c)

Download(c) ==
  FindFile(c) \/ AskPdf(c) \/ PdfRefused(c) \/ OpenFile(c) \/ WriteBlock(c) \/ ExceedLimit(c)
    \/ BreakOff(c) \/ CloseFile(c)

Ingest(c) == FetchMetadata(c) \/ Download(c) \/ Parse(c)

Next ==
  \/ \E c \in Callers : Start(c) \/ Ingest(c) \/ Return(c)
  \/ Restart
  \/ Tick

Spec == Init /\ [][Next]_fetch

\* Requests end (the client has timeouts), and the paper is asked for again.
FairSpec == Spec /\ \A c \in Callers : WF_fetch(Start(c) \/ Ingest(c) \/ Return(c))

-----------------------------------------------------------------------------
(* Properties *)

TypeOK ==
  /\ size \in Sizes
  /\ file \in [there : BOOLEAN, blocks : SUBSET (1..size)]
  /\ row \in {"none", "errors", "fetched"}
  /\ call \in [Callers ->
       [at : {"idle", "metadata", "asking", "asked", "recording", "download", "streaming", "writing",
              "parsing", "done"},
        try : 1..MaxTries, meta : {"none", "arxiv", "injected", "pdf"}, seen : {"none", "errors", "fetched"},
        why : Failures \cup {"ok"}, written : 0..Limit, linked : BOOLEAN,
        text : {"none", "abstract", "part", "whole"}]]
  /\ hurt \in BOOLEAN
  /\ breaker \in [state : {"closed", "open", "half_open"}, failures : 0..Threshold, openFor : 0..Recovery]

\* Nobody analyses a part of a paper as if it were the whole, unless a
\* download broke off or two calls met in the file: a PDF over the limit leaves
\* nothing behind, and what is found was written to its end.
TextIsWhole == ~hurt => \A c \in Callers : call[c].text # "part"

\* docs/RESILIENCE.md, Graceful Degradation: arXiv's metadata alone never
\* fails a paper.  An ingestion ends with nothing only without metadata and
\* without a text, with an abstract only where there is metadata for it, and
\* with the metadata of the PDF only where it has the PDF.
EndsWithWhatItHas ==
  \A c \in Callers : At(c, "done") =>
    /\ call[c].text = "none" <=> call[c].meta = "none"
    /\ call[c].text = "abstract" => call[c].meta \in {"arxiv", "injected"}
    /\ c \in Injected => call[c].text # "none"

\* Metadata that was fetched stays in the cache, whatever a caller that read
\* the row before and failed writes after.
FetchedIsKept == [][row = "fetched" => row' = "fetched"]_row

\* The breaker is closed exactly while it has counted fewer failures than the
\* threshold since the last success, in whatever order its threads record.
BreakerMatchesCount ==
  /\ breaker.state = "closed" <=> breaker.failures < Threshold
  /\ breaker.openFor > 0 => breaker.state = "open"

\* Every ingestion ends, whatever arXiv answers.
IngestionEnds == \A c \in Callers : call[c].at # "idle" ~> call[c].at \in {"done", "idle"}

\* docs/TROUBLESHOOTING.md: after a failure of the PDF service one retries
\* later.  While ingestions go on to their end, a part of a PDF that nobody
\* finishes is made good by a later one.
PartIsReplaced ==
  (\A c \in Callers : []<>At(c, "done"))
    => (file.there /\ file.blocks # Whole ~> ~file.there \/ file.blocks = Whole)

(* An ingestion takes a paper for whole only if it is, and for lost only if  *)
(* nothing of it is there.                                                   *)
IngestionIsHonest == TextIsWhole /\ EndsWithWhatItHas
=============================================================================
