----------------------------- MODULE JobRequests -----------------------------
(* What becomes of the input of a workflow job: checked and passed on by the *)
(* REST endpoints and the MCP tools, checked and stored by enqueue_* of      *)
(* services/paperintel_service.py, read and called by WorkflowJobExecutor of *)
(* workers/workflow_worker.py, and what the worker makes of the exception    *)
(* that ends the call.  The lease and the row of the job are in              *)
(* WorkflowJobs, the upload of a PDF in PdfUploads.                          *)
(*                                                                           *)
(* A text is a word, or none, perhaps with blanks around it; it is long when *)
(* it is over its limit with its blanks, and a word of LongWords is also     *)
(* without them.                                                             *)
EXTENDS Integers, Sequences, FiniteSets, Functions, Loops

CONSTANTS
  JobInputs,    \* requests [kind, text, version, paper, ids, prompt], Null where a kind has no such field
  Wordings,        \* what a string says but for its blanks; "" is no word
  LongWords, Urls,  \* words that are over the limit, words that are http or https urls
  Null, NotText,  \* None, and a value that is no string
  MostIds,      \* papers of one request
  MostAttempts, \* max_attempts of a job
  Delays        \* seconds that a Retry-After header may say; below zero is a date that is over

\* A string as far as the checks can tell, with what it says of its length.
Strings == [word : Wordings, padded : BOOLEAN, long : BOOLEAN]
Texts == {Null, NotText} \cup Strings
JobKinds == {"analyze_paper", "analyze_selected", "analyze_pdf_blob", "discover", "compare", "synthesize"}
Inputs ==
  [kind : JobKinds, text : Texts, version : Texts, paper : Texts, ids : {Null, NotText} \cup Seq(Texts),
   prompt : Texts]

WithText == {"analyze_paper", "discover", "analyze_pdf_blob"}
WithIds == {"compare", "synthesize"}

ASSUME JobRequestsAssumption ==
  /\ JobInputs \subseteq Inputs /\ \A i \in JobInputs : i.kind \notin WithIds => i.ids = Null
  /\ LongWords \subseteq Wordings /\ Urls \subseteq Wordings /\ "" \in Wordings \ (LongWords \cup Urls)
  /\ \A none \in {Null, NotText} : none \notin Strings /\ none \notin Seq(Texts)
  /\ Null # NotText
  /\ MostIds \in Nat /\ MostAttempts \in Nat \ {0} /\ Delays \subseteq Int

NoWord == [word |-> "", padded |-> FALSE, long |-> FALSE]

\* str.strip of a string, and what is no string is blank.
Stripped(t) == IF t \in {Null, NotText} THEN NoWord ELSE [t EXCEPT !.padded = FALSE, !.long = @ /\ t.word \in LongWords]
IsBlank(t) == Stripped(t) = NoWord
IsLong(t) == t \notin {Null, NotText} /\ t.long
OrNull(t) == IF IsBlank(t) THEN Null ELSE t

(* via: how the client calls, "rest", "form" (the REST endpoint that takes   *)
(* the PDF with the job and names it), "mcp", or "service" from within the   *)
(* process; input: what the client says; asked: the arguments of enqueue_*;  *)
(* uploaded: a PDF is in the store for the request; answer: what the client  *)
(* is told; stored, error: input_json and error_json of the row; failure:    *)
(* the exception of the last attempt.                                        *)
VARIABLE request   \* node, via, input, asked, uploaded, answer, stored, call, attempts, failure, error

NoFailure == [type |-> "none", status |-> 0, delay |-> Null]
NoError == [code |-> "none", class |-> "none", retryable |-> FALSE, delay |-> Null, neutral |-> FALSE]

RequestOf(via, input) ==
  [node |-> "sent", via |-> via, input |-> input, asked |-> input, uploaded |-> FALSE, answer |-> "none",
   stored |-> input, call |-> input, attempts |-> 0, failure |-> NoFailure, error |-> NoError]

RequestInit ==
  \E via \in {"rest", "form", "mcp", "service"}, input \in JobInputs :
    /\ via = "form" => input.kind = "analyze_pdf_blob" /\ ~IsBlank(input.text)
    /\ request = RequestOf(via, input)

-----------------------------------------------------------------------------
(* Ids *)

\* dict.fromkeys: the first of equal ids stays.
Unique(ids) == Gathered(ids, {x \in Seq(Texts) \X Texts : x[2] \notin Range(x[1])})

-----------------------------------------------------------------------------
(* The adapters: the schemas of api/rest/schemas.py, the tools of            *)
(* mcp_server/tools.py.  A value of another type stops at either.            *)

IllTyped(i) ==
  \/ i.text = NotText \/ i.version = NotText \/ i.paper = NotText \/ i.prompt = NotText \/ i.ids = NotText
  \/ i.ids # Null /\ \E id \in Range(i.ids) : id = NotText

\* The limits of the schemas count the blanks, and the ids before equal ones
\* are one.
SchemaRefuses(i) ==
  \/ i.kind = "analyze_paper" /\ Stripped(i.text).word \notin Urls
  \/ i.kind = "discover" /\ (i.text = NoWord \/ IsLong(i.text))
  \/ i.kind = "analyze_pdf_blob" /\ (i.version = NoWord \/ IsLong(i.version) \/ IsLong(i.paper))
  \/ i.kind = "compare" /\ i.ids # Null /\ Len(i.ids) > MostIds
  \/ i.kind \in WithIds /\ IsLong(i.prompt)

\* HttpUrl has no blanks; a request for a synthesis has no field for papers.
FromSchema(i) ==
  [i EXCEPT !.text = IF i.kind = "analyze_paper" THEN Stripped(@) ELSE @,
            !.ids = IF i.kind = "synthesize" THEN Null ELSE @]

SchemaAccepts(i) == ~IllTyped(FromSchema(i)) /\ ~SchemaRefuses(i)

StrippedIds(ids) == IF ids = Null THEN Null ELSE [n \in DOMAIN ids |-> Stripped(ids[n])]

ToolRefuses(i) ==
  \/ i.kind \in WithText /\ IsBlank(i.text)
  \/ i.kind = "analyze_paper" /\ Stripped(i.text).word \notin Urls
  \/ i.kind = "discover" /\ Stripped(i.text).long
  \/ i.kind = "analyze_pdf_blob" /\ (IsBlank(i.version) \/ Stripped(i.version).long \/ Stripped(i.paper).long)
  \/ i.kind \in WithIds /\ Stripped(i.prompt).long
  \/ /\ i.kind \in WithIds /\ i.ids # Null
     /\ \/ \E id \in Range(StrippedIds(i.ids)) : id = NoWord \/ id.long
        \/ Len(i.ids) > MostIds
        \/ Cardinality(Range(StrippedIds(i.ids))) < 2

FromTool(i) ==
  [i EXCEPT !.text = IF @ = Null THEN Null ELSE Stripped(@),
            !.version = IF @ = Null THEN Null ELSE Stripped(@),
            !.paper = OrNull(Stripped(@)), !.ids = StrippedIds(@), !.prompt = OrNull(Stripped(@))]

ToolAccepts(i) == ~IllTyped(i) /\ ~ToolRefuses(i)

Refuse(answer) == request' = [request EXCEPT !.node = "refused", !.answer = answer]

OverRest == request.node = "sent" /\ request.via \in {"rest", "form"}

RestRefuses ==
  /\ OverRest /\ ~SchemaAccepts(request.input)
  /\ Refuse("unprocessable")

RestPasses ==
  /\ OverRest /\ SchemaAccepts(request.input)
  /\ request' = [request EXCEPT !.node = IF request.via = "form" THEN "storing" ELSE "asked",
                                !.asked = FromSchema(request.input)]

McpRefuses ==
  /\ request.node = "sent" /\ request.via = "mcp" /\ ~ToolAccepts(request.input)
  /\ Refuse("fault named")

McpPasses ==
  /\ request.node = "sent" /\ request.via = "mcp" /\ ToolAccepts(request.input)
  /\ request' = [request EXCEPT !.node = IF request.input.kind = "analyze_pdf_blob" THEN "storing" ELSE "asked",
                                !.asked = FromTool(request.input)]

CallService ==
  /\ request.node = "sent" /\ request.via = "service"
  /\ request' = [request EXCEPT !.node = "asked"]

\* The exception handlers of create_rest_app; _safe_error of the tools.
AnswerTo(exception) ==
  IF request.via = "service" THEN "raised"
  ELSE IF request.via = "mcp" THEN "again"
  ELSE CASE exception = "invalid" -> "bad request"
         [] exception \in {"no_session", "no_upload"} -> "not found"
         [] exception = "upload_state" -> "refused by state"
         [] exception = "blob_store_down" -> "unavailable"
         [] OTHER -> "internal"

\* A PDF comes with the request and is stored before the job is.
StoreUpload ==
  /\ request.node = "storing"
  /\ \/ request' = [request EXCEPT !.node = "asked", !.uploaded = TRUE]
     \/ \E e \in {"no_session", "blob_store_down", "other"} : Refuse(AnswerTo(e))

-----------------------------------------------------------------------------
(* enqueue_* *)

IdsRefused(ids) ==
  /\ ids # Null
  /\ \/ ids = NotText
     \/ \E id \in Range(ids) : id = NotText \/ IsBlank(id) \/ id.long
     \/ Cardinality(Range(ids)) > MostIds

\* Mutant: what is left without the blanks is not looked at.
Refused_Unstripped(i) ==
  \/ i.kind \in WithText /\ i.text \in {Null, NotText, NoWord}
  \/ i.kind \in WithIds /\ (IdsRefused(i.ids) \/ i.prompt = NotText)

Refused(i) ==
  \/ i.kind \in WithText /\ IsBlank(i.text)
  \/ i.kind = "discover" /\ Stripped(i.text).long
  \/ i.kind = "analyze_pdf_blob" /\ IsBlank(i.version)
  \/ i.kind \in WithIds /\ (IdsRefused(i.ids) \/ i.prompt = NotText \/ IsLong(i.prompt))

\* An empty list of ids is stored as no list at all.
Stored(i) ==
  [i EXCEPT !.text = IF @ = Null THEN Null ELSE Stripped(@),
            !.version = IF @ = Null THEN Null ELSE Stripped(@),
            !.paper = OrNull(Stripped(@)),
            !.ids = IF @ = Null \/ @ = <<>> THEN Null ELSE Unique(@),
            !.prompt = OrNull(@)]

Enqueue ==
  /\ request.node = "asked"
  /\ IF Refused(request.asked) THEN Refuse(AnswerTo("invalid"))
     ELSE request' = [request EXCEPT !.node = "queued", !.answer = "queued", !.stored = Stored(request.asked)]

\* The session is looked up before the input is looked at.
EnqueueFails ==
  /\ request.node = "asked"
  /\ \/ Refuse(AnswerTo("no_session"))
     \/ /\ ~Refused(request.asked)
        /\ \E e \in {"other"} \cup (IF request.asked.kind = "analyze_pdf_blob" THEN {"no_upload", "upload_state"} ELSE {}) :
             Refuse(AnswerTo(e))

-----------------------------------------------------------------------------
(* WorkflowJobExecutor.execute *)

Invalid(i) ==
  \/ i.kind \in WithText /\ IsBlank(i.text)
  \/ i.kind = "analyze_pdf_blob" /\ IsBlank(i.version)
  \/ i.kind \in WithIds /\ i.prompt = NotText
  \/ i.kind \in WithIds /\ i.ids # Null /\ (i.ids = NotText \/ \E id \in Range(i.ids) : id = NotText)

\* classify_http_status
HttpClass(status) ==
  CASE status = 429 -> "rate_limited"
    [] status = 404 -> "provider_not_found"
    [] status = 408 -> "provider_timeout"
    [] status >= 500 -> "provider_unavailable"
    [] OTHER -> "invalid_input"

Missing == {"registered_blob_missing", "blob_missing"}
Dependency == {"blob_store_down", "qdrant_down"}
BadBlob == {"integrity", "too_large"}
BadInput == {"invalid", "upload_state", "not_authorized"} \cup BadBlob

\* classify_provider_exception, with the types that the worker gives it.
FailureClass(f) ==
  CASE f.type = "canceled" -> "canceled"
    [] f.type \in Missing -> "provider_not_found"
    [] f.type \in Dependency -> "dependency_unavailable"
    [] f.type \in {"breaker_open", "transport"} -> "provider_unavailable"
    [] f.type \in BadInput -> "invalid_input"
    [] f.type = "http" -> HttpClass(f.status)
    [] f.type = "timeout" -> "provider_timeout"
    [] OTHER -> "internal_error"

\* The branches that say retryable, and decide_workflow_retry, which overrides
\* the one of an open breaker.
Transient(f) ==
  \/ f.type \in Dependency \cup {"timeout", "transport", "breaker_open"}
  \/ /\ f.type = "http"
     /\ f.status \in {408, 429} \/ f.status >= 500

\* _retry_after_seconds_from_exception
RetryAfter(f) ==
  IF f.delay # Null /\ (f.type = "breaker_open" \/ (f.type = "http" /\ f.status = 429))
  THEN IF f.delay < 0 THEN 0 ELSE f.delay
  ELSE Null

ErrorCode(f, kind) ==
  CASE f.type = "invalid" -> "invalid_job_input"
    [] f.type \in Missing -> "blob_not_found"
    [] f.type \in BadBlob -> "blob_integrity_failure"
    [] f.type = "upload_state" -> "pdf_upload_not_ready"
    [] f.type = "not_authorized" -> "registered_blob_not_authorized"
    [] f.type \notin BadInput \cup Missing /\ kind = "analyze_pdf_blob" -> "analysis_failed"
    [] OTHER -> "exception"

\* serialize_exception
ErrorJson(f, retried) ==
  [code |-> ErrorCode(f, request.stored.kind), class |-> FailureClass(f), retryable |-> retried,
   delay |-> IF retried THEN RetryAfter(f) ELSE Null, neutral |-> f.type = "breaker_open"]

\* The worker's last handler and record_failure.
RecordJobFailure(f) ==
  LET retried == Transient(f) /\ request.attempts < MostAttempts IN
    request' = [request EXCEPT !.failure = f, !.error = ErrorJson(f, retried),
                               !.node = IF retried THEN "queued" ELSE "failed"]

Claim ==
  /\ request.node = "queued"
  /\ request' = [request EXCEPT !.node = "running", !.attempts = @ + 1, !.failure = NoFailure]

RejectInput ==
  /\ request.node = "running" /\ Invalid(request.stored)
  /\ RecordJobFailure([NoFailure EXCEPT !.type = "invalid"])

Call ==
  /\ request.node = "running" /\ ~Invalid(request.stored)
  /\ request' = [request EXCEPT !.node = "called", !.call =
                   [request.stored EXCEPT !.text = IF @ = Null THEN Null ELSE Stripped(@),
                                          !.version = IF @ = Null THEN Null ELSE Stripped(@),
                                          !.paper = IF @ = Null THEN Null ELSE Stripped(@)]]

-----------------------------------------------------------------------------
(* What the service's method raises *)

Failure(type) == [NoFailure EXCEPT !.type = type]

\* The embedding provider and Qdrant, which a paper taken from the cache needs.
Unindexed ==
  {Failure(type) : type \in {"qdrant_down", "timeout", "transport", "other"}}
    \cup [type : {"http"}, status : {400, 404, 408, 429, 500}, delay : {Null}]
    \cup [type : {"http"}, status : {429}, delay : Delays]

OfBlobs == {Failure(type) : type \in Missing \cup {"blob_store_down", "upload_state", "not_authorized"} \cup BadBlob}

\* Before and behind the chat handler; the others only miss papers or the database.
Raised(kind) ==
  CASE kind = "analyze_pdf_blob" -> Unindexed \cup OfBlobs
    [] kind = "analyze_paper" -> Unindexed
    [] OTHER -> {Failure("other")}

WithHandler == {"analyze_paper", "analyze_selected", "analyze_pdf_blob", "discover"}

\* In the graphs, where also arXiv is asked, behind its breaker.
Met(kind) == IF kind \in WithHandler THEN Unindexed \cup {Failure("breaker_open")} ELSE {}

Return ==
  /\ request.node = "called"
  /\ request' = [request EXCEPT !.node = "succeeded"]

Fail ==
  /\ request.node = "called"
  /\ \E f \in Raised(request.call.kind) : RecordJobFailure(f)

\* The nodes of the graph and the chat handler turn a failure into a result
\* with phase "failed", and so the call returns.
Swallow ==
  /\ request.node = "called"
  /\ \E f \in Met(request.call.kind) : request' = [request EXCEPT !.node = "succeeded", !.failure = f]

RequestNext ==
  \/ RestRefuses \/ RestPasses \/ McpRefuses \/ McpPasses \/ CallService \/ StoreUpload
  \/ Enqueue \/ EnqueueFails
  \/ Claim \/ RejectInput \/ Call \/ Return \/ Fail \/ Swallow

-----------------------------------------------------------------------------
(* Properties *)

\* What a method of the service understands by its arguments.
Meaning(call) ==
  [kind |-> call.kind, text |-> Stripped(call.text), version |-> Stripped(call.version),
   paper |-> Stripped(call.paper), prompt |-> Stripped(call.prompt),
   ids |-> IF call.ids = Null THEN Null ELSE Unique(call.ids)]

\* docs/ASYNC_JOBS.md: a job is the call of the same name, later.  Whatever
\* enqueue_* accepts means the same to the worker as it would have meant to
\* the direct call, and the worker never finds fault with it.  An empty list
\* of papers, which the direct call refuses, is the one exception.
JobMeansTheRequest ==
  /\ request.error.code # "invalid_job_input"
  /\ request.node \in {"called", "succeeded"} /\ request.asked.ids # <<>> =>
       Meaning(request.call) = Meaning(request.asked)

RetryableClasses == {"rate_limited", "provider_unavailable", "provider_timeout", "dependency_unavailable"}

\* docs/RESILIENCE.md, Worker Retry Semantics: a job goes back to the queue
\* exactly for the four classes while it has attempts, says so in its error,
\* and gives a delay only then; and the code of the error, which a chain of
\* its own finds, agrees with the class.
RetryFollowsThePolicy ==
  request.error # NoError =>
    /\ request.node = "queued" => request.error.retryable
    /\ request.node = "failed" => ~request.error.retryable
    /\ request.error.retryable => request.error.class \in RetryableClasses
    /\ request.node = "failed" /\ request.error.class \in RetryableClasses => request.attempts = MostAttempts
    /\ request.error.delay # Null => request.error.retryable /\ request.error.delay >= 0
    /\ request.error.code = "blob_not_found" => request.error.class = "provider_not_found"
    /\ request.error.code \notin {"exception", "analysis_failed", "blob_not_found"} =>
         request.error.class = "invalid_input"

\* docs/RESILIENCE.md:167, "Open circuit breakers are stored as retryable
\* workflow failures while attempts remain": no job succeeds over a failure
\* that another attempt could repair.
RetryableIsNoSuccess == request.node = "succeeded" => ~Transient(request.failure)

\* The adapters pass on what the client says but for its blanks; papers for a
\* synthesis, which REST has no field for, are ignored.
AskedMeansTheInput ==
  LET i == request.input
      papers(ids) == IF ids = Null THEN {} ELSE {Stripped(id) : id \in Range(ids)}
  IN request.via # "service" /\ request.node \notin {"sent", "refused"} =>
       /\ Meaning([request.asked EXCEPT !.ids = Null]) = Meaning([i EXCEPT !.ids = Null])
       /\ i.kind = "compare" \/ request.via = "mcp" => papers(request.asked.ids) = papers(i.ids)

\* A client that is told to try again, or that the server is at fault, has
\* sent an input that may be stored: what the tools and the schemas let pass
\* the service refuses only where the client is told so.
FaultsAreNamed ==
  request.answer \in {"again", "internal", "unavailable"} =>
    ~Refused(request.asked) \/ (request.via = "form" /\ ~request.uploaded)

\* A fault of the input leaves no PDF behind, but for a version of blanks in
\* the form, which only the service finds, after the PDF is stored.
FaultsLeaveNoPdf ==
  request.uploaded /\ request.answer = "bad request" => request.via = "form" /\ IsBlank(request.input.version)

\* A job does what was asked for, its client hears of what is wrong with the
\* request, and it is tried again as the documents say.
JobKeepsItsWord ==
  JobMeansTheRequest /\ AskedMeansTheInput /\ FaultsAreNamed /\ FaultsLeaveNoPdf /\ RetryFollowsThePolicy
=============================================================================
