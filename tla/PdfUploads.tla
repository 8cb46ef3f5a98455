----------------------------- MODULE PdfUploads -----------------------------
(***************************************************************************)
(* The life of a PDF upload: services/paperintel_service.py (initiate,     *)
(* finalize, store, enqueue), the rows behind it in                        *)
(* storage/repositories.py, the object store, and the cleanup of expired   *)
(* uploads (services/blob_cleanup.py).                                     *)
(*                                                                         *)
(* A request of an API process is a sequence of object-store calls and     *)
(* database transactions, one action each; clients, other requests, the    *)
(* cleanup worker, outages, crashes and the clock run between them.  A     *)
(* content stands for its SHA-256, so content addressing makes it the key  *)
(* of the stored object and of the blob_artifacts row as well.             *)
(***************************************************************************)
EXTENDS Integers, FiniteSets

CONSTANTS
  Uploads,    \* ids of pdf_uploads rows
  Contents,   \* byte strings clients may send
  Sessions,
  Versions,   \* pipeline_version and paper_id of an analysis
  Requests,   \* calls in progress in the API processes
  NoUpload,   \* a request that is not working, a job that does not exist
  NoContent,  \* no object under a key, blob_id is NULL
  SessionOf,  \* session_id of each upload
  Expected,   \* expected_sha256 of each upload
  Pdfs,       \* the contents that start with %PDF-
  Lifetime    \* expires_seconds

ASSUME SetsAssumption ==
  /\ NoUpload \notin Uploads
  /\ NoContent \notin Contents
  /\ Pdfs \subseteq Contents

ASSUME FunctionsAssumption ==
  /\ SessionOf \in [Uploads -> Sessions]
  /\ Expected \in [Uploads -> Contents]
  /\ Lifetime \in Nat \ {0}

VARIABLES
  row,       \* pdf_uploads.status, "absent" before the row exists
  ttl,       \* ticks left until expires_at
  blob,      \* pdf_uploads.blob_id
  links,     \* uploads whose client was handed a presigned PUT url
  sending,   \* the body of a PUT that the object store has accepted
  staging,   \* the object under the staging key of each upload
  objects,   \* contents stored under their content-addressed key
  artifacts, \* contents with an active blob_artifacts row
  refs,      \* active session references of blobs: <<session, content>>
  jobs,      \* idempotency key -> upload_id of the job's input
  locked,    \* rows a cleanup pass holds locked after deleting the object
  pc,        \* where each request is
  up,        \* the upload a request works on
  view,      \* upload.status in the request's own copy of the row
  got        \* the content the request materialized

rows == <<row, ttl, blob, refs, artifacts, jobs>>
store == <<links, sending, staging, objects>>
procs == <<pc, up, view, got>>
vars == <<row, ttl, blob, links, sending, staging, objects, artifacts, refs,
          jobs, locked, pc, up, view, got>>

Statuses == {"absent", "initiated", "uploaded", "finalized", "enqueued",
             "failed", "expired"}
Open == {"initiated", "uploaded"}
Reclaimable == {"initiated", "uploaded", "failed"}
Accepted == {"finalized", "enqueued"}
Steps == {"idle", "presigning", "staging", "opening", "checking", "marking",
          "reading", "putting", "registering", "referencing", "finalizing",
          "discarding", "rejecting", "failing"}
\* The idempotency key is made of session, blob, paper id and pipeline version.
Keys == Sessions \X Contents \X Versions

Init ==
  /\ row = [u \in Uploads |-> "absent"]
  /\ ttl = [u \in Uploads |-> 0]
  /\ blob = [u \in Uploads |-> NoContent]
  /\ links = {}
  /\ sending = [u \in Uploads |-> NoContent]
  /\ staging = [u \in Uploads |-> NoContent]
  /\ objects = {}
  /\ artifacts = {}
  /\ refs = {}
  /\ jobs = [k \in Keys |-> NoUpload]
  /\ locked = {}
  /\ pc = [r \in Requests |-> "idle"]
  /\ up = [r \in Requests |-> NoUpload]
  /\ view = [r \in Requests |-> "absent"]
  /\ got = [r \in Requests |-> NoContent]

-----------------------------------------------------------------------------
(* Requests *)

Goto(r, step) == pc' = [pc EXCEPT ![r] = step]

\* The request returns or raises, or its process dies.
Leave(r) ==
  /\ Goto(r, "idle")
  /\ up' = [up EXCEPT ![r] = NoUpload]
  /\ view' = [view EXCEPT ![r] = "absent"]
  /\ got' = [got EXCEPT ![r] = NoContent]

Step(r, step) == Goto(r, step) /\ UNCHANGED <<up, view, got>>

\* _transition: under the row lock, from one of the allowed statuses.
Allowed(u, from) == u \notin locked /\ row[u] \in from
Refused(u, from) == u \notin locked /\ row[u] \notin from
SetStatus(u, to) == row' = [row EXCEPT ![u] = to]

\* initiate_pdf_upload and store_pdf_upload insert the row first.
Create(r, u) ==
  /\ pc[r] = "idle"
  /\ row[u] = "absent"
  /\ SetStatus(u, "initiated")
  /\ ttl' = [ttl EXCEPT ![u] = Lifetime]
  /\ \E step \in {"presigning", "staging"} : Goto(r, step)
  /\ up' = [up EXCEPT ![r] = u]
  /\ UNCHANGED <<blob, refs, artifacts, jobs, store, locked, view, got>>

\* initiate_pdf_upload goes on: create_presigned_put.
Presign(r) ==
  /\ pc[r] = "presigning"
  /\ \/ links' = links \cup {up[r]} /\ Leave(r)
     \/ Step(r, "failing") /\ UNCHANGED links
  /\ UNCHANGED <<rows, sending, staging, objects, locked>>

\* store_pdf_upload goes on: put_staging, then finalize_pdf_upload.
PutStaging(r) ==
  /\ pc[r] = "staging"
  /\ \/ staging' = [staging EXCEPT ![up[r]] = Expected[up[r]]] /\ Step(r, "opening")
     \/ Step(r, "failing") /\ UNCHANGED staging
  /\ UNCHANGED <<rows, links, sending, objects, locked>>

\* mark_failed when the object store was unavailable to a new upload.
FailNew(r) ==
  /\ pc[r] = "failing"
  /\ \/ Allowed(up[r], Open) /\ SetStatus(up[r], "failed")
     \/ Refused(up[r], Open) /\ UNCHANGED row
  /\ Leave(r)
  /\ UNCHANGED <<ttl, blob, refs, artifacts, jobs, store, locked>>

\* A client calls finalize.
Receive(r, u) ==
  /\ pc[r] = "idle"
  /\ row[u] # "absent"
  /\ Goto(r, "opening")
  /\ up' = [up EXCEPT ![r] = u]
  /\ UNCHANGED <<rows, store, locked, view, got>>

\* finalize_pdf_upload reads the row (no lock) and tests status and expiry.
OpenUpload(r) ==
  /\ pc[r] = "opening"
  /\ \/ /\ row[up[r]] \in Open /\ ttl[up[r]] > 0
        /\ Goto(r, "checking")
        /\ view' = [view EXCEPT ![r] = row[up[r]]]
        /\ UNCHANGED <<up, got>>
     \/ ~(row[up[r]] \in Open /\ ttl[up[r]] > 0) /\ Leave(r)
  /\ UNCHANGED <<rows, store, locked>>

\* head_object, _validate_pdf_upload_metadata: size and type may already tell
\* a wrong object, a right one always passes.
CheckStaged(r) ==
  /\ pc[r] = "checking"
  /\ \/ staging[up[r]] = NoContent /\ Leave(r)
     \/ /\ staging[up[r]] # NoContent
        /\ Step(r, IF view[r] = "initiated" THEN "marking" ELSE "reading")
     \/ /\ staging[up[r]] \notin {NoContent, Expected[up[r]]}
        /\ Step(r, "rejecting")
  /\ UNCHANGED <<rows, store, locked>>

\* mark_uploaded
MarkUploaded(r) ==
  /\ pc[r] = "marking"
  /\ \/ Allowed(up[r], {"initiated"}) /\ SetStatus(up[r], "uploaded") /\ Step(r, "reading")
     \/ Refused(up[r], {"initiated"}) /\ Leave(r) /\ UNCHANGED row
  /\ UNCHANGED <<ttl, blob, refs, artifacts, jobs, store, locked>>

\* Mutant: what passed the metadata check is not validated again.
ReadStaged_Trusting(r) ==
  /\ pc[r] = "reading"
  /\ \/ staging[up[r]] = NoContent /\ Leave(r)
     \/ /\ staging[up[r]] # NoContent
        /\ Goto(r, "putting")
        /\ got' = [got EXCEPT ![r] = staging[up[r]]]
        /\ UNCHANGED <<up, view>>
  /\ UNCHANGED <<rows, store, locked>>

\* materialize, _validate_pdf_upload_content
ReadStaged(r) ==
  LET u == up[r]
      c == staging[u]
  IN  /\ pc[r] = "reading"
      /\ \/ c = NoContent /\ Leave(r)
         \/ /\ c = Expected[u] /\ c \in Pdfs
            /\ Goto(r, "putting")
            /\ got' = [got EXCEPT ![r] = c]
            /\ UNCHANGED <<up, view>>
         \/ c # NoContent /\ ~(c = Expected[u] /\ c \in Pdfs) /\ Step(r, "rejecting")
      /\ UNCHANGED <<rows, store, locked>>

\* Mutant: a failed put is swallowed like a failed delete.
PutBlob_Swallowed(r) ==
  /\ pc[r] = "putting"
  /\ objects' = objects \cup {got[r]} \/ UNCHANGED objects
  /\ Step(r, "registering")
  /\ UNCHANGED <<rows, links, sending, staging, locked>>

\* BlobStore.put under the content-addressed key
PutBlob(r) ==
  /\ pc[r] = "putting"
  /\ objects' = objects \cup {got[r]}
  /\ Step(r, "registering")
  /\ UNCHANGED <<rows, links, sending, staging, locked>>

\* upsert_artifact
Register(r) ==
  /\ pc[r] = "registering"
  /\ artifacts' = artifacts \cup {got[r]}
  /\ Step(r, "referencing")
  /\ UNCHANGED <<row, ttl, blob, refs, jobs, store, locked>>

\* add_reference of the session
Reference(r) ==
  /\ pc[r] = "referencing"
  /\ got[r] \in artifacts
  /\ refs' = refs \cup {<<SessionOf[up[r]], got[r]>>}
  /\ Step(r, "finalizing")
  /\ UNCHANGED <<row, ttl, blob, artifacts, jobs, store, locked>>

\* finalize of the row, which rejects an upload that expired meanwhile
Finalize(r) ==
  LET u == up[r]
  IN  /\ pc[r] = "finalizing"
      /\ \/ /\ Allowed(u, {"uploaded"}) /\ ttl[u] > 0
            /\ SetStatus(u, "finalized")
            /\ blob' = [blob EXCEPT ![u] = got[r]]
            /\ Step(r, "discarding")
         \/ /\ u \notin locked
            /\ row[u] # "uploaded" \/ ttl[u] = 0
            /\ Leave(r)
            /\ UNCHANGED <<row, blob>>
      /\ UNCHANGED <<ttl, refs, artifacts, jobs, store, locked>>

\* Mutant: the row is set to failed whatever became of it meanwhile.
Reject_AnyStatus(r) ==
  /\ pc[r] = "rejecting"
  /\ up[r] \notin locked
  /\ SetStatus(up[r], "failed")
  /\ Step(r, "discarding")
  /\ UNCHANGED <<ttl, blob, refs, artifacts, jobs, store, locked>>

\* mark_failed for a staged object that is not the promised PDF
Reject(r) ==
  /\ pc[r] = "rejecting"
  /\ \/ Allowed(up[r], Open) /\ SetStatus(up[r], "failed") /\ Step(r, "discarding")
     \/ Refused(up[r], Open) /\ Leave(r) /\ UNCHANGED row
  /\ UNCHANGED <<ttl, blob, refs, artifacts, jobs, store, locked>>

\* The staging object is deleted; an unavailable object store is swallowed.
Discard(r) ==
  /\ pc[r] = "discarding"
  /\ \/ staging' = [staging EXCEPT ![up[r]] = NoContent]
     \/ UNCHANGED staging
  /\ Leave(r)
  /\ UNCHANGED <<rows, links, sending, objects, locked>>

\* Any other exception (object store or database down) ends a request where it
\* stands, and so does the death of its process.
Abort(r) ==
  /\ pc[r] # "idle"
  /\ Leave(r)
  /\ UNCHANGED <<rows, store, locked>>

\* Mutant: the status of the upload is not tested.
Enqueue_AnyStatus(u, v) ==
  LET key == <<SessionOf[u], blob[u], v>>
  IN  /\ u \notin locked
      /\ blob[u] # NoContent
      /\ <<SessionOf[u], blob[u]>> \in refs
      /\ jobs' = [jobs EXCEPT ![key] = IF @ = NoUpload THEN u ELSE @]
      /\ SetStatus(u, "enqueued")
      /\ UNCHANGED <<ttl, blob, refs, artifacts, store, locked, procs>>

\* enqueue_pdf_blob: one transaction under the row lock.  An upload that was
\* enqueued before only finds the job again, it never creates a second one.
Enqueue(u, v) ==
  LET key == <<SessionOf[u], blob[u], v>>
  IN  /\ u \notin locked
      /\ blob[u] # NoContent
      /\ \/ row[u] = "finalized"
         \/ row[u] = "enqueued" /\ jobs[key] # NoUpload
      /\ <<SessionOf[u], blob[u]>> \in refs
      /\ jobs' = [jobs EXCEPT ![key] = IF @ = NoUpload THEN u ELSE @]
      /\ SetStatus(u, "enqueued")
      /\ UNCHANGED <<ttl, blob, refs, artifacts, store, locked, procs>>

-----------------------------------------------------------------------------
(* Clients, cleanup, time *)

\* A client starts a PUT while its url is valid; the object appears when the
\* body has arrived, which may be later than the url's expiry.
SendBody(u, c) ==
  /\ u \in links
  /\ ttl[u] > 0
  /\ sending[u] = NoContent
  /\ sending' = [sending EXCEPT ![u] = c]
  /\ UNCHANGED <<rows, links, staging, objects, locked, procs>>

BodyArrives(u) ==
  /\ sending[u] # NoContent
  /\ \/ staging' = [staging EXCEPT ![u] = sending[u]]
     \/ UNCHANGED staging
  /\ sending' = [sending EXCEPT ![u] = NoContent]
  /\ UNCHANGED <<rows, links, objects, locked, procs>>

\* Mutant: failed uploads are left out of the cleanup.
Expirable_OpenOnly(u) == row[u] \in Open /\ ttl[u] = 0 /\ u \notin locked

\* The candidates of expire_next_upload (FOR UPDATE SKIP LOCKED)
Expirable(u) == row[u] \in Reclaimable /\ ttl[u] = 0 /\ u \notin locked

\* expire_next_upload deletes the object first and holds the row lock until
\* its commit.  A delete the object store refuses changes nothing.
CleanObject(u) ==
  /\ Expirable(u)
  /\ staging' = [staging EXCEPT ![u] = NoContent]
  /\ locked' = locked \cup {u}
  /\ UNCHANGED <<rows, links, sending, objects, procs>>

CleanCommit(u) ==
  /\ u \in locked
  /\ SetStatus(u, "expired")
  /\ locked' = locked \ {u}
  /\ UNCHANGED <<ttl, blob, refs, artifacts, jobs, store, procs>>

\* The commit fails or the cleanup worker dies: the transaction rolls back.
CleanRollback(u) ==
  /\ u \in locked
  /\ locked' = locked \ {u}
  /\ UNCHANGED <<rows, store, procs>>

Tick ==
  /\ \E u \in Uploads : ttl[u] > 0
  /\ ttl' = [u \in Uploads |-> IF ttl[u] > 0 THEN ttl[u] - 1 ELSE 0]
  /\ UNCHANGED <<row, blob, refs, artifacts, jobs, store, locked, procs>>

Work(r) ==
  \/ Presign(r) \/ PutStaging(r) \/ FailNew(r) \/ OpenUpload(r)
  \/ CheckStaged(r) \/ MarkUploaded(r) \/ ReadStaged(r) \/ PutBlob(r)
  \/ Register(r) \/ Reference(r) \/ Finalize(r) \/ Reject(r) \/ Discard(r)

Next ==
  \/ \E r \in Requests : Work(r) \/ Abort(r)
  \/ \E r \in Requests, u \in Uploads : Create(r, u) \/ Receive(r, u)
  \/ \E u \in Uploads, v \in Versions : Enqueue(u, v)
  \/ \E u \in Uploads : BodyArrives(u) \/ \E c \in Contents : SendBody(u, c)
  \/ \E u \in Uploads : CleanObject(u) \/ CleanCommit(u) \/ CleanRollback(u)
  \/ Tick

Spec == Init /\ [][Next]_vars

\* Time passes, requests and PUTs end, and the cleanup worker keeps its hourly
\* passes going (docs/PREVIEW_DEPLOYMENT.md) with an object store and a
\* database that do not fail for ever.
FairSpec ==
  /\ Spec
  /\ WF_vars(Tick)
  /\ \A r \in Requests : WF_vars(Work(r))
  /\ \A u \in Uploads :
       WF_vars(BodyArrives(u)) /\ WF_vars(CleanObject(u)) /\ SF_vars(CleanCommit(u))

-----------------------------------------------------------------------------
(* Properties *)

TypeOK ==
  /\ row \in [Uploads -> Statuses]
  /\ ttl \in [Uploads -> Nat]
  /\ blob \in [Uploads -> Contents \cup {NoContent}]
  /\ links \subseteq Uploads
  /\ sending \in [Uploads -> Contents \cup {NoContent}]
  /\ staging \in [Uploads -> Contents \cup {NoContent}]
  /\ objects \subseteq Contents
  /\ artifacts \subseteq Contents
  /\ refs \subseteq Sessions \X Contents
  /\ jobs \in [Keys -> Uploads \cup {NoUpload}]
  /\ locked \subseteq Uploads
  /\ pc \in [Requests -> Steps]
  /\ up \in [Requests -> Uploads \cup {NoUpload}]
  /\ view \in [Requests -> {"absent"} \cup Open]
  /\ got \in [Requests -> Contents \cup {NoContent}]

\* What the registry names is there: a session reference has its artifact row,
\* an artifact row its object, whatever request died half-way.
RegistryIsBacked ==
  /\ \A ref \in refs : ref[2] \in artifacts
  /\ artifacts \subseteq objects

\* An accepted upload names a stored, registered PDF with the promised hash
\* that its own session may read, even when the client overwrote the staging
\* object or two finalize requests raced.
AcceptedIsReadable ==
  \A u \in Uploads :
    row[u] \in Accepted =>
      /\ blob[u] = Expected[u]
      /\ blob[u] \in objects \cap artifacts \cap Pdfs
      /\ <<SessionOf[u], blob[u]>> \in refs

\* A job finds what analyze_registered_pdf_blob demands of its input: an
\* enqueued upload of its session with its blob, readable.  An enqueued upload
\* has its job, and no upload is the input of two.
JobsHaveTheirInput ==
  /\ \A k \in Keys :
       jobs[k] # NoUpload =>
         /\ row[jobs[k]] = "enqueued"
         /\ SessionOf[jobs[k]] = k[1]
         /\ blob[jobs[k]] = k[2]
         /\ k[2] \in objects \cap artifacts
         /\ <<k[1], k[2]>> \in refs
         /\ \A l \in Keys : jobs[l] = jobs[k] => l = k
  /\ \A u \in Uploads :
       row[u] = "enqueued" => \E v \in Versions : jobs[<<SessionOf[u], blob[u], v>>] # NoUpload

\* A verdict on an upload is never revised by a slower request or a cleanup
\* pass: an accepted upload is not rejected or expired, a rejected one can only
\* expire, an expired one stays so, and the blob of a row is set once.
VerdictIsFinal ==
  [][\A u \in Uploads :
       /\ row[u] = "finalized" => row'[u] \in Accepted
       /\ row[u] = "enqueued" => row'[u] = "enqueued"
       /\ row[u] = "failed" => row'[u] \in {"failed", "expired"}
       /\ row[u] = "expired" => row'[u] = "expired"
       /\ blob[u] # NoContent => blob'[u] = blob[u]]_vars

\* Every upload is decided: accepted, or written off by the cleanup.
UploadsAreDecided ==
  \A u \in Uploads : row[u] \in Reclaimable ~> row[u] \in Accepted \cup {"expired"}

\* A rejected object that could not be deleted at once is reconciled by the
\* expired-upload cleanup, as the comment in finalize_pdf_upload says.  (A body
\* that arrives after the cleanup's delete is not: nobody visits the row again.)
RejectedObjectIsReclaimed ==
  \A u \in Uploads :
    row[u] = "failed" /\ staging[u] # NoContent /\ u \notin locked
      ~> staging[u] = NoContent

\* The same comment stands at the deletion of an accepted upload's staging
\* object.  The cleanup does not look at finalized rows.
AcceptedObjectIsReclaimed ==
  \A u \in Uploads : row[u] \in Accepted /\ staging[u] # NoContent ~> staging[u] = NoContent

\* No upload stays open for ever, and a rejected one leaves no object behind.
UploadsEnd == UploadsAreDecided /\ RejectedObjectIsReclaimed
=============================================================================
