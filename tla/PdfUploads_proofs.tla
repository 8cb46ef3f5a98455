-------------------------- MODULE PdfUploads_proofs --------------------------
(***************************************************************************)
(* Proofs about PdfUploads for any uploads, contents, requests and         *)
(* lifetimes.  The inductive invariant adds to the properties what a       *)
(* request between two steps may rely on (RequestsInOrder), that a row the *)
(* cleanup holds is still undecided (LockedAreOpen), and that only an      *)
(* accepted row names a blob (BlobMeansAccepted).                          *)
(***************************************************************************)
EXTENDS PdfUploads, TLAPS

\* What a request has done before it reaches a step.
RequestInOrder(r) ==
  /\ pc[r] # "idle" => up[r] \in Uploads
  /\ pc[r] \in {"putting", "registering", "referencing", "finalizing"} =>
       got[r] = Expected[up[r]] /\ got[r] \in Pdfs
  /\ pc[r] \in {"registering", "referencing", "finalizing"} => got[r] \in objects
  /\ pc[r] \in {"referencing", "finalizing"} => got[r] \in artifacts
  /\ pc[r] = "finalizing" => <<SessionOf[up[r]], got[r]>> \in refs

RequestsInOrder == \A r \in Requests : RequestInOrder(r)

LockedAreOpen == \A u \in locked : row[u] \in Reclaimable

BlobMeansAccepted == \A u \in Uploads : blob[u] # NoContent => row[u] \in Accepted

RowsInv ==
  /\ RegistryIsBacked
  /\ AcceptedIsReadable
  /\ JobsHaveTheirInput
  /\ LockedAreOpen
  /\ BlobMeansAccepted

IInv == TypeOK /\ RequestsInOrder /\ RowsInv

USE SetsAssumption, FunctionsAssumption
USE DEF rows, store, procs

-----------------------------------------------------------------------------
(* Types *)

LEMMA TypeInit == Init => TypeOK
BY DEF Init, TypeOK, Statuses, Steps, Open, Keys

\* The steps of a request stay within its own program counter and copies.
LEMMA TypeWork ==
  ASSUME TypeOK, NEW r \in Requests, Work(r), RequestInOrder(r)
  PROVE  TypeOK'
<1> USE DEF TypeOK, RequestInOrder, Goto, Step, Leave, SetStatus, Allowed, Refused,
            Statuses, Steps, Open
<1>1. CASE Presign(r) BY <1>1 DEF Presign
<1>2. CASE PutStaging(r) BY <1>2 DEF PutStaging
<1>3. CASE FailNew(r) BY <1>3 DEF FailNew
<1>4. CASE OpenUpload(r) BY <1>4 DEF OpenUpload
<1>5. CASE CheckStaged(r) BY <1>5 DEF CheckStaged
<1>6. CASE MarkUploaded(r) BY <1>6 DEF MarkUploaded
<1>7. CASE ReadStaged(r) BY <1>7 DEF ReadStaged
<1>8. CASE PutBlob(r) BY <1>8 DEF PutBlob
<1>9. CASE Register(r) BY <1>9 DEF Register
<1>10. CASE Reference(r) BY <1>10 DEF Reference
<1>11. CASE Finalize(r) BY <1>11 DEF Finalize
<1>12. CASE Reject(r) BY <1>12 DEF Reject
<1>13. CASE Discard(r) BY <1>13 DEF Discard
<1> QED BY <1>1, <1>2, <1>3, <1>4, <1>5, <1>6, <1>7, <1>8, <1>9, <1>10, <1>11,
           <1>12, <1>13, Work(r) DEF Work

LEMMA TypeNext == TypeOK /\ RequestsInOrder /\ [Next]_vars => TypeOK'
<1> SUFFICES ASSUME TypeOK, RequestsInOrder, [Next]_vars PROVE TypeOK'
  OBVIOUS
<1>1. CASE UNCHANGED vars BY <1>1 DEF vars, TypeOK
<1>2. ASSUME NEW r \in Requests, Work(r) PROVE TypeOK'
  BY <1>2, TypeWork DEF RequestsInOrder
<1>3. ASSUME NEW r \in Requests, Abort(r) PROVE TypeOK'
  BY <1>3 DEF Abort, Leave, Goto, TypeOK, Steps
<1>4. ASSUME NEW r \in Requests, NEW u \in Uploads, Create(r, u) \/ Receive(r, u) PROVE TypeOK'
  BY <1>4 DEF Create, Receive, Goto, SetStatus, TypeOK, Statuses, Steps
<1>5. ASSUME NEW u \in Uploads, NEW v \in Versions, Enqueue(u, v) PROVE TypeOK'
  BY <1>5 DEF Enqueue, SetStatus, TypeOK, Statuses, Keys
<1>6. ASSUME NEW u \in Uploads, BodyArrives(u) PROVE TypeOK'
  BY <1>6 DEF BodyArrives, TypeOK
<1>7. ASSUME NEW u \in Uploads, NEW c \in Contents, SendBody(u, c) PROVE TypeOK'
  BY <1>7 DEF SendBody, TypeOK
<1>8. ASSUME NEW u \in Uploads, CleanObject(u) \/ CleanCommit(u) \/ CleanRollback(u) PROVE TypeOK'
  BY <1>8 DEF CleanObject, CleanCommit, CleanRollback, SetStatus, TypeOK, Statuses
<1>9. CASE Tick BY <1>9 DEF Tick, TypeOK
<1> QED BY <1>1, <1>2, <1>3, <1>4, <1>5, <1>6, <1>7, <1>8, <1>9 DEF Next

-----------------------------------------------------------------------------
(* Requests *)

\* A step that leaves a request alone and takes nothing from the registry
\* cannot invalidate what the request relies on.
LEMMA OthersInOrder ==
  ASSUME TypeOK, NEW r \in Requests, RequestInOrder(r),
         pc'[r] = pc[r], up'[r] = up[r], got'[r] = got[r],
         objects \subseteq objects', artifacts \subseteq artifacts', refs \subseteq refs'
  PROVE  RequestInOrder(r)'
BY DEF RequestInOrder

LEMMA WorkInOrder ==
  ASSUME TypeOK, NEW r \in Requests, RequestInOrder(r), Work(r)
  PROVE  RequestInOrder(r)'
<1> USE DEF TypeOK, RequestInOrder, Goto, Step, Leave
<1>1. CASE Presign(r) BY <1>1 DEF Presign
<1>2. CASE PutStaging(r) BY <1>2 DEF PutStaging
<1>3. CASE FailNew(r) BY <1>3 DEF FailNew
<1>4. CASE OpenUpload(r) BY <1>4 DEF OpenUpload
<1>5. CASE CheckStaged(r) BY <1>5 DEF CheckStaged
<1>6. CASE MarkUploaded(r) BY <1>6 DEF MarkUploaded
<1>7. CASE ReadStaged(r) BY <1>7 DEF ReadStaged
<1>8. CASE PutBlob(r) BY <1>8 DEF PutBlob
<1>9. CASE Register(r) BY <1>9 DEF Register
<1>10. CASE Reference(r) BY <1>10 DEF Reference
<1>11. CASE Finalize(r) BY <1>11 DEF Finalize
<1>12. CASE Reject(r) BY <1>12 DEF Reject
<1>13. CASE Discard(r) BY <1>13 DEF Discard
<1> QED BY <1>1, <1>2, <1>3, <1>4, <1>5, <1>6, <1>7, <1>8, <1>9, <1>10, <1>11,
           <1>12, <1>13, Work(r) DEF Work

\* A request's step adds to the registry and touches no other request.
LEMMA WorkIsLocal ==
  ASSUME TypeOK, NEW r \in Requests, Work(r)
  PROVE  /\ objects \subseteq objects' /\ artifacts \subseteq artifacts' /\ refs \subseteq refs'
         /\ \A q \in Requests \ {r} : pc'[q] = pc[q] /\ up'[q] = up[q] /\ got'[q] = got[q]
<1> USE DEF TypeOK, Goto, Step, Leave
<1>1. CASE Presign(r) BY <1>1 DEF Presign
<1>2. CASE PutStaging(r) BY <1>2 DEF PutStaging
<1>3. CASE FailNew(r) BY <1>3 DEF FailNew
<1>4. CASE OpenUpload(r) BY <1>4 DEF OpenUpload
<1>5. CASE CheckStaged(r) BY <1>5 DEF CheckStaged
<1>6. CASE MarkUploaded(r) BY <1>6 DEF MarkUploaded
<1>7. CASE ReadStaged(r) BY <1>7 DEF ReadStaged
<1>8. CASE PutBlob(r) BY <1>8 DEF PutBlob
<1>9. CASE Register(r) BY <1>9 DEF Register
<1>10. CASE Reference(r) BY <1>10 DEF Reference
<1>11. CASE Finalize(r) BY <1>11 DEF Finalize
<1>12. CASE Reject(r) BY <1>12 DEF Reject
<1>13. CASE Discard(r) BY <1>13 DEF Discard
<1> QED BY <1>1, <1>2, <1>3, <1>4, <1>5, <1>6, <1>7, <1>8, <1>9, <1>10, <1>11,
           <1>12, <1>13, Work(r) DEF Work

LEMMA RequestsNext == TypeOK /\ RequestsInOrder /\ [Next]_vars => RequestsInOrder'
<1> SUFFICES ASSUME TypeOK, RequestsInOrder, [Next]_vars, NEW q \in Requests
             PROVE  RequestInOrder(q)'
  BY DEF RequestsInOrder
<1>0. RequestInOrder(q) BY DEF RequestsInOrder
<1>1. CASE UNCHANGED vars BY <1>1, <1>0 DEF vars, RequestInOrder
<1>2. ASSUME NEW r \in Requests, Work(r) PROVE RequestInOrder(q)'
  <2>1. CASE q = r BY <2>1, <1>2, <1>0, WorkInOrder
  <2>2. CASE q # r BY <2>2, <1>2, <1>0, WorkIsLocal, OthersInOrder
  <2> QED BY <2>1, <2>2
<1>3. ASSUME NEW r \in Requests, Abort(r) PROVE RequestInOrder(q)'
  BY <1>3, <1>0 DEF Abort, Leave, Goto, TypeOK, RequestInOrder
<1>4. ASSUME NEW r \in Requests, NEW u \in Uploads, Create(r, u) \/ Receive(r, u)
      PROVE  RequestInOrder(q)'
  BY <1>4, <1>0 DEF Create, Receive, Goto, TypeOK, RequestInOrder
<1>5. ASSUME NEW u \in Uploads, NEW v \in Versions, Enqueue(u, v) PROVE RequestInOrder(q)'
  BY <1>5, <1>0 DEF Enqueue, RequestInOrder
<1>6. ASSUME NEW u \in Uploads, BodyArrives(u) PROVE RequestInOrder(q)'
  BY <1>6, <1>0 DEF BodyArrives, RequestInOrder
<1>7. ASSUME NEW u \in Uploads, NEW c \in Contents, SendBody(u, c) PROVE RequestInOrder(q)'
  BY <1>7, <1>0 DEF SendBody, RequestInOrder
<1>8. ASSUME NEW u \in Uploads, CleanObject(u) \/ CleanCommit(u) \/ CleanRollback(u)
      PROVE  RequestInOrder(q)'
  BY <1>8, <1>0 DEF CleanObject, CleanCommit, CleanRollback, RequestInOrder
<1>9. CASE Tick BY <1>9, <1>0 DEF Tick, RequestInOrder
<1> QED BY <1>1, <1>2, <1>3, <1>4, <1>5, <1>6, <1>7, <1>8, <1>9 DEF Next

-----------------------------------------------------------------------------
(* Rows and registry *)

\* A step that changes no row, reference, job or lock and removes nothing
\* from the registry keeps the invariant of the rows.
LEMMA RowsKept ==
  ASSUME RowsInv, UNCHANGED <<row, blob, refs, jobs, locked>>,
         objects \subseteq objects', artifacts \subseteq artifacts', artifacts' \subseteq objects'
  PROVE  RowsInv'
BY DEF RowsInv, RegistryIsBacked, AcceptedIsReadable, JobsHaveTheirInput,
       LockedAreOpen, BlobMeansAccepted

\* A status change between undecided statuses of a row nobody has locked.
LEMMA StatusMoves ==
  ASSUME TypeOK, RowsInv, NEW u \in Uploads, NEW to,
         row[u] \notin Accepted, to \notin Accepted, u \in locked' => to \in Reclaimable,
         locked' \subseteq locked,
         row' = [row EXCEPT ![u] = to],
         UNCHANGED <<blob, refs, artifacts, jobs, objects>>
  PROVE  RowsInv'
<1> USE DEF RowsInv, TypeOK, Accepted, Reclaimable
<1>1. RegistryIsBacked' BY DEF RegistryIsBacked
<1>2. AcceptedIsReadable' BY DEF AcceptedIsReadable
<1>3. JobsHaveTheirInput' BY DEF JobsHaveTheirInput
<1>4. LockedAreOpen' BY DEF LockedAreOpen
<1>5. BlobMeansAccepted' BY DEF BlobMeansAccepted
<1> QED BY <1>1, <1>2, <1>3, <1>4, <1>5

LEMMA FinalizeRows ==
  ASSUME IInv, NEW r \in Requests, Finalize(r)
  PROVE  RowsInv'
<1> DEFINE u == up[r]
<1>0. RequestInOrder(r) /\ u \in Uploads /\ pc[r] = "finalizing"
  BY DEF IInv, RequestsInOrder, RequestInOrder, Finalize
<1>1. CASE UNCHANGED <<row, blob>>
  BY <1>1, RowsKept DEF IInv, Finalize, RowsInv, RegistryIsBacked
<1>2. CASE row[u] = "uploaded" /\ u \notin locked /\ row' = [row EXCEPT ![u] = "finalized"]
           /\ blob' = [blob EXCEPT ![u] = got[r]]
  <2> USE <1>0, <1>2 DEF IInv, RowsInv, TypeOK, Finalize, RequestInOrder, Accepted
  <2>1. RegistryIsBacked' BY DEF RegistryIsBacked
  <2>2. AcceptedIsReadable' BY DEF AcceptedIsReadable, RegistryIsBacked
  <2>3. JobsHaveTheirInput' BY DEF JobsHaveTheirInput
  <2>4. LockedAreOpen' BY DEF LockedAreOpen
  <2>5. BlobMeansAccepted' BY DEF BlobMeansAccepted
  <2> QED BY <2>1, <2>2, <2>3, <2>4, <2>5
<1> QED BY <1>1, <1>2 DEF Finalize, Allowed, SetStatus

LEMMA EnqueueRows ==
  ASSUME IInv, NEW u \in Uploads, NEW v \in Versions, Enqueue(u, v)
  PROVE  RowsInv'
<1> DEFINE key == <<SessionOf[u], blob[u], v>>
<1> USE DEF IInv, RowsInv, TypeOK, Enqueue, SetStatus, Accepted
<1>0. blob[u] \in Contents /\ key \in Keys /\ row[u] \in Accepted
  BY DEF Keys
<1>1. RegistryIsBacked' BY DEF RegistryIsBacked
<1>2. AcceptedIsReadable' BY <1>0 DEF AcceptedIsReadable
<1>3. JobsHaveTheirInput'
  <2>1. /\ jobs' \in [Keys -> Uploads \cup {NoUpload}]
        /\ \A k \in Keys \ {key} : jobs'[k] = jobs[k]
        /\ jobs'[key] = IF jobs[key] = NoUpload THEN u ELSE jobs[key]
    BY <1>0
  <2>2. jobs[key] = NoUpload => \A k \in Keys : jobs[k] # u
    BY DEF JobsHaveTheirInput
  <2>3. ASSUME NEW k \in Keys, jobs'[k] # NoUpload
        PROVE  /\ row'[jobs'[k]] = "enqueued"
               /\ SessionOf[jobs'[k]] = k[1]
               /\ blob'[jobs'[k]] = k[2]
               /\ k[2] \in objects' \cap artifacts'
               /\ <<k[1], k[2]>> \in refs'
               /\ \A l \in Keys : jobs'[l] = jobs'[k] => l = k
    <3>1. CASE k = key /\ jobs[key] = NoUpload
      BY <3>1, <2>1, <2>2, <1>0 DEF AcceptedIsReadable, JobsHaveTheirInput
    <3>2. CASE jobs[k] # NoUpload
      BY <3>2, <2>1, <2>2, <2>3 DEF JobsHaveTheirInput
    <3> QED BY <3>1, <3>2, <2>1, <2>3
  <2>4. ASSUME NEW w \in Uploads, row'[w] = "enqueued"
        PROVE  \E x \in Versions : jobs'[<<SessionOf[w], blob'[w], x>>] # NoUpload
    <3>1. CASE w = u BY <3>1, <2>1, <1>0
    <3>2. CASE w # u
      <4>1. PICK x \in Versions : jobs[<<SessionOf[w], blob[w], x>>] # NoUpload
        BY <2>4, <3>2 DEF JobsHaveTheirInput
      <4>2. <<SessionOf[w], blob[w], x>> \in Keys
        BY <2>4, <3>2 DEF AcceptedIsReadable, Keys
      <4> QED BY <4>1, <4>2, <2>1
    <3> QED BY <3>1, <3>2
  <2> QED BY <2>3, <2>4 DEF JobsHaveTheirInput
<1>4. LockedAreOpen' BY DEF LockedAreOpen
<1>5. BlobMeansAccepted' BY DEF BlobMeansAccepted
<1> QED BY <1>1, <1>2, <1>3, <1>4, <1>5

LEMMA WorkRows ==
  ASSUME IInv, NEW r \in Requests, Work(r)
  PROVE  RowsInv'
<1>0. RowsInv /\ TypeOK /\ RequestInOrder(r) /\ artifacts \subseteq objects
  BY DEF IInv, RequestsInOrder, RowsInv, RegistryIsBacked
<1>1. CASE Presign(r) \/ PutStaging(r) \/ OpenUpload(r) \/ CheckStaged(r) \/ ReadStaged(r)
           \/ Discard(r)
  BY <1>1, <1>0, RowsKept DEF Presign, PutStaging, OpenUpload, CheckStaged, ReadStaged, Discard
<1>2. CASE PutBlob(r) BY <1>2, <1>0, RowsKept DEF PutBlob
<1>3. CASE Register(r)
  BY <1>3, <1>0, RowsKept DEF Register, RequestInOrder
<1>4. CASE Reference(r)
  BY <1>4, <1>0 DEF Reference, RowsInv, RegistryIsBacked, AcceptedIsReadable,
     JobsHaveTheirInput, LockedAreOpen, BlobMeansAccepted
<1>5. CASE FailNew(r) \/ Reject(r)
  <2>1. up[r] \in Uploads BY <1>5, <1>0 DEF FailNew, Reject, RequestInOrder
  <2>2. CASE row' = row BY <2>2, <1>5, <1>0, RowsKept DEF FailNew, Reject
  <2>3. CASE row[up[r]] \in Open /\ up[r] \notin locked /\ row' = [row EXCEPT ![up[r]] = "failed"]
    <3>1. row[up[r]] \notin Accepted /\ up[r] \notin locked
      BY <2>3 DEF Open, Accepted
    <3>2. UNCHANGED <<blob, refs, artifacts, jobs, objects, locked>>
      BY <1>5 DEF FailNew, Reject
    <3> QED BY <2>1, <2>3, <3>1, <3>2, <1>0, StatusMoves DEF Accepted
  <2> QED BY <2>2, <2>3, <1>5 DEF FailNew, Reject, Allowed, SetStatus
<1>6. CASE MarkUploaded(r)
  <2>1. up[r] \in Uploads BY <1>6, <1>0 DEF MarkUploaded, RequestInOrder
  <2>2. CASE row' = row BY <2>2, <1>6, <1>0, RowsKept DEF MarkUploaded
  <2>3. CASE row[up[r]] = "initiated" /\ up[r] \notin locked
             /\ row' = [row EXCEPT ![up[r]] = "uploaded"]
    <3>1. row[up[r]] \notin Accepted /\ "uploaded" \notin Accepted /\ "uploaded" \in Reclaimable
      BY <2>3 DEF Accepted, Reclaimable
    <3>2. UNCHANGED <<blob, refs, artifacts, jobs, objects, locked>>
      BY <1>6 DEF MarkUploaded
    <3> QED BY <2>1, <2>3, <3>1, <3>2, <1>0, StatusMoves
  <2> QED BY <2>2, <2>3, <1>6 DEF MarkUploaded, Allowed, SetStatus
<1>7. CASE Finalize(r) BY <1>7, FinalizeRows
<1> QED BY <1>1, <1>2, <1>3, <1>4, <1>5, <1>6, <1>7, Work(r) DEF Work

LEMMA RowsNext == IInv /\ [Next]_vars => RowsInv'
<1> SUFFICES ASSUME IInv, [Next]_vars PROVE RowsInv'
  OBVIOUS
<1>0. RowsInv /\ TypeOK /\ artifacts \subseteq objects
  BY DEF IInv, RowsInv, RegistryIsBacked
<1>1. CASE UNCHANGED vars BY <1>1, <1>0, RowsKept DEF vars
<1>2. ASSUME NEW r \in Requests, Work(r) PROVE RowsInv'
  BY <1>2, WorkRows
<1>3. ASSUME NEW r \in Requests, Abort(r) PROVE RowsInv'
  BY <1>3, <1>0, RowsKept DEF Abort
<1>4. ASSUME NEW r \in Requests, NEW u \in Uploads, Create(r, u) PROVE RowsInv'
  <2>1. u \notin locked BY <1>4, <1>0 DEF Create, RowsInv, LockedAreOpen, Reclaimable
  <2> QED BY <2>1, <1>4, <1>0, StatusMoves DEF Create, SetStatus, Accepted
<1>5. ASSUME NEW r \in Requests, NEW u \in Uploads, Receive(r, u) PROVE RowsInv'
  BY <1>5, <1>0, RowsKept DEF Receive
<1>6. ASSUME NEW u \in Uploads, NEW v \in Versions, Enqueue(u, v) PROVE RowsInv'
  BY <1>6, EnqueueRows
<1>7. ASSUME NEW u \in Uploads, BodyArrives(u) PROVE RowsInv'
  BY <1>7, <1>0, RowsKept DEF BodyArrives
<1>8. ASSUME NEW u \in Uploads, NEW c \in Contents, SendBody(u, c) PROVE RowsInv'
  BY <1>8, <1>0, RowsKept DEF SendBody
<1>9. ASSUME NEW u \in Uploads, CleanObject(u) PROVE RowsInv'
  BY <1>9, <1>0 DEF CleanObject, Expirable, RowsInv, RegistryIsBacked, AcceptedIsReadable,
     JobsHaveTheirInput, LockedAreOpen, BlobMeansAccepted
<1>10. ASSUME NEW u \in Uploads, CleanCommit(u) PROVE RowsInv'
  <2>1. row[u] \notin Accepted
    BY <1>10, <1>0 DEF CleanCommit, RowsInv, LockedAreOpen, Reclaimable, Accepted
  <2> QED BY <2>1, <1>10, <1>0, StatusMoves DEF CleanCommit, SetStatus, Accepted
<1>11. ASSUME NEW u \in Uploads, CleanRollback(u) PROVE RowsInv'
  BY <1>11, <1>0 DEF CleanRollback, RowsInv, RegistryIsBacked, AcceptedIsReadable,
     JobsHaveTheirInput, LockedAreOpen, BlobMeansAccepted
<1>12. CASE Tick BY <1>12, <1>0, RowsKept DEF Tick
<1> QED BY <1>1, <1>2, <1>3, <1>4, <1>5, <1>6, <1>7, <1>8, <1>9, <1>10, <1>11, <1>12 DEF Next

-----------------------------------------------------------------------------
(* Theorems *)

LEMMA Invariance == Spec => []IInv
<1>1. Init => IInv
  <2> SUFFICES ASSUME Init PROVE IInv
    OBVIOUS
  <2>1. TypeOK BY TypeInit
  <2>2. RequestsInOrder BY DEF Init, RequestsInOrder, RequestInOrder
  <2>3. RowsInv
    BY DEF Init, RowsInv, RegistryIsBacked, AcceptedIsReadable, JobsHaveTheirInput,
       LockedAreOpen, BlobMeansAccepted, Accepted, Keys
  <2> QED BY <2>1, <2>2, <2>3 DEF IInv
<1>2. IInv /\ [Next]_vars => IInv'
  BY TypeNext, RequestsNext, RowsNext DEF IInv
<1> QED BY <1>1, <1>2, PTL DEF Spec

\* Type correctness of the rows, the object store and the requests.
THEOREM TypeCorrect == Spec => []TypeOK
BY Invariance, PTL DEF IInv

\* References have their registry row and registry rows their object, for any
\* number of requests that die at any step.
THEOREM Backed == Spec => []RegistryIsBacked
BY Invariance, PTL DEF IInv, RowsInv

\* An accepted upload is readable by its session and is the promised PDF.
THEOREM Readable == Spec => []AcceptedIsReadable
BY Invariance, PTL DEF IInv, RowsInv

\* Jobs find their input, enqueued uploads their job.
THEOREM JobInput == Spec => []JobsHaveTheirInput
BY Invariance, PTL DEF IInv, RowsInv

\* No verdict on an upload is revised.
THEOREM FinalVerdict == Spec => VerdictIsFinal
<1> DEFINE Keeps(u) ==
      /\ row[u] = "finalized" => row'[u] \in Accepted
      /\ row[u] = "enqueued" => row'[u] = "enqueued"
      /\ row[u] = "failed" => row'[u] \in {"failed", "expired"}
      /\ row[u] = "expired" => row'[u] = "expired"
      /\ blob[u] # NoContent => blob'[u] = blob[u]
<1>1. IInv /\ [Next]_vars => \A u \in Uploads : Keeps(u)
  <2> SUFFICES ASSUME IInv, [Next]_vars, NEW w \in Uploads PROVE Keeps(w)
    OBVIOUS
  <2> USE DEF IInv, TypeOK, Accepted, Open, SetStatus, Allowed
  <2>1. CASE UNCHANGED <<row, blob>> BY <2>1
  <2>2. ASSUME NEW r \in Requests, FailNew(r) \/ Reject(r) \/ MarkUploaded(r) PROVE Keeps(w)
    BY <2>2 DEF FailNew, Reject, MarkUploaded
  <2>3. ASSUME NEW r \in Requests, Finalize(r) PROVE Keeps(w)
    BY <2>3 DEF Finalize, RowsInv, BlobMeansAccepted
  <2>4. ASSUME NEW r \in Requests, NEW u \in Uploads, Create(r, u) PROVE Keeps(w)
    BY <2>4 DEF Create
  <2>5. ASSUME NEW u \in Uploads, NEW v \in Versions, Enqueue(u, v) PROVE Keeps(w)
    BY <2>5 DEF Enqueue
  <2>6. ASSUME NEW u \in Uploads, CleanCommit(u) PROVE Keeps(w)
    BY <2>6 DEF CleanCommit, RowsInv, LockedAreOpen, Reclaimable
  <2>7. ASSUME NEW r \in Requests, Work(r) PROVE Keeps(w)
    <3>1. CASE FailNew(r) \/ Reject(r) \/ MarkUploaded(r) \/ Finalize(r)
      BY <3>1, <2>2, <2>3
    <3>2. CASE ~(FailNew(r) \/ Reject(r) \/ MarkUploaded(r) \/ Finalize(r))
      <4>1. UNCHANGED <<row, blob>>
        BY <3>2, <2>7 DEF Work, Presign, PutStaging, OpenUpload, CheckStaged, ReadStaged,
           PutBlob, Register, Reference, Discard
      <4> QED BY <4>1
    <3> QED BY <3>1, <3>2
  <2>8. ASSUME NEW r \in Requests, Abort(r) PROVE Keeps(w)
    BY <2>8 DEF Abort
  <2>9. ASSUME NEW r \in Requests, NEW u \in Uploads, Receive(r, u) PROVE Keeps(w)
    BY <2>9 DEF Receive
  <2>10. ASSUME NEW u \in Uploads, NEW c \in Contents, SendBody(u, c) PROVE Keeps(w)
    BY <2>10 DEF SendBody
  <2>11. ASSUME NEW u \in Uploads, BodyArrives(u) \/ CleanObject(u) \/ CleanRollback(u)
         PROVE  Keeps(w)
    BY <2>11 DEF BodyArrives, CleanObject, CleanRollback
  <2>12. CASE Tick BY <2>12 DEF Tick
  <2> QED BY <2>1, <2>4, <2>5, <2>6, <2>7, <2>8, <2>9, <2>10, <2>11, <2>12 DEF Next, vars
<1> QED BY <1>1, Invariance, PTL DEF Spec, VerdictIsFinal
=============================================================================
