---------------------------- MODULE MCPdfUploads ----------------------------
(***************************************************************************)
(* Instances of PdfUploads for TLC.                                        *)
(***************************************************************************)
EXTENDS PdfUploads

CONSTANTS u1, u2, s1, pdf, other

\* Two uploads of the same PDF in one session: they share the blob, the
\* session reference and the job.
MCSessionOf == [u \in Uploads |-> s1]
MCExpected == [u \in Uploads |-> pdf]
=============================================================================
