--------------------------- MODULE MCAnalysisGraph ---------------------------
(***************************************************************************)
(* Instances of AnalysisGraph for TLC.                                     *)
(***************************************************************************)
EXTENDS AnalysisGraph
=============================================================================
