----------------------------- MODULE MCArxivFetch -----------------------------
(* Two threads, one of which brings metadata.                                *)
EXTENDS ArxivFetch
CONSTANTS a, b
MCSizes == {1, 2}
=============================================================================
