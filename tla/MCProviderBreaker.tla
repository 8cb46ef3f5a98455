------------------------- MODULE MCProviderBreaker -------------------------
(***************************************************************************)
(* Instances of ProviderBreaker for TLC: the arXiv breaker with two        *)
(* searches or downloads (the same control) and a get_metadata call, and   *)
(* the Semantic Scholar breaker with two calls.                            *)
(***************************************************************************)
EXTENDS ProviderBreaker

CONSTANTS search1, search2, metadata, s2a, s2b
=============================================================================
