------------------------ MODULE MCProviderRateLimit ------------------------
(***************************************************************************)
(* Instances of ProviderRateLimit for TLC.                                 *)
(***************************************************************************)
EXTENDS ProviderRateLimit, TLC

CONSTANTS t1, t2, t3

MCSymmetry == Permutations(Callers)
=============================================================================
