-------------------------------- MODULE Loops --------------------------------
(* What several loops of the program do with a list: they go over it once,   *)
(* and take on an element or leave it out, which may depend on what they     *)
(* have taken so far.                                                        *)
EXTENDS Integers, Sequences

\* The pairs <<taken so far, next element>> of takes are those that the loop
\* takes on.
Gathered(s, takes) ==
  LET taken[n \in 0..Len(s)] ==
        IF n = 0 THEN <<>>
        ELSE LET before == taken[n - 1]
             IN IF <<before, s[n]>> \in takes THEN Append(before, s[n]) ELSE before
  IN taken[Len(s)]
=============================================================================
