-------------------------- MODULE MCSessionRequests --------------------------
(* Two papers; the clients' requests and the answers of a search, kept small. *)
EXTENDS SessionRequests, TLC

CONSTANTS p1, p2, r1, r2

Message(op, kind, p, ranks) ==
  [op |-> op, kind |-> kind, paper |-> p, ranks |-> ranks, ids |-> {}]

(* A URL and most topics hold numbers that are no display rank; 9 stands for *)
(* them, 0 for a number below 1.                                             *)
MCCalls ==
  {Message("analyze", "url", p1, <<9>>), Message("ask", "url", p2, <<9>>), Message("discover", "search", None, <<1>>),
   Message("ask", "text", None, <<0>>), Message("select", "text", None, <<2, 1>>),
   Message("analyze_selected", "text", None, <<>>), Message("synthesize", "text", None, <<>>),
   [Message("compare", "text", None, <<>>) EXCEPT !.ids = Papers]}

MCFound == {<<>>, <<p2, p1>>}
Symmetry == Permutations(Requests)
=============================================================================
