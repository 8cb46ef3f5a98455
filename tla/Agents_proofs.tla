---------------------------- MODULE Agents_proofs ----------------------------
(***************************************************************************)
(* Proofs about the agents, the requests for jobs, the preview page and    *)
(* the conversation, for every value of their constants: what a run of     *)
(* theirs returns says no more than what it was given.  Each part has its  *)
(* own variable and its own invariant, next to the theorem it is for.      *)
(***************************************************************************)
EXTENDS Discovery, Comparison, Chunking, PaperVerdict, Synthesis, Extraction, JobRequests, PreviewUi,
        Conversation, Integers, Sequences, FiniteSets, Loops, Functions,
        FiniteSetTheorems, WellFoundedInduction, TLAPS

-----------------------------------------------------------------------------
(* Numbers, sets and the loops of Loops.tla *)

(* Every set of naturals that is not empty has a least element.              *)
LEMMA LeastNatural ==
  ASSUME NEW T, T \subseteq Nat, T # {}
  PROVE  \E x \in T : \A y \in T : x <= y
<1>. DEFINE R == {ss \in Nat \X Nat : ss[1] < ss[2]}
<1>1. IsWellFoundedOn(R, Nat)
  BY NatLessThanWellFounded DEF OpToRel
<1>. HIDE DEF R
<1>2. PICK x \in T : \A y \in T : ~(<<y, x>> \in R)
  BY <1>1, WFMin
<1>3. \A y \in T : ~(y < x)
  BY <1>2 DEF R
<1>. QED
  BY <1>3

(* Induction over the set of the naturals for which something holds.         *)
LEMMA SetInduction ==
  ASSUME NEW T, 0 \in T, \A n \in Nat : n \in T => n + 1 \in T
  PROVE  Nat \subseteq T
<1>. DEFINE U == Nat \ T
<1>. SUFFICES ASSUME U # {} PROVE FALSE
  OBVIOUS
<1>1. PICK x \in U : \A y \in U : x <= y
  BY LeastNatural
<1>2. x # 0 /\ x - 1 \in Nat
  OBVIOUS
<1>3. x - 1 \in T
  BY <1>1, <1>2
<1>. QED
  BY <1>2, <1>3

(* A function over 0..N that is defined by recursion exists.                 *)
IsStep(step, N, S) == step \in [(1..N) \X S -> S]
IsRecursive(f, N, S, base, step) ==
  f \in [0..N -> S] /\ f[0] = base /\ \A n \in 1..N : f[n] = step[<<n, f[n - 1]>>]

LEMMA RecursionExists ==
  ASSUME NEW N \in Nat, NEW S, NEW base \in S, NEW step, IsStep(step, N, S)
  PROVE  \E f : IsRecursive(f, N, S, base, step)
<1>0. step \in [(1..N) \X S -> S]
  BY DEF IsStep
<1>. DEFINE Upto(k, f) == f \in [0..k -> S] /\ f[0] = base /\ \A n \in 1..k : f[n] = step[<<n, f[n - 1]>>]
            T == {k \in Nat : k <= N => \E f : Upto(k, f)}
<1>1. 0 \in T
  <2>. DEFINE f == [n \in 0..0 |-> base]
  <2>1. Upto(0, f)
    OBVIOUS
  <2>. QED
    BY <2>1
<1>2. ASSUME NEW k \in Nat, k \in T PROVE k + 1 \in T
  <2>. SUFFICES ASSUME k + 1 <= N PROVE \E f : Upto(k + 1, f)
    OBVIOUS
  <2>1. PICK f : Upto(k, f)
    BY <1>2
  <2>. DEFINE g == [n \in 0..(k + 1) |-> IF n = k + 1 THEN step[<<k + 1, f[k]>>] ELSE f[n]]
  <2>2. f[k] \in S /\ step[<<k + 1, f[k]>>] \in S
    BY <1>0, <2>1
  <2>3. g \in [0..(k + 1) -> S]
    BY <2>1, <2>2
  <2>4. g[0] = base
    BY <2>1
  <2>5. ASSUME NEW n \in 1..(k + 1) PROVE g[n] = step[<<n, g[n - 1]>>]
    <3>1. CASE n = k + 1
      <4>1. g[k + 1] = step[<<k + 1, f[k]>>] /\ g[k] = f[k] /\ k + 1 - 1 = k
        BY <2>1
      <4>2. n - 1 = k
        BY <3>1
      <4>. HIDE DEF g
      <4>. QED
        BY <3>1, <4>1, <4>2
    <3>2. CASE n \in 1..k
      BY <2>1, <3>2
    <3>. QED
      BY <3>1, <3>2
  <2>. QED
    BY <2>3, <2>4, <2>5
<1>. HIDE DEF T
<1>3. N \in T
  BY <1>1, <1>2, SetInduction
<1>. QED
  BY <1>3 DEF T, IsRecursive

LEMMA RangeOfAppend ==
  ASSUME NEW S, NEW s \in Seq(S), NEW x \in S
  PROVE  /\ Append(s, x) \in Seq(S)
         /\ Range(Append(s, x)) = Range(s) \cup {x}
         /\ IsInjective(s) /\ x \notin Range(s) => IsInjective(Append(s, x))
<1>. DEFINE t == Append(s, x)
<1>1. /\ t \in Seq(S) /\ DOMAIN t = 1..(Len(s) + 1) /\ DOMAIN s = 1..Len(s) /\ Len(s) \in Nat
      /\ t[Len(s) + 1] = x /\ \A k \in 1..Len(s) : t[k] = s[k]
  OBVIOUS
<1>2. \A k \in 1..(Len(s) + 1) : k \in 1..Len(s) \/ k = Len(s) + 1
  BY <1>1
<1>3. \A k \in 1..Len(s) : k \in 1..(Len(s) + 1)
  BY <1>1
<1>4. Len(s) + 1 \in 1..(Len(s) + 1)
  BY <1>1
<1>. HIDE DEF t
<1>5. Range(t) = Range(s) \cup {x}
  BY <1>1, <1>2, <1>3, <1>4 DEF Range
<1>6. IsInjective(s) /\ x \notin Range(s) => IsInjective(t)
  BY <1>1, <1>2 DEF Range, IsInjective
<1>. QED
  BY <1>1, <1>5, <1>6 DEF t

(* Every sequence can be reached by appending to the empty one.              *)
LEMMA SequenceInduction ==
  ASSUME NEW S, NEW T, <<>> \in T, \A s \in Seq(S) : \A x \in S : s \in T => Append(s, x) \in T
  PROVE  Seq(S) \subseteq T
<1>. DEFINE U == {n \in Nat : \A s \in Seq(S) : Len(s) = n => s \in T}
<1>1. 0 \in U
  OBVIOUS
<1>2. ASSUME NEW n \in Nat, n \in U PROVE n + 1 \in U
  <2>. SUFFICES ASSUME NEW s \in Seq(S), Len(s) = n + 1 PROVE s \in T
    OBVIOUS
  <2>. DEFINE front == [k \in 1..n |-> s[k]]
              x == s[n + 1]
  <2>1. \A k \in 1..(n + 1) : s[k] \in S
    OBVIOUS
  <2>2. front \in Seq(S) /\ Len(front) = n /\ x \in S
    BY <2>1
  <2>3. front \in T
    BY <1>2, <2>2
  <2>4. Append(front, x) = s
    BY <2>2
  <2>. QED
    BY <2>2, <2>3, <2>4
<1>. HIDE DEF U
<1>3. Nat \subseteq U
  BY <1>1, <1>2, SetInduction
<1>4. ASSUME NEW s \in Seq(S) PROVE s \in T
  BY <1>3 DEF U
<1>. QED
  BY <1>4

-----------------------------------------------------------------------------
(* Gathered *)

IsGathering(taken, s, S, takes) ==
  /\ taken \in [0..Len(s) -> Seq(S)] /\ taken[0] = <<>>
  /\ \A n \in 1..Len(s) :
       taken[n] = IF <<taken[n - 1], s[n]>> \in takes THEN Append(taken[n - 1], s[n]) ELSE taken[n - 1]

LEMMA GatheringExists ==
  ASSUME NEW S, NEW s \in Seq(S), NEW takes
  PROVE  \E taken : IsGathering(taken, s, S, takes) /\ Gathered(s, takes) = taken[Len(s)]
<1>. DEFINE Body(t) ==
              [n \in 0..Len(s) |->
                 IF n = 0 THEN <<>>
                 ELSE IF <<t[n - 1], s[n]>> \in takes THEN Append(t[n - 1], s[n]) ELSE t[n - 1]]
            taken == CHOOSE t : t = Body(t)
            step == [x \in (1..Len(s)) \X Seq(S) |-> IF <<x[2], s[x[1]]>> \in takes THEN Append(x[2], s[x[1]]) ELSE x[2]]
            N == Len(s)
            SS == Seq(S)
<1>1. Gathered(s, takes) = taken[Len(s)]
  BY DEF Gathered
<1>2. IsStep(step, N, SS)
  BY DEF IsStep
<1>3. PICK f : IsRecursive(f, N, SS, <<>>, step)
  <2>1. <<>> \in SS /\ N \in Nat
    OBVIOUS
  <2>. HIDE DEF step, SS, N
  <2>. QED
    BY <1>2, <2>1, RecursionExists
<1>4. f \in [0..N -> SS] /\ f[0] = <<>> /\ \A n \in 1..N : f[n] = step[<<n, f[n - 1]>>]
  BY <1>3 DEF IsRecursive
<1>5. ASSUME NEW n \in 1..N
      PROVE  f[n] = IF <<f[n - 1], s[n]>> \in takes THEN Append(f[n - 1], s[n]) ELSE f[n - 1]
  <2>1. n - 1 \in 0..N
    OBVIOUS
  <2>2. <<n, f[n - 1]>> \in (1..Len(s)) \X Seq(S)
    BY <1>4, <2>1
  <2>3. f[n] = step[<<n, f[n - 1]>>]
    BY <1>4
  <2>. QED
    BY <2>2, <2>3
<1>6. f = Body(f)
  <2>1. \A n \in 0..N : n = 0 \/ n \in 1..N
    OBVIOUS
  <2>2. \A n \in 0..N : f[n] = Body(f)[n]
    BY <1>4, <1>5, <2>1
  <2>3. f = [n \in 0..N |-> f[n]] /\ Body(f) = [n \in 0..N |-> Body(f)[n]]
    BY <1>4
  <2>. HIDE DEF Body
  <2>. QED
    BY <2>2, <2>3
<1>7. taken = Body(taken)
  BY <1>6
<1>8. \A n \in 0..N : Body(taken)[n] =
        IF n = 0 THEN <<>>
        ELSE IF <<taken[n - 1], s[n]>> \in takes THEN Append(taken[n - 1], s[n]) ELSE taken[n - 1]
  OBVIOUS
<1>9. DOMAIN Body(taken) = 0..N /\ Body(taken) = [n \in 0..N |-> Body(taken)[n]]
  OBVIOUS
<1>. HIDE DEF taken, Body
<1>10. /\ taken[0] = <<>> /\ taken = [n \in 0..N |-> taken[n]]
       /\ \A n \in 1..N :
            taken[n] = IF <<taken[n - 1], s[n]>> \in takes THEN Append(taken[n - 1], s[n]) ELSE taken[n - 1]
  <2>1. 0 \in 0..N /\ \A n \in 1..N : n # 0 /\ n \in 0..N
    OBVIOUS
  <2>. QED
    BY <1>7, <1>8, <1>9, <2>1
<1>11. \A n \in 0..N : taken[n] \in Seq(S)
  <2>. DEFINE T == {n \in Nat : n <= N => taken[n] \in Seq(S)}
  <2>1. 0 \in T
    BY <1>10
  <2>2. ASSUME NEW n \in Nat, n \in T PROVE n + 1 \in T
    <3>. SUFFICES ASSUME n + 1 <= N PROVE taken[n + 1] \in Seq(S)
      OBVIOUS
    <3>1. n + 1 \in 1..N /\ n + 1 - 1 = n /\ s[n + 1] \in S /\ taken[n] \in Seq(S)
      BY <2>2
    <3>2. taken[n + 1] = IF <<taken[n], s[n + 1]>> \in takes THEN Append(taken[n], s[n + 1]) ELSE taken[n]
      <4>1. \A m \in 1..N :
              taken[m] = IF <<taken[m - 1], s[m]>> \in takes THEN Append(taken[m - 1], s[m]) ELSE taken[m - 1]
        BY <1>10
      <4>. HIDE DEF step, N
      <4>. QED
        BY <3>1, <4>1
    <3>3. Append(taken[n], s[n + 1]) \in Seq(S)
      BY <3>1
    <3>. QED
      BY <3>1, <3>2, <3>3
  <2>. HIDE DEF T
  <2>3. Nat \subseteq T
    BY <2>1, <2>2, SetInduction
  <2>. QED
    BY <2>3 DEF T
<1>. QED
  BY <1>1, <1>10, <1>11 DEF IsGathering

LEMMA GatheredIsSeq ==
  ASSUME NEW S, NEW s \in Seq(S), NEW takes
  PROVE  Gathered(s, takes) \in Seq(S)
<1>1. PICK taken : IsGathering(taken, s, S, takes) /\ Gathered(s, takes) = taken[Len(s)]
  BY GatheringExists
<1>2. Len(s) \in 0..Len(s)
  OBVIOUS
<1>. QED
  BY <1>1, <1>2 DEF IsGathering

LEMMA GatheredOfNothing ==
  ASSUME NEW takes
  PROVE  Gathered(<<>>, takes) = <<>>
<1>1. <<>> \in Seq({}) /\ Len(<<>>) = 0
  OBVIOUS
<1>2. PICK taken : IsGathering(taken, <<>>, {}, takes) /\ Gathered(<<>>, takes) = taken[Len(<<>>)]
  BY <1>1, GatheringExists
<1>. QED
  BY <1>1, <1>2 DEF IsGathering

(* One more round of the loop.                                               *)
IsLonger(t, s, x, S) == s \in Seq(S) /\ x \in S /\ t = Append(s, x)
IsRound(v, u, x, takes) == v = IF <<u, x>> \in takes THEN Append(u, x) ELSE u

LEMMA GatheredOfAppend ==
  ASSUME NEW S, NEW s, NEW x, NEW t, NEW takes, IsLonger(t, s, x, S)
  PROVE  IsRound(Gathered(t, takes), Gathered(s, takes), x, takes)
<1>. DEFINE N == Len(s)
<1>0. s \in Seq(S) /\ x \in S /\ t = Append(s, x)
  BY DEF IsLonger
<1>1. /\ t \in Seq(S) /\ Len(t) = N + 1 /\ N \in Nat /\ t[N + 1] = x
      /\ \A n \in 1..N : t[n] = s[n]
  BY <1>0
<1>2. PICK f : IsGathering(f, s, S, takes) /\ Gathered(s, takes) = f[Len(s)]
  BY <1>0, GatheringExists
<1>3. PICK g : IsGathering(g, t, S, takes) /\ Gathered(t, takes) = g[Len(t)]
  BY <1>1, GatheringExists
<1>4. f[0] = <<>> /\ \A n \in 1..N : f[n] = IF <<f[n - 1], s[n]>> \in takes THEN Append(f[n - 1], s[n]) ELSE f[n - 1]
  BY <1>2 DEF IsGathering
<1>5. /\ g[0] = <<>>
      /\ \A n \in 1..(N + 1) : g[n] = IF <<g[n - 1], t[n]>> \in takes THEN Append(g[n - 1], t[n]) ELSE g[n - 1]
  BY <1>1, <1>3 DEF IsGathering
<1>. DEFINE T == {n \in Nat : n <= N => f[n] = g[n]}
<1>6. 0 \in T
  BY <1>4, <1>5
<1>7. ASSUME NEW n \in Nat, n \in T PROVE n + 1 \in T
  <2>. SUFFICES ASSUME n + 1 <= N PROVE f[n + 1] = g[n + 1]
    OBVIOUS
  <2>1. n + 1 \in 1..N /\ n + 1 \in 1..(N + 1) /\ n + 1 - 1 = n /\ f[n] = g[n]
    BY <1>1, <1>7
  <2>2. t[n + 1] = s[n + 1]
    BY <1>1, <2>1
  <2>3. f[n + 1] = IF <<f[n], s[n + 1]>> \in takes THEN Append(f[n], s[n + 1]) ELSE f[n]
    BY <1>4, <2>1
  <2>4. g[n + 1] = IF <<g[n], t[n + 1]>> \in takes THEN Append(g[n], t[n + 1]) ELSE g[n]
    BY <1>5, <2>1
  <2>. QED
    BY <2>1, <2>2, <2>3, <2>4
<1>. HIDE DEF T
<1>8. Nat \subseteq T
  BY <1>6, <1>7, SetInduction
<1>9. f[N] = g[N]
  BY <1>1, <1>8 DEF T
<1>10. N + 1 \in 1..(N + 1) /\ N + 1 - 1 = N
  BY <1>1
<1>11. g[N + 1] = IF <<g[N], x>> \in takes THEN Append(g[N], x) ELSE g[N]
  BY <1>1, <1>5, <1>10
<1>12. Gathered(t, takes) = g[N + 1] /\ Gathered(s, takes) = f[N]
  BY <1>1, <1>2, <1>3
<1>. QED
  BY <1>9, <1>11, <1>12 DEF IsRound

(* What has been gathered was taken. *)
LEMMA GatheredWasTaken ==
  ASSUME NEW S, NEW s \in Seq(S), NEW takes, NEW i \in DOMAIN Gathered(s, takes)
  PROVE  \E u : <<u, Gathered(s, takes)[i]>> \in takes
<1>. DEFINE WasTaken(g) == g \in Seq(S) /\ \A k \in DOMAIN g : \E u : <<u, g[k]>> \in takes
            T == {t \in Seq(S) : WasTaken(Gathered(t, takes))}
<1>1. <<>> \in T
  <2>1. <<>> \in Seq(S) /\ DOMAIN <<>> = {}
    OBVIOUS
  <2>. QED
    BY <2>1, GatheredOfNothing
<1>2. ASSUME NEW t \in Seq(S), NEW x \in S, t \in T PROVE Append(t, x) \in T
  <2>. DEFINE more == Append(t, x)
              g == Gathered(t, takes)
  <2>1. IsLonger(more, t, x, S) /\ more \in Seq(S)
    BY DEF IsLonger
  <2>2. WasTaken(g)
    BY <1>2
  <2>3. /\ Append(g, x) \in Seq(S) /\ DOMAIN Append(g, x) = 1..(Len(g) + 1) /\ DOMAIN g = 1..Len(g)
        /\ Len(g) \in Nat /\ Append(g, x)[Len(g) + 1] = x /\ \A k \in 1..Len(g) : Append(g, x)[k] = g[k]
    <3>1. g \in Seq(S)
      BY <2>2
    <3>. HIDE DEF g, more, T
    <3>. QED
      BY <3>1
  <2>4. IsRound(Gathered(more, takes), g, x, takes)
    <3>. HIDE DEF more, T
    <3>. QED
      BY <2>1, GatheredOfAppend
  <2>5. \A k \in 1..(Len(g) + 1) : k \in 1..Len(g) \/ k = Len(g) + 1
    BY <2>3
  <2>6. WasTaken(Gathered(more, takes))
    <3>1. CASE <<g, x>> \in takes
      <4>1. Gathered(more, takes) = Append(g, x)
        BY <2>4, <3>1 DEF IsRound
      <4>. HIDE DEF g, more
      <4>2. WasTaken(Append(g, x))
        BY <2>2, <2>3, <2>5, <3>1
      <4>. QED
        BY <4>1, <4>2
    <3>2. CASE <<g, x>> \notin takes
      <4>1. Gathered(more, takes) = g
        BY <2>4, <3>2 DEF IsRound
      <4>. QED
        BY <2>2, <4>1
    <3>. QED
      BY <3>1, <3>2
  <2>. QED
    BY <2>1, <2>6
<1>. HIDE DEF T
<1>3. s \in T
  BY <1>1, <1>2, SequenceInduction
<1>. QED
  BY <1>3 DEF T

(* What every round of the loop keeps holds of what it gathers. *)
LEMMA GatheredKeeps ==
  ASSUME NEW S, NEW s \in Seq(S), NEW takes, NEW T, <<>> \in T,
         \A u \in T : \A x \in S : <<u, x>> \in takes => Append(u, x) \in T
  PROVE  Gathered(s, takes) \in T
<1>. DEFINE Q == {t \in Seq(S) : Gathered(t, takes) \in T}
<1>1. <<>> \in Q
  <2>1. <<>> \in Seq(S)
    OBVIOUS
  <2>. QED
    BY <2>1, GatheredOfNothing
<1>2. ASSUME NEW t \in Seq(S), NEW x \in S, t \in Q PROVE Append(t, x) \in Q
  <2>. DEFINE more == Append(t, x)
              g == Gathered(t, takes)
  <2>1. IsLonger(more, t, x, S) /\ more \in Seq(S) /\ g \in T
    BY <1>2 DEF IsLonger
  <2>. HIDE DEF more, Q, g
  <2>2. IsRound(Gathered(more, takes), g, x, takes)
    BY <2>1, GatheredOfAppend DEF g
  <2>3. Gathered(more, takes) \in T
    BY <2>1, <2>2 DEF IsRound
  <2>. QED
    BY <2>1, <2>3 DEF Q, more
<1>. HIDE DEF Q
<1>3. s \in Q
  BY <1>1, <1>2, SequenceInduction
<1>. QED
  BY <1>3 DEF Q

(* The smaller of two numbers.                                               *)
LEMMA MinOfTwo ==
  ASSUME NEW a \in Int, NEW b \in Int
  PROVE  Min({a, b}) \in {a, b} /\ Min({a, b}) <= a /\ Min({a, b}) <= b
<1>. DEFINE m == IF a <= b THEN a ELSE b
<1>1. m \in {a, b} /\ \A y \in {a, b} : m <= y
  OBVIOUS
<1>2. \A x \in {a, b} : (\A y \in {a, b} : x <= y) => x = m
  OBVIOUS
<1>3. Min({a, b}) = m
  BY <1>1, <1>2 DEF Min
<1>. QED
  BY <1>1, <1>3

(* The larger of two numbers.                                                *)
LEMMA MaxOfTwo ==
  ASSUME NEW a \in Int, NEW b \in Int
  PROVE  Max({a, b}) \in {a, b} /\ Max({a, b}) >= a /\ Max({a, b}) >= b
<1>. DEFINE m == IF a >= b THEN a ELSE b
<1>1. m \in {a, b} /\ \A y \in {a, b} : m >= y
  OBVIOUS
<1>2. \A x \in {a, b} : (\A y \in {a, b} : x >= y) => x = m
  OBVIOUS
<1>3. Max({a, b}) = m
  BY <1>1, <1>2 DEF Max
<1>. QED
  BY <1>1, <1>3

(* A sequence of a bounded length is a sequence.                             *)
LEMMA BoundedSeqIsSeq ==
  ASSUME NEW S, NEW n, NEW s \in BoundedSeq(S, n)
  PROVE  s \in Seq(S)
<1>1. PICK m \in 0..n : s \in [1..m -> S]
  BY DEF BoundedSeq, SeqOf
<1>. QED
  BY <1>1

-----------------------------------------------------------------------------
(* Discovery *)

DiscoverySpec == DiscoveryInit /\ [][DiscoveryNext]_discovery

LEMMA DiscoveryConstants ==
  /\ MaxQueries \in Nat /\ MaxQueries > 0 /\ CandidateLimit \in Nat /\ CandidateLimit > 0
  /\ ShortlistLimit \in Nat /\ ShortlistLimit > 0 /\ MaxResults \in Nat /\ MaxResults > 0
  /\ DefaultResults \in 1..MaxResults /\ Topic \in WordTexts /\ Topic # <<>>
BY DiscoveryAssumption DEF DiscoveryAssumption

(* The plan *)

PlanIsFit(plan) ==
  /\ plan \in Seq(Queries) /\ Len(plan) <= MaxQueries
  /\ \A i, j \in DOMAIN plan : plan[i].words = plan[j].words => i = j

LEMMA NormalizePlanIsFit ==
  ASSUME NEW items \in Seq(QueryItems)
  PROVE  PlanIsFit(NormalizePlan(items))
<1>. DEFINE takes == {x \in Seq(Queries) \X Queries :
                  /\ x[2].words # <<>> /\ Len(x[1]) < MaxQueries
                  /\ \A i \in DOMAIN x[1] : ~SameQuery(x[1][i], x[2])}
            asked == [i \in DOMAIN items |-> Query(items[i])]
            T == {u \in Seq(Queries) : PlanIsFit(u)}
<1>1. asked \in Seq(Queries)
  <2>1. ASSUME NEW item \in QueryItems PROVE Query(item) \in Queries
    <3>1. item \in [words : WordTexts, spelling : Int, limit : Int \cup {NotANumber}]
      BY DiscoveryAssumption DEF DiscoveryAssumption
    <3>2. CoerceMaxResults(item.limit) \in 1..MaxResults
      BY <3>1, DiscoveryConstants DEF CoerceMaxResults
    <3>. QED
      BY <3>1, <3>2 DEF Query, Queries
  <2>2. \A i \in DOMAIN items : Query(items[i]) \in Queries
    BY <2>1
  <2>3. Len(items) \in Nat /\ DOMAIN items = 1..Len(items)
    OBVIOUS
  <2>. QED
    BY <2>2, <2>3
<1>2. <<>> \in T
  <2>1. <<>> \in Seq(Queries) /\ Len(<<>>) = 0 /\ DOMAIN <<>> = {}
    OBVIOUS
  <2>. QED
    BY <2>1, DiscoveryConstants DEF PlanIsFit
<1>3. ASSUME NEW u \in T, NEW q \in Queries, <<u, q>> \in takes PROVE Append(u, q) \in T
  <2>. DEFINE more == Append(u, q)
  <2>1. u \in Seq(Queries) /\ PlanIsFit(u) /\ Len(u) < MaxQueries /\ \A i \in DOMAIN u : u[i].words # q.words
    BY <1>3 DEF SameQuery
  <2>2. /\ more \in Seq(Queries) /\ Len(more) = Len(u) + 1 /\ DOMAIN more = 1..(Len(u) + 1)
        /\ DOMAIN u = 1..Len(u) /\ Len(u) \in Nat /\ more[Len(u) + 1] = q
        /\ \A i \in 1..Len(u) : more[i] = u[i]
    <3>1. u \in Seq(Queries)
      BY <2>1
    <3>. HIDE DEF T, takes
    <3>. QED
      BY <3>1
  <2>. HIDE DEF more, T, takes
  <2>3. \A i \in DOMAIN more : i \in 1..Len(u) \/ i = Len(u) + 1
    BY <2>2
  <2>4. \A i, j \in DOMAIN more : more[i].words = more[j].words => i = j
    BY <2>1, <2>2, <2>3 DEF PlanIsFit
  <2>5. Len(more) <= MaxQueries
    BY <2>1, <2>2, DiscoveryConstants
  <2>. QED
    BY <2>2, <2>4, <2>5 DEF PlanIsFit, T, more
<1>. HIDE DEF asked, takes, T
<1>4. Gathered(asked, takes) \in T
  BY <1>1, <1>2, <1>3, GatheredKeeps
<1>. QED
  BY <1>4 DEF NormalizePlan, asked, takes, T

-----------------------------------------------------------------------------
(* What arXiv answered *)

LEMMA ParseFeedIs ==
  ASSUME NEW feed \in Seq(Entries)
  PROVE  /\ ParseFeed(feed) \in Seq(Results)
         /\ \A i \in DOMAIN ParseFeed(feed) : Len(ParseFeed(feed)[i].id) = 1
<1>. DEFINE takes == {x \in Seq(Entries) \X Entries : x[2] # NoEntry}
            kept == Gathered(feed, takes)
<1>1. ASSUME NEW e \in Entries, e # NoEntry PROVE ParseEntry(e) \in Results /\ Len(ParseEntry(e).id) = 1
  <2>1. e \in [id : Int, version : Int, title : WordTexts, abstract : WordTexts, age : Int]
    BY <1>1, DiscoveryAssumption DEF DiscoveryAssumption
  <2>2. <<e.id>> \in Seq(Int) /\ Len(<<e.id>>) = 1
    BY <2>1
  <2>. QED
    BY <2>1, <2>2 DEF ParseEntry, Results
<1>2. \A u, e : <<u, e>> \in takes => e # NoEntry
  OBVIOUS
<1>3. ParseFeed(feed) = [i \in DOMAIN kept |-> ParseEntry(kept[i])]
  BY DEF ParseFeed
<1>. HIDE DEF takes
<1>4. kept \in Seq(Entries)
  BY GatheredIsSeq
<1>5. \A i \in DOMAIN kept : kept[i] \in Entries /\ kept[i] # NoEntry
  <2>1. \A i \in DOMAIN kept : \E u : <<u, kept[i]>> \in takes
    BY GatheredWasTaken
  <2>2. \A i \in DOMAIN kept : kept[i] \in Entries
    BY <1>4
  <2>. QED
    BY <1>2, <2>1, <2>2
<1>. HIDE DEF kept
<1>6. \A i \in DOMAIN kept : ParseEntry(kept[i]) \in Results /\ Len(ParseEntry(kept[i]).id) = 1
  BY <1>1, <1>5
<1>7. DOMAIN kept = 1..Len(kept) /\ Len(kept) \in Nat
  BY <1>4
<1>. HIDE DEF ParseEntry
<1>8. [i \in DOMAIN kept |-> ParseEntry(kept[i])] \in Seq(Results)
  BY <1>6, <1>7
<1>. QED
  BY <1>3, <1>6, <1>8

(* The results that are kept of those that were found. *)
KeepsEachOnce(kept, found) ==
  /\ kept \in Seq(Results)
  /\ \A k \in DOMAIN kept : \E i \in DOMAIN found : kept[k] = found[i]
  /\ \A i \in DOMAIN found : \E k \in DOMAIN kept : DedupKeys(found[i]) \cap DedupKeys(kept[k]) # {}
  /\ \A k, l \in DOMAIN kept : k # l => DedupKeys(kept[k]) \cap DedupKeys(kept[l]) = {}

LEMMA DedupKeepsEachOnce ==
  ASSUME NEW found \in Seq(Results)
  PROVE  KeepsEachOnce(Dedup(found), found)
<1>. DEFINE takes == {x \in Seq(Results) \X Results :
                        \A i \in DOMAIN x[1] : DedupKeys(x[1][i]) \cap DedupKeys(x[2]) = {}}
            T == {s \in Seq(Results) : KeepsEachOnce(Gathered(s, takes), s)}
<1>0. \A u, r : <<u, r>> \in takes <=>
        u \in Seq(Results) /\ r \in Results /\ \A i \in DOMAIN u : DedupKeys(u[i]) \cap DedupKeys(r) = {}
  OBVIOUS
<1>. HIDE DEF takes
<1>1. <<>> \in T
  <2>1. <<>> \in Seq(Results) /\ DOMAIN <<>> = {} /\ Gathered(<<>>, takes) = <<>>
    BY GatheredOfNothing
  <2>. QED
    BY <2>1 DEF KeepsEachOnce
<1>2. ASSUME NEW s \in Seq(Results), NEW r \in Results, s \in T PROVE Append(s, r) \in T
  <2>. DEFINE g == Gathered(s, takes)
              more == Append(s, r)
              N == Len(s)
  <2>1. IsLonger(more, s, r, Results)
    BY DEF IsLonger
  <2>2. KeepsEachOnce(g, s) /\ g \in Seq(Results)
    BY <1>2 DEF KeepsEachOnce
  <2>3. /\ more \in Seq(Results) /\ DOMAIN more = 1..(N + 1) /\ DOMAIN s = 1..N /\ N \in Nat
        /\ more[N + 1] = r /\ \A i \in 1..N : more[i] = s[i]
    <3>. HIDE DEF T
    <3>. QED
      OBVIOUS
  <2>. HIDE DEF T, g, more, N
  <2>4. IsRound(Gathered(more, takes), g, r, takes)
    BY <2>1, GatheredOfAppend DEF g
  <2>5. \A i \in DOMAIN more : i \in 1..N \/ i = N + 1
    BY <2>3
  <2>6. N + 1 \in DOMAIN more /\ \A i \in 1..N : i \in DOMAIN more
    BY <2>3
  <2>7. CASE <<g, r>> \in takes
    <3>. DEFINE h == Append(g, r)
                M == Len(g)
    <3>1. Gathered(more, takes) = h
      BY <2>4, <2>7 DEF IsRound
    <3>2. /\ h \in Seq(Results) /\ DOMAIN h = 1..(M + 1) /\ DOMAIN g = 1..M /\ M \in Nat
          /\ h[M + 1] = r /\ \A k \in 1..M : h[k] = g[k]
      BY <2>2
    <3>. HIDE DEF h, M
    <3>3. (\A k \in DOMAIN h : k \in 1..M \/ k = M + 1) /\ M + 1 \in DOMAIN h /\ \A k \in 1..M : k \in DOMAIN h
      BY <3>2
    <3>4. \A i \in 1..M : DedupKeys(g[i]) \cap DedupKeys(r) = {}
      BY <1>0, <2>7, <3>2
    <3>5. \A k \in DOMAIN h : \E i \in DOMAIN more : h[k] = more[i]
      <4>1. h[M + 1] = more[N + 1]
        BY <2>3, <3>2
      <4>2. ASSUME NEW k \in 1..M PROVE \E i \in DOMAIN more : h[k] = more[i]
        <5>1. PICK i \in DOMAIN s : g[k] = s[i]
          BY <2>2, <3>2 DEF KeepsEachOnce
        <5>. QED
          BY <2>3, <2>6, <3>2, <5>1
      <4>. QED
        BY <2>6, <3>3, <4>1, <4>2
    <3>6. \A i \in DOMAIN more : \E k \in DOMAIN h : DedupKeys(more[i]) \cap DedupKeys(h[k]) # {}
      <4>1. DedupKeys(r) \cap DedupKeys(h[M + 1]) # {}
        BY <3>2 DEF DedupKeys
      <4>2. ASSUME NEW i \in 1..N PROVE \E k \in DOMAIN h : DedupKeys(more[i]) \cap DedupKeys(h[k]) # {}
        <5>1. PICK k \in DOMAIN g : DedupKeys(s[i]) \cap DedupKeys(g[k]) # {}
          BY <2>2, <2>3 DEF KeepsEachOnce
        <5>. QED
          BY <2>3, <3>2, <3>3, <5>1
      <4>. QED
        BY <2>3, <2>5, <3>3, <4>1, <4>2
    <3>7. \A k, l \in DOMAIN h : k # l => DedupKeys(h[k]) \cap DedupKeys(h[l]) = {}
      <4>1. \A k, l \in 1..M : k # l => DedupKeys(g[k]) \cap DedupKeys(g[l]) = {}
        BY <2>2, <3>2 DEF KeepsEachOnce
      <4>. HIDE DEF DedupKeys
      <4>2. ASSUME NEW k \in DOMAIN h, NEW l \in DOMAIN h, k # l PROVE DedupKeys(h[k]) \cap DedupKeys(h[l]) = {}
        <5>1. CASE k \in 1..M /\ l \in 1..M
          BY <3>2, <4>1, <4>2, <5>1
        <5>2. CASE k = M + 1
          BY <3>2, <3>3, <3>4, <4>2, <5>2
        <5>3. CASE l = M + 1
          BY <3>2, <3>3, <3>4, <4>2, <5>3
        <5>. QED
          BY <3>3, <5>1, <5>2, <5>3
      <4>. QED
        BY <4>2
    <3>8. KeepsEachOnce(h, more)
      BY <3>2, <3>5, <3>6, <3>7 DEF KeepsEachOnce
    <3>. QED
      BY <2>3, <3>1, <3>8 DEF T, more
  <2>8. CASE <<g, r>> \notin takes
    <3>1. Gathered(more, takes) = g
      BY <2>4, <2>8 DEF IsRound
    <3>2. PICK k \in DOMAIN g : DedupKeys(g[k]) \cap DedupKeys(r) # {}
      BY <1>0, <2>2, <2>8
    <3>3. \A i \in DOMAIN more : \E l \in DOMAIN g : DedupKeys(more[i]) \cap DedupKeys(g[l]) # {}
      BY <2>2, <2>3, <2>5, <3>2 DEF KeepsEachOnce
    <3>4. \A l \in DOMAIN g : \E i \in DOMAIN more : g[l] = more[i]
      BY <2>2, <2>3, <2>6 DEF KeepsEachOnce
    <3>5. KeepsEachOnce(g, more)
      BY <2>2, <3>3, <3>4 DEF KeepsEachOnce
    <3>. QED
      BY <2>3, <3>1, <3>5 DEF T, more
  <2>. QED
    BY <2>7, <2>8
<1>. HIDE DEF T
<1>3. found \in T
  BY <1>1, <1>2, SequenceInduction
<1>. QED
  BY <1>3 DEF T, Dedup, takes

-----------------------------------------------------------------------------
(* The ranking *)

LEMMA TitleBeforeIsStrict ==
  ASSUME NEW s \in WordTexts
  PROVE  ~TitleBefore(s, s)
BY DEF TitleBefore, WordTexts

LEMMA TitleBeforeIsTransitive ==
  ASSUME NEW s \in WordTexts, NEW t \in WordTexts, NEW u \in WordTexts, TitleBefore(s, t), TitleBefore(t, u)
  PROVE  TitleBefore(s, u)
<1>0. /\ Len(s) \in Nat /\ Len(t) \in Nat /\ Len(u) \in Nat
      /\ DOMAIN s = 1..Len(s) /\ DOMAIN t = 1..Len(t) /\ DOMAIN u = 1..Len(u)
      /\ (\A i \in 1..Len(s) : s[i] \in Int) /\ (\A i \in 1..Len(t) : t[i] \in Int)
      /\ (\A i \in 1..Len(u) : u[i] \in Int)
  BY DEF WordTexts
<1>1. PICK i \in 1..Len(t) :
        i <= Len(s) + 1 /\ (\A j \in 1..(i - 1) : s[j] = t[j]) /\ (i <= Len(s) => s[i] < t[i])
  BY <1>0 DEF TitleBefore
<1>2. PICK k \in 1..Len(u) :
        k <= Len(t) + 1 /\ (\A j \in 1..(k - 1) : t[j] = u[j]) /\ (k <= Len(t) => t[k] < u[k])
  BY <1>0 DEF TitleBefore
<1>. DEFINE m == IF i < k THEN i ELSE k
<1>3. m \in 1..Len(u) /\ m <= Len(s) + 1 /\ m <= i /\ m <= k
  BY <1>0, <1>1, <1>2
<1>4. \A j \in 1..(m - 1) : s[j] = u[j]
  <2>1. \A j \in 1..(m - 1) : j \in 1..(i - 1) /\ j \in 1..(k - 1)
    BY <1>0, <1>3
  <2>. QED
    BY <1>1, <1>2, <2>1
<1>5. m <= Len(s) => s[m] < u[m]
  <2>1. CASE i < k
    <3>1. i \in 1..(k - 1) /\ m = i
      BY <2>1
    <3>. QED
      BY <1>1, <1>2, <3>1
  <2>2. CASE k < i
    <3>1. k \in 1..(i - 1) /\ m = k /\ k <= Len(t)
      BY <1>0, <2>2
    <3>. QED
      BY <1>1, <1>2, <3>1
  <2>3. CASE i = k
    <3>1. m = i /\ m = k /\ k <= Len(t)
      BY <1>0, <2>3
    <3>. SUFFICES ASSUME m <= Len(s) PROVE s[m] < u[m]
      OBVIOUS
    <3>2. s[m] < t[m] /\ t[m] < u[m]
      BY <1>1, <1>2, <3>1
    <3>3. s[m] \in Int /\ t[m] \in Int /\ u[m] \in Int
      BY <1>0, <1>3, <3>1
    <3>. QED
      BY <3>2, <3>3
  <2>. QED
    BY <1>0, <2>1, <2>2, <2>3
<1>. QED
  BY <1>0, <1>3, <1>4, <1>5 DEF TitleBefore

LEMMA TitleBeforeIsTotal ==
  ASSUME NEW s \in WordTexts, NEW t \in WordTexts, s # t
  PROVE  TitleBefore(s, t) \/ TitleBefore(t, s)
<1>0. /\ Len(s) \in Nat /\ Len(t) \in Nat
      /\ DOMAIN s = 1..Len(s) /\ DOMAIN t = 1..Len(t)
      /\ (\A i \in 1..Len(s) : s[i] \in Int) /\ (\A i \in 1..Len(t) : t[i] \in Int)
  BY DEF WordTexts
<1>. DEFINE D == {i \in Nat : i > 0 /\ (i > Len(s) \/ i > Len(t) \/ s[i] # t[i])}
<1>1. Len(s) + 1 \in D /\ D \subseteq Nat
  BY <1>0
<1>2. PICK i \in D : \A j \in D : i <= j
  <2>. HIDE DEF D
  <2>. QED
    BY <1>1, LeastNatural
<1>3. \A j \in 1..(i - 1) : j <= Len(s) /\ j <= Len(t) /\ s[j] = t[j]
  <2>. SUFFICES ASSUME NEW j \in 1..(i - 1) PROVE j <= Len(s) /\ j <= Len(t) /\ s[j] = t[j]
    OBVIOUS
  <2>1. j \in Nat /\ j > 0 /\ j < i /\ i \in Nat
    OBVIOUS
  <2>2. j \notin D
    BY <1>2, <2>1
  <2>. QED
    BY <1>0, <2>1, <2>2
<1>4. i \in Nat /\ i > 0 /\ (i > Len(s) \/ i > Len(t) \/ s[i] # t[i])
  OBVIOUS
<1>. HIDE DEF D
<1>5. i <= Len(s) + 1 /\ i <= Len(t) + 1
  <2>1. i = 1 \/ i - 1 \in 1..(i - 1)
    BY <1>4
  <2>. QED
    BY <1>0, <1>3, <1>4, <2>1
<1>6. CASE i > Len(s) /\ i > Len(t)
  <2>1. Len(s) = i - 1 /\ Len(t) = i - 1
    BY <1>0, <1>4, <1>5, <1>6
  <2>2. s = t
    BY <1>0, <1>3, <2>1 DEF WordTexts
  <2>. QED
    BY <2>2
<1>7. CASE i > Len(s) /\ i <= Len(t)
  <2>1. i \in DOMAIN t
    BY <1>0, <1>4, <1>7
  <2>. QED
    BY <1>0, <1>3, <1>4, <1>5, <1>7, <2>1 DEF TitleBefore
<1>8. CASE i <= Len(s) /\ i > Len(t)
  <2>1. i \in DOMAIN s
    BY <1>0, <1>4, <1>8
  <2>. QED
    BY <1>0, <1>3, <1>4, <1>5, <1>8, <2>1 DEF TitleBefore
<1>9. CASE i <= Len(s) /\ i <= Len(t)
  <2>1. i \in DOMAIN s /\ i \in DOMAIN t /\ s[i] \in Int /\ t[i] \in Int /\ s[i] # t[i]
    BY <1>0, <1>4, <1>9
  <2>2. s[i] < t[i] \/ t[i] < s[i]
    BY <2>1
  <2>. QED
    BY <1>0, <1>3, <1>5, <2>1, <2>2 DEF TitleBefore
<1>. QED
  BY <1>0, <1>4, <1>6, <1>7, <1>8, <1>9

LEMMA WordsAreFinite ==
  ASSUME NEW text \in WordTexts
  PROVE  IsFiniteSet(Words(text))
<1>1. Len(text) \in Nat /\ DOMAIN text = 1..Len(text)
  BY DEF WordTexts
<1>. DEFINE f == [i \in 1..Len(text) |-> text[i]]
<1>2. f \in Surjection(1..Len(text), Words(text))
  BY <1>1 DEF Surjection, Words
<1>3. IsFiniteSet(1..Len(text))
  BY <1>1, FS_Interval
<1>. HIDE DEF f
<1>. QED
  BY <1>2, <1>3, FS_Surjection

LEMMA ScoreIsANumber ==
  ASSUME NEW r \in Results, NEW plan
  PROVE  Score(r, plan) \in Int
<1>. DEFINE inTitle == Terms(plan) \cap Words(r.title)
            inAbstract == (Terms(plan) \ inTitle) \cap Words(r.abstract)
            recency == IF r.age < 10 THEN 5 * (10 - r.age) ELSE 0
<1>1. r.title \in WordTexts /\ r.abstract \in WordTexts /\ r.age \in Int
  BY DEF Results
<1>2. IsFiniteSet(inTitle) /\ IsFiniteSet(inAbstract)
  <2>1. IsFiniteSet(Words(r.title)) /\ IsFiniteSet(Words(r.abstract))
    BY <1>1, WordsAreFinite
  <2>. QED
    BY <2>1, FS_Intersection
<1>3. Cardinality(inTitle) \in Nat /\ Cardinality(inAbstract) \in Nat
  BY <1>2, FS_CardinalityType
<1>4. PhraseScore(r, plan) \in Int
  BY DEF PhraseScore
<1>5. recency \in Int
  BY <1>1
<1>6. Score(r, plan) = PhraseScore(r, plan) + 400 * Cardinality(inTitle) + 150 * Cardinality(inAbstract) + recency + 100
  BY DEF Score
<1>. HIDE DEF inTitle, inAbstract, recency
<1>. QED
  BY <1>3, <1>4, <1>5, <1>6

(* A strict total order on 1..n can be listed.                               *)
IsOrder(less, n) ==
  /\ \A i \in 1..n : <<i, i>> \notin less
  /\ \A i, j \in 1..n : i # j => <<i, j>> \in less \/ <<j, i>> \in less
  /\ \A i, j, k \in 1..n : <<i, j>> \in less /\ <<j, k>> \in less => <<i, k>> \in less

Lists(p, less, n) == p \in [1..n -> 1..n] /\ \A i, j \in 1..n : i < j => <<p[i], p[j]>> \in less

LEMMA OneToOne ==
  ASSUME NEW n \in Nat, NEW p \in [1..n -> 1..n], \A i, j \in 1..n : p[i] = p[j] => i = j
  PROVE  \A x \in 1..n : \E i \in 1..n : p[i] = x
<1>1. p \in Injection(1..n, 1..n)
  BY DEF Injection, IsInjective
<1>2. IsFiniteSet(1..n)
  BY FS_Interval
<1>3. p \in Surjection(1..n, 1..n)
  BY <1>1, <1>2, FS_Injection
<1>. QED
  BY <1>3 DEF Surjection

LEMMA OrderCanBeListed ==
  ASSUME NEW n \in Nat, NEW less, IsOrder(less, n)
  PROVE  \E p : Lists(p, less, n)
<1>. DEFINE below(x) == {y \in 1..n : <<y, x>> \in less}
            rank == [x \in 1..n |-> Cardinality(below(x)) + 1]
            N == 1..n
<1>0. IsFiniteSet(N) /\ Cardinality(N) = n
  BY FS_Interval
<1>1. \A x \in N : /\ x \notin below(x)
                   /\ \A y \in N : x # y => <<x, y>> \in less \/ <<y, x>> \in less
                   /\ \A y \in N : <<y, x>> \in less => y \in below(x) /\ below(y) \subseteq below(x)
  BY DEF IsOrder
<1>2. \A x \in N : IsFiniteSet(below(x)) /\ Cardinality(below(x)) \in Nat
  <2>1. \A x \in N : below(x) \subseteq N
    OBVIOUS
  <2>. HIDE DEF below, N
  <2>2. \A x \in N : IsFiniteSet(below(x))
    BY <1>0, <2>1, FS_Subset
  <2>. QED
    BY <2>2, FS_CardinalityType
<1>3. ASSUME NEW x \in N PROVE Cardinality(below(x)) < n
  <2>1. below(x) \in SUBSET N /\ below(x) # N
    BY <1>1
  <2>. HIDE DEF below, N
  <2>2. Cardinality(below(x)) <= Cardinality(N) /\ (Cardinality(N) = Cardinality(below(x)) => N = below(x))
    BY <1>0, <2>1, FS_Subset
  <2>. QED
    BY <1>0, <1>2, <2>1, <2>2
<1>4. rank \in [1..n -> 1..n]
  <2>1. ASSUME NEW x \in N PROVE Cardinality(below(x)) + 1 \in 1..n
    <3>. DEFINE c == Cardinality(below(x))
    <3>1. c \in Nat /\ c < n
      BY <1>2, <1>3
    <3>. HIDE DEF c
    <3>2. c + 1 \in 1..n
      BY <3>1
    <3>. QED
      BY <3>2 DEF c
  <2>. QED
    BY <2>1
<1>5. ASSUME NEW x \in N, NEW y \in N, <<y, x>> \in less PROVE rank[y] < rank[x]
  <2>. DEFINE S == below(y)
              R == below(x)
  <2>1. S \subseteq R /\ y \in R /\ y \notin S
    BY <1>1, <1>5
  <2>2. IsFiniteSet(S) /\ IsFiniteSet(R) /\ Cardinality(S) \in Nat /\ Cardinality(R) \in Nat
    BY <1>2
  <2>3. rank[x] = Cardinality(R) + 1 /\ rank[y] = Cardinality(S) + 1
    OBVIOUS
  <2>. HIDE DEF S, R
  <2>4. Cardinality(S) <= Cardinality(R) /\ (Cardinality(R) = Cardinality(S) => R = S)
    BY <2>1, <2>2, FS_Subset
  <2>5. Cardinality(S) < Cardinality(R)
    BY <2>1, <2>2, <2>4
  <2>. QED
    BY <2>2, <2>3, <2>5
<1>. HIDE DEF rank, below
<1>6. \A x, y \in 1..n : rank[x] = rank[y] => x = y
  <2>. SUFFICES ASSUME NEW x \in N, NEW y \in N, rank[x] = rank[y], x # y PROVE FALSE
    OBVIOUS
  <2>1. rank[x] \in Int /\ rank[y] \in Int
    BY <1>4
  <2>2. <<x, y>> \in less \/ <<y, x>> \in less
    BY <1>1
  <2>3. rank[x] < rank[y] \/ rank[y] < rank[x]
    BY <1>5, <2>2
  <2>. QED
    BY <2>1, <2>3
<1>7. \A i \in 1..n : \E x \in 1..n : rank[x] = i
  BY <1>4, <1>6, OneToOne
<1>. DEFINE p == [i \in 1..n |-> CHOOSE x \in 1..n : rank[x] = i]
<1>8. \A i \in 1..n : p[i] \in 1..n /\ rank[p[i]] = i
  BY <1>7
<1>9. p \in [1..n -> 1..n]
  <2>1. p = [i \in 1..n |-> p[i]]
    OBVIOUS
  <2>. HIDE DEF p
  <2>. QED
    BY <1>8, <2>1
<1>. HIDE DEF p
<1>10. ASSUME NEW i \in 1..n, NEW j \in 1..n, i < j PROVE <<p[i], p[j]>> \in less
  <2>1. p[i] \in N /\ p[j] \in N /\ rank[p[i]] = i /\ rank[p[j]] = j
    BY <1>8
  <2>2. p[i] # p[j]
    BY <1>10, <2>1
  <2>3. <<p[j], p[i]>> \notin less
    <3>1. <<p[j], p[i]>> \in less => rank[p[j]] < rank[p[i]]
      BY <1>5, <2>1
    <3>. QED
      BY <1>10, <2>1, <3>1
  <2>. QED
    BY <1>1, <2>1, <2>2, <2>3
<1>. QED
  BY <1>9, <1>10 DEF Lists

Apart(results) ==
  results \in Seq(Results)
    /\ \A k, l \in DOMAIN results : k # l => DedupKeys(results[k]) \cap DedupKeys(results[l]) = {}

Before(results, plan) ==
  {x \in (DOMAIN results) \X (DOMAIN results) : RankedBefore(results[x[1]], results[x[2]], plan)}

LEMMA BeforeIs ==
  ASSUME NEW results, NEW plan, NEW i \in DOMAIN results, NEW j \in DOMAIN results
  PROVE  <<i, j>> \in Before(results, plan) <=> RankedBefore(results[i], results[j], plan)
BY DEF Before

LEMMA RankedBeforeIsOrder ==
  ASSUME NEW results, Apart(results), NEW plan
  PROVE  IsOrder(Before(results, plan), Len(results))
<1>. DEFINE n == Len(results)
            less == Before(results, plan)
<1>0. n \in Nat /\ DOMAIN results = 1..n /\ results \in Seq(Results)
  BY DEF Apart
<1>1. \A i \in 1..n : results[i].title \in WordTexts /\ Score(results[i], plan) \in Int
  <2>1. \A i \in 1..n : results[i] \in Results
    BY <1>0
  <2>2. \A r \in Results : r.title \in WordTexts
    BY DEF Results
  <2>. QED
    BY <2>1, <2>2, ScoreIsANumber
<1>2. \A i, j \in 1..n : i # j => results[i].title # results[j].title
  BY <1>0 DEF Apart, DedupKeys
<1>3. \A i, j \in 1..n : <<i, j>> \in less <=> RankedBefore(results[i], results[j], plan)
  BY <1>0, BeforeIs
<1>. HIDE DEF n, less
<1>4. ASSUME NEW i \in 1..n PROVE <<i, i>> \notin less
  BY <1>1, <1>3, TitleBeforeIsStrict DEF RankedBefore
<1>5. ASSUME NEW i \in 1..n, NEW j \in 1..n, i # j PROVE <<i, j>> \in less \/ <<j, i>> \in less
  <2>1. TitleBefore(results[i].title, results[j].title) \/ TitleBefore(results[j].title, results[i].title)
    BY <1>1, <1>2, <1>5, TitleBeforeIsTotal
  <2>2. Score(results[i], plan) \in Int /\ Score(results[j], plan) \in Int
    BY <1>1
  <2>. QED
    BY <1>3, <2>1, <2>2 DEF RankedBefore
<1>6. ASSUME NEW i \in 1..n, NEW j \in 1..n, NEW k \in 1..n, <<i, j>> \in less, <<j, k>> \in less
      PROVE  <<i, k>> \in less
  <2>1. Score(results[i], plan) \in Int /\ Score(results[j], plan) \in Int /\ Score(results[k], plan) \in Int
    BY <1>1
  <2>2. TitleBefore(results[i].title, results[j].title) /\ TitleBefore(results[j].title, results[k].title)
          => TitleBefore(results[i].title, results[k].title)
    BY <1>1, TitleBeforeIsTransitive
  <2>3. RankedBefore(results[i], results[j], plan) /\ RankedBefore(results[j], results[k], plan)
    BY <1>3, <1>6
  <2>4. RankedBefore(results[i], results[k], plan)
    BY <2>1, <2>2, <2>3 DEF RankedBefore
  <2>. QED
    BY <1>3, <2>4
<1>. QED
  BY <1>4, <1>5, <1>6 DEF IsOrder, n, less

(* The ranking shows results that are there, each at one rank, and leaves    *)
(* none out unless the list is full of those that are not worse.             *)
RanksTheBest(ranked, results, plan) ==
  /\ ranked \in Seq(Results)
  /\ \A c \in DOMAIN ranked : \E k \in DOMAIN results : ranked[c] = results[k]
  /\ \A c, d \in DOMAIN ranked : c # d => DedupKeys(ranked[c]) \cap DedupKeys(ranked[d]) = {}
  /\ \A k \in DOMAIN results :
       \/ \E c \in DOMAIN ranked : ranked[c] = results[k]
       \/ /\ Len(ranked) = CandidateLimit
          /\ \A c \in DOMAIN ranked : Score(ranked[c], plan) >= Score(results[k], plan)

LEMMA RankRanksTheBest ==
  ASSUME NEW results, Apart(results), NEW plan
  PROVE  RanksTheBest(Rank(results, plan), results, plan)
<1>. DEFINE n == Len(results)
            less == Before(results, plan)
            all == DOMAIN results
            order == CHOOSE p \in [all -> all] :
                       \A i, j \in all : i < j => RankedBefore(results[p[i]], results[p[j]], plan)
            m == IF n < CandidateLimit THEN n ELSE CandidateLimit
            ranked == Rank(results, plan)
<1>0. n \in Nat /\ all = 1..n /\ results \in Seq(Results)
  BY DEF Apart
<1>1. IsOrder(less, n)
  BY RankedBeforeIsOrder
<1>2. \A i, j \in 1..n : <<i, j>> \in less <=> RankedBefore(results[i], results[j], plan)
  BY <1>0, BeforeIs
<1>3. ranked = [i \in 1..m |-> results[order[i]]]
  BY DEF Rank
<1>4. \E p \in [all -> all] : \A i, j \in all : i < j => RankedBefore(results[p[i]], results[p[j]], plan)
  <2>1. PICK p : Lists(p, less, n)
    <3>. HIDE DEF less, n
    <3>. QED
      BY <1>0, <1>1, OrderCanBeListed
  <2>. HIDE DEF less, n
  <2>2. p \in [1..n -> 1..n] /\ \A i, j \in 1..n : i < j => <<p[i], p[j]>> \in less
    BY <2>1 DEF Lists
  <2>3. \A i, j \in 1..n : i < j => RankedBefore(results[p[i]], results[p[j]], plan)
    BY <1>2, <2>2
  <2>. QED
    BY <1>0, <2>2, <2>3
<1>5. order \in [all -> all] /\ \A i, j \in all : i < j => RankedBefore(results[order[i]], results[order[j]], plan)
  BY <1>4
<1>. HIDE DEF order, less, n, ranked, all
<1>6. /\ order \in [1..n -> 1..n]
      /\ \A i, j \in 1..n : i < j => <<order[i], order[j]>> \in less
  BY <1>0, <1>2, <1>5
<1>7. \A i, j \in 1..n : order[i] = order[j] => i = j
  <2>. SUFFICES ASSUME NEW i \in 1..n, NEW j \in 1..n, order[i] = order[j], i # j PROVE FALSE
    OBVIOUS
  <2>1. i < j \/ j < i
    OBVIOUS
  <2>2. <<order[i], order[i]>> \in less
    BY <1>6, <2>1
  <2>3. order[i] \in 1..n
    BY <1>6
  <2>. QED
    BY <1>1, <2>2, <2>3 DEF IsOrder
<1>8. \A k \in 1..n : \E i \in 1..n : order[i] = k
  BY <1>0, <1>6, <1>7, OneToOne
<1>9. m \in Nat /\ m <= n /\ m <= CandidateLimit /\ (m < n => m = CandidateLimit)
  BY <1>0, DiscoveryConstants
<1>. HIDE DEF m
<1>10. \A i \in 1..m : i \in 1..n /\ order[i] \in 1..n /\ results[order[i]] \in Results
  <2>1. \A i \in 1..m : i \in 1..n
    BY <1>0, <1>9
  <2>2. \A i \in 1..n : results[i] \in Results
    BY <1>0 DEF n
  <2>. QED
    BY <1>6, <2>1, <2>2
<1>11. ranked \in Seq(Results) /\ Len(ranked) = m /\ DOMAIN ranked = 1..m /\ \A c \in 1..m : ranked[c] = results[order[c]]
  BY <1>3, <1>9, <1>10
<1>12. \A c \in DOMAIN ranked : \E k \in DOMAIN results : ranked[c] = results[k]
  BY <1>0, <1>10, <1>11 DEF all
<1>13. \A c, d \in DOMAIN ranked : c # d => DedupKeys(ranked[c]) \cap DedupKeys(ranked[d]) = {}
  BY <1>0, <1>7, <1>10, <1>11 DEF all, Apart
<1>14. ASSUME NEW k \in DOMAIN results
       PROVE  \/ \E c \in DOMAIN ranked : ranked[c] = results[k]
              \/ /\ Len(ranked) = CandidateLimit
                 /\ \A c \in DOMAIN ranked : Score(ranked[c], plan) >= Score(results[k], plan)
  <2>1. PICK i \in 1..n : order[i] = k
    BY <1>0, <1>8 DEF all
  <2>2. CASE i <= m
    <3>1. i \in 1..m
      BY <2>2
    <3>. QED
      BY <1>11, <2>1, <3>1
  <2>3. CASE i > m
    <3>1. m = CandidateLimit
      BY <1>0, <1>9, <2>3
    <3>2. ASSUME NEW c \in 1..m PROVE Score(results[order[c]], plan) >= Score(results[k], plan)
      <4>1. c < i /\ c \in 1..n
        BY <1>9, <1>10, <2>3
      <4>2. RankedBefore(results[order[c]], results[k], plan)
        BY <1>0, <1>5, <2>1, <4>1
      <4>3. results[order[c]] \in Results /\ results[k] \in Results
        BY <1>0, <1>10 DEF all
      <4>4. Score(results[order[c]], plan) \in Int /\ Score(results[k], plan) \in Int
        BY <4>3, ScoreIsANumber
      <4>. QED
        BY <4>2, <4>4 DEF RankedBefore
    <3>. QED
      BY <1>11, <3>1, <3>2
  <2>. QED
    BY <1>9, <2>2, <2>3
<1>. QED
  BY <1>11, <1>12, <1>13, <1>14 DEF RanksTheBest, ranked

-----------------------------------------------------------------------------
(* The shortlist *)

ShortlistFits(recommended, candidates) ==
  /\ recommended = <<>> <=> candidates = <<>>
  /\ \A i \in DOMAIN recommended : recommended[i] \in DOMAIN candidates
  /\ \A i, j \in DOMAIN recommended : recommended[i] = recommended[j] => i = j

LEMMA NormalizedFit ==
  ASSUME NEW ids \in Seq(Ranks \cup {UnknownId}), NormalizeRecommendations(ids) # <<>>,
         discovery.candidates \in Seq(Results)
  PROVE  /\ NormalizeRecommendations(ids) \in Seq(Nat)
         /\ ShortlistFits(NormalizeRecommendations(ids), discovery.candidates)
<1>. DEFINE R == Ranks
            takes == {x \in Seq(R) \X R : x[2] \notin Range(x[1])}
            T == {u \in Seq(R) : IsInjective(u)}
            valid == NormalizeRecommendations(ids)
<1>0. R = 1..Len(discovery.candidates) /\ Len(discovery.candidates) \in Nat /\ R = DOMAIN discovery.candidates
  BY DEF Ranks
<1>1. valid = Gathered(ids, takes)
  BY DEF NormalizeRecommendations
<1>2. \A u, x : <<u, x>> \in takes <=> u \in Seq(R) /\ x \in R /\ x \notin Range(u)
  OBVIOUS
<1>. DEFINE S == R \cup {UnknownId}
<1>6. ids \in Seq(S)
  OBVIOUS
<1>. HIDE DEF takes, R, S, valid
<1>3. <<>> \in T
  <2>1. <<>> \in Seq(R) /\ DOMAIN <<>> = {}
    OBVIOUS
  <2>. QED
    BY <2>1 DEF IsInjective
<1>4. ASSUME NEW u \in T, NEW x \in S, <<u, x>> \in takes PROVE Append(u, x) \in T
  <2>1. u \in Seq(R) /\ IsInjective(u) /\ x \in R /\ x \notin Range(u)
    BY <1>2, <1>4
  <2>. HIDE DEF T
  <2>2. Append(u, x) \in Seq(R) /\ IsInjective(Append(u, x))
    BY <2>1, RangeOfAppend
  <2>. QED
    BY <2>2 DEF T
<1>. HIDE DEF T
<1>5. valid \in T
  BY <1>1, <1>3, <1>4, <1>6, GatheredKeeps
<1>7. valid \in Seq(R) /\ IsInjective(valid)
  BY <1>5 DEF T
<1>8. valid # <<>>
  BY DEF valid
<1>9. discovery.candidates # <<>>
  <2>1. 1 \in DOMAIN valid
    BY <1>7, <1>8
  <2>2. valid[1] \in R
    BY <1>7, <2>1
  <2>3. Len(discovery.candidates) # 0
    BY <1>0, <2>2
  <2>. QED
    BY <2>3
<1>10. \A i \in DOMAIN valid : valid[i] \in R
  BY <1>7
<1>11. R \subseteq Nat
  BY <1>0
<1>12. valid \in Seq(Nat)
  <2>1. /\ Len(valid) \in Nat /\ valid = [i \in 1..Len(valid) |-> valid[i]]
        /\ \A i \in 1..Len(valid) : valid[i] \in Nat
    BY <1>7, <1>11
  <2>2. [i \in 1..Len(valid) |-> valid[i]] \in Seq(Nat)
    BY <2>1
  <2>. QED
    BY <2>1, <2>2
<1>. QED
  BY <1>0, <1>7, <1>8, <1>9, <1>10, <1>12 DEF ShortlistFits, IsInjective, valid

LEMMA FallbackFits ==
  ASSUME discovery.candidates \in Seq(Results)
  PROVE  FallbackRecommended \in Seq(Nat) /\ ShortlistFits(FallbackRecommended, discovery.candidates)
<1>. DEFINE n == Len(discovery.candidates)
            m == IF n < ShortlistLimit THEN n ELSE ShortlistLimit
<1>1. FallbackRecommended = [i \in 1..m |-> i]
  BY DEF FallbackRecommended
<1>2. n \in Nat /\ DOMAIN discovery.candidates = 1..n /\ (discovery.candidates = <<>> <=> n = 0)
  OBVIOUS
<1>. HIDE DEF n
<1>3. m \in Nat /\ m <= n /\ (m = 0 <=> n = 0)
  BY <1>2, DiscoveryConstants
<1>. HIDE DEF m
<1>. DEFINE short == [i \in 1..m |-> i]
<1>4. short \in Seq(Nat) /\ Len(short) = m /\ DOMAIN short = 1..m /\ \A i \in 1..m : short[i] = i
  BY <1>3
<1>. HIDE DEF short
<1>5. short = <<>> <=> m = 0
  BY <1>4
<1>6. \A i \in 1..m : i \in 1..n
  BY <1>2, <1>3
<1>. QED
  BY <1>1, <1>2, <1>3, <1>4, <1>5, <1>6 DEF ShortlistFits, short

-----------------------------------------------------------------------------

Discoveries ==
  [node : {"research_strategist", "searcher", "selection_advisor", "finalize_discovery", "end"},
   plan : Seq(Queries), asked : Nat, raw : Seq(Results), warnings : Nat, candidates : Seq(Results),
   recommended : Seq(Nat), advised : BOOLEAN,
   runs : SUBSET ({"research_strategist", "selection_advisor"} \X {"completed", "fallback", "timeout"})]

(* What is proposed is the ranking of what was found, with one id each.      *)
DiscoveredWell(d) ==
  /\ d \in Discoveries
  /\ d.node # "research_strategist" => d.plan # <<>> /\ PlanIsFit(d.plan)
  /\ \A i \in DOMAIN d.raw : Len(d.raw[i].id) = 1
  /\ IF d.node \in {"research_strategist", "searcher"}
     THEN d.candidates = <<>>
     ELSE d.candidates = Rank(Dedup(d.raw), d.plan)
  /\ d.node \in {"research_strategist", "searcher", "selection_advisor"} => ~d.advised
  /\ d.advised => ShortlistFits(d.recommended, d.candidates)

DiscoveryInv == DiscoveredWell(discovery)

LEMMA DiscoveryInitHolds == DiscoveryInit => DiscoveryInv
<1>. SUFFICES ASSUME discovery = NewDiscovery PROVE DiscoveryInv
  BY DEF DiscoveryInit
<1>1. <<>> \in Seq(Queries) /\ <<>> \in Seq(Results) /\ <<>> \in Seq(Nat) /\ DOMAIN <<>> = {}
  OBVIOUS
<1>2. discovery \in Discoveries
  BY <1>1 DEF NewDiscovery, NoPlan, Discoveries
<1>. QED
  BY <1>1, <1>2 DEF DiscoveryInv, DiscoveredWell, NewDiscovery, NoPlan

LEMMA FallbackPlanFits == FallbackPlan # <<>> /\ PlanIsFit(FallbackPlan)
<1>1. [words |-> Topic, spelling |-> 0, limit |-> DefaultResults] \in Queries
  BY DiscoveryConstants DEF Queries
<1>2. FallbackPlan \in Seq(Queries) /\ Len(FallbackPlan) = 1 /\ DOMAIN FallbackPlan = {1} /\ FallbackPlan # <<>>
  BY <1>1 DEF FallbackPlan
<1>. QED
  BY <1>2, DiscoveryConstants DEF PlanIsFit

(* A plan, whoever made it, is what is searched for. *)
LEMMA PlanStartsSearch ==
  ASSUME DiscoveryInv, discovery.node = "research_strategist", NEW plan, plan # <<>>, PlanIsFit(plan),
         NEW status \in {"completed", "fallback", "timeout"},
         discovery' = [discovery EXCEPT !.node = "searcher", !.plan = plan,
                         !.runs = @ \cup {<<"research_strategist", status>>}]
  PROVE  DiscoveryInv'
<1>0. discovery \in Discoveries
  BY DEF DiscoveryInv, DiscoveredWell
<1>. DEFINE d == discovery'
            more == discovery.runs \cup {<<"research_strategist", status>>}
<1>1. more \in SUBSET ({"research_strategist", "selection_advisor"} \X {"completed", "fallback", "timeout"})
  BY <1>0 DEF Discoveries
<1>2. d = [discovery EXCEPT !.node = "searcher", !.plan = plan, !.runs = more] /\ plan \in Seq(Queries)
  BY DEF PlanIsFit
<1>. HIDE DEF more
<1>3. d \in Discoveries
  BY <1>0, <1>1, <1>2 DEF Discoveries
<1>4. /\ d.node = "searcher" /\ d.plan = plan /\ d.raw = discovery.raw /\ d.candidates = discovery.candidates
      /\ d.recommended = discovery.recommended /\ d.advised = discovery.advised
  BY <1>0, <1>2 DEF Discoveries
<1>. HIDE DEF d
<1>5. DiscoveredWell(d)
  BY <1>3, <1>4 DEF DiscoveryInv, DiscoveredWell
<1>. QED
  BY <1>5 DEF DiscoveryInv, d

(* The advice, whoever gave it, is a shortlist of the candidates. *)
LEMMA AdviceKeepsInv ==
  ASSUME DiscoveryInv, discovery.node = "selection_advisor", NEW ids \in Seq(Nat),
         ShortlistFits(ids, discovery.candidates),
         NEW status \in {"completed", "fallback", "timeout"}, Advised(ids, status)
  PROVE  DiscoveryInv'
<1>0. discovery \in Discoveries
  BY DEF DiscoveryInv, DiscoveredWell
<1>. DEFINE d == discovery'
            more == discovery.runs \cup {<<"selection_advisor", status>>}
<1>1. more \in SUBSET ({"research_strategist", "selection_advisor"} \X {"completed", "fallback", "timeout"})
  BY <1>0 DEF Discoveries
<1>2. d = [discovery EXCEPT !.node = "finalize_discovery", !.recommended = ids, !.advised = TRUE, !.runs = more]
  BY DEF Advised
<1>. HIDE DEF more
<1>3. d \in Discoveries
  BY <1>0, <1>1, <1>2 DEF Discoveries
<1>4. /\ d.node = "finalize_discovery" /\ d.plan = discovery.plan /\ d.raw = discovery.raw
      /\ d.candidates = discovery.candidates /\ d.recommended = ids /\ d.advised = TRUE
  BY <1>0, <1>2 DEF Discoveries
<1>. HIDE DEF d
<1>5. DiscoveredWell(d)
  BY <1>3, <1>4 DEF DiscoveryInv, DiscoveredWell
<1>. QED
  BY <1>5 DEF DiscoveryInv, d

LEMMA RankIsSeq ==
  ASSUME NEW raw \in Seq(Results), NEW plan
  PROVE  /\ KeepsEachOnce(Dedup(raw), raw) /\ Apart(Dedup(raw))
         /\ RanksTheBest(Rank(Dedup(raw), plan), Dedup(raw), plan)
<1>1. KeepsEachOnce(Dedup(raw), raw)
  BY DedupKeepsEachOnce
<1>2. Apart(Dedup(raw))
  BY <1>1 DEF KeepsEachOnce, Apart
<1>. QED
  BY <1>1, <1>2, RankRanksTheBest

LEMMA DiscoveryNextPreserves == DiscoveryInv /\ [DiscoveryNext]_discovery => DiscoveryInv'
<1>. SUFFICES ASSUME DiscoveryInv, [DiscoveryNext]_discovery PROVE DiscoveryInv'
  OBVIOUS
<1>. DEFINE d == discovery'
<1>0. discovery \in Discoveries /\ discovery.raw \in Seq(Results) /\ discovery.candidates \in Seq(Results)
  BY DEF DiscoveryInv, DiscoveredWell, Discoveries
<1>1. CASE UNCHANGED discovery
  BY <1>1 DEF DiscoveryInv
<1>2. CASE Strategize
  <2>1. PICK items \in BoundedSeq(QueryItems, PlanLength) :
          /\ NormalizePlan(items) # NoPlan
          /\ discovery' = [discovery EXCEPT !.node = "searcher", !.plan = NormalizePlan(items),
                             !.runs = @ \cup {<<"research_strategist", "completed">>}]
    BY <1>2 DEF Strategize
  <2>2. PlanIsFit(NormalizePlan(items)) /\ NormalizePlan(items) # <<>>
    BY <2>1, BoundedSeqIsSeq, NormalizePlanIsFit DEF NoPlan
  <2>3. discovery.node = "research_strategist"
    BY <1>2 DEF Strategize, DiscoveryAt
  <2>. QED
    BY <2>1, <2>2, <2>3, PlanStartsSearch
<1>3. CASE StrategizeFallsBack
  <2>1. PICK reason \in {"fallback", "timeout"} :
          discovery' = [discovery EXCEPT !.node = "searcher", !.plan = FallbackPlan,
                          !.runs = @ \cup {<<"research_strategist", reason>>}]
    BY <1>3 DEF StrategizeFallsBack
  <2>2. discovery.node = "research_strategist"
    BY <1>3 DEF StrategizeFallsBack, DiscoveryAt
  <2>. QED
    BY <2>1, <2>2, FallbackPlanFits, PlanStartsSearch
<1>4. CASE SearchAnswers
  <2>1. PICK n \in 0..NextQuery.limit : \E feed \in [1..n -> Entries] :
          discovery' = [discovery EXCEPT !.asked = @ + 1, !.raw = @ \o ParseFeed(feed)]
    BY <1>4 DEF SearchAnswers
  <2>2. PICK feed \in [1..n -> Entries] :
          discovery' = [discovery EXCEPT !.asked = @ + 1, !.raw = @ \o ParseFeed(feed)]
    BY <2>1
  <2>. DEFINE found == ParseFeed(feed)
              raw == discovery.raw \o found
              asked == discovery.asked + 1
  <2>3. found \in Seq(Results) /\ \A i \in DOMAIN found : Len(found[i].id) = 1
    <3>1. feed \in Seq(Entries)
      OBVIOUS
    <3>. QED
      BY <3>1, ParseFeedIs
  <2>4. d = [discovery EXCEPT !.asked = asked, !.raw = raw]
    BY <2>2
  <2>. HIDE DEF found
  <2>5. raw \in Seq(Results) /\ \A i \in DOMAIN raw : Len(raw[i].id) = 1
    <3>. DEFINE before == discovery.raw
    <3>1. before \in Seq(Results) /\ \A i \in DOMAIN before : Len(before[i].id) = 1
      BY <1>0 DEF DiscoveryInv, DiscoveredWell
    <3>. HIDE DEF before
    <3>. DEFINE both == before \o found
    <3>2. /\ both \in Seq(Results) /\ DOMAIN both = 1..(Len(before) + Len(found))
          /\ Len(before) \in Nat /\ Len(found) \in Nat /\ DOMAIN before = 1..Len(before) /\ DOMAIN found = 1..Len(found)
          /\ \A i \in 1..(Len(before) + Len(found)) :
               both[i] = IF i <= Len(before) THEN before[i] ELSE found[i - Len(before)]
      BY <2>3, <3>1
    <3>. HIDE DEF both
    <3>4. \A i \in 1..(Len(before) + Len(found)) : i > Len(before) => i - Len(before) \in 1..Len(found)
      BY <3>2
    <3>5. \A i \in DOMAIN both : Len(both[i].id) = 1
      <4>1. ASSUME NEW i \in DOMAIN both PROVE Len(both[i].id) = 1
        <5>1. i \in 1..(Len(before) + Len(found)) /\ (i <= Len(before) \/ i > Len(before))
          BY <3>2
        <5>2. CASE i <= Len(before)
          <6>1. i \in DOMAIN before /\ both[i] = before[i]
            BY <3>2, <5>1, <5>2
          <6>. QED
            BY <3>1, <6>1
        <5>3. CASE i > Len(before)
          <6>1. i - Len(before) \in DOMAIN found /\ both[i] = found[i - Len(before)]
            BY <3>2, <3>4, <5>1, <5>3
          <6>. QED
            BY <2>3, <6>1
        <5>. QED
          BY <5>1, <5>2, <5>3
      <4>. QED
        BY <4>1
    <3>. QED
      BY <3>2, <3>5 DEF both, before
  <2>6. asked \in Nat
    BY <1>0 DEF Discoveries
  <2>7. discovery.node = "searcher"
    BY <1>4 DEF SearchAnswers, DiscoveryAt
  <2>. HIDE DEF raw, asked
  <2>8. d \in Discoveries
    BY <1>0, <2>4, <2>5, <2>6 DEF Discoveries
  <2>9. /\ d.node = "searcher" /\ d.plan = discovery.plan /\ d.raw = raw
        /\ d.candidates = discovery.candidates /\ d.recommended = discovery.recommended
        /\ d.advised = discovery.advised
    BY <1>0, <2>4, <2>7 DEF Discoveries
  <2>. HIDE DEF d
  <2>10. DiscoveredWell(d)
    BY <2>5, <2>7, <2>8, <2>9 DEF DiscoveryInv, DiscoveredWell
  <2>. QED
    BY <2>10 DEF DiscoveryInv, d
<1>5. CASE SearchFails
  <2>. DEFINE asked == discovery.asked + 1
              warnings == discovery.warnings + 1
  <2>1. d = [discovery EXCEPT !.asked = asked, !.warnings = warnings] /\ discovery.node = "searcher"
    BY <1>5 DEF SearchFails, DiscoveryAt
  <2>2. asked \in Nat /\ warnings \in Nat
    BY <1>0 DEF Discoveries
  <2>. HIDE DEF asked, warnings
  <2>3. d \in Discoveries
    BY <1>0, <2>1, <2>2 DEF Discoveries
  <2>4. /\ d.node = "searcher" /\ d.plan = discovery.plan /\ d.raw = discovery.raw
        /\ d.candidates = discovery.candidates /\ d.recommended = discovery.recommended
        /\ d.advised = discovery.advised
    BY <1>0, <2>1 DEF Discoveries
  <2>. HIDE DEF d
  <2>5. DiscoveredWell(d)
    BY <2>1, <2>3, <2>4 DEF DiscoveryInv, DiscoveredWell
  <2>. QED
    BY <2>5 DEF DiscoveryInv, d
<1>6. CASE RankResults
  <2>. DEFINE candidates == Rank(Dedup(discovery.raw), discovery.plan)
  <2>1. d = [discovery EXCEPT !.node = "selection_advisor", !.candidates = candidates] /\ discovery.node = "searcher"
    BY <1>6 DEF RankResults, DiscoveryAt
  <2>2. candidates \in Seq(Results)
    BY <1>0, RankIsSeq DEF RanksTheBest
  <2>. HIDE DEF candidates
  <2>3. d \in Discoveries
    BY <1>0, <2>1, <2>2 DEF Discoveries
  <2>4. /\ d.node = "selection_advisor" /\ d.plan = discovery.plan /\ d.raw = discovery.raw
        /\ d.candidates = candidates /\ d.recommended = discovery.recommended
        /\ d.advised = discovery.advised
    BY <1>0, <2>1 DEF Discoveries
  <2>. HIDE DEF d
  <2>5. DiscoveredWell(d)
    BY <2>1, <2>3, <2>4 DEF DiscoveryInv, DiscoveredWell, candidates
  <2>. QED
    BY <2>5 DEF DiscoveryInv, d
<1>7. CASE Advise
  <2>1. discovery.node = "selection_advisor"
    BY <1>7 DEF Advise, DiscoveryAt
  <2>2. PICK ids \in BoundedSeq(Ranks \cup {UnknownId}, 2) :
          Advised(IF NormalizeRecommendations(ids) = <<>> THEN FallbackRecommended ELSE NormalizeRecommendations(ids),
                  "completed")
    BY <1>7 DEF Advise
  <2>3. ids \in Seq(Ranks \cup {UnknownId})
    BY BoundedSeqIsSeq
  <2>4. CASE NormalizeRecommendations(ids) = <<>>
    <3>1. Advised(FallbackRecommended, "completed")
      BY <2>2, <2>4
    <3>. QED
      BY <1>0, <2>1, <3>1, FallbackFits, AdviceKeepsInv
  <2>5. CASE NormalizeRecommendations(ids) # <<>>
    <3>1. Advised(NormalizeRecommendations(ids), "completed")
      BY <2>2, <2>5
    <3>. QED
      BY <1>0, <2>1, <2>3, <2>5, <3>1, NormalizedFit, AdviceKeepsInv
  <2>. QED
    BY <2>4, <2>5
<1>8. CASE AdviseFallsBack
  <2>1. PICK reason \in {"fallback", "timeout"} : Advised(FallbackRecommended, reason)
    BY <1>8 DEF AdviseFallsBack
  <2>2. discovery.node = "selection_advisor"
    BY <1>8 DEF AdviseFallsBack, DiscoveryAt
  <2>. QED
    BY <1>0, <2>1, <2>2, FallbackFits, AdviceKeepsInv
<1>9. CASE FinalizeDiscovery
  <2>1. d = [discovery EXCEPT !.node = "end"] /\ discovery.node = "finalize_discovery"
    BY <1>9 DEF FinalizeDiscovery, DiscoveryAt
  <2>2. d \in Discoveries
    BY <1>0, <2>1 DEF Discoveries
  <2>3. /\ d.node = "end" /\ d.plan = discovery.plan /\ d.raw = discovery.raw
        /\ d.candidates = discovery.candidates /\ d.recommended = discovery.recommended
        /\ d.advised = discovery.advised
    BY <1>0, <2>1 DEF Discoveries
  <2>. HIDE DEF d
  <2>4. DiscoveredWell(d)
    BY <2>1, <2>2, <2>3 DEF DiscoveryInv, DiscoveredWell
  <2>. QED
    BY <2>4 DEF DiscoveryInv, d
<1>. QED
  BY <1>1, <1>2, <1>3, <1>4, <1>5, <1>6, <1>7, <1>8, <1>9 DEF DiscoveryNext

(* Results that share no key have neither the id nor the title in common.    *)
LEMMA ApartAreDifferent ==
  ASSUME NEW r \in Results, NEW s \in Results, Len(r.id) = 1, Len(s.id) = 1,
         DedupKeys(r) \cap DedupKeys(s) = {}
  PROVE  r.id[1] # s.id[1] /\ r.title # s.title
<1>1. r.id # s.id /\ r.title # s.title
  BY DEF DedupKeys
<1>2. r.id \in Seq(Int) /\ s.id \in Seq(Int)
  BY DEF Results
<1>3. r.id = <<r.id[1]>> /\ s.id = <<s.id[1]>>
  BY <1>2
<1>. QED
  BY <1>1, <1>3

LEMMA DiscoveryInvIsSound == DiscoveryInv => DiscoveryIsSound
<1>. SUFFICES ASSUME DiscoveryInv PROVE DiscoveryIsSound
  OBVIOUS
<1>. DEFINE raw == discovery.raw
            plan == discovery.plan
            kept == Dedup(raw)
            ranked == discovery.candidates
<1>0. /\ discovery \in Discoveries /\ raw \in Seq(Results) /\ plan \in Seq(Queries)
      /\ \A i \in DOMAIN raw : Len(raw[i].id) = 1
  BY DEF DiscoveryInv, DiscoveredWell, Discoveries
<1>1. PlanIsSearchable
  <2>. SUFFICES ASSUME discovery.node # "research_strategist"
       PROVE  /\ Len(plan) \in 1..MaxQueries
              /\ \A i, j \in DOMAIN plan : plan[i].words = plan[j].words => i = j
              /\ \A i \in DOMAIN plan : plan[i].limit \in 1..MaxResults
    BY DEF PlanIsSearchable, Proposed
  <2>1. plan # <<>> /\ PlanIsFit(plan)
    BY DEF DiscoveryInv, DiscoveredWell
  <2>. HIDE DEF plan
  <2>2. Len(plan) \in Nat /\ Len(plan) # 0
    BY <1>0, <2>1
  <2>3. \A i \in DOMAIN plan : plan[i] \in Queries
    BY <1>0
  <2>4. \A q \in Queries : q.limit \in 1..MaxResults
    BY DEF Queries
  <2>. QED
    BY <2>1, <2>2, <2>3, <2>4, DiscoveryConstants DEF PlanIsFit
<1>2. Proposed => ranked = Rank(kept, plan)
  BY DEF Proposed, DiscoveryInv, DiscoveredWell
<1>3. ~Proposed => ranked = <<>>
  BY <1>0 DEF Proposed, DiscoveryInv, DiscoveredWell, Discoveries
<1>4. KeepsEachOnce(kept, raw) /\ Apart(kept) /\ RanksTheBest(Rank(kept, plan), kept, plan)
  BY <1>0, RankIsSeq
<1>. HIDE DEF kept, plan
<1>5. NoPaperTwice
  <2>. SUFFICES ASSUME NEW i \in DOMAIN ranked, NEW j \in DOMAIN ranked, i # j
       PROVE  ranked[i].id[1] # ranked[j].id[1] /\ ranked[i].title # ranked[j].title
    BY DEF NoPaperTwice, Ranks
  <2>1. Proposed
    BY <1>3
  <2>2. ranked = Rank(kept, plan) /\ RanksTheBest(ranked, kept, plan)
    BY <1>2, <1>4, <2>1
  <2>. HIDE DEF ranked, raw
  <2>3. ranked[i] \in Results /\ ranked[j] \in Results /\ DedupKeys(ranked[i]) \cap DedupKeys(ranked[j]) = {}
    BY <2>2 DEF RanksTheBest
  <2>4. \A c \in DOMAIN ranked : Len(ranked[c].id) = 1
    <3>1. \A c \in DOMAIN ranked : \E k \in DOMAIN kept : ranked[c] = kept[k]
      BY <2>2 DEF RanksTheBest
    <3>2. \A k \in DOMAIN kept : \E x \in DOMAIN raw : kept[k] = raw[x]
      BY <1>4 DEF KeepsEachOnce
    <3>. QED
      BY <1>0, <3>1, <3>2
  <2>. QED
    BY <2>3, <2>4, ApartAreDifferent
<1>6. NothingBetterIsLost
  <2>. SUFFICES ASSUME Proposed, NEW i \in DOMAIN raw
       PROVE \/ \E c \in DOMAIN ranked : DedupKeys(raw[i]) \cap DedupKeys(ranked[c]) # {}
             \/ /\ Len(ranked) = CandidateLimit
                /\ \E j \in DOMAIN raw :
                     /\ DedupKeys(raw[i]) \cap DedupKeys(raw[j]) # {}
                     /\ \A c \in DOMAIN ranked : Score(ranked[c], plan) >= Score(raw[j], plan)
    BY DEF NothingBetterIsLost, Ranks, plan
  <2>1. RanksTheBest(ranked, kept, plan)
    BY <1>2, <1>4
  <2>. HIDE DEF ranked, raw
  <2>2. PICK k \in DOMAIN kept : DedupKeys(raw[i]) \cap DedupKeys(kept[k]) # {}
    BY <1>4 DEF KeepsEachOnce
  <2>3. PICK j \in DOMAIN raw : kept[k] = raw[j]
    BY <1>4 DEF KeepsEachOnce
  <2>4. \/ \E c \in DOMAIN ranked : ranked[c] = kept[k]
        \/ /\ Len(ranked) = CandidateLimit
           /\ \A c \in DOMAIN ranked : Score(ranked[c], plan) >= Score(kept[k], plan)
    BY <2>1 DEF RanksTheBest
  <2>. QED
    BY <2>2, <2>3, <2>4
<1>7. ShortlistIsReal
  BY DEF ShortlistIsReal, Ranks, DiscoveryInv, DiscoveredWell, ShortlistFits
<1>. QED
  BY <1>1, <1>5, <1>6, <1>7 DEF DiscoveryIsSound

(* graph_discovery.py: whatever the LLM asks for and arXiv answers, the plan *)
(* can be searched, no paper is proposed twice, none is left out for a worse *)
(* one, and what is recommended is on the list.                              *)
THEOREM DiscoveriesAreSound == DiscoverySpec => []DiscoveryIsSound
BY DiscoveryInitHolds, DiscoveryNextPreserves, DiscoveryInvIsSound, PTL DEF DiscoverySpec

-----------------------------------------------------------------------------
(* Comparison *)

ComparisonSpec == ComparisonInit /\ [][ComparisonNext]_comparison
LEMMA AtMostOne ==
  ASSUME NEW S, IsFiniteSet(S), Cardinality(S) <= 1, NEW x \in S, NEW y \in S
  PROVE  x = y
<1>1. Cardinality(S) \in Nat
  BY FS_CardinalityType
<1>2. Cardinality(S) # 0
  BY FS_EmptySet
<1>3. Cardinality(S) = 1
  BY <1>1, <1>2
<1>4. PICK z : S = {z}
  BY <1>3, FS_Singleton
<1>. QED
  BY <1>4

LEMMA ImageIsFinite ==
  ASSUME NEW S, IsFiniteSet(S), NEW f
  PROVE  IsFiniteSet({f[x] : x \in S}) /\ Cardinality({f[x] : x \in S}) <= Cardinality(S)
<1>. DEFINE T == {f[x] : x \in S}
            g == [x \in S |-> f[x]]
<1>1. g \in Surjection(S, T)
  BY DEF Surjection
<1>. HIDE DEF g, T
<1>2. IsFiniteSet(T) /\ Cardinality(T) <= Cardinality(S)
  BY <1>1, FS_Surjection
<1>. QED
  BY <1>2 DEF T

(* An element of a set that looks the same from both sides.                  *)
LEMMA SameSize ==
  ASSUME NEW S, NEW T, IsFiniteSet(S), NEW f \in [S -> T], NEW g \in [T -> S],
         \A x \in S : g[f[x]] = x, \A y \in T : f[g[y]] = y
  PROVE  Cardinality(T) = Cardinality(S)
<1>1. f \in Bijection(S, T)
  <2>1. f \in Injection(S, T)
    BY DEF Injection, IsInjective
  <2>2. f \in Surjection(S, T)
    BY DEF Surjection
  <2>. QED
    BY <2>1, <2>2 DEF Bijection
<1>2. ExistsBijection(S, T)
  BY <1>1 DEF ExistsBijection
<1>. QED
  BY <1>2, FS_Bijection

(* What a paper says of a row *)

VariantTakes(key) == {x \in Seq(Benchmarks) \X Benchmarks : RowKey(x[2]) = key}

IsOnly(i, s, key) == i \in DOMAIN s /\ RowKey(s[i]) = key /\ \A j \in DOMAIN s : RowKey(s[j]) = key => j = i

(* There is no variant when no result has the key, and one when a single     *)
(* result has it.                                                            *)
SaysWhichMatch(g, s, key) ==
  /\ g \in Seq(Benchmarks)
  /\ g = <<>> <=> \A j \in DOMAIN s : RowKey(s[j]) # key
  /\ Len(g) = 1 <=> \E i \in DOMAIN s : IsOnly(i, s, key)
  /\ \A i \in DOMAIN s : IsOnly(i, s, key) => g[1] = s[i]

LEMMA VariantsSayWhichMatch ==
  ASSUME NEW s \in Seq(Benchmarks), NEW key
  PROVE  SaysWhichMatch(Gathered(s, VariantTakes(key)), s, key)
<1>. DEFINE takes == VariantTakes(key)
            T == {t \in Seq(Benchmarks) : SaysWhichMatch(Gathered(t, takes), t, key)}
<1>1. <<>> \in T
  <2>1. <<>> \in Seq(Benchmarks) /\ DOMAIN <<>> = {} /\ Len(<<>>) = 0
    OBVIOUS
  <2>2. Gathered(<<>>, takes) = <<>>
    BY GatheredOfNothing
  <2>3. SaysWhichMatch(<<>>, <<>>, key)
    BY <2>1 DEF SaysWhichMatch
  <2>. QED
    BY <2>1, <2>2, <2>3
<1>2. ASSUME NEW t \in Seq(Benchmarks), NEW x \in Benchmarks, t \in T PROVE Append(t, x) \in T
  <2>. DEFINE more == Append(t, x)
              g == Gathered(t, takes)
              N == Len(t)
  <2>1. IsLonger(more, t, x, Benchmarks) /\ more \in Seq(Benchmarks)
    BY DEF IsLonger
  <2>2. SaysWhichMatch(g, t, key) /\ g \in Seq(Benchmarks)
    BY <1>2 DEF SaysWhichMatch
  <2>3. /\ DOMAIN more = 1..(N + 1) /\ DOMAIN t = 1..N /\ N \in Nat /\ more[N + 1] = x
        /\ \A k \in 1..N : more[k] = t[k]
    OBVIOUS
  <2>. HIDE DEF T, more, g, N
  <2>4. IsRound(Gathered(more, takes), g, x, takes)
    BY <2>1, GatheredOfAppend DEF g
  <2>5. <<g, x>> \in takes <=> RowKey(x) = key
    BY <2>2 DEF VariantTakes
  <2>. HIDE DEF takes
  <2>6. N + 1 \in 1..(N + 1) /\ \A k \in 1..(N + 1) : k \in 1..N \/ k = N + 1
    BY <2>3
  <2>7. \A k \in 1..N : k \in 1..(N + 1) /\ k # N + 1
    BY <2>3
  <2>8. CASE RowKey(x) = key
    <3>1. Gathered(more, takes) = Append(g, x)
      BY <2>4, <2>5, <2>8 DEF IsRound
    <3>2. /\ Append(g, x) \in Seq(Benchmarks) /\ Append(g, x) # <<>> /\ Len(Append(g, x)) = Len(g) + 1
          /\ Len(g) \in Nat /\ (g = <<>> <=> Len(g) = 0) /\ (g = <<>> => Append(g, x)[1] = x)
      <4>1. g \in Seq(Benchmarks)
        BY <2>2
      <4>2. Append(g, x) \in Seq(Benchmarks) /\ Len(Append(g, x)) = Len(g) + 1 /\ Len(g) \in Nat
        BY <4>1
      <4>3. Append(g, x)[Len(g) + 1] = x
        BY <4>1
      <4>4. (g = <<>> <=> Len(g) = 0) /\ Len(<<>>) = 0
        BY <4>1
      <4>. DEFINE h == Append(g, x)
      <4>5. h \in Seq(Benchmarks) /\ Len(h) = Len(g) + 1 /\ Len(g) \in Nat /\ h[Len(g) + 1] = x
        BY <4>2, <4>3
      <4>. HIDE DEF h
      <4>6. h # <<>> /\ (g = <<>> => h[1] = x)
        BY <4>4, <4>5
      <4>. QED
        BY <4>4, <4>5, <4>6 DEF h
    <3>3. \A i \in DOMAIN more : IsOnly(i, more, key) <=> i = N + 1 /\ g = <<>>
      <4>1. g = <<>> <=> \A k \in 1..N : RowKey(more[k]) # key
        BY <2>2, <2>3 DEF SaysWhichMatch
      <4>2. RowKey(more[N + 1]) = key /\ N + 1 \in DOMAIN more
        BY <2>3, <2>6, <2>8
      <4>3. \A i \in DOMAIN more : IsOnly(i, more, key) => i = N + 1
        BY <4>2 DEF IsOnly
      <4>4. IsOnly(N + 1, more, key) => g = <<>>
        BY <2>3, <2>7, <4>1 DEF IsOnly
      <4>5. g = <<>> => IsOnly(N + 1, more, key)
        BY <2>3, <2>6, <4>1, <4>2 DEF IsOnly
      <4>. QED
        BY <4>2, <4>3, <4>4, <4>5
    <3>4. Len(Append(g, x)) = 1 <=> \E i \in DOMAIN more : IsOnly(i, more, key)
      <4>1. Len(Append(g, x)) = 1 <=> g = <<>>
        BY <3>2
      <4>2. N + 1 \in DOMAIN more
        BY <2>3, <2>6
      <4>. QED
        BY <3>3, <4>1, <4>2
    <3>5. SaysWhichMatch(Append(g, x), more, key)
      BY <2>3, <2>6, <2>8, <3>2, <3>3, <3>4 DEF SaysWhichMatch
    <3>. QED
      BY <2>1, <3>1, <3>5 DEF T, more
  <2>9. CASE RowKey(x) # key
    <3>1. Gathered(more, takes) = g
      BY <2>4, <2>5, <2>9 DEF IsRound
    <3>2. \A i \in DOMAIN more : IsOnly(i, more, key) <=> i \in DOMAIN t /\ IsOnly(i, t, key)
      BY <2>3, <2>6, <2>7, <2>9 DEF IsOnly
    <3>3. SaysWhichMatch(g, more, key)
      BY <2>2, <2>3, <2>6, <2>7, <2>9, <3>2 DEF SaysWhichMatch
    <3>. QED
      BY <2>1, <3>1, <3>3 DEF T, more
  <2>. QED
    BY <2>8, <2>9
<1>. HIDE DEF T
<1>3. s \in T
  BY <1>1, <1>2, SequenceInduction
<1>. QED
  BY <1>3 DEF T

LEMMA VariantsAre ==
  ASSUME NEW papers \in Seq(Slots), NEW p \in Indexes(papers), NEW key
  PROVE  /\ Slot(papers, p) \in Slots /\ Slot(papers, p).benchmarks \in Seq(Benchmarks)
         /\ Variants(papers, p, key) \in Seq(Benchmarks)
         /\ SaysWhichMatch(Variants(papers, p, key), Slot(papers, p).benchmarks, key)
<1>1. p + 1 \in DOMAIN papers
  BY DEF Indexes
<1>2. Slot(papers, p) \in Slots /\ Slot(papers, p).benchmarks \in Seq(Benchmarks)
  <2>1. papers[p + 1] \in Slots
    BY <1>1
  <2>2. \A slot \in Slots : slot.benchmarks \in Seq(Benchmarks)
    BY DEF Slots
  <2>. QED
    BY <2>1, <2>2 DEF Slot
<1>3. Variants(papers, p, key) = Gathered(Slot(papers, p).benchmarks, VariantTakes(key))
  BY DEF Variants, VariantTakes
<1>. QED
  BY <1>2, <1>3, VariantsSayWhichMatch DEF SaysWhichMatch

LEMMA RepresentativeOfOne ==
  ASSUME NEW v \in Seq(Benchmarks), Len(v) = 1, NEW metric
  PROVE  Representative(v, metric) = v[1] /\ v[1] \in Benchmarks
<1>. DEFINE best == {i \in DOMAIN v : \A j \in DOMAIN v : ~Better(v[j].value, v[i].value, metric)}
<1>1. DOMAIN v = {1} /\ v[1] \in Benchmarks
  OBVIOUS
<1>2. best = {1}
  BY <1>1 DEF Better, Benchmarks
<1>3. Min({1}) = 1
  BY DEF Min
<1>. QED
  BY <1>1, <1>2, <1>3 DEF Representative

-----------------------------------------------------------------------------
(* The winner of a row *)

LEMMA IndexesAre ==
  ASSUME NEW papers \in Seq(Slots)
  PROVE  /\ Len(papers) \in Nat /\ IsFiniteSet(Indexes(papers)) /\ Indexes(papers) \subseteq Nat
         /\ NoPaper \notin Indexes(papers)
BY FS_Interval DEF Indexes, NoPaper

LEMMA ReportersAre ==
  ASSUME NEW papers \in Seq(Slots), NEW key
  PROVE  /\ Reporters(papers, key) \subseteq Indexes(papers) /\ IsFiniteSet(Reporters(papers, key))
         /\ DOMAIN Shown(papers, key) = Reporters(papers, key)
         /\ \A p \in Reporters(papers, key) :
              Shown(papers, key)[p] = Representative(Variants(papers, p, key), key[2])
<1>1. Reporters(papers, key) \subseteq Indexes(papers)
  BY DEF Reporters
<1>2. IsFiniteSet(Reporters(papers, key))
  BY <1>1, IndexesAre, FS_Subset
<1>. QED
  BY <1>1, <1>2 DEF Shown

(* Row is comparable: everyone shows the only result there is. *)
LEMMA ComparableShows ==
  ASSUME NEW papers \in Seq(Slots), NEW key, Comparable(papers, key), NEW p \in Reporters(papers, key)
  PROVE  /\ Len(Variants(papers, p, key)) = 1
         /\ Shown(papers, key)[p] = Variants(papers, p, key)[1]
         /\ Shown(papers, key)[p] \in Benchmarks
<1>1. Variants(papers, p, key) \in Seq(Benchmarks) /\ Len(Variants(papers, p, key)) = 1
  BY ReportersAre, VariantsAre DEF Comparable
<1>. QED
  BY <1>1, ReportersAre, RepresentativeOfOne

BestOf(papers, key) ==
  {p \in DOMAIN Shown(papers, key) :
     \A q \in DOMAIN Shown(papers, key) :
       ~Better(Shown(papers, key)[q].value, Shown(papers, key)[p].value, key[2])}

IsWinner(papers, key, w) ==
  Comparable(papers, key) /\ Cardinality(Reporters(papers, key)) >= 2 /\ BestOf(papers, key) = {w}

LEMMA RowWinnerIs ==
  ASSUME NEW papers \in Seq(Slots), NEW key
  PROVE  /\ RowWinner(papers, key) \in {NoPaper} \cup Reporters(papers, key)
         /\ \A w : w # NoPaper => (RowWinner(papers, key) = w <=> IsWinner(papers, key, w))
<1>. DEFINE best == BestOf(papers, key)
            conclusive == Comparable(papers, key) /\ Cardinality(Reporters(papers, key)) >= 2 /\ Cardinality(best) = 1
<1>1. best \subseteq Reporters(papers, key) /\ IsFiniteSet(best)
  BY ReportersAre, FS_Subset DEF BestOf
<1>2. RowWinner(papers, key) = IF conclusive THEN CHOOSE p \in best : TRUE ELSE NoPaper
  <2>1. RowWinner(papers, key) =
          IF Comparable(papers, key) /\ Cardinality(DOMAIN Shown(papers, key)) >= 2 /\ Cardinality(best) = 1
          THEN CHOOSE p \in best : TRUE ELSE NoPaper
    BY DEF RowWinner, BestOf
  <2>2. DOMAIN Shown(papers, key) = Reporters(papers, key)
    BY ReportersAre
  <2>. HIDE DEF best
  <2>. QED
    BY <2>1, <2>2
<1>3. Cardinality(best) = 1 <=> \E w : best = {w}
  BY <1>1, FS_Singleton
<1>4. \A w : best = {w} => (CHOOSE p \in best : TRUE) = w
  OBVIOUS
<1>5. NoPaper \notin Reporters(papers, key)
  BY ReportersAre, IndexesAre
<1>. HIDE DEF best
<1>6. CASE conclusive
  <2>1. PICK w : best = {w}
    BY <1>3, <1>6
  <2>. QED
    BY <1>1, <1>2, <1>4, <1>5, <1>6, <2>1 DEF IsWinner, best
<1>7. CASE ~conclusive
  <2>1. RowWinner(papers, key) = NoPaper
    BY <1>2, <1>7
  <2>2. \A w : ~IsWinner(papers, key, w)
    BY <1>3, <1>7 DEF IsWinner, best
  <2>. QED
    BY <2>1, <2>2
<1>. QED
  BY <1>6, <1>7

LEMMA AgreeingValues ==
  ASSUME NEW R, IsFiniteSet(R), NEW f, \A p \in R : f[p] \in Names,
         Cardinality({Canonical[f[p]] : p \in R} \ {NoName}) <= 1
  PROVE  \A p, q \in R : Agree(f[p], f[q])
<1>. DEFINE g == [p \in R |-> Canonical[f[p]]]
            S == {Canonical[f[p]] : p \in R}
<1>1. S = {g[p] : p \in R}
  OBVIOUS
<1>2. IsFiniteSet(S)
  <2>. HIDE DEF g, S
  <2>. QED
    BY <1>1, ImageIsFinite
<1>3. IsFiniteSet(S \ {NoName})
  BY <1>2, FS_Difference
<1>4. ASSUME NEW p \in R, NEW q \in R PROVE Agree(f[p], f[q])
  <2>1. CASE f[p] = NoName \/ f[q] = NoName
    BY <2>1 DEF Agree
  <2>2. CASE f[p] # NoName /\ f[q] # NoName
    <3>1. Canonical[f[p]] # NoName /\ Canonical[f[q]] # NoName
      BY <2>2, ComparisonAssumption DEF ComparisonAssumption
    <3>2. Canonical[f[p]] \in S \ {NoName} /\ Canonical[f[q]] \in S \ {NoName}
      BY <3>1
    <3>. HIDE DEF S
    <3>3. Canonical[f[p]] = Canonical[f[q]]
      BY <1>3, <3>2, AtMostOne DEF S
    <3>. QED
      BY <3>3 DEF Agree
  <2>. QED
    BY <2>1, <2>2
<1>. QED
  BY <1>4

LEMMA RowWinnerIsBest ==
  ASSUME NEW papers \in Seq(Slots), NEW key, NEW w, w # NoPaper, w = RowWinner(papers, key)
  PROVE  LET shown == Shown(papers, key) IN
         /\ w \in DOMAIN shown /\ Cardinality(DOMAIN shown) >= 2
         /\ \A p \in DOMAIN shown :
              /\ p # w => Better(shown[w].value, shown[p].value, key[2])
              /\ Len(Variants(papers, p, key)) = 1
              /\ \A q \in DOMAIN shown : /\ Agree(shown[p].unit, shown[q].unit)
                                         /\ Agree(shown[p].condition, shown[q].condition)
<1>. DEFINE shown == Shown(papers, key)
            R == Reporters(papers, key)
<1>1. IsWinner(papers, key, w)
  BY RowWinnerIs
<1>2. Comparable(papers, key) /\ Cardinality(R) >= 2 /\ BestOf(papers, key) = {w}
  BY <1>1 DEF IsWinner
<1>3. DOMAIN shown = R /\ w \in R
  BY <1>2, ReportersAre DEF BestOf
<1>4. \A p \in R : shown[p] \in Benchmarks /\ Len(Variants(papers, p, key)) = 1
  BY <1>2, ComparableShows
<1>5. ASSUME NEW p \in R, p # w PROVE Better(shown[w].value, shown[p].value, key[2])
  <2>1. \A q \in R : shown[q].value \in Int
    BY <1>4 DEF Benchmarks
  <2>2. PICK q \in R : Better(shown[q].value, shown[p].value, key[2])
    BY <1>2, <1>3, <1>5 DEF BestOf
  <2>3. ~Better(shown[q].value, shown[w].value, key[2])
    BY <1>2, <1>3 DEF BestOf
  <2>. QED
    BY <1>3, <2>1, <2>2, <2>3 DEF Better
<1>6. /\ Cardinality({Canonical[shown[p].condition] : p \in R} \ {NoName}) <= 1
      /\ Cardinality({Canonical[shown[p].unit] : p \in R} \ {NoName}) <= 1
  BY <1>2, <1>3 DEF Comparable
<1>7. IsFiniteSet(R)
  BY ReportersAre
<1>. HIDE DEF R, shown
<1>8. \A p, q \in R : Agree(shown[p].condition, shown[q].condition)
  <2>. DEFINE f == [p \in R |-> shown[p].condition]
  <2>1. \A p \in R : f[p] = shown[p].condition /\ f[p] \in Names
    BY <1>4 DEF Benchmarks
  <2>2. Cardinality({Canonical[f[p]] : p \in R} \ {NoName}) <= 1
    <3>1. {Canonical[f[p]] : p \in R} = {Canonical[shown[p].condition] : p \in R}
      BY <2>1
    <3>. QED
      BY <1>6, <3>1
  <2>. HIDE DEF f
  <2>. QED
    BY <1>7, <2>1, <2>2, AgreeingValues
<1>9. \A p, q \in R : Agree(shown[p].unit, shown[q].unit)
  <2>. DEFINE f == [p \in R |-> shown[p].unit]
  <2>1. \A p \in R : f[p] = shown[p].unit /\ f[p] \in Names
    BY <1>4 DEF Benchmarks
  <2>2. Cardinality({Canonical[f[p]] : p \in R} \ {NoName}) <= 1
    <3>1. {Canonical[f[p]] : p \in R} = {Canonical[shown[p].unit] : p \in R}
      BY <2>1
    <3>. QED
      BY <1>6, <3>1
  <2>. HIDE DEF f
  <2>. QED
    BY <1>7, <2>1, <2>2, AgreeingValues
<1>10. /\ w \in DOMAIN shown /\ Cardinality(DOMAIN shown) >= 2
       /\ \A p \in DOMAIN shown :
            /\ p # w => Better(shown[w].value, shown[p].value, key[2])
            /\ Len(Variants(papers, p, key)) = 1
            /\ \A q \in DOMAIN shown : /\ Agree(shown[p].unit, shown[q].unit)
                                       /\ Agree(shown[p].condition, shown[q].condition)
  BY <1>2, <1>3, <1>4, <1>5, <1>8, <1>9
<1>. QED
  BY <1>10 DEF shown

-----------------------------------------------------------------------------
(* The order of the papers *)

LEMMA ReverseIs ==
  ASSUME NEW S, NEW s \in Seq(S)
  PROVE  /\ Reverse(s) \in Seq(S) /\ DOMAIN Reverse(s) = 1..Len(s) /\ DOMAIN s = 1..Len(s) /\ Len(s) \in Nat
         /\ \A i \in 1..Len(s) : Len(s) + 1 - i \in 1..Len(s) /\ Reverse(s)[i] = s[Len(s) + 1 - i]
<1>1. DOMAIN s = 1..Len(s) /\ Len(s) \in Nat /\ \A i \in 1..Len(s) : Len(s) + 1 - i \in 1..Len(s)
  OBVIOUS
<1>2. Reverse(s) = [i \in 1..Len(s) |-> s[(Len(s) - i) + 1]]
  BY DEF Reverse
<1>3. \A i \in 1..Len(s) : (Len(s) - i) + 1 = Len(s) + 1 - i /\ s[(Len(s) - i) + 1] \in S
  BY <1>1
<1>4. [i \in 1..Len(s) |-> s[(Len(s) - i) + 1]] \in Seq(S)
  BY <1>1, <1>3
<1>. QED
  BY <1>1, <1>2, <1>3, <1>4

SameVariants(v, w) == (v = <<>> <=> w = <<>>) /\ (Len(v) = 1 <=> Len(w) = 1) /\ (Len(v) = 1 => v[1] = w[1])

LEMMA ReversedVariants ==
  ASSUME NEW s \in Seq(Benchmarks), NEW key, NEW v, NEW w,
         SaysWhichMatch(v, s, key), SaysWhichMatch(w, Reverse(s), key)
  PROVE  SameVariants(v, w)
<1>. DEFINE N == Len(s)
            t == Reverse(s)
            flip(i) == N + 1 - i
<1>1. /\ DOMAIN t = 1..N /\ DOMAIN s = 1..N /\ N \in Nat
      /\ \A i \in 1..N : flip(i) \in 1..N /\ flip(flip(i)) = i /\ t[i] = s[flip(i)]
  BY ReverseIs
<1>2. \A i \in 1..N : t[flip(i)] = s[i]
  BY <1>1
<1>. HIDE DEF t, N, flip
<1>3. (\A j \in DOMAIN t : RowKey(t[j]) # key) <=> (\A j \in DOMAIN s : RowKey(s[j]) # key)
  BY <1>1, <1>2
<1>4. ASSUME NEW i \in 1..N, IsOnly(i, s, key) PROVE IsOnly(flip(i), t, key)
  <2>1. ASSUME NEW j \in 1..N, RowKey(t[j]) = key PROVE j = flip(i)
    <3>1. flip(j) = i
      BY <1>1, <1>4, <2>1 DEF IsOnly
    <3>. QED
      BY <1>1, <3>1
  <2>. QED
    BY <1>1, <1>2, <1>4, <2>1 DEF IsOnly
<1>5. ASSUME NEW i \in 1..N, IsOnly(i, t, key) PROVE IsOnly(flip(i), s, key)
  <2>1. ASSUME NEW j \in 1..N, RowKey(s[j]) = key PROVE j = flip(i)
    <3>1. flip(j) = i
      BY <1>1, <1>2, <1>5, <2>1 DEF IsOnly
    <3>. QED
      BY <1>1, <3>1
  <2>. QED
    BY <1>1, <1>5, <2>1 DEF IsOnly
<1>6. Len(v) = 1 => v[1] = w[1]
  <2>. SUFFICES ASSUME Len(v) = 1 PROVE v[1] = w[1]
    OBVIOUS
  <2>1. PICK i \in 1..N : IsOnly(i, s, key)
    BY <1>1 DEF SaysWhichMatch
  <2>2. v[1] = s[i]
    BY <1>1, <2>1 DEF SaysWhichMatch
  <2>3. IsOnly(flip(i), t, key) /\ flip(i) \in 1..N
    BY <1>1, <1>4, <2>1
  <2>4. w[1] = t[flip(i)]
    BY <1>1, <2>3 DEF SaysWhichMatch, t
  <2>. QED
    BY <1>2, <2>2, <2>4
<1>7. v = <<>> <=> w = <<>>
  BY <1>3 DEF SaysWhichMatch, t
<1>8. Len(v) = 1 <=> Len(w) = 1
  <2>1. (\E i \in DOMAIN s : IsOnly(i, s, key)) <=> (\E i \in DOMAIN t : IsOnly(i, t, key))
    BY <1>1, <1>4, <1>5
  <2>. QED
    BY <2>1 DEF SaysWhichMatch, t
<1>. QED
  BY <1>6, <1>7, <1>8 DEF SameVariants

(* Two batches that say of a row the same, in the opposite order. *)
IsMirror(a, b, key) ==
  /\ a \in Seq(Slots) /\ b \in Seq(Slots) /\ Len(a) = Len(b)
  /\ \A p \in Indexes(a) : SameVariants(Variants(a, p, key), Variants(b, Len(a) - 1 - p, key))

LEMMA MirrorOfMirror ==
  ASSUME NEW a, NEW b, NEW key, IsMirror(a, b, key)
  PROVE  /\ IsMirror(b, a, key) /\ Len(b) = Len(a) /\ Len(a) \in Nat /\ Indexes(b) = Indexes(a)
         /\ \A p \in Indexes(a) : Len(a) - 1 - p \in Indexes(a) /\ Len(a) - 1 - (Len(a) - 1 - p) = p
<1>1. Len(a) \in Nat /\ Len(b) = Len(a) /\ Indexes(b) = Indexes(a)
  BY DEF IsMirror, Indexes
<1>2. \A p \in Indexes(a) : Len(a) - 1 - p \in Indexes(a) /\ Len(a) - 1 - (Len(a) - 1 - p) = p
  BY <1>1 DEF Indexes
<1>3. ASSUME NEW p \in Indexes(b) PROVE SameVariants(Variants(b, p, key), Variants(a, Len(b) - 1 - p, key))
  <2>. DEFINE q == Len(a) - 1 - p
  <2>1. q \in Indexes(a) /\ Len(a) - 1 - q = p
    BY <1>1, <1>2
  <2>2. SameVariants(Variants(a, q, key), Variants(b, p, key))
    BY <2>1 DEF IsMirror
  <2>. QED
    BY <1>1, <2>2 DEF SameVariants
<1>. QED
  BY <1>1, <1>2, <1>3 DEF IsMirror

LEMMA MirrorShows ==
  ASSUME NEW a, NEW b, NEW key, IsMirror(a, b, key)
  PROVE  /\ \A p \in Reporters(a, key) : Len(a) - 1 - p \in Reporters(b, key)
         /\ Comparable(a, key) =>
              \A p \in Reporters(a, key) :
                /\ Len(Variants(b, Len(a) - 1 - p, key)) = 1
                /\ Shown(b, key)[Len(a) - 1 - p] = Shown(a, key)[p]
<1>0. a \in Seq(Slots) /\ b \in Seq(Slots)
  BY DEF IsMirror
<1>1. ASSUME NEW p \in Reporters(a, key)
      PROVE  /\ Len(a) - 1 - p \in Reporters(b, key) /\ p \in Indexes(a)
             /\ SameVariants(Variants(a, p, key), Variants(b, Len(a) - 1 - p, key))
  <2>1. p \in Indexes(a) /\ Variants(a, p, key) # <<>>
    BY DEF Reporters
  <2>2. Len(a) - 1 - p \in Indexes(b)
    BY <2>1, MirrorOfMirror
  <2>3. SameVariants(Variants(a, p, key), Variants(b, Len(a) - 1 - p, key))
    BY <2>1 DEF IsMirror
  <2>. QED
    BY <2>1, <2>2, <2>3 DEF SameVariants, Reporters
<1>2. ASSUME Comparable(a, key), NEW p \in Reporters(a, key)
      PROVE  /\ Len(Variants(b, Len(a) - 1 - p, key)) = 1
             /\ Shown(b, key)[Len(a) - 1 - p] = Shown(a, key)[p]
  <2>. DEFINE q == Len(a) - 1 - p
              w == Variants(b, q, key)
  <2>1. /\ Len(Variants(a, p, key)) = 1 /\ Shown(a, key)[p] = Variants(a, p, key)[1]
    BY <1>0, <1>2, ComparableShows
  <2>2. q \in Reporters(b, key) /\ Len(w) = 1 /\ w[1] = Shown(a, key)[p]
    BY <1>1, <1>2, <2>1 DEF SameVariants
  <2>. HIDE DEF q
  <2>3. w \in Seq(Benchmarks) /\ Shown(b, key)[q] = Representative(w, key[2])
    BY <1>0, <2>2, ReportersAre, VariantsAre
  <2>. HIDE DEF w
  <2>4. Representative(w, key[2]) = w[1]
    BY <2>2, <2>3, RepresentativeOfOne
  <2>. QED
    BY <2>2, <2>3, <2>4 DEF w, q
<1>. QED
  BY <1>1, <1>2

LEMMA MirrorWins ==
  ASSUME NEW a, NEW b, NEW key, IsMirror(a, b, key), NEW w, IsWinner(a, key, w)
  PROVE  IsWinner(b, key, Len(a) - 1 - w) /\ w \in Indexes(a)
<1>. DEFINE n == Len(a)
            flip(p) == n - 1 - p
            R == Reporters(a, key)
            Q == Reporters(b, key)
            showsA == Shown(a, key)
            showsB == Shown(b, key)
<1>0. a \in Seq(Slots) /\ b \in Seq(Slots) /\ Comparable(a, key) /\ Cardinality(R) >= 2 /\ BestOf(a, key) = {w}
  BY DEF IsMirror, IsWinner
<1>1. IsMirror(b, a, key) /\ Len(b) = n /\ n \in Nat /\ Indexes(b) = Indexes(a)
  BY MirrorOfMirror
<1>2. R \subseteq Indexes(a) /\ Q \subseteq Indexes(b) /\ IsFiniteSet(R) /\ DOMAIN showsA = R /\ DOMAIN showsB = Q
  BY <1>0, ReportersAre
<1>3. \A p \in R : flip(p) \in Q /\ flip(flip(p)) = p /\ Len(Variants(b, flip(p), key)) = 1 /\ showsB[flip(p)] = showsA[p]
  BY <1>0, <1>2, MirrorShows, MirrorOfMirror
<1>4. \A q \in Q : flip(q) \in R /\ flip(flip(q)) = q
  <2>1. \A q \in Q : Len(b) - 1 - q \in R
    BY <1>1, MirrorShows
  <2>. QED
    BY <1>1, <1>2, <2>1, MirrorOfMirror
<1>. HIDE DEF flip, R, Q, showsA, showsB, n
<1>5. \A q \in Q : Len(Variants(b, q, key)) = 1 /\ showsB[q] = showsA[flip(q)]
  BY <1>3, <1>4
<1>6. Cardinality(Q) = Cardinality(R)
  <2>. DEFINE f == [p \in R |-> flip(p)]
              g == [q \in Q |-> flip(q)]
  <2>1. f \in [R -> Q] /\ g \in [Q -> R] /\ (\A x \in R : g[f[x]] = x) /\ (\A y \in Q : f[g[y]] = y)
    BY <1>3, <1>4
  <2>. HIDE DEF f, g
  <2>. QED
    BY <1>2, <2>1, SameSize
<1>7. /\ {Canonical[showsB[q].condition] : q \in Q} = {Canonical[showsA[p].condition] : p \in R}
      /\ {Canonical[showsB[q].unit] : q \in Q} = {Canonical[showsA[p].unit] : p \in R}
  BY <1>3, <1>4, <1>5
<1>8. Comparable(b, key)
  <2>1. /\ Cardinality({Canonical[showsA[p].condition] : p \in R} \ {NoName}) <= 1
        /\ Cardinality({Canonical[showsA[p].unit] : p \in R} \ {NoName}) <= 1
    BY <1>0, <1>2 DEF Comparable, showsA
  <2>2. /\ Cardinality({Canonical[showsB[q].condition] : q \in DOMAIN showsB} \ {NoName}) <= 1
        /\ Cardinality({Canonical[showsB[q].unit] : q \in DOMAIN showsB} \ {NoName}) <= 1
    BY <1>2, <1>7, <2>1
  <2>. QED
    BY <1>5, <2>2 DEF Comparable, showsB, Q
<1>9. BestOf(a, key) = {p \in R : \A x \in R : ~Better(showsA[x].value, showsA[p].value, key[2])}
  BY <1>2 DEF BestOf, showsA
<1>10. BestOf(b, key) = {q \in Q : \A y \in Q : ~Better(showsB[y].value, showsB[q].value, key[2])}
  BY <1>2 DEF BestOf, showsB
<1>11. BestOf(b, key) = {flip(p) : p \in BestOf(a, key)}
  <2>1. ASSUME NEW p \in BestOf(a, key) PROVE flip(p) \in BestOf(b, key)
    BY <1>3, <1>4, <1>5, <1>9, <1>10
  <2>2. ASSUME NEW q \in BestOf(b, key) PROVE flip(q) \in BestOf(a, key) /\ flip(flip(q)) = q
    BY <1>3, <1>4, <1>5, <1>9, <1>10
  <2>. QED
    BY <2>1, <2>2
<1>12. BestOf(b, key) = {flip(w)}
  BY <1>0, <1>11
<1>13. w \in R
  BY <1>0, <1>9
<1>. QED
  BY <1>0, <1>2, <1>6, <1>8, <1>12, <1>13 DEF IsWinner, flip, n, Q, R

LEMMA MirrorDoesNotDecide ==
  ASSUME NEW a, NEW b, NEW key, IsMirror(a, b, key)
  PROVE  (IF RowWinner(b, key) = NoPaper THEN NoPaper ELSE Len(a) - 1 - RowWinner(b, key)) = RowWinner(a, key)
<1>0. a \in Seq(Slots) /\ b \in Seq(Slots)
  BY DEF IsMirror
<1>. DEFINE v == RowWinner(a, key)
            w == RowWinner(b, key)
            n == Len(a)
<1>1. /\ v # NoPaper => IsWinner(a, key, v)
      /\ w # NoPaper => IsWinner(b, key, w)
      /\ \A x : x # NoPaper => (v = x <=> IsWinner(a, key, x))
  BY <1>0, RowWinnerIs
<1>2. IsMirror(b, a, key) /\ Len(b) = n /\ n \in Nat /\ Indexes(b) = Indexes(a)
      /\ \A p \in Indexes(a) : n - 1 - p \in Indexes(a) /\ n - 1 - (n - 1 - p) = p
  BY MirrorOfMirror
<1>3. NoPaper \notin Indexes(a)
  BY <1>0, IndexesAre
<1>4. CASE w # NoPaper
  <2>1. IsWinner(a, key, n - 1 - w) /\ w \in Indexes(b)
    <3>. HIDE DEF w, n
    <3>. QED
      BY <1>1, <1>2, <1>4, MirrorWins
  <2>2. n - 1 - w # NoPaper
    BY <1>2, <1>3, <2>1
  <2>. HIDE DEF v, w, n
  <2>3. v = n - 1 - w
    BY <1>1, <2>1, <2>2
  <2>. QED
    BY <1>4, <2>3 DEF v, w, n
<1>5. CASE w = NoPaper
  <2>1. ASSUME v # NoPaper PROVE FALSE
    <3>1. IsWinner(b, key, n - 1 - v) /\ v \in Indexes(a)
      <4>. HIDE DEF v
      <4>. QED
        BY <1>1, <2>1, MirrorWins
    <3>2. n - 1 - v # NoPaper
      BY <1>2, <1>3, <3>1
    <3>3. RowWinner(b, key) = n - 1 - v
      BY <1>0, <3>1, <3>2, RowWinnerIs
    <3>. QED
      BY <1>5, <3>2, <3>3
  <2>. QED
    BY <1>5, <2>1
<1>. QED
  BY <1>4, <1>5

Turned(papers, p) == [Slot(papers, p) EXCEPT !.benchmarks = Reverse(@)]
Backwards(papers) == [i \in 1..Len(papers) |-> Turned(papers, Len(papers) - i)]

LEMMA BackwardsIsMirror ==
  ASSUME NEW papers \in Seq(Slots), NEW key
  PROVE  IsMirror(papers, Backwards(papers), key)
<1>. DEFINE n == Len(papers)
            back == Backwards(papers)
<1>1. n \in Nat
  OBVIOUS
<1>2. ASSUME NEW p \in Indexes(papers)
      PROVE  /\ Turned(papers, p) \in Slots
             /\ Turned(papers, p).benchmarks = Reverse(Slot(papers, p).benchmarks)
  <2>1. Slot(papers, p) \in Slots /\ Slot(papers, p).benchmarks \in Seq(Benchmarks)
    BY VariantsAre
  <2>. DEFINE turned == Reverse(Slot(papers, p).benchmarks)
  <2>2. turned \in Seq(Benchmarks)
    BY <2>1, ReverseIs
  <2>. HIDE DEF turned
  <2>3. [Slot(papers, p) EXCEPT !.benchmarks = turned] \in Slots
    BY <2>1, <2>2 DEF Slots
  <2>4. [Slot(papers, p) EXCEPT !.benchmarks = turned].benchmarks = turned
    BY <2>1 DEF Slots
  <2>. QED
    BY <2>3, <2>4 DEF Turned, turned
<1>3. \A i \in 1..n : n - i \in Indexes(papers)
  BY <1>1 DEF Indexes
<1>4. back = [i \in 1..n |-> Turned(papers, n - i)]
  BY DEF Backwards
<1>5. back \in Seq(Slots) /\ Len(back) = n
  BY <1>1, <1>2, <1>3, <1>4
<1>6. ASSUME NEW p \in Indexes(papers)
      PROVE  SameVariants(Variants(papers, p, key), Variants(back, n - 1 - p, key))
  <2>. DEFINE q == n - 1 - p
  <2>1. q \in 0..(n - 1) /\ q + 1 \in 1..n /\ n - (q + 1) = p
    BY <1>1 DEF Indexes
  <2>2. q \in Indexes(back)
    BY <1>5, <2>1 DEF Indexes
  <2>3. Slot(back, q) = Turned(papers, p)
    <3>. HIDE DEF q, back
    <3>. QED
      BY <1>4, <2>1 DEF Slot
  <2>. HIDE DEF q, back
  <2>4. Slot(back, q).benchmarks = Reverse(Slot(papers, p).benchmarks)
    BY <1>2, <2>3
  <2>5. SaysWhichMatch(Variants(papers, p, key), Slot(papers, p).benchmarks, key)
        /\ Slot(papers, p).benchmarks \in Seq(Benchmarks)
    BY VariantsAre
  <2>6. SaysWhichMatch(Variants(back, q, key), Reverse(Slot(papers, p).benchmarks), key)
    BY <1>5, <2>2, <2>4, VariantsAre
  <2>7. SameVariants(Variants(papers, p, key), Variants(back, q, key))
    BY <2>5, <2>6, ReversedVariants
  <2>. QED
    BY <2>7 DEF q
<1>. QED
  BY <1>5, <1>6 DEF IsMirror

-----------------------------------------------------------------------------
(* The matrix and the report *)

LEMMA KeysAreFinite ==
  ASSUME NEW papers \in Seq(Slots)
  PROVE  IsFiniteSet(Keys(papers))
<1>. DEFINE ofPaper == [p \in Indexes(papers) |-> {RowKey(Slot(papers, p).benchmarks[i]) : i \in DOMAIN Slot(papers, p).benchmarks}]
            all == {ofPaper[p] : p \in Indexes(papers)}
<1>1. Keys(papers) = UNION all
  BY DEF Keys
<1>2. ASSUME NEW p \in Indexes(papers) PROVE IsFiniteSet(ofPaper[p])
  <2>. DEFINE s == Slot(papers, p).benchmarks
              f == [i \in DOMAIN s |-> RowKey(s[i])]
  <2>1. s \in Seq(Benchmarks)
    BY VariantsAre
  <2>2. DOMAIN s = 1..Len(s) /\ Len(s) \in Nat
    BY <2>1
  <2>3. IsFiniteSet(DOMAIN s)
    BY <2>2, FS_Interval
  <2>4. ofPaper[p] = {f[i] : i \in DOMAIN s}
    OBVIOUS
  <2>. HIDE DEF f, s
  <2>5. IsFiniteSet({f[i] : i \in DOMAIN s})
    BY <2>3, ImageIsFinite
  <2>. QED
    BY <2>4, <2>5
<1>. HIDE DEF ofPaper
<1>3. IsFiniteSet(all)
  BY IndexesAre, ImageIsFinite
<1>4. \A x \in all : IsFiniteSet(x)
  BY <1>2
<1>. HIDE DEF all
<1>5. IsFiniteSet(UNION all)
  BY <1>3, <1>4, FS_UNION
<1>. QED
  BY <1>1, <1>5

LEMMA MatrixIs ==
  ASSUME NEW papers \in Seq(Slots)
  PROVE  /\ DOMAIN Matrix(papers) = Keys(papers)
         /\ \A key \in Keys(papers) :
              /\ Matrix(papers)[key].shown = Shown(papers, key)
              /\ Matrix(papers)[key].winner = RowWinner(papers, key)
              /\ Matrix(papers)[key].winner \in {NoPaper} \cup Indexes(papers)
              /\ DOMAIN Matrix(papers)[key].shown = Reporters(papers, key)
              /\ Reporters(papers, key) # {}
<1>1. /\ DOMAIN Matrix(papers) = Keys(papers)
      /\ \A key \in Keys(papers) :
              /\ Matrix(papers)[key].shown = Shown(papers, key)
              /\ Matrix(papers)[key].winner = RowWinner(papers, key)
  BY DEF Matrix
<1>2. ASSUME NEW key \in Keys(papers)
      PROVE  /\ RowWinner(papers, key) \in {NoPaper} \cup Indexes(papers)
             /\ DOMAIN Shown(papers, key) = Reporters(papers, key)
             /\ Reporters(papers, key) # {}
  <2>1. RowWinner(papers, key) \in {NoPaper} \cup Indexes(papers) /\ DOMAIN Shown(papers, key) = Reporters(papers, key)
    BY RowWinnerIs, ReportersAre
  <2>2. PICK p \in Indexes(papers) : \E i \in DOMAIN Slot(papers, p).benchmarks :
          key = RowKey(Slot(papers, p).benchmarks[i])
    BY DEF Keys
  <2>3. Variants(papers, p, key) # <<>>
    BY <2>2, VariantsAre DEF SaysWhichMatch
  <2>4. p \in Reporters(papers, key)
    BY <2>3 DEF Reporters
  <2>. QED
    BY <2>1, <2>4
<1>. QED
  BY <1>1, <1>2

(* Each row that has a winner is a win of one paper. *)
LEMMA WinsAddUp ==
  ASSUME NEW papers \in Seq(Slots), NEW wins,
         wins = [p \in Indexes(papers) |-> Wins(Matrix(papers), p)]
  PROVE  Total(wins, Len(papers)) = RowsWithWinner(Matrix(papers))
<1>. DEFINE K == Keys(papers)
            n == Len(papers)
            win == [key \in K |-> Matrix(papers)[key].winner]
            below(k) == {key \in K : win[key] \in 0..(k - 1)}
            at(p) == {key \in K : win[key] = p}
            Body(s) == [k \in 0..n |-> IF k = 0 THEN 0 ELSE s[k - 1] + wins[k - 1]]
            sum == CHOOSE s : s = Body(s)
            counts == [k \in 0..n |-> Cardinality(below(k))]
<1>1. IsFiniteSet(K) /\ n \in Nat /\ Indexes(papers) = 0..(n - 1) /\ NoPaper \notin Indexes(papers)
  BY KeysAreFinite, IndexesAre DEF Indexes
<1>2. \A key \in K : win[key] \in {NoPaper} \cup (0..(n - 1))
  BY <1>1, MatrixIs
<1>3. \A p \in 0..(n - 1) : wins[p] = Cardinality(at(p))
  <2>1. ASSUME NEW p \in 0..(n - 1) PROVE wins[p] = Cardinality(at(p))
    <3>1. wins[p] = Cardinality({key \in DOMAIN Matrix(papers) : Matrix(papers)[key].winner = p})
      BY <1>1 DEF Wins
    <3>2. {key \in DOMAIN Matrix(papers) : Matrix(papers)[key].winner = p} = at(p)
      BY MatrixIs
    <3>. QED
      BY <3>1, <3>2
  <2>. QED
    BY <2>1
<1>4. RowsWithWinner(Matrix(papers)) = Cardinality(below(n))
  <2>1. {key \in DOMAIN Matrix(papers) : Matrix(papers)[key].winner # NoPaper} = below(n)
    <3>1. {key \in DOMAIN Matrix(papers) : Matrix(papers)[key].winner # NoPaper} = {key \in K : win[key] # NoPaper}
      BY MatrixIs
    <3>. HIDE DEF K, win, n
    <3>. QED
      BY <1>1, <1>2, <3>1
  <2>. QED
    BY <2>1 DEF RowsWithWinner
<1>5. Total(wins, n) = sum[n]
  BY DEF Total
<1>. HIDE DEF K, win, n
<1>6. \A k \in 1..n : /\ k - 1 \in 0..(n - 1) /\ k - 1 \in 0..n /\ k # 0
                      /\ Cardinality(below(k)) = Cardinality(below(k - 1)) + Cardinality(at(k - 1))
  <2>. SUFFICES ASSUME NEW k \in 1..n
       PROVE  /\ k - 1 \in 0..(n - 1) /\ k - 1 \in 0..n /\ k # 0
              /\ Cardinality(below(k)) = Cardinality(below(k - 1)) + Cardinality(at(k - 1))
    OBVIOUS
  <2>0. k - 1 \in 0..(n - 1) /\ k - 1 \in 0..n /\ k # 0
    BY <1>1
  <2>. DEFINE S == below(k - 1)
              T == at(k - 1)
  <2>1. below(k) = S \cup T
    BY <1>1, <1>2
  <2>2. S \cap T = {}
    BY <1>1
  <2>3. S \subseteq K /\ T \subseteq K
    OBVIOUS
  <2>4. IsFiniteSet(S) /\ IsFiniteSet(T)
    BY <1>1, <2>3, FS_Subset
  <2>. HIDE DEF S, T
  <2>5. Cardinality(S \cup T) = Cardinality(S) + Cardinality(T) - Cardinality(S \cap T)
    BY <2>4, FS_Union
  <2>6. Cardinality(S \cap T) = 0 /\ Cardinality(S) \in Nat /\ Cardinality(T) \in Nat
    BY <2>2, <2>4, FS_EmptySet, FS_CardinalityType
  <2>7. Cardinality(S \cup T) = Cardinality(S) + Cardinality(T)
    BY <2>5, <2>6
  <2>. QED
    BY <2>0, <2>1, <2>7 DEF S, T
<1>7. Cardinality(below(0)) = 0
  <2>1. below(0) = {}
    BY <1>2
  <2>. QED
    BY <2>1, FS_EmptySet
<1>8. \A k \in 0..n : counts[k] = IF k = 0 THEN 0 ELSE counts[k - 1] + wins[k - 1]
  <2>. SUFFICES ASSUME NEW k \in 0..n PROVE counts[k] = IF k = 0 THEN 0 ELSE counts[k - 1] + wins[k - 1]
    OBVIOUS
  <2>1. k = 0 \/ k \in 1..n
    BY <1>1
  <2>. HIDE DEF below, at
  <2>. QED
    BY <1>3, <1>6, <1>7, <2>1
<1>. HIDE DEF below, at
<1>9. counts = Body(counts)
  <2>1. counts = [k \in 0..n |-> counts[k]] /\ Body(counts) = [k \in 0..n |-> IF k = 0 THEN 0 ELSE counts[k - 1] + wins[k - 1]]
    OBVIOUS
  <2>. HIDE DEF counts
  <2>. QED
    BY <1>8, <2>1
<1>10. sum = Body(sum)
  BY <1>9
<1>11. \A k \in 0..n : sum[k] = IF k = 0 THEN 0 ELSE sum[k - 1] + wins[k - 1]
  <2>1. \A k \in 0..n : Body(sum)[k] = IF k = 0 THEN 0 ELSE sum[k - 1] + wins[k - 1]
    OBVIOUS
  <2>. HIDE DEF Body, sum
  <2>. QED
    BY <1>10, <2>1
<1>. HIDE DEF sum, Body, counts
<1>12. sum[n] = counts[n]
  <2>. DEFINE T == {k \in Nat : k <= n => sum[k] = counts[k]}
  <2>1. 0 \in T
    BY <1>1, <1>8, <1>11
  <2>2. ASSUME NEW k \in Nat, k \in T PROVE k + 1 \in T
    <3>. SUFFICES ASSUME k + 1 <= n PROVE sum[k + 1] = counts[k + 1]
      OBVIOUS
    <3>1. k + 1 \in 0..n /\ k + 1 # 0 /\ k + 1 - 1 = k /\ sum[k] = counts[k]
      BY <1>1, <2>2
    <3>2. sum[k + 1] = sum[k] + wins[k] /\ counts[k + 1] = counts[k] + wins[k]
      BY <1>8, <1>11, <3>1
    <3>. QED
      BY <3>1, <3>2
  <2>. HIDE DEF T
  <2>3. Nat \subseteq T
    BY <2>1, <2>2, SetInduction
  <2>. QED
    BY <1>1, <2>3 DEF T
<1>13. counts[n] = Cardinality(below(n))
  BY <1>1 DEF counts
<1>. QED
  BY <1>4, <1>5, <1>12, <1>13 DEF n

(* Papers that are alone with a task are alone with its rows. *)
LEMMA UniqueTasksAreUniqueRows ==
  ASSUME NEW papers \in Seq(Slots), NEW p \in Indexes(papers), NEW task \in UniqueTasks(Matrix(papers), p)
  PROVE  {key \in DOMAIN Matrix(papers) : key[1] = task} \subseteq UniqueRows(Matrix(papers), p)
<1>. SUFFICES ASSUME NEW key \in DOMAIN Matrix(papers), key[1] = task
     PROVE DOMAIN Matrix(papers)[key].shown = {p}
  BY DEF UniqueRows
<1>1. Present(Matrix(papers), task) = {p}
  BY DEF UniqueTasks
<1>2. DOMAIN Matrix(papers)[key].shown \subseteq {p}
  BY <1>1 DEF Present
<1>3. DOMAIN Matrix(papers)[key].shown # {}
  BY MatrixIs
<1>. QED
  BY <1>2, <1>3

AllClaims == Claims \cup {NoClaims}

LEMMA ClaimsAre ==
  ASSUME NEW claims \in AllClaims
  PROVE  claims.recommendations \in Seq(RecommendationClaims)
<1>1. <<>> \in Seq(RecommendationClaims)
  OBVIOUS
<1>. DEFINE R == RecommendationClaims
<1>2. BoundedSeq(R, 2) \subseteq Seq(R)
  <2>. HIDE DEF R
  <2>1. \A m \in 0..2 : [1..m -> R] \subseteq Seq(R)
    OBVIOUS
  <2>2. BoundedSeq(R, 2) = UNION {[1..m -> R] : m \in 0..2}
    BY DEF BoundedSeq, SeqOf
  <2>. QED
    BY <2>1, <2>2
<1>3. claims \in [winner : {NoPaper} \cup ClaimedPapers, basis : {"", "mixed", "no_clear_winner"}, recommendations : {<<>>}]
      \/ claims \in [winner : {NoPaper}, basis : {""}, recommendations : BoundedSeq(RecommendationClaims, 2)]
      \/ claims = NoClaims
  BY DEF AllClaims, Claims
<1>4. NoClaims.recommendations = <<>>
  BY DEF NoClaims
<1>5. claims.recommendations \in {<<>>} \cup BoundedSeq(R, 2)
  BY <1>3, <1>4
<1>. HIDE DEF R
<1>. QED
  BY <1>1, <1>2, <1>5 DEF R

LEMMA EligibleAre ==
  ASSUME NEW papers \in Seq(Slots), NEW p \in Eligible(papers)
  PROVE  /\ p \in Indexes(papers)
         /\ Slot(papers, p).completed \/ \A q \in Indexes(papers) : ~Slot(papers, q).completed
BY DEF Eligible

LEMMA RecommendedAreEligible ==
  ASSUME NEW papers \in Seq(Slots), NEW claimed \in Seq(RecommendationClaims),
         NEW i \in DOMAIN Recommendations(claimed, papers)
  PROVE  Recommendations(claimed, papers)[i].paper \in Eligible(papers)
<1>. DEFINE takes == {x \in Seq(RecommendationClaims) \X RecommendationClaims :
                  /\ x[2].paper \in Eligible(papers) /\ x[2].reasoned
                  /\ \A k \in DOMAIN x[1] : Canonical[x[1][k].constraint] # Canonical[x[2].constraint]
                  /\ Len(x[1]) < MaxRecommendations}
            taken == Gathered(claimed, takes)
<1>1. Recommendations(claimed, papers) =
        [k \in DOMAIN taken |-> [constraint |-> Canonical[taken[k].constraint], paper |-> taken[k].paper]]
  BY DEF Recommendations
<1>2. i \in DOMAIN taken /\ Recommendations(claimed, papers)[i].paper = taken[i].paper
  <2>. HIDE DEF taken
  <2>. QED
    BY <1>1
<1>3. \A u, c : <<u, c>> \in takes => c.paper \in Eligible(papers)
  OBVIOUS
<1>. HIDE DEF takes
<1>4. PICK u : <<u, taken[i]>> \in takes
  BY <1>2, GatheredWasTaken
<1>. QED
  BY <1>2, <1>3, <1>4

LEMMA BasisTellsOfWinner ==
  ASSUME NEW claimed, NEW winner, NEW papers, NEW matrix
  PROVE  WinnerBasis(claimed, winner, papers, matrix) = "no_clear_winner" <=> winner = NoPaper
BY DEF WinnerBasis, Bases

(* What the report of any claims is. *)
TellsOfMatrix(report, papers) ==
  /\ report.made = TRUE
  /\ report.rowsWithWinner = Total(report.wins, Len(papers))
  /\ \A p \in Indexes(papers) : \A task \in report.uniqueTasks[p] :
       {key \in DOMAIN Matrix(papers) : key[1] = task} \subseteq report.uniqueRows[p]
  /\ report.basis = "no_clear_winner" <=> report.winner = NoPaper
  /\ \A p \in ({report.winner} \cup {report.recommendations[i].paper : i \in DOMAIN report.recommendations}) \ {NoPaper} :
       /\ p \in Indexes(papers)
       /\ Slot(papers, p).completed \/ \A q \in Indexes(papers) : ~Slot(papers, q).completed

LEMMA ReportTellsOfMatrix ==
  ASSUME NEW claims \in AllClaims, NEW papers \in Seq(Slots)
  PROVE  TellsOfMatrix(Report(claims, papers, Matrix(papers)), papers)
<1>. DEFINE matrix == Matrix(papers)
            report == Report(claims, papers, matrix)
            winner == OverallWinner(claims.winner, papers)
<1>1. /\ report.made = TRUE /\ report.winner = winner
      /\ report.basis = WinnerBasis(claims.basis, winner, papers, matrix)
      /\ report.rowsWithWinner = RowsWithWinner(matrix)
      /\ report.wins = [p \in Indexes(papers) |-> Wins(matrix, p)]
      /\ report.uniqueTasks = [p \in Indexes(papers) |-> UniqueTasks(matrix, p)]
      /\ report.uniqueRows = [p \in Indexes(papers) |-> UniqueRows(matrix, p)]
      /\ report.recommendations = Recommendations(claims.recommendations, papers)
  BY DEF Report
<1>. HIDE DEF report, matrix
<1>2. report.rowsWithWinner = Total(report.wins, Len(papers))
  BY <1>1, WinsAddUp DEF matrix
<1>3. ASSUME NEW p \in Indexes(papers), NEW task \in report.uniqueTasks[p]
      PROVE  {key \in DOMAIN matrix : key[1] = task} \subseteq report.uniqueRows[p]
  <2>1. task \in UniqueTasks(matrix, p) /\ report.uniqueRows[p] = UniqueRows(matrix, p)
    BY <1>1, <1>3
  <2>. QED
    BY <2>1, UniqueTasksAreUniqueRows DEF matrix
<1>4. report.basis = "no_clear_winner" <=> report.winner = NoPaper
  BY <1>1, BasisTellsOfWinner
<1>5. winner # NoPaper => winner \in Eligible(papers)
  BY DEF OverallWinner
<1>6. ASSUME NEW i \in DOMAIN report.recommendations PROVE report.recommendations[i].paper \in Eligible(papers)
  BY <1>1, <1>6, ClaimsAre, RecommendedAreEligible
<1>7. \A p \in ({report.winner} \cup {report.recommendations[i].paper : i \in DOMAIN report.recommendations}) \ {NoPaper} :
        p \in Eligible(papers)
  BY <1>1, <1>5, <1>6
<1>. QED
  BY <1>1, <1>2, <1>3, <1>4, <1>7, EligibleAre DEF TellsOfMatrix, report, matrix

-----------------------------------------------------------------------------

ComparisonReports == {NoReport} \cup UNION {{Report(claims, papers, Matrix(papers)) : claims \in AllClaims} : papers \in Seq(Slots)}

Comparisons ==
  [node : {"start", "claims", "repair", "end"}, producer : Producers, papers : Seq(Slots),
   matrix : {NoMatrix} \cup {Matrix(papers) : papers \in Seq(Slots)}, report : ComparisonReports]

(* The matrix is the one of the papers when claims are asked for and in the  *)
(* report that they lead to.                                                 *)
ComparisonInv ==
  /\ comparison \in Comparisons
  /\ comparison.node \in {"claims", "repair"} => comparison.matrix = Matrix(comparison.papers)
  /\ comparison.report.made =>
       /\ comparison.matrix = Matrix(comparison.papers)
       /\ \E claims \in AllClaims : comparison.report = Report(claims, comparison.papers, comparison.matrix)

LEMMA ComparisonInitHolds == ComparisonInit => ComparisonInv
<1>. SUFFICES ASSUME NEW producer \in Producers, NEW n \in 1..MostPapers, NEW papers \in [1..n -> PaperSlots],
                     comparison = ComparisonOf(producer, papers)
              PROVE  ComparisonInv
  BY DEF ComparisonInit
<1>1. papers \in Seq(Slots)
  <2>1. MostPapers \in Nat /\ PaperSlots \subseteq Slots
    BY ComparisonAssumption DEF ComparisonAssumption
  <2>2. n \in Nat /\ papers \in [1..n -> Slots]
    BY <2>1
  <2>. HIDE DEF Slots
  <2>. QED
    BY <2>2
<1>2. comparison \in Comparisons
  BY <1>1 DEF ComparisonOf, Comparisons, ComparisonReports
<1>. QED
  BY <1>2 DEF ComparisonInv, ComparisonOf, NoReport

LEMMA ReportKeepsInv ==
  ASSUME ComparisonInv, comparison.node \in {"claims", "repair"}, NEW claims \in AllClaims, Concludes(claims)
  PROVE  ComparisonInv'
<1>0. comparison \in Comparisons /\ comparison.papers \in Seq(Slots) /\ comparison.matrix = Matrix(comparison.papers)
  BY DEF ComparisonInv, Comparisons
<1>. DEFINE report == Report(claims, comparison.papers, comparison.matrix)
<1>1. report \in ComparisonReports
  BY <1>0 DEF ComparisonReports
<1>2. comparison' = [comparison EXCEPT !.node = "end", !.report = report]
  BY DEF Concludes
<1>. HIDE DEF report
<1>3. comparison' \in Comparisons
  BY <1>0, <1>1, <1>2 DEF Comparisons
<1>4. /\ comparison'.report = report /\ comparison'.papers = comparison.papers
      /\ comparison'.matrix = comparison.matrix /\ comparison'.node = "end"
  BY <1>0, <1>2 DEF Comparisons
<1>. QED
  BY <1>0, <1>3, <1>4 DEF ComparisonInv, report

LEMMA ComparisonNextPreserves == ComparisonInv /\ [ComparisonNext]_comparison => ComparisonInv'
<1>. SUFFICES ASSUME ComparisonInv, [ComparisonNext]_comparison PROVE ComparisonInv'
  OBVIOUS
<1>0. comparison \in Comparisons /\ comparison.papers \in Seq(Slots)
  BY DEF ComparisonInv, Comparisons
<1>1. CASE UNCHANGED comparison
  BY <1>1 DEF ComparisonInv
<1>2. CASE CompareNothing
  <2>1. comparison' = [comparison EXCEPT !.node = "end"]
    BY <1>2 DEF CompareNothing
  <2>2. comparison' \in Comparisons
    BY <1>0, <2>1 DEF Comparisons
  <2>3. /\ comparison'.report = comparison.report /\ comparison'.papers = comparison.papers
        /\ comparison'.matrix = comparison.matrix /\ comparison'.node = "end"
    BY <1>0, <2>1 DEF Comparisons
  <2>. QED
    BY <2>2, <2>3 DEF ComparisonInv
<1>3. CASE BuildMatrix
  <2>. DEFINE matrix == Matrix(comparison.papers)
  <2>1. comparison' = [comparison EXCEPT !.node = "claims", !.matrix = matrix] /\ comparison.node = "start"
    BY <1>3 DEF BuildMatrix
  <2>2. matrix \in {NoMatrix} \cup {Matrix(papers) : papers \in Seq(Slots)}
    BY <1>0
  <2>. HIDE DEF matrix
  <2>3. comparison' \in Comparisons
    BY <1>0, <2>1, <2>2 DEF Comparisons
  <2>4. /\ comparison'.report = comparison.report /\ comparison'.papers = comparison.papers
        /\ comparison'.matrix = matrix /\ comparison'.node = "claims"
    BY <1>0, <2>1 DEF Comparisons
  <2>5. comparison.report.made => \E claims \in AllClaims : comparison.report = Report(claims, comparison.papers, matrix)
    BY DEF ComparisonInv, matrix
  <2>. QED
    BY <2>3, <2>4, <2>5 DEF ComparisonInv, matrix
<1>4. CASE CompareWithClaims
  <2>1. PICK claims \in AllClaims : Concludes(claims)
    BY <1>4 DEF CompareWithClaims, AllClaims
  <2>. QED
    BY <1>4, <2>1, ReportKeepsInv DEF CompareWithClaims
<1>5. CASE CompareWithoutClaims
  <2>1. NoClaims \in AllClaims
    BY DEF AllClaims
  <2>. QED
    BY <1>5, <2>1, ReportKeepsInv DEF CompareWithoutClaims
<1>6. CASE AskForRepair
  <2>1. comparison' = [comparison EXCEPT !.node = "repair"] /\ comparison.node = "claims"
    BY <1>6 DEF AskForRepair
  <2>2. comparison' \in Comparisons
    BY <1>0, <2>1 DEF Comparisons
  <2>3. /\ comparison'.report = comparison.report /\ comparison'.papers = comparison.papers
        /\ comparison'.matrix = comparison.matrix /\ comparison'.node = "repair"
    BY <1>0, <2>1 DEF Comparisons
  <2>. QED
    BY <2>1, <2>2, <2>3 DEF ComparisonInv
<1>. QED
  BY <1>1, <1>2, <1>3, <1>4, <1>5, <1>6 DEF ComparisonNext

LEMMA ComparisonInvIsFair == ComparisonInv => ComparisonIsFair
<1>. SUFFICES ASSUME ComparisonInv PROVE ComparisonIsFair
  OBVIOUS
<1>. DEFINE papers == comparison.papers
            matrix == comparison.matrix
<1>0. papers \in Seq(Slots) /\ (comparison.node = "claims" => matrix = Matrix(papers))
  BY DEF ComparisonInv, Comparisons
<1>1. WinnerIsBest
  <2>. SUFFICES ASSUME comparison.node = "claims", NEW key \in DOMAIN matrix, matrix[key].winner # NoPaper
       PROVE LET row == matrix[key] IN
        /\ row.winner \in DOMAIN row.shown /\ Cardinality(DOMAIN row.shown) >= 2
        /\ \A p \in DOMAIN row.shown :
             /\ p # row.winner => Better(row.shown[row.winner].value, row.shown[p].value, key[2])
             /\ Len(Variants(papers, p, key)) = 1
             /\ \A q \in DOMAIN row.shown : /\ Agree(row.shown[p].unit, row.shown[q].unit)
                                            /\ Agree(row.shown[p].condition, row.shown[q].condition)
    BY DEF WinnerIsBest
  <2>1. key \in Keys(papers) /\ matrix[key].shown = Shown(papers, key) /\ matrix[key].winner = RowWinner(papers, key)
    BY <1>0, MatrixIs
  <2>. HIDE DEF papers, matrix
  <2>. DEFINE w == matrix[key].winner
  <2>2. w # NoPaper /\ w = RowWinner(papers, key)
    BY <2>1
  <2>. HIDE DEF w
  <2>3. LET shown == Shown(papers, key) IN
         /\ w \in DOMAIN shown /\ Cardinality(DOMAIN shown) >= 2
         /\ \A p \in DOMAIN shown :
              /\ p # w => Better(shown[w].value, shown[p].value, key[2])
              /\ Len(Variants(papers, p, key)) = 1
              /\ \A q \in DOMAIN shown : /\ Agree(shown[p].unit, shown[q].unit)
                                         /\ Agree(shown[p].condition, shown[q].condition)
    BY <1>0, <2>2, RowWinnerIsBest
  <2>. QED
    BY <2>1, <2>3 DEF w
<1>2. OrderDoesNotDecide
  <2>. SUFFICES ASSUME comparison.node = "claims", NEW key \in DOMAIN matrix
       PROVE  (IF RowWinner(Backwards(papers), key) = NoPaper THEN NoPaper
               ELSE Len(papers) - 1 - RowWinner(Backwards(papers), key)) = matrix[key].winner
    BY DEF OrderDoesNotDecide, Backwards, Turned
  <2>1. matrix[key].winner = RowWinner(papers, key)
    BY <1>0, MatrixIs
  <2>. HIDE DEF papers, matrix
  <2>. QED
    BY <1>0, <2>1, BackwardsIsMirror, MirrorDoesNotDecide
<1>3. ReportIsConsistent
  <2>. SUFFICES ASSUME comparison.report.made PROVE TellsOfMatrix(comparison.report, papers) /\ matrix = Matrix(papers)
    BY DEF ReportIsConsistent, TellsOfMatrix
  <2>1. PICK claims \in AllClaims : comparison.report = Report(claims, papers, matrix)
    BY DEF ComparisonInv
  <2>2. matrix = Matrix(papers)
    BY DEF ComparisonInv
  <2>. QED
    BY <1>0, <2>1, <2>2, ReportTellsOfMatrix
<1>. QED
  BY <1>1, <1>2, <1>3 DEF ComparisonIsFair

(* Whatever the papers are and the LLM claims, the winner of a row beats     *)
(* everyone else in it by a number that can be compared and does not depend  *)
(* on any order, and the report says nothing else than its matrix            *)
(* (agents/comparator.py, agents/comparison_analyst.py).                     *)
THEOREM ComparisonsAreFair == ComparisonSpec => []ComparisonIsFair
BY ComparisonInitHolds, ComparisonNextPreserves, ComparisonInvIsFair, PTL DEF ComparisonSpec

-----------------------------------------------------------------------------
(* Chunking *)

ChunkingSpec == ChunkingInit /\ [][ChunkingNext]_chunking

ChunkedInputs == [abstract : BOOLEAN, pages : Seq(Seq(Characters))]

Chunkings ==
  [node : {"abstract", "pages", "page", "end"}, paper : ChunkedInputs, texts : Seq(Seq(Characters)),
   start : Nat, chunks : Seq(TextChunks)]

PageOf(chunks, p) ==
  Gathered(chunks, {x \in Seq(TextChunks) \X TextChunks : x[2].type = "text" /\ x[2].page = p})

(* The chunks s of a page whose text is text. *)
PageIsSound(s, text) ==
  \A c \in DOMAIN s :
    /\ s[c].end - s[c].start <= TargetChars \/ Len(text) < MinChunkChars
    /\ s[c].end < Len(text) => s[c].end - s[c].start > MinChunkChars \/ s[c].end - s[c].start = TargetChars
    /\ c > 1 => s[c - 1].end - s[c].start <= OverlapChars /\ s[c].start > s[c - 1].start

IsCovered(s, text, upto) ==
  \A i \in Nat : i < upto /\ i < Len(text) /\ CharAt(text, i) \notin Blank =>
    \E c \in DOMAIN s : s[c].start <= i /\ i < s[c].end

(* The last chunk is where the window is, or behind it. *)
LastIsBefore(s, start) ==
  s # <<>> => s[Len(s)].start < start /\ s[Len(s)].end - start <= OverlapChars

(* A page that the loop has not left is covered up to the next window; what  *)
(* is below the minimum is not looped over.                                  *)
PageGoesOn(s, text, start) ==
  /\ IsCovered(s, text, start)
  /\ LastIsBefore(s, start)
  /\ IF Len(text) < MinChunkChars THEN s = <<>> ELSE start < Len(text)

ChunkedWell(c) ==
  /\ c \in Chunkings
  /\ \A p \in Nat : p > Len(c.texts) => PageOf(c.chunks, p) = <<>>
  /\ \A p \in DOMAIN c.texts : PageIsSound(PageOf(c.chunks, p), c.texts[p])
  /\ \A p \in DOMAIN c.texts :
       p < Len(c.texts) \/ c.node # "page" => IsCovered(PageOf(c.chunks, p), c.texts[p], Len(c.texts[p]))
  /\ c.node = "page" =>
       /\ c.texts # <<>>
       /\ PageGoesOn(PageOf(c.chunks, Len(c.texts)), c.texts[Len(c.texts)], c.start)

ChunkingInv == ChunkedWell(chunking)

LEMMA LastFoundIs ==
  ASSUME NEW text, NEW x, NEW y, NEW start \in Nat, NEW end \in Nat
  PROVE  LastFound(text, x, y, start, end) \in {-1} \cup (start..(end - 2))
<1>. DEFINE S == {-1} \cup {i \in start..(end - 2) : CharAt(text, i) = x /\ CharAt(text, i + 1) = y}
            T == {end - i : i \in S}
<1>1. S \subseteq Int /\ \A i \in S : i < end
  OBVIOUS
<1>2. T \subseteq Nat /\ T # {}
  BY <1>1
<1>. HIDE DEF S
<1>3. PICK t \in T : \A u \in T : t <= u
  BY <1>2, LeastNatural
<1>4. PICK i \in S : t = end - i
  BY <1>3
<1>5. \A j \in S : i >= j
  <2>. SUFFICES ASSUME NEW j \in S PROVE i >= j
    OBVIOUS
  <2>1. t <= end - j
    BY <1>3
  <2>. QED
    BY <1>1, <1>4, <2>1
<1>6. Max(S) \in S
  BY <1>4, <1>5 DEF Max
<1>7. Max(S) \in {-1} \cup (start..(end - 2))
  BY <1>6 DEF S
<1>. QED
  BY <1>7 DEF LastFound, S

(* A window is not empty, stays within the text and has the target size, or  *)
(* more than the minimum, unless the text ends.                              *)
LEMMA WindowEndIs ==
  ASSUME NEW text \in Seq(Characters), NEW start \in Nat, start < Len(text), NEW end, end = WindowEnd(text, start)
  PROVE  /\ end \in Nat /\ start < end /\ end <= Len(text) /\ end - start <= TargetChars
         /\ end < Len(text) => end - start > MinChunkChars \/ end - start = TargetChars
<1>0. TargetChars \in Nat /\ TargetChars > 0 /\ MinChunkChars \in Nat /\ Len(text) \in Nat
  BY ChunkingAssumption DEF ChunkingAssumption
<1>. DEFINE full == Min({start + TargetChars, Len(text)})
            paragraph == LastFound(text, Newline, Newline, start, full)
            sentence == LastFound(text, ".", Space, start, full)
            boundary == IF paragraph <= start + MinChunkChars THEN sentence ELSE paragraph
<1>1. /\ full \in {start + TargetChars, Len(text)} /\ full <= start + TargetChars /\ full <= Len(text)
  BY <1>0, MinOfTwo
<1>2. end = IF full < Len(text) /\ boundary > start + MinChunkChars THEN boundary + 1 ELSE full
  BY DEF WindowEnd
<1>. HIDE DEF full
<1>3. full \in Nat
  BY <1>0, <1>1
<1>4. /\ paragraph \in {-1} \cup (start..(full - 2))
      /\ sentence \in {-1} \cup (start..(full - 2))
  BY <1>3, LastFoundIs
<1>. HIDE DEF paragraph, sentence
<1>5. boundary \in {-1} \cup (start..(full - 2))
  BY <1>4
<1>. HIDE DEF boundary
<1>6. CASE full < Len(text) /\ boundary > start + MinChunkChars
  BY <1>0, <1>1, <1>2, <1>3, <1>5, <1>6
<1>7. CASE ~(full < Len(text) /\ boundary > start + MinChunkChars)
  BY <1>0, <1>1, <1>2, <1>3, <1>7
<1>. QED
  BY <1>6, <1>7

LEMMA NextStartIs ==
  ASSUME NEW start \in Nat, NEW end \in Nat, start < end, NEW next, next = NextStart(start, end)
  PROVE  next \in Nat /\ start < next /\ next <= end /\ end - next <= OverlapChars
<1>1. OverlapChars \in Nat
  BY ChunkingAssumption DEF ChunkingAssumption
<1>. DEFINE a == end - OverlapChars
            b == start + 1
<1>2. a \in Int /\ b \in Int /\ a <= end /\ b <= end
  BY <1>1
<1>3. next = Max({a, b})
  BY DEF NextStart
<1>4. next \in {a, b} /\ next >= a /\ next >= b
  <2>. HIDE DEF a, b
  <2>. QED
    BY <1>2, <1>3, MaxOfTwo
<1>. QED
  BY <1>1, <1>4

LEMMA NormalizeTextIs ==
  ASSUME NEW text \in Seq(Characters)
  PROVE  NormalizeText(text) \in Seq(Characters)
<1>. DEFINE solid == {i \in DOMAIN text : text[i] \notin Blank}
            kept(i) ==
              /\ \E a, b \in solid : a <= i /\ i <= b
              /\ text[i] # Space \/ \A k \in i..Len(text) :
                   text[k] = Newline => \E j \in i..k : text[j] \notin Blank
            takes == {x \in Seq(Nat) \X (DOMAIN text) : kept(x[2])}
            all == [k \in DOMAIN text |-> k]
            D == DOMAIN text
            positions == Gathered(all, takes)
<1>1. NormalizeText(text) = [k \in DOMAIN positions |-> text[positions[k]]]
  BY DEF NormalizeText
<1>2. all \in Seq(D)
  OBVIOUS
<1>. HIDE DEF takes, all
<1>3. positions \in Seq(D)
  BY <1>2, GatheredIsSeq
<1>. HIDE DEF positions
<1>4. \A k \in DOMAIN positions : text[positions[k]] \in Characters
  BY <1>3
<1>. QED
  BY <1>1, <1>3, <1>4

LEMMA PageOfIsSeq ==
  ASSUME NEW chunks \in Seq(TextChunks), NEW p
  PROVE  PageOf(chunks, p) \in Seq(TextChunks)
BY GatheredIsSeq DEF PageOf

(* A chunk more belongs to its page and to no other. *)
HasOneMore(more, chunks, chunk, p) ==
  PageOf(more, p) =
    IF chunk.type = "text" /\ chunk.page = p THEN Append(PageOf(chunks, p), chunk) ELSE PageOf(chunks, p)

LEMMA PageOfAppend ==
  ASSUME NEW chunks, NEW chunk, NEW more, NEW p, IsLonger(more, chunks, chunk, TextChunks)
  PROVE  HasOneMore(more, chunks, chunk, p)
<1>. DEFINE takes == {x \in Seq(TextChunks) \X TextChunks : x[2].type = "text" /\ x[2].page = p}
<1>1. chunks \in Seq(TextChunks) /\ chunk \in TextChunks
  BY DEF IsLonger
<1>2. PageOf(chunks, p) = Gathered(chunks, takes) /\ PageOf(more, p) = Gathered(more, takes)
  BY DEF PageOf
<1>3. <<PageOf(chunks, p), chunk>> \in takes <=> chunk.type = "text" /\ chunk.page = p
  BY <1>1, PageOfIsSeq
<1>. HIDE DEF takes
<1>4. IsRound(Gathered(more, takes), Gathered(chunks, takes), chunk, takes)
  BY GatheredOfAppend
<1>. QED
  BY <1>2, <1>3, <1>4 DEF IsRound, HasOneMore

LEMMA SoundAppend ==
  ASSUME NEW s \in Seq(TextChunks), NEW text \in Seq(Characters), NEW chunk \in TextChunks,
         PageIsSound(s, text), LastIsBefore(s, chunk.start),
         chunk.end - chunk.start <= TargetChars \/ Len(text) < MinChunkChars,
         chunk.end < Len(text) =>
           chunk.end - chunk.start > MinChunkChars \/ chunk.end - chunk.start = TargetChars
  PROVE  PageIsSound(Append(s, chunk), text)
<1>. DEFINE t == Append(s, chunk)
            N == Len(s)
<1>1. /\ DOMAIN t = 1..(N + 1) /\ DOMAIN s = 1..N /\ N \in Nat /\ t[N + 1] = chunk
      /\ \A c \in 1..N : t[c] = s[c]
  OBVIOUS
<1>2. s # <<>> <=> N > 0
  OBVIOUS
<1>. HIDE DEF t
<1>. SUFFICES ASSUME NEW c \in DOMAIN t
     PROVE /\ t[c].end - t[c].start <= TargetChars \/ Len(text) < MinChunkChars
           /\ t[c].end < Len(text) => t[c].end - t[c].start > MinChunkChars \/ t[c].end - t[c].start = TargetChars
           /\ c > 1 => t[c - 1].end - t[c].start <= OverlapChars /\ t[c].start > t[c - 1].start
  BY DEF PageIsSound, t
<1>3. CASE c = N + 1
  <2>1. t[c] = chunk /\ (c > 1 => c - 1 = N /\ t[c - 1] = s[N] /\ s # <<>>)
    BY <1>1, <1>2, <1>3
  <2>2. c > 1 => s[N].start < chunk.start /\ s[N].end - chunk.start <= OverlapChars
    BY <2>1 DEF LastIsBefore
  <2>3. c > 1 => s[N] \in TextChunks
    BY <1>1, <1>3
  <2>4. chunk.start \in Nat /\ (c > 1 => s[N].start \in Nat)
    BY <2>3 DEF TextChunks
  <2>. QED
    BY <2>1, <2>2, <2>4
<1>4. CASE c \in 1..N
  <2>1. t[c] = s[c] /\ (c > 1 => t[c - 1] = s[c - 1])
    BY <1>1, <1>4
  <2>. QED
    BY <1>1, <1>4, <2>1 DEF PageIsSound
<1>. QED
  BY <1>1, <1>3, <1>4

LEMMA CoveredAppend ==
  ASSUME NEW s \in Seq(TextChunks), NEW text \in Seq(Characters), NEW chunk \in TextChunks,
         IsCovered(s, text, chunk.start)
  PROVE  IsCovered(Append(s, chunk), text, chunk.end)
<1>. DEFINE t == Append(s, chunk)
            N == Len(s)
<1>1. /\ DOMAIN t = 1..(N + 1) /\ DOMAIN s = 1..N /\ N \in Nat /\ t[N + 1] = chunk
      /\ \A c \in 1..N : t[c] = s[c]
  OBVIOUS
<1>2. chunk.start \in Nat /\ chunk.end \in Nat
  BY DEF TextChunks
<1>. HIDE DEF t
<1>. SUFFICES ASSUME NEW i \in Nat, i < chunk.end, i < Len(text), CharAt(text, i) \notin Blank
     PROVE \E c \in DOMAIN t : t[c].start <= i /\ i < t[c].end
  BY DEF IsCovered, t
<1>3. CASE i < chunk.start
  <2>1. PICK c \in DOMAIN s : s[c].start <= i /\ i < s[c].end
    BY <1>3 DEF IsCovered
  <2>2. c \in DOMAIN t /\ t[c] = s[c]
    BY <1>1
  <2>. QED
    BY <2>1, <2>2
<1>4. CASE i >= chunk.start
  <2>1. N + 1 \in DOMAIN t
    BY <1>1
  <2>. QED
    BY <1>1, <1>4, <2>1
<1>. QED
  BY <1>2, <1>3, <1>4

(* The page in turn gets at most a chunk; the ones before it stay.           *)
LEMMA PageStepKeepsChunks ==
  ASSUME NEW c, ChunkedWell(c), c.node = "page", NEW d \in Chunkings, d.texts = c.texts,
         NEW chunk \in TextChunks, chunk.type = "text", chunk.page = Len(c.texts),
         d.chunks = c.chunks \/ d.chunks = Append(c.chunks, chunk),
         PageIsSound(PageOf(d.chunks, Len(c.texts)), c.texts[Len(c.texts)]),
         IF d.node = "page"
         THEN PageGoesOn(PageOf(d.chunks, Len(c.texts)), c.texts[Len(c.texts)], d.start)
         ELSE IsCovered(PageOf(d.chunks, Len(c.texts)), c.texts[Len(c.texts)], Len(c.texts[Len(c.texts)]))
  PROVE  ChunkedWell(d)
<1>. DEFINE N == Len(c.texts)
<1>0. c.texts # <<>> /\ c.texts \in Seq(Seq(Characters)) /\ c.chunks \in Seq(TextChunks)
  BY DEF ChunkedWell, Chunkings
<1>1. N \in Nat /\ DOMAIN c.texts = 1..N
  BY <1>0
<1>2. ASSUME NEW p \in Nat, p # N PROVE PageOf(d.chunks, p) = PageOf(c.chunks, p)
  <2>1. CASE d.chunks = c.chunks
    BY <2>1
  <2>2. CASE d.chunks = Append(c.chunks, chunk)
    <3>1. IsLonger(d.chunks, c.chunks, chunk, TextChunks)
      BY <1>0, <2>2 DEF IsLonger
    <3>2. HasOneMore(d.chunks, c.chunks, chunk, p)
      BY <3>1, PageOfAppend
    <3>. QED
      BY <1>2, <3>2 DEF HasOneMore
  <2>. QED
    BY <2>1, <2>2
<1>3. \A p \in Nat : p > Len(d.texts) => PageOf(d.chunks, p) = <<>>
  BY <1>1, <1>2 DEF ChunkedWell
<1>4. \A p \in DOMAIN d.texts : PageIsSound(PageOf(d.chunks, p), d.texts[p])
  BY <1>1, <1>2 DEF ChunkedWell
<1>5. \A p \in DOMAIN d.texts :
        p < Len(d.texts) \/ d.node # "page" => IsCovered(PageOf(d.chunks, p), d.texts[p], Len(d.texts[p]))
  BY <1>1, <1>2 DEF ChunkedWell
<1>. QED
  BY <1>0, <1>3, <1>4, <1>5 DEF ChunkedWell

LEMMA ChunkingInitHolds == ChunkingInit => ChunkingInv
<1>. SUFFICES ASSUME NEW paper \in ChunkedPapers, chunking = ChunkingOf(paper) PROVE ChunkingInv
  BY DEF ChunkingInit
<1>1. paper \in ChunkedInputs
  BY ChunkingAssumption DEF ChunkingAssumption, ChunkedInputs
<1>2. <<>> \in Seq(Seq(Characters)) /\ <<>> \in Seq(TextChunks) /\ DOMAIN <<>> = {}
  OBVIOUS
<1>3. chunking \in Chunkings
  BY <1>1, <1>2 DEF ChunkingOf, Chunkings
<1>4. chunking.texts = <<>> /\ chunking.chunks = <<>> /\ chunking.node = "abstract"
  BY DEF ChunkingOf
<1>5. \A p \in Nat : PageOf(<<>>, p) = <<>>
  BY GatheredOfNothing DEF PageOf
<1>. QED
  BY <1>2, <1>3, <1>4, <1>5 DEF ChunkingInv, ChunkedWell

(* A page whose text is there starts at its beginning, with no chunk.        *)
LEMMA TakePageKeepsInv == ChunkingInv /\ TakePage => ChunkingInv'
<1>. SUFFICES ASSUME ChunkingInv, TakePage PROVE ChunkingInv'
  OBVIOUS
<1>. DEFINE text == NormalizeText(chunking.paper.pages[Page + 1])
            N == Len(chunking.texts)
            texts == Append(chunking.texts, text)
            d == chunking'
<1>0. chunking \in Chunkings
  BY DEF ChunkingInv, ChunkedWell
<1>1. /\ chunking.texts \in Seq(Seq(Characters)) /\ N \in Nat /\ chunking.chunks \in Seq(TextChunks)
      /\ chunking.paper.pages \in Seq(Seq(Characters))
  BY <1>0 DEF Chunkings, ChunkedInputs
<1>2. Page = N /\ chunking.node = "pages" /\ N + 1 \in DOMAIN chunking.paper.pages
  BY <1>1 DEF TakePage, Page
<1>3. text \in Seq(Characters)
  <2>1. chunking.paper.pages[N + 1] \in Seq(Characters)
    BY <1>1, <1>2
  <2>. QED
    BY <1>2, <2>1, NormalizeTextIs
<1>4. d = [chunking EXCEPT !.node = "page", !.start = 0, !.texts = texts]
  BY DEF TakePage
<1>. HIDE DEF text
<1>5. /\ texts \in Seq(Seq(Characters)) /\ Len(texts) = N + 1 /\ DOMAIN texts = 1..(N + 1)
      /\ texts[N + 1] = text /\ DOMAIN chunking.texts = 1..N /\ texts # <<>>
      /\ \A p \in 1..N : texts[p] = chunking.texts[p]
  <2>. DEFINE before == chunking.texts
              S == Seq(Characters)
  <2>1. before \in Seq(S) /\ text \in S /\ texts = Append(before, text) /\ N = Len(before)
    BY <1>1, <1>3
  <2>. HIDE DEF before, S, texts, N
  <2>2. /\ texts \in Seq(S) /\ Len(texts) = N + 1 /\ DOMAIN texts = 1..(N + 1)
        /\ texts[N + 1] = text /\ DOMAIN before = 1..N /\ texts # <<>>
        /\ \A p \in 1..N : texts[p] = before[p]
    BY <2>1
  <2>. QED
    BY <2>2 DEF before, S
<1>. HIDE DEF texts
<1>6. d \in Chunkings
  BY <1>0, <1>4, <1>5 DEF Chunkings
<1>7. d.texts = texts /\ d.chunks = chunking.chunks /\ d.node = "page" /\ d.start = 0
  BY <1>0, <1>4 DEF Chunkings
<1>8. PageOf(chunking.chunks, N + 1) = <<>>
  BY <1>1 DEF ChunkingInv, ChunkedWell
<1>. HIDE DEF d
<1>9. PageIsSound(<<>>, text) /\ PageGoesOn(<<>>, text, 0)
  <2>1. DOMAIN <<>> = {} /\ Len(text) \in Nat
    BY <1>3
  <2>2. PageIsSound(<<>>, text)
    BY <2>1 DEF PageIsSound
  <2>3. IsCovered(<<>>, text, 0) /\ LastIsBefore(<<>>, 0)
    BY DEF IsCovered, LastIsBefore
  <2>4. MinChunkChars \in Nat /\ MinChunkChars > 0
    BY ChunkingAssumption DEF ChunkingAssumption
  <2>. QED
    BY <2>1, <2>2, <2>3, <2>4 DEF PageGoesOn
<1>10. \A p \in Nat : p > Len(d.texts) => PageOf(d.chunks, p) = <<>>
  BY <1>1, <1>5, <1>7 DEF ChunkingInv, ChunkedWell
<1>11. \A p \in 1..N :
         PageIsSound(PageOf(d.chunks, p), d.texts[p]) /\ IsCovered(PageOf(d.chunks, p), d.texts[p], Len(d.texts[p]))
  BY <1>2, <1>5, <1>7 DEF ChunkingInv, ChunkedWell
<1>12. \A p \in DOMAIN d.texts : p \in 1..N \/ p = N + 1
  BY <1>1, <1>5, <1>7
<1>13. \A p \in DOMAIN d.texts : PageIsSound(PageOf(d.chunks, p), d.texts[p])
  BY <1>5, <1>7, <1>8, <1>9, <1>11, <1>12
<1>14. \A p \in DOMAIN d.texts : p < Len(d.texts) => p \in 1..N
  BY <1>1, <1>5, <1>7
<1>15. ChunkedWell(d)
  BY <1>5, <1>6, <1>7, <1>8, <1>9, <1>10, <1>11, <1>13, <1>14 DEF ChunkedWell
<1>. QED
  BY <1>15 DEF ChunkingInv, d

(* What the two that chunk the page in turn start from.                      *)
LEMMA PageInTurn ==
  ASSUME ChunkingInv, chunking.node = "page"
  PROVE  /\ chunking \in Chunkings /\ Text = chunking.texts[Len(chunking.texts)] /\ Text \in Seq(Characters)
         /\ Page = Len(chunking.texts) /\ Page \in Nat
         /\ PageOf(chunking.chunks, Page) \in Seq(TextChunks)
         /\ PageIsSound(PageOf(chunking.chunks, Page), Text)
         /\ PageGoesOn(PageOf(chunking.chunks, Page), Text, chunking.start)
<1>1. /\ chunking \in Chunkings /\ chunking.texts # <<>> /\ chunking.texts \in Seq(Seq(Characters))
      /\ chunking.chunks \in Seq(TextChunks)
      /\ PageGoesOn(PageOf(chunking.chunks, Len(chunking.texts)), chunking.texts[Len(chunking.texts)], chunking.start)
  BY DEF ChunkingInv, ChunkedWell, Chunkings
<1>2. Len(chunking.texts) \in DOMAIN chunking.texts /\ Len(chunking.texts) \in Nat
  BY <1>1
<1>3. PageIsSound(PageOf(chunking.chunks, Len(chunking.texts)), chunking.texts[Len(chunking.texts)])
  BY <1>2 DEF ChunkingInv, ChunkedWell
<1>4. chunking.texts[Len(chunking.texts)] \in Seq(Characters)
  BY <1>1, <1>2
<1>. QED
  BY <1>1, <1>2, <1>3, <1>4, PageOfIsSeq DEF Text, Page

(* What Emit appends. *)
LEMMA EmitIs ==
  ASSUME chunking \in Chunkings, NEW type \in {"abstract", "text"}, NEW page \in Nat, NEW start \in Nat, NEW end \in Nat
  PROVE  \E chunk \in TextChunks :
           /\ chunk.type = type /\ chunk.page = page /\ chunk.start = start /\ chunk.end = end
           /\ Emit(type, page, start, end) = Append(chunking.chunks, chunk)
           /\ IsLonger(Emit(type, page, start, end), chunking.chunks, chunk, TextChunks)
<1>. DEFINE chunk == [id |-> Len(chunking.chunks), type |-> type, page |-> page, start |-> start, end |-> end]
<1>1. chunking.chunks \in Seq(TextChunks)
  BY DEF Chunkings
<1>2. chunk \in TextChunks
  BY <1>1 DEF TextChunks
<1>3. Emit(type, page, start, end) = Append(chunking.chunks, chunk)
  BY DEF Emit
<1>. QED
  BY <1>1, <1>2, <1>3 DEF IsLonger

(* A chunk of the page in turn. *)
LEMMA ChunkOfPageInTurn ==
  ASSUME ChunkingInv, chunking.node = "page", NEW start \in Nat, NEW end \in Nat,
         LastIsBefore(PageOf(chunking.chunks, Page), start),
         end - start <= TargetChars \/ Len(Text) < MinChunkChars,
         end < Len(Text) => end - start > MinChunkChars \/ end - start = TargetChars,
         IsCovered(PageOf(chunking.chunks, Page), Text, start),
         NEW more, more = Emit("text", Page, start, end)
  PROVE  /\ more \in Seq(TextChunks)
         /\ \E chunk \in TextChunks :
              /\ chunk.type = "text" /\ chunk.page = Page /\ chunk.start = start /\ chunk.end = end
              /\ more = Append(chunking.chunks, chunk)
              /\ PageOf(more, Page) = Append(PageOf(chunking.chunks, Page), chunk)
         /\ PageIsSound(PageOf(more, Page), Text)
         /\ IsCovered(PageOf(more, Page), Text, end)
<1>. DEFINE s == PageOf(chunking.chunks, Page)
<1>1. /\ chunking \in Chunkings /\ Text \in Seq(Characters) /\ Page \in Nat
      /\ s \in Seq(TextChunks) /\ PageIsSound(s, Text)
  BY PageInTurn
<1>2. PICK chunk \in TextChunks :
        /\ chunk.type = "text" /\ chunk.page = Page /\ chunk.start = start /\ chunk.end = end
        /\ more = Append(chunking.chunks, chunk)
        /\ IsLonger(more, chunking.chunks, chunk, TextChunks)
  BY <1>1, EmitIs
<1>3. HasOneMore(more, chunking.chunks, chunk, Page)
  BY <1>2, PageOfAppend
<1>4. PageOf(more, Page) = Append(s, chunk)
  BY <1>2, <1>3 DEF HasOneMore
<1>5. chunking.chunks \in Seq(TextChunks)
  BY <1>1 DEF Chunkings
<1>6. more \in Seq(TextChunks)
  <2>. DEFINE before == chunking.chunks
  <2>1. before \in Seq(TextChunks) /\ more = Append(before, chunk)
    BY <1>2, <1>5
  <2>. HIDE DEF before
  <2>. QED
    BY <2>1
<1>. HIDE DEF s
<1>7. LastIsBefore(s, chunk.start) /\ IsCovered(s, Text, chunk.start)
  BY <1>2 DEF s
<1>8. PageIsSound(Append(s, chunk), Text)
  BY <1>1, <1>2, <1>7, SoundAppend
<1>9. IsCovered(Append(s, chunk), Text, chunk.end)
  BY <1>1, <1>7, CoveredAppend
<1>. QED
  BY <1>2, <1>4, <1>6, <1>8, <1>9 DEF s

LEMMA ChunkShortPageKeepsInv == ChunkingInv /\ ChunkShortPage => ChunkingInv'
<1>. SUFFICES ASSUME ChunkingInv, ChunkShortPage PROVE ChunkingInv'
  OBVIOUS
<1>. DEFINE s == PageOf(chunking.chunks, Page)
            d == chunking'
            more == IF Text # <<>> THEN Emit("text", Page, 0, Len(Text)) ELSE chunking.chunks
<1>0. chunking.node = "page" /\ Len(Text) < MinChunkChars
  BY DEF ChunkShortPage
<1>1. /\ chunking \in Chunkings /\ Text \in Seq(Characters) /\ Page \in Nat /\ Page = Len(chunking.texts)
      /\ Text = chunking.texts[Len(chunking.texts)]
      /\ s \in Seq(TextChunks) /\ PageIsSound(s, Text) /\ PageGoesOn(s, Text, chunking.start)
  BY <1>0, PageInTurn
<1>2. s = <<>> /\ Len(Text) \in Nat /\ chunking.chunks \in Seq(TextChunks)
  BY <1>0, <1>1 DEF PageGoesOn, Chunkings
<1>3. d = [chunking EXCEPT !.node = "pages", !.chunks = more]
  BY DEF ChunkShortPage
<1>4. \E chunk \in TextChunks :
        /\ chunk.type = "text" /\ chunk.page = Page
        /\ more = chunking.chunks \/ more = Append(chunking.chunks, chunk)
        /\ more \in Seq(TextChunks)
        /\ PageIsSound(PageOf(more, Page), Text)
        /\ IsCovered(PageOf(more, Page), Text, Len(Text))
  <2>1. CASE Text # <<>>
    <3>1. LastIsBefore(s, 0) /\ IsCovered(s, Text, 0)
      BY <1>2 DEF LastIsBefore, IsCovered
    <3>2. more = Emit("text", Page, 0, Len(Text))
      BY <2>1
    <3>. HIDE DEF more
    <3>3. /\ more \in Seq(TextChunks) /\ PageIsSound(PageOf(more, Page), Text)
          /\ IsCovered(PageOf(more, Page), Text, Len(Text))
          /\ \E chunk \in TextChunks :
               chunk.type = "text" /\ chunk.page = Page /\ more = Append(chunking.chunks, chunk)
      BY <1>0, <1>2, <3>1, <3>2, ChunkOfPageInTurn
    <3>. QED
      BY <3>3
  <2>2. CASE Text = <<>>
    <3>1. [id |-> 0, type |-> "text", page |-> Page, start |-> 0, end |-> 0] \in TextChunks
      BY <1>1 DEF TextChunks
    <3>2. IsCovered(s, Text, Len(Text))
      BY <2>2 DEF IsCovered
    <3>. QED
      BY <1>1, <1>2, <2>2, <3>1, <3>2
  <2>. QED
    BY <2>1, <2>2
<1>. HIDE DEF more
<1>5. PICK chunk \in TextChunks :
        /\ chunk.type = "text" /\ chunk.page = Page
        /\ more = chunking.chunks \/ more = Append(chunking.chunks, chunk)
        /\ more \in Seq(TextChunks)
        /\ PageIsSound(PageOf(more, Page), Text)
        /\ IsCovered(PageOf(more, Page), Text, Len(Text))
  BY <1>4
<1>6. d \in Chunkings /\ d.texts = chunking.texts /\ d.chunks = more /\ d.node = "pages"
  BY <1>1, <1>3, <1>5 DEF Chunkings
<1>. HIDE DEF d
<1>7. ChunkedWell(chunking)
  BY DEF ChunkingInv
<1>8. ChunkedWell(d)
  BY <1>0, <1>1, <1>5, <1>6, <1>7, PageStepKeepsChunks
<1>. QED
  BY <1>8 DEF ChunkingInv, d

LEMMA ChunkWindowKeepsInv == ChunkingInv /\ ChunkWindow => ChunkingInv'
<1>. SUFFICES ASSUME ChunkingInv, ChunkWindow PROVE ChunkingInv'
  OBVIOUS
<1>. DEFINE s == PageOf(chunking.chunks, Page)
            d == chunking'
            start == chunking.start
            end == WindowEnd(Text, start)
            next == NextStart(start, end)
            more == IF HasText(Text, start, end) THEN Emit("text", Page, start, end) ELSE chunking.chunks
            node == IF end >= Len(Text) \/ next >= Len(Text) THEN "pages" ELSE "page"
<1>0. chunking.node = "page" /\ Len(Text) >= MinChunkChars
  BY DEF ChunkWindow
<1>1. /\ chunking \in Chunkings /\ Text \in Seq(Characters) /\ Page \in Nat /\ Page = Len(chunking.texts)
      /\ Text = chunking.texts[Len(chunking.texts)]
      /\ s \in Seq(TextChunks) /\ PageIsSound(s, Text) /\ PageGoesOn(s, Text, start)
  BY <1>0, PageInTurn
<1>2. Len(Text) \in Nat /\ start \in Nat /\ MinChunkChars \in Nat /\ chunking.chunks \in Seq(TextChunks)
  BY <1>1, ChunkingAssumption DEF ChunkingAssumption, Chunkings
<1>3. start < Len(Text) /\ IsCovered(s, Text, start) /\ LastIsBefore(s, start)
  BY <1>0, <1>1, <1>2 DEF PageGoesOn
<1>4. d = [chunking EXCEPT !.chunks = more, !.node = node, !.start = next]
  BY <1>0 DEF ChunkWindow
<1>5. HasText(Text, start, end) <=> \E i \in start..(end - 1) : CharAt(Text, i) \notin Blank
  BY DEF HasText
<1>6. /\ end \in Nat /\ start < end /\ end <= Len(Text) /\ end - start <= TargetChars
      /\ end < Len(Text) => end - start > MinChunkChars \/ end - start = TargetChars
  <2>. HIDE DEF start, end
  <2>1. end = WindowEnd(Text, start)
    BY DEF end
  <2>. QED
    BY <1>1, <1>2, <1>3, <2>1, WindowEndIs
<1>. HIDE DEF end
<1>7. next \in Nat /\ start < next /\ next <= end /\ end - next <= OverlapChars
  <2>. HIDE DEF start, next
  <2>1. next = NextStart(start, end)
    BY DEF next
  <2>. QED
    BY <1>2, <1>6, <2>1, NextStartIs
<1>. HIDE DEF next
<1>8. OverlapChars \in Nat
  BY ChunkingAssumption DEF ChunkingAssumption
<1>9. \E chunk \in TextChunks :
        /\ chunk.type = "text" /\ chunk.page = Page
        /\ more = chunking.chunks \/ more = Append(chunking.chunks, chunk)
        /\ more \in Seq(TextChunks)
        /\ PageIsSound(PageOf(more, Page), Text)
        /\ IsCovered(PageOf(more, Page), Text, end)
        /\ LastIsBefore(PageOf(more, Page), next)
  <2>1. CASE HasText(Text, start, end)
    <3>1. more = Emit("text", Page, start, end)
      BY <2>1
    <3>. HIDE DEF more, start
    <3>2. /\ more \in Seq(TextChunks)
          /\ \E chunk \in TextChunks :
               /\ chunk.type = "text" /\ chunk.page = Page /\ chunk.start = start /\ chunk.end = end
               /\ more = Append(chunking.chunks, chunk)
               /\ PageOf(more, Page) = Append(s, chunk)
          /\ PageIsSound(PageOf(more, Page), Text)
          /\ IsCovered(PageOf(more, Page), Text, end)
      <4>1. /\ ChunkingInv /\ chunking.node = "page" /\ start \in Nat /\ end \in Nat
            /\ LastIsBefore(PageOf(chunking.chunks, Page), start)
            /\ IsCovered(PageOf(chunking.chunks, Page), Text, start)
        BY <1>0, <1>2, <1>3, <1>6
      <4>2. /\ end - start <= TargetChars \/ Len(Text) < MinChunkChars
            /\ end < Len(Text) => end - start > MinChunkChars \/ end - start = TargetChars
        BY <1>6
      <4>. QED
        BY <3>1, <4>1, <4>2, ChunkOfPageInTurn
    <3>3. PICK chunk \in TextChunks :
               /\ chunk.type = "text" /\ chunk.page = Page /\ chunk.start = start /\ chunk.end = end
               /\ more = Append(chunking.chunks, chunk)
               /\ PageOf(more, Page) = Append(s, chunk)
      BY <3>2
    <3>. HIDE DEF s
    <3>4. Len(Append(s, chunk)) = Len(s) + 1 /\ Append(s, chunk)[Len(s) + 1] = chunk
      BY <1>1
    <3>5. LastIsBefore(PageOf(more, Page), next)
      BY <1>7, <3>3, <3>4 DEF LastIsBefore
    <3>. QED
      BY <3>2, <3>3, <3>5
  <2>2. CASE ~HasText(Text, start, end)
    <3>1. [id |-> 0, type |-> "text", page |-> Page, start |-> 0, end |-> 0] \in TextChunks
      BY <1>1 DEF TextChunks
    <3>2. \A i \in Nat : start <= i /\ i < end => CharAt(Text, i) \in Blank
      <4>. HIDE DEF start
      <4>1. \A i \in Nat : start <= i /\ i < end => i \in start..(end - 1)
        BY <1>2, <1>6
      <4>. QED
        BY <1>5, <2>2, <4>1
    <3>3. more = chunking.chunks
      BY <2>2
    <3>. HIDE DEF more, start, s
    <3>4. IsCovered(s, Text, end)
      BY <1>2, <1>3, <1>6, <3>2 DEF IsCovered
    <3>5. LastIsBefore(s, next)
      <4>. SUFFICES ASSUME s # <<>> PROVE s[Len(s)].start < next /\ s[Len(s)].end - next <= OverlapChars
        BY DEF LastIsBefore
      <4>1. s[Len(s)] \in TextChunks
        BY <1>1
      <4>2. s[Len(s)].start \in Nat /\ s[Len(s)].end \in Nat
        BY <4>1 DEF TextChunks
      <4>3. s[Len(s)].start < start /\ s[Len(s)].end - start <= OverlapChars
        BY <1>3 DEF LastIsBefore
      <4>. QED
        BY <1>2, <1>7, <1>8, <4>2, <4>3
    <3>6. PageOf(more, Page) = s
      BY <3>3 DEF s
    <3>. QED
      BY <1>1, <1>2, <3>1, <3>3, <3>4, <3>5, <3>6
  <2>. QED
    BY <2>1, <2>2
<1>. HIDE DEF more
<1>10. PICK chunk \in TextChunks :
        /\ chunk.type = "text" /\ chunk.page = Page
        /\ more = chunking.chunks \/ more = Append(chunking.chunks, chunk)
        /\ more \in Seq(TextChunks)
        /\ PageIsSound(PageOf(more, Page), Text)
        /\ IsCovered(PageOf(more, Page), Text, end)
        /\ LastIsBefore(PageOf(more, Page), next)
  BY <1>9
<1>11. node \in {"page", "pages"} /\ (IF node = "page" THEN next < Len(Text) ELSE end >= Len(Text))
  BY <1>2, <1>6, <1>7
<1>. HIDE DEF node
<1>12. d \in Chunkings /\ d.texts = chunking.texts /\ d.chunks = more /\ d.node = node /\ d.start = next
  BY <1>1, <1>4, <1>7, <1>10, <1>11 DEF Chunkings
<1>. HIDE DEF d, start, s
<1>13. CASE node = "page"
  <2>1. IsCovered(PageOf(more, Page), Text, next)
    BY <1>6, <1>7, <1>10 DEF IsCovered
  <2>2. PageGoesOn(PageOf(more, Page), Text, next)
    BY <1>0, <1>2, <1>10, <1>11, <1>13, <2>1 DEF PageGoesOn
  <2>3. ChunkedWell(chunking)
    BY DEF ChunkingInv
  <2>4. ChunkedWell(d)
    BY <1>0, <1>1, <1>10, <1>12, <1>13, <2>2, <2>3, PageStepKeepsChunks
  <2>. QED
    BY <2>4 DEF ChunkingInv, d
<1>14. CASE node = "pages"
  <2>1. IsCovered(PageOf(more, Page), Text, Len(Text))
    BY <1>2, <1>6, <1>10, <1>11, <1>14 DEF IsCovered
  <2>3. ChunkedWell(chunking)
    BY DEF ChunkingInv
  <2>4. ChunkedWell(d)
    BY <1>0, <1>1, <1>10, <1>12, <1>14, <2>1, <2>3, PageStepKeepsChunks
  <2>. QED
    BY <2>4 DEF ChunkingInv, d
<1>. QED
  BY <1>11, <1>13, <1>14

LEMMA ChunkingNextPreserves == ChunkingInv /\ [ChunkingNext]_chunking => ChunkingInv'
<1>. SUFFICES ASSUME ChunkingInv, [ChunkingNext]_chunking PROVE ChunkingInv'
  OBVIOUS
<1>0. chunking \in Chunkings
  BY DEF ChunkingInv, ChunkedWell
<1>1. CASE UNCHANGED chunking
  BY <1>1 DEF ChunkingInv
<1>2. CASE ChunkAbstract
  <2>. DEFINE more == IF chunking.paper.abstract THEN Emit("abstract", 0, 0, 0) ELSE chunking.chunks
              d == chunking'
  <2>0. d = [chunking EXCEPT !.node = "pages", !.chunks = more]
    BY <1>2 DEF ChunkAbstract
  <2>1. PICK chunk \in TextChunks :
          /\ chunk.type = "abstract"
          /\ IsLonger(Emit("abstract", 0, 0, 0), chunking.chunks, chunk, TextChunks)
    BY <1>0, EmitIs
  <2>2. \A p \in Nat : PageOf(Emit("abstract", 0, 0, 0), p) = PageOf(chunking.chunks, p)
    <3>1. \A p \in Nat : HasOneMore(Emit("abstract", 0, 0, 0), chunking.chunks, chunk, p)
      BY <2>1, PageOfAppend
    <3>. QED
      BY <2>1, <3>1 DEF HasOneMore
  <2>3. chunking.chunks \in Seq(TextChunks) /\ chunking.texts \in Seq(Seq(Characters))
    BY <1>0 DEF Chunkings
  <2>4. Emit("abstract", 0, 0, 0) \in Seq(TextChunks)
    BY <2>1 DEF IsLonger
  <2>5. more \in Seq(TextChunks) /\ \A p \in Nat : PageOf(more, p) = PageOf(chunking.chunks, p)
    BY <2>2, <2>3, <2>4
  <2>. HIDE DEF more
  <2>6. d \in Chunkings /\ d.node = "pages" /\ d.chunks = more /\ d.texts = chunking.texts
    BY <1>0, <2>0, <2>5 DEF Chunkings
  <2>7. DOMAIN chunking.texts \subseteq Nat /\ chunking.node # "page"
    BY <1>2, <2>3 DEF ChunkAbstract
  <2>. HIDE DEF d
  <2>8. ChunkedWell(d)
    BY <2>5, <2>6, <2>7 DEF ChunkedWell, ChunkingInv
  <2>. QED
    BY <2>8 DEF ChunkingInv, d
<1>3. CASE ChunkingDone
  <2>. DEFINE d == chunking'
  <2>1. /\ d \in Chunkings /\ d.node = "end" /\ d.chunks = chunking.chunks /\ d.texts = chunking.texts
        /\ chunking.node = "pages"
    BY <1>0, <1>3 DEF ChunkingDone, Chunkings
  <2>. HIDE DEF d
  <2>2. ChunkedWell(d)
    BY <2>1 DEF ChunkedWell, ChunkingInv
  <2>. QED
    BY <2>2 DEF ChunkingInv, d
<1>. QED
  BY <1>1, <1>2, <1>3, TakePageKeepsInv, ChunkShortPageKeepsInv, ChunkWindowKeepsInv DEF ChunkingNext

LEMMA ChunkingInvCovers == ChunkingInv => ChunksCoverThePaper
<1>. SUFFICES ASSUME ChunkingInv PROVE ChunksCoverThePaper
  OBVIOUS
<1>0. \A p : OfPage(p) = PageOf(chunking.chunks, p)
  BY DEF OfPage, PageOf
<1>1. chunking \in Chunkings /\ chunking.texts \in Seq(Seq(Characters))
  BY DEF ChunkingInv, ChunkedWell, Chunkings
<1>2. NothingIsLost
  <2>. SUFFICES ASSUME chunking.node = "end", NEW p \in DOMAIN chunking.texts,
                       NEW i \in 0..(Len(chunking.texts[p]) - 1), CharAt(chunking.texts[p], i) \notin Blank
                PROVE  \E c \in DOMAIN OfPage(p) : OfPage(p)[c].start <= i /\ i < OfPage(p)[c].end
    BY DEF NothingIsLost
  <2>1. IsCovered(PageOf(chunking.chunks, p), chunking.texts[p], Len(chunking.texts[p]))
    BY DEF ChunkingInv, ChunkedWell
  <2>2. chunking.texts[p] \in Seq(Characters)
    BY <1>1
  <2>3. Len(chunking.texts[p]) \in Nat
    BY <2>2
  <2>4. i \in Nat /\ i < Len(chunking.texts[p])
    BY <2>3
  <2>. QED
    BY <1>0, <2>1, <2>4 DEF IsCovered
<1>3. \A p \in DOMAIN chunking.texts : PageIsSound(OfPage(p), chunking.texts[p])
  BY <1>0 DEF ChunkingInv, ChunkedWell
<1>4. ChunksHaveTheirSize
  BY <1>3 DEF ChunksHaveTheirSize, PageIsSound
<1>5. WindowsMoveOn
  BY <1>3 DEF WindowsMoveOn, PageIsSound
<1>. QED
  BY <1>2, <1>4, <1>5 DEF ChunksCoverThePaper

(* services/chunking.py: whatever the target, the overlap and the minimum    *)
(* are, every character of a paper is in a chunk of the size it is to have,  *)
(* two that follow each other share at most the overlap and every window     *)
(* starts behind the one before it.                                          *)
THEOREM ChunksCoverPapers == ChunkingSpec => []ChunksCoverThePaper
BY ChunkingInitHolds, ChunkingNextPreserves, ChunkingInvCovers, PTL DEF ChunkingSpec

-----------------------------------------------------------------------------
(* Verdict *)

VerdictSpec == VerdictInit /\ [][VerdictNext]_verdict
Codes == [repo : Repos, stars : Nat, releases : BOOLEAN]
CodesOrNone == Codes \cup {NoCode}
ModelsOrNone == Models \cup {Nothing}
VerdictNodes ==
  {"benchmark", "sonnet", "benchmarked", "resources", "repos", "readiness", "verify", "report",
   "evidence_critic", "end", "failed"}
VerdictClaims == [maturity : Maturities \cup {Misspelt, "none"}, repos : Seq(Repos \cup {NoGithubUrl}), models : Seq(Models)]
Readinesses == [maturity : Maturities \cup {"none"}, code : CodesOrNone, model : ModelsOrNone]
VerdictReports == [action : VerdictActions \cup {"none"}, difficulty : Difficulties \cup {"none"}]
Mentions == Seq(Repos)

Verdicts ==
  [node : VerdictNodes, context : Contexts, rows : Int, parsed : Int, warned : BOOLEAN,
   mentioned : Mentions, checked : SUBSET Repos, code : CodesOrNone, model : ModelsOrNone,
   claims : VerdictClaims, found : SUBSET Codes, verified : SUBSET Models,
   readiness : Readinesses, report : VerdictReports, rendered : VerdictReports]

(* Until the rows are settled they are Unparsed, with nothing parsed so far, *)
(* or those of the last answer that could be parsed.                         *)
RowsOf(v) ==
  /\ v.rows = Unparsed => v.parsed = 0
  /\ v.rows # Unparsed => v.rows = v.parsed /\ v.rows >= 0
  /\ v.node = "benchmark" => v.rows = Unparsed
  /\ v.node \notin {"benchmark", "sonnet", "benchmarked", "failed"} =>
       v.rows # Unparsed /\ (v.rows = 0 => v.warned)

(* What the agents have found so far, and the best of it. *)
SignalsOf(v) ==
  /\ IsFiniteSet(v.checked)
  /\ v.code \in v.found \cup {NoCode}
  /\ v.code = NoCode <=> v.found = {}
  /\ \A code \in v.found : code.stars <= v.code.stars
  /\ v.model \in v.verified \cup {Nothing}
  /\ v.model = Nothing <=> v.verified = {}
  /\ v.node \in {"benchmark", "sonnet", "benchmarked", "resources"} => v.verified = {}

MaturityOf(v) ==
  /\ v.node \in {"benchmark", "sonnet", "benchmarked", "resources", "repos", "readiness", "verify"} =>
       v.readiness = NoReadiness
  /\ v.node \in {"report", "evidence_critic", "end"} => v.readiness # NoReadiness
  /\ v.readiness # NoReadiness =>
       /\ v.readiness.maturity \in Maturities
       /\ v.readiness.code = v.code /\ v.readiness.model = v.model
       /\ v.readiness.maturity = "research_only" <=> v.code = NoCode /\ v.model = Nothing
       /\ v.readiness.maturity = "production_ready" =>
            v.code.stars >= StarsFloor /\ (v.code.releases \/ v.model # Nothing)

(* A report is within what its maturity and its rows allow, so that the      *)
(* critic has nothing to take back.                                          *)
ReportOf(v) ==
  /\ v.node \notin {"evidence_critic", "end"} => v.report = NoVerdict
  /\ v.node \in {"evidence_critic", "end"} =>
       /\ v.rendered = v.report
       /\ v.rows = 0 => v.report.action # "implement_now"
       /\ v.readiness.maturity = "research_only" => v.report.action \in {"watch", "skip"}
       /\ v.report.action = "implement_now" => v.readiness.maturity = "production_ready"

VerdictInv ==
  verdict \in Verdicts /\ RowsOf(verdict) /\ SignalsOf(verdict) /\ MaturityOf(verdict) /\ ReportOf(verdict)

LEMMA VerdictConstants ==
  /\ NoCode \in CodesOrNone /\ NoCode \notin Codes
  /\ NoReadiness \in Readinesses /\ NoVerdict \in VerdictReports
  /\ NoCode.stars = 0
  /\ Nothing \in ModelsOrNone /\ Nothing \notin Models
BY VerdictAssumption DEF VerdictAssumption, NoCode, Codes, CodesOrNone, ModelsOrNone, NoReadiness,
   Readinesses, NoVerdict, VerdictReports

LEMMA VerdictInitHolds == VerdictInit => VerdictInv
<1>. SUFFICES ASSUME VerdictInit PROVE VerdictInv
  OBVIOUS
<1>1. PICK context \in Contexts, mentioned \in BoundedSeq(Repos, Cardinality(Repos)) :
        verdict = VerdictOf(context, mentioned)
  BY DEF VerdictInit
<1>2. mentioned \in Mentions
  BY BoundedSeqIsSeq DEF Mentions
<1>3. verdict \in Verdicts
  <2>1. [maturity |-> "none", repos |-> <<>>, models |-> <<>>] \in VerdictClaims
    BY DEF VerdictClaims
  <2>. QED
    BY <1>1, <1>2, <2>1, VerdictConstants DEF VerdictOf, Verdicts, VerdictNodes, Unparsed
<1>4. RowsOf(verdict) /\ SignalsOf(verdict) /\ MaturityOf(verdict) /\ ReportOf(verdict)
  BY <1>1, FS_EmptySet DEF VerdictOf, RowsOf, SignalsOf, MaturityOf, ReportOf, Unparsed
<1>. QED
  BY <1>3, <1>4 DEF VerdictInv

(* What each field is. *)
LEMMA VerdictFields ==
  ASSUME NEW v \in Verdicts
  PROVE  /\ v.node \in VerdictNodes /\ v.context \in Contexts /\ v.rows \in Int /\ v.parsed \in Int
         /\ v.warned \in BOOLEAN /\ v.mentioned \in Mentions /\ v.checked \in SUBSET Repos
         /\ v.code \in CodesOrNone /\ v.model \in ModelsOrNone /\ v.claims \in VerdictClaims
         /\ v.found \in SUBSET Codes /\ v.verified \in SUBSET Models
         /\ v.readiness \in Readinesses /\ v.report \in VerdictReports /\ v.rendered \in VerdictReports
BY DEF Verdicts

-----------------------------------------------------------------------------

(* A step that leaves alone what was found, and what was concluded from it.  *)
LEMMA VerdictFailsKeepsInv == VerdictInv /\ VerdictFails => VerdictInv'
<1>. SUFFICES ASSUME VerdictInv, VerdictFails PROVE VerdictInv'
  OBVIOUS
<1>1. verdict \in Verdicts /\ verdict' = [verdict EXCEPT !.node = "failed"]
      /\ verdict.node \in {"benchmark", "readiness", "report"}
  BY DEF VerdictInv, VerdictFails
<1>2. verdict' \in Verdicts
  BY <1>1 DEF Verdicts, VerdictNodes
<1>3. RowsOf(verdict') /\ SignalsOf(verdict') /\ MaturityOf(verdict') /\ ReportOf(verdict')
  BY <1>1 DEF VerdictInv, Verdicts, RowsOf, SignalsOf, MaturityOf, ReportOf
<1>. QED
  BY <1>2, <1>3 DEF VerdictInv

LEMMA BenchmarkKeepsInv ==
  VerdictInv /\ (AskHaiku \/ SonnetAnswers \/ SonnetFails \/ Benchmarked) => VerdictInv'
<1>. SUFFICES ASSUME VerdictInv, AskHaiku \/ SonnetAnswers \/ SonnetFails \/ Benchmarked
              PROVE  VerdictInv'
  OBVIOUS
<1>0. verdict \in Verdicts /\ verdict.node \in {"benchmark", "sonnet", "benchmarked"}
  BY DEF VerdictInv, AskHaiku, SonnetAnswers, SonnetFails, Benchmarked, VerdictAt
(* The answers to a call: the rows and what was parsed, if anything.         *)
<1>1. ASSUME NEW node \in {"sonnet", "benchmarked"}, NEW rows \in Nat \cup {Unparsed}, NEW parsed \in Nat,
             NEW warned \in BOOLEAN,
             verdict' = [verdict EXCEPT !.rows = rows, !.parsed = parsed, !.node = node, !.warned = warned],
             rows = Unparsed => parsed = 0, rows # Unparsed => parsed = rows
      PROVE  VerdictInv'
  <2>0. rows \in Int /\ parsed \in Int
    BY <1>1 DEF Unparsed
  <2>1. verdict' \in Verdicts
    BY <1>0, <1>1, <2>0 DEF Verdicts, VerdictNodes
  <2>2. RowsOf(verdict') /\ SignalsOf(verdict') /\ MaturityOf(verdict') /\ ReportOf(verdict')
    BY <1>0, <1>1 DEF VerdictInv, Verdicts, RowsOf, SignalsOf, MaturityOf, ReportOf, Unparsed
  <2>. QED
    BY <2>1, <2>2 DEF VerdictInv
<1>2. CASE AskHaiku
  <2>1. PICK rows \in 0..MaxRows \cup {Unparsed} :
          verdict' = [Answers(rows) EXCEPT
            !.node = IF ShouldAskSonnet(rows, verdict.context) THEN "sonnet" ELSE "benchmarked"]
    BY <1>2 DEF AskHaiku
  <2>2. rows \in Nat \cup {Unparsed} /\ verdict.rows = Unparsed /\ verdict.parsed = 0
    BY <1>2 DEF VerdictInv, RowsOf, AskHaiku, VerdictAt
  <2>. DEFINE parsed == IF rows = Unparsed THEN 0 ELSE rows
              node == IF ShouldAskSonnet(rows, verdict.context) THEN "sonnet" ELSE "benchmarked"
  <2>3. verdict' = [verdict EXCEPT !.rows = rows, !.parsed = parsed, !.node = node, !.warned = verdict.warned]
    BY <1>0, <2>1, <2>2 DEF Answers, Verdicts
  <2>4. /\ parsed \in Nat /\ node \in {"sonnet", "benchmarked"} /\ verdict.warned \in BOOLEAN
        /\ rows = Unparsed => parsed = 0
        /\ rows # Unparsed => parsed = rows
    BY <1>0, <2>2 DEF Verdicts
  <2>. HIDE DEF parsed, node
  <2>. QED
    BY <1>1, <2>2, <2>3, <2>4
<1>3. CASE SonnetAnswers
  <2>1. PICK rows \in 0..MaxRows :
          verdict' = [Answers(rows) EXCEPT !.node = "benchmarked", !.warned = TRUE]
    BY <1>3 DEF SonnetAnswers
  <2>2. rows \in Nat /\ rows # Unparsed
    BY DEF Unparsed
  <2>3. verdict' = [verdict EXCEPT !.rows = rows, !.parsed = rows, !.node = "benchmarked", !.warned = TRUE]
    BY <1>0, <2>1, <2>2 DEF Answers, Verdicts
  <2>. QED
    BY <1>1, <2>2, <2>3
<1>4. CASE SonnetFails
  <2>1. verdict.rows \in Nat \cup {Unparsed} /\ verdict.parsed \in Nat
        /\ (verdict.rows = Unparsed => verdict.parsed = 0) /\ (verdict.rows # Unparsed => verdict.parsed = verdict.rows)
    BY <1>0 DEF VerdictInv, RowsOf, Verdicts, Unparsed
  <2>2. verdict' = [verdict EXCEPT !.rows = verdict.rows, !.parsed = verdict.parsed, !.node = "benchmarked",
                                   !.warned = TRUE]
    BY <1>0, <1>4 DEF SonnetFails, Verdicts
  <2>. QED
    BY <1>1, <2>1, <2>2
<1>5. CASE Benchmarked
  <2>. DEFINE rows == IF verdict.rows = Unparsed THEN 0 ELSE verdict.rows
              none == [tables |-> FALSE, hard |-> FALSE, text |-> FALSE]
              warned == verdict.warned \/ rows = 0
  <2>1. rows \in Nat /\ verdict.parsed = rows /\ rows # Unparsed /\ none \in Contexts
    BY <1>0 DEF VerdictInv, RowsOf, Verdicts, Unparsed, Contexts
  <2>2. verdict' = [verdict EXCEPT !.node = "resources", !.rows = rows,
                                   !.warned = warned, !.context = none]
    BY <1>5 DEF Benchmarked
  <2>a. warned \in BOOLEAN /\ (rows = 0 => warned)
    OBVIOUS
  <2>. HIDE DEF rows, none, warned
  <2>3. verdict' \in Verdicts
    BY <1>0, <2>a, <2>1, <2>2 DEF Verdicts, VerdictNodes
  <2>4. RowsOf(verdict') /\ SignalsOf(verdict')
    BY <1>0, <2>a, <2>1, <2>2 DEF VerdictInv, Verdicts, RowsOf, SignalsOf
  <2>5. MaturityOf(verdict') /\ ReportOf(verdict')
    BY <1>0, <2>1, <2>2 DEF VerdictInv, Verdicts, MaturityOf, ReportOf
  <2>. QED
    BY <2>3, <2>4, <2>5 DEF VerdictInv
<1>. QED
  BY <1>2, <1>3, <1>4, <1>5

-----------------------------------------------------------------------------

LEMMA LookUpResourcesKeepsInv == VerdictInv /\ LookUpResources => VerdictInv'
<1>. SUFFICES ASSUME VerdictInv, LookUpResources PROVE VerdictInv'
  OBVIOUS
<1>1. PICK model \in Models \cup {Nothing} :
        verdict' = [verdict EXCEPT !.node = "repos", !.model = model,
                      !.verified = verdict.verified \cup ({model} \ {Nothing})]
  BY DEF LookUpResources, LinkedModels
<1>2. verdict \in Verdicts /\ verdict.node = "resources" /\ verdict.verified = {}
  BY DEF VerdictInv, LookUpResources, VerdictAt, SignalsOf
<1>3. /\ model \in ModelsOrNone
      /\ verdict.verified \cup ({model} \ {Nothing}) \in SUBSET Models
  BY <1>2 DEF ModelsOrNone
<1>4. verdict' \in Verdicts
  BY <1>1, <1>2, <1>3 DEF Verdicts, VerdictNodes
<1>5. RowsOf(verdict') /\ SignalsOf(verdict') /\ MaturityOf(verdict') /\ ReportOf(verdict')
  BY <1>1, <1>2, <1>3 DEF VerdictInv, Verdicts, RowsOf, SignalsOf, MaturityOf, ReportOf
<1>. QED
  BY <1>4, <1>5 DEF VerdictInv

(* What GitHub answers for a repository is a code or none, and the better of *)
(* it and the code so far has the most stars of all that were found.         *)
LEMMA CheckRepoIsTyped ==
  ASSUME NEW r \in Repos, NEW answer \in CheckRepo(r)
  PROVE  answer \in CodesOrNone
<1>1. \A releases \in BOOLEAN : FoundRepo(r, releases) \in Codes
  BY VerdictAssumption DEF VerdictAssumption, FoundRepo, Codes
<1>2. (r \in Released) \in BOOLEAN
  OBVIOUS
<1>3. answer = NoCode \/ \E releases \in {FALSE, (r \in Released)} : answer = FoundRepo(r, releases)
  BY Zenon DEF CheckRepo
<1>. QED
  BY <1>1, <1>2, <1>3, Zenon DEF CodesOrNone

LEMMA BetterCodeIsBest ==
  ASSUME NEW code \in CodesOrNone, NEW answer \in CodesOrNone, NEW found \in SUBSET Codes,
         code \in found \cup {NoCode}, code = NoCode <=> found = {},
         \A c \in found : c.stars <= code.stars
  PROVE  LET better == BetterCode(code, answer)
             all == found \cup ({answer} \ {NoCode})
         IN /\ better \in CodesOrNone /\ all \in SUBSET Codes
            /\ better \in all \cup {NoCode}
            /\ better = NoCode <=> all = {}
            /\ \A c \in all : c.stars <= better.stars
BY VerdictConstants DEF BetterCode, CodesOrNone, Codes

LEMMA CheckedIsTyped ==
  ASSUME NEW v \in Verdicts, NEW checked \in SUBSET Repos, NEW claims \in VerdictClaims,
         NEW code \in CodesOrNone, NEW found \in SUBSET Codes
  PROVE  [v EXCEPT !.checked = checked, !.claims = claims, !.code = code, !.found = found] \in Verdicts
BY DEF Verdicts

LEMMA ChecksKeepsInv ==
  ASSUME VerdictInv, verdict.node \in {"repos", "verify"},
         NEW r \in Repos, NEW answer \in CheckRepo(r), NEW checked \in SUBSET Repos, IsFiniteSet(checked),
         NEW claims \in VerdictClaims,
         verdict' = [verdict EXCEPT !.checked = checked, !.claims = claims,
                       !.code = BetterCode(verdict.code, answer),
                       !.found = verdict.found \cup ({answer} \ {NoCode})]
  PROVE  VerdictInv'
<1>. DEFINE code == BetterCode(verdict.code, answer)
            found == verdict.found \cup ({answer} \ {NoCode})
<1>1. verdict \in Verdicts /\ SignalsOf(verdict)
  BY DEF VerdictInv
<1>2. /\ code \in CodesOrNone /\ found \in SUBSET Codes
      /\ code \in found \cup {NoCode}
      /\ code = NoCode <=> found = {}
      /\ \A c \in found : c.stars <= code.stars
  <2>1. /\ verdict.code \in CodesOrNone /\ verdict.found \in SUBSET Codes
        /\ verdict.code \in verdict.found \cup {NoCode}
        /\ verdict.code = NoCode <=> verdict.found = {}
        /\ \A c \in verdict.found : c.stars <= verdict.code.stars
    BY <1>1, VerdictFields DEF SignalsOf
  <2>2. answer \in CodesOrNone
    BY CheckRepoIsTyped
  <2>. QED
    BY <2>1, <2>2, BetterCodeIsBest
<1>3. verdict' = [verdict EXCEPT !.checked = checked, !.claims = claims, !.code = code, !.found = found]
  OBVIOUS
<1>. HIDE DEF code, found
<1>4. verdict' \in Verdicts
  <2>1. code \in CodesOrNone /\ found \in SUBSET Codes
    BY <1>2
  <2>2. [verdict EXCEPT !.checked = checked, !.claims = claims, !.code = code, !.found = found] \in Verdicts
    BY <1>1, <2>1, CheckedIsTyped, Zenon
  <2>. QED
    BY <1>3, <2>2
<1>5. RowsOf(verdict')
  BY <1>1, <1>3 DEF VerdictInv, Verdicts, RowsOf
<1>6. SignalsOf(verdict')
  <2>1. /\ verdict'.checked = checked /\ verdict'.code = code /\ verdict'.found = found
        /\ verdict'.node = verdict.node /\ verdict'.model = verdict.model /\ verdict'.verified = verdict.verified
    BY <1>1, <1>3 DEF Verdicts
  <2>. QED
    BY <1>1, <1>2, <2>1 DEF SignalsOf
<1>7. MaturityOf(verdict') /\ ReportOf(verdict')
  BY <1>1, <1>3 DEF VerdictInv, Verdicts, MaturityOf, ReportOf
<1>. QED
  BY <1>4, <1>5, <1>6, <1>7 DEF VerdictInv

LEMMA CheckMentionedKeepsInv == VerdictInv /\ CheckMentioned => VerdictInv'
<1>. SUFFICES ASSUME VerdictInv, CheckMentioned PROVE VerdictInv'
  OBVIOUS
<1>. DEFINE r == verdict.mentioned[Cardinality(verdict.checked) + 1]
<1>1. verdict \in Verdicts /\ verdict.node = "repos" /\ IsFiniteSet(verdict.checked)
  BY DEF VerdictInv, CheckMentioned, VerdictAt, SignalsOf
<1>2. r \in Repos
  <2>1. Cardinality(verdict.checked) \in Nat /\ Cardinality(verdict.checked) < Len(verdict.mentioned)
    BY <1>1, FS_CardinalityType DEF CheckMentioned
  <2>2. verdict.mentioned \in Seq(Repos)
    BY <1>1, VerdictFields DEF Mentions
  <2>. QED
    BY <2>1, <2>2
<1>3. PICK answer \in CheckRepo(r) : verdict' = Checks(r, answer)
  BY DEF CheckMentioned
<1>. HIDE DEF r
<1>4. verdict.checked \cup {r} \in SUBSET Repos /\ IsFiniteSet(verdict.checked \cup {r})
  BY <1>1, <1>2, VerdictFields, FS_AddElement
<1>5. verdict' = [verdict EXCEPT !.checked = verdict.checked \cup {r}, !.claims = verdict.claims,
                    !.code = BetterCode(verdict.code, answer),
                    !.found = verdict.found \cup ({answer} \ {NoCode})]
  BY <1>1, <1>3 DEF Checks, Verdicts
<1>. QED
  BY <1>1, <1>2, <1>4, <1>5, VerdictFields, ChecksKeepsInv

(* The LLM's claims, one after the other: only the claims change. *)
LEMMA ClaimsChangeKeepsInv ==
  ASSUME VerdictInv, verdict.node \in {"repos", "readiness", "verify"}, NEW claims \in VerdictClaims,
         NEW mentioned \in Mentions, NEW node \in {"readiness", "verify"},
         verdict' = [verdict EXCEPT !.node = node, !.mentioned = mentioned, !.claims = claims]
  PROVE  VerdictInv'
<1>1. verdict \in Verdicts
  BY DEF VerdictInv
<1>2. verdict' \in Verdicts
  BY <1>1 DEF Verdicts, VerdictNodes
<1>3. RowsOf(verdict') /\ SignalsOf(verdict') /\ MaturityOf(verdict') /\ ReportOf(verdict')
  BY <1>1 DEF VerdictInv, Verdicts, RowsOf, SignalsOf, MaturityOf, ReportOf
<1>. QED
  BY <1>2, <1>3 DEF VerdictInv

LEMMA MentionsCheckedKeepsInv == VerdictInv /\ MentionsChecked => VerdictInv'
<1>. SUFFICES ASSUME VerdictInv, MentionsChecked PROVE VerdictInv'
  OBVIOUS
<1>1. verdict \in Verdicts /\ verdict.node = "repos" /\ <<>> \in Mentions
  BY DEF VerdictInv, MentionsChecked, VerdictAt, Mentions
<1>2. verdict' = [verdict EXCEPT !.node = "readiness", !.mentioned = <<>>, !.claims = verdict.claims]
  BY <1>1 DEF MentionsChecked, Verdicts
<1>. QED
  BY <1>1, <1>2, VerdictFields, ClaimsChangeKeepsInv

LEMMA FirstOfIsTyped ==
  ASSUME NEW S, NEW claimed \in Seq(S)
  PROVE  FirstOf(claimed) \in Seq(S)
BY VerdictAssumption DEF FirstOf, VerdictAssumption

LEMMA ClaimReadinessKeepsInv == VerdictInv /\ ClaimReadiness => VerdictInv'
<1>. SUFFICES ASSUME VerdictInv, ClaimReadiness PROVE VerdictInv'
  OBVIOUS
<1>1. verdict \in Verdicts /\ verdict.node = "readiness"
  BY DEF VerdictInv, ClaimReadiness, VerdictAt
<1>2. PICK maturity \in Maturities \cup {Misspelt},
           repos \in BoundedSeq(Repos \cup {NoGithubUrl}, ClaimLimit + 1),
           models \in BoundedSeq(Models, ClaimLimit) :
        verdict' = [verdict EXCEPT !.node = "verify",
                      !.claims = [maturity |-> maturity, repos |-> FirstOf(repos), models |-> FirstOf(models)]]
  BY DEF ClaimReadiness
<1>. DEFINE claims == [maturity |-> maturity, repos |-> FirstOf(repos), models |-> FirstOf(models)]
<1>3. claims \in VerdictClaims
  BY BoundedSeqIsSeq, FirstOfIsTyped DEF VerdictClaims
<1>4. verdict' = [verdict EXCEPT !.node = "verify", !.mentioned = verdict.mentioned, !.claims = claims]
  BY <1>1, <1>2 DEF Verdicts
<1>. HIDE DEF claims
<1>. QED
  BY <1>1, <1>3, <1>4, VerdictFields, ClaimsChangeKeepsInv

LEMMA VerifyRepoKeepsInv == VerdictInv /\ VerifyRepo => VerdictInv'
<1>. SUFFICES ASSUME VerdictInv, VerifyRepo PROVE VerdictInv'
  OBVIOUS
<1>. DEFINE r == Head(verdict.claims.repos)
            claims == [verdict.claims EXCEPT !.repos = Tail(verdict.claims.repos)]
<1>1. verdict \in Verdicts /\ verdict.node = "verify" /\ verdict.claims.repos # <<>> /\ verdict.claims \in VerdictClaims
      /\ IsFiniteSet(verdict.checked)
  BY VerdictFields DEF VerdictInv, VerifyRepo, VerdictAt, SignalsOf
<1>2. verdict.claims.repos \in Seq(Repos \cup {NoGithubUrl})
  BY <1>1 DEF VerdictClaims
<1>3. r \in Repos \cup {NoGithubUrl} /\ Tail(verdict.claims.repos) \in Seq(Repos \cup {NoGithubUrl})
  BY <1>1, <1>2
<1>4. claims \in VerdictClaims
  BY <1>1, <1>3 DEF VerdictClaims
<1>5. CASE r \in verdict.checked \cup {NoGithubUrl}
  <2>1. verdict' = [verdict EXCEPT !.claims = claims]
    BY <1>1, <1>5 DEF VerifyRepo, Verdicts
  <2>. HIDE DEF claims, r
  <2>2. verdict' = [verdict EXCEPT !.node = "verify", !.mentioned = verdict.mentioned, !.claims = claims]
    BY <1>1, <2>1 DEF Verdicts
  <2>. QED
    BY <1>1, <1>4, <2>2, VerdictFields, ClaimsChangeKeepsInv
<1>6. CASE r \notin verdict.checked \cup {NoGithubUrl}
  <2>1. PICK answer \in CheckRepo(r) :
          verdict' = [[Checks(r, answer) EXCEPT !.claims.repos = Tail(@)] EXCEPT !.checked = verdict.checked]
    BY <1>6 DEF VerifyRepo
  <2>2. verdict' = [verdict EXCEPT !.checked = verdict.checked, !.claims = claims,
                      !.code = BetterCode(verdict.code, answer),
                      !.found = verdict.found \cup ({answer} \ {NoCode})]
    BY <1>1, <2>1 DEF Checks, Verdicts
  <2>. HIDE DEF claims
  <2>3. verdict.checked \in SUBSET Repos /\ r \in Repos
    BY <1>1, <1>3, <1>6, VerdictFields
  <2>. HIDE DEF r
  <2>. QED
    BY <1>1, <1>4, <2>2, <2>3, ChecksKeepsInv
<1>. QED
  BY <1>5, <1>6

LEMMA VerifyModelKeepsInv == VerdictInv /\ VerifyModel => VerdictInv'
<1>. SUFFICES ASSUME VerdictInv, VerifyModel PROVE VerdictInv'
  OBVIOUS
<1>. DEFINE model == Head(verdict.claims.models)
            emptied == [verdict.claims EXCEPT !.models = <<>>]
            shortened == [verdict.claims EXCEPT !.models = Tail(verdict.claims.models)]
<1>1. /\ verdict \in Verdicts /\ verdict.node = "verify" /\ verdict.claims.models # <<>>
      /\ verdict.claims \in VerdictClaims /\ verdict.model = Nothing
      /\ RowsOf(verdict) /\ SignalsOf(verdict) /\ MaturityOf(verdict) /\ ReportOf(verdict)
  BY VerdictFields DEF VerdictInv, VerifyModel, VerdictAt
<1>2. verdict.claims.models \in Seq(Models)
  BY <1>1 DEF VerdictClaims
<1>3. model \in Models /\ Tail(verdict.claims.models) \in Seq(Models)
  BY <1>1, <1>2
<1>4. emptied \in VerdictClaims /\ shortened \in VerdictClaims
  <2>1. <<>> \in Seq(Models)
    OBVIOUS
  <2>. QED
    BY <1>1, <1>3, <2>1 DEF VerdictClaims
<1>5. \/ verdict' = [verdict EXCEPT !.model = model, !.verified = verdict.verified \cup {model},
                       !.claims = emptied]
      \/ verdict' = [verdict EXCEPT !.claims = shortened]
  BY <1>1 DEF VerifyModel, Verdicts
<1>. HIDE DEF model, emptied, shortened
<1>6. CASE verdict' = [verdict EXCEPT !.model = model, !.verified = verdict.verified \cup {model},
                         !.claims = emptied]
  <2>1. model \in ModelsOrNone /\ model # Nothing /\ verdict.verified \cup {model} \in SUBSET Models
    BY <1>1, <1>3, VerdictFields, VerdictConstants DEF ModelsOrNone
  <2>2. verdict' \in Verdicts
    BY <1>1, <1>4, <1>6, <2>1 DEF Verdicts
  <2>3. RowsOf(verdict') /\ SignalsOf(verdict')
    BY <1>1, <1>6, <2>1 DEF Verdicts, RowsOf, SignalsOf
  <2>4. MaturityOf(verdict') /\ ReportOf(verdict')
    BY <1>1, <1>6 DEF Verdicts, MaturityOf, ReportOf
  <2>. QED
    BY <2>2, <2>3, <2>4 DEF VerdictInv
<1>7. CASE verdict' = [verdict EXCEPT !.claims = shortened]
  <2>1. verdict' = [verdict EXCEPT !.node = "verify", !.mentioned = verdict.mentioned, !.claims = shortened]
    BY <1>1, <1>7 DEF Verdicts
  <2>. QED
    BY <1>1, <1>4, <2>1, VerdictFields, ClaimsChangeKeepsInv
<1>. QED
  BY <1>5, <1>6, <1>7

-----------------------------------------------------------------------------

(* _normalize, for any claim, code and model. *)
LEMMA MaturityIsEarned ==
  ASSUME NEW claimed, NEW code \in CodesOrNone, NEW model
  PROVE  /\ Maturity(claimed, code, model) \in Maturities
         /\ Maturity(claimed, code, model) = "research_only" <=> code = NoCode /\ model = Nothing
         /\ Maturity(claimed, code, model) = "production_ready" =>
              code.stars >= StarsFloor /\ (code.releases \/ model # Nothing)
<1>1. code.releases \in BOOLEAN /\ code.stars \in Int /\ StarsFloor \in Int
  <2>1. CASE code = NoCode
    BY <2>1, VerdictAssumption DEF VerdictAssumption, NoCode
  <2>2. CASE code \in Codes
    BY <2>2, VerdictAssumption DEF VerdictAssumption, Codes
  <2>. QED
    BY <2>1, <2>2 DEF CodesOrNone
<1>2. CASE code = NoCode /\ model = Nothing
  <2>1. code.releases = FALSE
    BY <1>2 DEF NoCode
  <2>. QED
    BY <1>2, <2>1 DEF Maturity, Maturities
<1>3. CASE ~(code = NoCode /\ model = Nothing)
  BY <1>1, <1>3 DEF Maturity, Maturities
<1>. QED
  BY <1>2, <1>3

LEMMA NormalizeReadinessKeepsInv == VerdictInv /\ NormalizeReadiness => VerdictInv'
<1>. SUFFICES ASSUME VerdictInv, NormalizeReadiness PROVE VerdictInv'
  OBVIOUS
<1>. DEFINE maturity == Maturity(verdict.claims.maturity, verdict.code, verdict.model)
            readiness == [maturity |-> maturity, code |-> verdict.code, model |-> verdict.model]
            claims == [maturity |-> "none", repos |-> <<>>, models |-> <<>>]
<1>1. /\ verdict \in Verdicts /\ verdict.node = "verify"
      /\ RowsOf(verdict) /\ SignalsOf(verdict) /\ MaturityOf(verdict) /\ ReportOf(verdict)
  BY DEF VerdictInv, NormalizeReadiness, VerdictAt
<1>2. verdict' = [verdict EXCEPT !.node = "report", !.readiness = readiness, !.claims = claims]
  BY DEF NormalizeReadiness
<1>3. /\ maturity \in Maturities
      /\ maturity = "research_only" <=> verdict.code = NoCode /\ verdict.model = Nothing
      /\ maturity = "production_ready" =>
           verdict.code.stars >= StarsFloor /\ (verdict.code.releases \/ verdict.model # Nothing)
  BY <1>1, VerdictFields, MaturityIsEarned
<1>. HIDE DEF maturity
<1>4. /\ readiness \in Readinesses /\ readiness.maturity = maturity
      /\ readiness.code = verdict.code /\ readiness.model = verdict.model
  BY <1>1, <1>3, VerdictFields DEF Readinesses
<1>5. claims \in VerdictClaims
  BY DEF VerdictClaims
<1>. HIDE DEF readiness, claims
<1>6. verdict' \in Verdicts
  BY <1>1, <1>2, <1>4, <1>5 DEF Verdicts, VerdictNodes
<1>7. RowsOf(verdict') /\ SignalsOf(verdict')
  BY <1>1, <1>2 DEF Verdicts, RowsOf, SignalsOf
<1>8. MaturityOf(verdict')
  <2>1. readiness # NoReadiness
    BY <1>3, <1>4 DEF NoReadiness, Maturities
  <2>. QED
    BY <1>1, <1>2, <1>3, <1>4, <2>1 DEF Verdicts, MaturityOf
<1>9. ReportOf(verdict')
  BY <1>1, <1>2 DEF Verdicts, ReportOf
<1>. QED
  BY <1>6, <1>7, <1>8, <1>9 DEF VerdictInv

(* _normalize_engineer_report, for any claim, readiness and number of rows.  *)
LEMMA NormalizedIsCapped ==
  ASSUME NEW claim, NEW readiness \in Readinesses, readiness # NoReadiness => readiness.maturity \in Maturities,
         NEW rows
  PROVE  LET report == Normalized(claim, readiness, rows)
         IN /\ report \in [action : VerdictActions, difficulty : Difficulties]
            /\ rows = 0 => report.action # "implement_now"
            /\ readiness.maturity = "research_only" => report.action \in {"watch", "skip"}
            /\ readiness.maturity = "experimental" => report.action # "implement_now"
<1>. DEFINE action == Valid(claim.action, VerdictActions, "skip")
            difficulty == Valid(claim.difficulty, Difficulties, "research_only")
<1>1. action \in VerdictActions /\ difficulty \in Difficulties
  BY DEF Valid, VerdictActions, Difficulties
<1>. DEFINE mature == CASE readiness.maturity = "research_only" -> AtMost(action, "watch")
                        [] readiness.maturity = "experimental" -> AtMost(action, "prototype")
                        [] OTHER -> action
            final == IF rows = 0 THEN AtMost(mature, "prototype") ELSE mature
            hard == CASE readiness.maturity = "research_only" -> "research_only"
                      [] readiness.maturity = "experimental" /\ difficulty = "trivial" -> "moderate"
                      [] OTHER -> difficulty
<1>2. Normalized(claim, readiness, rows) = [action |-> final, difficulty |-> hard]
  BY DEF Normalized
<1>. HIDE DEF action, difficulty
<1>3. /\ mature \in VerdictActions
      /\ readiness.maturity = "research_only" => mature \in {"watch", "skip"}
      /\ readiness.maturity = "experimental" => mature # "implement_now"
  BY <1>1 DEF AtMost, VerdictActions
<1>4. hard \in Difficulties
  BY <1>1 DEF Difficulties
<1>. HIDE DEF mature, hard
<1>5. /\ final \in VerdictActions
      /\ rows = 0 => final # "implement_now"
      /\ readiness.maturity = "research_only" => final \in {"watch", "skip"}
      /\ readiness.maturity = "experimental" => final # "implement_now"
  BY <1>3 DEF AtMost, VerdictActions
<1>. HIDE DEF final
<1>. QED
  BY <1>2, <1>4, <1>5

LEMMA WriteReportKeepsInv == VerdictInv /\ WriteReport => VerdictInv'
<1>. SUFFICES ASSUME VerdictInv, WriteReport PROVE VerdictInv'
  OBVIOUS
<1>1. /\ verdict \in Verdicts /\ verdict.node = "report"
      /\ RowsOf(verdict) /\ SignalsOf(verdict) /\ MaturityOf(verdict) /\ ReportOf(verdict)
  BY DEF VerdictInv, WriteReport, VerdictAt
<1>2. PICK claim \in [action : VerdictActions \cup {Misspelt}, difficulty : Difficulties \cup {Misspelt}] :
        verdict' = [verdict EXCEPT !.node = "evidence_critic",
                      !.report = Normalized(claim, verdict.readiness, verdict.rows),
                      !.rendered = Normalized(claim, verdict.readiness, verdict.rows)]
  BY DEF WriteReport
<1>. DEFINE report == Normalized(claim, verdict.readiness, verdict.rows)
<1>3. verdict.readiness \in Readinesses /\ verdict.readiness # NoReadiness
      /\ verdict.readiness.maturity \in Maturities
  BY <1>1, VerdictFields DEF MaturityOf
<1>4. /\ report \in [action : VerdictActions, difficulty : Difficulties]
      /\ verdict.rows = 0 => report.action # "implement_now"
      /\ verdict.readiness.maturity = "research_only" => report.action \in {"watch", "skip"}
      /\ verdict.readiness.maturity = "experimental" => report.action # "implement_now"
  BY <1>3, NormalizedIsCapped
<1>5. verdict' = [verdict EXCEPT !.node = "evidence_critic", !.report = report, !.rendered = report]
  BY <1>2
<1>. HIDE DEF report
<1>6. report \in VerdictReports
  BY <1>4 DEF VerdictReports
<1>7. verdict' \in Verdicts
  BY <1>1, <1>5, <1>6 DEF Verdicts, VerdictNodes
<1>8. RowsOf(verdict') /\ SignalsOf(verdict') /\ MaturityOf(verdict')
  BY <1>1, <1>3, <1>5 DEF Verdicts, RowsOf, SignalsOf, MaturityOf
<1>9. ReportOf(verdict')
  BY <1>1, <1>3, <1>4, <1>5 DEF Verdicts, ReportOf, Maturities
<1>. QED
  BY <1>7, <1>8, <1>9 DEF VerdictInv

(* The critic finds the report as it would have it, and so the markdown that *)
(* was rendered before says the same.                                        *)
LEMMA CriticChangesNothing ==
  ASSUME VerdictInv, verdict.node = "evidence_critic"
  PROVE  Criticized(verdict.report) = verdict.report
<1>. DEFINE action == IF verdict.rows = 0 THEN AtMost(verdict.report.action, "prototype")
                      ELSE verdict.report.action
<1>1. verdict.report \in VerdictReports /\ ReportOf(verdict)
  BY VerdictFields DEF VerdictInv
<1>2. action = verdict.report.action
  BY <1>1 DEF ReportOf, AtMost
<1>3. verdict.readiness.maturity = "research_only" => AtMost(action, "watch") = action
  BY <1>1, <1>2 DEF ReportOf, AtMost
<1>4. [verdict.report EXCEPT !.action = action] = verdict.report
  BY <1>1, <1>2 DEF VerdictReports
<1>5. Criticized(verdict.report) =
        IF verdict.readiness.maturity = "research_only" /\ AtMost(action, "watch") # action
        THEN [action |-> "watch", difficulty |-> "research_only"]
        ELSE [verdict.report EXCEPT !.action = action]
  BY DEF Criticized
<1>. HIDE DEF action
<1>. QED
  BY <1>3, <1>4, <1>5

LEMMA EvidenceCriticKeepsInv == VerdictInv /\ EvidenceCritic => VerdictInv'
<1>. SUFFICES ASSUME VerdictInv, EvidenceCritic PROVE VerdictInv'
  OBVIOUS
<1>1. /\ verdict \in Verdicts /\ verdict.node = "evidence_critic"
      /\ RowsOf(verdict) /\ SignalsOf(verdict) /\ MaturityOf(verdict) /\ ReportOf(verdict)
  BY DEF VerdictInv, EvidenceCritic, VerdictAt
<1>2. verdict' = [verdict EXCEPT !.node = "end", !.report = verdict.report]
  BY <1>1, CriticChangesNothing DEF EvidenceCritic
<1>3. verdict' \in Verdicts
  BY <1>1, <1>2 DEF Verdicts, VerdictNodes
<1>4. RowsOf(verdict') /\ SignalsOf(verdict')
  BY <1>1, <1>2 DEF Verdicts, RowsOf, SignalsOf
<1>5. MaturityOf(verdict') /\ ReportOf(verdict')
  BY <1>1, <1>2 DEF Verdicts, MaturityOf, ReportOf
<1>. QED
  BY <1>3, <1>4, <1>5 DEF VerdictInv

LEMMA VerdictNextPreserves == VerdictInv /\ [VerdictNext]_verdict => VerdictInv'
<1>. SUFFICES ASSUME VerdictInv, [VerdictNext]_verdict PROVE VerdictInv'
  OBVIOUS
<1>1. CASE UNCHANGED verdict
  BY <1>1 DEF VerdictInv
<1>2. CASE VerdictNext
  BY <1>2, VerdictFailsKeepsInv, BenchmarkKeepsInv, LookUpResourcesKeepsInv, CheckMentionedKeepsInv,
     MentionsCheckedKeepsInv, ClaimReadinessKeepsInv, VerifyRepoKeepsInv, VerifyModelKeepsInv,
     NormalizeReadinessKeepsInv, WriteReportKeepsInv, EvidenceCriticKeepsInv DEF VerdictNext
<1>. QED
  BY <1>1, <1>2

LEMMA VerdictInvIsEnough == VerdictInv => VerdictIsEarned
<1>. SUFFICES ASSUME VerdictInv PROVE VerdictIsEarned
  OBVIOUS
<1>1. /\ verdict \in Verdicts
      /\ RowsOf(verdict) /\ SignalsOf(verdict) /\ MaturityOf(verdict) /\ ReportOf(verdict)
  BY DEF VerdictInv
<1>2. RowsAreAccountedFor
  BY <1>1 DEF RowsOf, RowsAreAccountedFor
<1>3. MaturityIsVerified
  BY <1>1 DEF SignalsOf, MaturityOf, MaturityIsVerified
<1>4. ImplementNowIsEarned
  <2>. SUFFICES ASSUME verdict.report.action = "implement_now" PROVE ImplementNowIsEarned
    BY DEF ImplementNowIsEarned
  <2>1. verdict.node \in {"evidence_critic", "end"}
    BY <1>1 DEF ReportOf, NoVerdict
  <2>2. /\ verdict.rows # 0 /\ verdict.rows # Unparsed
        /\ verdict.readiness # NoReadiness /\ verdict.readiness.maturity = "production_ready"
    BY <1>1, <2>1 DEF ReportOf, MaturityOf, RowsOf
  <2>3. verdict.rows > 0
    BY <1>1, <2>2, VerdictFields DEF RowsOf
  <2>4. verdict.code.stars >= StarsFloor /\ (verdict.code.releases \/ verdict.model # Nothing)
    BY <1>1, <2>2 DEF MaturityOf
  <2>5. verdict.code # NoCode
    BY <2>4, VerdictConstants, VerdictAssumption DEF VerdictAssumption
  <2>6. verdict.code \in verdict.found /\ (verdict.model # Nothing => verdict.verified # {})
    BY <1>1, <2>5 DEF SignalsOf
  <2>. QED
    BY <2>3, <2>4, <2>6 DEF ImplementNowIsEarned
<1>5. MarkdownMatchesVerdict
  BY <1>1 DEF ReportOf, MarkdownMatchesVerdict
<1>. QED
  BY <1>2, <1>3, <1>4, <1>5 DEF VerdictIsEarned

(* What the analysis of a paper recommends rests on the rows that were read  *)
(* and on what GitHub and HuggingFace confirmed, whatever the LLM claims and *)
(* whoever does not answer, and the markdown says just that                  *)
(* (readiness_agent, report_agent, evidence_critic_agent).                   *)
THEOREM VerdictsAreEarned == VerdictSpec => []VerdictIsEarned
BY VerdictInitHolds, VerdictNextPreserves, VerdictInvIsEnough, PTL DEF VerdictSpec

-----------------------------------------------------------------------------
(* Synthesis *)

SynthesisSpec == SynthesisInit /\ [][SynthesisNext]_synthesis
ExtractionSpec == ExtractionInit /\ [][ExtractionNext]_extraction
SynthesisReports ==
  [persona : Readers \cup {"none"}, cites : SUBSET SynthesisPapers, limits : SUBSET (SynthesisPapers \X Parts),
   by : {"nobody", "llm", "code"}]

Missings == UNION {[papers -> SUBSET Parts] : papers \in SUBSET SynthesisPapers}

Syntheses ==
  [node : {"selected", "asking", "end"}, persona : Readers, papers : SUBSET SynthesisPapers,
   missing : Missings, compared : SUBSET SynthesisPapers, context : SUBSET SynthesisPapers,
   report : SynthesisReports, status : {"none", "completed", "fallback_used"}]

(* The papers of a request stay what they are, each with the parts that are  *)
(* missing.                                                                  *)
SynthesisInv ==
  /\ synthesis \in Syntheses
  /\ synthesis.papers # {} /\ synthesis.missing \in [synthesis.papers -> SUBSET Parts]
  /\ SynthesisIsGrounded

LEMMA SynthesisInitHolds == SynthesisInit => SynthesisInv
<1>. SUFFICES ASSUME SynthesisInit PROVE SynthesisInv
  OBVIOUS
<1>1. PICK reader \in Readers, papers \in SUBSET SynthesisPapers, compared \in SUBSET SynthesisPapers :
        \E missing \in [papers -> SUBSET Parts] :
          Cardinality(papers) >= 2 /\ synthesis = SynthesisOf(reader, papers, missing, compared)
  BY DEF SynthesisInit
<1>2. PICK missing \in [papers -> SUBSET Parts] :
        Cardinality(papers) >= 2 /\ synthesis = SynthesisOf(reader, papers, missing, compared)
  BY <1>1
<1>3. papers # {} /\ missing \in Missings
  BY <1>2, FS_EmptySet DEF Missings
<1>4. NoSynthesis \in SynthesisReports
  BY DEF NoSynthesis, SynthesisReports
<1>5. synthesis \in Syntheses
  BY <1>2, <1>3, <1>4 DEF SynthesisOf, Syntheses
<1>. QED
  BY <1>2, <1>3, <1>5 DEF SynthesisInv, SynthesisOf, SynthesisIsGrounded

(* A report ends the synthesis. *)
LEMMA ReportEndsSynthesis ==
  ASSUME SynthesisInv, NEW report \in SynthesisReports, NEW status \in {"completed", "fallback_used"},
         synthesis' = [synthesis EXCEPT !.node = "end", !.status = status, !.report = report],
         report.persona = synthesis.persona, report.cites # {}, report.cites \subseteq synthesis.papers,
         report.by = "code" <=> status = "fallback_used",
         report.by = "code" =>
           /\ report.cites = synthesis.papers
           /\ report.limits = {l \in synthesis.papers \X Parts : l[2] \in synthesis.missing[l[1]]}
  PROVE  SynthesisInv'
<1>1. synthesis' \in Syntheses
  BY DEF SynthesisInv, Syntheses
<1>2. /\ synthesis'.report = report /\ synthesis'.status = status
      /\ synthesis'.persona = synthesis.persona
      /\ synthesis'.papers = synthesis.papers /\ synthesis'.missing = synthesis.missing
  BY DEF SynthesisInv, Syntheses
<1>. QED
  BY <1>1, <1>2 DEF SynthesisInv, SynthesisIsGrounded

LEMMA SynthesisNextPreserves == SynthesisInv /\ [SynthesisNext]_synthesis => SynthesisInv'
<1>. SUFFICES ASSUME SynthesisInv, [SynthesisNext]_synthesis PROVE SynthesisInv'
  OBVIOUS
<1>0. /\ synthesis \in Syntheses /\ synthesis.papers \in SUBSET SynthesisPapers /\ synthesis.persona \in Readers
      /\ synthesis.papers # {} /\ synthesis.missing \in [synthesis.papers -> SUBSET Parts]
  BY DEF SynthesisInv, Syntheses
<1>1. CASE UNCHANGED synthesis
  BY <1>1 DEF SynthesisInv, SynthesisIsGrounded
<1>2. CASE LatestRelevantComparison
  BY <1>2 DEF LatestRelevantComparison, SynthesisInv, Syntheses, SynthesisIsGrounded
<1>3. CASE SynthesisAnswers
  <2>1. PICK payload \in Payloads :
          /\ Usable(payload)
          /\ synthesis' = [synthesis EXCEPT !.node = "end", !.status = "completed",
               !.report = [persona |-> synthesis.persona, cites |-> Kept(payload), limits |-> {}, by |-> "llm"]]
    BY <1>3 DEF SynthesisAnswers
  <2>. DEFINE report == [persona |-> synthesis.persona, cites |-> Kept(payload), limits |-> {}, by |-> "llm"]
  <2>2. Kept(payload) # {} /\ Kept(payload) \subseteq synthesis.papers
    BY <2>1 DEF Usable, Kept
  <2>3. report \in SynthesisReports
    BY <1>0, <2>2 DEF SynthesisReports
  <2>. QED
    BY <2>1, <2>2, <2>3, ReportEndsSynthesis
<1>4. CASE SynthesisFallsBack
  <2>1. UNION {Limitations(p) : p \in synthesis.papers} =
          {l \in synthesis.papers \X Parts : l[2] \in synthesis.missing[l[1]]}
    BY <1>0 DEF Limitations
  <2>2. /\ FallbackReport.persona = synthesis.persona /\ FallbackReport.cites = synthesis.papers
        /\ FallbackReport.by = "code"
        /\ FallbackReport.limits = {l \in synthesis.papers \X Parts : l[2] \in synthesis.missing[l[1]]}
    BY <2>1 DEF FallbackReport, FallbackCites
  <2>3. FallbackReport \in SynthesisReports
    <3>1. {l \in synthesis.papers \X Parts : l[2] \in synthesis.missing[l[1]]} \in SUBSET (SynthesisPapers \X Parts)
      BY <1>0
    <3>. QED
      BY <1>0, <2>1, <3>1 DEF FallbackReport, FallbackCites, SynthesisReports
  <2>4. synthesis' = [synthesis EXCEPT !.node = "end", !.status = "fallback_used", !.report = FallbackReport]
    BY <1>4 DEF SynthesisFallsBack
  <2>. QED
    BY <1>0, <2>2, <2>3, <2>4, ReportEndsSynthesis
<1>. QED
  BY <1>1, <1>2, <1>3, <1>4 DEF SynthesisNext

(* Every synthesis is for the reader of the session and cites only papers it *)
(* is about, whoever wrote it; the one the code writes cites all of them and *)
(* says all that is missing (agents/synthesis_agent.py).                     *)
THEOREM SynthesesAreGrounded == SynthesisSpec => []SynthesisIsGrounded
<1>1. SynthesisInv => SynthesisIsGrounded
  BY DEF SynthesisInv
<1>. QED
  BY <1>1, SynthesisInitHolds, SynthesisNextPreserves, PTL DEF SynthesisSpec

-----------------------------------------------------------------------------
(* Extraction *)

Extractions ==
  [node : {"start", "asking", "repairing", "failed", "human_review", "benchmark"},
   source : {"pdf", "abstract_fallback"}, length : TextLengths, read : SUBSET Nat, calls : Nat,
   confidence : Int, review : BOOLEAN, gated : BOOLEAN]

(* One call per node of the two that ask; what waits at human_review is not  *)
(* sure, and is all there is of an abstract.                                 *)
ExtractionInv ==
  /\ extraction \in Extractions
  /\ extraction.node \in {"start", "asking"} => extraction.calls = 0
  /\ extraction.node = "repairing" => extraction.calls = 1
  /\ extraction.node # "benchmark" => ~extraction.gated
  /\ extraction.node = "human_review" =>
       /\ extraction.confidence < ConfidenceThreshold
       /\ extraction.source = "abstract_fallback" => extraction.confidence <= 50
  /\ ExtractionIsCautious

(* Whatever the LLM gives, the confidence is a share of one. *)
LEMMA ParseConfidenceIsAShare ==
  ASSUME NEW claim \in ConfidenceClaims
  PROVE  ParseConfidence(claim) \in 0..100
<1>1. CASE claim = NoNumber \/ claim = NaN
  BY <1>1 DEF ParseConfidence
<1>2. CASE claim # NoNumber /\ claim # NaN
  <2>1. claim \in Int
    BY <1>2, ExtractionAssumption DEF ExtractionAssumption
  <2>. DEFINE share == IF claim > 100 THEN claim \div 100 ELSE claim
              low == Min({100, share})
  <2>2. share \in Int
    BY <2>1
  <2>. HIDE DEF share
  <2>3. low \in Int /\ low <= 100
    BY <2>2, MinOfTwo
  <2>4. ParseConfidence(claim) = Max({0, low})
    BY <1>2 DEF ParseConfidence, share
  <2>. HIDE DEF low
  <2>5. Max({0, low}) \in {0, low} /\ Max({0, low}) >= 0
    BY <2>3, MaxOfTwo
  <2>. QED
    BY <2>3, <2>4, <2>5
<1>. QED
  BY <1>1, <1>2

LEMMA ExtractionInitHolds == ExtractionInit => ExtractionInv
BY DEF ExtractionInit, ExtractionOf, ExtractionInv, Extractions, ExtractionIsCautious

(* _select_relevant_text: the beginning and the end are read. *)
LEMMA SelectedHasHeadAndTail ==
  ASSUME NEW length \in Nat
  PROVE  /\ Selected(length) \in SUBSET Nat
         /\ \A n \in 1..length : n <= HeadChars \/ n > length - TailChars => n \in Selected(length)
BY ExtractionAssumption DEF ExtractionAssumption, Selected

LEMMA ExtractionNextPreserves == ExtractionInv /\ [ExtractionNext]_extraction => ExtractionInv'
<1>. SUFFICES ASSUME ExtractionInv, [ExtractionNext]_extraction PROVE ExtractionInv'
  OBVIOUS
<1>0. extraction \in Extractions
  BY DEF ExtractionInv
<1>1. CASE UNCHANGED extraction
  BY <1>1 DEF ExtractionInv, ExtractionIsCautious
<1>2. CASE ReadPaper
  <2>1. CASE extraction' = [extraction EXCEPT !.node = "failed"]
    BY <1>2, <2>1 DEF ReadPaper, ExtractionInv, Extractions, ExtractionIsCautious
  <2>2. CASE extraction' = [extraction EXCEPT !.node = "asking", !.read = Selected(extraction.length)]
    <3>1. extraction.length \in Nat
      BY <1>0, ExtractionAssumption DEF ExtractionAssumption, Extractions
    <3>2. Selected(extraction.length) \in SUBSET Nat
      BY <3>1, SelectedHasHeadAndTail
    <3>3. extraction' \in Extractions
      BY <1>0, <2>2, <3>2 DEF Extractions
    <3>4. /\ extraction'.node = "asking" /\ extraction'.read = Selected(extraction.length)
          /\ extraction'.length = extraction.length /\ extraction'.calls = extraction.calls
          /\ extraction'.review = extraction.review /\ extraction'.gated = extraction.gated
      BY <1>0, <2>2 DEF Extractions
    <3>5. extraction.calls = 0 /\ extraction.review = FALSE /\ extraction.gated = FALSE
      BY <1>0, <1>2 DEF ReadPaper, ExtractionInv, ExtractionIsCautious, Extractions
    <3>. QED
      BY <3>1, <3>3, <3>4, <3>5, SelectedHasHeadAndTail DEF ExtractionInv, ExtractionIsCautious
  <2>. QED
    BY <1>2, <2>1, <2>2 DEF ReadPaper
<1>3. CASE ExtractionFails \/ ExtractionUnreadable
  <2>1. PICK node \in {"failed", "repairing"} :
          /\ extraction' = [extraction EXCEPT !.node = node, !.calls = extraction.calls + 1]
          /\ node = "repairing" => extraction.node = "asking"
    BY <1>3 DEF ExtractionFails, ExtractionUnreadable, AfterBadJson
  <2>2. /\ extraction.node \in {"asking", "repairing"}
        /\ extraction.review = FALSE /\ extraction.gated = FALSE
    BY <1>0, <1>3 DEF ExtractionFails, ExtractionUnreadable, ExtractionInv, ExtractionIsCautious, Extractions
  <2>3. extraction.calls + 1 \in Nat
    BY <1>0 DEF Extractions
  <2>. DEFINE more == extraction.calls + 1
  <2>5. more \in Nat
    BY <2>3
  <2>6. extraction' = [extraction EXCEPT !.node = node, !.calls = more]
    BY <2>1
  <2>. HIDE DEF more
  <2>7. extraction' \in Extractions
    BY <1>0, <2>5, <2>6 DEF Extractions
  <2>4. /\ extraction'.node = node /\ extraction'.calls = extraction.calls + 1
        /\ extraction'.review = FALSE /\ extraction'.gated = FALSE
    BY <1>0, <2>1, <2>2 DEF Extractions
  <2>. QED
    BY <2>1, <2>2, <2>7, <2>4 DEF ExtractionInv, ExtractionIsCautious
<1>5. CASE Extract
  <2>1. PICK claim \in ConfidenceClaims :
          LET confidence == Min({ParseConfidence(claim), MaxConfidence}) IN
          extraction' = [extraction EXCEPT !.calls = extraction.calls + 1, !.confidence = confidence,
                          !.review = confidence < ConfidenceThreshold,
                          !.node = IF confidence < ConfidenceThreshold THEN "human_review" ELSE "benchmark"]
    BY <1>5 DEF Extract
  <2>. DEFINE confidence == Min({ParseConfidence(claim), MaxConfidence})
              review == confidence < ConfidenceThreshold
              node == IF confidence < ConfidenceThreshold THEN "human_review" ELSE "benchmark"
  <2>2. MaxConfidence \in Int /\ ParseConfidence(claim) \in Int
    BY ParseConfidenceIsAShare DEF MaxConfidence
  <2>3. confidence \in Int /\ confidence <= MaxConfidence
    BY <2>2, MinOfTwo
  <2>4. extraction' = [extraction EXCEPT !.calls = extraction.calls + 1, !.confidence = confidence,
                          !.review = review, !.node = node]
    BY <2>1
  <2>. HIDE DEF confidence
  <2>5. /\ review \in BOOLEAN /\ node \in {"human_review", "benchmark"}
        /\ review <=> node = "human_review"
        /\ node = "benchmark" <=> confidence >= ConfidenceThreshold
        /\ extraction.source = "abstract_fallback" => confidence <= 50 /\ node = "human_review"
    BY <1>0, <2>3, ExtractionAssumption DEF ExtractionAssumption, MaxConfidence, Extractions
  <2>. HIDE DEF review, node
  <2>6. extraction.calls <= 1 /\ extraction.gated = FALSE
    BY <1>0, <1>5 DEF Extract, ExtractionInv, Extractions
  <2>. DEFINE more == extraction.calls + 1
  <2>10. more \in Nat
    BY <1>0 DEF Extractions
  <2>11. extraction' = [extraction EXCEPT !.calls = more, !.confidence = confidence,
                          !.review = review, !.node = node]
    BY <2>4
  <2>. HIDE DEF more
  <2>7. extraction' \in Extractions
    BY <1>0, <2>3, <2>10, <2>11, <2>5 DEF Extractions
  <2>8. /\ extraction'.node = node /\ extraction'.calls = extraction.calls + 1 /\ extraction'.review = review
        /\ extraction'.confidence = confidence /\ extraction'.source = extraction.source
        /\ extraction'.gated = extraction.gated
    BY <1>0, <2>4 DEF Extractions
  <2>9. extraction.calls \in Nat
    BY <1>0 DEF Extractions
  <2>12. extraction.calls + 1 <= 2
    BY <2>6, <2>9
  <2>13. ConfidenceThreshold \in Int
    BY ExtractionAssumption DEF ExtractionAssumption
  <2>14. node = "human_review" => confidence < ConfidenceThreshold
    BY <2>3, <2>5, <2>13
  <2>15. ExtractionIsCautious'
    BY <2>3, <2>5, <2>6, <2>8, <2>12, <2>13, <2>14 DEF ExtractionIsCautious
  <2>. QED
    BY <2>5, <2>6, <2>7, <2>8, <2>14, <2>15 DEF ExtractionInv
<1>6. CASE HumanReview
  <2>1. extraction.node = "human_review"
        /\ extraction' = [extraction EXCEPT !.node = "benchmark", !.review = FALSE, !.gated = TRUE]
    BY <1>6 DEF HumanReview
  <2>2. extraction' \in Extractions
    BY <1>0, <2>1 DEF Extractions
  <2>3. /\ extraction'.node = "benchmark" /\ extraction'.review = FALSE /\ extraction'.gated
        /\ extraction'.confidence = extraction.confidence /\ extraction'.source = extraction.source
        /\ extraction'.calls = extraction.calls
    BY <1>0, <2>1 DEF Extractions
  <2>. QED
    BY <2>1, <2>2, <2>3 DEF ExtractionInv, ExtractionIsCautious
<1>. QED
  BY <1>1, <1>2, <1>3, <1>5, <1>6 DEF ExtractionNext

(* Whatever the LLM claims: of the papers that reach their benchmarks        *)
(* exactly the unsure ones, and all that have only an abstract, came through *)
(* human_review; no paper costs more than a call and its repair, and the     *)
(* beginning and the end of the paper are read (extraction_agent,            *)
(* human_review_node).                                                       *)
THEOREM ExtractionsAreCautious == ExtractionSpec => []ExtractionIsCautious
<1>1. ExtractionInv => ExtractionIsCautious
  BY DEF ExtractionInv
<1>. QED
  BY <1>1, ExtractionInitHolds, ExtractionNextPreserves, PTL DEF ExtractionSpec

-----------------------------------------------------------------------------
(* Job requests *)

RequestSpec == RequestInit /\ [][RequestNext]_request

(* dict.fromkeys: each of the ids once, in their order.                      *)
LEMMA UniqueHasEachOnce ==
  ASSUME NEW ids \in Seq(Texts)
  PROVE  /\ Unique(ids) \in Seq(Texts)
         /\ Range(Unique(ids)) = Range(ids)
         /\ IsInjective(Unique(ids))
         /\ IsInjective(ids) => Unique(ids) = ids
<1>. DEFINE takes == {x \in Seq(Texts) \X Texts : x[2] \notin Range(x[1])}
            Fits(s, u) == /\ u \in Seq(Texts) /\ Range(u) = Range(s) /\ IsInjective(u)
                          /\ IsInjective(s) => u = s
            T == {s \in Seq(Texts) : Fits(s, Gathered(s, takes))}
<1>0. \A u, x : <<u, x>> \in takes <=> u \in Seq(Texts) /\ x \in Texts /\ x \notin Range(u)
  OBVIOUS
<1>. HIDE DEF takes
<1>1. <<>> \in T
  <2>1. <<>> \in Seq(Texts) /\ IsInjective(<<>>)
    BY DEF IsInjective
  <2>2. Gathered(<<>>, takes) = <<>>
    BY GatheredOfNothing
  <2>. QED
    BY <2>1, <2>2
<1>2. ASSUME NEW s \in Seq(Texts), NEW x \in Texts, s \in T PROVE Append(s, x) \in T
  <2>. DEFINE u == Gathered(s, takes)
              t == Append(s, x)
  <2>1. Fits(s, u)
    BY <1>2
  <2>. HIDE DEF u
  <2>2. Gathered(t, takes) = IF <<u, x>> \in takes THEN Append(u, x) ELSE u
    <3>1. IsLonger(t, s, x, Texts)
      BY DEF IsLonger
    <3>. HIDE DEF T, t
    <3>2. IsRound(Gathered(t, takes), Gathered(s, takes), x, takes)
      BY <3>1, GatheredOfAppend
    <3>. QED
      BY <3>2 DEF u, IsRound
  <2>3. t \in Seq(Texts) /\ Range(t) = Range(s) \cup {x} /\ (IsInjective(t) => IsInjective(s) /\ x \notin Range(s))
    <3>1. t \in Seq(Texts) /\ Range(t) = Range(s) \cup {x}
      BY RangeOfAppend
    <3>2. /\ DOMAIN t = 1..(Len(s) + 1) /\ DOMAIN s = 1..Len(s) /\ Len(s) \in Nat
          /\ t[Len(s) + 1] = x /\ \A k \in 1..Len(s) : t[k] = s[k]
      OBVIOUS
    <3>. HIDE DEF t
    <3>3. /\ \A k \in 1..Len(s) : k \in 1..(Len(s) + 1) /\ k # Len(s) + 1
          /\ Len(s) + 1 \in 1..(Len(s) + 1)
      BY <3>2
    <3>4. IsInjective(t) => IsInjective(s) /\ x \notin Range(s)
      BY <3>2, <3>3 DEF IsInjective, Range
    <3>. QED
      BY <3>1, <3>4
  <2>4. <<u, x>> \in takes <=> x \notin Range(s)
    BY <1>0, <2>1
  <2>5. Append(u, x) \in Seq(Texts) /\ Range(Append(u, x)) = Range(u) \cup {x}
    BY <2>1, RangeOfAppend
  <2>6. x \notin Range(u) => IsInjective(Append(u, x))
    BY <2>1, RangeOfAppend
  <2>7. CASE x \notin Range(s)
    <3>1. Gathered(t, takes) = Append(u, x)
      BY <2>2, <2>4, <2>7
    <3>2. Fits(t, Append(u, x))
      BY <2>1, <2>3, <2>5, <2>6, <2>7
    <3>. QED
      BY <2>3, <3>1, <3>2
  <2>8. CASE x \in Range(s)
    <3>1. Gathered(t, takes) = u
      BY <2>2, <2>4, <2>8
    <3>2. Fits(t, u)
      BY <2>1, <2>3, <2>8
    <3>. QED
      BY <2>3, <3>1, <3>2
  <2>. QED
    BY <2>7, <2>8
<1>. HIDE DEF T
<1>3. Seq(Texts) \subseteq T
  BY <1>1, <1>2, SequenceInduction
<1>4. Fits(ids, Gathered(ids, takes))
  BY <1>3 DEF T
<1>. QED
  BY <1>4 DEF Unique, takes

LEMMA UniqueOnceIsEnough ==
  ASSUME NEW ids \in Seq(Texts)
  PROVE  Unique(ids) \in Seq(Texts) /\ Unique(Unique(ids)) = Unique(ids)
<1>1. Unique(ids) \in Seq(Texts) /\ IsInjective(Unique(ids))
  BY UniqueHasEachOnce
<1>. DEFINE u == Unique(ids)
<1>2. u \in Seq(Texts) /\ IsInjective(u)
  BY <1>1
<1>. HIDE DEF u
<1>3. Unique(u) = u
  BY <1>2, UniqueHasEachOnce
<1>. QED
  BY <1>2, <1>3 DEF u

LEMMA RangeIsNoLarger ==
  ASSUME NEW S, NEW s \in Seq(S)
  PROVE  Cardinality(Range(s)) \in Nat /\ Cardinality(Range(s)) <= Len(s)
<1>1. Len(s) \in Nat /\ DOMAIN s = 1..Len(s) /\ s \in [1..Len(s) -> S]
  OBVIOUS
<1>2. s \in Surjection(1..Len(s), Range(s))
  BY <1>1 DEF Surjection, Range
<1>3. IsFiniteSet(1..Len(s)) /\ Cardinality(1..Len(s)) = Len(s)
  BY <1>1, FS_Interval
<1>4. IsFiniteSet(Range(s)) /\ Cardinality(Range(s)) <= Len(s)
  BY <1>2, <1>3, FS_Surjection
<1>. QED
  BY <1>4, FS_CardinalityType

-----------------------------------------------------------------------------
Clean(t) == IF t = Null THEN Null ELSE Stripped(t)

LEMMA NoWordIs == NoWord \in Strings /\ NoWord # Null /\ NoWord # NotText
<1>1. NoWord \in Strings
  BY JobRequestsAssumption DEF JobRequestsAssumption, NoWord, Strings
<1>2. Null \notin Strings /\ NotText \notin Strings
  BY JobRequestsAssumption DEF JobRequestsAssumption
<1>. QED
  BY <1>1, <1>2

LEMMA StrippedIs ==
  ASSUME NEW t \in Texts
  PROVE  /\ Stripped(t) \in Strings /\ Stripped(t) \in Texts
         /\ Stripped(t) # Null /\ Stripped(t) # NotText
         /\ Stripped(Stripped(t)) = Stripped(t)
<1>1. CASE t \in {Null, NotText}
  <2>1. Stripped(t) = NoWord
    BY <1>1 DEF Stripped
  <2>2. Stripped(NoWord) = [NoWord EXCEPT !.padded = FALSE, !.long = @ /\ NoWord.word \in LongWords]
    BY NoWordIs DEF Stripped
  <2>3. Stripped(NoWord) = NoWord
    BY <2>2 DEF NoWord
  <2>. QED
    BY <2>1, <2>3, NoWordIs DEF Texts
<1>2. CASE t \notin {Null, NotText}
  <2>1. t \in Strings /\ \A s \in Strings : s # Null /\ s # NotText
    BY <1>2, JobRequestsAssumption DEF JobRequestsAssumption, Texts
  <2>. DEFINE long == t.long /\ t.word \in LongWords
              s == [word |-> t.word, padded |-> FALSE, long |-> long]
  <2>2. long \in BOOLEAN
    OBVIOUS
  <2>3. Stripped(t) = s
    BY <1>2, <2>1 DEF Stripped, Strings
  <2>4. s \in Strings
    BY <2>1, <2>2 DEF Strings
  <2>5. s.long /\ s.word \in LongWords <=> long
    OBVIOUS
  <2>6. Stripped(s) = [s EXCEPT !.padded = FALSE, !.long = @ /\ s.word \in LongWords]
    BY <2>1, <2>4 DEF Stripped
  <2>7. Stripped(s) = s
    <3>1. (long /\ t.word \in LongWords) = long
      OBVIOUS
    <3>. QED
      BY <2>6, <3>1
  <2>. QED
    BY <2>1, <2>3, <2>4, <2>7 DEF Texts
<1>. QED
  BY <1>1, <1>2

LEMMA StrippedTwice ==
  ASSUME NEW t \in Texts
  PROVE  /\ Clean(t) \in Texts /\ Stripped(Clean(t)) = Stripped(t) /\ Clean(t) # NotText
         /\ OrNull(t) \in Texts /\ Stripped(OrNull(t)) = Stripped(t)
<1>1. Stripped(Null) = NoWord
  BY DEF Stripped
<1>2. Null # NotText
  BY JobRequestsAssumption DEF JobRequestsAssumption
<1>. QED
  BY <1>1, <1>2, StrippedIs DEF Clean, OrNull, IsBlank, Texts

-----------------------------------------------------------------------------
RequestAnswers ==
  {"none", "raised", "again", "bad request", "not found", "refused by state", "unavailable", "internal",
   "unprocessable", "fault named", "queued"}
BeforeTheQueue == {"sent", "storing", "asked", "refused"}
SinceTheQueue == {"queued", "running", "called", "succeeded", "failed"}

FailureTypes ==
  {"none", "invalid", "timeout", "transport", "other", "http", "breaker_open"} \cup Missing \cup Dependency \cup BadInput
Failures == [type : FailureTypes, status : Int, delay : {Null} \cup Int]

ErrorCodes ==
  {"none", "invalid_job_input", "blob_not_found", "blob_integrity_failure", "pdf_upload_not_ready",
   "registered_blob_not_authorized", "analysis_failed", "exception"}
ErrorClasses == RetryableClasses \cup {"none", "canceled", "provider_not_found", "invalid_input", "internal_error"}
Errors ==
  [code : ErrorCodes, class : ErrorClasses, retryable : BOOLEAN, delay : {Null} \cup Nat, neutral : BOOLEAN]

Requests ==
  [node : BeforeTheQueue \cup SinceTheQueue, via : {"rest", "form", "mcp", "service"}, input : Inputs, asked : Inputs,
   uploaded : BOOLEAN, answer : RequestAnswers, stored : Inputs, call : Inputs, attempts : Nat, failure : Failures,
   error : Errors]

WellFormed(i) == i \in Inputs /\ (i.kind \notin WithIds => i.ids = Null)

\* What the way in that a client has taken makes of the input.
IsPassed(via, input, asked) ==
  /\ via \in {"rest", "form"} => SchemaAccepts(input) /\ asked = FromSchema(input)
  /\ via = "mcp" => ToolAccepts(input) /\ asked = FromTool(input)
  /\ via = "service" => asked = input

\* The arguments of the call.
CallOf(stored) ==
  [stored EXCEPT !.text = Clean(stored.text), !.version = Clean(stored.version), !.paper = Clean(stored.paper)]

RequestInv ==
  /\ request \in Requests
  /\ WellFormed(request.input) /\ WellFormed(request.asked)
  /\ request.via = "form" => request.input.kind = "analyze_pdf_blob" /\ ~IsBlank(request.input.text)
  /\ request.node = "sent" => request.asked = request.input
  /\ request.node \in {"sent", "storing"} => ~request.uploaded
  /\ request.uploaded \/ request.node = "storing" => request.via \in {"form", "mcp"}
  /\ request.node \in {"sent", "storing", "asked"} => request.answer = "none"
  /\ request.node \notin {"sent", "refused"} => IsPassed(request.via, request.input, request.asked)
  /\ request.node \in BeforeTheQueue => request.error = NoError /\ request.attempts = 0
  /\ request.node \in SinceTheQueue =>
       ~Refused(request.asked) /\ request.stored = Stored(request.asked) /\ request.answer = "queued"
  /\ request.node \in {"called", "succeeded"} => request.call = CallOf(request.stored)
  /\ request.node = "queued" => request.attempts < MostAttempts
  /\ request.node \in {"running", "called"} => request.attempts <= MostAttempts
  /\ request.error.code # "invalid_job_input"
  /\ RetryFollowsThePolicy
  /\ FaultsAreNamed /\ FaultsLeaveNoPdf

LEMMA RequestFields ==
  ASSUME NEW r \in Requests
  PROVE  /\ r.node \in BeforeTheQueue \cup SinceTheQueue /\ r.via \in {"rest", "form", "mcp", "service"}
         /\ r.input \in Inputs /\ r.asked \in Inputs /\ r.uploaded \in BOOLEAN /\ r.answer \in RequestAnswers
         /\ r.stored \in Inputs /\ r.call \in Inputs /\ r.attempts \in Nat
         /\ r.failure \in Failures /\ r.error \in Errors
BY DEF Requests

LEMMA InputFields ==
  ASSUME NEW i \in Inputs
  PROVE  /\ i.kind \in JobKinds /\ i.text \in Texts /\ i.version \in Texts /\ i.paper \in Texts
         /\ i.ids \in {Null, NotText} \cup Seq(Texts) /\ i.prompt \in Texts
BY DEF Inputs

LEMMA RequestBounds ==
  MostIds \in Nat /\ MostAttempts \in Nat /\ MostAttempts # 0 /\ \A d \in Delays : d \in Int
BY JobRequestsAssumption DEF JobRequestsAssumption

LEMMA NoIds ==
  /\ Null # NotText /\ Null \notin Seq(Texts) /\ NotText \notin Seq(Texts)
  /\ Null \in Texts /\ NotText \in Texts /\ Strings \subseteq Texts
  /\ Null \notin Strings /\ NotText \notin Strings
BY JobRequestsAssumption DEF JobRequestsAssumption, Texts

-----------------------------------------------------------------------------
LEMMA SchemaKeepsMeaning ==
  ASSUME NEW i, WellFormed(i)
  PROVE  /\ WellFormed(FromSchema(i)) /\ FromSchema(i).kind = i.kind
         /\ Stripped(FromSchema(i).text) = Stripped(i.text)
         /\ FromSchema(i).version = i.version /\ FromSchema(i).paper = i.paper /\ FromSchema(i).prompt = i.prompt
         /\ i.kind # "synthesize" => FromSchema(i).ids = i.ids
<1>1. i \in Inputs /\ (i.kind \notin WithIds => i.ids = Null)
  BY DEF WellFormed
<1>. DEFINE text == IF i.kind = "analyze_paper" THEN Stripped(i.text) ELSE i.text
            ids == IF i.kind = "synthesize" THEN Null ELSE i.ids
<1>2. FromSchema(i) = [i EXCEPT !.text = text, !.ids = ids]
  BY DEF FromSchema
<1>3. text \in Texts /\ Stripped(text) = Stripped(i.text)
  BY <1>1, InputFields, StrippedIs
<1>4. ids \in {Null, NotText} \cup Seq(Texts) /\ (i.kind \notin WithIds => ids = Null)
  BY <1>1, InputFields
<1>5. i.kind # "synthesize" => ids = i.ids
  OBVIOUS
<1>. HIDE DEF text, ids
<1>6. FromSchema(i) \in Inputs
  BY <1>1, <1>2, <1>3, <1>4 DEF Inputs
<1>7. /\ FromSchema(i).kind = i.kind /\ FromSchema(i).text = text /\ FromSchema(i).ids = ids
      /\ FromSchema(i).version = i.version /\ FromSchema(i).paper = i.paper /\ FromSchema(i).prompt = i.prompt
  BY <1>1, <1>2 DEF Inputs
<1>. QED
  BY <1>3, <1>4, <1>5, <1>6, <1>7 DEF WellFormed

LEMMA StrippedIdsAre ==
  ASSUME NEW ids \in Seq(Texts)
  PROVE  /\ StrippedIds(ids) \in Seq(Texts) /\ Len(StrippedIds(ids)) = Len(ids)
         /\ Range(StrippedIds(ids)) = {Stripped(id) : id \in Range(ids)}
<1>. DEFINE s == [n \in DOMAIN ids |-> Stripped(ids[n])]
<1>1. DOMAIN ids = 1..Len(ids) /\ Len(ids) \in Nat /\ \A n \in 1..Len(ids) : ids[n] \in Texts
  OBVIOUS
<1>2. StrippedIds(ids) = s
  BY NoIds DEF StrippedIds
<1>3. \A n \in 1..Len(ids) : s[n] = Stripped(ids[n]) /\ s[n] \in Texts
  BY <1>1, StrippedIs
<1>4. DOMAIN s = 1..Len(ids)
  BY <1>1
<1>5. s = [n \in 1..Len(ids) |-> s[n]]
  BY <1>1
<1>. HIDE DEF s
<1>6. s \in Seq(Texts) /\ Len(s) = Len(ids)
  BY <1>1, <1>3, <1>5
<1>7. Range(s) = {Stripped(id) : id \in Range(ids)}
  BY <1>1, <1>3, <1>4 DEF Range
<1>. QED
  BY <1>2, <1>6, <1>7

LEMMA ToolKeepsMeaning ==
  ASSUME NEW i, WellFormed(i), i.ids # NotText
  PROVE  /\ WellFormed(FromTool(i)) /\ FromTool(i).kind = i.kind
         /\ FromTool(i).text = Clean(i.text) /\ FromTool(i).version = Clean(i.version)
         /\ FromTool(i).paper = OrNull(Stripped(i.paper)) /\ FromTool(i).prompt = OrNull(Stripped(i.prompt))
         /\ FromTool(i).ids = StrippedIds(i.ids)
<1>1. i \in Inputs /\ (i.kind \notin WithIds => i.ids = Null)
  BY DEF WellFormed
<1>. DEFINE text == Clean(i.text)
            version == Clean(i.version)
            paper == OrNull(Stripped(i.paper))
            ids == StrippedIds(i.ids)
            prompt == OrNull(Stripped(i.prompt))
<1>2. FromTool(i) = [i EXCEPT !.text = text, !.version = version, !.paper = paper, !.ids = ids, !.prompt = prompt]
  BY DEF FromTool, Clean
<1>3. text \in Texts /\ version \in Texts /\ paper \in Texts /\ prompt \in Texts
  BY <1>1, InputFields, StrippedIs, StrippedTwice
<1>4. ids \in {Null, NotText} \cup Seq(Texts) /\ (i.kind \notin WithIds => ids = Null)
  <2>1. i.ids = Null => ids = Null
    BY DEF StrippedIds
  <2>2. i.ids # Null => i.ids \in Seq(Texts)
    BY <1>1, InputFields
  <2>. QED
    BY <1>1, <2>1, <2>2, StrippedIdsAre
<1>. HIDE DEF text, version, paper, ids, prompt
<1>5. FromTool(i) \in Inputs
  BY <1>1, <1>2, <1>3, <1>4 DEF Inputs
<1>6. /\ FromTool(i).kind = i.kind /\ FromTool(i).text = text /\ FromTool(i).version = version
      /\ FromTool(i).paper = paper /\ FromTool(i).ids = ids /\ FromTool(i).prompt = prompt
  BY <1>1, <1>2 DEF Inputs
<1>. QED
  BY <1>4, <1>5, <1>6 DEF WellFormed, text, version, paper, ids, prompt

(* What a tool lets pass the service does not refuse.                        *)
LEMMA ToolsAreStricter ==
  ASSUME NEW i, WellFormed(i), ToolAccepts(i)
  PROVE  ~Refused(FromTool(i))
<1>. DEFINE a == FromTool(i)
<1>0. ~IllTyped(i) /\ ~ToolRefuses(i) /\ i \in Inputs
  BY DEF ToolAccepts, WellFormed
<1>1. i.ids # NotText /\ (i.ids # Null => i.ids \in Seq(Texts))
  BY <1>0, InputFields DEF IllTyped
<1>2. /\ a.kind = i.kind /\ a.text = Clean(i.text) /\ a.version = Clean(i.version)
      /\ a.prompt = OrNull(Stripped(i.prompt)) /\ a.ids = StrippedIds(i.ids)
  BY <1>1, ToolKeepsMeaning
<1>. HIDE DEF a
<1>3. /\ Stripped(a.text) = Stripped(i.text) /\ Stripped(a.version) = Stripped(i.version)
  BY <1>0, <1>2, InputFields, StrippedTwice
<1>4. ~(a.kind \in WithText /\ IsBlank(a.text))
  BY <1>0, <1>2, <1>3 DEF ToolRefuses, IsBlank
<1>5. ~(a.kind = "discover" /\ Stripped(a.text).long)
  BY <1>0, <1>2, <1>3 DEF ToolRefuses
<1>6. ~(a.kind = "analyze_pdf_blob" /\ IsBlank(a.version))
  BY <1>0, <1>2, <1>3 DEF ToolRefuses, IsBlank
<1>7. a.kind \in WithIds => a.prompt # NotText /\ ~IsLong(a.prompt)
  <2>1. Stripped(i.prompt) \in Strings /\ Stripped(i.prompt) # NotText
    BY <1>0, InputFields, StrippedIs
  <2>2. a.kind \in WithIds => ~Stripped(i.prompt).long
    BY <1>0, <1>2 DEF ToolRefuses
  <2>3. a.prompt = Null \/ a.prompt = Stripped(i.prompt)
    BY <1>2 DEF OrNull
  <2>. QED
    BY <2>1, <2>2, <2>3, NoIds DEF IsLong
<1>8. a.kind \in WithIds => ~IdsRefused(a.ids)
  <2>. SUFFICES ASSUME a.kind \in WithIds, a.ids # Null PROVE ~IdsRefused(a.ids)
    BY DEF IdsRefused
  <2>1. i.ids # Null /\ i.ids \in Seq(Texts)
    BY <1>1, <1>2 DEF StrippedIds
  <2>2. /\ a.ids \in Seq(Texts) /\ Len(a.ids) = Len(i.ids)
        /\ Range(a.ids) = {Stripped(id) : id \in Range(i.ids)}
    BY <1>2, <2>1, StrippedIdsAre
  <2>3. Len(i.ids) \in Nat /\ Len(i.ids) <= MostIds
    <3>1. ~(Len(i.ids) > MostIds) /\ Len(i.ids) \in Nat
      BY <1>0, <1>2, <2>1 DEF ToolRefuses
    <3>. QED
      BY <3>1, RequestBounds
  <2>4. ~(Cardinality(Range(a.ids)) > MostIds)
    <3>1. Cardinality(Range(a.ids)) \in Nat /\ Cardinality(Range(a.ids)) <= Len(a.ids)
      BY <2>2, RangeIsNoLarger
    <3>. QED
      BY <2>2, <2>3, <3>1, RequestBounds
  <2>5. ASSUME NEW id \in Range(a.ids) PROVE id # NotText /\ ~IsBlank(id) /\ ~id.long
    <3>1. PICK raw \in Range(i.ids) : id = Stripped(raw)
      BY <2>2
    <3>2. raw \in Texts
      BY <2>1 DEF Range
    <3>3. id # NoWord /\ ~id.long
      BY <1>0, <1>2, <2>1, <2>5 DEF ToolRefuses
    <3>4. Stripped(id) = id /\ id # NotText
      BY <3>1, <3>2, StrippedIs
    <3>. QED
      BY <3>3, <3>4 DEF IsBlank
  <2>6. a.ids # NotText
    BY <2>2, NoIds
  <2>. QED
    BY <2>4, <2>5, <2>6 DEF IdsRefused
<1>9. ~Refused(a)
  BY <1>4, <1>5, <1>6, <1>7, <1>8 DEF Refused
<1>. QED
  BY <1>9 DEF a

-----------------------------------------------------------------------------
LEMMA StoredIs ==
  ASSUME NEW a, WellFormed(a), ~Refused(a)
  PROVE  /\ Stored(a) \in Inputs /\ Stored(a).kind = a.kind
         /\ Stored(a).text = Clean(a.text) /\ Stored(a).version = Clean(a.version)
         /\ Stored(a).paper = OrNull(Stripped(a.paper)) /\ Stored(a).prompt = OrNull(a.prompt)
         /\ a.ids = Null \/ a.ids = <<>> => Stored(a).ids = Null
         /\ a.ids # Null => a.ids \in Seq(Texts)
         /\ a.ids # Null /\ a.ids # <<>> => Stored(a).ids = Unique(a.ids) /\ a.kind \in WithIds
<1>1. a \in Inputs /\ (a.kind \notin WithIds => a.ids = Null)
  BY DEF WellFormed
<1>2. a.ids # Null => a.ids \in Seq(Texts) /\ a.kind \in WithIds
  BY <1>1, InputFields DEF Refused, IdsRefused
<1>. DEFINE text == Clean(a.text)
            version == Clean(a.version)
            paper == OrNull(Stripped(a.paper))
            ids == IF a.ids = Null \/ a.ids = <<>> THEN Null ELSE Unique(a.ids)
            prompt == OrNull(a.prompt)
<1>3. Stored(a) = [a EXCEPT !.text = text, !.version = version, !.paper = paper, !.ids = ids, !.prompt = prompt]
  BY DEF Stored, Clean
<1>4. text \in Texts /\ version \in Texts /\ paper \in Texts /\ prompt \in Texts
  BY <1>1, InputFields, StrippedIs, StrippedTwice
<1>5. ids \in {Null, NotText} \cup Seq(Texts)
  BY <1>2, UniqueHasEachOnce
<1>6. /\ a.ids = Null \/ a.ids = <<>> => ids = Null
      /\ a.ids # Null /\ a.ids # <<>> => ids = Unique(a.ids)
  OBVIOUS
<1>. HIDE DEF text, version, paper, ids, prompt
<1>7. Stored(a) \in Inputs
  BY <1>1, <1>3, <1>4, <1>5 DEF Inputs
<1>8. /\ Stored(a).kind = a.kind /\ Stored(a).text = text /\ Stored(a).version = version
      /\ Stored(a).paper = paper /\ Stored(a).ids = ids /\ Stored(a).prompt = prompt
  BY <1>1, <1>3 DEF Inputs
<1>. QED
  BY <1>2, <1>6, <1>7, <1>8 DEF text, version, paper, prompt

LEMMA CallIs ==
  ASSUME NEW s \in Inputs
  PROVE  /\ CallOf(s) \in Inputs /\ CallOf(s).kind = s.kind
         /\ CallOf(s).text = Clean(s.text) /\ CallOf(s).version = Clean(s.version)
         /\ CallOf(s).paper = Clean(s.paper) /\ CallOf(s).prompt = s.prompt /\ CallOf(s).ids = s.ids
<1>. DEFINE text == Clean(s.text)
            version == Clean(s.version)
            paper == Clean(s.paper)
<1>1. text \in Texts /\ version \in Texts /\ paper \in Texts
  BY InputFields, StrippedTwice
<1>2. CallOf(s) = [s EXCEPT !.text = text, !.version = version, !.paper = paper]
  BY DEF CallOf
<1>. HIDE DEF text, version, paper
<1>3. CallOf(s) \in Inputs
  BY <1>1, <1>2 DEF Inputs
<1>4. /\ CallOf(s).kind = s.kind /\ CallOf(s).text = text /\ CallOf(s).version = version
      /\ CallOf(s).paper = paper /\ CallOf(s).prompt = s.prompt /\ CallOf(s).ids = s.ids
  BY <1>2 DEF Inputs
<1>. QED
  BY <1>3, <1>4 DEF text, version, paper

(* The worker finds no fault with what enqueue_* has stored.                 *)
LEMMA StoredIsValid ==
  ASSUME NEW a, WellFormed(a), ~Refused(a)
  PROVE  ~Invalid(Stored(a))
<1>. DEFINE s == Stored(a)
<1>1. a \in Inputs
  BY DEF WellFormed
<1>2. /\ s.kind = a.kind /\ s.text = Clean(a.text) /\ s.version = Clean(a.version) /\ s.prompt = OrNull(a.prompt)
      /\ a.ids = Null \/ a.ids = <<>> => s.ids = Null
      /\ a.ids # Null => a.ids \in Seq(Texts)
      /\ a.ids # Null /\ a.ids # <<>> => s.ids = Unique(a.ids)
  BY StoredIs
<1>. HIDE DEF s
<1>3. ~(s.kind \in WithText /\ IsBlank(s.text))
  BY <1>1, <1>2, InputFields, StrippedTwice DEF Refused, IsBlank
<1>4. ~(s.kind = "analyze_pdf_blob" /\ IsBlank(s.version))
  BY <1>1, <1>2, InputFields, StrippedTwice DEF Refused, IsBlank
<1>5. ~(s.kind \in WithIds /\ s.prompt = NotText)
  BY <1>2, NoIds DEF Refused, OrNull
<1>6. ASSUME s.kind \in WithIds, s.ids # Null
      PROVE  s.ids # NotText /\ \A id \in Range(s.ids) : id # NotText
  <2>1. a.ids # Null /\ a.ids \in Seq(Texts) /\ s.ids = Unique(a.ids)
    BY <1>2, <1>6
  <2>2. s.ids \in Seq(Texts) /\ Range(s.ids) = Range(a.ids)
    BY <2>1, UniqueHasEachOnce
  <2>3. \A id \in Range(a.ids) : id # NotText
    BY <1>2, <1>6, <2>1 DEF Refused, IdsRefused
  <2>. QED
    BY <2>2, <2>3, NoIds
<1>7. ~Invalid(s)
  BY <1>3, <1>4, <1>5, <1>6 DEF Invalid
<1>. QED
  BY <1>7 DEF s

(* What the method is called with means what enqueue_* was called with.      *)
LEMMA CallMeansWhatWasAsked ==
  ASSUME NEW a, WellFormed(a), ~Refused(a), a.ids # <<>>
  PROVE  Meaning(CallOf(Stored(a))) = Meaning(a)
<1>. DEFINE s == Stored(a)
            c == CallOf(s)
<1>1. a \in Inputs
  BY DEF WellFormed
<1>2. /\ s \in Inputs /\ s.kind = a.kind /\ s.text = Clean(a.text) /\ s.version = Clean(a.version)
      /\ s.paper = OrNull(Stripped(a.paper)) /\ s.prompt = OrNull(a.prompt)
      /\ a.ids = Null => s.ids = Null
      /\ a.ids # Null => a.ids \in Seq(Texts) /\ s.ids = Unique(a.ids)
  BY StoredIs
<1>. HIDE DEF s
<1>3. /\ c.kind = s.kind /\ c.text = Clean(s.text) /\ c.version = Clean(s.version)
      /\ c.paper = Clean(s.paper) /\ c.prompt = s.prompt /\ c.ids = s.ids
  BY <1>2, CallIs
<1>. HIDE DEF c
<1>4. Stripped(c.text) = Stripped(a.text) /\ Stripped(c.version) = Stripped(a.version)
  BY <1>1, <1>2, <1>3, InputFields, StrippedTwice
<1>5. Stripped(c.paper) = Stripped(a.paper)
  BY <1>1, <1>2, <1>3, InputFields, StrippedIs, StrippedTwice
<1>6. Stripped(c.prompt) = Stripped(a.prompt)
  BY <1>1, <1>2, <1>3, InputFields, StrippedTwice
<1>7. (IF c.ids = Null THEN Null ELSE Unique(c.ids)) = (IF a.ids = Null THEN Null ELSE Unique(a.ids))
  <2>1. CASE a.ids = Null
    BY <1>2, <1>3, <2>1
  <2>2. CASE a.ids # Null
    <3>1. Unique(a.ids) \in Seq(Texts) /\ Unique(Unique(a.ids)) = Unique(a.ids)
      BY <1>2, <2>2, UniqueOnceIsEnough
    <3>. QED
      BY <1>2, <1>3, <2>2, <3>1, NoIds
  <2>. QED
    BY <2>1, <2>2
<1>8. Meaning(c) = Meaning(a)
  BY <1>2, <1>3, <1>4, <1>5, <1>6, <1>7 DEF Meaning
<1>. QED
  BY <1>8 DEF c, s

(* The adapters change nothing that the request means.                       *)
RequestedPapers(ids) == IF ids = Null THEN {} ELSE {Stripped(id) : id \in Range(ids)}

LEMMA PassedMeansTheInput ==
  ASSUME NEW via, NEW i, NEW a, WellFormed(i), IsPassed(via, i, a), via \in {"rest", "form", "mcp"}
  PROVE  /\ Meaning([a EXCEPT !.ids = Null]) = Meaning([i EXCEPT !.ids = Null])
         /\ i.kind = "compare" \/ via = "mcp" => RequestedPapers(a.ids) = RequestedPapers(i.ids)
<1>. DEFINE SameTexts == /\ a.kind = i.kind /\ Stripped(a.text) = Stripped(i.text)
                         /\ Stripped(a.version) = Stripped(i.version) /\ Stripped(a.paper) = Stripped(i.paper)
                         /\ Stripped(a.prompt) = Stripped(i.prompt)
<1>0. i \in Inputs
  BY DEF WellFormed
<1>1. CASE via \in {"rest", "form"}
  <2>1. a = FromSchema(i)
    BY <1>1 DEF IsPassed
  <2>2. WellFormed(a) /\ SameTexts /\ (i.kind # "synthesize" => a.ids = i.ids)
    BY <2>1, SchemaKeepsMeaning
  <2>3. i.kind = "compare" => i.kind # "synthesize"
    OBVIOUS
  <2>4. via # "mcp"
    BY <1>1
  <2>5. Meaning([a EXCEPT !.ids = Null]) = Meaning([i EXCEPT !.ids = Null])
    BY <1>0, <2>2 DEF Meaning, WellFormed, Inputs
  <2>. QED
    BY <2>2, <2>3, <2>4, <2>5
<1>2. CASE via = "mcp"
  <2>1. a = FromTool(i) /\ i.ids # NotText
    BY <1>2 DEF IsPassed, ToolAccepts, IllTyped
  <2>2. /\ WellFormed(a) /\ a.kind = i.kind
        /\ a.text = Clean(i.text) /\ a.version = Clean(i.version)
        /\ a.paper = OrNull(Stripped(i.paper)) /\ a.prompt = OrNull(Stripped(i.prompt))
        /\ a.ids = StrippedIds(i.ids)
    BY <2>1, ToolKeepsMeaning
  <2>3. SameTexts
    BY <1>0, <2>2, InputFields, StrippedIs, StrippedTwice
  <2>4. Meaning([a EXCEPT !.ids = Null]) = Meaning([i EXCEPT !.ids = Null])
    BY <1>0, <2>2, <2>3 DEF Meaning, WellFormed, Inputs
  <2>5. RequestedPapers(a.ids) = RequestedPapers(i.ids)
    <3>1. CASE i.ids = Null
      BY <2>2, <3>1 DEF StrippedIds
    <3>2. CASE i.ids # Null
      <4>1. i.ids \in Seq(Texts)
        BY <1>0, <2>1, <3>2, InputFields
      <4>2. a.ids \in Seq(Texts) /\ Range(a.ids) = {Stripped(id) : id \in Range(i.ids)}
        BY <2>2, <4>1, StrippedIdsAre
      <4>3. \A id \in Range(i.ids) : id \in Texts
        BY <4>1 DEF Range
      <4>4. {Stripped(id) : id \in Range(a.ids)} = {Stripped(id) : id \in Range(i.ids)}
        BY <4>2, <4>3, StrippedIs
      <4>. QED
        BY <3>2, <4>2, <4>4, NoIds DEF RequestedPapers
    <3>. QED
      BY <3>1, <3>2
  <2>. QED
    BY <2>4, <2>5
<1>. QED
  BY <1>1, <1>2

-----------------------------------------------------------------------------
(* The error of a failure, and the rules of the policy as far as they are    *)
(* about the error alone.                                                    *)
FollowsThePolicy(error, transient) ==
  /\ error.class \in RetryableClasses <=> transient
  /\ error.delay # Null => error.retryable /\ error.delay >= 0
  /\ error.code = "blob_not_found" => error.class = "provider_not_found"
  /\ error.code \notin {"exception", "analysis_failed", "blob_not_found"} => error.class = "invalid_input"
  /\ error.code # "invalid_job_input"

LEMMA ClassIsRetryable ==
  ASSUME NEW f \in Failures
  PROVE  FailureClass(f) \in ErrorClasses /\ (FailureClass(f) \in RetryableClasses <=> Transient(f))
<1>1. f.type \in FailureTypes /\ f.status \in Int
  BY DEF Failures
<1>2. CASE f.type = "http"
  <2>1. FailureClass(f) = HttpClass(f.status)
    BY <1>2 DEF FailureClass, Missing, Dependency, BadInput, BadBlob
  <2>2. Transient(f) <=> f.status \in {408, 429} \/ f.status >= 500
    BY <1>2 DEF Transient, Dependency
  <2>. QED
    BY <1>1, <2>1, <2>2 DEF HttpClass, ErrorClasses, RetryableClasses
<1>3. CASE f.type # "http"
  BY <1>1, <1>3 DEF FailureTypes, FailureClass, Transient, Missing, Dependency, BadInput, BadBlob, ErrorClasses, RetryableClasses
<1>. QED
  BY <1>2, <1>3

LEMMA ErrorFollowsThePolicy ==
  ASSUME NEW f \in Failures, f.type # "invalid", NEW retried \in BOOLEAN
  PROVE  /\ ErrorJson(f, retried) \in Errors /\ ErrorJson(f, retried).retryable = retried
         /\ FollowsThePolicy(ErrorJson(f, retried), Transient(f))
<1>. DEFINE code == ErrorCode(f, request.stored.kind)
            class == FailureClass(f)
            delay == IF retried THEN RetryAfter(f) ELSE Null
            neutral == f.type = "breaker_open"
            e == ErrorJson(f, retried)
<1>1. e = [code |-> code, class |-> class, retryable |-> retried, delay |-> delay, neutral |-> neutral]
  BY DEF ErrorJson
<1>2. f.type \in FailureTypes /\ f.delay \in {Null} \cup Int
  BY DEF Failures
<1>3. class \in ErrorClasses /\ (class \in RetryableClasses <=> Transient(f))
  BY ClassIsRetryable
<1>4. /\ code \in ErrorCodes /\ code # "invalid_job_input"
      /\ code = "blob_not_found" => f.type \in Missing
      /\ code \notin {"exception", "analysis_failed", "blob_not_found"} => f.type \in BadInput
  BY <1>2 DEF ErrorCode, ErrorCodes, FailureTypes, Missing, BadInput, BadBlob, Dependency
<1>5. /\ f.type \in Missing => class = "provider_not_found"
      /\ f.type \in BadInput => class = "invalid_input"
  BY DEF FailureClass, Missing, BadInput, BadBlob, Dependency
<1>6. /\ delay \in {Null} \cup Nat
      /\ delay # Null => retried /\ delay >= 0
  BY <1>2 DEF RetryAfter
<1>7. neutral \in BOOLEAN
  OBVIOUS
<1>. HIDE DEF code, class, delay, neutral, e
<1>8. e \in Errors
  BY <1>1, <1>3, <1>4, <1>6, <1>7 DEF Errors
<1>9. e.code = code /\ e.class = class /\ e.retryable = retried /\ e.delay = delay
  BY <1>1
<1>10. FollowsThePolicy(e, Transient(f))
  BY <1>3, <1>4, <1>5, <1>6, <1>9 DEF FollowsThePolicy
<1>. QED
  BY <1>8, <1>9, <1>10 DEF e

LEMMA RaisedAreFailures ==
  ASSUME NEW kind
  PROVE  /\ \A f \in Raised(kind) : f \in Failures /\ f.type # "invalid"
         /\ \A f \in Met(kind) : f \in Failures
<1>1. ASSUME NEW type \in FailureTypes PROVE Failure(type) \in Failures /\ Failure(type).type = type
  BY DEF Failure, NoFailure, Failures
<1>2. ASSUME NEW f \in Unindexed PROVE f \in Failures /\ f.type # "invalid"
  <2>1. CASE f \in {Failure(type) : type \in {"qdrant_down", "timeout", "transport", "other"}}
    BY <1>1, <2>1 DEF FailureTypes, Dependency
  <2>2. CASE f \in [type : {"http"}, status : {400, 404, 408, 429, 500}, delay : {Null}]
                 \/ f \in [type : {"http"}, status : {429}, delay : Delays]
    BY <2>2, RequestBounds DEF Failures, FailureTypes
  <2>. QED
    BY <2>1, <2>2 DEF Unindexed
<1>3. ASSUME NEW f \in OfBlobs PROVE f \in Failures /\ f.type # "invalid"
  BY <1>1, <1>3 DEF OfBlobs, FailureTypes, Missing, Dependency, BadInput, BadBlob
<1>4. Failure("other") \in Failures /\ Failure("other").type # "invalid"
  BY <1>1 DEF FailureTypes
<1>5. Failure("breaker_open") \in Failures
  BY <1>1 DEF FailureTypes
<1>6. \A f \in Raised(kind) : f \in Failures /\ f.type # "invalid"
  BY <1>2, <1>3, <1>4 DEF Raised
<1>7. \A f \in Met(kind) : f \in Failures
  BY <1>2, <1>5 DEF Met
<1>. QED
  BY <1>6, <1>7

-----------------------------------------------------------------------------
LEMMA RequestInitHolds == RequestInit => RequestInv
<1>. SUFFICES ASSUME RequestInit PROVE RequestInv
  OBVIOUS
<1>1. PICK via \in {"rest", "form", "mcp", "service"}, input \in JobInputs :
        /\ via = "form" => input.kind = "analyze_pdf_blob" /\ ~IsBlank(input.text)
        /\ request = RequestOf(via, input)
  BY DEF RequestInit
<1>2. WellFormed(input)
  BY JobRequestsAssumption DEF JobRequestsAssumption, WellFormed
<1>3. NoFailure \in Failures
  BY DEF NoFailure, Failures, FailureTypes
<1>4. NoError \in Errors /\ NoError.code = "none"
  BY DEF NoError, Errors, ErrorCodes, ErrorClasses
<1>5. /\ request.node = "sent" /\ request.via = via /\ request.input = input /\ request.asked = input
      /\ request.uploaded = FALSE /\ request.answer = "none" /\ request.attempts = 0 /\ request.error = NoError
  BY <1>1 DEF RequestOf
<1>6. request \in Requests
  BY <1>1, <1>2, <1>3, <1>4 DEF RequestOf, Requests, WellFormed, BeforeTheQueue, RequestAnswers
<1>7. RetryFollowsThePolicy /\ FaultsAreNamed /\ FaultsLeaveNoPdf
  BY <1>5 DEF RetryFollowsThePolicy, FaultsAreNamed, FaultsLeaveNoPdf
<1>8. WellFormed(request.input) /\ WellFormed(request.asked)
  BY <1>2, <1>5
<1>. QED
  BY <1>1, <1>4, <1>5, <1>6, <1>7, <1>8 DEF RequestInv, BeforeTheQueue, SinceTheQueue

(* A refusal: its answer tells the client what FaultsAreNamed and            *)
(* FaultsLeaveNoPdf ask for.                                                 *)
LEMMA RefusalKeepsInv ==
  ASSUME RequestInv, request.node \in {"sent", "storing", "asked"}, NEW answer \in RequestAnswers, Refuse(answer),
         answer \in {"again", "internal", "unavailable"} =>
           ~Refused(request.asked) \/ (request.via = "form" /\ ~request.uploaded),
         request.uploaded /\ answer = "bad request" => request.via = "form" /\ IsBlank(request.input.version)
  PROVE  RequestInv'
<1>1. request \in Requests /\ request' = [request EXCEPT !.node = "refused", !.answer = answer]
  BY DEF RequestInv, Refuse
<1>2. request' \in Requests
  BY <1>1 DEF Requests, BeforeTheQueue
<1>3. /\ request'.node = "refused" /\ request'.answer = answer /\ request'.via = request.via
      /\ request'.input = request.input /\ request'.asked = request.asked /\ request'.uploaded = request.uploaded
      /\ request'.attempts = request.attempts /\ request'.error = request.error
  BY <1>1 DEF Requests
<1>4. request.error = NoError /\ request.attempts = 0
  BY DEF RequestInv, BeforeTheQueue
<1>5. RetryFollowsThePolicy'
  BY <1>3, <1>4 DEF RetryFollowsThePolicy
<1>6. FaultsAreNamed' /\ FaultsLeaveNoPdf'
  BY <1>3 DEF FaultsAreNamed, FaultsLeaveNoPdf
<1>7. WellFormed(request'.input) /\ WellFormed(request'.asked) /\ request'.error.code # "invalid_job_input"
  BY <1>3 DEF RequestInv
<1>. QED
  BY <1>2, <1>3, <1>4, <1>5, <1>6, <1>7 DEF RequestInv, BeforeTheQueue, SinceTheQueue

(* A request that goes on towards the queue.                                 *)
LEMMA PassageKeepsInv ==
  ASSUME RequestInv, request.node \in {"sent", "storing"}, request' \in Requests,
         NEW node \in {"storing", "asked"}, NEW asked, NEW uploaded \in BOOLEAN,
         request'.node = node, request'.asked = asked, request'.uploaded = uploaded,
         request'.via = request.via, request'.input = request.input, request'.answer = request.answer,
         request'.attempts = request.attempts, request'.error = request.error,
         WellFormed(asked), IsPassed(request.via, request.input, asked),
         uploaded \/ node = "storing" => request.via \in {"form", "mcp"},
         node = "storing" => ~uploaded
  PROVE  RequestInv'
<1>1. request.error = NoError /\ request.attempts = 0 /\ request.answer = "none"
  BY DEF RequestInv, BeforeTheQueue
<1>2. RetryFollowsThePolicy' /\ FaultsAreNamed' /\ FaultsLeaveNoPdf'
  BY <1>1 DEF RetryFollowsThePolicy, FaultsAreNamed, FaultsLeaveNoPdf
<1>3. WellFormed(request'.input) /\ WellFormed(request'.asked) /\ request'.error.code # "invalid_job_input"
  BY DEF RequestInv
<1>. QED
  BY <1>1, <1>2, <1>3 DEF RequestInv, BeforeTheQueue, SinceTheQueue

(* The worker's steps, which leave the request as it was asked for.          *)
LEMMA WorkKeepsInv ==
  ASSUME RequestInv, request.node \in SinceTheQueue, request' \in Requests,
         request'.node \in SinceTheQueue,
         request'.via = request.via, request'.input = request.input, request'.asked = request.asked,
         request'.uploaded = request.uploaded, request'.answer = request.answer, request'.stored = request.stored,
         request'.node \in {"called", "succeeded"} => request'.call = CallOf(request.stored),
         request'.node = "queued" => request'.attempts < MostAttempts,
         request'.node \in {"running", "called"} => request'.attempts <= MostAttempts,
         request'.error.code # "invalid_job_input",
         RetryFollowsThePolicy'
  PROVE  RequestInv'
<1>1. request.answer = "queued" /\ request.node \notin BeforeTheQueue
  BY DEF RequestInv, SinceTheQueue, BeforeTheQueue
<1>2. request'.node \notin BeforeTheQueue
  BY DEF SinceTheQueue, BeforeTheQueue
<1>3. FaultsAreNamed' /\ FaultsLeaveNoPdf'
  BY <1>1 DEF FaultsAreNamed, FaultsLeaveNoPdf
<1>4. WellFormed(request'.input) /\ WellFormed(request'.asked)
  BY DEF RequestInv
<1>5. IsPassed(request.via, request.input, request.asked)
  BY <1>1 DEF RequestInv, BeforeTheQueue
<1>6. /\ request.via = "form" => request.input.kind = "analyze_pdf_blob" /\ ~IsBlank(request.input.text)
      /\ request.uploaded => request.via \in {"form", "mcp"}
      /\ ~Refused(request.asked) /\ request.stored = Stored(request.asked)
  BY DEF RequestInv
<1>. QED
  BY <1>1, <1>2, <1>3, <1>4, <1>5, <1>6 DEF RequestInv, BeforeTheQueue, SinceTheQueue

LEMMA RestRefusesKeepsInv == RequestInv /\ RestRefuses => RequestInv'
<1>. SUFFICES ASSUME RequestInv, RestRefuses PROVE RequestInv'
  OBVIOUS
<1>1. Refuse("unprocessable") /\ request.node = "sent"
  BY DEF RestRefuses, OverRest
<1>. QED
  BY <1>1, RefusalKeepsInv DEF RequestAnswers

LEMMA McpRefusesKeepsInv == RequestInv /\ McpRefuses => RequestInv'
<1>. SUFFICES ASSUME RequestInv, McpRefuses PROVE RequestInv'
  OBVIOUS
<1>1. Refuse("fault named") /\ request.node = "sent"
  BY DEF McpRefuses
<1>. QED
  BY <1>1, RefusalKeepsInv DEF RequestAnswers

LEMMA AdapterPassesOn ==
  ASSUME RequestInv, request.node = "sent", NEW node \in {"storing", "asked"}, NEW asked, WellFormed(asked),
         request' = [request EXCEPT !.node = node, !.asked = asked],
         IsPassed(request.via, request.input, asked),
         node = "storing" => request.via \in {"form", "mcp"}
  PROVE  RequestInv'
<1>1. request \in Requests /\ ~request.uploaded
  BY DEF RequestInv
<1>2. request' \in Requests
  BY <1>1 DEF Requests, BeforeTheQueue, WellFormed
<1>3. /\ request'.node = node /\ request'.asked = asked /\ request'.uploaded = FALSE
      /\ request'.via = request.via /\ request'.input = request.input /\ request'.answer = request.answer
      /\ request'.attempts = request.attempts /\ request'.error = request.error
  BY <1>1 DEF Requests
<1>. QED
  BY <1>2, <1>3, PassageKeepsInv

LEMMA RestPassesKeepsInv == RequestInv /\ RestPasses => RequestInv'
<1>. SUFFICES ASSUME RequestInv, RestPasses PROVE RequestInv'
  OBVIOUS
<1>. DEFINE node == IF request.via = "form" THEN "storing" ELSE "asked"
            asked == FromSchema(request.input)
<1>1. /\ request.node = "sent" /\ request.via \in {"rest", "form"} /\ SchemaAccepts(request.input)
      /\ request' = [request EXCEPT !.node = node, !.asked = asked]
  BY DEF RestPasses, OverRest
<1>2. WellFormed(asked)
  BY SchemaKeepsMeaning DEF RequestInv
<1>3. IsPassed(request.via, request.input, asked)
  BY <1>1 DEF IsPassed
<1>4. node \in {"storing", "asked"} /\ (node = "storing" => request.via \in {"form", "mcp"})
  OBVIOUS
<1>. HIDE DEF node, asked
<1>. QED
  BY <1>1, <1>2, <1>3, <1>4, AdapterPassesOn

LEMMA McpPassesKeepsInv == RequestInv /\ McpPasses => RequestInv'
<1>. SUFFICES ASSUME RequestInv, McpPasses PROVE RequestInv'
  OBVIOUS
<1>. DEFINE node == IF request.input.kind = "analyze_pdf_blob" THEN "storing" ELSE "asked"
            asked == FromTool(request.input)
<1>1. /\ request.node = "sent" /\ request.via = "mcp" /\ ToolAccepts(request.input)
      /\ request' = [request EXCEPT !.node = node, !.asked = asked]
  BY DEF McpPasses
<1>2. WellFormed(asked)
  <2>1. request.input.ids # NotText
    BY <1>1 DEF ToolAccepts, IllTyped
  <2>. QED
    BY <2>1, ToolKeepsMeaning DEF RequestInv
<1>3. IsPassed(request.via, request.input, asked)
  BY <1>1 DEF IsPassed
<1>4. node \in {"storing", "asked"} /\ (node = "storing" => request.via \in {"form", "mcp"})
  BY <1>1
<1>. HIDE DEF node, asked
<1>. QED
  BY <1>1, <1>2, <1>3, <1>4, AdapterPassesOn

LEMMA CallServiceKeepsInv == RequestInv /\ CallService => RequestInv'
<1>. SUFFICES ASSUME RequestInv, CallService PROVE RequestInv'
  OBVIOUS
<1>1. request \in Requests /\ request.node = "sent" /\ request.via = "service" /\ ~request.uploaded
  BY DEF RequestInv, CallService

<1>. DEFINE asked == request.asked
<1>2. request' = [request EXCEPT !.node = "asked", !.asked = asked]
  BY <1>1 DEF CallService, Requests
<1>3. WellFormed(asked) /\ IsPassed(request.via, request.input, asked)
  BY <1>1 DEF RequestInv, IsPassed
<1>. HIDE DEF asked
<1>. QED
  BY <1>1, <1>2, <1>3, AdapterPassesOn

(* A tool has seen to it that the service does not refuse.                   *)
LEMMA McpIsNotRefused ==
  ASSUME RequestInv, request.node \in {"storing", "asked"}, request.via = "mcp"
  PROVE  ~Refused(request.asked)
<1>1. ToolAccepts(request.input) /\ request.asked = FromTool(request.input) /\ WellFormed(request.input)
  BY DEF RequestInv, IsPassed
<1>. QED
  BY <1>1, ToolsAreStricter

LEMMA AnswersAre ==
  ASSUME NEW e
  PROVE  /\ AnswerTo(e) \in RequestAnswers
         /\ AnswerTo(e) = "bad request" => e = "invalid" /\ request.via \notin {"service", "mcp"}
         /\ AnswerTo(e) = "again" => request.via = "mcp"
         /\ e = "invalid" => AnswerTo(e) \notin {"internal", "unavailable"}
<1>1. AnswerTo(e) \in RequestAnswers
  BY DEF AnswerTo, RequestAnswers
<1>2. AnswerTo(e) = "bad request" => e = "invalid" /\ request.via \notin {"service", "mcp"}
  BY DEF AnswerTo
<1>3. AnswerTo(e) = "again" => request.via = "mcp"
  BY DEF AnswerTo
<1>4. e = "invalid" => AnswerTo(e) \notin {"internal", "unavailable"}
  BY DEF AnswerTo
<1>. QED
  BY <1>1, <1>2, <1>3, <1>4

LEMMA StoreUploadKeepsInv == RequestInv /\ StoreUpload => RequestInv'
<1>. SUFFICES ASSUME RequestInv, StoreUpload PROVE RequestInv'
  OBVIOUS
<1>1. request \in Requests /\ request.node = "storing" /\ ~request.uploaded /\ request.via \in {"form", "mcp"}
  BY DEF RequestInv, StoreUpload
<1>2. CASE request' = [request EXCEPT !.node = "asked", !.uploaded = TRUE]
  <2>1. request' \in Requests
    BY <1>1, <1>2 DEF Requests, BeforeTheQueue
  <2>2. /\ request'.node = "asked" /\ request'.asked = request.asked /\ request'.uploaded = TRUE
        /\ request'.via = request.via /\ request'.input = request.input /\ request'.answer = request.answer
        /\ request'.attempts = request.attempts /\ request'.error = request.error
    BY <1>1, <1>2 DEF Requests
  <2>3. WellFormed(request.asked) /\ IsPassed(request.via, request.input, request.asked)
    BY <1>1 DEF RequestInv
  <2>. QED
    BY <1>1, <2>1, <2>2, <2>3, PassageKeepsInv
<1>3. ASSUME NEW e \in {"no_session", "blob_store_down", "other"}, Refuse(AnswerTo(e)) PROVE RequestInv'
  <2>. DEFINE answer == AnswerTo(e)
  <2>1. answer \in RequestAnswers /\ answer # "bad request" /\ Refuse(answer)
    BY <1>3, AnswersAre
  <2>2. request.via = "mcp" => ~Refused(request.asked)
    BY <1>1, McpIsNotRefused
  <2>. HIDE DEF answer
  <2>. QED
    BY <1>1, <2>1, <2>2, RefusalKeepsInv
<1>. QED
  BY <1>2, <1>3 DEF StoreUpload

(* Only a form with a version of blanks has stored a PDF that the service    *)
(* then refuses.                                                             *)
LEMMA UploadRefusedIsABlankVersion ==
  ASSUME RequestInv, request.node = "asked", request.via \in {"rest", "form"}, request.uploaded, Refused(request.asked)
  PROVE  request.via = "form" /\ IsBlank(request.input.version)
<1>1. request.via = "form" /\ request.input.kind = "analyze_pdf_blob" /\ ~IsBlank(request.input.text)
  BY DEF RequestInv
<1>2. request.asked = FromSchema(request.input) /\ WellFormed(request.input)
  BY <1>1 DEF RequestInv, IsPassed
<1>3. /\ request.asked.kind = "analyze_pdf_blob" /\ ~IsBlank(request.asked.text)
      /\ request.asked.version = request.input.version
  BY <1>1, <1>2, SchemaKeepsMeaning DEF IsBlank
<1>. QED
  BY <1>1, <1>3 DEF Refused, WithIds

LEMMA EnqueueKeepsInv == RequestInv /\ Enqueue => RequestInv'
<1>. SUFFICES ASSUME RequestInv, Enqueue PROVE RequestInv'
  OBVIOUS
<1>1. /\ request \in Requests /\ request.node = "asked" /\ WellFormed(request.asked) /\ WellFormed(request.input)
      /\ request.error = NoError /\ request.attempts = 0
      /\ IsPassed(request.via, request.input, request.asked)
  BY DEF RequestInv, Enqueue, BeforeTheQueue
<1>2. CASE Refused(request.asked)
  <2>. DEFINE answer == AnswerTo("invalid")
  <2>1. Refuse(answer)
    BY <1>2 DEF Enqueue
  <2>2. /\ answer \in RequestAnswers /\ answer \notin {"internal", "unavailable"}
        /\ answer = "bad request" => request.via \notin {"service", "mcp"}
        /\ answer = "again" => request.via = "mcp"
    BY AnswersAre
  <2>3. request.via # "mcp"
    BY <1>1, <1>2, McpIsNotRefused
  <2>4. request.via \in {"rest", "form", "mcp", "service"}
    BY <1>1, RequestFields
  <2>5. request.uploaded /\ answer = "bad request" => request.via = "form" /\ IsBlank(request.input.version)
    BY <1>1, <1>2, <2>2, <2>4, UploadRefusedIsABlankVersion
  <2>. HIDE DEF answer
  <2>. QED
    BY <1>1, <2>1, <2>2, <2>3, <2>5, RefusalKeepsInv
<1>3. CASE ~Refused(request.asked)
  <2>. DEFINE stored == Stored(request.asked)
  <2>1. request' = [request EXCEPT !.node = "queued", !.answer = "queued", !.stored = stored]
    BY <1>3 DEF Enqueue
  <2>2. stored \in Inputs
    BY <1>1, <1>3, StoredIs
  <2>3. request' \in Requests
    <3>. HIDE DEF stored
    <3>. QED
      BY <1>1, <2>1, <2>2 DEF Requests, SinceTheQueue, RequestAnswers
  <2>4. /\ request'.node = "queued" /\ request'.answer = "queued" /\ request'.stored = stored
        /\ request'.via = request.via /\ request'.input = request.input /\ request'.asked = request.asked
        /\ request'.uploaded = request.uploaded /\ request'.attempts = request.attempts
        /\ request'.error = request.error
    <3>. HIDE DEF stored
    <3>. QED
      BY <1>1, <2>1 DEF Requests
  <2>5. RetryFollowsThePolicy' /\ FaultsAreNamed' /\ FaultsLeaveNoPdf'
    BY <1>1, <2>4 DEF RetryFollowsThePolicy, FaultsAreNamed, FaultsLeaveNoPdf
  <2>6. WellFormed(request'.input) /\ WellFormed(request'.asked) /\ request'.error.code # "invalid_job_input"
    BY <1>1, <2>4 DEF NoError
  <2>7. request'.attempts < MostAttempts
    BY <1>1, <2>4, RequestBounds
  <2>8. /\ request.via = "form" => request.input.kind = "analyze_pdf_blob" /\ ~IsBlank(request.input.text)
        /\ request.uploaded => request.via \in {"form", "mcp"}
    BY DEF RequestInv
  <2>. HIDE DEF stored
  <2>9. request'.stored = Stored(request'.asked) /\ ~Refused(request'.asked)
    BY <1>3, <2>4 DEF stored
  <2>. QED
    BY <1>1, <2>3, <2>4, <2>5, <2>6, <2>7, <2>8, <2>9 DEF RequestInv, BeforeTheQueue, SinceTheQueue
<1>. QED
  BY <1>2, <1>3

LEMMA EnqueueFailsKeepsInv == RequestInv /\ EnqueueFails => RequestInv'
<1>. SUFFICES ASSUME RequestInv, EnqueueFails PROVE RequestInv'
  OBVIOUS
<1>1. request.node = "asked"
  BY DEF EnqueueFails
<1>2. PICK e : /\ Refuse(AnswerTo(e)) /\ e # "invalid"
               /\ e = "no_session" \/ ~Refused(request.asked)
  BY DEF EnqueueFails
<1>. DEFINE answer == AnswerTo(e)
<1>3. answer \in RequestAnswers /\ answer # "bad request" /\ (answer = "again" => request.via = "mcp")
  BY <1>2, AnswersAre
<1>4. e = "no_session" => answer \notin {"internal", "unavailable"}
  BY DEF AnswerTo
<1>5. request.via = "mcp" => ~Refused(request.asked)
  BY <1>1, McpIsNotRefused
<1>6. Refuse(answer)
  BY <1>2
<1>. HIDE DEF answer
<1>. QED
  BY <1>1, <1>2, <1>3, <1>4, <1>5, <1>6, RefusalKeepsInv

LEMMA ClaimKeepsInv == RequestInv /\ Claim => RequestInv'
<1>. SUFFICES ASSUME RequestInv, Claim PROVE RequestInv'
  OBVIOUS
<1>. DEFINE attempts == request.attempts + 1
<1>1. /\ request \in Requests /\ request.node = "queued" /\ request.attempts < MostAttempts
      /\ request' = [request EXCEPT !.node = "running", !.attempts = attempts, !.failure = NoFailure]
  BY DEF RequestInv, Claim
<1>2. attempts \in Nat /\ attempts <= MostAttempts
  BY <1>1, RequestFields, RequestBounds
<1>3. NoFailure \in Failures
  BY DEF NoFailure, Failures, FailureTypes
<1>. HIDE DEF attempts
<1>4. request' \in Requests
  BY <1>1, <1>2, <1>3 DEF Requests, SinceTheQueue
<1>5. /\ request'.node = "running" /\ request'.attempts = attempts /\ request'.error = request.error
      /\ request'.via = request.via /\ request'.input = request.input /\ request'.asked = request.asked
      /\ request'.uploaded = request.uploaded /\ request'.answer = request.answer /\ request'.stored = request.stored
  BY <1>1 DEF Requests
<1>6. RetryFollowsThePolicy'
  BY <1>5 DEF RequestInv, RetryFollowsThePolicy
<1>7. request.error.code # "invalid_job_input"
  BY DEF RequestInv
<1>. QED
  BY <1>1, <1>2, <1>4, <1>5, <1>6, <1>7, WorkKeepsInv DEF SinceTheQueue

(* The worker never rejects an input.                                        *)
LEMMA NoInputIsRejected == RequestInv => ~RejectInput
<1>. SUFFICES ASSUME RequestInv, request.node = "running" PROVE ~Invalid(request.stored)
  BY DEF RejectInput
<1>1. WellFormed(request.asked) /\ ~Refused(request.asked) /\ request.stored = Stored(request.asked)
  BY DEF RequestInv, SinceTheQueue
<1>. QED
  BY <1>1, StoredIsValid

LEMMA CallKeepsInv == RequestInv /\ Call => RequestInv'
<1>. SUFFICES ASSUME RequestInv, Call PROVE RequestInv'
  OBVIOUS
<1>. DEFINE call == CallOf(request.stored)
<1>1. /\ request \in Requests /\ request.node = "running" /\ request.attempts <= MostAttempts
      /\ request.error.code # "invalid_job_input"
  BY DEF RequestInv, Call
<1>2. request' = [request EXCEPT !.node = "called", !.call = call]
  BY DEF Call, CallOf, Clean
<1>3. call \in Inputs
  BY <1>1, RequestFields, CallIs
<1>4. request' \in Requests
  <2>. HIDE DEF call
  <2>. QED
    BY <1>1, <1>2, <1>3 DEF Requests, SinceTheQueue
<1>5. /\ request'.node = "called" /\ request'.attempts = request.attempts /\ request'.error = request.error
      /\ request'.via = request.via /\ request'.input = request.input /\ request'.asked = request.asked
      /\ request'.uploaded = request.uploaded /\ request'.answer = request.answer /\ request'.stored = request.stored
      /\ request'.call = call
  <2>. HIDE DEF call
  <2>. QED
    BY <1>1, <1>2 DEF Requests
<1>. HIDE DEF call
<1>6. RetryFollowsThePolicy'
  BY <1>1, <1>5 DEF RequestInv, RetryFollowsThePolicy
<1>7. request'.call = CallOf(request.stored)
  BY <1>5 DEF call
<1>. QED
  BY <1>1, <1>4, <1>5, <1>6, <1>7, WorkKeepsInv DEF SinceTheQueue

(* The call returns, perhaps over a failure that it has made a result of.    *)
LEMMA ResultKeepsInv ==
  ASSUME RequestInv, request.node = "called", NEW f \in Failures,
         request' = [request EXCEPT !.node = "succeeded", !.failure = f]
  PROVE  RequestInv'
<1>1. request \in Requests /\ request.call = CallOf(request.stored) /\ request.error.code # "invalid_job_input"
  BY DEF RequestInv
<1>2. request' \in Requests
  BY <1>1 DEF Requests, SinceTheQueue
<1>3. /\ request'.node = "succeeded" /\ request'.attempts = request.attempts /\ request'.error = request.error
      /\ request'.via = request.via /\ request'.input = request.input /\ request'.asked = request.asked
      /\ request'.uploaded = request.uploaded /\ request'.answer = request.answer /\ request'.stored = request.stored
      /\ request'.call = request.call
  BY <1>1 DEF Requests
<1>4. RetryFollowsThePolicy'
  BY <1>3 DEF RequestInv, RetryFollowsThePolicy
<1>. QED
  BY <1>1, <1>2, <1>3, <1>4, WorkKeepsInv DEF SinceTheQueue

LEMMA ReturnKeepsInv == RequestInv /\ Return => RequestInv'
<1>. SUFFICES ASSUME RequestInv, Return PROVE RequestInv'
  OBVIOUS
<1>. DEFINE f == request.failure
<1>1. request \in Requests /\ request.node = "called"
  BY DEF RequestInv, Return
<1>2. f \in Failures /\ request' = [request EXCEPT !.node = "succeeded", !.failure = f]
  BY <1>1 DEF Return, Requests
<1>. HIDE DEF f
<1>. QED
  BY <1>1, <1>2, ResultKeepsInv

LEMMA SwallowKeepsInv == RequestInv /\ Swallow => RequestInv'
<1>. SUFFICES ASSUME RequestInv, Swallow PROVE RequestInv'
  OBVIOUS
<1>1. PICK f \in Met(request.call.kind) : request' = [request EXCEPT !.node = "succeeded", !.failure = f]
  BY DEF Swallow
<1>2. f \in Failures
  BY <1>1, RaisedAreFailures
<1>. QED
  BY <1>1, <1>2, ResultKeepsInv DEF Swallow

LEMMA FailKeepsInv == RequestInv /\ Fail => RequestInv'
<1>. SUFFICES ASSUME RequestInv, Fail PROVE RequestInv'
  OBVIOUS
<1>1. PICK f \in Raised(request.call.kind) : RecordJobFailure(f)
  BY DEF Fail
<1>2. f \in Failures /\ f.type # "invalid"
  BY <1>1, RaisedAreFailures
<1>3. request \in Requests /\ request.node = "called" /\ request.attempts \in Nat /\ request.attempts <= MostAttempts
  BY RequestFields DEF RequestInv, Fail
<1>. DEFINE retried == Transient(f) /\ request.attempts < MostAttempts
            error == ErrorJson(f, retried)
            node == IF retried THEN "queued" ELSE "failed"
<1>4. request' = [request EXCEPT !.failure = f, !.error = error, !.node = node]
  BY <1>1 DEF RecordJobFailure
<1>5. /\ retried \in BOOLEAN /\ node \in SinceTheQueue /\ node \in {"queued", "failed"}
      /\ node = "queued" <=> retried
  BY DEF SinceTheQueue
<1>6. retried <=> Transient(f) /\ request.attempts < MostAttempts
  OBVIOUS
<1>. HIDE DEF retried, node
<1>7. error \in Errors /\ error.retryable = retried /\ FollowsThePolicy(error, Transient(f))
  BY <1>2, <1>5, ErrorFollowsThePolicy
<1>. HIDE DEF error
<1>8. request' \in Requests
  BY <1>2, <1>3, <1>4, <1>5, <1>7 DEF Requests
<1>9. /\ request'.node = node /\ request'.attempts = request.attempts /\ request'.error = error
      /\ request'.via = request.via /\ request'.input = request.input /\ request'.asked = request.asked
      /\ request'.uploaded = request.uploaded /\ request'.answer = request.answer /\ request'.stored = request.stored
  BY <1>3, <1>4 DEF Requests
<1>10. ~(request.attempts < MostAttempts) => request.attempts = MostAttempts
  BY <1>3, RequestBounds
<1>11. RetryFollowsThePolicy'
  BY <1>5, <1>6, <1>7, <1>9, <1>10 DEF RetryFollowsThePolicy, FollowsThePolicy
<1>12. request'.error.code # "invalid_job_input"
  BY <1>7, <1>9 DEF FollowsThePolicy
<1>13. request'.node = "queued" => request'.attempts < MostAttempts
  BY <1>5, <1>6, <1>9
<1>. QED
  BY <1>3, <1>5, <1>8, <1>9, <1>11, <1>12, <1>13, WorkKeepsInv DEF SinceTheQueue

LEMMA RequestNextPreserves == RequestInv /\ [RequestNext]_request => RequestInv'
<1>1. ASSUME RequestInv, UNCHANGED request PROVE RequestInv'
  <2>1. request' = request
    BY <1>1
  <2>2. RetryFollowsThePolicy' /\ FaultsAreNamed' /\ FaultsLeaveNoPdf'
    BY <1>1, <2>1 DEF RequestInv, RetryFollowsThePolicy, FaultsAreNamed, FaultsLeaveNoPdf
  <2>. QED
    BY <1>1, <2>1, <2>2 DEF RequestInv
<1>. QED
  BY <1>1, RestRefusesKeepsInv, RestPassesKeepsInv, McpRefusesKeepsInv, McpPassesKeepsInv, CallServiceKeepsInv,
     StoreUploadKeepsInv, EnqueueKeepsInv, EnqueueFailsKeepsInv, ClaimKeepsInv, NoInputIsRejected, CallKeepsInv,
     ReturnKeepsInv, FailKeepsInv, SwallowKeepsInv DEF RequestNext

LEMMA RequestInvIsEnough == RequestInv => JobKeepsItsWord
<1>. SUFFICES ASSUME RequestInv PROVE JobKeepsItsWord
  OBVIOUS
<1>0. request \in Requests /\ WellFormed(request.input) /\ WellFormed(request.asked)
  BY DEF RequestInv
<1>1. JobMeansTheRequest
  <2>1. ASSUME request.node \in {"called", "succeeded"}, request.asked.ids # <<>>
        PROVE  Meaning(request.call) = Meaning(request.asked)
    <3>1. /\ ~Refused(request.asked) /\ request.stored = Stored(request.asked)
          /\ request.call = CallOf(request.stored)
      BY <2>1 DEF RequestInv, SinceTheQueue
    <3>. QED
      BY <1>0, <2>1, <3>1, CallMeansWhatWasAsked
  <2>. QED
    BY <2>1 DEF RequestInv, JobMeansTheRequest
<1>2. AskedMeansTheInput
  <2>. SUFFICES ASSUME request.via # "service", request.node \notin {"sent", "refused"}
                PROVE  /\ Meaning([request.asked EXCEPT !.ids = Null]) = Meaning([request.input EXCEPT !.ids = Null])
                       /\ request.input.kind = "compare" \/ request.via = "mcp" =>
                            RequestedPapers(request.asked.ids) = RequestedPapers(request.input.ids)
    BY DEF AskedMeansTheInput, RequestedPapers
  <2>1. IsPassed(request.via, request.input, request.asked) /\ request.via \in {"rest", "form", "mcp"}
    BY RequestFields DEF RequestInv
  <2>. QED
    BY <1>0, <2>1, PassedMeansTheInput
<1>. QED
  BY <1>1, <1>2 DEF RequestInv, JobKeepsItsWord

(* A job does what was asked for, means what the client said, tells it of    *)
(* its faults, leaves no PDF behind and is tried again as the documents say. *)
THEOREM JobsKeepTheirWord == RequestSpec => []JobKeepsItsWord
<1>. QED
  BY RequestInitHolds, RequestNextPreserves, RequestInvIsEnough, PTL DEF RequestSpec

-----------------------------------------------------------------------------
(* The preview page *)

UiSpec == UiInit /\ [][UiNext]_ui

ShownSessions == UiSessions \cup {NoSession}
Handlers ==
  [kind : Buttons \cup {"none", "workspace"}, awaits : {"nothing", "answer", "job", "session", "workspaces"},
   asks : ShownSessions, job : ShownSessions, sure : BOOLEAN]
Outputs == [kind : {"ready", "notice", "result", "error"}, job : ShownSessions, sure : BOOLEAN]
Pages ==
  [node : {"open"}, field : ShownSessions, meta : ShownSessions, listed : ShownSessions, busy : BOOLEAN, joined : BOOLEAN,
   output : Outputs, handlers : [HandlerIds -> Handlers]]

\* A handler that is sure of its session follows a job, of the session in the
\* field, and what it has asked for or shown so far is of that session.
SureOfItsSession(page, h) ==
  h.sure =>
    /\ h.kind = "job" /\ h.job = page.field
    /\ h.awaits \in {"session", "workspaces"} => h.asks = h.job
    /\ h.awaits = "workspaces" => page.meta = h.job

Works(n) == ui.handlers[n].awaits # "nothing"

UiInv ==
  /\ ui \in Pages
  /\ \A n \in HandlerIds : ~Works(n) => ui.handlers[n] = NoHandler
  /\ (\A n \in HandlerIds : ~Works(n)) => ~ui.busy /\ ui.output.kind # "notice"
  /\ ~ui.joined =>
       \A n \in HandlerIds : Works(n) =>
         /\ ui.busy /\ ui.output.kind = "notice"
         /\ \A m \in HandlerIds : Works(m) => m = n
         /\ SureOfItsSession(ui, ui.handlers[n])
  /\ ui.output.kind = "result" /\ ui.output.sure /\ ~ui.joined =>
       ui.meta = ui.output.job /\ ui.listed = ui.output.job

LEMMA NoHandlerIs == NoHandler \in Handlers /\ NoHandler.awaits = "nothing" /\ NoHandler.sure = FALSE
BY DEF NoHandler, Handlers, ShownSessions

LEMMA RunningAre == UiInv => RunningHandlers = {n \in HandlerIds : Works(n)}
BY NoHandlerIs DEF UiInv, RunningHandlers, Works

LEMMA UiInitHolds == UiInit => UiInv
<1>. SUFFICES ASSUME UiInit PROVE UiInv
  OBVIOUS
<1>1. ui = NewUi /\ Output("ready", NoSession, FALSE) \in Outputs
  BY DEF UiInit, Output, Outputs, ShownSessions
<1>2. ui \in Pages /\ \A n \in HandlerIds : ui.handlers[n] = NoHandler
  BY <1>1, NoHandlerIs DEF NewUi, Pages, ShownSessions
<1>3. ui.output = Output("ready", NoSession, FALSE) /\ ~ui.busy
  BY <1>1 DEF NewUi
<1>4. ui.output.kind = "ready"
  BY <1>3 DEF Output
<1>. QED
  BY <1>2, <1>3, <1>4, NoHandlerIs DEF UiInv, Works

(* The invariant gives the property. *)
LEMMA UiInvIsOrderly == UiInv => UiIsOrderly
<1>. SUFFICES ASSUME UiInv PROVE UiIsOrderly
  OBVIOUS
<1>1. RunningHandlers = {n \in HandlerIds : Works(n)}
  BY RunningAre
<1>2. ASSUME NEW n \in RunningHandlers, ~ui.joined
      PROVE  ui.busy /\ Cardinality(RunningHandlers) = 1 /\ ui.output.kind = "notice"
  <2>1. RunningHandlers = {n}
    BY <1>1, <1>2 DEF UiInv
  <2>. QED
    BY <1>1, <1>2, <2>1, FS_Singleton DEF UiInv
<1>. QED
  BY <1>1, <1>2 DEF UiInv, UiIsOrderly

(* What the end of a handler must leave true. *)
LEMMA EndKeepsInv ==
  ASSUME UiInv, NEW n \in HandlerIds, Works(n),
         ui' \in Pages, ui'.busy = FALSE, ui'.joined = ui.joined,
         ui'.handlers = [ui.handlers EXCEPT ![n] = NoHandler],
         ui'.output.kind \in {"result", "error"},
         ui'.output.sure /\ ~ui.joined => ui'.meta = ui'.output.job /\ ui'.listed = ui'.output.job
  PROVE  UiInv'
<1>1. ui.handlers \in [HandlerIds -> Handlers]
  BY DEF UiInv, Pages
<1>2. ui'.handlers[n] = NoHandler /\ \A m \in HandlerIds \ {n} : ui'.handlers[m] = ui.handlers[m]
  BY <1>1
<1>3. ~Works(n)' /\ \A m \in HandlerIds \ {n} : Works(m)' = Works(m)
  BY <1>2, NoHandlerIs DEF Works
<1>4. ~ui.joined => \A m \in HandlerIds : ~Works(m)'
  BY <1>3 DEF UiInv
<1>5. \A m \in HandlerIds : ~Works(m)' => ui'.handlers[m] = NoHandler
  BY <1>2, <1>3 DEF UiInv
<1>. QED
  BY <1>4, <1>5 DEF UiInv

(* What the next await of a handler must leave true. *)
LEMMA AwaitKeepsInv ==
  ASSUME UiInv, NEW n \in HandlerIds, Works(n),
         ui' \in Pages, ui'.busy = ui.busy, ui'.joined = ui.joined,
         ui'.handlers = [ui.handlers EXCEPT ![n] = ui'.handlers[n]], ui'.handlers[n].awaits # "nothing",
         ui'.output = ui.output \/ ui'.output.kind = "notice",
         ~ui.joined => SureOfItsSession(ui', ui'.handlers[n])
  PROVE  UiInv'
<1>1. ui.handlers \in [HandlerIds -> Handlers]
  BY DEF UiInv, Pages
<1>2. \A m \in HandlerIds \ {n} : ui'.handlers[m] = ui.handlers[m]
  BY <1>1
<1>3. \A m \in HandlerIds : Works(m)' = Works(m)
  BY <1>2 DEF Works
<1>4. ~ui.joined => ui.busy /\ ui'.output.kind = "notice" /\ \A m \in HandlerIds : Works(m) => m = n
  BY DEF UiInv
<1>5. \A m \in HandlerIds : ~Works(m)' => ui'.handlers[m] = NoHandler
  BY <1>2, <1>3 DEF UiInv
<1>. QED
  BY <1>3, <1>4, <1>5 DEF UiInv

LEMMA BeginKeepsInv ==
  ASSUME UiInv, NEW kind \in Buttons \cup {"workspace"}, NEW joined \in BOOLEAN, Begin(kind, joined),
         ~joined => RunningHandlers = {}
  PROVE  UiInv'
<1>1. PICK n \in HandlerIds \ RunningHandlers :
        ui' = [ui EXCEPT !.busy = TRUE, !.joined = joined, !.output = Output("notice", NoSession, FALSE),
                     !.handlers[n] = [kind |-> kind, awaits |-> "answer",
                                      asks |-> IF kind = "create session" THEN NoSession ELSE ui.field,
                                      job |-> IF kind = "job" THEN ui.field ELSE NoSession,
                                      sure |-> kind = "job"]]
  BY DEF Begin
<1>. DEFINE asks == IF kind = "create session" THEN NoSession ELSE ui.field
            job == IF kind = "job" THEN ui.field ELSE NoSession
            sure == kind = "job"
            h == [kind |-> kind, awaits |-> "answer", asks |-> asks, job |-> job, sure |-> sure]
            handlers == [ui.handlers EXCEPT ![n] = h]
            output == Output("notice", NoSession, FALSE)
<1>2. ui \in Pages /\ ui.handlers \in [HandlerIds -> Handlers] /\ ui.field \in ShownSessions /\ n \in HandlerIds
  BY DEF UiInv, Pages
<1>3. asks \in ShownSessions /\ job \in ShownSessions /\ sure \in BOOLEAN /\ (sure => kind = "job" /\ job = ui.field)
  BY <1>2 DEF ShownSessions
<1>4. ui' = [ui EXCEPT !.busy = TRUE, !.joined = joined, !.output = output, !.handlers = handlers]
  BY <1>1, <1>2 DEF Pages
<1>5. output \in Outputs /\ output.kind = "notice"
  BY DEF Output, Outputs, ShownSessions
<1>. HIDE DEF asks, job, sure, output
<1>6. h \in Handlers /\ h.kind = kind /\ h.awaits = "answer" /\ h.job = job /\ h.sure = sure
  BY <1>3 DEF Handlers
<1>. HIDE DEF h
<1>7. /\ handlers \in [HandlerIds -> Handlers] /\ handlers[n] = h
      /\ \A m \in HandlerIds \ {n} : handlers[m] = ui.handlers[m]
  BY <1>2, <1>6
<1>. HIDE DEF handlers
<1>8. /\ ui' \in Pages /\ ui'.busy = TRUE /\ ui'.joined = joined /\ ui'.field = ui.field
      /\ ui'.handlers = handlers /\ ui'.output = output
  BY <1>2, <1>4, <1>5, <1>7 DEF Pages
<1>9. Works(n)' /\ \A m \in HandlerIds \ {n} : Works(m)' = Works(m) /\ ui'.handlers[m] = ui.handlers[m]
  BY <1>6, <1>7, <1>8 DEF Works
<1>10. ~joined => \A m \in HandlerIds : ~Works(m)
  BY RunningAre
<1>11. SureOfItsSession(ui', h)
  BY <1>3, <1>6, <1>8 DEF SureOfItsSession
<1>12. \A m \in HandlerIds : ~Works(m)' => ui'.handlers[m] = NoHandler
  BY <1>9 DEF UiInv
<1>. QED
  BY <1>5, <1>7, <1>8, <1>9, <1>10, <1>11, <1>12 DEF UiInv

(* A click that starts no handler. *)
LEMMA AtOnceKeepsInv ==
  ASSUME UiInv, ~ui.busy, NEW outcome \in {"result", "error"},
         ui' = [ui EXCEPT !.busy = FALSE, !.output = Output(outcome, NoSession, FALSE)]
  PROVE  UiInv'
<1>. DEFINE output == Output(outcome, NoSession, FALSE)
<1>1. ui \in Pages
  BY DEF UiInv
<1>2. output \in Outputs /\ output.kind = outcome /\ output.sure = FALSE
  BY DEF Output, Outputs, ShownSessions
<1>. HIDE DEF output
<1>3. ui' = [ui EXCEPT !.busy = FALSE, !.output = output]
  BY DEF output
<1>4. /\ ui' \in Pages /\ ui'.busy = FALSE /\ ui'.joined = ui.joined /\ ui'.handlers = ui.handlers
      /\ ui'.output = output
  BY <1>1, <1>2, <1>3 DEF Pages
<1>5. \A m \in HandlerIds : Works(m)' = Works(m)
  BY <1>4 DEF Works
<1>. QED
  BY <1>2, <1>4, <1>5 DEF UiInv

LEMMA TypeSessionKeepsInv ==
  ASSUME UiInv, NEW s \in ShownSessions, TypeSession(s)
  PROVE  UiInv'
<1>. DEFINE unsure(n) == [ui.handlers[n] EXCEPT !.sure = FALSE]
            handlers == [n \in HandlerIds |-> unsure(n)]
<1>1. ui \in Pages /\ ui.handlers \in [HandlerIds -> Handlers]
  BY DEF UiInv, Pages
<1>2. \A n \in HandlerIds :
        unsure(n) \in Handlers /\ unsure(n).awaits = ui.handlers[n].awaits /\ unsure(n).sure = FALSE
  BY <1>1 DEF Handlers
<1>3. ASSUME NEW n \in HandlerIds, ui.handlers[n] = NoHandler
      PROVE  unsure(n) = NoHandler
  <2>1. [NoHandler EXCEPT !.sure = FALSE] = NoHandler
    BY NoHandlerIs DEF Handlers
  <2>. QED
    BY <1>3, <2>1
<1>4. ui' = [ui EXCEPT !.field = s, !.handlers = handlers]
  BY DEF TypeSession
<1>. HIDE DEF unsure
<1>5. handlers \in [HandlerIds -> Handlers] /\ \A n \in HandlerIds : handlers[n] = unsure(n)
  BY <1>2
<1>. HIDE DEF handlers
<1>6. /\ ui' \in Pages /\ ui'.busy = ui.busy /\ ui'.joined = ui.joined /\ ui'.output = ui.output
      /\ ui'.handlers = handlers /\ ui'.meta = ui.meta /\ ui'.listed = ui.listed
  BY <1>1, <1>4, <1>5 DEF Pages
<1>7. \A n \in HandlerIds : Works(n)' = Works(n) /\ SureOfItsSession(ui', ui'.handlers[n])
  BY <1>2, <1>5, <1>6 DEF Works, SureOfItsSession
<1>8. \A n \in HandlerIds : ~Works(n)' => ui'.handlers[n] = NoHandler
  BY <1>3, <1>5, <1>6, <1>7 DEF UiInv
<1>. QED
  BY <1>6, <1>7, <1>8 DEF UiInv

(* run, behind its task. *)
IsEnded(next, page, n, outcome, sure) ==
  /\ next \in Pages /\ next.busy = FALSE /\ next.joined = page.joined /\ next.field = page.field
  /\ next.meta = page.meta /\ next.listed = page.listed
  /\ next.handlers = [page.handlers EXCEPT ![n] = NoHandler]
  /\ next.output.kind = outcome /\ next.output.sure = sure /\ next.output.job = page.handlers[n].job

LEMMA EndedIs ==
  ASSUME NEW page \in Pages, NEW n \in HandlerIds, NEW outcome \in {"result", "error"}, NEW sure \in BOOLEAN
  PROVE  IsEnded(Ended(page, n, outcome, sure), page, n, outcome, sure)
<1>. DEFINE output == Output(outcome, page.handlers[n].job, sure)
            handlers == [page.handlers EXCEPT ![n] = NoHandler]
            next == Ended(page, n, outcome, sure)
<1>1. page.handlers \in [HandlerIds -> Handlers] /\ page.handlers[n].job \in ShownSessions
  BY DEF Pages, Handlers
<1>2. output \in Outputs /\ output.kind = outcome /\ output.sure = sure /\ output.job = page.handlers[n].job
  BY <1>1 DEF Output, Outputs
<1>3. handlers \in [HandlerIds -> Handlers]
  BY <1>1, NoHandlerIs
<1>4. next = [page EXCEPT !.busy = FALSE, !.handlers = handlers, !.output = output]
  BY DEF Ended, Pages
<1>. HIDE DEF output, handlers, next
<1>5. /\ next \in Pages /\ next.busy = FALSE /\ next.joined = page.joined /\ next.field = page.field
      /\ next.meta = page.meta /\ next.listed = page.listed
      /\ next.handlers = handlers /\ next.output = output
  BY <1>2, <1>3, <1>4 DEF Pages
<1>. QED
  BY <1>2, <1>5 DEF next, handlers, IsEnded

(* refreshSession and refreshWorkspaces, in a page where a handler has got   *)
(* so far: the handler ends, or it asks for the session of the field.        *)
LEMMA RefreshingKeepsInv ==
  ASSUME UiInv, NEW n \in HandlerIds, Works(n), NEW part \in {"session", "workspaces"},
         NEW page \in Pages, page.busy = ui.busy, page.joined = ui.joined,
         page.handlers = [ui.handlers EXCEPT ![n] = page.handlers[n]], page.handlers[n].awaits # "nothing",
         page.output = ui.output \/ page.output.kind = "notice",
         ui' = Refreshing(page, n, part),
         ~ui.joined /\ page.handlers[n].sure =>
           /\ page.handlers[n].kind = "job" /\ page.handlers[n].job = page.field
           /\ part = "workspaces" => page.meta = page.field
  PROVE  UiInv'
<1>1. /\ ui.handlers \in [HandlerIds -> Handlers] /\ page.handlers \in [HandlerIds -> Handlers]
      /\ page.field \in ShownSessions /\ page.handlers[n] \in Handlers
  BY DEF UiInv, Pages
<1>2. CASE page.field = NoSession
  <2>1. ui' = Ended(page, n, "result", FALSE)
    BY <1>2 DEF Refreshing
  <2>. DEFINE ended == Ended(page, n, "result", FALSE)
  <2>4. IsEnded(ended, page, n, "result", FALSE)
    BY EndedIs
  <2>. HIDE DEF ended
  <2>2. /\ ui' \in Pages /\ ui'.busy = FALSE /\ ui'.joined = ui.joined
        /\ ui'.handlers = [page.handlers EXCEPT ![n] = NoHandler]
        /\ ui'.output.kind = "result" /\ ui'.output.sure = FALSE
    BY <2>1, <2>4 DEF ended, IsEnded
  <2>3. ui'.handlers = [ui.handlers EXCEPT ![n] = NoHandler]
    BY <1>1, <2>2
  <2>. QED
    BY <2>2, <2>3, EndKeepsInv
<1>3. CASE page.field # NoSession
  <2>. DEFINE next == [page.handlers[n] EXCEPT !.awaits = part, !.asks = page.field]
              handlers == [page.handlers EXCEPT ![n] = next]
  <2>1. /\ next \in Handlers /\ next.awaits = part /\ next.asks = page.field
        /\ next.sure = page.handlers[n].sure /\ next.kind = page.handlers[n].kind
        /\ next.job = page.handlers[n].job
    BY <1>1 DEF Handlers
  <2>2. ui' = [page EXCEPT !.handlers[n].awaits = part, !.handlers[n].asks = page.field]
    BY <1>3 DEF Refreshing
  <2>3. ui' = [page EXCEPT !.handlers = handlers]
    <3>1. page.handlers[n] \in Handlers
      BY <1>1
    <3>2. next = [[page.handlers[n] EXCEPT !.awaits = part] EXCEPT !.asks = page.field]
      BY <3>1 DEF Handlers
    <3>. QED
      BY <1>1, <2>2, <3>2 DEF Pages
  <2>. HIDE DEF next
  <2>4. handlers \in [HandlerIds -> Handlers] /\ handlers[n] = next /\ handlers = [ui.handlers EXCEPT ![n] = next]
    BY <1>1, <2>1
  <2>. HIDE DEF handlers
  <2>5. /\ ui' \in Pages /\ ui'.busy = ui.busy /\ ui'.joined = ui.joined /\ ui'.field = page.field
        /\ ui'.meta = page.meta /\ ui'.output = page.output /\ ui'.handlers = handlers
    BY <2>3, <2>4 DEF Pages
  <2>6. ~ui.joined => SureOfItsSession(ui', next)
    BY <2>1, <2>5 DEF SureOfItsSession
  <2>. QED
    BY <2>1, <2>4, <2>5, <2>6, AwaitKeepsInv
<1>. QED
  BY <1>2, <1>3

(* A handler that ends without being sure of anything. *)
LEMMA UnsureEndKeepsInv ==
  ASSUME UiInv, NEW n \in HandlerIds, Works(n), NEW outcome \in {"result", "error"},
         NEW page \in Pages, page.joined = ui.joined, page.handlers = ui.handlers,
         ui' = Ended(page, n, outcome, FALSE)
  PROVE  UiInv'
<1>. DEFINE ended == Ended(page, n, outcome, FALSE)
<1>1. IsEnded(ended, page, n, outcome, FALSE)
  BY EndedIs
<1>. HIDE DEF ended
<1>2. ui' = ended
  BY DEF ended
<1>. QED
  BY <1>1, <1>2, EndKeepsInv DEF IsEnded

LEMMA RenderedIs ==
  ASSUME NEW page \in Pages, NEW s \in ShownSessions
  PROVE  /\ Rendered(page, s) \in Pages /\ Rendered(page, s).field = s /\ Rendered(page, s).meta = s
         /\ Rendered(page, s).busy = page.busy /\ Rendered(page, s).joined = page.joined
         /\ Rendered(page, s).listed = page.listed
         /\ Rendered(page, s).output = page.output /\ Rendered(page, s).handlers = page.handlers
BY DEF Rendered, Pages

LEMMA AnswerKeepsInv ==
  ASSUME UiInv, NEW n \in HandlerIds,
         \/ AnswerRequest(n) \/ AnswerSelection(n) \/ AnswerLoad(n) \/ AnswerList(n) \/ AnswerIsError(n)
         \/ GiveUpJob(n) \/ \E s \in UiSessions : AnswerCreate(n, s)
  PROVE  UiInv'
<1>1. ui \in Pages /\ ui.handlers \in [HandlerIds -> Handlers] /\ ui.handlers[n] \in Handlers
      /\ ui.handlers[n].asks \in ShownSessions
  BY DEF UiInv, Pages, Handlers
<1>2. Works(n) /\ ui.handlers[n].awaits # "nothing"
  BY DEF Works, AnswerRequest, AnswerSelection, AnswerLoad, AnswerList, AnswerIsError, GiveUpJob, AnswerCreate, Awaiting
<1>3. ui.handlers = [ui.handlers EXCEPT ![n] = ui.handlers[n]]
  BY <1>1
<1>4. ~ui.joined /\ ui.handlers[n].sure => ui.handlers[n].kind = "job"
  BY <1>2 DEF UiInv, SureOfItsSession
<1>5. CASE AnswerRequest(n)
  BY <1>1, <1>2, <1>5, UnsureEndKeepsInv DEF AnswerRequest
<1>6. CASE AnswerIsError(n) \/ GiveUpJob(n)
  BY <1>1, <1>2, <1>6, UnsureEndKeepsInv DEF AnswerIsError, GiveUpJob
<1>7. CASE AnswerLoad(n)
  <2>. DEFINE page == Rendered(ui, ui.handlers[n].asks)
  <2>1. page \in Pages /\ page.joined = ui.joined /\ page.handlers = ui.handlers
    BY <1>1, RenderedIs
  <2>2. ui' = Ended(page, n, "result", FALSE)
    BY <1>7 DEF AnswerLoad
  <2>. HIDE DEF page
  <2>. QED
    BY <1>2, <2>1, <2>2, UnsureEndKeepsInv
<1>8. CASE AnswerList(n)
  <2>. DEFINE page == [ui EXCEPT !.listed = ui.handlers[n].asks]
  <2>1. page \in Pages /\ page.joined = ui.joined /\ page.handlers = ui.handlers
    BY <1>1 DEF Pages
  <2>2. ui' = Ended(page, n, "result", FALSE)
    BY <1>8 DEF AnswerList
  <2>. HIDE DEF page
  <2>. QED
    BY <1>2, <2>1, <2>2, UnsureEndKeepsInv
<1>9. CASE AnswerSelection(n)
  <2>1. ui.handlers[n].kind = "select" /\ ui' = Refreshing(ui, n, "session")
    BY <1>9 DEF AnswerSelection, Awaiting
  <2>. QED
    BY <1>1, <1>2, <1>3, <1>4, <2>1, RefreshingKeepsInv
<1>10. ASSUME NEW s \in UiSessions, AnswerCreate(n, s)
       PROVE  UiInv'
  <2>. DEFINE page == Rendered(ui, s)
  <2>1. ui.handlers[n].kind = "create session" /\ ui' = Refreshing(page, n, "workspaces")
    BY <1>10 DEF AnswerCreate, Awaiting
  <2>2. page \in Pages /\ page.busy = ui.busy /\ page.joined = ui.joined /\ page.handlers = ui.handlers
        /\ page.output = ui.output
    BY <1>1, RenderedIs DEF ShownSessions
  <2>. HIDE DEF page
  <2>. QED
    BY <1>2, <1>3, <1>4, <2>1, <2>2, RefreshingKeepsInv
<1>. QED
  BY <1>5, <1>6, <1>7, <1>8, <1>9, <1>10

LEMMA FollowJobKeepsInv ==
  ASSUME UiInv, NEW n \in HandlerIds, NEW status \in Statuses, FollowJob(n, status)
  PROVE  UiInv'
<1>. DEFINE notice == Output("notice", NoSession, FALSE)
            noticed == [ui EXCEPT !.output = notice]
<1>1. ui \in Pages /\ ui.handlers \in [HandlerIds -> Handlers] /\ ui.handlers[n] \in Handlers
  BY DEF UiInv, Pages, Handlers
<1>2. Works(n) /\ ui.handlers[n].awaits \in {"answer", "job"}
  BY DEF Works, FollowJob, Awaiting
<1>3. notice \in Outputs /\ notice.kind = "notice"
  BY DEF Output, Outputs, ShownSessions
<1>4. ui' = CASE status = "succeeded" -> Refreshing(noticed, n, "session")
               [] status \in {"failed", "canceled"} -> Ended(noticed, n, "error", FALSE)
               [] OTHER -> [noticed EXCEPT !.handlers[n].awaits = "job"]
  BY DEF FollowJob
<1>. HIDE DEF notice
<1>5. /\ noticed \in Pages /\ noticed.busy = ui.busy /\ noticed.joined = ui.joined /\ noticed.field = ui.field
      /\ noticed.handlers = ui.handlers /\ noticed.output = notice
  BY <1>1, <1>3 DEF Pages
<1>. HIDE DEF noticed
<1>6. ui.handlers = [ui.handlers EXCEPT ![n] = ui.handlers[n]]
  BY <1>1
<1>7. ~ui.joined => SureOfItsSession(ui, ui.handlers[n])
  BY <1>2 DEF UiInv
<1>8. CASE status = "succeeded"
  <2>1. ui' = Refreshing(noticed, n, "session")
    BY <1>4, <1>8
  <2>. QED
    BY <1>2, <1>3, <1>5, <1>6, <1>7, <2>1, RefreshingKeepsInv DEF SureOfItsSession
<1>9. CASE status \in {"failed", "canceled"}
  <2>1. ui' = Ended(noticed, n, "error", FALSE)
    BY <1>4, <1>9
  <2>. QED
    BY <1>2, <1>5, <2>1, UnsureEndKeepsInv
<1>10. CASE status \notin {"succeeded", "failed", "canceled"}
  <2>. DEFINE next == [ui.handlers[n] EXCEPT !.awaits = "job"]
              handlers == [ui.handlers EXCEPT ![n] = next]
  <2>1. /\ next \in Handlers /\ next.awaits = "job" /\ next.sure = ui.handlers[n].sure
        /\ next.kind = ui.handlers[n].kind /\ next.job = ui.handlers[n].job
    BY <1>1 DEF Handlers
  <2>2. ui' = [noticed EXCEPT !.handlers[n].awaits = "job"]
    BY <1>4, <1>10
  <2>3. ui' = [noticed EXCEPT !.handlers = handlers]
    BY <1>5, <2>2 DEF Pages
  <2>. HIDE DEF next
  <2>4. handlers \in [HandlerIds -> Handlers] /\ handlers[n] = next
    BY <1>1, <2>1
  <2>. HIDE DEF handlers
  <2>5. /\ ui' \in Pages /\ ui'.busy = ui.busy /\ ui'.joined = ui.joined /\ ui'.field = ui.field
        /\ ui'.output = notice /\ ui'.handlers = handlers
    BY <1>5, <2>3, <2>4 DEF Pages
  <2>6. ~ui.joined => SureOfItsSession(ui', next)
    BY <1>7, <2>1, <2>5 DEF SureOfItsSession
  <2>7. handlers = [ui.handlers EXCEPT ![n] = next]
    BY DEF handlers
  <2>. QED
    BY <1>2, <1>3, <2>1, <2>4, <2>5, <2>6, <2>7, AwaitKeepsInv
<1>. QED
  BY <1>8, <1>9, <1>10

LEMMA RefreshSessionKeepsInv ==
  ASSUME UiInv, NEW n \in HandlerIds, RefreshSession(n)
  PROVE  UiInv'
<1>1. ui \in Pages /\ ui.handlers \in [HandlerIds -> Handlers] /\ ui.handlers[n] \in Handlers
      /\ ui.handlers[n].asks \in ShownSessions /\ ui.handlers[n].sure \in BOOLEAN
  BY DEF UiInv, Pages, Handlers
<1>2. Works(n) /\ ui.handlers[n].awaits = "session"
  BY DEF Works, RefreshSession
<1>3. ~ui.joined => SureOfItsSession(ui, ui.handlers[n])
  BY <1>2 DEF UiInv
<1>4. PICK ok \in BOOLEAN :
        LET h == ui.handlers[n]
            seen == [(IF ok THEN Rendered(ui, h.asks) ELSE ui) EXCEPT !.handlers[n].sure = @ /\ ok]
        IN ui' = IF h.kind = "job" THEN Refreshing(seen, n, "workspaces")
                 ELSE Ended(seen, n, "result", seen.handlers[n].sure)
  BY DEF RefreshSession
<1>. DEFINE page == IF ok THEN Rendered(ui, ui.handlers[n].asks) ELSE ui
            sure == page.handlers[n].sure /\ ok
            next == [ui.handlers[n] EXCEPT !.sure = sure]
            handlers == [ui.handlers EXCEPT ![n] = next]
            seen == [page EXCEPT !.handlers[n].sure = sure]
<1>5. /\ page \in Pages /\ page.busy = ui.busy /\ page.joined = ui.joined /\ page.output = ui.output
      /\ page.handlers = ui.handlers /\ (~ok => page = ui)
      /\ ok => page.field = ui.handlers[n].asks /\ page.meta = ui.handlers[n].asks
  BY <1>1, RenderedIs
<1>6. ui' = IF ui.handlers[n].kind = "job" THEN Refreshing(seen, n, "workspaces")
            ELSE Ended(seen, n, "result", seen.handlers[n].sure)
  BY <1>4
<1>. HIDE DEF page
<1>7. sure \in BOOLEAN /\ (sure <=> ui.handlers[n].sure /\ ok)
  BY <1>5
<1>. HIDE DEF sure
<1>8. /\ next \in Handlers /\ next.awaits = "session" /\ next.sure = sure
      /\ next.kind = ui.handlers[n].kind /\ next.job = ui.handlers[n].job
  BY <1>1, <1>2, <1>7 DEF Handlers
<1>9. seen = [page EXCEPT !.handlers = handlers]
  BY <1>1, <1>5 DEF Pages
<1>. HIDE DEF next, seen
<1>10. /\ handlers \in [HandlerIds -> Handlers] /\ handlers[n] = next /\ handlers = [ui.handlers EXCEPT ![n] = next]
       /\ [handlers EXCEPT ![n] = NoHandler] = [ui.handlers EXCEPT ![n] = NoHandler]
  BY <1>1, <1>8
<1>. HIDE DEF handlers
<1>11. /\ seen \in Pages /\ seen.busy = ui.busy /\ seen.joined = ui.joined /\ seen.output = ui.output
       /\ seen.field = page.field /\ seen.meta = page.meta /\ seen.handlers = handlers
  BY <1>5, <1>9, <1>10 DEF Pages
<1>12. CASE ui.handlers[n].kind = "job"
  <2>1. ui' = Refreshing(seen, n, "workspaces")
    BY <1>6, <1>12
  <2>2. ~ui.joined /\ sure => ui.handlers[n].job = seen.field /\ seen.meta = seen.field
    BY <1>2, <1>3, <1>5, <1>7, <1>11 DEF SureOfItsSession
  <2>. QED
    BY <1>2, <1>8, <1>10, <1>11, <1>12, <2>1, <2>2, RefreshingKeepsInv
<1>13. CASE ui.handlers[n].kind # "job"
  <2>. DEFINE ended == Ended(seen, n, "result", sure)
  <2>1. ui' = ended
    BY <1>6, <1>8, <1>10, <1>11, <1>13
  <2>2. IsEnded(ended, seen, n, "result", sure)
    BY <1>7, <1>11, EndedIs
  <2>. HIDE DEF ended
  <2>3. ~ui.joined => ~sure
    BY <1>3, <1>7, <1>13 DEF SureOfItsSession
  <2>. QED
    BY <1>2, <1>10, <1>11, <2>1, <2>2, <2>3, EndKeepsInv DEF IsEnded
<1>. QED
  BY <1>12, <1>13

LEMMA RefreshWorkspacesKeepsInv ==
  ASSUME UiInv, NEW n \in HandlerIds, RefreshWorkspaces(n)
  PROVE  UiInv'
<1>1. ui \in Pages /\ ui.handlers \in [HandlerIds -> Handlers] /\ ui.handlers[n] \in Handlers
      /\ ui.handlers[n].asks \in ShownSessions /\ ui.handlers[n].sure \in BOOLEAN
  BY DEF UiInv, Pages, Handlers
<1>2. Works(n) /\ ui.handlers[n].awaits = "workspaces"
  BY DEF Works, RefreshWorkspaces
<1>3. ~ui.joined => SureOfItsSession(ui, ui.handlers[n])
  BY <1>2 DEF UiInv
<1>4. CASE ui' = Ended(ui, n, "result", FALSE)
  BY <1>1, <1>2, <1>4, UnsureEndKeepsInv
<1>5. CASE ui' = Ended([ui EXCEPT !.listed = ui.handlers[n].asks], n, "result", ui.handlers[n].sure)
  <2>. DEFINE page == [ui EXCEPT !.listed = ui.handlers[n].asks]
              sure == ui.handlers[n].sure
              ended == Ended(page, n, "result", sure)
  <2>1. /\ page \in Pages /\ page.joined = ui.joined /\ page.handlers = ui.handlers
        /\ page.meta = ui.meta /\ page.listed = ui.handlers[n].asks
    BY <1>1 DEF Pages
  <2>2. ui' = ended
    BY <1>5
  <2>. HIDE DEF page
  <2>3. IsEnded(ended, page, n, "result", sure)
    BY <1>1, <2>1, EndedIs
  <2>. HIDE DEF ended
  <2>4. ~ui.joined /\ sure => ui.handlers[n].asks = ui.handlers[n].job /\ ui.meta = ui.handlers[n].job
    BY <1>2, <1>3 DEF SureOfItsSession
  <2>. HIDE DEF sure
  <2>5. /\ ui' \in Pages /\ ui'.busy = FALSE /\ ui'.joined = ui.joined
        /\ ui'.handlers = [ui.handlers EXCEPT ![n] = NoHandler] /\ ui'.output.kind = "result"
    BY <2>1, <2>2, <2>3 DEF IsEnded
  <2>6. /\ ui'.output.sure = sure /\ ui'.output.job = ui.handlers[n].job
        /\ ui'.meta = ui.meta /\ ui'.listed = ui.handlers[n].asks
    BY <2>1, <2>2, <2>3 DEF IsEnded
  <2>. QED
    BY <1>2, <2>4, <2>5, <2>6, EndKeepsInv
<1>. QED
  BY <1>4, <1>5 DEF RefreshWorkspaces

LEMMA UiNextPreserves == UiInv /\ [UiNext]_ui => UiInv'
<1>. SUFFICES ASSUME UiInv, [UiNext]_ui PROVE UiInv'
  OBVIOUS
<1>1. CASE UNCHANGED ui
  BY <1>1 DEF UiInv, Works, SureOfItsSession
<1>2. ASSUME NEW kind \in Buttons, Press(kind) PROVE UiInv'
  <2>. DEFINE joined == ui.joined /\ RunningHandlers # {}
  <2>1. joined \in BOOLEAN /\ (~joined => RunningHandlers = {})
    BY <1>2, RunningAre DEF Press, UiInv
  <2>2. Begin(kind, joined)
    BY <1>2 DEF Press
  <2>. HIDE DEF joined
  <2>. QED
    BY <2>1, <2>2, BeginKeepsInv
<1>3. ASSUME NEW kind \in Buttons, PressInVain(kind) PROVE UiInv'
  BY <1>3, AtOnceKeepsInv DEF PressInVain, EndAtOnce
<1>4. CASE ChangeToken
  <2>1. ui.busy = FALSE
    BY <1>4 DEF ChangeToken, UiInv, Pages
  <2>2. ui' = [ui EXCEPT !.busy = FALSE, !.output = Output("result", NoSession, FALSE)]
    BY <1>4, <2>1 DEF ChangeToken, UiInv, Pages
  <2>. QED
    BY <2>1, <2>2, AtOnceKeepsInv
<1>5. CASE OpenWorkspace
  <2>. DEFINE joined == RunningHandlers # {}
  <2>1. joined \in BOOLEAN /\ (~joined => RunningHandlers = {}) /\ Begin("workspace", joined)
    BY <1>5 DEF OpenWorkspace
  <2>. HIDE DEF joined
  <2>. QED
    BY <2>1, BeginKeepsInv
<1>6. ASSUME NEW s \in UiSessions \cup {NoSession}, TypeSession(s) PROVE UiInv'
  BY <1>6, TypeSessionKeepsInv DEF ShownSessions
<1>7. ASSUME NEW n \in HandlerIds,
             \/ AnswerRequest(n) \/ AnswerSelection(n) \/ AnswerLoad(n) \/ AnswerList(n) \/ AnswerIsError(n)
             \/ GiveUpJob(n) \/ \E s \in UiSessions : AnswerCreate(n, s)
      PROVE  UiInv'
  BY <1>7, AnswerKeepsInv
<1>8. ASSUME NEW n \in HandlerIds, NEW status \in Statuses, FollowJob(n, status) PROVE UiInv'
  BY <1>8, FollowJobKeepsInv
<1>9. ASSUME NEW n \in HandlerIds, RefreshSession(n) \/ RefreshWorkspaces(n) PROVE UiInv'
  BY <1>9, RefreshSessionKeepsInv, RefreshWorkspacesKeepsInv
<1>. QED
  BY <1>1, <1>2, <1>3, <1>4, <1>5, <1>6, <1>7, <1>8, <1>9 DEF UiNext

(* run, refreshSession, refreshWorkspaces, openWorkspace of api/rest/ui.py:  *)
(* however many sessions there are and however many handlers run, the        *)
(* buttons come back with an outcome, no click works beside another that no  *)
(* workspace was opened beside, and a job leaves the page on its session.    *)
THEOREM PagesAreOrderly == UiSpec => []UiIsOrderly
BY UiInitHolds, UiNextPreserves, UiInvIsOrderly, PTL DEF UiSpec

-----------------------------------------------------------------------------
(* Conversation *)

ConversationSpec == ConversationInit /\ [][ConversationNext]_conversation
(* The nodes of the graph at which no draft has been written yet, or the     *)
(* draft of before the repair is gone.                                       *)
DraftlessNodes ==
  {"intent_router", "retrieval_planner", "replan", "answer_agent", "clarification",
   "analysis_requested", "discovery_requested"}

Nodes == DraftlessNodes \cup {"idle", "citation_critic", "end"}

Drafts ==
  [cites : SUBSET Chunks, confidence : 0..10, noted : BOOLEAN, insufficient : BOOLEAN,
   iteration : 0..MaxRepairIterations, exists : BOOLEAN]

ReviewsSeen == [of : 0..MaxRepairIterations, issues : BOOLEAN, exists : BOOLEAN]

Graphs ==
  [node : Nodes, intent : Intents \cup {"unset"}, refs : SUBSET Papers, asks : BOOLEAN,
   question : BOOLEAN, wants : {"nothing", "analysis", "discovery"}, fallback : BOOLEAN,
   evidence : SUBSET Chunks, draft : Drafts, review : ReviewsSeen,
   repair : 0..MaxRepairIterations, known : SUBSET Papers, found : SUBSET Chunks]

Replies ==
  [kind : {"none", "answer", "analysis", "discovery", "clarification", "error", "unsure", "failed"},
   result : Graphs]

(* Each variable has its type. *)
ConversationTypes ==
  /\ graph \in Graphs
  /\ reply \in Replies

(* The evidence was found in the session, and is of papers it had.           *)
GraphIsGrounded ==
  /\ graph.refs \subseteq graph.known
  /\ graph.evidence \subseteq graph.found
  /\ \A c \in graph.evidence : c.paper \in graph.refs
  /\ graph.draft.cites \subseteq graph.evidence
  /\ graph.node \in DraftlessNodes => graph.draft = NoDraft
  /\ graph.node = "intent_router" => graph.evidence = {}

DraftIsVouchedFor(draft) ==
  \/ [agent |-> "citation_critic", iteration |-> draft.iteration] \in errors
  \/ /\ graph.review.exists /\ graph.review.of = draft.iteration
     /\ graph.review.issues => draft.noted /\ draft.confidence <= 3

(* A turn that is over has something to show: a draft that was reviewed, or  *)
(* a reason not to have one.                                                 *)
GraphIsExplained ==
  /\ graph.node \in {"citation_critic", "end"} /\ ~graph.draft.exists =>
       \/ graph.node = "end" /\ (graph.wants # "nothing" \/ graph.question)
       \/ errors # {}
  /\ graph.node = "end" /\ graph.draft.exists /\ ~graph.draft.insufficient =>
       DraftIsVouchedFor(graph.draft)
  /\ graph.node # "idle" => reply = NoReply

RunsAreBounded == \A r \in runs : r.iteration <= MaxRepairIterations

ConversationInv ==
  /\ ConversationTypes /\ GraphIsGrounded /\ GraphIsExplained
  /\ AnswerIsGrounded /\ AnswerIsVouchedFor
  /\ ErrorsMatchRuns /\ RunsAreBounded /\ ReplyIsExplained

LEMMA ConversationInitHolds == ConversationInit => ConversationInv
<1> SUFFICES ASSUME ConversationInit PROVE ConversationInv
  OBVIOUS
<1>0. /\ MaxRepairIterations \in Nat
      /\ NoDraft \in Drafts
      /\ NoReview \in ReviewsSeen
  BY ConversationAssumption DEF ConversationAssumption, NoDraft, NoReview, Drafts, ReviewsSeen
<1>1. ConversationTypes
  <2>1. Fresh \in Graphs
    BY <1>0 DEF Fresh, Graphs, Nodes, DraftlessNodes
  <2>2. graph \in Graphs
    BY <2>1 DEF ConversationInit, Graphs, Nodes
  <2>3. reply \in Replies
    BY <2>1 DEF ConversationInit, NoReply, Replies
  <2>. QED
    BY <2>2, <2>3 DEF ConversationTypes, ConversationInit
<1>2. GraphIsGrounded /\ GraphIsExplained
  BY DEF GraphIsGrounded, GraphIsExplained, ConversationInit, Fresh, NoDraft, DraftlessNodes
<1>3. AnswerIsGrounded /\ AnswerIsVouchedFor /\ ErrorsMatchRuns /\ RunsAreBounded /\ ReplyIsExplained
  BY DEF ConversationInit, AnswerIsGrounded, AnswerIsVouchedFor, ErrorsMatchRuns, RunsAreBounded,
         ReplyIsExplained, NoReply
<1>. QED
  BY <1>1, <1>2, <1>3 DEF ConversationInv

-----------------------------------------------------------------------------

(* A turn leaves the session alone and answers at its end only: what its     *)
(* steps have to keep is the graph, the runs and the errors.                 *)
LEMMA TurnKeepsReply ==
  ASSUME ConversationInv, graph.node # "idle", UNCHANGED <<persona, reply>>,
         graph' \in Graphs, GraphIsGrounded', GraphIsExplained', ErrorsMatchRuns', RunsAreBounded'
  PROVE  ConversationInv'
<1>1. reply' = NoReply /\ reply' \in Replies
  BY DEF ConversationInv, GraphIsExplained, ConversationTypes
<1>2. ConversationTypes'
  BY <1>1 DEF ConversationInv, ConversationTypes
<1>3. AnswerIsGrounded' /\ AnswerIsVouchedFor' /\ ReplyIsExplained'
  BY <1>1 DEF AnswerIsGrounded, AnswerIsVouchedFor, ReplyIsExplained, NoReply
<1>. QED
  BY <1>2, <1>3 DEF ConversationInv

(* The runs and the errors of a turn grow together.                          *)
LEMMA RunIsAdded ==
  ASSUME ErrorsMatchRuns, RunsAreBounded, NEW r, runs' = runs \cup {r},
         r.iteration <= MaxRepairIterations,
         errors' = IF r.status = "failed"
                   THEN errors \cup {[agent |-> r.agent, iteration |-> r.iteration]} ELSE errors
  PROVE  ErrorsMatchRuns' /\ RunsAreBounded'
<1>1. RunsAreBounded'
  BY DEF RunsAreBounded
<1>2. ErrorsMatchRuns'
  BY DEF ErrorsMatchRuns
<1>. QED
  BY <1>1, <1>2

LEMMA AgentRunIsAdded ==
  ASSUME ErrorsMatchRuns, RunsAreBounded, graph.repair <= MaxRepairIterations, NEW agent, NEW reason,
         Completes(agent) \/ FallsBack(agent, reason) \/ Fails(agent, reason)
  PROVE  ErrorsMatchRuns' /\ RunsAreBounded' /\ errors \subseteq errors'
<1>1. ASSUME NEW status, NEW why, runs' = runs \cup {Run(agent, status, why)},
             errors' = IF status = "failed" THEN errors \cup {[agent |-> agent, iteration |-> graph.repair]}
                       ELSE errors
      PROVE  ErrorsMatchRuns' /\ RunsAreBounded' /\ errors \subseteq errors'
  <2>. DEFINE r == Run(agent, status, why)
  <2>1. r.iteration = graph.repair /\ r.status = status /\ r.agent = agent
    BY DEF Run
  <2>2. runs' = runs \cup {r}
    BY <1>1
  <2>. HIDE DEF r
  <2>. QED
    BY <1>1, <2>1, <2>2, RunIsAdded
<1>2. CASE Completes(agent)
  BY <1>1, <1>2 DEF Completes
<1>3. CASE FallsBack(agent, reason)
  BY <1>1, <1>3 DEF FallsBack
<1>4. CASE Fails(agent, reason)
  BY <1>1, <1>4 DEF Fails
<1>. QED
  BY <1>2, <1>3, <1>4

LEMMA CriticRunIsAdded ==
  ASSUME ErrorsMatchRuns, RunsAreBounded, graph.draft.iteration <= MaxRepairIterations,
         NEW status, NEW reason, CriticRun(status, reason),
         errors' = IF status = "failed"
                   THEN errors \cup {[agent |-> "citation_critic", iteration |-> graph.draft.iteration]}
                   ELSE errors
  PROVE  ErrorsMatchRuns' /\ RunsAreBounded'
<1>. DEFINE r == [agent |-> "citation_critic", iteration |-> graph.draft.iteration,
                  status |-> status, reason |-> reason]
<1>1. runs' = runs \cup {r}
  BY DEF CriticRun
<1>2. r.iteration <= MaxRepairIterations /\ r.status = status /\ r.agent = "citation_critic"
      /\ r.iteration = graph.draft.iteration
  OBVIOUS
<1>. HIDE DEF r
<1>. QED
  BY <1>1, <1>2, RunIsAdded

(* What the fields of a graph are. *)
LEMMA GraphFields ==
  ASSUME graph \in Graphs
  PROVE  /\ graph.refs \subseteq Papers
         /\ graph.evidence \subseteq Chunks
         /\ graph.draft \in Drafts
         /\ graph.review \in ReviewsSeen
         /\ graph.repair \in 0..MaxRepairIterations
         /\ graph.repair <= MaxRepairIterations
         /\ graph.draft.iteration \in 0..MaxRepairIterations
         /\ graph.draft.iteration <= MaxRepairIterations
         /\ graph.wants \in {"nothing", "analysis", "discovery"}
         /\ graph.question \in BOOLEAN
BY ConversationAssumption DEF Graphs, Drafts, ConversationAssumption

LEMMA ZeroIsAnIteration == 0 \in 0..MaxRepairIterations /\ NoDraft \in Drafts
BY ConversationAssumption DEF ConversationAssumption, NoDraft, Drafts

-----------------------------------------------------------------------------
(* intent_router *)

LEMMA ResolvedKeepsGraph ==
  ASSUME ConversationInv, At("intent_router"), UNCHANGED <<persona, reply>>,
         NEW active \in SUBSET Papers,
         NEW r, r.intent \in Intents, r.refs \subseteq active, r.ambiguous \in BOOLEAN,
         r.question \in BOOLEAN, Resolved(r, active)
  PROVE  graph' \in Graphs /\ GraphIsGrounded' /\ GraphIsExplained'
<1>1. graph \in Graphs /\ GraphIsGrounded /\ GraphIsExplained
  BY DEF ConversationInv, ConversationTypes
<1>2. AfterIntent(r.intent, r.ambiguous) \in
        {"retrieval_planner", "analysis_requested", "discovery_requested", "clarification"}
  BY DEF AfterIntent
<1>3. graph' \in Graphs
  BY <1>1, <1>2 DEF Resolved, Graphs, Nodes, DraftlessNodes
<1>6. /\ graph'.refs = r.refs /\ graph'.known = active /\ graph'.node # "intent_router"
      /\ graph'.evidence = {} /\ graph'.draft = NoDraft
  BY <1>1, <1>2 DEF GraphIsGrounded, Resolved, Graphs, DraftlessNodes, At
<1>4. GraphIsGrounded'
  BY <1>6 DEF GraphIsGrounded, NoDraft
<1>5. GraphIsExplained'
  BY <1>1, <1>2 DEF GraphIsExplained, Resolved, Graphs, At
<1>. QED
  BY <1>3, <1>4, <1>5

LEMMA RouterFailsKeepsInv == ConversationInv /\ RouterFails => ConversationInv'
<1>. SUFFICES ASSUME ConversationInv, RouterFails PROVE ConversationInv'
  OBVIOUS
<1>1. /\ graph \in Graphs /\ GraphIsGrounded /\ GraphIsExplained /\ ErrorsMatchRuns /\ RunsAreBounded
      /\ UNCHANGED <<persona, reply>> /\ graph.node = "intent_router"
  BY DEF ConversationInv, ConversationTypes, RouterFails, At
<1>2. graph' = [graph EXCEPT !.node = "clarification"]
  BY DEF RouterFails, AfterIntent, QaIntents
<1>3. ErrorsMatchRuns' /\ RunsAreBounded'
  BY <1>1, GraphFields, AgentRunIsAdded DEF RouterFails
<1>4. graph' \in Graphs /\ GraphIsGrounded' /\ GraphIsExplained'
  BY <1>1, <1>2 DEF GraphIsGrounded, GraphIsExplained, Graphs, Nodes, DraftlessNodes
<1>. QED
  BY <1>1, <1>3, <1>4, TurnKeepsReply

LEMMA RouterFallsBackKeepsInv == ConversationInv /\ RouterFallsBack => ConversationInv'
<1>. SUFFICES ASSUME ConversationInv, RouterFallsBack PROVE ConversationInv'
  OBVIOUS
<1>1. /\ graph \in Graphs /\ ErrorsMatchRuns /\ RunsAreBounded
      /\ UNCHANGED <<persona, reply>> /\ At("intent_router") /\ graph.node # "idle"
  BY DEF ConversationInv, ConversationTypes, RouterFallsBack, At
<1>2. graph' \in Graphs /\ GraphIsGrounded' /\ GraphIsExplained'
  BY <1>1, ResolvedKeepsGraph DEF RouterFallsBack, Clarification, Intents
<1>3. ErrorsMatchRuns' /\ RunsAreBounded'
  BY <1>1, GraphFields, AgentRunIsAdded DEF RouterFallsBack
<1>. QED
  BY <1>1, <1>2, <1>3, TurnKeepsReply

LEMMA RouterResolvesKeepsInv == ConversationInv /\ RouterResolves => ConversationInv'
<1>. SUFFICES ASSUME ConversationInv, RouterResolves PROVE ConversationInv'
  OBVIOUS
<1>1. /\ graph \in Graphs /\ ErrorsMatchRuns /\ RunsAreBounded
      /\ UNCHANGED <<persona, reply>> /\ At("intent_router") /\ graph.node # "idle"
  BY DEF ConversationInv, ConversationTypes, RouterResolves, At
<1>2. PICK payload \in Resolutions, active \in SUBSET Papers :
        Resolved(NormalizeResolution(payload, active), active)
  BY DEF RouterResolves
<1>3. /\ NormalizeResolution(payload, active).intent \in Intents
      /\ NormalizeResolution(payload, active).refs \subseteq active
      /\ NormalizeResolution(payload, active).ambiguous \in BOOLEAN
      /\ NormalizeResolution(payload, active).question \in BOOLEAN
  BY DEF NormalizeResolution, Clarification, Resolutions, Intents
<1>4. graph' \in Graphs /\ GraphIsGrounded' /\ GraphIsExplained'
  BY <1>1, <1>2, <1>3, ResolvedKeepsGraph
<1>5. ErrorsMatchRuns' /\ RunsAreBounded'
  BY <1>1, GraphFields, AgentRunIsAdded DEF RouterResolves
<1>. QED
  BY <1>1, <1>4, <1>5, TurnKeepsReply

LEMMA RespondKeepsInv == ConversationInv /\ Respond => ConversationInv'
<1>. SUFFICES ASSUME ConversationInv, Respond PROVE ConversationInv'
  OBVIOUS
<1>1. /\ graph \in Graphs /\ GraphIsGrounded /\ GraphIsExplained /\ ErrorsMatchRuns /\ RunsAreBounded
      /\ UNCHANGED <<persona, runs, errors, reply>>
      /\ graph.node \in {"clarification", "analysis_requested", "discovery_requested"}
  BY DEF ConversationInv, ConversationTypes, Respond, At
<1>2. ErrorsMatchRuns' /\ RunsAreBounded'
  BY <1>1 DEF ErrorsMatchRuns, RunsAreBounded
<1>3. graph' \in Graphs
  <2>1. \E asks \in BOOLEAN : graph' = [graph EXCEPT !.node = "end", !.asks = asks, !.question = TRUE]
        \/ \E wants \in {"analysis", "discovery"} :
             graph' = [graph EXCEPT !.node = "end", !.wants = wants, !.question = TRUE]
    BY <1>1 DEF Respond
  <2>2. "end" \in Nodes
    BY DEF Nodes
  <2>3. ASSUME NEW asks \in BOOLEAN PROVE [graph EXCEPT !.node = "end", !.asks = asks, !.question = TRUE] \in Graphs
    BY <1>1, <2>2 DEF Graphs
  <2>4. ASSUME NEW wants \in {"analysis", "discovery"}
        PROVE  [graph EXCEPT !.node = "end", !.wants = wants, !.question = TRUE] \in Graphs
    BY <1>1, <2>2 DEF Graphs
  <2>. QED
    BY <2>1, <2>3, <2>4
<1>4. /\ graph'.node = "end" /\ graph'.question
      /\ graph'.refs = graph.refs /\ graph'.evidence = graph.evidence /\ graph'.draft = graph.draft
      /\ graph'.known = graph.known /\ graph'.found = graph.found
      /\ graph.draft = NoDraft
  BY <1>1 DEF Respond, Graphs, GraphIsGrounded, DraftlessNodes
<1>5. GraphIsGrounded'
  BY <1>1, <1>4 DEF GraphIsGrounded, DraftlessNodes
<1>6. GraphIsExplained'
  BY <1>1, <1>4 DEF GraphIsExplained, NoDraft
<1>. QED
  BY <1>1, <1>2, <1>3, <1>5, <1>6, TurnKeepsReply

-----------------------------------------------------------------------------
(* retrieval_planner *)

(* Evidence comes from a search of what the session has of the papers asked  *)
(* about.                                                                    *)
LEMMA FoundKeepsGraph ==
  ASSUME ConversationInv, graph.node \in {"retrieval_planner", "replan"},
         UNCHANGED <<persona, reply>>,
         NEW index \in SUBSET Chunks,
         NEW evidence \in SUBSET index, \A c \in evidence : c.paper \in graph.refs,
         NEW fallback \in BOOLEAN, Found(index, evidence, fallback)
  PROVE  graph' \in Graphs /\ GraphIsGrounded' /\ GraphIsExplained'
<1>1. graph \in Graphs /\ GraphIsGrounded /\ GraphIsExplained
  BY DEF ConversationInv, ConversationTypes
<1>2. graph' \in Graphs
  BY <1>1 DEF Found, Graphs, Nodes, DraftlessNodes
<1>3. /\ graph'.node = "answer_agent" /\ graph'.evidence = evidence /\ graph'.found = index
      /\ graph'.refs = graph.refs /\ graph'.known = graph.known /\ graph'.draft = graph.draft
      /\ graph.draft = NoDraft
  BY <1>1 DEF Found, Graphs, GraphIsGrounded, DraftlessNodes
<1>4. GraphIsGrounded'
  BY <1>1, <1>3 DEF GraphIsGrounded, NoDraft
<1>5. GraphIsExplained'
  BY <1>1, <1>3 DEF GraphIsExplained
<1>. QED
  BY <1>2, <1>4, <1>5

(* A plan that is given up searches nothing.                                 *)
LEMMA GivingUpKeepsGraph ==
  ASSUME ConversationInv, graph.node = "replan", UNCHANGED <<persona, reply>>, Planned({}, TRUE)
  PROVE  graph' \in Graphs /\ GraphIsGrounded' /\ GraphIsExplained'
<1>1. graph \in Graphs /\ GraphIsGrounded /\ GraphIsExplained
  BY DEF ConversationInv, ConversationTypes
<1>2. graph' \in Graphs
  BY <1>1 DEF Planned, Graphs, Nodes, DraftlessNodes
<1>3. /\ graph'.node = "answer_agent" /\ graph'.evidence = {}
      /\ graph'.refs = graph.refs /\ graph'.known = graph.known /\ graph'.draft = graph.draft
      /\ graph.draft = NoDraft
  BY <1>1 DEF Planned, Graphs, GraphIsGrounded, DraftlessNodes
<1>4. GraphIsGrounded'
  BY <1>1, <1>3 DEF GraphIsGrounded, NoDraft
<1>5. GraphIsExplained'
  BY <1>1, <1>3 DEF GraphIsExplained
<1>. QED
  BY <1>2, <1>4, <1>5

(* The planner goes on to another node without evidence. *)
LEMMA PlannerMovesOn ==
  ASSUME ConversationInv, graph.node = "retrieval_planner", UNCHANGED <<persona, reply>>,
         NEW node \in {"replan", "answer_agent"}, graph' = [graph EXCEPT !.node = node]
  PROVE  graph' \in Graphs /\ GraphIsGrounded' /\ GraphIsExplained'
<1>1. graph \in Graphs /\ GraphIsGrounded /\ GraphIsExplained
  BY DEF ConversationInv, ConversationTypes
<1>2. graph' \in Graphs
  BY <1>1 DEF Graphs, Nodes, DraftlessNodes
<1>3. GraphIsGrounded' /\ GraphIsExplained'
  BY <1>1 DEF GraphIsGrounded, GraphIsExplained, Graphs, DraftlessNodes
<1>. QED
  BY <1>2, <1>3

LEMMA HitsAreOfTheSession ==
  ASSUME NEW index, NEW types, NEW k, NEW hits \in Hits(index, types, k)
  PROVE  hits \in SUBSET index /\ \A c \in hits : c.paper \in graph.refs
BY DEF Hits, Matching

LEMMA PlannerRefusesKeepsInv == ConversationInv /\ PlannerRefuses => ConversationInv'
<1>. SUFFICES ASSUME ConversationInv, PlannerRefuses PROVE ConversationInv'
  OBVIOUS
<1>1. /\ graph \in Graphs /\ ErrorsMatchRuns /\ RunsAreBounded
      /\ UNCHANGED <<persona, reply>> /\ graph.node = "retrieval_planner"
  BY DEF ConversationInv, ConversationTypes, PlannerRefuses, At
<1>2. graph' \in Graphs /\ GraphIsGrounded' /\ GraphIsExplained'
  BY <1>1, PlannerMovesOn DEF PlannerRefuses
<1>3. ErrorsMatchRuns' /\ RunsAreBounded'
  BY <1>1, GraphFields, AgentRunIsAdded DEF PlannerRefuses
<1>. QED
  BY <1>1, <1>2, <1>3, TurnKeepsReply

LEMMA PlannerRetrievesKeepsInv == ConversationInv /\ PlannerRetrieves => ConversationInv'
<1>. SUFFICES ASSUME ConversationInv, PlannerRetrieves PROVE ConversationInv'
  OBVIOUS
<1>1. /\ graph \in Graphs /\ ErrorsMatchRuns /\ RunsAreBounded
      /\ UNCHANGED <<persona, reply>> /\ graph.node = "retrieval_planner"
  BY DEF ConversationInv, ConversationTypes, PlannerRetrieves, At
<1>5. PICK index \in SUBSET Chunks : \E hits \in Hits(index, Priorities, DefaultK) :
        \/ graph' = [graph EXCEPT !.node = "replan"] /\ UNCHANGED <<runs, errors>>
        \/ Found(index, hits, hits = {}) /\ Completes("retrieval_planner")
  BY DEF PlannerRetrieves
<1>2. PICK hits \in Hits(index, Priorities, DefaultK) :
        \/ graph' = [graph EXCEPT !.node = "replan"] /\ UNCHANGED <<runs, errors>>
        \/ Found(index, hits, hits = {}) /\ Completes("retrieval_planner")
  BY <1>5
<1>3. CASE graph' = [graph EXCEPT !.node = "replan"] /\ UNCHANGED <<runs, errors>>
  <2>1. ErrorsMatchRuns' /\ RunsAreBounded'
    BY <1>1, <1>3 DEF ErrorsMatchRuns, RunsAreBounded
  <2>. QED
    BY <1>1, <1>3, <2>1, PlannerMovesOn, TurnKeepsReply
<1>4. CASE Found(index, hits, hits = {}) /\ Completes("retrieval_planner")
  <2>1. hits \in SUBSET index /\ \A c \in hits : c.paper \in graph.refs
    BY HitsAreOfTheSession
  <2>2. graph' \in Graphs /\ GraphIsGrounded' /\ GraphIsExplained'
    BY <1>1, <1>4, <2>1, FoundKeepsGraph
  <2>3. ErrorsMatchRuns' /\ RunsAreBounded'
    BY <1>1, <1>4, GraphFields, AgentRunIsAdded
  <2>. QED
    BY <1>1, <2>2, <2>3, TurnKeepsReply
<1>. QED
  BY <1>2, <1>3, <1>4

LEMMA PlannerGivesUpKeepsInv == ConversationInv /\ PlannerGivesUp => ConversationInv'
<1>. SUFFICES ASSUME ConversationInv, PlannerGivesUp PROVE ConversationInv'
  OBVIOUS
<1>1. /\ graph \in Graphs /\ ErrorsMatchRuns /\ RunsAreBounded
      /\ UNCHANGED <<persona, reply>> /\ graph.node = "replan"
  BY DEF ConversationInv, ConversationTypes, PlannerGivesUp, At
<1>2. graph' \in Graphs /\ GraphIsGrounded' /\ GraphIsExplained'
  BY <1>1, GivingUpKeepsGraph DEF PlannerGivesUp
<1>3. ErrorsMatchRuns' /\ RunsAreBounded'
  BY <1>1, GraphFields, AgentRunIsAdded DEF PlannerGivesUp
<1>. QED
  BY <1>1, <1>2, <1>3, TurnKeepsReply

LEMMA PlannerRetrievesAgainKeepsInv == ConversationInv /\ PlannerRetrievesAgain => ConversationInv'
<1>. SUFFICES ASSUME ConversationInv, PlannerRetrievesAgain PROVE ConversationInv'
  OBVIOUS
<1>1. /\ graph \in Graphs /\ ErrorsMatchRuns /\ RunsAreBounded
      /\ UNCHANGED <<persona, reply>> /\ graph.node = "replan"
  BY DEF ConversationInv, ConversationTypes, PlannerRetrievesAgain, At
<1>2. PICK index \in SUBSET Chunks, types \in SUBSET ChunkTypes, k \in {DefaultK, ReplanK} :
        \E hits \in Hits(index, types, k) : Found(index, hits, TRUE)
  BY DEF PlannerRetrievesAgain
<1>4. PICK hits \in Hits(index, types, k) : Found(index, hits, TRUE)
  BY <1>2
<1>5. hits \in SUBSET index /\ \A c \in hits : c.paper \in graph.refs
  BY HitsAreOfTheSession
<1>6. graph' \in Graphs /\ GraphIsGrounded' /\ GraphIsExplained'
  BY <1>1, <1>4, <1>5, FoundKeepsGraph
<1>7. ErrorsMatchRuns' /\ RunsAreBounded'
  BY <1>1, GraphFields, AgentRunIsAdded DEF PlannerRetrievesAgain
<1>. QED
  BY <1>1, <1>6, <1>7, TurnKeepsReply

-----------------------------------------------------------------------------
(* answer_agent *)

LEMMA ToCriticKeepsGraph ==
  ASSUME ConversationInv, At("answer_agent"), UNCHANGED <<persona, reply>>,
         NEW draft \in Drafts, draft.cites \subseteq graph.evidence, ToCritic(draft),
         draft.exists \/ errors' # {}
  PROVE  graph' \in Graphs /\ GraphIsGrounded' /\ GraphIsExplained'
<1>1. graph \in Graphs /\ GraphIsGrounded /\ GraphIsExplained
  BY DEF ConversationInv, ConversationTypes
<1>2. graph' \in Graphs
  BY <1>1, ZeroIsAnIteration DEF ToCritic, Graphs, Nodes
<1>3. /\ graph'.node = "citation_critic" /\ graph'.evidence = graph.evidence
      /\ graph'.found = graph.found /\ graph'.known = graph.known
      /\ graph'.refs = graph.refs /\ graph'.draft = draft
  BY <1>1 DEF ToCritic, Graphs
<1>4. GraphIsGrounded'
  BY <1>1, <1>3 DEF GraphIsGrounded, DraftlessNodes
<1>5. GraphIsExplained'
  BY <1>1, <1>3 DEF GraphIsExplained, At
<1>. QED
  BY <1>2, <1>4, <1>5

LEMMA AnswerWithoutEvidenceKeepsInv == ConversationInv /\ AnswerWithoutEvidence => ConversationInv'
<1>. SUFFICES ASSUME ConversationInv, AnswerWithoutEvidence PROVE ConversationInv'
  OBVIOUS
<1>1. /\ graph \in Graphs /\ ErrorsMatchRuns /\ RunsAreBounded
      /\ UNCHANGED <<persona, reply>> /\ At("answer_agent") /\ graph.node # "idle"
  BY DEF ConversationInv, ConversationTypes, AnswerWithoutEvidence, At
<1>. DEFINE draft == Drafted([cites |-> {}, confidence |-> 0, noted |-> TRUE, insufficient |-> TRUE])
<1>2. draft \in Drafts /\ draft.cites \subseteq graph.evidence /\ draft.exists
  BY <1>1, GraphFields DEF Drafted, Drafts
<1>3. ToCritic(draft)
  BY DEF AnswerWithoutEvidence
<1>. HIDE DEF draft
<1>4. graph' \in Graphs /\ GraphIsGrounded' /\ GraphIsExplained'
  BY <1>1, <1>2, <1>3, ToCriticKeepsGraph
<1>5. ErrorsMatchRuns' /\ RunsAreBounded'
  BY <1>1, GraphFields, AgentRunIsAdded DEF AnswerWithoutEvidence
<1>. QED
  BY <1>1, <1>4, <1>5, TurnKeepsReply

LEMMA AnswerFailsKeepsInv == ConversationInv /\ AnswerFails => ConversationInv'
<1>. SUFFICES ASSUME ConversationInv, AnswerFails PROVE ConversationInv'
  OBVIOUS
<1>1. /\ graph \in Graphs /\ GraphIsGrounded /\ ErrorsMatchRuns /\ RunsAreBounded
      /\ UNCHANGED <<persona, reply>> /\ At("answer_agent") /\ graph.node # "idle"
  BY DEF ConversationInv, ConversationTypes, AnswerFails, At
<1>2. graph.draft \in Drafts /\ graph.draft.cites \subseteq graph.evidence
  BY <1>1, GraphFields DEF GraphIsGrounded
<1>3. ErrorsMatchRuns' /\ RunsAreBounded' /\ errors' # {}
  BY <1>1, GraphFields, AgentRunIsAdded DEF AnswerFails, Fails
<1>4. graph' \in Graphs /\ GraphIsGrounded' /\ GraphIsExplained'
  BY <1>1, <1>2, <1>3, ToCriticKeepsGraph DEF AnswerFails
<1>. QED
  BY <1>1, <1>3, <1>4, TurnKeepsReply

LEMMA AnswerDraftsKeepsInv == ConversationInv /\ AnswerDrafts => ConversationInv'
<1>. SUFFICES ASSUME ConversationInv, AnswerDrafts PROVE ConversationInv'
  OBVIOUS
<1>1. /\ graph \in Graphs /\ GraphIsGrounded /\ ErrorsMatchRuns /\ RunsAreBounded
      /\ UNCHANGED <<persona, reply>> /\ At("answer_agent") /\ graph.node # "idle"
  BY DEF ConversationInv, ConversationTypes, AnswerDrafts, At
<1>2. PICK a \in AnswerPayloads : ToCritic(Drafted(a))
  BY DEF AnswerDrafts
<1>3. Drafted(a) \in Drafts /\ Drafted(a).cites \subseteq graph.evidence /\ Drafted(a).exists
  BY <1>1, GraphFields, ConversationAssumption DEF Drafted, Drafts, AnswerPayloads, ConversationAssumption
<1>4. graph' \in Graphs /\ GraphIsGrounded' /\ GraphIsExplained'
  BY <1>1, <1>2, <1>3, ToCriticKeepsGraph
<1>5. ErrorsMatchRuns' /\ RunsAreBounded'
  BY <1>1, GraphFields, AgentRunIsAdded DEF AnswerDrafts
<1>. QED
  BY <1>1, <1>4, <1>5, TurnKeepsReply

-----------------------------------------------------------------------------
(* citation_critic *)

(* The critic is done with the draft: it goes to the user as it is, or with  *)
(* the confidence lowered and a note.                                        *)
LEMMA CriticEndsKeepsGraph ==
  ASSUME ConversationInv, At("citation_critic"), UNCHANGED <<persona, reply>>,
         NEW draft \in Drafts, NEW review \in ReviewsSeen,
         graph' = [graph EXCEPT !.review = review, !.repair = 0, !.node = "end", !.draft = draft],
         draft.cites = graph.draft.cites, draft.exists \/ errors' # {},
         draft.exists /\ ~draft.insufficient =>
           \/ [agent |-> "citation_critic", iteration |-> draft.iteration] \in errors'
           \/ /\ review.exists /\ review.of = draft.iteration
              /\ review.issues => draft.noted /\ draft.confidence <= 3
  PROVE  graph' \in Graphs /\ GraphIsGrounded' /\ GraphIsExplained'
<1>1. graph \in Graphs /\ GraphIsGrounded /\ GraphIsExplained
  BY DEF ConversationInv, ConversationTypes
<1>2. graph' \in Graphs
  BY <1>1, ZeroIsAnIteration DEF Graphs, Nodes
<1>3. /\ graph'.node = "end" /\ graph'.evidence = graph.evidence /\ graph'.refs = graph.refs
      /\ graph'.found = graph.found /\ graph'.known = graph.known
      /\ graph'.draft = draft /\ graph'.review = review
  BY <1>1 DEF Graphs
<1>4. GraphIsGrounded'
  BY <1>1, <1>3 DEF GraphIsGrounded, DraftlessNodes
<1>5. GraphIsExplained'
  BY <1>1, <1>3 DEF GraphIsExplained, DraftIsVouchedFor, At
<1>. QED
  BY <1>2, <1>4, <1>5

LEMMA CriticFailsKeepsInv == ConversationInv /\ CriticFails => ConversationInv'
<1>. SUFFICES ASSUME ConversationInv, CriticFails PROVE ConversationInv'
  OBVIOUS
<1>1. /\ graph \in Graphs /\ ErrorsMatchRuns /\ RunsAreBounded
      /\ UNCHANGED <<persona, reply>> /\ At("citation_critic") /\ graph.node # "idle"
  BY DEF ConversationInv, ConversationTypes, CriticFails, At
<1>2. graph' = [graph EXCEPT !.review = graph.review, !.repair = 0, !.node = "end", !.draft = graph.draft]
  BY <1>1 DEF CriticFails, Graphs
<1>3. [agent |-> "citation_critic", iteration |-> graph.draft.iteration] \in errors'
  BY DEF CriticFails
<1>4. graph' \in Graphs /\ GraphIsGrounded' /\ GraphIsExplained'
  BY <1>1, <1>2, <1>3, GraphFields, CriticEndsKeepsGraph
<1>5. ErrorsMatchRuns' /\ RunsAreBounded'
  BY <1>1, GraphFields, CriticRunIsAdded DEF CriticFails
<1>. QED
  BY <1>1, <1>4, <1>5, TurnKeepsReply

LEMMA CriticSkipsKeepsInv == ConversationInv /\ CriticSkips => ConversationInv'
<1>. SUFFICES ASSUME ConversationInv, CriticSkips PROVE ConversationInv'
  OBVIOUS
<1>1. /\ graph \in Graphs /\ ErrorsMatchRuns /\ RunsAreBounded
      /\ UNCHANGED <<persona, errors, reply>> /\ At("citation_critic") /\ graph.node # "idle"
      /\ graph.draft.exists /\ graph.draft.insufficient
  BY DEF ConversationInv, ConversationTypes, CriticSkips, At
<1>2. graph' = [graph EXCEPT !.review = Reviewed(FALSE), !.repair = 0, !.node = "end", !.draft = graph.draft]
  BY <1>1 DEF CriticSkips, Graphs
<1>3. Reviewed(FALSE) \in ReviewsSeen
  BY <1>1, GraphFields DEF Reviewed, ReviewsSeen
<1>4. graph' \in Graphs /\ GraphIsGrounded' /\ GraphIsExplained'
  BY <1>1, <1>2, <1>3, GraphFields, CriticEndsKeepsGraph
<1>5. ErrorsMatchRuns' /\ RunsAreBounded'
  BY <1>1, GraphFields, CriticRunIsAdded DEF CriticSkips
<1>. QED
  BY <1>1, <1>4, <1>5, TurnKeepsReply

LEMMA CriticApprovesKeepsInv == ConversationInv /\ CriticApproves => ConversationInv'
<1>. SUFFICES ASSUME ConversationInv, CriticApproves PROVE ConversationInv'
  OBVIOUS
<1>1. /\ graph \in Graphs /\ ErrorsMatchRuns /\ RunsAreBounded
      /\ UNCHANGED <<persona, errors, reply>> /\ At("citation_critic") /\ graph.node # "idle"
      /\ graph.draft.exists /\ ~graph.draft.insufficient
  BY DEF ConversationInv, ConversationTypes, CriticApproves, At
<1>2. graph' = [graph EXCEPT !.review = Reviewed(FALSE), !.repair = 0, !.node = "end", !.draft = graph.draft]
  <2>1. PICK review \in Reviews :
          /\ ~NeedsRepair(review)
          /\ graph' = [graph EXCEPT !.review = Reviewed(review.issues), !.repair = 0, !.node = "end"]
    BY DEF CriticApproves
  <2>2. review.issues = FALSE
    BY <2>1 DEF NeedsRepair, Reviews
  <2>. QED
    BY <1>1, <2>1, <2>2 DEF Graphs
<1>3. Reviewed(FALSE) \in ReviewsSeen
      /\ Reviewed(FALSE).exists /\ Reviewed(FALSE).of = graph.draft.iteration /\ ~Reviewed(FALSE).issues
  BY <1>1, GraphFields DEF Reviewed, ReviewsSeen
<1>4. graph' \in Graphs /\ GraphIsGrounded' /\ GraphIsExplained'
  BY <1>1, <1>2, <1>3, GraphFields, CriticEndsKeepsGraph
<1>5. ErrorsMatchRuns' /\ RunsAreBounded'
  BY <1>1, GraphFields, CriticRunIsAdded DEF CriticApproves
<1>. QED
  BY <1>1, <1>4, <1>5, TurnKeepsReply

LEMMA DowngradedIsCautious ==
  ASSUME NEW draft \in Drafts
  PROVE  /\ Downgraded(draft) \in Drafts
         /\ Downgraded(draft).noted /\ Downgraded(draft).confidence <= 3
         /\ Downgraded(draft).cites = draft.cites /\ Downgraded(draft).iteration = draft.iteration
         /\ Downgraded(draft).exists = draft.exists
<1>. DEFINE c == IF draft.confidence < 3 THEN draft.confidence ELSE 3
<1>1. c \in 0..10 /\ c <= 3
  BY DEF Drafts
<1>2. Downgraded(draft) = [draft EXCEPT !.confidence = c, !.noted = TRUE]
  BY DEF Downgraded
<1>. HIDE DEF c
<1>. QED
  BY <1>1, <1>2 DEF Drafts

LEMMA CriticDowngradesKeepsInv == ConversationInv /\ CriticDowngrades => ConversationInv'
<1>. SUFFICES ASSUME ConversationInv, CriticDowngrades PROVE ConversationInv'
  OBVIOUS
<1>1. /\ graph \in Graphs /\ ErrorsMatchRuns /\ RunsAreBounded
      /\ UNCHANGED <<persona, errors, reply>> /\ At("citation_critic") /\ graph.node # "idle"
      /\ graph.draft.exists /\ ~graph.draft.insufficient
  BY DEF ConversationInv, ConversationTypes, CriticDowngrades, At
<1>2. PICK review \in Reviews :
        graph' = [graph EXCEPT !.review = Reviewed(review.issues), !.repair = 0, !.node = "end",
                               !.draft = Downgraded(graph.draft)]
  BY DEF CriticDowngrades
<1>3. /\ Reviewed(review.issues) \in ReviewsSeen
      /\ Reviewed(review.issues).exists /\ Reviewed(review.issues).of = graph.draft.iteration
  BY <1>1, GraphFields DEF Reviewed, ReviewsSeen, Reviews
<1>4. graph' \in Graphs /\ GraphIsGrounded' /\ GraphIsExplained'
  BY <1>1, <1>2, <1>3, GraphFields, DowngradedIsCautious, CriticEndsKeepsGraph
<1>5. ErrorsMatchRuns' /\ RunsAreBounded'
  BY <1>1, GraphFields, CriticRunIsAdded DEF CriticDowngrades
<1>. QED
  BY <1>1, <1>4, <1>5, TurnKeepsReply

LEMMA CriticRepairsKeepsInv == ConversationInv /\ CriticRepairs => ConversationInv'
<1>. SUFFICES ASSUME ConversationInv, CriticRepairs PROVE ConversationInv'
  OBVIOUS
<1>1. /\ graph \in Graphs /\ ErrorsMatchRuns /\ RunsAreBounded /\ GraphIsGrounded /\ GraphIsExplained
      /\ UNCHANGED <<persona, errors, reply>> /\ At("citation_critic") /\ graph.node # "idle"
      /\ graph.draft.exists /\ ~graph.draft.insufficient /\ ~Exhausted(graph.draft)
  BY DEF ConversationInv, ConversationTypes, CriticRepairs, At
<1>2. PICK review \in Reviews :
        graph' = [graph EXCEPT !.review = Reviewed(review.issues), !.draft = NoDraft,
                               !.repair = graph.draft.iteration + 1, !.node = "answer_agent"]
  BY DEF CriticRepairs
<1>3. Reviewed(review.issues) \in ReviewsSeen
  BY <1>1, GraphFields DEF Reviewed, ReviewsSeen, Reviews
<1>4. graph.draft.iteration + 1 \in 0..MaxRepairIterations
  BY <1>1, GraphFields, ConversationAssumption DEF Exhausted, ConversationAssumption
<1>5. graph' \in Graphs
  BY <1>1, <1>2, <1>3, <1>4, ZeroIsAnIteration DEF Graphs, Nodes, DraftlessNodes
<1>6. /\ graph'.node = "answer_agent" /\ graph'.evidence = graph.evidence
      /\ graph'.found = graph.found /\ graph'.known = graph.known
      /\ graph'.refs = graph.refs /\ graph'.draft = NoDraft
  BY <1>1, <1>2 DEF Graphs
<1>7. GraphIsGrounded'
  BY <1>1, <1>6 DEF GraphIsGrounded, NoDraft
<1>8. GraphIsExplained'
  BY <1>1, <1>6 DEF GraphIsExplained
<1>9. ErrorsMatchRuns' /\ RunsAreBounded'
  BY <1>1, GraphFields, CriticRunIsAdded DEF CriticRepairs
<1>. QED
  BY <1>1, <1>5, <1>7, <1>8, <1>9, TurnKeepsReply

-----------------------------------------------------------------------------
(* The handler *)

LEMMA ReplyKindIsTold ==
  ASSUME graph \in Graphs, graph.draft.exists \/ graph.wants # "nothing" \/ graph.question \/ errors # {}
  PROVE  /\ ReplyKind \in {"answer", "analysis", "discovery", "clarification", "error"}
         /\ ReplyKind = "answer" => graph.draft.exists
BY GraphFields DEF ReplyKind, Drafts

(* Between two turns there is no graph.                                      *)
LEMMA FreshIsAGraph ==
  /\ Fresh \in Graphs /\ [Fresh EXCEPT !.node = "idle"] \in Graphs
  /\ NoReply \in Replies
<1>1. NoDraft \in Drafts /\ NoReview \in ReviewsSeen /\ 0 \in 0..MaxRepairIterations
  BY ConversationAssumption, ZeroIsAnIteration DEF ConversationAssumption, NoReview, ReviewsSeen
<1>2. Fresh \in Graphs
  BY <1>1 DEF Fresh, Graphs, Nodes, DraftlessNodes
<1>3. [Fresh EXCEPT !.node = "idle"] \in Graphs
  BY <1>2 DEF Graphs, Nodes
<1>. QED
  BY <1>2, <1>3 DEF NoReply, Replies

LEMMA FreshKeepsGraph ==
  ASSUME \/ graph' = Fresh /\ reply' = NoReply
         \/ graph' = [Fresh EXCEPT !.node = "idle"]
  PROVE  graph' \in Graphs /\ GraphIsGrounded' /\ GraphIsExplained'
<1>1. graph' \in Graphs
  BY FreshIsAGraph
<1>2. graph'.node # "idle" => reply' = NoReply
  BY DEF Fresh
<1>3. /\ graph'.node \in {"intent_router", "idle"} /\ graph'.draft = NoDraft
      /\ graph'.refs = {} /\ graph'.evidence = {}
  BY DEF Fresh
<1>4. GraphIsGrounded'
  BY <1>3 DEF GraphIsGrounded, NoDraft
<1>5. GraphIsExplained'
  BY <1>2, <1>3 DEF GraphIsExplained
<1>. QED
  BY <1>1, <1>4, <1>5

LEMMA ReplyKeepsInv == ConversationInv /\ Reply => ConversationInv'
<1>. SUFFICES ASSUME ConversationInv, Reply PROVE ConversationInv'
  OBVIOUS
<1>1. /\ graph \in Graphs /\ GraphIsGrounded /\ GraphIsExplained /\ ErrorsMatchRuns /\ RunsAreBounded
      /\ UNCHANGED <<persona, runs, errors>> /\ graph.node = "end"
  BY DEF ConversationInv, ConversationTypes, Reply, At
<1>2. /\ ReplyKind \in {"answer", "analysis", "discovery", "clarification", "error"}
      /\ ReplyKind = "answer" => graph.draft.exists
  BY <1>1, ReplyKindIsTold DEF GraphIsExplained
<1>3. reply' = [kind |-> ReplyKind, result |-> graph] /\ graph' = [Fresh EXCEPT !.node = "idle"]
  BY DEF Reply
<1>. HIDE DEF ReplyKind
<1>4. reply' \in Replies
  BY <1>1, <1>2, <1>3 DEF Replies
<1>5. ConversationTypes' /\ GraphIsGrounded' /\ GraphIsExplained'
  BY <1>3, <1>4, FreshKeepsGraph DEF ConversationTypes
<1>7. AnswerIsGrounded'
  BY <1>1, <1>3 DEF AnswerIsGrounded, GraphIsGrounded
<1>8. AnswerIsVouchedFor'
  BY <1>1, <1>2, <1>3 DEF AnswerIsVouchedFor, GraphIsExplained, DraftIsVouchedFor
<1>9. ErrorsMatchRuns' /\ RunsAreBounded' /\ ReplyIsExplained'
  BY <1>1, <1>2, <1>3 DEF ErrorsMatchRuns, RunsAreBounded, ReplyIsExplained
<1>. QED
  BY <1>5, <1>7, <1>8, <1>9 DEF ConversationInv

(* The start of a turn and its failure: nothing is answered. *)
LEMMA AskOrRaiseKeepsInv == ConversationInv /\ (Ask \/ Raise) => ConversationInv'
<1>. SUFFICES ASSUME ConversationInv, Ask \/ Raise PROVE ConversationInv'
  OBVIOUS
<1>1. /\ \/ graph' = Fresh /\ reply' = NoReply
         \/ graph' = [Fresh EXCEPT !.node = "idle"]
      /\ runs' = {} /\ errors' = {}
      /\ reply' \in {NoReply, [NoReply EXCEPT !.kind = "failed"]}
  BY DEF Ask, Raise
<1>2. reply' \in Replies /\ reply'.kind \in {"none", "failed"}
  BY <1>1, FreshIsAGraph DEF Replies, NoReply
<1>3. ConversationTypes' /\ GraphIsGrounded' /\ GraphIsExplained'
  BY <1>1, <1>2, FreshKeepsGraph DEF ConversationTypes
<1>4. AnswerIsGrounded' /\ AnswerIsVouchedFor' /\ ErrorsMatchRuns' /\ RunsAreBounded' /\ ReplyIsExplained'
  BY <1>1, <1>2 DEF AnswerIsGrounded, AnswerIsVouchedFor, ErrorsMatchRuns, RunsAreBounded, ReplyIsExplained
<1>. QED
  BY <1>3, <1>4 DEF ConversationInv

LEMMA ConversationNextPreserves == ConversationInv /\ [ConversationNext]_conversation => ConversationInv'
<1>. SUFFICES ASSUME ConversationInv, [ConversationNext]_conversation PROVE ConversationInv'
  OBVIOUS
<1>1. CASE Turn
  BY <1>1, RouterFailsKeepsInv, RouterFallsBackKeepsInv, RouterResolvesKeepsInv, RespondKeepsInv,
     PlannerRefusesKeepsInv, PlannerRetrievesKeepsInv, PlannerGivesUpKeepsInv,
     PlannerRetrievesAgainKeepsInv, AnswerWithoutEvidenceKeepsInv, AnswerFailsKeepsInv,
     AnswerDraftsKeepsInv, CriticFailsKeepsInv, CriticSkipsKeepsInv, CriticApprovesKeepsInv,
     CriticDowngradesKeepsInv, CriticRepairsKeepsInv, ReplyKeepsInv DEF Turn
<1>2. CASE Ask \/ Raise
  BY <1>2, AskOrRaiseKeepsInv
<1>4. CASE UNCHANGED conversation
  <2>. USE <1>4 DEF conversation
  <2>1. ConversationTypes' /\ GraphIsGrounded' /\ AnswerIsGrounded'
    BY DEF ConversationInv, ConversationTypes, GraphIsGrounded, AnswerIsGrounded
  <2>2. GraphIsExplained' /\ AnswerIsVouchedFor' /\ ErrorsMatchRuns' /\ RunsAreBounded' /\ ReplyIsExplained'
    BY DEF ConversationInv, GraphIsExplained, DraftIsVouchedFor, AnswerIsVouchedFor, ErrorsMatchRuns,
           RunsAreBounded, ReplyIsExplained
  <2>. QED
    BY <2>1, <2>2 DEF ConversationInv
<1>. QED
  BY <1>1, <1>2, <1>4 DEF ConversationNext

(* Whatever the session's list and index are when they are read: every       *)
(* answer cites only chunks its own search found in the session, of papers   *)
(* that it names and that were active when it was understood; it was         *)
(* reviewed as it is or with its failed review told, and is the product of   *)
(* at most MAX_REPAIR_ITERATIONS repairs (intent_router, retrieval_planner,  *)
(* answer_agent, citation_critic, services/repair.py).                       *)
THEOREM ConversationAnswersAreTrustworthy == ConversationSpec => []AnswerIsTrustworthy
<1>1. ConversationInv => AnswerIsTrustworthy
  <2>1. ConversationTypes /\ RunsAreBounded => RepairIsBounded
    <3>1. ASSUME ConversationTypes
          PROVE  reply.result.draft.iteration \in 0..MaxRepairIterations
      BY <3>1 DEF ConversationTypes, Replies, Graphs, Drafts
    <3>. QED
      BY <3>1, GraphFields, ConversationAssumption
         DEF ConversationTypes, RunsAreBounded, RepairIsBounded, ConversationAssumption
  <2>. QED
    BY <2>1 DEF ConversationInv, AnswerIsTrustworthy
<1>. QED
  BY <1>1, ConversationInitHolds, ConversationNextPreserves, PTL DEF ConversationSpec

(* The failed runs of a turn are its errors, and no path through the graph   *)
(* ends with nothing to tell the user (_normalize_conversation_result).      *)
THEOREM ConversationTellsItsTroubles == ConversationSpec => []TroubleIsTold
<1>1. ConversationInv => TroubleIsTold
  BY DEF ConversationInv, TroubleIsTold
<1>. QED
  BY <1>1, ConversationInitHolds, ConversationNextPreserves, PTL DEF ConversationSpec
=============================================================================
