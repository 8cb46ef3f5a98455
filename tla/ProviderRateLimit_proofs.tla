---------------------- MODULE ProviderRateLimit_proofs ----------------------
(***************************************************************************)
(* Safety of ProviderRateLimit for any set of callers, interval and clock. *)
(***************************************************************************)
EXTENDS ProviderRateLimit, FiniteSets, FiniteSetTheorems, TLAPS

\* A clock reading is never ahead of the clock.
ReadingsArePast == \A c \in Callers : current[c] <= clock

\* The row allows nothing before the end of every slot that is still out.
RowIsAhead == \A c \in Callers : pc[c] = "sleeping" => slot[c] + Interval <= nextAllowed

IInv == TypeOK /\ ReadingsArePast /\ RowIsAhead /\ SlotsSpaced /\ NeverBeforeItsSlot

\* The invariant holds when nobody has asked yet.
LEMMA InitInv == Init => IInv
BY NumbersAssumption
   DEF Init, IInv, TypeOK, ReadingsArePast, RowIsAhead, SlotsSpaced, NeverBeforeItsSlot

\* A new slot starts where the row allows and not before the clock reading,
\* and its sleep ends in it.
LEMMA NewSlot ==
  ASSUME IInv, NEW c \in Callers
  PROVE  /\ SlotFor(c) \in Nat
         /\ SlotFor(c) >= nextAllowed
         /\ SlotFor(c) >= current[c]
         /\ NextAfter(SlotFor(c)) = SlotFor(c) + Interval
         /\ SleepUntil(c, SlotFor(c)) \in Nat
         /\ SleepUntil(c, SlotFor(c)) >= SlotFor(c)
<1>1. /\ nextAllowed \in Nat
      /\ current[c] \in Nat
      /\ clock \in Nat
      /\ current[c] <= clock
  BY NumbersAssumption DEF IInv, TypeOK, ReadingsArePast
<1>2. SlotFor(c) \in Nat /\ SlotFor(c) >= nextAllowed /\ SlotFor(c) >= current[c]
  BY <1>1 DEF SlotFor, Later
<1>. QED
  BY <1>1, <1>2 DEF NextAfter, SleepUntil

LEMMA ReserveInv ==
  ASSUME IInv, NEW c \in Callers, Reserve(c)
  PROVE  IInv'
<1>. USE NumbersAssumption
<1>. DEFINE s == SlotFor(c)
<1>1. /\ s \in Nat
      /\ s >= nextAllowed
      /\ nextAllowed' = s + Interval
      /\ wakeAt' = [wakeAt EXCEPT ![c] = SleepUntil(c, s)]
      /\ SleepUntil(c, s) \in Nat
      /\ SleepUntil(c, s) >= s
  BY NewSlot DEF Reserve
<1>. HIDE DEF s
<1>2. /\ pc' = [pc EXCEPT ![c] = "sleeping"]
      /\ slot' = [slot EXCEPT ![c] = s]
      /\ current' = [current EXCEPT ![c] = 0]
      /\ UNCHANGED <<clock, outages, granted>>
  BY DEF Reserve, s
<1>3. TypeOK' /\ ReadingsArePast'
  BY <1>1, <1>2 DEF IInv, TypeOK, ReadingsArePast
<1>4. ASSUME NEW d \in Callers, d # c, pc'[d] = "sleeping"
      PROVE  /\ slot'[d] = slot[d]
             /\ slot[d] \in Nat
             /\ slot[d] + Interval <= nextAllowed
             /\ wakeAt'[d] >= slot'[d]
  BY <1>1, <1>2, <1>4 DEF IInv, TypeOK, RowIsAhead, NeverBeforeItsSlot
<1>5. slot'[c] = s /\ wakeAt'[c] = SleepUntil(c, s)
  BY <1>1, <1>2 DEF IInv, TypeOK
<1>6. RowIsAhead'
  <2>. SUFFICES ASSUME NEW d \in Callers, pc'[d] = "sleeping"
                PROVE  slot'[d] + Interval <= nextAllowed'
    BY DEF RowIsAhead
  <2>1. CASE d = c
    BY <2>1, <1>1, <1>5
  <2>2. CASE d # c
    <3>1. slot[d] + Interval <= nextAllowed /\ slot'[d] = slot[d] /\ slot[d] \in Nat
      BY <2>2, <1>4
    <3>2. nextAllowed \in Nat
      BY DEF IInv, TypeOK
    <3>. QED
      BY <3>1, <3>2, <1>1
  <2>. QED
    BY <2>1, <2>2
<1>7. SlotsSpaced'
  <2>. SUFFICES ASSUME NEW d \in Callers, NEW e \in Callers, d # e,
                       pc'[d] = "sleeping", pc'[e] = "sleeping"
                PROVE  \/ slot'[d] + Interval <= slot'[e]
                       \/ slot'[e] + Interval <= slot'[d]
    BY DEF SlotsSpaced
  <2>0. nextAllowed \in Nat
    BY DEF IInv, TypeOK
  <2>1. CASE d = c
    <3>1. slot[e] + Interval <= nextAllowed /\ slot'[e] = slot[e] /\ slot[e] \in Nat
      BY <2>1, <1>4
    <3>. QED
      BY <2>0, <2>1, <3>1, <1>1, <1>5
  <2>2. CASE e = c
    <3>1. slot[d] + Interval <= nextAllowed /\ slot'[d] = slot[d] /\ slot[d] \in Nat
      BY <2>2, <1>4
    <3>. QED
      BY <2>0, <2>2, <3>1, <1>1, <1>5
  <2>3. CASE d # c /\ e # c
    BY <2>3, <1>2, <1>4 DEF IInv, TypeOK, SlotsSpaced
  <2>. QED
    BY <2>1, <2>2, <2>3
<1>8. NeverBeforeItsSlot'
  BY <1>1, <1>4, <1>5 DEF NeverBeforeItsSlot
<1>. QED
  BY <1>3, <1>6, <1>7, <1>8 DEF IInv

\* A caller that leaves gives up its slot and disturbs nobody.
LEMMA LeaveInv ==
  ASSUME IInv, NEW c \in Callers, Leave(c), UNCHANGED <<clock, nextAllowed, outages>>,
         granted' \in Nat
  PROVE  IInv'
BY NumbersAssumption
   DEF Leave, IInv, TypeOK, ReadingsArePast, RowIsAhead, SlotsSpaced, NeverBeforeItsSlot

LEMMA NextInv == IInv /\ [Next]_vars => IInv'
<1>. SUFFICES ASSUME IInv, [Next]_vars PROVE IInv'
  OBVIOUS
<1>. USE NumbersAssumption
<1>1. ASSUME NEW c \in Callers, ReadClock(c) PROVE IInv'
  BY <1>1 DEF ReadClock, IInv, TypeOK, ReadingsArePast, RowIsAhead, SlotsSpaced,
              NeverBeforeItsSlot
<1>2. ASSUME NEW c \in Callers, Reserve(c) PROVE IInv'
  BY <1>2, ReserveInv
<1>3. ASSUME NEW c \in Callers, FallBack(c) PROVE IInv'
  BY <1>3 DEF FallBack, IInv, TypeOK, ReadingsArePast, RowIsAhead, SlotsSpaced,
              NeverBeforeItsSlot
<1>4. ASSUME NEW c \in Callers, Send(c) PROVE IInv'
  <2>1. granted' \in Nat
    BY <1>4 DEF Send, IInv, TypeOK
  <2>. QED
    BY <1>4, <2>1, LeaveInv DEF Send
<1>5. ASSUME NEW c \in Callers, Crash(c) PROVE IInv'
  <2>1. granted' \in Nat
    BY <1>5 DEF Crash, IInv, TypeOK
  <2>. QED
    BY <1>5, <2>1, LeaveInv DEF Crash
<1>6. CASE Tick
  BY <1>6 DEF Tick, IInv, TypeOK, ReadingsArePast, RowIsAhead, SlotsSpaced,
              NeverBeforeItsSlot
<1>7. CASE UNCHANGED vars
  BY <1>7 DEF vars, IInv, TypeOK, ReadingsArePast, RowIsAhead, SlotsSpaced,
              NeverBeforeItsSlot
<1>. QED
  BY <1>1, <1>2, <1>3, <1>4, <1>5, <1>6, <1>7 DEF Next

LEMMA Invariance == Spec => []IInv
BY InitInv, NextInv, PTL DEF Spec

-----------------------------------------------------------------------------
\* The row, the clock and the callers' variables keep their types; a sleep
\* never ends in negative time.
THEOREM TypeCorrect == Spec => []TypeOK
<1>1. IInv => TypeOK
  BY DEF IInv
<1>. QED
  BY <1>1, Invariance, PTL

\* Slots held at the same time are at least an interval apart.
THEOREM Spaced == Spec => []SlotsSpaced
<1>1. IInv => SlotsSpaced
  BY DEF IInv
<1>. QED
  BY <1>1, Invariance, PTL

\* No sleeper is woken before its slot.
THEOREM NotBeforeSlot == Spec => []NeverBeforeItsSlot
<1>1. IInv => NeverBeforeItsSlot
  BY DEF IInv
<1>. QED
  BY <1>1, Invariance, PTL

\* Slots are an interval apart and nobody is woken before the own one.
THEOREM SlotsKept == Spec => []SlotsAreKept
BY Spaced, NotBeforeSlot, PTL DEF SlotsAreKept

-----------------------------------------------------------------------------
(* The rate.  The slots that were used or are still out are an interval      *)
(* apart, so the row has moved on by an interval for each of them, and       *)
(* whoever holds a slot has at most as many before it as fit before it, or   *)
(* before the clock when others have overslept.                              *)

Sleeping == {c \in Callers : pc[c] = "sleeping"}
Before(c) == {d \in Sleeping : slot[d] < slot[c]}

RowCounts ==
  /\ IsFiniteSet(Sleeping)
  /\ (granted + Cardinality(Sleeping)) * Interval <= nextAllowed

Fits(n, c) == n * Interval <= clock \/ n * Interval <= slot[c]
SlotCounts == \A c \in Sleeping : Fits(granted + Cardinality(Before(c)), c)

RInv == RowCounts /\ SlotCounts /\ RateIsBounded

LEMMA Times ==
  ASSUME NEW a \in Nat, NEW b \in Nat, a <= b
  PROVE  /\ a * Interval \in Nat /\ a * Interval <= b * Interval
         /\ (a + 1) * Interval = a * Interval + Interval
<1>1. Interval \in Nat
  BY NumbersAssumption
<1>2. \A i \in Nat : a * i \in Nat /\ a * i <= b * i /\ (a + 1) * i = a * i + i
  OBVIOUS
<1>. QED
  BY <1>1, <1>2

\* The number of sleepers before another one.
LEMMA Counts ==
  ASSUME TypeOK, RowCounts, NEW c
  PROVE  /\ Cardinality(Sleeping) \in Nat
         /\ IsFiniteSet(Before(c)) /\ Cardinality(Before(c)) \in Nat
         /\ Cardinality(Before(c)) <= Cardinality(Sleeping)
<1>1. IsFiniteSet(Sleeping) /\ Before(c) \subseteq Sleeping
  BY DEF RowCounts, Before
<1>. QED
  BY <1>1, FS_Subset, FS_CardinalityType

LEMMA InitRate == Init => RInv
<1>. SUFFICES ASSUME Init PROVE RInv
  OBVIOUS
<1>1. Sleeping = {}
  BY DEF Init, Sleeping
<1>2. IsFiniteSet(Sleeping) /\ Cardinality(Sleeping) = 0
  BY <1>1, FS_EmptySet
<1>. QED
  BY <1>1, <1>2, NumbersAssumption DEF Init, RInv, RowCounts, SlotCounts, RateIsBounded

\* Steps after which as many requests are granted as before and no caller
\* sleeps that did not sleep.
LEMMA Shrinks ==
  ASSUME IInv, RInv, TypeOK', Sleeping' \subseteq Sleeping,
         \A c \in Sleeping' : slot'[c] = slot[c],
         UNCHANGED <<nextAllowed, granted>>, clock' >= clock
  PROVE  RInv'
<1>. USE NumbersAssumption
<1>1. /\ granted \in Nat /\ nextAllowed \in Nat /\ clock \in Nat /\ clock' \in Nat
      /\ IsFiniteSet(Sleeping) /\ Cardinality(Sleeping) \in Nat
  BY Counts DEF IInv, RInv, RowCounts, TypeOK
<1>2. /\ IsFiniteSet(Sleeping') /\ Cardinality(Sleeping') \in Nat
      /\ Cardinality(Sleeping') <= Cardinality(Sleeping)
  BY <1>1, FS_Subset, FS_CardinalityType
<1>3. RowCounts'
  <2>1. (granted + Cardinality(Sleeping')) * Interval <= (granted + Cardinality(Sleeping)) * Interval
    BY <1>1, <1>2, Times
  <2>2. (granted + Cardinality(Sleeping)) * Interval \in Nat /\ (granted + Cardinality(Sleeping')) * Interval \in Nat
    BY <1>1, <1>2, Times
  <2>. QED
    BY <1>1, <1>2, <2>1, <2>2 DEF RInv, RowCounts
<1>4. ASSUME NEW c \in Sleeping' PROVE Fits(granted + Cardinality(Before(c)), c)'
  <2>1. Before(c)' \subseteq Before(c) /\ c \in Sleeping /\ slot'[c] = slot[c]
    BY <1>4 DEF Before
  <2>2. /\ IsFiniteSet(Before(c)) /\ Cardinality(Before(c)) \in Nat
    BY Counts DEF IInv, RInv
  <2>3. Cardinality(Before(c)') \in Nat /\ Cardinality(Before(c)') <= Cardinality(Before(c))
    BY <2>1, <2>2, FS_Subset, FS_CardinalityType
  <2>. DEFINE n == granted + Cardinality(Before(c))
              m == granted + Cardinality(Before(c)')
  <2>4. m * Interval <= n * Interval /\ m * Interval \in Nat /\ n * Interval \in Nat
    BY <1>1, <2>2, <2>3, Times
  <2>5. n * Interval <= clock \/ n * Interval <= slot[c]
    BY <2>1 DEF RInv, SlotCounts, Fits
  <2>6. slot[c] \in Nat
    BY <2>1 DEF IInv, TypeOK, Sleeping
  <2>. HIDE DEF m, n
  <2>7. m * Interval <= clock' \/ m * Interval <= slot'[c]
    BY <1>1, <2>1, <2>4, <2>5, <2>6
  <2>. QED
    BY <2>7 DEF m, Fits
<1>5. SlotCounts'
  BY <1>4 DEF SlotCounts
<1>6. RateIsBounded'
  <2>1. CASE granted = 0
    BY <2>1, <1>1 DEF RateIsBounded
  <2>2. CASE granted > 0
    <3>1. granted - 1 \in Nat
      BY <1>1, <2>2
    <3>2. (granted - 1) * Interval \in Nat
      BY <3>1, Times
    <3>. QED
      BY <1>1, <2>2, <3>2 DEF RInv, RateIsBounded
  <2>. QED
    BY <1>1, <2>1, <2>2
<1>. QED
  BY <1>3, <1>5, <1>6 DEF RInv

\* A new slot is behind all others, and the row moves on by an interval.
LEMMA ReserveRate ==
  ASSUME IInv, IInv', RInv, NEW c \in Callers, Reserve(c)
  PROVE  RInv'
<1>. USE NumbersAssumption
<1>. DEFINE s == SlotFor(c)
<1>1. /\ s \in Nat /\ s >= nextAllowed /\ nextAllowed' = s + Interval
  BY NewSlot DEF Reserve
<1>2. /\ pc[c] = "reserving" /\ pc' = [pc EXCEPT ![c] = "sleeping"] /\ slot' = [slot EXCEPT ![c] = s]
      /\ clock' = clock /\ granted' = granted
  BY DEF Reserve
<1>. HIDE DEF s
<1>3. /\ granted \in Nat /\ nextAllowed \in Nat /\ clock \in Nat
      /\ IsFiniteSet(Sleeping) /\ Cardinality(Sleeping) \in Nat
  BY Counts DEF IInv, RInv, RowCounts, TypeOK
<1>4. /\ c \notin Sleeping /\ Sleeping' = Sleeping \cup {c}
      /\ slot'[c] = s
      /\ \A d \in Sleeping : slot'[d] = slot[d] /\ slot[d] \in Nat
  BY <1>2 DEF IInv, TypeOK, Sleeping
<1>5. IsFiniteSet(Sleeping') /\ Cardinality(Sleeping') = Cardinality(Sleeping) + 1
  BY <1>3, <1>4, FS_AddElement
<1>. DEFINE n == granted + Cardinality(Sleeping)
<1>6. /\ n \in Nat /\ n * Interval \in Nat /\ (n + 1) * Interval = n * Interval + Interval
      /\ n * Interval <= nextAllowed
  BY <1>3, Times DEF RInv, RowCounts
<1>7. RowCounts'
  <2>1. granted' + Cardinality(Sleeping') = n + 1
    BY <1>2, <1>3, <1>5
  <2>. HIDE DEF n
  <2>. QED
    BY <1>1, <1>3, <1>5, <1>6, <2>1 DEF RowCounts
<1>8. ASSUME NEW d \in Sleeping' PROVE Fits(granted + Cardinality(Before(d)), d)'
  <2>1. CASE d = c
    <3>1. Before(c)' \subseteq Sleeping
      BY <1>1, <1>4 DEF Before
    <3>2. Cardinality(Before(c)') \in Nat /\ Cardinality(Before(c)') <= Cardinality(Sleeping)
      BY <1>3, <3>1, FS_Subset, FS_CardinalityType
    <3>. DEFINE m == granted + Cardinality(Before(c)')
    <3>3. m * Interval \in Nat /\ m * Interval <= n * Interval
      BY <1>3, <3>2, Times
    <3>4. m * Interval <= s
      <4>. HIDE DEF m, n
      <4>. QED
        BY <1>1, <1>3, <1>6, <3>3
    <3>. QED
      BY <1>2, <1>4, <2>1, <3>4 DEF Fits
  <2>2. CASE d \in Sleeping
    <3>1. slot[d] < s
      BY <2>2, <1>1, <1>3, <1>4 DEF IInv, RowIsAhead, Sleeping
    <3>2. Before(d)' = Before(d)
      BY <2>2, <1>1, <1>4, <3>1 DEF Before
    <3>. QED
      BY <2>2, <1>2, <1>4, <3>2 DEF RInv, SlotCounts, Fits
  <2>. QED
    BY <1>4, <1>8, <2>1, <2>2
<1>9. RateIsBounded'
  BY <1>2 DEF RInv, RateIsBounded
<1>. QED
  BY <1>7, <1>8, <1>9 DEF RInv, SlotCounts

\* A request in a slot: the slots before it are those of requests that were
\* sent, and the clock has reached it.
LEMMA SendRate ==
  ASSUME IInv, IInv', RInv, NEW c \in Callers, Send(c), pc[c] = "sleeping"
  PROVE  RInv'
<1>. USE NumbersAssumption
<1>0. TypeOK /\ RowCounts
  BY DEF IInv, RInv
<1>1. /\ granted \in Nat /\ nextAllowed \in Nat /\ clock \in Nat /\ slot[c] \in Nat
      /\ IsFiniteSet(Sleeping) /\ Cardinality(Sleeping) \in Nat
      /\ c \in Sleeping
  <2>1. /\ granted \in Nat /\ nextAllowed \in Nat /\ clock \in Nat /\ slot[c] \in Nat
        /\ c \in Sleeping
    BY <1>0 DEF TypeOK, Sleeping
  <2>2. IsFiniteSet(Sleeping)
    BY <1>0 DEF RowCounts
  <2>3. Cardinality(Sleeping) \in Nat
    BY <2>2, FS_CardinalityType
  <2>. QED
    BY <2>1, <2>2, <2>3
<1>2. /\ granted' = granted + 1 /\ clock' = clock /\ nextAllowed' = nextAllowed
      /\ clock >= slot[c]
  BY <1>1 DEF Send, IInv, TypeOK, NeverBeforeItsSlot
<1>3. /\ Sleeping' = Sleeping \ {c}
      /\ \A d \in Sleeping' : slot'[d] = slot[d] /\ slot[d] \in Nat
  BY DEF Send, Leave, IInv, TypeOK, Sleeping
<1>4. IsFiniteSet(Sleeping') /\ Cardinality(Sleeping') = Cardinality(Sleeping) - 1
  BY <1>1, <1>3, FS_RemoveElement
<1>5. RowCounts'
  <2>1. granted' + Cardinality(Sleeping') = granted + Cardinality(Sleeping)
    BY <1>1, <1>2, <1>4
  <2>. QED
    BY <1>2, <1>4, <2>1 DEF RInv, RowCounts
<1>. DEFINE before == granted + Cardinality(Before(c))
<1>6. Cardinality(Before(c)) \in Nat
  BY Counts DEF IInv, RInv
<1>7. before * Interval <= clock /\ before * Interval \in Nat
  <2>1. before \in Nat /\ before * Interval \in Nat
    BY <1>1, <1>6, Times
  <2>2. before * Interval <= clock \/ before * Interval <= slot[c]
    BY <1>1 DEF RInv, SlotCounts, Fits
  <2>. HIDE DEF before
  <2>. QED
    BY <1>1, <1>2, <2>1, <2>2
<1>8. RateIsBounded'
  <2>1. granted * Interval <= before * Interval /\ granted * Interval \in Nat
    BY <1>1, <1>6, Times
  <2>2. granted * Interval <= clock
    <3>. HIDE DEF before
    <3>. QED
      BY <1>1, <1>7, <2>1
  <2>. QED
    BY <1>1, <1>2, <2>2 DEF RateIsBounded
<1>9. ASSUME NEW d \in Sleeping' PROVE Fits(granted + Cardinality(Before(d)), d)'
  <2>0. /\ d \in Sleeping /\ d # c /\ slot'[d] = slot[d] /\ slot[d] \in Nat
        /\ Before(d)' = Before(d) \ {c}
        /\ IsFiniteSet(Before(d)) /\ Cardinality(Before(d)) \in Nat
    BY <1>3, <1>9, Counts DEF Before, IInv, RInv
  <2>1. CASE slot[c] < slot[d]
    <3>1. Cardinality(Before(d)') = Cardinality(Before(d)) - 1
      <4>1. c \in Before(d)
        BY <1>1, <2>0, <2>1 DEF Before
      <4>. HIDE DEF Before
      <4>. QED
        BY <2>0, <4>1, FS_RemoveElement
    <3>2. granted' + Cardinality(Before(d)') = granted + Cardinality(Before(d))
      BY <1>1, <1>2, <2>0, <3>1
    <3>3. Fits(granted + Cardinality(Before(d)), d)
      BY <2>0 DEF RInv, SlotCounts
    <3>. QED
      BY <1>2, <2>0, <3>2, <3>3 DEF Fits
  <2>2. CASE ~(slot[c] < slot[d])
    <3>1. slot[d] < slot[c]
      BY <1>1, <2>0, <2>2 DEF IInv, SlotsSpaced, Sleeping
    <3>2. Before(d) \cup {d} \subseteq Before(c) /\ d \notin Before(d)
      <4>1. \A e \in Sleeping : slot[e] \in Nat
        BY <1>0 DEF TypeOK, Sleeping
      <4>. QED
        BY <1>1, <2>0, <3>1, <4>1 DEF Before
    <3>3. Cardinality(Before(d)) + 1 <= Cardinality(Before(c))
      <4>1. Cardinality(Before(d) \cup {d}) = Cardinality(Before(d)) + 1
        BY <2>0, <3>2, FS_AddElement
      <4>2. IsFiniteSet(Before(c))
        BY Counts DEF IInv, RInv
      <4>. QED
        BY <3>2, <4>1, <4>2, FS_Subset
    <3>4. Before(d)' = Before(d)
      BY <2>0, <2>2 DEF Before
    <3>. DEFINE m == granted + 1 + Cardinality(Before(d))
    <3>5. m * Interval <= before * Interval /\ m * Interval \in Nat
      BY <1>1, <1>6, <2>0, <3>3, Times
    <3>6. m * Interval <= clock
      <4>. HIDE DEF m, before
      <4>. QED
        BY <1>1, <1>7, <3>5
    <3>. QED
      BY <1>2, <3>4, <3>6 DEF Fits
  <2>. QED
    BY <2>1, <2>2
<1>. QED
  BY <1>5, <1>8, <1>9 DEF RInv, SlotCounts

LEMMA RateStep == IInv /\ IInv' /\ RInv /\ [Next]_vars => RInv'
<1>. SUFFICES ASSUME IInv, IInv', RInv, [Next]_vars PROVE RInv'
  OBVIOUS
<1>0. TypeOK' /\ clock \in Nat
  BY NumbersAssumption DEF IInv, TypeOK
<1>1. ASSUME NEW c \in Callers, ReadClock(c) \/ FallBack(c) \/ Crash(c) \/ (Send(c) /\ pc[c] # "sleeping")
      PROVE  RInv'
  <2>1. /\ UNCHANGED <<nextAllowed, granted>> /\ clock' = clock
        /\ pc[c] # "sleeping" \/ pc'[c] # "sleeping"
        /\ \A d \in Callers : d # c => pc'[d] = pc[d] /\ slot'[d] = slot[d]
        /\ pc'[c] # "sleeping"
    BY <1>1 DEF ReadClock, FallBack, Crash, Send, Leave, IInv, TypeOK
  <2>2. Sleeping' \subseteq Sleeping /\ \A d \in Sleeping' : slot'[d] = slot[d]
    BY <2>1 DEF Sleeping
  <2>. QED
    BY <1>0, <2>1, <2>2, Shrinks
<1>2. CASE Tick \/ UNCHANGED vars
  <2>1. UNCHANGED <<nextAllowed, granted, pc, slot>> /\ clock' >= clock
    BY <1>0, <1>2 DEF Tick, vars
  <2>. QED
    BY <1>0, <2>1, Shrinks DEF Sleeping
<1>. QED
  BY <1>1, <1>2, ReserveRate, SendRate DEF Next

(* However late sleepers wake, the provider sees no more requests in slots   *)
(* than intervals have passed, and one (reserve_slot, acquire).              *)
THEOREM Bounded == Spec => []RateIsBounded
<1>1. RInv => RateIsBounded
  BY DEF RInv
<1>. QED
  BY <1>1, InitRate, RateStep, Invariance, PTL DEF Spec

=============================================================================
