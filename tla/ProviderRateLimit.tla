-------------------------- MODULE ProviderRateLimit --------------------------
(***************************************************************************)
(* The distributed rate limiter of one provider: reserve_slot in           *)
(* storage/repositories.py hands every caller a slot under the row lock,   *)
(* acquire in services/provider_rate_limiter.py sleeps until the slot, and *)
(* the client then sends its request (_get, _stream).                      *)
(*                                                                         *)
(* Time is a clock that all processes share.  The clock is read before the *)
(* row is locked, the sleep starts after the commit, and a sleeper may be  *)
(* woken late: three places where the steps of two callers interleave.     *)
(***************************************************************************)
EXTENDS Integers

CONSTANTS
  Callers,     \* threads of API and worker processes that call the provider
  Interval,    \* interval_seconds
  MaxTime,     \* bound: the clock stops there and no later slot is asked for
  MaxOutages   \* bound: errors of the limiter's database in a behaviour

ASSUME NumbersAssumption ==
  /\ Interval \in Nat \ {0}
  /\ MaxTime \in Nat
  /\ MaxOutages \in Nat

VARIABLES
  clock,
  nextAllowed,  \* provider_rate_limits.next_allowed_at; 0 is also "no row"
  pc,           \* where each caller is
  current,      \* the clock as read by a caller that waits for the row lock
  slot,         \* slot_at of a caller that sleeps until it
  wakeAt,       \* when the sleep of a sleeping caller is over
  outages,      \* errors of the limiter's database so far
  granted       \* history: requests sent in a slot

vars == <<clock, nextAllowed, pc, current, slot, wakeAt, outages, granted>>

Init ==
  /\ clock = 0
  /\ nextAllowed = 0
  /\ pc = [c \in Callers |-> "idle"]
  /\ current = [c \in Callers |-> 0]
  /\ slot = [c \in Callers |-> 0]
  /\ wakeAt = [c \in Callers |-> 0]
  /\ outages = 0
  /\ granted = 0

-----------------------------------------------------------------------------
(* reserve_slot and acquire *)

ReadClock(c) ==
  /\ pc[c] = "idle"
  /\ nextAllowed <= MaxTime
  /\ pc' = [pc EXCEPT ![c] = "reserving"]
  /\ current' = [current EXCEPT ![c] = clock]
  /\ UNCHANGED <<clock, nextAllowed, slot, wakeAt, outages, granted>>

Later(a, b) == IF a > b THEN a ELSE b

\* Mutant: the slot is computed from the clock alone.
SlotFor_Now(c) == current[c]

\* slot_at: never earlier than what the row allows.
SlotFor(c) == Later(nextAllowed, current[c])

\* Mutant: the next caller may use the same slot.
NextAfter_Same(s) == s

NextAfter(s) == s + Interval

\* delay_seconds is counted from the clock reading and slept from the commit.
SleepUntil(c, s) == clock + s - current[c]

Reserve(c) ==
  LET s == SlotFor(c) IN
    /\ pc[c] = "reserving"
    /\ pc' = [pc EXCEPT ![c] = "sleeping"]
    /\ nextAllowed' = NextAfter(s)
    /\ slot' = [slot EXCEPT ![c] = s]
    /\ wakeAt' = [wakeAt EXCEPT ![c] = SleepUntil(c, s)]
    /\ current' = [current EXCEPT ![c] = 0]
    /\ UNCHANGED <<clock, outages, granted>>

\* Postgres is down: a local sleep of one interval, without a slot.
FallBack(c) ==
  /\ pc[c] = "reserving"
  /\ outages < MaxOutages
  /\ outages' = outages + 1
  /\ pc' = [pc EXCEPT ![c] = "waiting"]
  /\ wakeAt' = [wakeAt EXCEPT ![c] = clock + Interval]
  /\ current' = [current EXCEPT ![c] = 0]
  /\ UNCHANGED <<clock, nextAllowed, slot, granted>>

-----------------------------------------------------------------------------
(* The request *)

Leave(c) ==
  /\ pc' = [pc EXCEPT ![c] = "idle"]
  /\ current' = [current EXCEPT ![c] = 0]
  /\ slot' = [slot EXCEPT ![c] = 0]
  /\ wakeAt' = [wakeAt EXCEPT ![c] = 0]

Send(c) ==
  /\ pc[c] \in {"sleeping", "waiting"}
  /\ clock >= wakeAt[c]
  /\ granted' = IF pc[c] = "sleeping" THEN granted + 1 ELSE granted
  /\ Leave(c)
  /\ UNCHANGED <<clock, nextAllowed, outages>>

\* The process dies; its slot, if it has one, is not given to anybody else.
Crash(c) ==
  /\ pc[c] # "idle"
  /\ Leave(c)
  /\ UNCHANGED <<clock, nextAllowed, outages, granted>>

Tick ==
  /\ clock < MaxTime
  /\ clock' = clock + 1
  /\ UNCHANGED <<nextAllowed, pc, current, slot, wakeAt, outages, granted>>

Next ==
  \/ \E c \in Callers : ReadClock(c) \/ Reserve(c) \/ FallBack(c) \/ Send(c) \/ Crash(c)
  \/ Tick

Spec == Init /\ [][Next]_vars

-----------------------------------------------------------------------------
(* Properties *)

TypeOK ==
  /\ clock \in 0..MaxTime
  /\ nextAllowed \in Nat
  /\ pc \in [Callers -> {"idle", "reserving", "sleeping", "waiting"}]
  /\ current \in [Callers -> 0..MaxTime]
  /\ slot \in [Callers -> Nat]
  /\ wakeAt \in [Callers -> Nat]
  /\ outages \in 0..MaxOutages
  /\ granted \in Nat

\* Callers that hold a slot at the same time hold slots at least an interval
\* apart, however stale the clock reading they asked with.
SlotsSpaced ==
  \A c, d \in Callers :
    c # d /\ pc[c] = "sleeping" /\ pc[d] = "sleeping" =>
      \/ slot[c] + Interval <= slot[d]
      \/ slot[d] + Interval <= slot[c]

\* A sleeper is not woken before its slot, although its delay was computed
\* before it waited for the lock.
NeverBeforeItsSlot == \A c \in Callers : pc[c] = "sleeping" => wakeAt[c] >= slot[c]

\* In the long run the provider sees at most one request per interval from
\* the callers that got a slot, even when some of them overslept.
RateIsBounded == granted > 0 => (granted - 1) * Interval <= clock

\* A slot belongs to one caller, an interval away from the others, and is kept.
SlotsAreKept == SlotsSpaced /\ NeverBeforeItsSlot
=============================================================================
