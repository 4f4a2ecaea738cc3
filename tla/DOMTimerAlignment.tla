------------------------- MODULE DOMTimerAlignment -------------------------
(***************************************************************************)
(* DOMTimer::alignedFireTime (page/DOMTimer.cpp): the fire time TimerBase  *)
(* uses instead of the one it computed, so that the timers of a page wake  *)
(* together.  Times are whole milliseconds (std::chrono::milliseconds).    *)
(*                                                                         *)
(* randomizedProportion is a function-local static: randomNumber() runs   *)
(* once per process, so the proportion is chosen in Init and never         *)
(* changes.  randomNumber() is a double in [0, 1); here it is p / Steps    *)
(* for p in 0..Steps-1.  The alignment interval is what the context's      *)
(* timerAlignmentInterval() returns for the call, 0 meaning "no alignment".*)
(***************************************************************************)
EXTENDS Integers

CONSTANTS
    FireTimes,          \* fire times (ms) TimerBase asks about
    AlignmentIntervals, \* values of timerAlignmentInterval() (ms), 0 included
    Steps               \* resolution of randomNumber()

ASSUME Steps >= 1 /\ \A a \in AlignmentIntervals : a >= 0

NoAlignment == -1       \* std::nullopt

VARIABLES
    proportion, \* static randomizedProportion, as proportion / Steps
    fireTime,   \* the argument of the last call
    alignment,  \* timerAlignmentInterval() in the last call
    aligned     \* its result, or NoAlignment

vars == <<proportion, fireTime, alignment, aligned>>

\* The % of std::chrono durations: C++ integer remainder, which takes the
\* sign of the dividend (TLA+'s % is always non-negative).
CppRem(x, y) == IF x >= 0 THEN x % y ELSE -((-x) % y)

\* duration_cast<milliseconds>(alignmentInterval * randomizedProportion):
\* the product truncated toward zero.
RandomizedOffset(a, p) == (a * p) \div Steps

\* Mutation: alignment that rounds down to the slot at or before the fire
\* time, dropping the "+ alignmentInterval".
AlignedFireTimeRoundDown(ft, a, p) ==
    IF a = 0 THEN NoAlignment
    ELSE LET adj == ft - RandomizedOffset(a, p)
         IN  adj - CppRem(adj, a) + RandomizedOffset(a, p)

\* alignedFireTime(fireTime)
AlignedFireTime(ft, a, p) ==
    IF a = 0 THEN NoAlignment
    ELSE LET adj == ft - RandomizedOffset(a, p)
         IN  adj - CppRem(adj, a) + a + RandomizedOffset(a, p)

Init ==
    /\ proportion \in 0..(Steps - 1)
    /\ fireTime \in FireTimes
    /\ alignment = 0
    /\ aligned = NoAlignment

\* TimerBase::setNextFireTime asks for the aligned time of ft.
SetNextFireTime(ft, a) ==
    /\ fireTime' = ft
    /\ alignment' = a
    /\ aligned' = AlignedFireTime(ft, a, proportion)
    /\ UNCHANGED proportion

Next == \E ft \in FireTimes, a \in AlignmentIntervals : SetNextFireTime(ft, a)

Spec == Init /\ [][Next]_vars

-----------------------------------------------------------------------------
(* Reference definition and properties.                                    *)

\* What the comment in alignedFireTime promises: with interval a and
\* offset o the timer fires at o, a + o, 2a + o, ...; the aligned time is
\* the first of these strictly after the requested time.
NextSlotAfter(ft, a, o) == CHOOSE v \in (ft + 1)..(ft + a) : (v - o) % a = 0

\* An aligned timer never fires before it is due, is late by at most one
\* alignment interval, and lands on the page's common randomized grid, for
\* every fire time from the offset on, interval and static proportion: the
\* truncating duration_cast and the remainder together pick the next grid
\* point.  Below the offset (the first slot) the dividend of % is
\* negative and the code picks the slot after the next one, so those fire
\* times are excluded.
AlignsToNextSlot ==
    LET o == RandomizedOffset(alignment, proportion) IN
    (alignment # 0 /\ fireTime >= o) => aligned = NextSlotAfter(fireTime, alignment, o)

=============================================================================
