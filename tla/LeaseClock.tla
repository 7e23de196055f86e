----------------------------- MODULE LeaseClock -----------------------------
(***************************************************************************)
(* The time the enterprise checks are called with (now_ns).  It moves on   *)
(* between any two calls.  Zero is not a valid time in any of them.        *)
(***************************************************************************)
EXTENDS Naturals

CONSTANT MaxTime   \* bound on the clock

ASSUME ClockAssumption == MaxTime \in Nat \ {0}

VARIABLE now

Times == 1..MaxTime

ClockInit == now = 1

Tick == now < MaxTime /\ now' = now + 1

\* [from, until) holds t
Within(window, t) == window.from <= t /\ t < window.until

=============================================================================
