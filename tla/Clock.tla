-------------------------------- MODULE Clock --------------------------------
(***************************************************************************)
(* The monotonic clock that the time-limited state of an instance is judged *)
(* by (core/src/time.rs).  Components that expire things extend it.         *)
(***************************************************************************)
EXTENDS Naturals

CONSTANT MaxTime   \* bound: the clock stops here

VARIABLE now

\* saturating_duration_since.
since(t) == IF now >= t THEN now - t ELSE 0

ClockTick == now < MaxTime /\ now' = now + 1
=============================================================================
