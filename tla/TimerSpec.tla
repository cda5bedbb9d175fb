------------------------------ MODULE TimerSpec ------------------------------
(***************************************************************************)
(* What timer.rs promises the local metrics: recent_millis is a clock that  *)
(* may lag behind the real one but is never ahead of it and never runs      *)
(* backwards.                                                               *)
(***************************************************************************)
EXTENDS Naturals

VARIABLES
    clock,      \* milliseconds since ANCHOR
    recent      \* what recent_millis returns

TimerInit == clock = 0 /\ recent = 0

Pass ==
    /\ clock' = clock + 1
    /\ UNCHANGED recent

CatchUp ==
    /\ recent' \in recent .. clock
    /\ UNCHANGED clock

TimerNext == Pass \/ CatchUp

TimerSpecification == TimerInit /\ [][TimerNext]_<<clock, recent>>

=============================================================================
