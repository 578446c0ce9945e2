----------------------------- MODULE MCJobQueue -----------------------------
(* Values of the constants of JobQueue for TLC. *)
EXTENDS JobQueue

(* Ticks of a whole second: texts compare as the clock does. *)
ClockLeq(a, b) == a <= b

(* Ticks of half a second. *)
T == INSTANCE Timestamps WITH Base <- 2, Places <- 1

HalfSecondLeq(a, b) == T!TextAtMost(a, b)

MCTimes == 0..30
=============================================================================
