----------------------------- MODULE MCSchedules ------------------------------
(* Specifications of schedules for TLC. *)
EXTENDS Schedules, TLC

At(due, place, action, out) ==
  [due |-> due, place |-> place, action |-> action, out |-> out]

\* A recurring restart.
Restarts == {At(1, 1, "restart", FALSE), At(2, 1, "restart", FALSE)}

\* A pair of rules: a local time that does not exist falls on the instant of a
\* real one, and later both actions fall on one instant.
Pair == {At(1, 1, "start", TRUE), At(1, 2, "start", FALSE),
         At(2, 1, "shutdown", FALSE), At(2, 2, "start", FALSE)}

MCSpecs == {Restarts, Pair}
MCSlot == UNION MCSpecs

\* Both replicas are about to act on what they read, while nothing but the clock and the
\* schedule has changed or the schedule has been saved and approved once; or one is,
\* whatever has changed.
Ticking == {w \in Workers : tick[w] # NoTick}
Within == Cardinality(Ticking) <= 1 \/ Disturbances = 0 \/ schedule.write <= 2

Symmetry == Permutations(Users) \cup Permutations(Workers)
=============================================================================
