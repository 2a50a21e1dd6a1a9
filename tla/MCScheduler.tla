---------------------------- MODULE MCScheduler -----------------------------
(* Small instances of Scheduler for TLC: one day of six ticks. *)
EXTENDS SchedulerRefinement, TLC

CONSTANTS w1, w2, executed

MCInstants == 0 .. 4
MCShortInstants == 0 .. 3

EveryDay == 0 .. 6
MCOneJob == (1 :> [minute |-> 0, weekdays |-> EveryDay, tolerance |-> 1,
                   enabled |-> TRUE, cleanup |-> TRUE])
Symmetry == Permutations(Workers)
=============================================================================
