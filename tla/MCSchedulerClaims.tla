-------------------------- MODULE MCSchedulerClaims --------------------------
(* Instances of Scheduler on which a statement of the repository fails. *)
EXTENDS Scheduler, TLC

CONSTANTS w1, w2, executed

MCInstants == 0 .. 4

EveryDay == 0 .. 6
\* A cleanup job and one that is due a tick later, out of id order.
MCTwoJobs == (1 :> [minute |-> 1, weekdays |-> EveryDay, tolerance |-> 2,
                    enabled |-> TRUE, cleanup |-> FALSE])
          @@ (2 :> [minute |-> 0, weekdays |-> EveryDay, tolerance |-> 2,
                    enabled |-> TRUE, cleanup |-> TRUE])
=============================================================================
