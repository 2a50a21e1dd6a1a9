-------------------------- MODULE MCSignalLifecycle --------------------------
(* Small instances of SignalLifecycle for TLC: a day of two ticks. *)
EXTENDS SignalLifecycle, TLC
CONSTANTS api, w1, root, day1, watching, ready
MCSeries == root :> {day1}
MCWindow == day1 :> 2
MCCards == {[priority |-> 1, status |-> "active", outcome |-> "win"],
            [priority |-> 1, status |-> "invalidated", outcome |-> "loss"]}
MCOneCard == {[priority |-> 1, status |-> "active", outcome |-> "win"]}
MCInstants == 0 .. 2
=============================================================================
