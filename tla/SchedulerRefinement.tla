------------------------ MODULE SchedulerRefinement -------------------------
(***************************************************************************)
(* Scheduler implements OccurrenceClaims, provided that nothing is purged  *)
(* while a call could still want it: a retention shorter than a job's      *)
(* tolerance plus the greatest lag lets an occurrence run twice.           *)
(***************************************************************************)
EXTENDS Scheduler

\* How far behind as_of the instant of a key can lie when a call takes it up.
Window(k) == IF k.mode = "due" THEN JobSpec[k.job].tolerance ELSE 0

ASSUME RetentionAssumption ==
    \A r \in Retentions, k \in Key : Window(k) + MaxLag <= r

claim ==
    [k \in Key |->
        IF run[k] # None
        THEN IF run[k].status = "running" THEN "claimed" ELSE "closed"
        ELSE IF starts[k] > 0 THEN "forgotten" ELSE "open"]

working == [w \in Workers |-> IF Executing(w) THEN key[w] ELSE None]

Claims == INSTANCE OccurrenceClaims WITH claim <- claim, working <- working

\* Each execution key is claimed once, by one worker, and closed by that
\* worker; cleanup forgets only what nobody works on and reopens nothing.
ImplementsClaims == Claims!Spec

-----------------------------------------------------------------------------
(* The inductive invariant behind StartsOnce, SoleRunner and the refinement. *)

HasReading(w) == pc[w] \in {"acquire_leader", "renew", "sleep", "acquire_job", "start_run"}

\* The clock readings a worker holds are in the past, its as_of is not too old,
\* and whatever it works on is no younger than its as_of.
ClockInv ==
    \A w \in Workers :
        /\ pc[w] # "idle" => /\ asOf[w] \in Int
                             /\ asOf[w] <= now /\ now - asOf[w] <= MaxLag
        /\ HasReading(w) => since[w] \in Int /\ asOf[w] <= since[w] /\ since[w] <= now
        /\ Leading(w) => leaseUntil[w] \in Int

\* Every key a worker has listed or in hand is within reach of its as_of.
Reachable(w, k) ==
    /\ pc[w] # "idle"
    /\ k.at <= asOf[w] /\ asOf[w] - k.at <= Window(k)

ReachInv ==
    \A w \in Workers : /\ \A k \in todo[w] : Reachable(w, k)
                       /\ key[w] # None => Reachable(w, key[w])
                       /\ pc[w] = "sleep" => todo[w] = {}

\* A key that was started keeps its row until no call can reach it any more.
Spent(k) == now - k.at > Window(k) + MaxLag

HistoryInv ==
    \A k \in Key :
        /\ run[k] # None => starts[k] = 1 /\ k.at <= run[k].created
        /\ run[k] = None => starts[k] = 0 \/ (starts[k] = 1 /\ Spent(k))

\* Whoever executes a key has a running row for it.
RunnerInv ==
    \A w \in Workers :
        Executing(w) => run[key[w]] # None /\ run[key[w]].status = "running"

IInv == TypeOK /\ ClockInv /\ ReachInv /\ HistoryInv /\ RunnerInv /\ SoleRunner
=============================================================================
