----------------------------- MODULE Scheduler ------------------------------
(***************************************************************************)
(* The recurring scheduler: worker processes (a polling daemon, cron or    *)
(* Task Scheduler ticks, one-off CLI calls) that share nothing but the     *)
(* database.  A call is a sequence of repository methods, each of which is *)
(* one transaction; between two of them any other worker may run, the      *)
(* clock may advance, and the process may die.                             *)
(*                                                                         *)
(* The lock table holds the leader lease and one lock per execution key;   *)
(* the run table holds one history row per execution key, whose uniqueness *)
(* is what makes an occurrence run once.                                   *)
(***************************************************************************)
EXTENDS SchedulePlan

CONSTANTS
    Workers,        \* scheduler processes
    Instants,       \* the stretch of time modelled
    Start,          \* the instant the model starts at
    LeaderKey,      \* settings.scheduler_leader_lock_key
    LeaderLease,    \* settings.scheduler_leader_lease_seconds
    MinJobLock,     \* the least lifetime of a job lock (5 minutes)
    Poll,           \* settings.scheduler_poll_interval_seconds
    MaxBackdate,    \* the furthest a caller's --as-of lies behind the clock
    DryRuns,        \* the dry_run flags run_loop is called with
    ForcedAt,       \* the as_of values run_job is called with
    Outcomes,       \* what a finished run's status can be (executed, failed, sent, ...)
    Retentions,     \* the retention periods a cleanup is called with
    MaxLag,         \* no call's as_of trails the clock by more than this
    FaultProne      \* the workers that may die or meet a database error

\* Execution keys: a due key names a scheduled instant, a manual one an as_of.
Key == {k \in [job : Jobs, mode : {"due", "manual"}, at : Instants] :
           IF k.mode = "due" THEN k.at = ScheduledOn(k.job, DayOf(k.at)) ELSE k.at \in ForcedAt}
LockKey == Key \cup {LeaderKey}

LockRow == [owner : Workers, expires : Int]
RunRow == [status : Outcomes \cup {"running"}, created : Int]

ASSUME SchedulerAssumption ==
    /\ Instants \subseteq Int
    /\ Start \in Instants
    /\ LeaderKey \notin Key
    /\ LeaderLease \in Nat /\ MinJobLock \in Nat /\ Poll \in Nat
    /\ MaxLag \in Nat /\ MaxBackdate \in 0 .. MaxLag
    /\ Retentions \subseteq Nat /\ DryRuns \subseteq BOOLEAN
    /\ "running" \notin Outcomes
    /\ FaultProne \subseteq Workers
    /\ None \notin Key /\ None \notin LockRow /\ None \notin RunRow

VARIABLES
    now,        \* the wall clock
    lock,       \* scheduler_locks: lock key -> row or None
    run,        \* scheduler_runs: idempotency key -> row or None
    pc,         \* what each worker does next
    loop,       \* the worker is in run_loop and not in a bare run_due or run_job
    dry,        \* the loop is a dry run
    asOf,       \* the as_of of the current iteration
    todo,       \* due jobs of the iteration not looked at yet
    key,        \* the execution key in hand
    since,      \* a lower bound of its next clock reading; once it holds a job
                \* lock, started_at of the run
    leaseUntil, \* (history) the lease end the worker wrote last
    starts      \* (history) executions begun per key

tables == <<lock, run>>
call == <<loop, dry, asOf>>
history == <<leaseUntil, starts>>
vars == <<now, tables, pc, call, todo, key, since, history>>

Init ==
    /\ now = Start
    /\ lock = [k \in LockKey |-> None]
    /\ run = [k \in Key |-> None]
    /\ pc = [w \in Workers |-> "idle"]
    /\ loop = [w \in Workers |-> FALSE]
    /\ dry = [w \in Workers |-> FALSE]
    /\ asOf = [w \in Workers |-> None]
    /\ todo = [w \in Workers |-> {}]
    /\ key = [w \in Workers |-> None]
    /\ since = [w \in Workers |-> None]
    /\ leaseUntil = [w \in Workers |-> None]
    /\ starts = [k \in Key |-> 0]

-----------------------------------------------------------------------------
(* The repository's lock methods, each one transaction. *)

Expired(row, at) == row # None /\ row.expires < at

\* has_scheduler_lock
HasLock(k, at) == lock[k] # None /\ lock[k].expires >= at

\* Fault: an expired row is not deleted before the insert.
CanAcquireUnswept(k, at) == lock[k] = None

\* acquire_scheduler_lock deletes what has expired by `at` and inserts; the
\* unique key refuses the insert while an unexpired row stands.
CanAcquire(k, at) == ~HasLock(k, at)

Acquired(k, w, at, until) ==
    [l \in LockKey |-> IF l = k THEN [owner |-> w, expires |-> until]
                       ELSE IF Expired(lock[l], at) THEN None ELSE lock[l]]

\* Fault: renewal and release match the key alone.
OwnsLeaseByKey(w) == lock[LeaderKey] # None

\* renew_scheduler_lock and release_scheduler_lock_owned match key and owner
OwnsLease(w) == lock[LeaderKey] # None /\ lock[LeaderKey].owner = w

JobLockLife(j) == IF JobSpec[j].tolerance > MinJobLock THEN JobSpec[j].tolerance ELSE MinJobLock

\* Fault: the cutoff forgets to subtract the retention.
PurgeUpToNow(retention) ==
    /\ run' = [k \in Key |-> IF run[k] # None /\ run[k].created < now THEN None ELSE run[k]]
    /\ lock' = [l \in LockKey |-> IF Expired(lock[l], now) THEN None ELSE lock[l]]

\* Fault: cleanup empties the lock table.
PurgeEveryLock(retention) ==
    /\ run' = [k \in Key |-> IF run[k] # None /\ run[k].created < now - retention
                             THEN None ELSE run[k]]
    /\ lock' = [l \in LockKey |-> None]

\* purge_operational_data_older_than, for the scheduler's tables
Purge(retention) ==
    LET cutoff == now - retention
    IN  /\ run' = [k \in Key |-> IF run[k] # None /\ run[k].created < cutoff
                                 THEN None ELSE run[k]]
        /\ lock' = [l \in LockKey |-> IF Expired(lock[l], cutoff) THEN None ELSE lock[l]]

-----------------------------------------------------------------------------
(* The calls: run_loop, run_due and run_job. *)

\* Fault: the tolerance is not looked at.
DueKeysOfAnyAge(t) == {k \in Key : k.mode = "due" /\ k.at <= t}

DueKeys(t) == {k \in Key : k.mode = "due" /\ DueNow(k.job, k.at, t)}

\* A call's as_of is the clock or an earlier --as-of.
Begin(w, t) ==
    /\ pc[w] = "idle"
    /\ t <= now /\ now - t <= MaxBackdate
    /\ asOf' = [asOf EXCEPT ![w] = t]
    /\ UNCHANGED <<now, tables, key, history>>

BeginLoop(w, t) ==
    /\ Begin(w, t)
    /\ loop' = [loop EXCEPT ![w] = TRUE]
    /\ \E d \in DryRuns : dry' = [dry EXCEPT ![w] = d]
    /\ since' = [since EXCEPT ![w] = now]
    /\ pc' = [pc EXCEPT ![w] = "acquire_leader"]
    /\ UNCHANGED todo

\* run_due outside a loop takes no lease (a dry one touches nothing at all).
BeginRunDue(w, t) ==
    /\ Begin(w, t)
    /\ todo' = [todo EXCEPT ![w] = DueKeys(t)]
    /\ pc' = [pc EXCEPT ![w] = "next"]
    /\ UNCHANGED <<loop, dry, since>>

\* run_job forces one job, due or not; its key is the as_of of the call.
BeginRunJob(w, t, j) ==
    /\ t \in ForcedAt /\ JobSpec[j].enabled
    /\ Begin(w, t)
    /\ todo' = [todo EXCEPT ![w] = {[job |-> j, mode |-> "manual", at |-> t]}]
    /\ pc' = [pc EXCEPT ![w] = "next"]
    /\ UNCHANGED <<loop, dry, since>>

\* The call is over, and with it all the worker knew.
Return(w) ==
    /\ pc' = [pc EXCEPT ![w] = "idle"]
    /\ loop' = [loop EXCEPT ![w] = FALSE]
    /\ dry' = [dry EXCEPT ![w] = FALSE]
    /\ asOf' = [asOf EXCEPT ![w] = None]
    /\ todo' = [todo EXCEPT ![w] = {}]
    /\ key' = [key EXCEPT ![w] = None]
    /\ since' = [since EXCEPT ![w] = None]
    /\ leaseUntil' = [leaseUntil EXCEPT ![w] = None]

Goto(w, next) ==
    /\ pc' = [pc EXCEPT ![w] = next]
    /\ UNCHANGED call

\* datetime.now(UTC), read at some moment since the last step and used now
ClockReading(w, at) == since[w] <= at /\ at <= now

AcquireLeader(w) ==
    /\ pc[w] = "acquire_leader"
    /\ \/ \E at \in Instants :
            /\ ClockReading(w, at)
            /\ CanAcquire(LeaderKey, at)
            /\ lock' = Acquired(LeaderKey, w, at, at + LeaderLease)
            /\ leaseUntil' = [leaseUntil EXCEPT ![w] = at + LeaderLease]
            /\ since' = [since EXCEPT ![w] = now]
            /\ Goto(w, "renew")
            /\ UNCHANGED <<todo, key>>
       \/ /\ \E at \in Instants : ClockReading(w, at) /\ ~CanAcquire(LeaderKey, at)
          /\ Return(w)
          /\ UNCHANGED lock
    /\ UNCHANGED <<now, run, starts>>

\* An iteration renews the lease, then plans; a lost lease ends the loop.
RenewAndPlan(w) ==
    /\ pc[w] = "renew"
    /\ \/ \E at \in Instants :
            /\ ClockReading(w, at)
            /\ OwnsLease(w)
            /\ lock' = [lock EXCEPT ![LeaderKey] = [owner |-> w, expires |-> at + LeaderLease]]
            /\ leaseUntil' = [leaseUntil EXCEPT ![w] = at + LeaderLease]
            /\ todo' = [todo EXCEPT ![w] = IF dry[w] THEN {} ELSE DueKeys(asOf[w])]
            /\ Goto(w, "next")
       \/ /\ ~OwnsLease(w)
          /\ Goto(w, "release")
          /\ UNCHANGED <<lock, leaseUntil, todo>>
    /\ since' = [since EXCEPT ![w] = None]
    /\ UNCHANGED <<now, run, key, starts>>

\* The end of run_due: a loop sleeps (within MaxLag) or has had its iterations.
EndRunDue(w) ==
    /\ pc[w] = "next" /\ todo[w] = {}
    /\ \/ /\ loop[w]
          /\ now + Poll - asOf[w] <= MaxLag
          /\ Goto(w, "sleep")
          /\ since' = [since EXCEPT ![w] = now]
          /\ UNCHANGED <<todo, key, leaseUntil>>
       \/ loop[w] /\ Goto(w, "release") /\ UNCHANGED <<todo, key, since, leaseUntil>>
       \/ ~loop[w] /\ Return(w)
    /\ UNCHANGED <<now, tables, starts>>

\* The as_of of the next iteration is one poll later, whatever the clock says.
Wake(w) ==
    /\ pc[w] = "sleep"
    /\ now >= since[w] + Poll
    /\ asOf' = [asOf EXCEPT ![w] = @ + Poll]
    /\ pc' = [pc EXCEPT ![w] = "renew"]
    /\ since' = [since EXCEPT ![w] = now]
    /\ UNCHANGED <<now, tables, loop, dry, todo, key, history>>

ReleaseLeader(w) ==
    /\ pc[w] = "release"
    /\ lock' = IF OwnsLease(w) THEN [lock EXCEPT ![LeaderKey] = None] ELSE lock
    /\ Return(w)
    /\ UNCHANGED <<now, run, starts>>

-----------------------------------------------------------------------------
(* _run_snapshot: one execution key. *)

\* Look the key up: locked and duplicate leave it, anything else goes for
\* the job lock (a running row whose lock has lapsed included).
CheckHistory(w) ==
    /\ pc[w] = "next"
    /\ \E k \in todo[w] :
         /\ \A l \in todo[w] \ {k} : PlannedBefore(k.job, l.job, asOf[w])
         /\ todo' = [todo EXCEPT ![w] = @ \ {k}]
         /\ IF \/ run[k] = None
               \/ run[k].status = "running" /\ ~HasLock(k, asOf[w])
            THEN /\ key' = [key EXCEPT ![w] = k]
                 /\ since' = [since EXCEPT ![w] = now]
                 /\ pc' = [pc EXCEPT ![w] = "acquire_job"]
            ELSE UNCHANGED <<key, since, pc>>
    /\ UNCHANGED <<now, tables, call, history>>

\* Fault: the loop variable of the last snapshot survives.
NextJobKeepingKey(w) ==
    /\ Goto(w, "next")
    /\ since' = [since EXCEPT ![w] = None]
    /\ UNCHANGED key

\* _run_snapshot returns to run_due's list.
NextJob(w) ==
    /\ Goto(w, "next")
    /\ key' = [key EXCEPT ![w] = None]
    /\ since' = [since EXCEPT ![w] = None]

AcquireJob(w) ==
    /\ pc[w] = "acquire_job"
    /\ \E at \in Instants :
         /\ ClockReading(w, at)
         /\ IF CanAcquire(key[w], at)
            THEN /\ lock' = Acquired(key[w], w, at, at + JobLockLife(key[w].job))
                 /\ since' = [since EXCEPT ![w] = at]
                 /\ Goto(w, "start_run")
                 /\ UNCHANGED key
            ELSE /\ NextJob(w)
                 /\ UNCHANGED lock
    /\ UNCHANGED <<now, run, todo, history>>

\* Fault: the insert is an upsert.
StartRunUpserting(w) ==
    /\ pc[w] = "start_run"
    /\ run' = [run EXCEPT ![key[w]] = [status |-> "running", created |-> since[w]]]
    /\ starts' = [starts EXCEPT ![key[w]] = @ + 1]
    /\ Goto(w, "execute")
    /\ since' = [since EXCEPT ![w] = None]
    /\ UNCHANGED <<now, lock, todo, key, leaseUntil>>

\* Fault: a running row is taken over, as its lock has lapsed.
StartRunTakingOver(w) ==
    /\ pc[w] = "start_run"
    /\ IF run[key[w]] = None \/ run[key[w]].status = "running"
       THEN /\ run' = [run EXCEPT ![key[w]] =
                         [status |-> "running", created |-> since[w]]]
            /\ starts' = [starts EXCEPT ![key[w]] = @ + 1]
            /\ Goto(w, "execute")
       ELSE /\ Goto(w, "unlock")
            /\ UNCHANGED <<run, starts>>
    /\ since' = [since EXCEPT ![w] = None]
    /\ UNCHANGED <<now, lock, todo, key, leaseUntil>>

\* start_scheduler_run: the unique idempotency key decides who executes.
StartRun(w) ==
    /\ pc[w] = "start_run"
    /\ IF run[key[w]] = None
       THEN /\ run' = [run EXCEPT ![key[w]] =
                         [status |-> "running", created |-> since[w]]]
            /\ starts' = [starts EXCEPT ![key[w]] = @ + 1]
            /\ Goto(w, "execute")
       ELSE /\ Goto(w, "unlock")
            /\ UNCHANGED <<run, starts>>
    /\ since' = [since EXCEPT ![w] = None]
    /\ UNCHANGED <<now, lock, todo, key, leaseUntil>>

\* _execute_command: of all commands only cleanup touches these tables.
Execute(w) ==
    /\ pc[w] = "execute"
    /\ \/ /\ JobSpec[key[w].job].cleanup
          /\ \E r \in Retentions : Purge(r)
       \/ UNCHANGED tables
    /\ Goto(w, "finish")
    /\ UNCHANGED <<now, todo, key, since, history>>

\* Fault: the result is not written back.
FinishRunUnsaved(w) ==
    /\ pc[w] = "finish"
    /\ Goto(w, "unlock")
    /\ UNCHANGED <<now, tables, todo, key, since, history>>

\* finish_scheduler_run finds the row by key; a purged row is left alone.
FinishRun(w) ==
    /\ pc[w] = "finish"
    /\ \E status \in Outcomes :
         run' = IF run[key[w]] = None THEN run
                ELSE [run EXCEPT ![key[w]].status = status]
    /\ Goto(w, "unlock")
    /\ UNCHANGED <<now, lock, todo, key, since, history>>

\* release_scheduler_lock deletes by key alone, whoever holds it.
Unlock(w) ==
    /\ pc[w] = "unlock"
    /\ lock' = [lock EXCEPT ![key[w]] = None]
    /\ NextJob(w)
    /\ UNCHANGED <<now, run, todo, history>>

-----------------------------------------------------------------------------
(* The environment. *)

\* The process dies: its rows and locks stay.
Crash(w) ==
    /\ w \in FaultProne /\ pc[w] # "idle"
    /\ Return(w)
    /\ UNCHANGED <<now, tables, starts>>

\* A repository call raises.  run_loop's finally still releases the lease; a
\* failed finish leaves the row running, and its finally may drop the lock.
DbError(w) ==
    /\ w \in FaultProne
    /\ pc[w] \in {"renew", "next", "acquire_job", "start_run", "finish", "unlock"}
    /\ \/ UNCHANGED lock
       \/ pc[w] = "finish" /\ lock' = [lock EXCEPT ![key[w]] = None]
    /\ \/ /\ loop[w]
          /\ Goto(w, "release")
          /\ todo' = [todo EXCEPT ![w] = {}]
          /\ key' = [key EXCEPT ![w] = None]
          /\ since' = [since EXCEPT ![w] = None]
          /\ UNCHANGED leaseUntil
       \/ ~loop[w] /\ Return(w)
    /\ UNCHANGED <<now, run, starts>>

\* Cleanup called through the API or the command line.
AdminCleanup ==
    /\ \E r \in Retentions : Purge(r)
    /\ UNCHANGED <<now, pc, call, todo, key, since, history>>

\* MaxLag bounds the model: a call trailing further behind has been killed.
Tick ==
    /\ now + 1 \in Instants
    /\ \A w \in Workers : pc[w] # "idle" => now + 1 - asOf[w] <= MaxLag
    /\ now' = now + 1
    /\ UNCHANGED <<tables, pc, call, todo, key, since, history>>

\* What a worker does once it has been called.
Step(w) ==
    \/ AcquireLeader(w) \/ RenewAndPlan(w) \/ EndRunDue(w) \/ Wake(w) \/ ReleaseLeader(w)
    \/ CheckHistory(w) \/ AcquireJob(w) \/ StartRun(w) \/ Execute(w)
    \/ FinishRun(w) \/ Unlock(w)

Invoke(w) ==
    \E t \in Instants :
        \/ BeginLoop(w, t) \/ BeginRunDue(w, t)
        \/ \E j \in Jobs : BeginRunJob(w, t, j)

Next ==
    \/ \E w \in Workers : Invoke(w) \/ Step(w) \/ Crash(w) \/ DbError(w)
    \/ AdminCleanup
    \/ Tick

Spec == Init /\ [][Next]_vars
\* A called worker proceeds, the clock advances, and a worker that never fails
\* is started in a loop time and again (Task Scheduler and cron start one every
\* minute; strong fairness, as it may be called otherwise in between).
Fairness ==
    /\ \A w \in Workers : WF_vars(Step(w))
    /\ WF_vars(Tick)
    /\ \A w \in Workers \ FaultProne : SF_vars(\E t \in Instants : BeginLoop(w, t))

LiveSpec == Spec /\ Fairness

-----------------------------------------------------------------------------
(* Properties. *)

Pc == {"idle", "acquire_leader", "renew", "next", "sleep", "release", "acquire_job",
       "start_run", "execute", "finish", "unlock"}

\* The types of the variables, and which of them are set where: a key is in
\* hand exactly while _run_snapshot works on it, and only a call is a loop.
TypeOK ==
    /\ now \in Instants
    /\ lock \in [LockKey -> LockRow \cup {None}]
    /\ run \in [Key -> RunRow \cup {None}]
    /\ pc \in [Workers -> Pc]
    /\ loop \in [Workers -> BOOLEAN]
    /\ dry \in [Workers -> BOOLEAN]
    /\ asOf \in [Workers -> Int \cup {None}]
    /\ todo \in [Workers -> SUBSET Key]
    /\ key \in [Workers -> Key \cup {None}]
    /\ since \in [Workers -> Int \cup {None}]
    /\ leaseUntil \in [Workers -> Int \cup {None}]
    /\ starts \in [Key -> Nat]
    /\ \A w \in Workers :
         /\ (key[w] # None) <=> pc[w] \in {"acquire_job", "start_run", "execute", "finish", "unlock"}
         /\ pc[w] = "idle" => ~loop[w]

\* Worker w has been told it leads: acquire_scheduler_lock said yes.
Leading(w) == loop[w] /\ pc[w] \notin {"idle", "acquire_leader"}

\* Worker w executes the command of an execution key.
Executing(w) == pc[w] \in {"execute", "finish"}

\* A leader whose lease has not run out by its own account is the leader of
\* record: no other worker's acquire, renewal, release or cleanup takes the
\* lease from under it (acquire_scheduler_lock, renew_scheduler_lock,
\* release_scheduler_lock_owned, purge_operational_data_older_than).
LeaseHolds ==
    \A w \in Workers :
        Leading(w) /\ now <= leaseUntil[w]
            => lock[LeaderKey] = [owner |-> w, expires |-> leaseUntil[w]]

\* No execution key is executed by two workers at once, even after the job
\* lock has lapsed or another worker has deleted it (release_scheduler_lock
\* matches the key alone): the history row is what excludes.
SoleRunner ==
    \A v, w \in Workers : Executing(v) /\ Executing(w) /\ key[v] = key[w] => v = w

\* Due runs are idempotent per occurrence: an execution key is started at most
\* once, whatever crashes, lapsed locks and cleanups come between.
StartsOnce == \A k \in Key : starts[k] <= 1

\* An unexpired lease ends or changes hands only by a step of its owner.
LiveLeaseKept ==
    [][\A w \in Workers :
         OwnsLease(w) /\ lock[LeaderKey].expires >= now /\ lock'[LeaderKey] # lock[LeaderKey]
             => pc[w] # pc'[w]]_vars

\* A run begun by a worker that does not fail leaves the running state
\* (finish_scheduler_run), however many others race for its key.
RunsSettle ==
    \A w \in Workers \ FaultProne, k \in Key :
        Executing(w) /\ key[w] = k ~> run[k] = None \/ run[k].status # "running"

\* The lease of a process that is no longer there does not outlive its expiry:
\* the next loop that is started takes it over (as far as time is modelled).
DeadLease(w, until) ==
    /\ pc[w] = "idle"
    /\ lock[LeaderKey] = [owner |-> w, expires |-> until]

LeaseRecovers ==
    \A w \in Workers, t \in Instants :
        t + 1 \in Instants => (DeadLease(w, t) ~> ~DeadLease(w, t))

\* One scheduler instance works at a time: no two loops are past their lease
\* renewal and in run_due together.
SingleActive ==
    \A v, w \in Workers :
        /\ Leading(v) /\ pc[v] \notin {"renew", "sleep", "release"}
        /\ Leading(w) /\ pc[w] \notin {"renew", "sleep", "release"}
        => v = w
=============================================================================
