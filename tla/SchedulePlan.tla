---------------------------- MODULE SchedulePlan ----------------------------
(***************************************************************************)
(* The calendar arithmetic of the scheduler: which occurrence of a job is  *)
(* the latest one, which is the next one, and whether the latest one is    *)
(* still due.  Time is an integer number of ticks (minutes of the          *)
(* scheduler's time zone in the code); day 0 is a Monday.                  *)
(***************************************************************************)
EXTENDS Integers, FiniteSets

CONSTANTS
    Day,        \* ticks in a day (1440 minutes in the code)
    JobSpec,    \* job -> its ScheduledJobSpec; jobs are numbered in job_id order
    None        \* the absent value (Python's None)

Jobs == DOMAIN JobSpec

ASSUME DayAssumption == Day \in Nat \ {0}

ASSUME JobSpecAssumption ==
    /\ Jobs \subseteq Nat
    /\ \A j \in Jobs :
         /\ JobSpec[j].minute \in 0 .. Day - 1
         /\ JobSpec[j].weekdays \in (SUBSET (0 .. 6)) \ {{}}
         /\ JobSpec[j].tolerance \in Nat
         /\ JobSpec[j].enabled \in BOOLEAN
         /\ JobSpec[j].cleanup \in BOOLEAN

DayOf(t) == t \div Day

\* datetime.combine(day, time(hour, minute)) of a job
ScheduledOn(j, d) == d * Day + JobSpec[j].minute

\* The days a job runs on, among the days given.
RunDays(j, days) == {d \in days : d % 7 \in JobSpec[j].weekdays}

\* The last scheduled instant not after t, looking eight days back.
LatestScheduledAt(j, t) ==
    LET past == {d \in RunDays(j, DayOf(t) - 7 .. DayOf(t)) : ScheduledOn(j, d) <= t}
    IN  IF past = {} THEN None
        ELSE ScheduledOn(j, CHOOSE d \in past : \A e \in past : e <= d)

\* The first scheduled instant after t, looking fifteen days ahead.
NextScheduledAt(j, t) ==
    LET ahead == {d \in RunDays(j, DayOf(t) .. DayOf(t) + 14) : ScheduledOn(j, d) > t}
    IN  IF ahead = {} THEN None
        ELSE ScheduledOn(j, CHOOSE d \in ahead : \A e \in ahead : d <= e)

\* due_now of the snapshot of job j at t, for the occurrence scheduled at s.
DueNow(j, s, t) ==
    /\ JobSpec[j].enabled
    /\ s = LatestScheduledAt(j, t)
    /\ s <= t
    /\ t - s < JobSpec[j].tolerance

\* The order of SchedulePlan.jobs: by next run, then by job id.
PlannedBefore(i, j, t) ==
    \/ NextScheduledAt(i, t) < NextScheduledAt(j, t)
    \/ NextScheduledAt(i, t) = NextScheduledAt(j, t) /\ i < j
=============================================================================
