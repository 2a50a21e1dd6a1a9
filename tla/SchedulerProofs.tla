--------------------------- MODULE SchedulerProofs ---------------------------
(***************************************************************************)
(* Machine-checked proofs about Scheduler, for any set of workers, jobs,   *)
(* instants and retentions that satisfies the assumptions.                 *)
(***************************************************************************)
EXTENDS SchedulerRefinement, WellFoundedInduction, TLAPS

-----------------------------------------------------------------------------
(* The calendar: the last and the next occurrence of a job. *)

\* The last of some days that all lie in an interval.
LEMMA LastDayOf ==
    ASSUME NEW a \in Int, NEW b \in Int, NEW days \in SUBSET (a .. b), days # {}
    PROVE  \E x \in days : \A y \in days : y <= x
<1> DEFINE less == {ss \in Nat \X Nat : ss[1] < ss[2]}
           back == {n \in Nat : b - n \in days}
<1>1. IsWellFoundedOn(less, Nat)
  BY NatLessThanWellFounded DEF OpToRel
<1>2. back \subseteq Nat /\ back # {}
  <2>1. PICK d \in days : TRUE
    OBVIOUS
  <2>2. b - d \in Nat /\ b - (b - d) \in days
    BY <2>1
  <2> QED
    BY <2>2
<1>3. PICK n \in back : \A m \in back : <<m, n>> \notin less
  <2> HIDE DEF less, back
  <2> QED
    BY <1>1, <1>2, WFMin
<1>4. ASSUME NEW y \in days PROVE y <= b - n
  <2>1. b - y \in back
    OBVIOUS
  <2>2. <<b - y, n>> \notin less /\ b - y \in Nat /\ n \in Nat
    BY <1>3, <2>1
  <2> QED
    BY <2>2
<1> QED
  BY <1>3, <1>4

\* And the first.
LEMMA FirstDayOf ==
    ASSUME NEW a \in Int, NEW b \in Int, NEW days \in SUBSET (a .. b), days # {}
    PROVE  \E x \in days : \A y \in days : x <= y
<1> DEFINE less == {ss \in Nat \X Nat : ss[1] < ss[2]}
           ahead == {n \in Nat : a + n \in days}
<1>1. IsWellFoundedOn(less, Nat)
  BY NatLessThanWellFounded DEF OpToRel
<1>2. ahead \subseteq Nat /\ ahead # {}
  <2>1. PICK d \in days : TRUE
    OBVIOUS
  <2>2. d - a \in Nat /\ a + (d - a) \in days
    BY <2>1
  <2> QED
    BY <2>2
<1>3. PICK n \in ahead : \A m \in ahead : <<m, n>> \notin less
  <2> HIDE DEF less, ahead
  <2> QED
    BY <1>1, <1>2, WFMin
<1>4. ASSUME NEW y \in days PROVE a + n <= y
  <2>1. y - a \in ahead
    OBVIOUS
  <2>2. <<y - a, n>> \notin less /\ y - a \in Nat /\ n \in Nat
    BY <1>3, <2>1
  <2> QED
    BY <2>2
<1> QED
  BY <1>3, <1>4

\* An instant lies in its day.
LEMMA DayIs ==
    ASSUME NEW t \in Int
    PROVE  DayOf(t) \in Int /\ DayOf(t) * Day <= t /\ t < DayOf(t) * Day + Day
BY DayAssumption DEF DayOf

\* A later day is at least a day's ticks later.
LEMMA DaysApart ==
    ASSUME NEW d \in Int, NEW e \in Int, d < e
    PROVE  d * Day + Day <= e * Day
<1>1. PICK n \in Nat : e = d + 1 + n
  <2>1. e - (d + 1) \in Nat /\ e = d + 1 + (e - (d + 1))
    OBVIOUS
  <2> QED
    BY <2>1
<1>2. Day \in Nat /\ n * Day \in Nat
  BY DayAssumption
<1>3. e * Day = d * Day + Day + n * Day
  BY <1>1, <1>2
<1> QED
  BY <1>2, <1>3

\* A scheduled instant lies in its day, and is a day or more before that of any later day.
LEMMA ScheduledIs ==
    ASSUME NEW j \in Jobs, NEW d \in Int
    PROVE  /\ ScheduledOn(j, d) \in Int
           /\ d * Day <= ScheduledOn(j, d) /\ ScheduledOn(j, d) < d * Day + Day
           /\ \A e \in Int : d < e => ScheduledOn(j, d) + Day <= ScheduledOn(j, e)
<1>1. JobSpec[j].minute \in 0 .. Day - 1 /\ Day \in Nat /\ d * Day \in Int
  BY JobSpecAssumption, DayAssumption
<1>2. ASSUME NEW e \in Int, d < e PROVE ScheduledOn(j, d) + Day <= ScheduledOn(j, e)
  <2>1. d * Day + Day <= e * Day /\ e * Day \in Int
    BY <1>1, <1>2, DaysApart
  <2> QED
    BY <1>1, <2>1 DEF ScheduledOn
<1> QED
  BY <1>1, <1>2 DEF ScheduledOn

\* Every weekday is among any seven days that follow each other.
LEMMA WeekHasAll ==
    ASSUME NEW first \in Int, NEW w \in 0 .. 6
    PROVE  \E d \in first .. first + 6 : d % 7 = w
<1>1. PICK r \in 0 .. 6 : r = (w - first) % 7
  OBVIOUS
<1>2. PICK q \in Int : w - first = 7 * q + r
  <2>1. w - first = (7 * ((w - first) \div 7)) + ((w - first) % 7)
    OBVIOUS
  <2>2. (w - first) \div 7 \in Int
    OBVIOUS
  <2> QED
    BY <1>1, <2>1, <2>2
<1>3. (first + r) % 7 = w
  <2>1. first + r = 7 * (0 - q) + w
    BY <1>2
  <2> QED
    BY <2>1
<1> QED
  BY <1>3

\* Every day a job is scheduled on, before or after an instant.
Scheduled(j) == {d \in Int : d % 7 \in JobSpec[j].weekdays}

\* The eight days the code looks back always hold an occurrence, and it is the last of all that
\* are not after the instant (_latest_scheduled_at).
THEOREM LatestOccurrence ==
    ASSUME NEW j \in Jobs, NEW t \in Int
    PROVE  \E d \in Scheduled(j) :
              /\ LatestScheduledAt(j, t) = ScheduledOn(j, d) /\ ScheduledOn(j, d) <= t
              /\ \A e \in Scheduled(j) : ScheduledOn(j, e) <= t => e <= d
<1> PICK today \in Int : today = DayOf(t) /\ today * Day <= t /\ t < today * Day + Day
  BY DayIs
<1> DEFINE past == {d \in RunDays(j, today - 7 .. today) : ScheduledOn(j, d) <= t}
<1>1. past \in SUBSET (today - 7 .. today)
  BY DEF RunDays
<1>2. PICK before \in today - 7 .. today - 1 : before % 7 \in JobSpec[j].weekdays
  <2>1. PICK w \in 0 .. 6 : w \in JobSpec[j].weekdays
    BY JobSpecAssumption
  <2>2. \E d \in today - 7 .. (today - 7) + 6 : d % 7 = w
    <3>1. PICK first \in Int : first = today - 7
      OBVIOUS
    <3> QED
      BY <3>1, WeekHasAll
  <2> QED
    BY <2>1, <2>2
<1>3. ScheduledOn(j, before) <= t
  <2>1. before \in Int /\ before < today /\ Day \in Nat /\ today * Day \in Int
    BY <1>2, DayAssumption
  <2>2. before * Day + Day <= today * Day /\ before * Day \in Int
    BY <2>1, DaysApart
  <2>3. ScheduledOn(j, before) < before * Day + Day /\ ScheduledOn(j, before) \in Int
    BY <2>1, ScheduledIs
  <2> QED
    BY <2>1, <2>2, <2>3
<1>4. before \in past
  BY <1>2, <1>3 DEF RunDays
<1>5. PICK d \in past : \A e \in past : e <= d
  <2> HIDE DEF past
  <2> QED
    BY <1>1, <1>4, LastDayOf
<1>6. \A e \in past : e \in Int
  <2> HIDE DEF past
  <2> QED
    BY <1>1
<1>7. (CHOOSE x \in past : \A e \in past : e <= x) = d
  <2> HIDE DEF past
  <2> PICK found : found = CHOOSE x \in past : \A e \in past : e <= x
    OBVIOUS
  <2>1. found \in past /\ \A e \in past : e <= found
    BY <1>5
  <2>2. found <= d /\ d <= found /\ found \in Int /\ d \in Int
    BY <1>5, <1>6, <2>1
  <2> QED
    BY <2>2
<1>8. LatestScheduledAt(j, t) = ScheduledOn(j, d)
  BY <1>4, <1>7 DEF LatestScheduledAt
<1>9. ASSUME NEW e \in Scheduled(j), ScheduledOn(j, e) <= t PROVE e <= d
  <2>1. e \in Int /\ d \in Int /\ before \in Int /\ before <= d /\ today - 7 <= before
    <3> HIDE DEF past
    <3> QED
      BY <1>2, <1>4, <1>5, <1>6 DEF Scheduled
  <2>2. CASE e < today - 7
    BY <2>1, <2>2
  <2>3. CASE today < e
    <3>1. today * Day + Day <= e * Day /\ e * Day <= ScheduledOn(j, e)
      BY <2>1, <2>3, DaysApart, ScheduledIs
    <3>2. today * Day \in Int /\ e * Day \in Int /\ Day \in Nat /\ ScheduledOn(j, e) \in Int
      <4>1. e \in Int /\ today \in Int /\ Day \in Nat
        BY <2>1, DayAssumption
      <4>2. today * Day \in Int /\ e * Day \in Int
        BY <4>1
      <4>3. ScheduledOn(j, e) \in Int
        BY <4>1, ScheduledIs
      <4> QED
        BY <4>1, <4>2, <4>3
    <3> QED
      BY <1>9, <3>1, <3>2
  <2>4. CASE e \in today - 7 .. today
    <3>1. e \in past
      BY <1>9, <2>4 DEF RunDays, Scheduled
    <3> QED
      BY <1>5, <3>1
  <2> QED
    BY <2>1, <2>2, <2>3, <2>4
<1>10. d \in Scheduled(j) /\ ScheduledOn(j, d) <= t
  BY <1>6 DEF Scheduled, RunDays
<1> QED
  BY <1>8, <1>9, <1>10

\* What an occurrence due now is: at its own instant or later, with no other in between, for less
\* than the tolerance (_snapshot_for_job).
LEMMA DueIs ==
    ASSUME NEW j \in Jobs, JobSpec[j].enabled, NEW d \in Scheduled(j), NEW t \in Int,
           ScheduledOn(j, d) <= t, t - ScheduledOn(j, d) < JobSpec[j].tolerance,
           \A e \in Scheduled(j) : ScheduledOn(j, e) <= t => e <= d
    PROVE  DueNow(j, ScheduledOn(j, d), t)
<1>1. PICK last \in Scheduled(j) :
           /\ LatestScheduledAt(j, t) = ScheduledOn(j, last) /\ ScheduledOn(j, last) <= t
           /\ \A e \in Scheduled(j) : ScheduledOn(j, e) <= t => e <= last
  BY LatestOccurrence
<1>2. last <= d /\ d <= last /\ last \in Int /\ d \in Int
  BY <1>1 DEF Scheduled
<1> QED
  BY <1>1, <1>2 DEF DueNow

\* Polls that are no further apart than a job's tolerance, which is a day at most, miss no occurrence
\* of it: the first poll from then on finds it due.
THEOREM NoneMissed ==
    ASSUME NEW j \in Jobs, JobSpec[j].enabled, JobSpec[j].tolerance <= Day,
           NEW d \in Scheduled(j), NEW before \in Int, NEW poll \in Int,
           before < ScheduledOn(j, d), ScheduledOn(j, d) <= poll, poll - before <= JobSpec[j].tolerance
    PROVE  DueNow(j, ScheduledOn(j, d), poll)
<1>1. /\ d \in Int /\ ScheduledOn(j, d) \in Int /\ JobSpec[j].tolerance \in Nat /\ Day \in Nat
  BY JobSpecAssumption, DayAssumption, ScheduledIs DEF Scheduled
<1>2. poll - ScheduledOn(j, d) < JobSpec[j].tolerance
  BY <1>1
<1>3. ASSUME NEW e \in Scheduled(j), ScheduledOn(j, e) <= poll PROVE e <= d
  <2>1. e \in Int
    BY DEF Scheduled
  <2>2. ScheduledOn(j, e) \in Int
    BY <2>1, ScheduledIs
  <2>3. CASE d < e
    <3>1. ScheduledOn(j, d) + Day <= ScheduledOn(j, e)
      BY <1>1, <2>1, <2>3, ScheduledIs
    <3> QED
      BY <1>1, <1>2, <1>3, <2>2, <3>1
  <2> QED
    BY <1>1, <2>1, <2>3
<1> QED
  BY <1>2, <1>3, DueIs

\* The fifteen days the code looks ahead always hold an occurrence, and it is the first of all that
\* are after the instant (_next_scheduled_at).
THEOREM NextOccurrence ==
    ASSUME NEW j \in Jobs, NEW t \in Int
    PROVE  \E d \in Scheduled(j) :
              /\ NextScheduledAt(j, t) = ScheduledOn(j, d) /\ t < ScheduledOn(j, d)
              /\ \A e \in Scheduled(j) : t < ScheduledOn(j, e) => d <= e
<1> PICK today \in Int : today = DayOf(t) /\ today * Day <= t /\ t < today * Day + Day
  BY DayIs
<1> DEFINE ahead == {d \in RunDays(j, today .. today + 14) : ScheduledOn(j, d) > t}
<1>1. ahead \in SUBSET (today .. today + 14)
  BY DEF RunDays
<1>2. PICK later \in today + 1 .. today + 7 : later % 7 \in JobSpec[j].weekdays
  <2>1. PICK w \in 0 .. 6 : w \in JobSpec[j].weekdays
    BY JobSpecAssumption
  <2>2. \E d \in today + 1 .. (today + 1) + 6 : d % 7 = w
    <3>1. PICK first \in Int : first = today + 1
      OBVIOUS
    <3> QED
      BY <3>1, WeekHasAll
  <2> QED
    BY <2>1, <2>2
<1>3. t < ScheduledOn(j, later)
  <2>1. later \in Int /\ today < later /\ Day \in Nat /\ today * Day \in Int
    BY <1>2, DayAssumption
  <2>2. today * Day + Day <= later * Day /\ later * Day \in Int
    BY <2>1, DaysApart
  <2>3. later * Day <= ScheduledOn(j, later) /\ ScheduledOn(j, later) \in Int
    BY <2>1, ScheduledIs
  <2> QED
    BY <2>1, <2>2, <2>3
<1>4. later \in ahead
  <2>1. ScheduledOn(j, later) \in Int
    BY <1>2, ScheduledIs
  <2> QED
    BY <1>2, <1>3, <2>1 DEF RunDays
<1>5. PICK d \in ahead : \A e \in ahead : d <= e
  <2> HIDE DEF ahead
  <2> QED
    BY <1>1, <1>4, FirstDayOf
<1>6. \A e \in ahead : e \in Int
  <2> HIDE DEF ahead
  <2> QED
    BY <1>1
<1>7. (CHOOSE x \in ahead : \A e \in ahead : x <= e) = d
  <2> HIDE DEF ahead
  <2> PICK found : found = CHOOSE x \in ahead : \A e \in ahead : x <= e
    OBVIOUS
  <2>1. found \in ahead /\ \A e \in ahead : found <= e
    BY <1>5
  <2>2. found <= d /\ d <= found /\ found \in Int /\ d \in Int
    BY <1>5, <1>6, <2>1
  <2> QED
    BY <2>2
<1>8. NextScheduledAt(j, t) = ScheduledOn(j, d)
  BY <1>4, <1>7 DEF NextScheduledAt
<1>9. ASSUME NEW e \in Scheduled(j), t < ScheduledOn(j, e) PROVE d <= e
  <2>1. e \in Int /\ d \in Int /\ later \in Int /\ d <= later /\ later <= today + 7
    <3> HIDE DEF ahead
    <3> QED
      BY <1>2, <1>4, <1>5, <1>6 DEF Scheduled
  <2>2. CASE e < today
    <3>1. e * Day + Day <= today * Day /\ ScheduledOn(j, e) < e * Day + Day
      BY <2>1, <2>2, DaysApart, ScheduledIs
    <3>2. today * Day \in Int /\ e * Day \in Int /\ Day \in Nat /\ ScheduledOn(j, e) \in Int
      <4>1. e \in Int /\ today \in Int /\ Day \in Nat
        BY <2>1, DayAssumption
      <4>2. today * Day \in Int /\ e * Day \in Int
        BY <4>1
      <4>3. ScheduledOn(j, e) \in Int
        BY <4>1, ScheduledIs
      <4> QED
        BY <4>1, <4>2, <4>3
    <3> QED
      BY <1>9, <3>1, <3>2
  <2>3. CASE today + 14 < e
    BY <2>1, <2>3
  <2>4. CASE e \in today .. today + 14
    <3>1. e \in ahead
      <4>1. ScheduledOn(j, e) \in Int
        BY <2>1, ScheduledIs
      <4> QED
        BY <1>9, <2>4, <4>1 DEF RunDays, Scheduled
    <3> QED
      BY <1>5, <3>1
  <2> QED
    BY <2>1, <2>2, <2>3, <2>4
<1>10. d \in Scheduled(j) /\ t < ScheduledOn(j, d)
  <2>1. ScheduledOn(j, d) \in Int
    BY <1>6, ScheduledIs
  <2> QED
    BY <1>6, <2>1 DEF Scheduled, RunDays
<1> QED
  BY <1>8, <1>9, <1>10

-----------------------------------------------------------------------------
(* The steps. *)

USE DEF Jobs, LockKey, LockRow, RunRow

-----------------------------------------------------------------------------
(* Facts about the data. *)

\* An execution key has a job, an instant and a lock that is not the leader's.
LEMMA KeyFacts ==
    ASSUME NEW k \in Key
    PROVE  /\ k.job \in Jobs /\ k.at \in Int
           /\ JobSpec[k.job].tolerance \in Nat
           /\ JobLockLife(k.job) \in Nat
           /\ Window(k) \in Nat
           /\ k \in LockKey /\ k # LeaderKey /\ k # None
BY SchedulerAssumption, JobSpecAssumption DEF Key, JobLockLife, Window

\* Rows are rows and not the absent value.
LEMMA RowFacts ==
    /\ \A o \in Workers, e \in Int :
         [owner |-> o, expires |-> e] \in LockRow /\ [owner |-> o, expires |-> e] # None
    /\ \A st \in Outcomes \cup {"running"}, c \in Int :
         [status |-> st, created |-> c] \in RunRow /\ [status |-> st, created |-> c] # None
    /\ LeaderKey \in LockKey
BY SchedulerAssumption

\* What acquire, renew and release write is a lock table.
LEMMA LockTypes ==
    ASSUME lock \in [LockKey -> LockRow \cup {None}]
    PROVE  /\ \A k \in LockKey, w \in Workers, at \in Int, until \in Int :
                Acquired(k, w, at, until) \in [LockKey -> LockRow \cup {None}]
           /\ \A k \in LockKey :
                [lock EXCEPT ![k] = None] \in [LockKey -> LockRow \cup {None}]
           /\ \A k \in LockKey, w \in Workers, until \in Int :
                [lock EXCEPT ![k] = [owner |-> w, expires |-> until]]
                    \in [LockKey -> LockRow \cup {None}]
BY RowFacts DEF Acquired

\* A cleanup leaves tables.
LEMMA PurgeTypes ==
    ASSUME lock \in [LockKey -> LockRow \cup {None}], run \in [Key -> RunRow \cup {None}],
           NEW r \in Retentions, Purge(r)
    PROVE  /\ lock' \in [LockKey -> LockRow \cup {None}]
           /\ run' \in [Key -> RunRow \cup {None}]
BY DEF Purge

-----------------------------------------------------------------------------
(* Types, clock readings and the lease. *)

\* The scheduler starts with nothing acquired.
LEMMA LeaseInit == Init => TypeOK /\ ClockInv /\ LeaseHolds
BY SchedulerAssumption
   DEF Init, TypeOK, ClockInv, LeaseHolds, Pc, HasReading, Leading

\* Each operation keeps the types.
LEMMA TypeStep == TypeOK /\ ClockInv /\ [Next]_vars => TypeOK'
<1> SUFFICES ASSUME TypeOK /\ ClockInv, [Next]_vars PROVE TypeOK'
  OBVIOUS
<1> USE DEF TypeOK, ClockInv, Pc, HasReading, Leading, vars, tables, call, history
<1>1. ASSUME NEW w \in Workers, NEW t \in Instants, BeginLoop(w, t) PROVE TypeOK'
  BY <1>1, SchedulerAssumption DEF BeginLoop, Begin
<1>2. ASSUME NEW w \in Workers, NEW t \in Instants, BeginRunDue(w, t) PROVE TypeOK'
  BY <1>2, SchedulerAssumption DEF BeginRunDue, Begin, DueKeys
<1>3. ASSUME NEW w \in Workers, NEW t \in Instants, NEW j \in Jobs, BeginRunJob(w, t, j) PROVE TypeOK'
  <2>1. [job |-> j, mode |-> "manual", at |-> t] \in Key
    BY <1>3 DEF BeginRunJob, Key
  <2> QED
    BY <1>3, <2>1, SchedulerAssumption DEF BeginRunJob, Begin
<1>4. ASSUME NEW w \in Workers, AcquireLeader(w) PROVE TypeOK'
  <2>1. ASSUME NEW at \in Instants, ClockReading(w, at), CanAcquire(LeaderKey, at),
               lock' = Acquired(LeaderKey, w, at, at + LeaderLease),
               leaseUntil' = [leaseUntil EXCEPT ![w] = at + LeaderLease],
               since' = [since EXCEPT ![w] = now], Goto(w, "renew"), UNCHANGED <<todo, key>>
        PROVE  TypeOK'
    <3>1. at \in Int /\ at + LeaderLease \in Int
      BY SchedulerAssumption
    <3>2. lock' \in [LockKey -> LockRow \cup {None}]
      BY <2>1, <3>1, RowFacts, LockTypes
    <3> QED
      BY <1>4, <2>1, <3>1, <3>2, SchedulerAssumption DEF AcquireLeader, Goto
  <2>2. CASE Return(w) /\ UNCHANGED lock
    BY <1>4, <2>2, SchedulerAssumption DEF AcquireLeader, Return
  <2> QED
    BY <1>4, <2>1, <2>2 DEF AcquireLeader
<1>5. ASSUME NEW w \in Workers, RenewAndPlan(w) PROVE TypeOK'
  <2>1. ASSUME NEW at \in Instants, OwnsLease(w), Goto(w, "next"),
               lock' = [lock EXCEPT ![LeaderKey] = [owner |-> w, expires |-> at + LeaderLease]],
               leaseUntil' = [leaseUntil EXCEPT ![w] = at + LeaderLease],
               todo' = [todo EXCEPT ![w] = IF dry[w] THEN {} ELSE DueKeys(asOf[w])]
        PROVE  TypeOK'
    <3>1. at \in Int /\ at + LeaderLease \in Int
      BY SchedulerAssumption
    <3>2. lock' \in [LockKey -> LockRow \cup {None}]
      BY <2>1, <3>1, RowFacts, LockTypes
    <3>3. DueKeys(asOf[w]) \subseteq Key
      BY DEF DueKeys
    <3> QED
      BY <1>5, <2>1, <3>1, <3>2, <3>3, SchedulerAssumption DEF RenewAndPlan, Goto
  <2>2. CASE Goto(w, "release") /\ UNCHANGED <<lock, leaseUntil, todo>>
    BY <1>5, <2>2, SchedulerAssumption DEF RenewAndPlan, Goto
  <2> QED
    BY <1>5, <2>1, <2>2 DEF RenewAndPlan
<1>6. ASSUME NEW w \in Workers, EndRunDue(w) PROVE TypeOK'
  <2>1. CASE Goto(w, "sleep") /\ since' = [since EXCEPT ![w] = now] /\ UNCHANGED <<todo, key, leaseUntil>>
    BY <1>6, <2>1, SchedulerAssumption DEF EndRunDue, Goto
  <2>2. CASE Goto(w, "release") /\ UNCHANGED <<todo, key, since, leaseUntil>>
    BY <1>6, <2>2 DEF EndRunDue, Goto
  <2>3. CASE Return(w)
    BY <1>6, <2>3 DEF EndRunDue, Return
  <2> QED
    BY <1>6, <2>1, <2>2, <2>3 DEF EndRunDue
<1>7. ASSUME NEW w \in Workers, Wake(w) PROVE TypeOK'
  BY <1>7, SchedulerAssumption DEF Wake
<1>8. ASSUME NEW w \in Workers, ReleaseLeader(w) PROVE TypeOK'
  BY <1>8, RowFacts, LockTypes DEF ReleaseLeader, Return, OwnsLease
<1>9. ASSUME NEW w \in Workers, CheckHistory(w) PROVE TypeOK'
  <2>1. PICK k \in todo[w] :
          /\ todo' = [todo EXCEPT ![w] = @ \ {k}]
          /\ \/ /\ key' = [key EXCEPT ![w] = k]
                /\ since' = [since EXCEPT ![w] = now]
                /\ pc' = [pc EXCEPT ![w] = "acquire_job"]
             \/ UNCHANGED <<key, since, pc>>
    BY <1>9 DEF CheckHistory
  <2>2. k \in Key /\ k # None /\ now \in Int
    BY KeyFacts, SchedulerAssumption
  <2> QED
    BY <1>9, <2>1, <2>2 DEF CheckHistory
<1>10. ASSUME NEW w \in Workers, AcquireJob(w) PROVE TypeOK'
  <2>1. PICK at \in Instants :
          \/ /\ lock' = Acquired(key[w], w, at, at + JobLockLife(key[w].job))
             /\ since' = [since EXCEPT ![w] = at]
             /\ Goto(w, "start_run")
             /\ UNCHANGED key
          \/ NextJob(w) /\ UNCHANGED lock
    BY <1>10 DEF AcquireJob
  <2>2. key[w] \in Key /\ at \in Int /\ at + JobLockLife(key[w].job) \in Int
    BY <1>10, KeyFacts, SchedulerAssumption DEF AcquireJob
  <2>3. lock' \in [LockKey -> LockRow \cup {None}]
    BY <2>1, <2>2, KeyFacts, LockTypes
  <2> QED
    BY <1>10, <2>1, <2>2, <2>3 DEF AcquireJob, NextJob, Goto
<1>11. ASSUME NEW w \in Workers, StartRun(w) PROVE TypeOK'
  <2>1. key[w] \in Key /\ since[w] \in Int
    BY <1>11 DEF StartRun
  <2>2. CASE run[key[w]] = None
    BY <1>11, <2>1, <2>2, RowFacts DEF StartRun, Goto
  <2>3. CASE run[key[w]] # None
    BY <1>11, <2>1, <2>3 DEF StartRun, Goto
  <2> QED
    BY <2>2, <2>3
<1>12. ASSUME NEW w \in Workers, Execute(w) PROVE TypeOK'
  BY <1>12, PurgeTypes DEF Execute, Goto
<1>13. ASSUME NEW w \in Workers, FinishRun(w) PROVE TypeOK'
  <2>1. key[w] \in Key
    BY <1>13 DEF FinishRun
  <2>2. CASE run[key[w]] = None
    BY <1>13, <2>1, <2>2 DEF FinishRun, Goto
  <2>3. CASE run[key[w]] # None
    <3>1. PICK st \in Outcomes : run' = [run EXCEPT ![key[w]].status = st]
      BY <1>13, <2>3 DEF FinishRun
    <3>2. run[key[w]] \in RunRow
      BY <2>1, <2>3
    <3>3. [run[key[w]] EXCEPT !.status = st] \in RunRow
      BY <3>2
    <3>4. run' \in [Key -> RunRow \cup {None}]
      BY <2>1, <3>1, <3>3
    <3> QED
      BY <1>13, <3>4 DEF FinishRun, Goto
  <2> QED
    BY <2>2, <2>3
<1>14. ASSUME NEW w \in Workers, Unlock(w) PROVE TypeOK'
  BY <1>14, KeyFacts, LockTypes DEF Unlock, NextJob, Goto
<1>15. ASSUME NEW w \in Workers, Crash(w) PROVE TypeOK'
  BY <1>15, SchedulerAssumption DEF Crash, Return
<1>16. ASSUME NEW w \in Workers, DbError(w) PROVE TypeOK'
  <2>1. CASE /\ Goto(w, "release")
             /\ todo' = [todo EXCEPT ![w] = {}]
             /\ key' = [key EXCEPT ![w] = None]
             /\ since' = [since EXCEPT ![w] = None]
             /\ UNCHANGED leaseUntil
    <3>1. lock' \in [LockKey -> LockRow \cup {None}]
      BY <1>16, KeyFacts, LockTypes DEF DbError
    <3> QED
      BY <1>16, <2>1, <3>1 DEF DbError, Goto
  <2>2. CASE Return(w)
    <3>1. lock' \in [LockKey -> LockRow \cup {None}]
      BY <1>16, KeyFacts, LockTypes DEF DbError
    <3> QED
      BY <1>16, <2>2, <3>1 DEF DbError, Return
  <2> QED
    BY <1>16, <2>1, <2>2 DEF DbError
<1>17. ASSUME AdminCleanup PROVE TypeOK'
  BY <1>17, PurgeTypes DEF AdminCleanup
<1>18. ASSUME Tick PROVE TypeOK'
  BY <1>18, SchedulerAssumption DEF Tick
<1>19. CASE UNCHANGED vars
  BY <1>19
<1> QED
  BY <1>1, <1>2, <1>3, <1>4, <1>5, <1>6, <1>7, <1>8, <1>9, <1>10, <1>11, <1>12, <1>13, <1>14, <1>15, <1>16, <1>17, <1>18, <1>19 DEF Next, Invoke, Step

\* Each operation keeps the readings.
LEMMA ClockStep == TypeOK /\ ClockInv /\ [Next]_vars => ClockInv'
<1> SUFFICES ASSUME TypeOK /\ ClockInv, [Next]_vars PROVE ClockInv'
  OBVIOUS
<1> USE DEF TypeOK, ClockInv, Pc, HasReading, Leading, vars, tables, call, history
<1>1. ASSUME NEW w \in Workers, NEW t \in Instants, BeginLoop(w, t) PROVE ClockInv'
  BY <1>1, SchedulerAssumption DEF BeginLoop, Begin
<1>2. ASSUME NEW w \in Workers, NEW t \in Instants, BeginRunDue(w, t) PROVE ClockInv'
  BY <1>2, SchedulerAssumption DEF BeginRunDue, Begin
<1>3. ASSUME NEW w \in Workers, NEW t \in Instants, NEW j \in Jobs, BeginRunJob(w, t, j) PROVE ClockInv'
  <2>1. Begin(w, t) /\ pc' = [pc EXCEPT ![w] = "next"] /\ UNCHANGED <<loop, dry, since>>
    BY <1>3 DEF BeginRunJob
  <2> QED
    BY <2>1, SchedulerAssumption DEF Begin
<1>4. ASSUME NEW w \in Workers, AcquireLeader(w) PROVE ClockInv'
  BY <1>4, SchedulerAssumption DEF AcquireLeader, ClockReading, Goto, Return
<1>5. ASSUME NEW w \in Workers, RenewAndPlan(w) PROVE ClockInv'
  BY <1>5, SchedulerAssumption DEF RenewAndPlan, ClockReading, Goto, OwnsLease
<1>6. ASSUME NEW w \in Workers, EndRunDue(w) PROVE ClockInv'
  BY <1>6, SchedulerAssumption DEF EndRunDue, Goto, Return
<1>7. ASSUME NEW w \in Workers, Wake(w) PROVE ClockInv'
  BY <1>7, SchedulerAssumption DEF Wake
<1>8. ASSUME NEW w \in Workers, ReleaseLeader(w) PROVE ClockInv'
  BY <1>8, SchedulerAssumption DEF ReleaseLeader, Return, OwnsLease
<1>9. ASSUME NEW w \in Workers, CheckHistory(w) PROVE ClockInv'
  BY <1>9, SchedulerAssumption DEF CheckHistory
<1>10. ASSUME NEW w \in Workers, AcquireJob(w) PROVE ClockInv'
  BY <1>10, SchedulerAssumption DEF AcquireJob, ClockReading, NextJob, Goto
<1>11. ASSUME NEW w \in Workers, StartRun(w) PROVE ClockInv'
  BY <1>11, SchedulerAssumption DEF StartRun, Goto
<1>12. ASSUME NEW w \in Workers, Execute(w) PROVE ClockInv'
  BY <1>12, SchedulerAssumption DEF Execute, Goto
<1>13. ASSUME NEW w \in Workers, FinishRun(w) PROVE ClockInv'
  BY <1>13, SchedulerAssumption DEF FinishRun, Goto
<1>14. ASSUME NEW w \in Workers, Unlock(w) PROVE ClockInv'
  BY <1>14, SchedulerAssumption DEF Unlock, NextJob, Goto
<1>15. ASSUME NEW w \in Workers, Crash(w) PROVE ClockInv'
  BY <1>15, SchedulerAssumption DEF Crash, Return
<1>16. ASSUME NEW w \in Workers, DbError(w) PROVE ClockInv'
  BY <1>16, SchedulerAssumption DEF DbError, Goto, Return
<1>17. ASSUME AdminCleanup PROVE ClockInv'
  BY <1>17, SchedulerAssumption DEF AdminCleanup
<1>18. ASSUME Tick PROVE ClockInv'
  BY <1>18, SchedulerAssumption DEF Tick
<1>19. CASE UNCHANGED vars
  BY <1>19
<1> QED
  BY <1>1, <1>2, <1>3, <1>4, <1>5, <1>6, <1>7, <1>8, <1>9, <1>10, <1>11, <1>12, <1>13, <1>14, <1>15, <1>16, <1>17, <1>18, <1>19 DEF Next, Invoke, Step

\* Each operation keeps a live lease with its leader.
LEMMA LeaseStep == TypeOK /\ ClockInv /\ LeaseHolds /\ [Next]_vars => LeaseHolds'
<1> SUFFICES ASSUME TypeOK /\ ClockInv /\ LeaseHolds, [Next]_vars PROVE LeaseHolds'
  OBVIOUS
<1> USE DEF TypeOK, ClockInv, LeaseHolds, Pc, HasReading, Leading, vars, tables, call, history
<1>1. ASSUME NEW w \in Workers, NEW t \in Instants, BeginLoop(w, t) PROVE LeaseHolds'
  BY <1>1, SchedulerAssumption, KeyFacts, RowFacts DEF BeginLoop, Begin
<1>2. ASSUME NEW w \in Workers, NEW t \in Instants, BeginRunDue(w, t) PROVE LeaseHolds'
  BY <1>2, SchedulerAssumption, KeyFacts, RowFacts DEF BeginRunDue, Begin
<1>3. ASSUME NEW w \in Workers, NEW t \in Instants, NEW j \in Jobs, BeginRunJob(w, t, j) PROVE LeaseHolds'
  BY <1>3, SchedulerAssumption, KeyFacts, RowFacts DEF BeginRunJob, Begin, Key
<1>4. ASSUME NEW w \in Workers, AcquireLeader(w) PROVE LeaseHolds'
  BY <1>4, SchedulerAssumption, KeyFacts, RowFacts DEF AcquireLeader, ClockReading, Goto, Return, Acquired, CanAcquire, HasLock, Expired
<1>5. ASSUME NEW w \in Workers, RenewAndPlan(w) PROVE LeaseHolds'
  BY <1>5, SchedulerAssumption, KeyFacts, RowFacts DEF RenewAndPlan, ClockReading, Goto, OwnsLease
<1>6. ASSUME NEW w \in Workers, EndRunDue(w) PROVE LeaseHolds'
  BY <1>6, SchedulerAssumption, KeyFacts, RowFacts DEF EndRunDue, Goto, Return
<1>7. ASSUME NEW w \in Workers, Wake(w) PROVE LeaseHolds'
  BY <1>7, SchedulerAssumption, KeyFacts, RowFacts DEF Wake
<1>8. ASSUME NEW w \in Workers, ReleaseLeader(w) PROVE LeaseHolds'
  BY <1>8, SchedulerAssumption, KeyFacts, RowFacts DEF ReleaseLeader, Return, OwnsLease
<1>9. ASSUME NEW w \in Workers, CheckHistory(w) PROVE LeaseHolds'
  BY <1>9, SchedulerAssumption, KeyFacts, RowFacts DEF CheckHistory
<1>10. ASSUME NEW w \in Workers, AcquireJob(w) PROVE LeaseHolds'
  BY <1>10, SchedulerAssumption, KeyFacts, RowFacts DEF AcquireJob, ClockReading, NextJob, Goto, Acquired, Expired
<1>11. ASSUME NEW w \in Workers, StartRun(w) PROVE LeaseHolds'
  BY <1>11, SchedulerAssumption, KeyFacts, RowFacts DEF StartRun, Goto
<1>12. ASSUME NEW w \in Workers, Execute(w) PROVE LeaseHolds'
  BY <1>12, SchedulerAssumption, KeyFacts, RowFacts DEF Execute, Goto, Purge, Expired
<1>13. ASSUME NEW w \in Workers, FinishRun(w) PROVE LeaseHolds'
  BY <1>13, SchedulerAssumption, KeyFacts, RowFacts DEF FinishRun, Goto
<1>14. ASSUME NEW w \in Workers, Unlock(w) PROVE LeaseHolds'
  BY <1>14, SchedulerAssumption, KeyFacts, RowFacts DEF Unlock, NextJob, Goto
<1>15. ASSUME NEW w \in Workers, Crash(w) PROVE LeaseHolds'
  BY <1>15, SchedulerAssumption, KeyFacts, RowFacts DEF Crash, Return
<1>16. ASSUME NEW w \in Workers, DbError(w) PROVE LeaseHolds'
  BY <1>16, SchedulerAssumption, KeyFacts, RowFacts DEF DbError, Goto, Return
<1>17. ASSUME AdminCleanup PROVE LeaseHolds'
  BY <1>17, SchedulerAssumption, KeyFacts, RowFacts DEF AdminCleanup, Purge, Expired
<1>18. ASSUME Tick PROVE LeaseHolds'
  BY <1>18, SchedulerAssumption, KeyFacts, RowFacts DEF Tick
<1>19. CASE UNCHANGED vars
  BY <1>19
<1> QED
  BY <1>1, <1>2, <1>3, <1>4, <1>5, <1>6, <1>7, <1>8, <1>9, <1>10, <1>11, <1>12, <1>13, <1>14, <1>15, <1>16, <1>17, <1>18, <1>19 DEF Next, Invoke, Step

\* Type correctness, whatever the interleaving, the crashes and the errors.
THEOREM TypeCorrect == Spec => [](TypeOK /\ ClockInv)
<1>1. Init => TypeOK /\ ClockInv
  BY LeaseInit
<1>2. TypeOK /\ ClockInv /\ [Next]_vars => (TypeOK /\ ClockInv)'
  BY TypeStep, ClockStep
<1> QED
  BY <1>1, <1>2, PTL DEF Spec

\* A leader whose lease has not expired by its own account is the leader of
\* record: nobody's acquire, renewal, release or cleanup takes it away.
THEOREM LeaseSafety == Spec => []LeaseHolds
<1>1. Init => LeaseHolds
  BY LeaseInit
<1>2. TypeOK /\ ClockInv /\ LeaseHolds /\ [Next]_vars => LeaseHolds'
  BY LeaseStep
<1> QED
  BY <1>1, <1>2, TypeCorrect, PTL DEF Spec

\* An unexpired lease ends or changes hands only by a step of its owner.
THEOREM LeaseKept == Spec => LiveLeaseKept
<1> DEFINE Kept == \A w \in Workers :
         OwnsLease(w) /\ lock[LeaderKey].expires >= now /\ lock'[LeaderKey] # lock[LeaderKey]
             => pc[w] # pc'[w]
<1>1. TypeOK /\ ClockInv /\ [Next]_vars => [Kept]_vars
  <2> SUFFICES ASSUME TypeOK, ClockInv, [Next]_vars, NEW v \in Workers, OwnsLease(v),
                      lock[LeaderKey].expires >= now, lock'[LeaderKey] # lock[LeaderKey]
               PROVE  pc[v] # pc'[v]
    OBVIOUS
  <2> USE DEF OwnsLease, vars, tables, call, history
  <2>0. /\ LeaderKey \in LockKey /\ now \in Int
        /\ lock[LeaderKey] # None => lock[LeaderKey].expires \in Int
    BY SchedulerAssumption DEF TypeOK
  <2>1. ASSUME NEW w \in Workers, Invoke(w) PROVE FALSE
    BY <2>1 DEF Invoke, BeginLoop, BeginRunDue, BeginRunJob, Begin
  <2>2. ASSUME NEW w \in Workers, AcquireLeader(w) PROVE FALSE
    BY <2>0, <2>2, SchedulerAssumption
       DEF AcquireLeader, ClockReading, CanAcquire, HasLock, TypeOK, Return
  <2>3. ASSUME NEW w \in Workers, RenewAndPlan(w) PROVE pc[v] # pc'[v]
    BY <2>3 DEF RenewAndPlan, Goto, TypeOK
  <2>4. ASSUME NEW w \in Workers, ReleaseLeader(w) PROVE pc[v] # pc'[v]
    BY <2>4 DEF ReleaseLeader, Return, TypeOK
  <2>5. ASSUME NEW w \in Workers, AcquireJob(w) PROVE FALSE
    BY <2>0, <2>5, KeyFacts, SchedulerAssumption
       DEF AcquireJob, ClockReading, Acquired, Expired, TypeOK
  <2>6. ASSUME NEW w \in Workers, Unlock(w) \/ DbError(w) PROVE FALSE
    BY <2>0, <2>6, KeyFacts DEF Unlock, DbError, TypeOK
  <2>7. ASSUME NEW r \in Retentions, Purge(r) PROVE FALSE
    BY <2>0, <2>7, SchedulerAssumption DEF Purge, Expired
  <2>8. ASSUME NEW w \in Workers, Execute(w) \/ AdminCleanup PROVE FALSE
    BY <2>7, <2>8 DEF Execute, AdminCleanup
  <2>9. ASSUME NEW w \in Workers,
               EndRunDue(w) \/ Wake(w) \/ CheckHistory(w) \/ StartRun(w) \/ FinishRun(w) \/ Crash(w)
        PROVE  FALSE
    BY <2>9 DEF EndRunDue, Wake, CheckHistory, StartRun, FinishRun, Crash
  <2> QED
    BY <2>1, <2>2, <2>3, <2>4, <2>5, <2>6, <2>7, <2>8, <2>9
       DEF Next, Step, Tick, AdminCleanup
<1> QED
  BY <1>1, TypeCorrect, PTL DEF Spec, LiveLeaseKept

-----------------------------------------------------------------------------
(* An occurrence is started at most once. *)

\* What run_due plans is scheduled within its job's tolerance of the as_of.
LEMMA DueKeysInWindow ==
    ASSUME NEW t \in Int, NEW k \in DueKeys(t)
    PROVE  /\ k \in Key /\ k.at <= t /\ t - k.at <= Window(k)
BY KeyFacts DEF DueKeys, DueNow, Window

\* Each operation keeps every listed key within reach of its call.
LEMMA ReachStep == TypeOK /\ ClockInv /\ ReachInv /\ [Next]_vars => ReachInv'
<1> SUFFICES ASSUME TypeOK, ClockInv, ReachInv, [Next]_vars PROVE ReachInv'
  OBVIOUS
<1> USE DEF TypeOK, ReachInv, Reachable, Pc, vars, tables, call, history
<1>1. ASSUME NEW w \in Workers, NEW t \in Instants, BeginLoop(w, t) PROVE ReachInv'
  BY <1>1, SchedulerAssumption DEF BeginLoop, Begin
<1>2. ASSUME NEW w \in Workers, NEW t \in Instants, BeginRunDue(w, t) PROVE ReachInv'
  <2>1. t \in Int /\ \A k \in DueKeys(t) : k.at <= t /\ t - k.at <= Window(k)
    BY SchedulerAssumption, DueKeysInWindow
  <2> QED
    BY <1>2, <2>1 DEF BeginRunDue, Begin
<1>3. ASSUME NEW w \in Workers, NEW t \in Instants, NEW j \in Jobs, BeginRunJob(w, t, j) PROVE ReachInv'
  <2> DEFINE k == [job |-> j, mode |-> "manual", at |-> t]
  <2>1. t \in Int /\ k.at = t /\ Window(k) = 0
    BY SchedulerAssumption DEF Window
  <2>2. /\ asOf' = [asOf EXCEPT ![w] = t] /\ pc' = [pc EXCEPT ![w] = "next"]
        /\ todo' = [todo EXCEPT ![w] = {k}] /\ key' = key /\ key[w] = None /\ pc[w] = "idle"
    BY <1>3 DEF BeginRunJob, Begin
  <2> HIDE DEF k
  <2> QED
    BY <2>1, <2>2
<1>4. ASSUME NEW w \in Workers, AcquireLeader(w) PROVE ReachInv'
  BY <1>4, SchedulerAssumption DEF AcquireLeader, Goto, Return
<1>5. ASSUME NEW w \in Workers, RenewAndPlan(w) PROVE ReachInv'
  <2>1. asOf[w] \in Int
    BY <1>5 DEF RenewAndPlan, ClockInv
  <2>2. \A k \in DueKeys(asOf[w]) : k.at <= asOf[w] /\ asOf[w] - k.at <= Window(k)
    BY <2>1, DueKeysInWindow
  <2> QED
    BY <1>5, <2>1, <2>2 DEF RenewAndPlan, Goto
<1>6. ASSUME NEW w \in Workers, EndRunDue(w) PROVE ReachInv'
  BY <1>6, SchedulerAssumption DEF EndRunDue, Goto, Return
<1>7. ASSUME NEW w \in Workers, Wake(w) PROVE ReachInv'
  BY <1>7, SchedulerAssumption DEF Wake
<1>8. ASSUME NEW w \in Workers, ReleaseLeader(w) PROVE ReachInv'
  BY <1>8, SchedulerAssumption DEF ReleaseLeader, Return
<1>9. ASSUME NEW w \in Workers, CheckHistory(w) PROVE ReachInv'
  BY <1>9, SchedulerAssumption DEF CheckHistory
<1>10. ASSUME NEW w \in Workers, AcquireJob(w) PROVE ReachInv'
  BY <1>10, SchedulerAssumption DEF AcquireJob, NextJob, Goto
<1>11. ASSUME NEW w \in Workers, StartRun(w) PROVE ReachInv'
  BY <1>11, SchedulerAssumption DEF StartRun, Goto
<1>12. ASSUME NEW w \in Workers, Execute(w) PROVE ReachInv'
  BY <1>12, SchedulerAssumption DEF Execute, Goto
<1>13. ASSUME NEW w \in Workers, FinishRun(w) PROVE ReachInv'
  BY <1>13, SchedulerAssumption DEF FinishRun, Goto
<1>14. ASSUME NEW w \in Workers, Unlock(w) PROVE ReachInv'
  BY <1>14, SchedulerAssumption DEF Unlock, NextJob, Goto
<1>15. ASSUME NEW w \in Workers, Crash(w) PROVE ReachInv'
  BY <1>15, SchedulerAssumption DEF Crash, Return
<1>16. ASSUME NEW w \in Workers, DbError(w) PROVE ReachInv'
  BY <1>16, SchedulerAssumption DEF DbError, Goto, Return
<1>17. ASSUME AdminCleanup PROVE ReachInv'
  BY <1>17, SchedulerAssumption DEF AdminCleanup
<1>18. ASSUME Tick PROVE ReachInv'
  BY <1>18, SchedulerAssumption DEF Tick
<1>19. CASE UNCHANGED vars
  BY <1>19
<1> QED
  BY <1>1, <1>2, <1>3, <1>4, <1>5, <1>6, <1>7, <1>8, <1>9, <1>10, <1>11, <1>12, <1>13, <1>14, <1>15, <1>16, <1>17, <1>18, <1>19 DEF Next, Invoke, Step

\* A key in hand is young enough for no cleanup to have taken its row.
LEMMA InHand ==
    ASSUME TypeOK, ClockInv, ReachInv, NEW w \in Workers, key[w] # None
    PROVE  /\ key[w] \in Key /\ asOf[w] \in Int /\ now \in Int
           /\ key[w].at <= asOf[w] /\ asOf[w] <= now
           /\ now - key[w].at <= Window(key[w]) + MaxLag
BY KeyFacts, SchedulerAssumption DEF TypeOK, ClockInv, ReachInv, Reachable, Pc

Recorded == HistoryInv /\ RunnerInv /\ SoleRunner

\* Only _execute_command and the run methods disturb the history.
LEMMA QuietStep ==
    ASSUME TypeOK, Recorded, UNCHANGED <<run, starts>>, now' \in Int, now <= now',
           \A w \in Workers : Executing(w)' => Executing(w) /\ key'[w] = key[w]
    PROVE  Recorded'
BY KeyFacts, SchedulerAssumption
   DEF TypeOK, Recorded, HistoryInv, RunnerInv, SoleRunner, Spent

\* A cleanup takes only rows of keys that no call can reach any more.
LEMMA PurgedIsSpent ==
    ASSUME TypeOK, HistoryInv, NEW r \in Retentions, Purge(r)
    PROVE  \A k \in Key : run'[k] = run[k] \/ (run[k] # None /\ run'[k] = None /\ Spent(k))
<1> SUFFICES ASSUME NEW k \in Key, run[k] # None, run'[k] = None PROVE Spent(k)
  BY DEF Purge
<1>1. run[k].created < now - r /\ k.at <= run[k].created /\ run[k].created \in Int
  BY DEF Purge, HistoryInv, TypeOK
<1>2. Window(k) + MaxLag <= r /\ r \in Int /\ now \in Int
  BY RetentionAssumption, SchedulerAssumption DEF TypeOK
<1> QED
  BY <1>1, <1>2, KeyFacts, SchedulerAssumption DEF Spent

\* No running key loses its row to a cleanup.
LEMMA PurgeStep ==
    ASSUME TypeOK, ClockInv, ReachInv, Recorded, NEW r \in Retentions, Purge(r),
           UNCHANGED <<now, key, starts>>, \A w \in Workers : Executing(w)' => Executing(w)
    PROVE  Recorded'
<1>1. \A k \in Key : run'[k] = run[k] \/ (run[k] # None /\ run'[k] = None /\ Spent(k))
  BY PurgedIsSpent DEF Recorded
<1>2. \A w \in Workers : Executing(w) => key[w] \in Key /\ run'[key[w]] = run[key[w]]
  <2> SUFFICES ASSUME NEW w \in Workers, Executing(w)
               PROVE  key[w] \in Key /\ run'[key[w]] = run[key[w]]
    OBVIOUS
  <2>1. key[w] # None
    BY DEF Executing, TypeOK
  <2> QED
    BY <1>1, <2>1, InHand, KeyFacts, SchedulerAssumption DEF Spent
<1>3. HistoryInv'
  BY <1>1 DEF Recorded, HistoryInv, Spent, TypeOK
<1>4. RunnerInv' /\ SoleRunner'
  BY <1>2 DEF Recorded, RunnerInv, SoleRunner
<1> QED
  BY <1>3, <1>4 DEF Recorded

\* The run that start_scheduler_run records is the first one of its key.
LEMMA StartStep ==
    ASSUME TypeOK, ClockInv, ReachInv, Recorded, NEW w \in Workers, StartRun(w)
    PROVE  Recorded'
<1> USE DEF StartRun, Goto
<1>1. /\ key[w] # None /\ key[w] \in Key /\ now \in Int /\ now' = now /\ key' = key
      /\ ~Executing(w) /\ pc[w] \in Pc
      /\ \A v \in Workers \ {w} : Executing(v)' <=> Executing(v)
  BY SchedulerAssumption DEF TypeOK, Executing
<1>2. CASE run[key[w]] # None
  <2>1. \A v \in Workers : Executing(v)' => Executing(v) /\ key'[v] = key[v]
    BY <1>1, <1>2 DEF Executing, TypeOK
  <2> QED
    BY <1>1, <1>2, <2>1, QuietStep
<1>3. CASE run[key[w]] = None
  <2>1. starts[key[w]] = 0
    BY <1>1, <1>3, InHand, KeyFacts, SchedulerAssumption DEF Recorded, HistoryInv, Spent
  <2>2. since[w] \in Int /\ key[w].at <= since[w]
    BY <1>1, InHand, KeyFacts, SchedulerAssumption DEF ClockInv, HasReading
  <2>3. /\ run' = [run EXCEPT ![key[w]] = [status |-> "running", created |-> since[w]]]
        /\ starts' = [starts EXCEPT ![key[w]] = @ + 1]
    BY <1>3
  <2>4. run'[key[w]] # None /\ run'[key[w]].status = "running"
        /\ run'[key[w]].created = since[w] /\ starts'[key[w]] = 1
    <3>1. run'[key[w]] = [status |-> "running", created |-> since[w]]
      BY <1>1, <2>3 DEF TypeOK
    <3>2. starts'[key[w]] = 1
      BY <1>1, <2>1, <2>3 DEF TypeOK
    <3> QED
      BY <2>2, <3>1, <3>2, RowFacts
  <2>5. \A v \in Workers : Executing(v) => key[v] # key[w]
    BY <1>3 DEF Recorded, RunnerInv
  <2>6. \A k \in Key \ {key[w]} : run'[k] = run[k] /\ starts'[k] = starts[k]
    BY <2>3 DEF TypeOK
  <2>7. HistoryInv'
    BY <1>1, <2>2, <2>4, <2>6 DEF Recorded, HistoryInv, Spent
  <2>8. \A v \in Workers : Executing(v) => key[v] \in Key
    BY DEF Executing, TypeOK
  <2>9. RunnerInv' /\ SoleRunner'
    BY <1>1, <2>4, <2>5, <2>6, <2>8 DEF Recorded, RunnerInv, SoleRunner
  <2> QED
    BY <2>7, <2>9 DEF Recorded
<1> QED
  BY <1>2, <1>3

\* finish_scheduler_run closes the row of the worker's own run.
LEMMA FinishStep ==
    ASSUME TypeOK, ClockInv, ReachInv, Recorded, NEW w \in Workers, FinishRun(w)
    PROVE  Recorded'
<1>0. pc[w] = "finish" /\ pc' = [pc EXCEPT ![w] = "unlock"] /\ UNCHANGED <<now, key, history>>
  BY DEF FinishRun, Goto
<1>1. /\ key[w] \in Key /\ now' = now /\ key' = key /\ starts' = starts /\ Executing(w)
      /\ \A v \in Workers : Executing(v)' => Executing(v) /\ v # w
  BY <1>0 DEF TypeOK, Executing, history
<1>2. PICK st \in Outcomes : run' = [run EXCEPT ![key[w]].status = st]
  BY <1>1 DEF Recorded, RunnerInv, FinishRun
<1>3. /\ run[key[w]] # None /\ run[key[w]] \in RunRow
      /\ run'[key[w]] = [run[key[w]] EXCEPT !.status = st]
      /\ \A k \in Key \ {key[w]} : run'[k] = run[k]
  BY <1>1, <1>2 DEF Recorded, RunnerInv, TypeOK
<1>4. run'[key[w]] # None /\ run'[key[w]].created = run[key[w]].created
  BY <1>3, SchedulerAssumption
<1>5. HistoryInv'
  BY <1>1, <1>3, <1>4 DEF Recorded, HistoryInv, Spent
<1>6. \A v \in Workers : Executing(v)' => key[v] \in Key /\ key[v] # key[w]
  BY <1>1 DEF Executing, TypeOK, Recorded, SoleRunner
<1>7. RunnerInv' /\ SoleRunner'
  BY <1>1, <1>3, <1>6 DEF Recorded, RunnerInv, SoleRunner
<1> QED
  BY <1>5, <1>7 DEF Recorded

\* Each operation keeps the history.
LEMMA RecordedStep == TypeOK /\ ClockInv /\ ReachInv /\ Recorded /\ [Next]_vars => Recorded'
<1> SUFFICES ASSUME TypeOK, ClockInv, ReachInv, Recorded, [Next]_vars PROVE Recorded'
  OBVIOUS
<1> USE DEF vars, tables, call, history
<1>0. now \in Int /\ now <= now
  BY SchedulerAssumption DEF TypeOK
<1>1. ASSUME NEW w \in Workers, Invoke(w) PROVE Recorded'
  BY <1>0, <1>1, QuietStep DEF Invoke, BeginLoop, BeginRunDue, BeginRunJob, Begin, Executing, TypeOK
<1>2. ASSUME NEW w \in Workers,
             AcquireLeader(w) \/ RenewAndPlan(w) \/ EndRunDue(w) \/ Wake(w) \/ ReleaseLeader(w)
      PROVE  Recorded'
  BY <1>0, <1>2, QuietStep
     DEF AcquireLeader, RenewAndPlan, EndRunDue, Wake, ReleaseLeader, Goto, Return, Executing, TypeOK
<1>3. ASSUME NEW w \in Workers, CheckHistory(w) \/ AcquireJob(w) \/ Unlock(w) PROVE Recorded'
  BY <1>0, <1>3, QuietStep DEF CheckHistory, AcquireJob, Unlock, NextJob, Goto, Executing, TypeOK
<1>4. ASSUME NEW w \in Workers, StartRun(w) PROVE Recorded'
  BY <1>4, StartStep
<1>5. ASSUME NEW w \in Workers, Execute(w) PROVE Recorded'
  <2>1. /\ UNCHANGED <<now, key, starts>>
        /\ \A v \in Workers : Executing(v)' => Executing(v) /\ key'[v] = key[v]
    BY <1>5 DEF Execute, Goto, Executing, TypeOK
  <2>2. ASSUME NEW r \in Retentions, Purge(r) PROVE Recorded'
    BY <2>1, <2>2, PurgeStep
  <2>3. CASE UNCHANGED tables
    BY <1>0, <2>1, <2>3, QuietStep
  <2> QED
    BY <1>5, <2>2, <2>3 DEF Execute
<1>6. ASSUME NEW w \in Workers, FinishRun(w) PROVE Recorded'
  BY <1>6, FinishStep
<1>7. ASSUME NEW w \in Workers, Crash(w) \/ DbError(w) PROVE Recorded'
  BY <1>0, <1>7, QuietStep DEF Crash, DbError, Goto, Return, Executing, TypeOK
<1>8. ASSUME AdminCleanup PROVE Recorded'
  BY <1>8, PurgeStep DEF AdminCleanup, Executing
<1>9. ASSUME Tick PROVE Recorded'
  BY <1>0, <1>9, QuietStep DEF Tick, Executing
<1>10. CASE UNCHANGED vars
  BY <1>0, <1>10, QuietStep DEF Executing
<1> QED
  BY <1>1, <1>2, <1>3, <1>4, <1>5, <1>6, <1>7, <1>8, <1>9, <1>10 DEF Next, Step

\* The invariant the scheduler's history rests on.
THEOREM Inductive == Spec => []IInv
<1>1. Init => IInv
  BY LeaseInit, SchedulerAssumption
     DEF Init, IInv, ReachInv, HistoryInv, RunnerInv, SoleRunner, Executing
<1>2. IInv /\ [Next]_vars => IInv'
  BY TypeStep, ClockStep, ReachStep, RecordedStep DEF IInv, Recorded
<1> QED
  BY <1>1, <1>2, PTL DEF Spec

\* Due runs are idempotent per occurrence: no execution key is started twice.
THEOREM StartedOnce == Spec => []StartsOnce
<1>1. IInv => StartsOnce
  BY DEF IInv, HistoryInv, StartsOnce, TypeOK
<1> QED
  BY <1>1, Inductive, PTL

\* No execution key is executed by two workers at once.
THEOREM RunsAlone == Spec => []SoleRunner
<1>1. IInv => SoleRunner
  BY DEF IInv
<1> QED
  BY <1>1, Inductive, PTL

-----------------------------------------------------------------------------
(* Scheduler implements OccurrenceClaims. *)

\* A step that neither records nor stops a run is invisible in the claims.
LEMMA QuietRefines ==
    ASSUME UNCHANGED <<run, starts>>,
           \A w \in Workers : (Executing(w)' <=> Executing(w)) /\ (Executing(w) => key'[w] = key[w])
    PROVE  UNCHANGED <<claim, working>>
BY DEF claim, working

\* The insert that succeeds claims the key.
LEMMA StartRefines ==
    ASSUME IInv, NEW w \in Workers, StartRun(w), run[key[w]] = None
    PROVE  Claims!Claim(w, key[w])
<1>1. pc[w] = "start_run" /\ pc' = [pc EXCEPT ![w] = "execute"] /\ key' = key
  BY DEF StartRun, Goto
<1>2. key[w] \in Key /\ key[w] # None /\ since[w] \in Int
  BY <1>1 DEF IInv, TypeOK, ClockInv, HasReading
<1>3. starts[key[w]] = 0
  BY <1>2, InHand, KeyFacts, SchedulerAssumption DEF IInv, HistoryInv, Spent
<1>4. /\ run' = [run EXCEPT ![key[w]] = [status |-> "running", created |-> since[w]]]
      /\ starts' = [starts EXCEPT ![key[w]] = @ + 1]
  BY DEF StartRun
<1>5. working[w] = None /\ claim[key[w]] = "open"
  BY <1>1, <1>2, <1>3 DEF working, claim, Executing
<1>6. run'[key[w]] # None /\ run'[key[w]].status = "running"
  BY <1>2, <1>4, RowFacts DEF IInv, TypeOK
<1>7. claim' = [claim EXCEPT ![key[w]] = "claimed"]
  <2>1. \A k \in Key \ {key[w]} : run'[k] = run[k] /\ starts'[k] = starts[k]
    BY <1>4 DEF IInv, TypeOK
  <2> QED
    BY <1>2, <1>6, <2>1 DEF claim
<1>8. working' = [working EXCEPT ![w] = key[w]]
  BY <1>1 DEF working, Executing, IInv, TypeOK
<1> QED
  BY <1>5, <1>7, <1>8 DEF Claims!Claim

\* Writing the result closes the claim.
LEMMA FinishRefines ==
    ASSUME IInv, NEW w \in Workers, FinishRun(w)
    PROVE  Claims!Close(w, key[w])
<1>1. pc[w] = "finish" /\ pc' = [pc EXCEPT ![w] = "unlock"] /\ key' = key /\ starts' = starts
  BY DEF FinishRun, Goto, history
<1>2. Executing(w) /\ key[w] \in Key
  BY <1>1 DEF IInv, TypeOK, Executing
<1>3. /\ run[key[w]] # None /\ run[key[w]].status = "running" /\ run[key[w]] \in RunRow
  BY <1>2 DEF IInv, RunnerInv, TypeOK
<1>4. PICK st \in Outcomes : run' = [run EXCEPT ![key[w]].status = st]
  BY <1>3 DEF FinishRun
<1>5. /\ run'[key[w]] = [run[key[w]] EXCEPT !.status = st]
      /\ \A k \in Key \ {key[w]} : run'[k] = run[k]
  BY <1>2, <1>3, <1>4 DEF IInv, TypeOK
<1>6. run'[key[w]] # None /\ run'[key[w]].status # "running"
  BY <1>3, <1>5, SchedulerAssumption
<1>7. working[w] = key[w] /\ claim[key[w]] = "claimed"
  BY <1>2, <1>3 DEF working, claim
<1>8. claim' = [claim EXCEPT ![key[w]] = "closed"]
  BY <1>1, <1>2, <1>5, <1>6 DEF claim
<1>9. working' = [working EXCEPT ![w] = None]
  BY <1>1 DEF working, Executing, IInv, TypeOK
<1> QED
  BY <1>7, <1>8, <1>9 DEF Claims!Close

\* A cleanup forgets keys that nobody works on.
LEMMA PurgeRefines ==
    ASSUME IInv, NEW r \in Retentions, Purge(r), UNCHANGED <<now, key, starts>>,
           \A w \in Workers : Executing(w)' <=> Executing(w)
    PROVE  Claims!Forget
<1>1. \A k \in Key : run'[k] = run[k] \/ (run[k] # None /\ run'[k] = None /\ Spent(k))
  BY PurgedIsSpent DEF IInv
<1>2. \A k \in Key : Spent(k) => \A w \in Workers : working[w] # k
  <2> SUFFICES ASSUME NEW k \in Key, Spent(k), NEW w \in Workers, working[w] = k PROVE FALSE
    OBVIOUS
  <2>1. key[w] = k /\ k # None
    BY KeyFacts DEF working
  <2> QED
    BY <2>1, InHand, KeyFacts, SchedulerAssumption DEF IInv, Spent
<1>3. \A k \in Key : \/ claim'[k] = claim[k]
                      \/ /\ claim[k] \in {"claimed", "closed"} /\ claim'[k] = "forgotten"
                         /\ Claims!Idle(k)
  <2> SUFFICES ASSUME NEW k \in Key, claim'[k] # claim[k]
               PROVE  /\ claim[k] \in {"claimed", "closed"} /\ claim'[k] = "forgotten"
                      /\ Claims!Idle(k)
    OBVIOUS
  <2>1. run[k] # None /\ run'[k] = None /\ Spent(k)
    BY <1>1 DEF claim
  <2>2. starts[k] = 1
    BY <2>1 DEF IInv, HistoryInv
  <2> QED
    BY <1>2, <2>1, <2>2 DEF claim, Claims!Idle
<1>4. claim' = [k \in Key |-> claim'[k]]
  BY DEF claim
<1>5. UNCHANGED working
  BY DEF working
<1> QED
  BY <1>3, <1>4, <1>5 DEF Claims!Forget

\* A worker that dies or fails while it executes abandons its claim.
LEMMA FailureRefines ==
    ASSUME IInv, NEW w \in Workers, Crash(w) \/ DbError(w), Executing(w)
    PROVE  key[w] \in Key /\ Claims!Abandon(w, key[w])
<1>1. /\ pc' \in {[pc EXCEPT ![w] = "idle"], [pc EXCEPT ![w] = "release"]}
      /\ key' = [key EXCEPT ![w] = None] /\ UNCHANGED <<run, starts>>
  BY DEF Crash, DbError, Goto, Return, tables
<1>2. key[w] \in Key /\ working[w] = key[w]
  BY DEF IInv, TypeOK, Executing, working
<1>3. UNCHANGED claim
  BY <1>1 DEF claim
<1>4. working' = [working EXCEPT ![w] = None]
  BY <1>1 DEF working, Executing, IInv, TypeOK
<1> QED
  BY <1>2, <1>3, <1>4 DEF Claims!Abandon

\* Every step of the scheduler is a step of the claims or invisible there.
LEMMA StepRefines == IInv /\ [Next]_vars => [Claims!Next]_<<claim, working>>
<1> SUFFICES ASSUME IInv, [Next]_vars PROVE Claims!Next \/ UNCHANGED <<claim, working>>
  OBVIOUS
<1> USE DEF vars, tables, call, history
<1>0. TypeOK
  BY DEF IInv
<1>1. ASSUME NEW w \in Workers, Invoke(w) PROVE UNCHANGED <<claim, working>>
  BY <1>0, <1>1, QuietRefines
     DEF Invoke, BeginLoop, BeginRunDue, BeginRunJob, Begin, Executing, TypeOK
<1>2. ASSUME NEW w \in Workers,
             AcquireLeader(w) \/ RenewAndPlan(w) \/ EndRunDue(w) \/ Wake(w) \/ ReleaseLeader(w)
      PROVE  UNCHANGED <<claim, working>>
  BY <1>0, <1>2, QuietRefines
     DEF AcquireLeader, RenewAndPlan, EndRunDue, Wake, ReleaseLeader, Goto, Return, Executing, TypeOK
<1>3. ASSUME NEW w \in Workers, CheckHistory(w) \/ AcquireJob(w) \/ Unlock(w)
      PROVE  UNCHANGED <<claim, working>>
  BY <1>0, <1>3, QuietRefines
     DEF CheckHistory, AcquireJob, Unlock, NextJob, Goto, Executing, TypeOK
<1>4. ASSUME NEW w \in Workers, StartRun(w) PROVE Claims!Next \/ UNCHANGED <<claim, working>>
  <2>1. key[w] \in Key
    BY <1>0, <1>4 DEF StartRun, TypeOK
  <2>2. CASE run[key[w]] = None
    BY <1>4, <2>1, <2>2, StartRefines DEF Claims!Next
  <2>3. CASE run[key[w]] # None
    BY <1>0, <1>4, <2>3, QuietRefines DEF StartRun, Goto, Executing, TypeOK
  <2> QED
    BY <2>2, <2>3
<1>5. ASSUME NEW w \in Workers, Execute(w) PROVE Claims!Next \/ UNCHANGED <<claim, working>>
  <2>1. /\ UNCHANGED <<now, key, starts>>
        /\ \A v \in Workers : (Executing(v)' <=> Executing(v)) /\ key'[v] = key[v]
    BY <1>0, <1>5 DEF Execute, Goto, Executing, TypeOK
  <2>2. ASSUME NEW r \in Retentions, Purge(r) PROVE Claims!Forget
    BY <2>1, <2>2, PurgeRefines
  <2>3. CASE UNCHANGED tables
    BY <2>1, <2>3, QuietRefines
  <2> QED
    BY <1>5, <2>2, <2>3 DEF Execute, Claims!Next
<1>6. ASSUME NEW w \in Workers, FinishRun(w) PROVE Claims!Next
  <2>1. key[w] \in Key
    BY <1>0, <1>6 DEF FinishRun, TypeOK
  <2> QED
    BY <1>6, <2>1, FinishRefines DEF Claims!Next
<1>7. ASSUME NEW w \in Workers, Crash(w) \/ DbError(w)
      PROVE  Claims!Next \/ UNCHANGED <<claim, working>>
  <2>1. CASE Executing(w)
    BY <1>7, <2>1, FailureRefines DEF Claims!Next
  <2>2. CASE ~Executing(w)
    <3>1. /\ pc' \in {[pc EXCEPT ![w] = "idle"], [pc EXCEPT ![w] = "release"]}
          /\ key' = [key EXCEPT ![w] = None] /\ UNCHANGED <<run, starts>>
      BY <1>7 DEF Crash, DbError, Goto, Return
    <3> QED
      BY <1>0, <2>2, <3>1, QuietRefines DEF Executing, TypeOK
  <2> QED
    BY <2>1, <2>2
<1>8. ASSUME AdminCleanup PROVE Claims!Next
  BY <1>8, PurgeRefines DEF AdminCleanup, Executing, Claims!Next
<1>9. CASE Tick \/ UNCHANGED vars
  BY <1>9, QuietRefines DEF Tick, Executing
<1> QED
  BY <1>1, <1>2, <1>3, <1>4, <1>5, <1>6, <1>7, <1>8, <1>9 DEF Next, Step

\* Each execution key is claimed at most once, by one worker, and closed by
\* that worker; a cleanup forgets only what nobody works on.
THEOREM Refinement == Spec => ImplementsClaims
<1>1. Init => Claims!Init
  BY SchedulerAssumption DEF Init, Claims!Init, claim, working, Executing
<1> QED
  BY <1>1, StepRefines, Inductive, PTL DEF Spec, ImplementsClaims, Claims!Spec
=============================================================================
