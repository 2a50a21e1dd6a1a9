------------------------------ MODULE TradingDesk ------------------------------
(***************************************************************************)
(* What a recalculation or a page makes of the roots as the days pass: the *)
(* trading session (libs/session), the roots' rows in the database         *)
(* (libs/domain/repository), the continuous series (libs/continuous) and   *)
(* the council's signals, in the order of libs/domain/service.             *)
(*                                                                         *)
(* Time is Moscow's, in days and minutes; day 0 is a Monday.  A sync       *)
(* brings two things of MOEX into the process's copy: which contracts are  *)
(* suspended (TRADINGSTATUS), and a calendar, whose entries override the   *)
(* rule sets.  Listing names the contracts of the copy.                    *)
(***************************************************************************)
EXTENDS Council

CONSTANTS
    Listing,      \* the contracts: [root, expiry, last], by their code
    RootFacts,    \* of a root: [asset, liquidity, active, next, series], as bundled with the code
    UnifiedFrom,  \* the first day of the unified rule set
    LastDay, Minutes,  \* bounds: the last day, and the minutes of a day at which anybody looks
    Calendars,         \* what the calendar endpoint may answer: functions from days to links
    MaxChanges,        \* bound
    NoEvent

VARIABLES
    day, minute,
    suspended,    \* the contracts suspended in the process's copy
    overrides,    \* calendar_overrides: the links of the days MOEX has named so far
    changes,      \* how often a sync has changed the suspended contracts or the links
    roots,        \* the root rows: [active, next]
    flags,        \* the contract rows that are not active
    behind,       \* history: the trading day has gone back since the rows were last rewritten
    desk          \* desk[r]: what the last recalculation made of root r

deskVars == <<day, minute, suspended, overrides, changes, roots, flags, behind, desk>>

Codes == DOMAIN Listing
DeskRoots == DOMAIN RootFacts
ContractsOf(r) == {c \in Codes : Listing[c].root = r}

\* The contracts bundled as active and next are the root's first to expire, and no two of a
\* root expire within a weekend of each other.
ASSUME DeskAssumption ==
    /\ {LastDay, UnifiedFrom, MaxChanges} \subseteq Nat
    /\ Minutes \subseteq Nat /\ Minutes # {}
    /\ \A c \in Codes : Listing[c].expiry \in Nat /\ Listing[c].last \in Nat
    /\ \A c, e \in Codes :
           (c # e /\ Listing[c].root = Listing[e].root /\ Listing[c].last <= Listing[e].last)
           => Listing[c].last + 3 <= Listing[e].last

\* A link: the trading day a day's sessions belong to, and whether MOEX calls it a weekend session.
Links == [to : Int, weekend : BOOLEAN]

ASSUME CalendarAssumption == \A cal \in Calendars : \A d \in DOMAIN cal : cal[d] \in Links

ASSUME BundledAssumption ==
    \A r \in DeskRoots :
        LET facts == RootFacts[r] IN
        /\ facts.liquidity \in Nat
        /\ {facts.active, facts.next} \subseteq ContractsOf(r) /\ facts.active # facts.next
        /\ \A c \in ContractsOf(r) \ {facts.active} :
               /\ Listing[facts.active].last <= Listing[c].last
               /\ Listing[facts.next].last <= Listing[c].last
        /\ facts.series.active = facts.active /\ facts.series.next = facts.next
        /\ facts.series.toExpiry \in Int /\ facts.series.toLastTrade \in Int
        /\ facts.series.nextShare \in Int /\ facts.series.rollRisk \in BOOLEAN

-----------------------------------------------------------------------------
\* The sessions of the two rule sets.  The first window that fits is taken.
Weekdays == 0..4

Window(type, from, to, days) == [type |-> type, from |-> from, to |-> to, days |-> days]

LegacyWindows ==
    <<Window("morning", 420, 599, Weekdays), Window("clearing", 840, 854, Weekdays),
      Window("main", 600, 1124, Weekdays), Window("clearing", 1125, 1139, Weekdays),
      Window("evening", 1140, 1429, Weekdays)>>

UnifiedWindows ==
    <<Window("main", 410, 839, Weekdays), Window("clearing", 840, 854, Weekdays),
      Window("main", 855, 1429, Weekdays), Window("weekend", 600, 1139, 5..6)>>

\* get_rule_set and _match_window: the windows that fit, by their place in the rule set.
Windows(d) == IF d >= UnifiedFrom THEN UnifiedWindows ELSE LegacyWindows

Fitting(d, m) ==
    {i \in DOMAIN Windows(d) :
        LET w == Windows(d)[i] IN d % 7 \in w.days /\ w.from <= m /\ m <= w.to}

SessionType(d, m) == IF Fitting(d, m) = {} THEN "halted" ELSE Windows(d)[Min(Fitting(d, m))].type

NextWeekday(d) == Min({e \in d + 1..d + 3 : e % 7 \in Weekdays})

WeekendDay(d) == d % 7 \notin Weekdays /\ d >= UnifiedFrom

\* resolve_calendar_day: MOEX's link of a day, or else the rule set's.
Link(cal, d) ==
    IF d \in DOMAIN cal THEN cal[d]
    ELSE IF WeekendDay(d) THEN [to |-> NextWeekday(d), weekend |-> TRUE]
    ELSE [to |-> d, weekend |-> FALSE]

\* Fault: any halted hour belongs to the next weekday.
TradingDayAnyHalt(cal, d, m) ==
    IF SessionType(d, m) = "halted" THEN NextWeekday(d)
    ELSE IF SessionType(d, m) = "weekend" THEN Link(cal, d).to ELSE d

\* Only the weekend's sessions and halted hours go by the calendar's link.
TradingDay(cal, d, m) ==
    IF SessionType(d, m) \in {"weekend", "halted"} THEN Link(cal, d).to ELSE d

\* Where a halted session is of a day linked as a weekend it is linked to the weekend, too.
WeekendLinked(cal, d, m) ==
    SessionType(d, m) = "weekend" \/ (SessionType(d, m) = "halted" /\ Link(cal, d).weekend)

\* A calendar in order: a weekday is its own trading day, and a later day never has an
\* earlier one.  Nothing in the code asks this of what ISS answers.
Orderly(cal) ==
    \A d \in 0..LastDay + 2 :
        /\ d % 7 \in Weekdays => Link(cal, d).to = d
        /\ Link(cal, d).to <= Link(cal, d + 1).to

NearExpiry(d, c) == Listing[c].last - d <= 3

-----------------------------------------------------------------------------
\* ContinuousSeriesEngine.
Eligible(r, off, today) == {c \in ContractsOf(r) \ off : Listing[c].last >= today}

Earliest(codes) == CHOOSE c \in codes : \A e \in codes : Listing[c].last <= Listing[e].last

FrontContract(codes, preferred) == IF preferred \in codes THEN preferred ELSE Earliest(codes)

NextContract(codes, front, preferred) ==
    IF preferred \in codes \ {front} THEN preferred
    ELSE IF codes = {front} THEN front ELSE Earliest(codes \ {front})

NextShare(days) ==
    IF days <= 3 THEN 9500 ELSE IF days > 10 THEN 500 ELSE 500 + Rounded((10 - days) * 9000, 7)

Series(codes, today, preferred) ==
    LET front == FrontContract(codes, preferred.active)
        days == Listing[front].last - today
    IN [active |-> front, next |-> NextContract(codes, front, preferred.next),
        toExpiry |-> Max({0, Listing[front].expiry - today}), toLastTrade |-> days,
        rollRisk |-> days <= 10, nextShare |-> NextShare(days)]

\* The event only outside the days of the hard roll.
RollEventEarly(series, preferred) ==
    IF series.active # series.next /\ series.rollRisk /\ series.toLastTrade > 3
    THEN [from |-> series.active, to |-> series.next, status |-> "pending"] ELSE NoEvent

RollEvent(series, preferred) ==
    IF series.active = series.next THEN NoEvent
    ELSE IF preferred.active # series.active THEN [from |-> preferred.active, to |-> series.active, status |-> "applied"]
    ELSE IF series.rollRisk THEN [from |-> series.active, to |-> series.next, status |-> "pending"]
    ELSE NoEvent

-----------------------------------------------------------------------------
\* _build_reference_roots: the rows this process would write at a moment.
BundledRow(r) == [active |-> RootFacts[r].active, next |-> RootFacts[r].next]

ExpectedRow(r, today) ==
    LET codes == Eligible(r, suspended, today) IN
    IF codes = {} THEN BundledRow(r)
    ELSE LET series == Series(codes, today, BundledRow(r)) IN [active |-> series.active, next |-> series.next]

\* get_root_deep_dive and build_signals_for_root, with the rows rs and the contract rows fs.
\* The session is that of the contract bundled as active; without an eligible contract the
\* bundled series stands, and no roll is announced.
DeepDive(r, cal, d, m, rs, fs) ==
    LET today == TradingDay(cal, d, m)
        codes == Eligible(r, fs, today)
        series == IF codes = {} THEN RootFacts[r].series ELSE Series(codes, today, rs[r])
        case == [asset |-> RootFacts[r].asset, liquidity |-> RootFacts[r].liquidity,
                 weekend |-> WeekendLinked(cal, d, m), clearing |-> SessionType(d, m) = "clearing",
                 near |-> NearExpiry(d, RootFacts[r].active), series |-> series]
    IN [tradingDay |-> today, series |-> series, eligible |-> codes,
        event |-> IF codes = {} THEN NoEvent ELSE RollEvent(series, rs[r]),
        signals |-> UNION {Signal(case, h) : h \in Horizons}]

\* seed_demo_snapshot rewrites the rows when a root's differ, the contracts' flags with them.
Refreshed(today) == [r \in DeskRoots |-> ExpectedRow(r, today)]

\* Fault: the contract rows are left alone.
FlagsKept(rs) == flags

FlagsAfter(rs) == IF rs # roots THEN suspended ELSE flags

Recalculated(cal, d, m) ==
    LET today == TradingDay(cal, d, m)
        rs == Refreshed(today)
        fs == FlagsAfter(rs)
    IN /\ roots' = rs /\ flags' = fs
       /\ behind' = (rs = roots /\ (behind \/ today < TradingDay(overrides, day, minute)))
       /\ desk' = [r \in DeskRoots |-> DeepDive(r, cal, d, m, rs, fs)]

\* dict.update.
Updated(old, new) ==
    [d \in DOMAIN old \cup DOMAIN new |-> IF d \in DOMAIN new THEN new[d] ELSE old[d]]

NoOverrides == [d \in {} |-> [to |-> d, weekend |-> FALSE]]

Change == changes < MaxChanges /\ changes' = changes + 1

\* Since the last look the calendar stayed, a sync merged entries into it, or the process has
\* been restarted without any.  Nobody reads the calendar between two looks.
CalendarSynced ==
    \/ UNCHANGED <<overrides, changes>>
    \/ /\ Change
       /\ \E answer \in Calendars : overrides' = Updated(overrides, answer)
    \/ overrides # NoOverrides /\ overrides' = NoOverrides /\ UNCHANGED changes

Moment(d, m) == day' = d /\ minute' = m

\* The next moment anybody looks, at which everything is recalculated.
Look ==
    /\ CalendarSynced
    /\ LET later == {m \in Minutes : m > minute} IN
       IF later # {}
       THEN Moment(day, Min(later)) /\ Recalculated(overrides', day, Min(later))
       ELSE day < LastDay /\ Moment(day + 1, Min(Minutes)) /\ Recalculated(overrides', day + 1, Min(Minutes))
    /\ UNCHANGED suspended

\* An automatic sync finds other contracts suspended than the last one did.
SyncStatus ==
    /\ Change
    /\ \E off \in SUBSET Codes : off # suspended /\ suspended' = off
    /\ UNCHANGED <<day, minute, overrides, roots, flags, behind, desk>>

DeskInit ==
    /\ day = 0 /\ minute = Min(Minutes)
    /\ suspended = {} /\ flags = {}
    /\ overrides = NoOverrides /\ changes = 0
    /\ roots = Refreshed(TradingDay(overrides, day, minute)) /\ behind = FALSE
    /\ desk = [r \in DeskRoots |-> DeepDive(r, overrides, day, minute, roots, flags)]

DeskNext == Look \/ SyncStatus

DeskSpec == DeskInit /\ [][DeskNext]_deskVars

DeskTypeOK ==
    /\ day \in 0..LastDay /\ minute \in Minutes
    /\ suspended \subseteq Codes /\ flags \subseteq Codes
    /\ changes \in 0..MaxChanges /\ behind \in BOOLEAN /\ \A d \in DOMAIN overrides : overrides[d] \in Links
    /\ roots \in [DeskRoots -> [active : Codes, next : Codes]]
    /\ \A r \in DeskRoots : \A s \in desk[r].signals :
           /\ s.direction \in Directions /\ s.verdict \in Verdicts /\ s.contract \in ContractsOf(r)
           /\ s.confidence \in 3500..9500 /\ s.priority \in 1..99

-----------------------------------------------------------------------------
\* The trading day never goes back, over weekends, halted hours and the change of rule sets,
\* unless the calendar changes or is out of order: a sync or a restart between two looks, or a
\* calendar that links a Saturday to the Tuesday after, does take it back.
TradingDayForward ==
    [][(\E r \in DeskRoots : desk'[r].tradingDay < desk[r].tradingDay)
       => overrides' # overrides \/ ~Orderly(overrides)]_deskVars

\* While the calendar is in order and stays, and the trading day has not gone back behind the
\* rows, a root's series moves to another contract only after a page announced that very roll
\* as pending, unless MOEX suspended or resumed a contract in between or none is left to trade.
\* Where the process's copy has no contract of the root left, its row may lag behind: then the
\* page says that the roll from the row's contract has been applied, and no other.
RollAnnounced ==
    [][\A r \in DeskRoots :
           (/\ desk'[r].series.active # desk[r].series.active
            /\ flags' = flags /\ desk'[r].eligible # {}
            /\ overrides' = overrides /\ Orderly(overrides) /\ ~behind)
           => \/ desk[r].event = [from |-> desk[r].series.active, to |-> desk'[r].series.active, status |-> "pending"]
              \/ /\ desk[r].series.active # roots[r].active
                 /\ desk[r].event = [from |-> roots[r].active, to |-> desk[r].series.active, status |-> "applied"]
      ]_deskVars

\* Whenever a page is made and the process's copy has a contract of the root to trade, the
\* series goes on with the contracts the root's row names: the row is computed from the copy
\* and the bundled preference, the series from the row and the contract rows, which a refresh
\* rewrites only where a root's row changed.  Once the calendar has taken the trading day back
\* behind the rows, the contract rows may be stale and the series may differ.
SeriesAsRows ==
    [][\A r \in DeskRoots :
           (/\ desk' # desk /\ ~behind'
            /\ Eligible(r, suspended', desk'[r].tradingDay) # {})
           => [active |-> desk'[r].series.active, next |-> desk'[r].series.next] = roots'[r]]_deskVars

\* The skeptic's objection "contract sits inside near-expiry or roll-risk window", of the
\* contract the signal names.
NearExpiryMeansNear ==
    \A r \in DeskRoots : \A s \in desk[r].signals :
        s.nearExpiry => Listing[s.contract].last - desk[r].tradingDay <= 10

=============================================================================
