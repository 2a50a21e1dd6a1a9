# TLA+ models of the MOEX futures signals stack

The system turns market data into signals, stores them, and delivers them by
Telegram on a schedule, under prompts and preferences an operator edits in a
browser. It is a set of processes around one database:

- the **API process** (FastAPI, `src/apps/api`). Its handlers are `async def`
  with synchronous bodies, so one process serves one request at a time;
- **scheduler workers** (`src/apps/worker/runner.py`): a polling daemon
  (`run-scheduler-loop`), ticks started every minute by the Task Scheduler or
  cron, and one-off command line calls. Several may run at once;
- the **database** (SQLite or Postgres). Every method of
  `src/libs/domain/repository.py` is one transaction; nothing spans two methods;
- **external services**: Telegram, MOEX ISS, Finam.

What is hard to test is what happens between two repository methods: another
process runs, the clock moves, the process dies. The modules therefore take one
repository method (or one read the code decides on) as one step.

## Inventory

| Component | State | Operations | What makes it correct |
|---|---|---|---|
| Recurring scheduler, `libs/scheduler/service.py` | tables `scheduler_locks`, `scheduler_runs` | `run_loop`, `run_due`, `run_job`, `plan` | an occurrence runs once; a live lease is respected; runs are closed; a dead leader is replaced |
| Retention, `purge_operational_data_older_than` | the operational tables | cleanup by job, API, CLI | forgetting history must not reopen what it protects |
| Prompt governance, `libs/runtime/service.py` | `runtime_role_prompts`, audit log | update, restore, approve, dismiss, reset | a fixed prompt was a draft first and every prompt passed the checks; the log explains the row; no stale draft is offered |
| Routes, thresholds, readiness gate, `libs/runtime`, `routes/health.py` | `runtime_model_routes`, the freshness policy, audit trail | update, reset, snapshot, gate | the trail tells what is in effect; the gate fails for the reason it gives |
| Delivery preferences, `libs/preferences/service.py` | one row per profile | save, mark and undo skip-next, clear | settings and marks survive each other's writes; a mark is spent once |
| Telegram delivery, `libs/notifications/service.py` | delivery events, the chat | preview, send | nothing is sent without consent; the log shows only what was delivered |
| Signal life cycle, `libs/signals`, `arbiter`, `resolution`, `journal`, `pipeline` | final signals, versions, resolutions, journal | build, resolve, workflow, replay | a resolved signal stays resolved; every resolution has its signal |
| MOEX reference, `libs/reference/service.py`, `repository.py` | a copy per process, the roots' and contracts' rows, two time stamps | sync, sync if due, seed, refresh of the rows | a failed or half finished sync is made good; the rows follow MOEX |
| Market data, `libs/marketdata/service.py` | two caches, Finam's token | quote, snapshot | nothing older than its time to live is shown, and of the right contract |
| Trading desk, `libs/session`, `libs/continuous`, `libs/domain/service.py` | the rows, else pure | session, trading day, series, roll event, deep dive | trading days go forward; rolls are announced; series and rows agree |
| Council, `libs/features`, `analysts`, `skeptic`, `arbiter` | none | features, analysts, verdict, signals | an objection is about the contract it names |
| Workspace page, `routes/dashboard.py` | caches, popovers, compare slots, local storage, charts | preview, pin, compare, refresh, gestures | late answers mark the right card; what is shown catches up, but for the panel of a signal that has lost its market data; the copy in the storage is the board; notes and cursors are true |
| Signal page | market panel, charts | refresh, gestures | levels and measurements survive a refresh or go with it |
| Page shell and forms, all pages | the document, its timer, posts on the way | swap, refresh, submit | one refresh per page; the page shows what was stored |
| Journal, adapters, quality, observability, configuration, schema | see `PROJECT.json` | | not modelled |

The components interact as follows. A scheduler job executes a pipeline recalculation,
a delivery (`TelegramNotificationService.send` with `delivery_source=schedule`)
or a cleanup. The delivery reads the preference row the API writes, and writes
it back when it clears a skip-next mark. The cleanup deletes rows the scheduler
itself relies on. Prompts are read by the dashboard and changed by it alone. Every page and every
recalculation first seeds the reference rows, and takes sessions, series and
signals from them; the pages' scripts poll the API and repaint what they show.
`PROJECT.json` lists every component with its sources, and under `hazards` each
place where the code is exposed to an order of steps no test has.

## Modules

| Module | Role |
|---|---|
| `SchedulePlan` | the calendar arithmetic of `SchedulerService`: latest and next occurrence, `due_now`, plan order |
| `Scheduler` | the lease, the job locks, the run history, the three calls, crashes, database errors, cleanup, clock |
| `OccurrenceClaims` | abstract: what the run history promises for one execution key |
| `SchedulerRefinement` | the mapping of `Scheduler` to `OccurrenceClaims`, and the inductive invariant `IInv` |
| `SchedulerProofs` | the theorems about `Scheduler` |
| `MCScheduler`, `MCSchedulerClaims` | instances for TLC |
| `PromptGovernance` | role prompts: row, audit log, checks on saving, version resolution |
| `RuntimePanel`, `MCPromptGovernance` | adds the panel around the prompts: model routes, thresholds, audit trail, cards, release gate |
| `PromptProofs` | the theorems about prompts under the panel |
| `DeliveryPreferences`, `MCDeliveryPreferences` | preference row, skip-next marks, deliveries |
| `DeliveryProofs` | the theorems about `DeliveryPreferences` |
| `SignalLifecycle`, `MCSignalLifecycle` | final signals: build, store, resolve, workflow state, purge |
| `SignalProofs` | the theorems about `SignalLifecycle` |
| `WorkspacePage` | the workspace's script: previews, compare slots, local storage, rounds of live refresh |
| `CompareBoard` | the compare board: its strips and notes, its charts with linked cursors, drags and levels |
| `MarketChart` | an interactive chart: ranges, levels, measurement, refresh |
| `SignalPage` | a signal's market panel with its charts, on top of `MarketChart` and `PageShell` |
| `PageShell` | page swaps, the refresh timer, the posts of every form |
| `MarketData` | quotes and snapshots: providers, fallback, two caches |
| `ReferenceSync` | MOEX reference: a copy per process, stamps, partial failure, refresh of the rows |
| `Council` | features, analysts, skeptic, arbiter as operators over scaled integers |
| `TradingDesk`, `MCTradingDesk` | rule sets, sessions, series, roll events, rows and deep dive over the days, with the council's signals |
| `MarketProofs` | the theorems about `MarketData`, `ReferenceSync`, `TradingDesk` and `Council` |
| `SignalPageProofs` | the theorems about `SignalPage`, with `MarketChart` and `PageShell` |
| `WorkspaceProofs` | the theorems about `WorkspacePage` and `CompareBoard` |
| `Console`, `MCConsole` | the composition of the pages and what serves them |
| `ConsoleProofs` | the theorems about `Console`, by those of its parts |

### Scheduler and the code

`lock` and `run` are the two tables; `pc` is the position in `run_loop`,
`run_due` or `run_job`. One iteration of `run_loop` is `RenewAndPlan` (renewal of
the lease, then the plan), then for every due job `CheckHistory`, `AcquireJob`,
`StartRun`, `Execute`, `FinishRun`, `Unlock` in the order of the plan, then
`EndRunDue` and, after a poll, `Wake`. `AcquireLeader` and `ReleaseLeader` frame
it. A clock reading is made in the caller and used inside a later transaction:
`since` is the earliest moment it can stem from (`ClockReading`).
`as_of` is not the clock: a caller may pass an older one (`MaxBackdate`), and the
daemon's advances by one poll per iteration whatever the clock does.

Deliberate choices: a database error in `acquire_leader` or in the release is
indistinguishable from a crash; the deletion of expired rows in
`acquire_scheduler_lock` is rolled back when the insert is refused, so it is part of
the successful branch only; a dry-run loop takes the lease and executes nothing;
the worker that has died leaves its row `running`, and the code never closes it
or runs that occurrence again, which the model shows and no property denies.
Owner ids are assumed distinct (two processes given the same `--owner-id` would
share a lease); an `as_of` in the future is not modelled.

### PromptGovernance, RuntimePanel and the code

A request is worked out from the row and the log in one step (the API process is
alone), and its writes follow one transaction at a time (`Write`), any of which may
be the last (`Crash`). `_resolve_effective_prompt_version` is `ApprovedIn`,
`_resolve_pending_prompt_version` is `PendingIn`; requests evaluate both over the newest
`HistoryWindow` events of the role, and the page (`PanelHistory`, `Card`) over the part of
them that is among the newest `OverviewWindow` events of all roles, as the code's 100 and 250.
A template is what it names and how it is worded: `CanSave` is
`_validate_role_prompt_profile`, with placeholders every role must keep (`Protected`) and may
use (`Allowed`), and `NeedsApproval` is `_role_prompt_approval_reasons`. `Renders` says which
templates `format_map` survives. Not modelled: ties of `created_at`, a second API process.

`RuntimePanel` adds `route`, `policy` and `trail`, whose writes go through the same
list of pending writes, and `ReleaseGate`, the required checks of the readiness
report. The parts share no rows, and `part` says which of them a behaviour is about, so that
the states of one are not multiplied by those of the other.

Met while modelling, and stated by no run because nothing in the repository rules
it out or the statement is a label:

- The built-in prompts of `macro_event`, `skeptic` and `arbiter` lack placeholders that saving
  demands. "Restore default" is refused for them (`runtime/service.py:1206`), although
  `dashboard.py:2179` calls the default "always available as a safe restore point".
- A field with an attribute or an index (`{root_code.x}`) is not seen by the validation and
  raises in `_render_prompt`, which catches `KeyError` and `ValueError` only: the panel and the
  readiness report fail until the prompt is reset.
- While a draft is pending the button says "Save draft" (`dashboard.py:2429`), as the label
  depends on that draft; the approval depends on the change, so that a small edit of the
  prompt in effect is saved live at once under that label.
- The data mode "live" is not reachable: the feeds carry role labels
  (`dashboard/service.py:574`), which `_derive_data_mode` compares with role codes (line 631).

### DeliveryPreferences and the code

A `send` first previews: `IsQuietHours`, `AllowsEventKind`, `ShouldSkipNextEvent`
and `ShouldSuppress` are separate reads of the row, as in the code. `Deliver` then
posts, or goes on to clear the mark (`ReadRow`, `WriteRow`), and
`RecordDeliveryActivity` writes the event. The user's save, mark and undo are the
same read and write of the whole row. Settings are the subscribed kinds, whether
quiet hours are set, and their policy. Roots, horizons, thresholds and the digest
size are left out, as are the activity events of marking and undoing, and API calls
that pass themselves off as scheduled.
The history variables `saved`, `marked`, `unspent`, `consent` and `overlapped` say
what the user has asked for; no action reads them.

### SignalLifecycle and the code

A call (`Begin`) goes through its roots. For each, `Build` is the council's result for the
moment (which horizons yield a signal, and with which card, is open), `Store` is
`upsert_final_signals`, and a pass of `Lookup` and `WriteResolution` over the signals just built is
`resolve_if_due`. A recalculation that resolves makes a second pass (`EndPass`) with its
`as_of`; a page that finds no signals and builds them makes one. Failures of a
repository call are swallowed as in the code: a failed lookup counts as none. The
id of a signal names day, series and priority, so a rebuild on the same day
replaces the row and one on the next day makes a new one. The day is two ticks, the horizon
one day (the shortest in the code). A workflow change that first has to build its
signal is a build followed by `SetWorkflowState`. The journal is left out.

### The pages and the code

A page is HTML with a script that shares nothing with the next page but the
server, local storage and the window it is written into. The script is single-threaded,
so a handler up to its next `await` is one action, and each answer another.

- `WorkspacePage`: `cache` of snapshots, popovers with their chips, compare slots with their
  marks and pin buttons, local storage, requests on the way, rounds of live refresh. A snapshot
  is the version of the market it was taken at, 0 for "no data". Answers come in any order, fail
  or are abandoned with the page. `PersistCompareState` and `RestoreCompareState` may fail, which the script swallows
  (`dashboard.py:6370`, `6391`), and another tab stores its own board under the same key (`OtherTabStores`); the history
  variable `ownCopy` says that neither has happened since this tab last wrote or read the copy. A signal that is there may
  come without market data (`Priceless`: `build_signal_snapshot` passes on the None of `dashboard/service.py:1092` and
  `1113`): its popover and card then show the signal without a price, and the panel is left as it is
  (`dashboard.py:7394`). A page swap is a reload here; the price line and the drawing are
  left out; a page that is hidden is one whose timer does not fire; overlapping rounds are bounded.
- `CompareBoard`: `Draw` is `renderCompareBoard` as a whole; `strip` keeps what the notes say,
  `history` what the next notes are made of, `card` the charts and `gesture` the drag and the
  pending clearing of the cursors. Roots' cards and strips stand for the signals' as well, whose
  code is the same with other names. `Gain` is a fixed order of the roots' changes; a pointer that drags
  is captured by its chart.
- `MarketChart`, `SignalPage`: the closure's variables (`measureState`, `measurePointerId`, `activePoints`,
  `activeOverlayKey`) and what survives in the panel's dataset. After every live refresh the chosen range falls back
  to "full" and a measurement is dropped, as in the code. Of the prices a pointer snaps to, the levels are told apart,
  so that a drag from one level to another over the same bar spans something; the line of the current price is left
  out. The history variable `chosen` is the level somebody last chose on a chart; it ends with the document, or where
  a snapshot has levels without it.
- `PageShell`: documents, timers, swaps and posts. A document is the number of stored changes it was rendered with.
  Whether a script written over another one that declared the same constants runs depends on the browser, and is a
  choice. `runDeliveryAction` parses the body of the answer before it looks at `response.ok` (`dashboard.py:7808`): a
  refusal whose body is no JSON leaves its status at "Sending...", which is `LosePost`.

### What serves the pages, and the code

- `MarketData`: a request reads the clock once and passes the reading to a full snapshot of the selected root and to
  quotes of all roots; asking a provider takes time. Both caches are keyed as in the code. Finam's token is fetched
  once and never renewed, so that a root whose prices come from Finam falls back to the next provider once it has
  expired. A datum is its provider, contract and moment; whether live data is enabled is chosen at the start; a roll
  happens between requests.
- `ReferenceSync`: a version is what ISS publishes; each process has a copy and the stamps of
  `sync_from_iss_if_due`, and the database the rows and the state row, which are written in two
  transactions. Ages stop at the interval, beyond which nothing tells them apart. Versions differ in a
  contract they both name or in an active contract, which is what the comparison sees. With two processes
  the rows alternate between their copies, each rewriting them from its own: `RowsCatchUp` is about one.
- `TradingDesk`: a moment is a day and a minute of Moscow's time, day 0 a Monday (2026-03-16). `Link` is
  `resolve_calendar_day`: an entry of `calendar_overrides`, or else the rule set's. `CalendarSynced` is what became of
  the overrides since the last look: a sync merged an answer of the calendar endpoint into them (`Calendars`: any
  days, any links), or a restart lost them. `ExpectedRow` and `Series` follow `_build_reference_roots` and the
  continuous engine over the bundled listing, from which MOEX may suspend and resume contracts. `Look` is a page or a
  recalculation: seed, session, series, deep dive and the signals of `Council`.
- `Council`: scores are integers in the precision the code rounds to, so verdicts and thresholds
  are decided as in the code; its results were compared with the program's own for every root,
  horizon and day of half a year. Observations it led to, which no doc contradicts: with the bundled roots the
  outcomes reject, human review, bearish and invalidated do not occur; a signal keeps its id when
  its direction or its contract changes within a trading day; a suspension moves the series
  to the next contract and its end moves it back; the last 59 seconds of each session window are
  halted, as windows end at a whole minute.
- `Console` puts pages and services side by side. The parts change no common state, so
  a behaviour is about one (`screen`) and the others rest: every action, property and fairness condition
  is checked under one specification without multiplying the states of unrelated parts.

## Runs

| Run | Question | Bounds | Result |
|---|---|---|---|
| `scheduler` | Do lease, locks and history hold against each other? | two workers, both may fail anywhere; five ticks; one job that is itself a cleanup; one forced run; retention of three ticks | passes, 1.0 million states |
| `scheduler_live` | Do runs settle, and does a dead lease recover? | one sound and one failing worker, four ticks | passes, 115 thousand states |
| `scheduler_single_active` | Is one loop active at a time? | as documented: lease twice the poll | violated: an iteration that outlasts the lease |
| `prompts` | Has what is in effect been governed, does the trail explain it, and is no stale draft offered? | two roles, three templates, two modes, four versions; windows of three and, for the page, two; four changes of routes and thresholds; a crash between any two writes | passes, 0.6 million states |
| `prompts_superseded` | Does a superseded draft stay so? | one role | violated: dismissing the newest draft revives it |
| `panel_gate` | Does the release gate fail for the reason it gives? | as `prompts`, and a template that does not render | violated: one stored route hides the others |
| `delivery` | Is consent respected, and do marks and settings survive? | API and one worker, two kinds, four calls, crashes at any step | passes, 1.0 million states |
| `delivery_skip_next` | Does a mark mute one delivery only? | API and one worker, one kind, four calls | violated: a stale write brings the mark back |
| `signals` | Are resolutions timely and final, and is the user's state kept? | API and one worker, one series, two cards, three ticks, failing calls, crashes, a purge | passes, 2.9 million states |
| `signals_unresolved` | Is a signal resolved automatically once its horizon has passed? | no failures; a worker that recalculates for ever | violated: only signals just built are looked at |
| `desk_near_expiry` | Is a contract near its expiry when the skeptic says so? | all roots, 76 days, five minutes of a day | violated: the flags are the bundled contract's |
| `console` | Do pages tell the truth whatever the order of answers, gestures and refreshes, and do prices, reference rows, trading days, rolls and series agree behind them? | see below | passes, 0.5 million states |

Why the bounds are enough: two workers suffice for every race on a key, as a
third has nothing to hold that two cannot; five ticks cover a lease taken,
lapsed, taken over and purged within one run (`LeaderLease`, `MinJobLock` and
`Poll` are one tick, `MaxLag` two). Four versions cover draft, dismissal, approval and
overflow of a window of three. Four calls cover mark, delivery, save, delivery. Three ticks are
two days: a signal built on the first can be rebuilt on it, fall due, and be
resolved on the second, or earlier by an `as_of` in the future.
The bound `MaxLag` says that a call does not trail the clock further than
that: the Task Scheduler kills a tick after five minutes; for the daemon it
is an assumption. `MaxLog` and `MaxCalls` end the behaviours of their modules; of
the passing runs `prompts` and `console` reach such an end and turn the deadlock check off.
For `console`: one root, one signal, one slot, three clicks, two requests and two rounds in the workspace (an answer
overtaken by a newer one, and a round that repairs it), opened with the panel about the signal, when the root has no
data or when the signal gets its price just after the page was rendered (`Openings`), and one event from outside
(`MaxOutside`), which is a move of the market (the root gets data, or the signal loses its price), a write or read of
the storage that fails, or another tab's write; clicks, failed answers and events from outside come to four together
(`MaxEvents`); two roots on the board, three drawings; two pointers, two levels and one refresh on a chart; five kinds
of forms, three posts, four page loads and one lost request among the forms; one root with two contracts and a clock
of two with a time to live of one, so that both caches expire; two published versions, a roll, a restart and a failure
for the reference; 100 days of `Si` and `BR` with their bundled contracts, four minutes of each day (night, morning,
afternoon, evening), and one sync that suspends contracts or brings a calendar (`MaxChanges`), with restarts that lose
it, which cover expiries, hard rolls, weekends and the change of rule sets on day 7. The calendars are two for the
weekend before the first expiry, one in order and one that links the Saturday to the Tuesday. Beyond the run are
several events from outside of the workspace or of the desk together, which the proofs of their safety cover.
In `MCScheduler` the workers are symmetric in the safety run only.

`ResolutionStays` speaks of signals that no two processes resolve at the same time and whose
lookup did not fail: without a lock, the second writer replaces the first one's row.

A property that fails without some condition carries it: `MarkStays`, `MarkSpentOnce` and `SettingsStay` hold as long
as no two writes of the row have overlapped (`Overlaps`), and `delivery_skip_next` shows one that fails when they do;
`TrailExplainsPanel` and `NoStaleOffer` speak of what has reached the log, because a crash between row and log
separates them; `StartsOnce` needs a retention longer than the tolerance and the lag, and fails with the retention of
0 days that a cleanup request may ask for. `PageTells` excepts page requests on the way together, `RollAnnounced`
suspensions, roots with no contract left and rows that lag behind their series; the last was found by the proof, see
there. `StoredAsLeft` excepts failures of the storage and other tabs (`ownCopy`), until the next write that succeeds.
`ViewsCatchUp` excepts the panel of a signal whose newest snapshot has no market data, which keeps its older price for
as long as that lasts; the signal page, in the same case, says that there is none (`dashboard.py:11322`). No doc says
what the workspace should do there. `TradingDayForward` excepts a look before which the calendar changed, and a
calendar out of order (`Orderly`: a weekday linked to another day, or a day linked past where a later one is): the
sync or the restart between two looks may take the day back, and so may a Saturday linked to the Tuesday when the
Monday comes, as the code asks nothing of what ISS answers. `RollAnnounced` excepts these as well, and with
`SeriesAsRows` the looks after the day has gone back behind the rows (`behind`), up to the next rewrite of the rows.

### Fairness

`LiveSpec` assumes that a called worker goes on, that the clock advances, and
that a worker which does not fail is started in a loop again and again
(`scripts/register_windows_scheduler_task.ps1` and the cron file start one every
minute). The last is strong fairness: the worker may be in some other call whenever
the moment comes. Workers in `FaultProne` may die or fail at any step, with no
promise that they come back. `LiveSpec` of `SignalLifecycle` assumes the same of the job
`recalculate-open`: its worker goes on, the clock advances, and the job is run again and
again. The counterexample does not need any of it to fail.

`ConsoleFairness` assumes that every request of a page (`AnswerRequest`) and every round of its live refresh
(`AnswerRound`) is answered or fails at last, that the live refresh timer fires again and again, that the server
serves the posts it was sent, that hours pass, and that pages go on to be loaded, each of which seeds the reference
rows. Clicks, crashes, restarts, publications and the market's moves are not fair, and bounded.

## Proofs

`SchedulerProofs` holds for any set of workers, any jobs, lease, poll, tolerance,
retention and lag that meet the named assumptions (`SchedulerAssumption`,
`JobSpecAssumption`, `DayAssumption` and, for the history, the retention assumption of
`SchedulerRefinement`).

- `TypeCorrect`: the type invariant with the bounds of clock readings (`ClockInv`).
- `LeaseSafety`: `LeaseHolds`. The lease a worker believes in is the one stored as
  long as it has not run out. An acquire needs an expired row at a reading not after
  the clock, a renewal or a release needs the owner, a purge needs an expiry before its
  cutoff; so the row of a live lease is out of everyone else's reach.
- `LeaseKept`: the action form, `LiveLeaseKept`.
- `Inductive`: `IInv`, the strengthening that is needed because `StartsOnce` and
  `SoleRunner` are not inductive: they do not say why a key whose row has been purged
  cannot be started again. `IInv` adds that a worker holding a key is not further
  past the occurrence than tolerance and lag allow, so that a purged row is too old for it.
- `StartedOnce` and `RunsAlone` follow from `IInv`.
- `LatestOccurrence` and `NextOccurrence`: `SchedulePlan` looks eight days back and fifteen
  ahead for an occurrence, as the code does. For every instant there is one in each, and it is
  the last, or the first, of all occurrences, whatever the weekdays of the job.
- `NoneMissed`: an enabled job with a tolerance of a day or less misses no occurrence of which one poll
  falls before it and the next no more than the tolerance after that one: the second finds it due. A
  daemon slower than that, or one that stopped, does miss it.
- `Refinement`: every step of `Scheduler` is a step of `OccurrenceClaims` or a
  stutter under the mapping of `SchedulerRefinement`.

`PromptProofs` is about `PanelSpec`, the prompts with routes, thresholds and crashes around them, for any roles,
templates, checks, models, thresholds and windows that meet `PromptAssumption` and `PanelAssumption`.

- `GovernedInductive`: `GovernedInv`. What is in effect is only as good as what is about to be written, so the
  invariant speaks of the list of pending writes as well: a row write in it is governed already. A write is put on the
  list by a request that has checked it; a prompt is made fixed only from an approval, whose version is an event of
  the log.
- `PromptsGoverned`: `EffectiveWasGoverned`.
- `PromptsTyped`: the type invariant.
- `AuditInductive`: `AuditInv`. Rows are written before their events, so what the log tells is true of the rows only together
  with the events still to be written: such an event names a version that is in the log already, and a state it applies is in
  effect, or is written right before it (`Explained`); where no write was cut off, the log's last applied state is in
  effect or about to be replaced (`LastTells`); and a dismissal is about an earlier event (`LogInv`).
- `NothingStaleOffered`: `NoStaleOffer`. The draft a window finds pending is the newest event after every decision it
  sees. A decision outside the window is older than everything inside; and a dismissal inside it names its draft, so
  that a window, however short, offers the draft the whole log has pending, or none.
- `TrailInductive`: `TrailInv`, the same for routes and thresholds. A reset writes one event about every role after
  the routes are deleted; the invariant says of each event to come that its value is written before it and not over
  again (`Backed`).
- `TrailExplains`: `TrailExplainsPanel`, from both.

`DeliveryProofs` is about any finite set of workers, any kinds, settings and number of calls that meet
`DeliveryAssumption`.

- `DeliveryInductive`: `DeliveryInv`. A delivery's separate reads of the row see different rows, so the invariant says
  what each has found and that it was true at some moment of the call (`Aware`, `Sendable`); without overlapping
  writes the row is what the user saved and holds every unspent mark (`MarkInv`).
- `DeliveryTyped`, `MarksStay`, `SettingsKept`, `ConsentGiven`: `TypeOK`, `MarkStays`, `SettingsStay` and `SentWithConsent`.
- `LedgerInductive`: `LedgerInv`, relative to `DeliveryInv`. It counts the deliveries that have sent, or
  cleared a mark, and not yet recorded it: messages cover these and the log (`SentInv`), and marks made
  cover the row's mark, these and the log (`SpentInv`). A crash takes a delivery out of the count.
- `LoggedWithinChat` and `MarkSpent`: `LogWithinChat` and `MarkSpentOnce`.

`SignalProofs` is about any workers, roots, horizons, cards and retentions that meet `SignalAssumption`, with or without
failures.

- `SignalInductive`: `SignalInv`. A process carries signals from its build over a lookup to a write while others
  rebuild, resolve and purge them: a signal in its hands was first built no later than here, and the one about to be
  resolved has reached its horizon (`ProcessInv`); a row that is not there has no choice to keep (`WorkflowInv`); two
  processes resolve a signal only if they are counted as having met (`MeetInv`).
- `SignalTyped`, `NeverEarly`, `ChoiceKept`, `ResolvedOnce`: `TypeOK`, `NotBeforeHorizon`, `WorkflowKept` and
  `ResolutionStays`.

The four modules that follow are about the pages and what serves them. Each proves its part's invariant from the part's own
`Init` and `Next`; `ConsoleProofs` puts them together.

`WorkspaceProofs` holds for any roots, signals, slots, timeframes, requests and overlapping rounds that meet
`PageAssumption`, with as many requests as there are places on the board (`PlacesFit`: a reload asks for all of them
at once; the browser has no such bound).

- `PageInductive`: `PageInv`, the properties with the types and one thing more: a request that is not for a preview is
  for a place on the board. An answer changes nothing of a board but marks; boards with the same pins (`SamePins`) are
  stored alike and light the same buttons.
- `PageTypesHold`, `CopyIsCurrent`, `ButtonsTell`: `PageTypeOK`, `StoredAsLeft`, `PinButtonsTell`.
- `AnswersPinNothing`, `OnlyClicksOpen`: the action properties `AnswersKeepPins` and `RefreshOpensNothing`.
- `BoardStepKept` and `BoardStepTells`, of which `ConsoleBoard` is made: `BoardInv` says that the strips show the
  comparison the next drawing is told against (`strip.context = history`), and that a level outside the pointer's
  reach is the marked one on every chart that has it.

`SignalPageProofs` holds for any pages, forms, posts and page requests, charts, pointers, levels and numbers of bars
that meet `ShellAssumption`, `ChartAssumption` and `SignalPageAssumption`.

- `SignalInductive`: `SignalInv`. `OneRefresh` is not inductive, as a timer is stopped by the variable `stopper` and
  not by its own name: `TimerInv` ties the two. `PageTells` speaks of a page at rest; `ToldInv` says what holds
  before: a change the browser was told of is on the page, or is asked for by the only page request on the way, which
  left after it was stored, or by a refresh that is due. For `MeasureFits` a measurement is one of the bars of the
  chart's range and of the snapshot it shows, and what is not held is finished (`Fits`). For `LevelKept`, which speaks
  of a panel that is there, a level that was chosen is the one the panel keeps while it is away or has no levels
  (`Held`).
- `SignalTyped`, `MeasurementsFit`, `OneRefreshRuns`, `ChangesShown`, `LevelsKept`: `SignalTypeOK`, `MeasureFits`,
  `OneRefresh`, `PageTells`, `LevelKept`.

`MarketProofs` is about three modules. The quotes are proved for any roots, contracts, provider names, time to live
and clock bound that meet `MarketAssumption` (the root and provider names are strings, the contracts have a first
one).

- `MarketInductive`: `MarketInv`, the inductive invariant. `ServedFresh` speaks of what a page shows, and a page shows
  what a cache holds: the invariant adds that an entry is of its key's contract and is stamped no later than its price
  was given (`CacheInv`), and that a price still waiting for its candles was given after the request read the clock
  (`FetchInv`).
- `FreshlyServed`: `ServedFresh`. The entry carries the reading of the clock the request began with, so the time its
  providers took makes the entry expire sooner and never later; stamping it at the answer would break the inequality.
- `ReferenceStepKept`, `ReferenceTyped`: `ReferenceInv`, the types of what processes, rows and stamps hold, for any
  number of processes, versions, failures and any interval that meet `ReferenceAssumption`.
- `DeskInductive`: `DeskInv`. Row and series are computed by different rules, and rows are kept for days: the
  invariant says that there is a day, not after the trading day unless the calendar took that back since (`behind`),
  from which the rows were made, with the status the page shows. Contracts only stop being eligible, those bundled as
  active and next are the first two of their root (`BundledAssumption`), and two contracts of a root expire further
  apart than the days of a hard roll and a weekend (`DeskAssumption`; both are facts of
  `src/libs/domain/demo_data.py`, which `MCTradingDesk` lists and TLC evaluates, and not of the algorithm). So row and
  series can differ only in whether the first contract is gone.
- `DaysGoForward`: `TradingDayForward`, from `TradingDayMoves`: by an orderly calendar, a trading day is never before
  its calendar day, one look later it is not earlier and at most three days later, on either side of the change of
  rule sets; without entries the next weekdays of the rule set are such a calendar.
- `RollsAnnounced`: `RollAnnounced`. The attempt to prove it without its second case failed, and TLC found why in a
  listing of one root and four contracts: MOEX suspends all but the active contract, which then expires. The process's
  copy has nothing left to trade, so its row falls back to the bundled contracts; that is the row already stored, so
  nothing is rewritten, and the contracts' own rows still have the others unsuspended (`seed_demo_snapshot` compares
  the roots alone). The series rolls on through these, and as long as the row lags behind (`desk[r].series.active #
  roots[r].active`) every page says `applied` of the way from the row's contract and none announces the next roll as
  `pending`. No doc promises otherwise. `console`, with one suspension, meets the first case alone.
- `SeriesFollowRows`: `SeriesAsRows`. `DeskTypesHold`: `DeskTypeOK`, for which the council's arithmetic is bounded
  step by step: probabilities and confidences are clamped, and the whole that the arbiter divides by is never nothing
  (`SharesAre`).

`ConsoleProofs` holds under all the assumptions above.

- `ConsoleMoves`: a step of the console is, for each of its parts, a step of that part or a stutter.
- `ConsoleInductive`, with `ConsoleInv`, the conjunction of the parts' invariants; from it `ConsoleTyped`
  (`ConsoleTypeOK`), `ConsoleBoard` (`BoardTells`), and the parts' theorems for the specification `console` runs:
  `ConsoleStored`, `ConsolePages`, `ConsoleQuotes`, `ConsoleAnswers`, `ConsoleLevels`, `ConsoleDays`, `ConsoleRolls`,
  `ConsoleSeries`.

Numbers of the modules' bounds (`MaxClicks`, `LastDay` and the like) are constants of the theorems too: they hold for
behaviours of any length.

Only model-checked: liveness (`RunsSettle`, `LeaseRecovers`, `ViewsCatchUp`, `RowsCatchUp`, `BusyEnds`), which is out
of the prover's reach, and the properties of the runs that expect a violation. What `Council` computes, beyond its
bounds, is checked over the listing's days alone.

## Not modelled

HTML and its translations, most read models of the dashboard, drawing and formatting in the
pages' scripts, message texts, the parsing of provider and ISS payloads,
migrations and deployment files: see `components` in `PROJECT.json` for each with its reason. The
scheduler's command results and the JSON stored with a run are left out, as no decision reads them.

## Plan

1. Scheduler: done, with proofs.
2. Prompt governance and the runtime panel: modelled and checked, every safety property of the run proved.
3. Delivery preferences: modelled and checked, every property of the run proved.
4. Signal life cycle: modelled and checked, the safety properties of the run proved. To add: the journal; to state: an
   abstract specification of a signal's shown status, which a purge takes back from resolved to active.
5. Pages, market data, reference, trading desk and council: modelled and checked, the safety properties of the run
   proved. To prove: that the rows of the reference are of a version some process has read, and never newer than its
   copy. To add: the candles behind a snapshot, the ranking of all roots.
6. `SchedulePlan` against the occurrences of the whole calendar: proved. Quiet hours across midnight: to do.
7. Composition of the scheduler with a delivery: a due delivery reaches the chat at most once.
