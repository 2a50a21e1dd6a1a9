----------------------------- MODULE ReferenceSync -----------------------------
(***************************************************************************)
(* Reference metadata: the contracts MOEX ISS publishes, each process's    *)
(* copy of them in memory (libs/reference), the rows of the database and   *)
(* the row that says when and from where they were synced                  *)
(* (libs/domain/repository.py).                                            *)
(*                                                                         *)
(* Every page and every recalculation first calls seed_demo_snapshot,      *)
(* which may sync with ISS and then writes the process's own copy into the *)
(* database where the two differ.  Operators and the scheduler can also    *)
(* sync directly.  The processes share the database only, and a process    *)
(* that restarts is back at the contracts bundled with the code.           *)
(*                                                                         *)
(* A version stands for a list of contracts: versions differ in a contract *)
(* they both name or in the active contract of a root.  Moments are kept   *)
(* as ages, which stop at Interval: nothing tells older ones apart.        *)
(***************************************************************************)
EXTENDS Naturals

CONSTANTS
    Processes,   \* the API and the workers
    Interval,    \* moex_reference_auto_sync_interval_hours, in ticks
    Cooldown,    \* moex_reference_retry_cooldown_minutes, in ticks
    AutoSync,    \* moex_reference_auto_sync_enabled
    MaxPublished, MaxRolls, MaxRestarts, MaxSyncErrors, MaxDirect,  \* bounds
    Never, NoRows, NoSync

ASSUME ReferenceAssumption ==
    /\ {Interval, Cooldown} \subseteq Nat /\ Cooldown <= Interval /\ Interval > 0
    /\ AutoSync \in BOOLEAN
    /\ {MaxPublished, MaxRolls, MaxRestarts, MaxSyncErrors, MaxDirect} \subseteq Nat /\ MaxPublished > 0

VARIABLES
    published,  \* the version MOEX publishes
    rolls,      \* how often the calendar has moved some root to its next contract
    proc,       \* proc[p]: the process's copy, its stamps and the call it is in
    rows,       \* root_series and contract_meta: what they reflect, the newest contract's age
    sync,       \* reference_sync_state: the source named and the age of synced_at
    spent       \* restarts, errors and direct syncs so far

refVars == <<published, rolls, proc, rows, sync, spent>>

Bundled == 0
Versions == Bundled..MaxPublished
Ages == 0..Interval
ReferenceSources == {"moex_iss", "bundled_fallback"}
Steps == {"idle", "auto", "direct", "compare", "write", "record"}

\* The call a process is in: its step, the source it would record, its as_of.
NoCall == [step |-> "idle", source |-> "bundled_fallback", asOf |-> 0]

ReferenceTypeOK ==
    /\ published \in Versions \ {Bundled} /\ rolls \in 0..MaxRolls
    /\ proc \in [Processes ->
           [copy : Versions, attempt : Ages \cup {Never}, success : Ages \cup {Never},
            call : [step : Steps, source : ReferenceSources, asOf : Ages]]]
    /\ rows \in [version : Versions, rolls : 0..MaxRolls, age : Ages] \cup {NoRows}
    /\ sync \in [source : ReferenceSources, age : Ages] \cup {NoSync}
    /\ spent \in [restarts : 0..MaxRestarts, errors : 0..MaxSyncErrors, direct : 0..MaxDirect]

Fresh == [copy |-> Bundled, attempt |-> Never, success |-> Never, call |-> NoCall]

ReferenceInit ==
    /\ published = 1 /\ rolls = 0
    /\ proc = [p \in Processes |-> Fresh]
    /\ rows = NoRows /\ sync = NoSync
    /\ spent = [restarts |-> 0, errors |-> 0, direct |-> 0]

-----------------------------------------------------------------------------
At(p, step) == proc[p].call.step = step
Enter(p, step) == proc' = [proc EXCEPT ![p].call.step = step]

Due(age) == age = Never \/ age >= Interval

\* get_latest_reference_sync_at: without a state row, when the newest contract row was made.
LatestSync == IF sync # NoSync THEN sync.age ELSE IF rows # NoRows THEN rows.age ELSE Never

\* sync_from_iss_if_due: no sync within the interval of a success or the cooldown of an
\* attempt of this process.
SyncDue(p) ==
    /\ AutoSync /\ Due(proc[p].success)
    /\ proc[p].attempt = Never \/ proc[p].attempt >= Cooldown

\* seed_demo_snapshot reads the state row, whose source it will keep, and syncs when due.
Seed(p) ==
    /\ At(p, "idle")
    /\ LET source == IF sync = NoSync THEN "bundled_fallback" ELSE sync.source
           syncs == Due(LatestSync) /\ SyncDue(p)
       IN proc' = [proc EXCEPT
              ![p].call = [step |-> IF syncs THEN "auto" ELSE "compare", source |-> source, asOf |-> 0],
              ![p].attempt = IF syncs THEN 0 ELSE @]
    /\ UNCHANGED <<published, rolls, rows, sync, spent>>

\* The admin's, the worker's and the scheduler's own sync.  The scheduler leaves the source
\* at its default.
DirectSync(p) ==
    /\ At(p, "idle") /\ spent.direct < MaxDirect
    /\ \E source \in ReferenceSources :
           proc' = [proc EXCEPT ![p].call = [step |-> "direct", source |-> source, asOf |-> 0]]
    /\ spent' = [spent EXCEPT !.direct = @ + 1]
    /\ UNCHANGED <<published, rolls, rows, sync>>

\* The copy after ISS answered: contracts are replaced unless the answer has none or the
\* caller skips them.
CopyAfter(p) == {published, proc[p].copy}

\* ISS answers both calls of an automatic sync, whose source is recorded before any row is.
AutoSynced(p) ==
    /\ At(p, "auto")
    /\ LET asOf == proc[p].call.asOf IN
       /\ proc' = [proc EXCEPT ![p].copy = published, ![p].success = asOf,
                               ![p].call = [@ EXCEPT !.step = "compare", !.source = "moex_iss"]]
       /\ sync' = [source |-> "moex_iss", age |-> asOf]
    /\ UNCHANGED <<published, rolls, rows, spent>>

DirectSynced(p) ==
    /\ At(p, "direct")
    /\ \E copy \in CopyAfter(p) :
           proc' = [proc EXCEPT ![p].copy = copy, ![p].call = [@ EXCEPT !.step = "write"]]
    /\ UNCHANGED <<published, rolls, rows, sync, spent>>

\* A call to ISS raises: the contracts may have been replaced before the calendar's call.
\* An automatic sync goes on with what it has, a direct one fails.
SyncRaises(p) ==
    /\ At(p, "auto") \/ At(p, "direct")
    /\ spent.errors < MaxSyncErrors
    /\ \E copy \in CopyAfter(p) :
           proc' = [proc EXCEPT ![p].copy = copy,
                                ![p].call = IF At(p, "auto") THEN [@ EXCEPT !.step = "compare"] ELSE NoCall]
    /\ spent' = [spent EXCEPT !.errors = @ + 1]
    /\ UNCHANGED <<published, rolls, rows, sync>>

\* A refresh on every call.
DiffersAlways(p) == p \in Processes

\* The rows want a refresh where they differ from what this process's copy says today.
Differs(p) == rows = NoRows \/ <<rows.version, rows.rolls>> # <<proc[p].copy, rolls>>

CompareRows(p) ==
    /\ At(p, "compare")
    /\ proc' = [proc EXCEPT ![p].call = IF Differs(p) THEN [@ EXCEPT !.step = "write"] ELSE NoCall]
    /\ UNCHANGED <<published, rolls, rows, sync, spent>>

\* sync_reference_snapshot commits the rows and then, in a transaction of its own, stamps
\* the state row.
WriteRows(p) ==
    /\ At(p, "write")
    /\ \E age \in {proc[p].call.asOf} \cup (IF rows = NoRows THEN {} ELSE {rows.age}) :
           rows' = [version |-> proc[p].copy, rolls |-> rolls, age |-> age]
    /\ Enter(p, "record")
    /\ UNCHANGED <<published, rolls, sync, spent>>

RecordSync(p) ==
    /\ At(p, "record")
    /\ sync' = [source |-> proc[p].call.source, age |-> proc[p].call.asOf]
    /\ proc' = [proc EXCEPT ![p].call = NoCall]
    /\ UNCHANGED <<published, rolls, rows, spent>>

-----------------------------------------------------------------------------
Restart(p) ==
    /\ spent.restarts < MaxRestarts
    /\ proc' = [proc EXCEPT ![p] = Fresh]
    /\ spent' = [spent EXCEPT !.restarts = @ + 1]
    /\ UNCHANGED <<published, rolls, rows, sync>>

Publish == published < MaxPublished /\ published' = published + 1 /\ UNCHANGED <<rolls, proc, rows, sync, spent>>
Roll == rolls < MaxRolls /\ rolls' = rolls + 1 /\ UNCHANGED <<published, proc, rows, sync, spent>>

Older(age) == IF age = Never \/ age = Interval THEN age ELSE age + 1

OlderCall(call) == IF call = NoCall THEN call ELSE [call EXCEPT !.asOf = Older(@)]

HoursPass ==
    /\ proc' = [p \in Processes |->
           [proc[p] EXCEPT !.attempt = Older(@), !.success = Older(@), !.call = OlderCall(@)]]
    /\ sync' = IF sync = NoSync THEN NoSync ELSE [sync EXCEPT !.age = Older(@)]
    /\ rows' = IF rows = NoRows THEN NoRows ELSE [rows EXCEPT !.age = Older(@)]
    /\ UNCHANGED <<published, rolls, spent>>

InCall(p) ==
    AutoSynced(p) \/ DirectSynced(p) \/ SyncRaises(p) \/ CompareRows(p) \/ WriteRows(p) \/ RecordSync(p)

ReferenceNext ==
    \/ \E p \in Processes : Seed(p) \/ DirectSync(p) \/ InCall(p) \/ Restart(p)
    \/ Publish \/ Roll \/ HoursPass

-----------------------------------------------------------------------------
\* The rows are what MOEX publishes and the calendar makes of it.
RowsCurrent == rows # NoRows /\ rows.version = published /\ rows.rolls = rolls

\* What the control panel says of a state row with this source: "Reference metadata is
\* synced from MOEX ISS."  Between calls, rows so labelled are not the bundled ones.
LabelledAsSynced ==
    (\A p \in Processes : proc[p].call = NoCall) =>
        ~(sync # NoSync /\ sync.source = "moex_iss" /\ rows # NoRows /\ rows.version = Bundled)
=============================================================================
