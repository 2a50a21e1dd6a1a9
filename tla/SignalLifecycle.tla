--------------------------- MODULE SignalLifecycle ---------------------------
(***************************************************************************)
(* The life of a final signal: built from the snapshots of the moment,     *)
(* stored under an id that names the day, the series and the priority,     *)
(* resolved once its horizon has passed, worked on by the user, purged.    *)
(*                                                                         *)
(* The API process builds signals whenever a page finds none; the          *)
(* scheduler's workers and the operator recalculate.  Each repository      *)
(* method is one transaction, and the callers swallow the ones that fail.  *)
(***************************************************************************)
EXTENDS Integers

CONSTANTS
    Api,            \* the API process
    Workers,        \* the scheduler's workers
    Series,         \* root -> the horizons its snapshots are built for
    Window,         \* horizon -> the time after which it is resolved
    Card,           \* what the council may come to, as far as it matters here
    Workflow,       \* SignalWorkflowState
    Watching,       \* the one a signal starts in
    Day, Instants, Start,
    AsOf,           \* the as_of values a recalculation is called with
    Retentions,     \* the retention periods a cleanup is called with
    Unreliable,     \* repository calls may raise, and processes may die
    None

Processes == Workers \cup {Api}
Roots == DOMAIN Series

\* f"SIG-{generated:%Y-%m-%d}-{root_code}-{horizon}-{priority_score}"
SignalId(r, h, t, c) == [root |-> r, horizon |-> h, day |-> t \div Day, priority |-> c.priority]
Id == {SignalId(r, h, t, c) : r \in Roots, h \in UNION {Series[s] : s \in Roots}, t \in Instants, c \in Card}

\* A signal as it has been built: FinalSignalDetail.
Built == [id : Id, generated : Instants, card : Card]
SignalRow == [status : {"active", "invalidated"}, workflow : Workflow, generated : Instants, created : Instants]
ResolutionRow == [status : {"resolved", "invalidated"}, outcome : {c.outcome : c \in Card},
                  at : AsOf \cup Instants, created : Instants]

\* A signal about to be resolved, and the moment of its resolution.
Due == [signal : Built, at : AsOf \cup Instants]

ASSUME SignalAssumption ==
    /\ Api \notin Workers
    /\ Instants \subseteq Int /\ Start \in Instants /\ AsOf \subseteq Int
    /\ Day \in Nat \ {0}
    /\ \A r \in Roots : \A h \in Series[r] : Window[h] \in Nat \ {0}
    /\ \A c \in Card : c.status \in {"active", "invalidated"}
    /\ Watching \in Workflow
    /\ Retentions \subseteq Nat /\ Unreliable \in BOOLEAN
    /\ None \notin AsOf \cup Instants \cup SignalRow \cup ResolutionRow \cup Due

VARIABLES
    now,
    signal,     \* final_signal: id -> row or None
    version,    \* signal_version: id -> created_at or None
    resolution, \* signal_resolution: id -> row or None
    pc,         \* what each process does next
    call,       \* its as_of, whether it resolves, and the roots it has yet to build
    built,      \* the signals built for the root in hand
    todo,       \* those of them not looked at yet in this pass
    second,     \* the pass is recalculate's own, after build_signals_for_root's
    due,        \* the signal to be resolved next, and the moment it is resolved at
    first,      \* (history) when an id was built first
    chosen,     \* (history) the workflow state the user chose for the row
    raced       \* (history) ids that two processes resolved at once, or that
                \* were resolved although their lookup had failed

tables == <<signal, version, resolution>>
local == <<call, built, todo, second, due>>
history == <<first, chosen, raced>>
vars == <<now, tables, pc, local, history>>

Idle == [asOf |-> None, resolve |-> FALSE, roots |-> {}]

Init ==
    /\ now = Start
    /\ signal = [i \in Id |-> None]
    /\ version = [i \in Id |-> None]
    /\ resolution = [i \in Id |-> None]
    /\ pc = [p \in Processes |-> "idle"]
    /\ call = [p \in Processes |-> Idle]
    /\ built = [p \in Processes |-> {}]
    /\ todo = [p \in Processes |-> {}]
    /\ second = [p \in Processes |-> FALSE]
    /\ due = [p \in Processes |-> None]
    /\ first = [i \in Id |-> None]
    /\ chosen = [i \in Id |-> Watching]
    /\ raced = {}

Goto(p, next) == pc' = [pc EXCEPT ![p] = next]

-----------------------------------------------------------------------------
(* A call: recalculate, or a page that builds the signals it has not found. *)

\* A worker's as_of is the clock or an older one; an operator gives any or none.
\* It matters to the resolution only.
Begin(p, asOf, resolve, roots) ==
    /\ pc[p] = "idle"
    /\ resolve /\ p \in Workers => asOf # None /\ asOf <= now
    /\ ~resolve => asOf = None
    /\ call' = [call EXCEPT ![p] = [asOf |-> asOf, resolve |-> resolve, roots |-> roots]]
    /\ Goto(p, "build")
    /\ UNCHANGED <<now, tables, built, todo, second, due, history>>

Return(p) ==
    /\ Goto(p, "idle")
    /\ call' = [call EXCEPT ![p] = Idle]
    /\ built' = [built EXCEPT ![p] = {}]
    /\ todo' = [todo EXCEPT ![p] = {}]
    /\ second' = [second EXCEPT ![p] = FALSE]
    /\ due' = [due EXCEPT ![p] = None]

\* The council's signals for the next root: the snapshots are of this moment,
\* and any horizon may yield none.
Build(p) ==
    /\ pc[p] = "build"
    /\ \/ \E r \in call[p].roots : \E made \in UNION {[hs -> Card] : hs \in SUBSET Series[r]} :
            /\ call' = [call EXCEPT ![p].roots = @ \ {r}]
            /\ built' = [built EXCEPT ![p] =
                 {[id |-> SignalId(r, h, now, made[h]), generated |-> now, card |-> made[h]]
                      : h \in DOMAIN made}]
            /\ first' = [i \in Id |-> IF first[i] = None /\ \E h \in DOMAIN made : i = SignalId(r, h, now, made[h])
                                      THEN now ELSE first[i]]
            /\ Goto(p, IF made = <<>> THEN "build" ELSE "store")
            /\ UNCHANGED <<todo, second, due>>
       \/ call[p].roots = {} /\ Return(p) /\ UNCHANGED first
    /\ UNCHANGED <<now, tables, chosen, raced>>

RowOf(b, workflow) ==
    [status |-> b.card.status, workflow |-> workflow, generated |-> b.generated, created |-> now]

\* Fault: the row is replaced as a whole.
WorkflowAfresh(i) == Watching

\* The workflow state of a row that is already there is kept.
WorkflowOf(i) == IF signal[i] = None THEN Watching ELSE signal[i].workflow

\* upsert_final_signals; a failure is swallowed.
Store(p) ==
    /\ pc[p] = "store"
    /\ LET stored == {b.id : b \in built[p]}
           Of(i) == CHOOSE b \in built[p] : b.id = i
       IN \/ /\ signal' = [i \in Id |-> IF i \in stored THEN RowOf(Of(i), WorkflowOf(i)) ELSE signal[i]]
             /\ version' = [i \in Id |-> IF i \in stored THEN now ELSE version[i]]
          \/ Unreliable /\ UNCHANGED <<signal, version>>
    /\ todo' = [todo EXCEPT ![p] = built[p]]
    /\ second' = [second EXCEPT ![p] = FALSE]
    /\ Goto(p, "resolve")
    /\ UNCHANGED <<now, resolution, call, built, due, history>>

-----------------------------------------------------------------------------
(* resolve_if_due, of each signal just built, and again with the call's as_of. *)

\* Fault: the horizon of the series is not waited for.
IsDueAtOnce(b, at) == at >= b.generated

IsDue(b, at) == at >= b.generated + Window[b.id.horizon]

\* Fault: a resolution that is there is not looked for.
FoundNever(i) == FALSE

Found(i) == resolution[i] # None

\* get_resolution finds one, finds none, or fails, which counts as none.
Lookup(p) ==
    /\ pc[p] = "resolve"
    /\ \E b \in todo[p], failing \in (IF Unreliable THEN BOOLEAN ELSE {FALSE}) :
         LET at == IF second[p] /\ call[p].asOf # None THEN call[p].asOf ELSE now
             resolves == (failing \/ ~Found(b.id)) /\ IsDue(b, at)
         IN /\ todo' = [todo EXCEPT ![p] = @ \ {b}]
            /\ IF resolves
               THEN /\ due' = [due EXCEPT ![p] = [signal |-> b, at |-> at]]
                    /\ Goto(p, "write")
               ELSE UNCHANGED <<due, pc>>
            /\ raced' = IF resolves /\ (failing \/ \E q \in Processes : due[q] # None /\ due[q].signal.id = b.id)
                        THEN raced \cup {b.id} ELSE raced
    /\ UNCHANGED <<now, tables, call, built, second, first, chosen>>

\* Fault: the signal resolved stays in hand.
WriteResolutionKeepingDue(p) ==
    /\ pc[p] = "write"
    /\ LET b == due[p].signal
       IN resolution' = [resolution EXCEPT ![b.id] =
             [status |-> "resolved", outcome |-> b.card.outcome, at |-> due[p].at, created |-> now]]
    /\ Goto(p, "resolve")
    /\ UNCHANGED <<now, signal, version, call, built, todo, second, due, history>>

\* upsert_signal_resolution; a failure is swallowed.
WriteResolution(p) ==
    /\ pc[p] = "write"
    /\ LET b == due[p].signal
       IN \/ resolution' = [resolution EXCEPT ![b.id] =
               [status |-> IF b.card.status = "invalidated" THEN "invalidated" ELSE "resolved",
                outcome |-> b.card.outcome, at |-> due[p].at, created |-> now]]
          \/ Unreliable /\ UNCHANGED resolution
    /\ due' = [due EXCEPT ![p] = None]
    /\ Goto(p, "resolve")
    /\ UNCHANGED <<now, signal, version, call, built, todo, second, history>>

\* A pass over the signals of the root is over.
EndPass(p) ==
    /\ pc[p] = "resolve" /\ todo[p] = {}
    /\ IF call[p].resolve /\ ~second[p]
       THEN /\ todo' = [todo EXCEPT ![p] = built[p]]
            /\ second' = [second EXCEPT ![p] = TRUE]
            /\ UNCHANGED <<pc, built>>
       ELSE /\ Goto(p, "build")
            /\ built' = [built EXCEPT ![p] = {}]
            /\ second' = [second EXCEPT ![p] = FALSE]
            /\ UNCHANGED todo
    /\ UNCHANGED <<now, tables, call, due, history>>

-----------------------------------------------------------------------------
(* The user, the cleanup, and the environment. *)

SetWorkflowState(i, w) ==
    /\ pc[Api] = "idle" /\ signal[i] # None
    /\ signal' = [signal EXCEPT ![i].workflow = w]
    /\ chosen' = [chosen EXCEPT ![i] = w]
    /\ UNCHANGED <<now, version, resolution, pc, local, first, raced>>

\* purge_operational_data_older_than, for the tables of signals
Purge(retention) ==
    LET Old(created) == created < now - retention
        purged == {i \in Id : signal[i] # None /\ Old(signal[i].created) /\ signal[i].status # "active"}
    IN /\ signal' = [i \in Id |-> IF i \in purged THEN None ELSE signal[i]]
       /\ version' = [i \in Id |-> IF version[i] # None /\ Old(version[i]) THEN None ELSE version[i]]
       /\ resolution' = [i \in Id |-> IF resolution[i] # None /\ Old(resolution[i].created)
                                      THEN None ELSE resolution[i]]
       /\ chosen' = [i \in Id |-> IF i \in purged THEN Watching ELSE chosen[i]]
       /\ UNCHANGED <<now, pc, local, first, raced>>

Crash(p) ==
    /\ Unreliable /\ pc[p] # "idle"
    /\ Return(p)
    /\ UNCHANGED <<now, tables, history>>

Tick ==
    /\ now + 1 \in Instants
    /\ now' = now + 1
    /\ UNCHANGED <<tables, pc, local, history>>

Call(p) ==
    \E asOf \in AsOf \cup {None}, resolve \in BOOLEAN,
       roots \in {Roots} \cup {{r} : r \in Roots} : Begin(p, asOf, resolve, roots)

Step(p) == Build(p) \/ Store(p) \/ Lookup(p) \/ WriteResolution(p) \/ EndPass(p)

Next ==
    \/ \E p \in Processes : Call(p) \/ Step(p) \/ Crash(p)
    \/ \E i \in Id, w \in Workflow : SetWorkflowState(i, w)
    \/ \E r \in Retentions : Purge(r)
    \/ Tick

Spec == Init /\ [][Next]_vars

\* The job recalculate-open: all roots, as of now, with resolve_due.
Recalculate(p) == Begin(p, now, TRUE, Roots)

\* The clock advances, what has been called goes on, and every worker is
\* called for the scheduled recalculation again and again.
Fairness ==
    /\ WF_vars(Tick)
    /\ \A p \in Processes : WF_vars(Step(p))
    /\ \A p \in Workers : SF_vars(Recalculate(p))

LiveSpec == Spec /\ Fairness
-----------------------------------------------------------------------------
(* Properties. *)

\* What the pages show: list_signals and get_signal put the resolution on top.
Shown(i) ==
    IF signal[i] = None THEN None
    ELSE IF resolution[i] # None THEN resolution[i].status ELSE signal[i].status

\* The types of the variables; a signal is about to be resolved exactly in the
\* step that writes its resolution.
TypeOK ==
    /\ now \in Instants
    /\ \A i \in Id :
         /\ signal[i] \in SignalRow \cup {None}
         /\ version[i] \in Instants \cup {None}
         /\ resolution[i] \in ResolutionRow \cup {None}
         /\ first[i] \in Instants \cup {None}
         /\ chosen[i] \in Workflow
    /\ \A p \in Processes :
         /\ pc[p] \in {"idle", "build", "store", "resolve", "write"}
         /\ built[p] \subseteq Built /\ todo[p] \subseteq built[p]
         /\ due[p] \in Due \cup {None} /\ (due[p] # None <=> pc[p] = "write")
    /\ raced \subseteq Id

\* No signal is resolved before its horizon, counted from its first build, has
\* passed by the clock or by the operator's as_of.
NotBeforeHorizon ==
    \A i \in Id : resolution[i] # None => resolution[i].at >= first[i] + Window[i.horizon]

\* A resolution is final: rebuilding the signal, by any process and with any
\* as_of, changes neither outcome nor moment, unless two processes resolved it
\* at once or the lookup had failed.  (A purge may delete it.)
ResolutionStays ==
    [][\A i \in Id \ raced' :
         resolution[i] # None => resolution'[i] \in {resolution[i], None}]_vars

\* The user's workflow state outlasts every rebuild of the signal.
WorkflowKept == \A i \in Id : signal[i] # None => signal[i].workflow = chosen[i]

\* Signals are resolved automatically once their horizon has passed.
Overdue(i) == Shown(i) = "active" /\ now >= signal[i].generated + Window[i.horizon]

AutoResolved == \A i \in Id : Overdue(i) ~> Shown(i) # "active"
=============================================================================
