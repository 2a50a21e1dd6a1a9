-------------------------- MODULE PromptGovernance --------------------------
(***************************************************************************)
(* The council's role prompts: one row per role holds the prompt in        *)
(* effect, and an append-only audit log holds every version.  Which        *)
(* version is approved and which draft is pending is stored nowhere: both  *)
(* are worked out from the row and the newest events of the log each time  *)
(* they are needed.                                                        *)
(*                                                                         *)
(* The API process serves one request at a time, but a request is several  *)
(* transactions: the row is written first and its audit event after it,    *)
(* and a reset goes through all the roles.  The process may die in between.*)
(*                                                                         *)
(* A template is the placeholders it holds and the wording around them.    *)
(* What the checks and the approval rules see of a wording is given by     *)
(* constants: whether it is too short, gives an order, breaks the render,  *)
(* and which rewrites of it are material.                                  *)
(***************************************************************************)
EXTENDS Integers, Sequences, FiniteSetsExt, SequencesExt

CONSTANTS
    Roles,          \* the council roles, by their keys
    RoleOrder,      \* the roles in the order of _council_prompt_defaults_v2
    Text,           \* the templates that are tried: [placeholders, wording]
    Builtin,        \* the wording of the built-in templates
    TooShort,       \* wordings of fewer than three lines
    Executing,      \* wordings that one of EXECUTION_PATTERNS finds an order in
    Breaking,       \* wordings with a field the placeholder pattern misses and format_map fails on
    Moderate,       \* <<old, new>>: wordings less than 0.82 alike
    Major,          \* <<old, new>>: wordings less than 0.62 alike
    HistoryWindow,  \* events of a role that its requests look at (100 in the code)
    OverviewWindow, \* events of all roles that the control panel looks at (250)
    MaxLog,         \* bound on the length of the log
    None

BasePlaceholders == {"role_label", "root_code", "signal_summary", "role_context_packet"}

\* What the built-in template of a role holds.
BuiltinPlaceholders(r) ==
    BasePlaceholders \cup
        CASE r = "oi_roll" -> {"active_contract", "next_contract"}
          [] r = "macro_event" -> {"trading_day"}
          [] OTHER -> {"contract_code"}

\* _protected_role_placeholders: what a template of the role has to hold.
Protected(r) ==
    BasePlaceholders \cup
        CASE r = "oi_roll" -> {"active_contract", "next_contract"}
          [] r = "macro_event" -> {"session_type"}
          [] r \in {"skeptic", "arbiter"} -> {"confidence_final", "skeptic_score"}
          [] OTHER -> {}

\* _allowed_prompt_variables: what it may hold.
Allowed ==
    BasePlaceholders \cup
        {"active_contract", "next_contract", "contract_code", "horizon", "session_type", "trading_day",
         "current_price", "price_change_pct", "workflow_state", "signal_direction", "signal_status",
         "why_now", "pushback", "invalidation", "data_mode", "price_source", "roll_state",
         "reference_status", "days_to_expiry", "roll_share", "confidence_final", "skeptic_score",
         "role_key"}

Mode == {"editable", "fixed"}
State == [text : Text, mode : Mode]
Default(r) == [text |-> [placeholders |-> BuiltinPlaceholders(r), wording |-> Builtin], mode |-> "editable"]

APPROVAL_CRITICAL_ROLES == {"skeptic", "arbiter"}
APPLIED_PROMPT_ACTIONS == {"update", "restore", "reset", "approve"}
DRAFT_PROMPT_ACTIONS == {"draft", "draft_restore"}
Action == APPLIED_PROMPT_ACTIONS \cup DRAFT_PROMPT_ACTIONS \cup {"dismiss"}

\* An audit event; `about` is the version it dismisses, or 0.
Event == [role : Roles, action : Action, state : State, about : 0 .. MaxLog]

ASSUME PromptAssumption ==
    /\ RoleOrder \in Seq(Roles)
    /\ \A r \in Roles : \E i \in DOMAIN RoleOrder : RoleOrder[i] = r
    /\ \A r \in Roles : Default(r).text \in Text
    /\ \A t \in Text : <<t.wording, t.wording>> \notin Moderate
    /\ Major \subseteq Moderate
    /\ HistoryWindow \in Nat \ {0} /\ OverviewWindow \in Nat \ {0}
    /\ MaxLog \in Nat
    /\ None \notin State

VARIABLES
    prompt,     \* runtime_role_prompts: role -> state or None
    log,        \* runtime_audit_events of category role_prompt, oldest first; the
                \* version id and the created_at of an event are its position
    todo,       \* the writes the request being served has yet to make
    unlogged    \* (history) the roles whose last change never reached the log

vars == <<prompt, log, todo, unlogged>>

Init ==
    /\ prompt = [r \in Roles |-> None]
    /\ log = <<>>
    /\ todo = <<>>
    /\ unlogged = {}

-----------------------------------------------------------------------------
(* What the row and the log say. *)

Effective(r) == IF prompt[r] = None THEN Default(r) ELSE prompt[r]

EventsOf(r) == {i \in DOMAIN log : log[i].role = r}

\* The newest HistoryWindow events of the role.
History(r) == {i \in EventsOf(r) : Cardinality({j \in EventsOf(r) : j > i}) < HistoryWindow}

Newest(versions) == IF versions = {} THEN 0 ELSE Max(versions)

\* What the panel looks at: the events of the role among the newest of all roles.
PanelHistory(r) == {i \in EventsOf(r) : Len(log) - i < OverviewWindow}

\* _resolve_effective_prompt_version
ApprovedIn(r, history) ==
    Newest({i \in history : /\ log[i].action \in APPLIED_PROMPT_ACTIONS
                            /\ log[i].state = Effective(r)})

\* Fault: only the last dismissal is looked at.
DismissedLast(history) ==
    LET d == Newest({j \in history : log[j].action = "dismiss"})
    IN  IF d = 0 THEN {} ELSE {log[d].about}

Dismissed(history) == {log[i].about : i \in {j \in history : log[j].action = "dismiss"}}

\* _resolve_pending_prompt_version
PendingIn(r, history) ==
    Newest({i \in history : /\ log[i].action \in DRAFT_PROMPT_ACTIONS
                            /\ i \notin Dismissed(history)
                            /\ i > ApprovedIn(r, history)})

ApprovedVersion(r) == ApprovedIn(r, History(r))
PendingVersion(r) == PendingIn(r, History(r))

\* _current_working_prompt_state: what the user goes on editing.
Working(r) == IF PendingVersion(r) = 0 THEN Effective(r) ELSE log[PendingVersion(r)].state

\* _annotate_role_prompt_history
Lifecycle(r, i) ==
    CASE log[i].action = "dismiss" -> "dismissed"
      [] i = PendingVersion(r) -> "draft"
      [] i = ApprovedVersion(r) -> "approved"
      [] OTHER -> "superseded"

\* _validate_role_prompt_profile: the conditions without which nothing is saved.
CanSave(r, s) ==
    /\ s.mode \in Mode
    /\ Protected(r) \subseteq s.text.placeholders
    /\ s.text.placeholders \subseteq Allowed
    /\ s.text.wording \notin TooShort \cup Executing

\* _render_prompt: what is not a known placeholder stays as it is, a field that
\* reads an attribute raises.
Renders(s) == s.text.wording \notin Breaking

\* Fault: leaving the fixed mode asks for approval, entering it does not.
NeedsApprovalByMode(r, old, new) == old.mode # new.mode /\ new.mode = "editable"

\* _role_prompt_approval_reasons
NeedsApproval(r, old, new) ==
    \/ old.mode = "fixed" \/ new.mode = "fixed"
    \/ /\ old # Default(r)
       /\ \/ old.text.placeholders # new.text.placeholders
          \/ <<old.text.wording, new.text.wording>>
                \in (IF r \in APPROVAL_CRITICAL_ROLES THEN Moderate ELSE Major)

\* preview_role_prompt_diff: the version named as the baseline (0: the built-in
\* default), the state the draft is compared with, and what a save would meet.
Preview(r, s) ==
    [baseline |-> ApprovedVersion(r), before |-> Working(r), changes |-> Working(r) # s,
     canSave |-> CanSave(r, s), approval |-> NeedsApproval(r, Effective(r), s)]

\* list_role_prompts: the panel's view of a role.
Profile(r) ==
    LET pending == PendingIn(r, PanelHistory(r))
        shown == IF pending = 0 THEN Effective(r) ELSE log[pending].state
        required == NeedsApproval(r, Effective(r), shown)
    IN  [shown |-> shown, pending |-> pending, approved |-> ApprovedIn(r, PanelHistory(r)),
         required |-> required,
         state |-> IF pending # 0 THEN "pending_approval" ELSE IF required THEN "approved" ELSE "live"]

-----------------------------------------------------------------------------
(* The writes of a request, each one transaction. *)

DeleteRows == [write |-> "delete"]
Upsert(r, s) == [write |-> "row", role |-> r, state |-> s]
Audit(r, a, s, v) ==
    [write |-> "audit", event |-> [role |-> r, action |-> a, state |-> s, about |-> v]]

\* Fault: the event is written first.
ApplyAuditFirst(r, a, s) == <<Audit(r, a, s, 0), Upsert(r, s)>>

Apply(r, a, s) == <<Upsert(r, s), Audit(r, a, s, 0)>>

Serve(writes) ==
    /\ todo = <<>>
    /\ Len(log) + Cardinality({i \in DOMAIN writes : writes[i].write = "audit"}) <= MaxLog
    /\ todo' = writes
    /\ UNCHANGED <<prompt, log, unlogged>>

\* A template that must not be saved is refused (400), and nothing is written.
UpdatePrompt(r, s) ==
    /\ CanSave(r, s)
    /\ Serve(IF NeedsApproval(r, Effective(r), s)
             THEN <<Audit(r, "draft", s, 0)>>
             ELSE Apply(r, "update", s))

\* What can be asked for: the built-in default and every version of the role.
Restorable(r) == {Default(r)} \cup {log[i].state : i \in EventsOf(r)}

RestorePrompt(r, s) ==
    /\ s \in Restorable(r)
    /\ CanSave(r, s)
    /\ Serve(IF NeedsApproval(r, Effective(r), s) /\ Effective(r) # s
             THEN <<Audit(r, "draft_restore", s, 0)>>
             ELSE Apply(r, "restore", s))

\* A version id that is not the pending one's is refused, and so is nothing pending.
ApprovePrompt(r) ==
    /\ PendingVersion(r) # 0
    /\ CanSave(r, log[PendingVersion(r)].state)
    /\ Serve(Apply(r, "approve", log[PendingVersion(r)].state))

\* Fault: the dismissal names the version it writes, not the one it dismisses.
DismissPromptItself(r) ==
    /\ PendingVersion(r) # 0
    /\ Serve(<<Audit(r, "dismiss", log[PendingVersion(r)].state, Len(log) + 1)>>)

DismissPrompt(r) ==
    /\ PendingVersion(r) # 0
    /\ Serve(<<Audit(r, "dismiss", log[PendingVersion(r)].state, PendingVersion(r))>>)

\* A reset: every row at once, then a row and its event for one role after the other.
ResetWrites ==
    <<DeleteRows>> \o [i \in 1 .. 2 * Len(RoleOrder) |->
                         LET r == RoleOrder[(i + 1) \div 2]
                         IN  IF i % 2 = 1 THEN Upsert(r, Default(r)) ELSE Audit(r, "reset", Default(r), 0)]

ResetPrompts == Serve(ResetWrites)

\* The next transaction of the request.
Write ==
    /\ todo # <<>>
    /\ todo' = Tail(todo)
    /\ LET w == Head(todo) IN
       \/ /\ w.write = "delete"
          /\ prompt' = [r \in Roles |-> None]
          /\ unlogged' = unlogged \cup {r \in Roles : Effective(r) # Default(r)}
          /\ UNCHANGED log
       \/ /\ w.write = "row"
          /\ prompt' = [prompt EXCEPT ![w.role] = w.state]
          /\ unlogged' = unlogged \cup {w.role}
          /\ UNCHANGED log
       \/ /\ w.write = "audit"
          /\ log' = Append(log, w.event)
          /\ unlogged' = IF w.event.action \in APPLIED_PROMPT_ACTIONS
                         THEN unlogged \ {w.event.role} ELSE unlogged
          /\ UNCHANGED prompt

\* The process dies, or a repository call raises: the rest is never written.
Crash ==
    /\ todo # <<>>
    /\ todo' = <<>>
    /\ UNCHANGED <<prompt, log, unlogged>>

Request(r) ==
    \/ \E s \in State : UpdatePrompt(r, s) \/ RestorePrompt(r, s)
    \/ ApprovePrompt(r) \/ DismissPrompt(r)

Next == (\E r \in Roles : Request(r)) \/ ResetPrompts \/ Write \/ Crash

Spec == Init /\ [][Next]_vars
-----------------------------------------------------------------------------
(* Properties. *)

\* The types of the variables; a dismissal names an earlier version of the log
\* (dismissed_version_id in dismiss_role_prompt).
TypeOK ==
    /\ prompt \in [Roles -> State \cup {None}]
    /\ log \in Seq(Event) /\ Len(log) <= MaxLog
    /\ \A i \in DOMAIN log : log[i].about < i
    /\ unlogged \subseteq Roles

\* What is in effect has been governed: a fixed prompt has been a draft first, so
\* that no update, restore or reset puts one in place on its own; and a prompt that
\* is not the built-in one has passed the checks on saving, whichever way it came.
EffectiveWasGoverned ==
    \A r \in Roles :
        /\ Effective(r).mode = "fixed" =>
             \E i \in EventsOf(r) : log[i].action \in DRAFT_PROMPT_ACTIONS /\ log[i].state = Effective(r)
        /\ Effective(r) = Default(r) \/ CanSave(r, Effective(r))

LastApplied(r) == Newest({i \in EventsOf(r) : log[i].action \in APPLIED_PROMPT_ACTIONS})

\* As long as every change has reached the log, the version resolved as approved
\* is the last one applied (or it has left the window), it is what is in effect,
\* and without a pending draft the baseline a preview names is what it compares with.
LogExplainsRow ==
    \A r \in Roles \ unlogged :
        /\ LastApplied(r) # 0 => log[LastApplied(r)].state = Effective(r)
        /\ ApprovedVersion(r) \in {0, LastApplied(r)}
        /\ LET diff == Preview(r, Default(r)) IN
             PendingVersion(r) = 0 /\ diff.baseline # 0 => log[diff.baseline].state = diff.before

\* Then also no draft that was approved, overtaken by a later change, or
\* dismissed is offered for approval again.
NoStaleDraft ==
    \A r \in Roles \ unlogged :
        LET p == PendingVersion(r)
        IN  p # 0 => /\ p > LastApplied(r)
                     /\ \A i \in EventsOf(r) : log[i].about # p

\* A draft that the history shows as superseded stays superseded as long as a draft
\* is pending: it is not offered for approval again (_annotate_role_prompt_history).
SupersededStays ==
    [][\A r \in Roles : \A i \in EventsOf(r) :
         /\ log[i].action \in DRAFT_PROMPT_ACTIONS /\ PendingVersion(r) # 0
         /\ Lifecycle(r, i) = "superseded"
         => PendingVersion(r)' # i]_vars
=============================================================================
