---------------------------- MODULE PromptProofs ----------------------------
(***************************************************************************)
(* Machine-checked proofs about the role prompts, the routes and the       *)
(* thresholds under the whole control panel, for any roles, templates,     *)
(* checks and windows.                                                     *)
(***************************************************************************)
EXTENDS RuntimePanel, FiniteSetTheorems, WellFoundedInduction, TLAPS

\* A state that may be in effect for a role.
Governed(r, s) ==
    /\ s.mode = "fixed" =>
         \E i \in EventsOf(r) : log[i].action \in DRAFT_PROMPT_ACTIONS /\ log[i].state = s
    /\ s = Default(r) \/ CanSave(r, s)

\* The events and writes of the panel, without the bound on the log.
Events == [role : Roles, action : Action, state : State, about : Nat]
RowWrites == [write : {"row"}, role : Roles, state : State]
AuditWrites == [write : {"audit"}, event : Events]
OtherWrites ==
    [write : {"delete", "routes"}]
    \cup [write : {"route"}, role : Roles, model : Model]
    \cup [write : {"policy"}, policy : Policy]
    \cup [write : {"trail"}, event : [target : Roles \cup {"every role", "freshness"}, value : Model \cup Policy]]
Writes == RowWrites \cup AuditWrites \cup OtherWrites

\* What is about to be written to a row is governed before it is written, because the
\* row comes before the event that tells of it.
TodoInv ==
    /\ todo \in Seq(Writes)
    /\ \A i \in DOMAIN todo : todo[i] \in RowWrites => Governed(todo[i].role, todo[i].state)

RowInv == prompt \in [Roles -> State \cup {None}] /\ log \in Seq(Events)

GovernedInv == RowInv /\ TodoInv /\ EffectiveWasGoverned

-----------------------------------------------------------------------------
\* A bounded set of positive numbers has a greatest member.
LEMMA MaxExists ==
    ASSUME NEW n \in Nat, NEW S \in SUBSET (1 .. n), S # {}
    PROVE  \E x \in S : \A y \in S : x >= y
<1> DEFINE less == {ss \in Nat \X Nat : ss[1] < ss[2]}
           below == {n - x : x \in S}
<1>1. IsWellFoundedOn(less, Nat)
  BY NatLessThanWellFounded DEF OpToRel
<1>2. below \subseteq Nat
  <2>1. ASSUME NEW x \in S PROVE n - x \in Nat
    <3>1. x \in 1 .. n
      OBVIOUS
    <3> QED
      BY <3>1
  <2> QED
    BY <2>1
<1>3. below # {}
  OBVIOUS
<1> HIDE DEF less, below
<1>4. PICK m \in below : \A k \in below : <<k, m>> \notin less
  BY <1>1, <1>2, <1>3, WFMin
<1>5. \A k \in below : m <= k
  <2> TAKE k \in below
  <2>1. k \in Nat /\ m \in Nat
    BY <1>2, <1>4
  <2>2. k < m => <<k, m>> \in less
    BY <2>1 DEF less
  <2> QED
    BY <1>4, <2>1, <2>2
<1>6. PICK x \in S : m = n - x
  BY <1>4 DEF below
<1>7. \A y \in S : x >= y
  <2> TAKE y \in S
  <2>1. n - x <= n - y
    BY <1>5, <1>6 DEF below
  <2>2. x \in Int /\ y \in Int
    OBVIOUS
  <2> QED
    BY <2>1, <2>2
<1> QED
  BY <1>7

\* The version resolved as pending, when there is one, is a draft of the role.
LEMMA PendingIsDraft ==
    ASSUME RowInv, NEW r \in Roles, PendingVersion(r) # 0
    PROVE  /\ PendingVersion(r) \in EventsOf(r)
           /\ log[PendingVersion(r)].action \in DRAFT_PROMPT_ACTIONS
           /\ log[PendingVersion(r)].state \in State
<1> DEFINE drafts == {i \in History(r) : /\ log[i].action \in DRAFT_PROMPT_ACTIONS
                                         /\ i \notin Dismissed(History(r))
                                         /\ i > ApprovedIn(r, History(r))}
<1>1. PendingVersion(r) = Newest(drafts)
  BY DEF PendingVersion, PendingIn
<1>2. drafts \subseteq {i \in EventsOf(r) : log[i].action \in DRAFT_PROMPT_ACTIONS}
  BY DEF History
<1> HIDE DEF drafts
<1>3. log \in Seq(Events) /\ Len(log) \in Nat /\ DOMAIN log = 1 .. Len(log)
  BY DEF RowInv
<1>4. drafts # {} /\ Newest(drafts) = Max(drafts)
  BY <1>1 DEF Newest
<1>5. drafts \in SUBSET (1 .. Len(log))
  BY <1>2, <1>3 DEF EventsOf
<1>6. \E x \in drafts : \A y \in drafts : x >= y
  BY <1>3, <1>4, <1>5, MaxExists
<1>7. Max(drafts) \in drafts
  BY <1>6 DEF Max
<1>8. PendingVersion(r) \in EventsOf(r) /\ log[PendingVersion(r)].action \in DRAFT_PROMPT_ACTIONS
  BY <1>1, <1>2, <1>4, <1>7
<1>9. log[PendingVersion(r)] \in Events
  BY <1>3, <1>8 DEF EventsOf
<1> QED
  BY <1>8, <1>9 DEF Events

\* The built-in default may always be in effect.
LEMMA DefaultGoverned ==
    ASSUME NEW r \in Roles
    PROVE  Default(r) \in State /\ Default(r).mode = "editable" /\ Governed(r, Default(r))
<1>1. Default(r).text \in Text
  BY PromptAssumption
<1>2. Default(r) \in State /\ Default(r).mode = "editable"
  BY <1>1 DEF Default, State, Mode
<1> QED
  BY <1>2 DEF Governed

\* A save that needs no approval puts no fixed prompt in effect.
LEMMA SavedGoverned ==
    ASSUME NEW r \in Roles, NEW s \in State, CanSave(r, s), ~NeedsApproval(r, Effective(r), s)
    PROVE  Governed(r, s)
<1>1. s.mode # "fixed"
  BY DEF NeedsApproval
<1> QED
  BY <1>1 DEF Governed

\* The log only grows, so what was governed stays governed.
LEMMA StaysGoverned ==
    ASSUME NEW r \in Roles, NEW s, Governed(r, s), log \in Seq(Events),
           \/ log' = log
           \/ \E e \in Events : log' = Append(log, e)
    PROVE  Governed(r, s)'
<1>1. \A i \in DOMAIN log : i \in DOMAIN log' /\ log'[i] = log[i]
  OBVIOUS
<1>2. \A i \in EventsOf(r) : i \in EventsOf(r)' /\ log'[i] = log[i]
  BY <1>1 DEF EventsOf
<1> QED
  BY <1>2 DEF Governed, CanSave

\* What is in effect is governed, in terms of the operator above.
LEMMA EffectiveGoverned ==
    EffectiveWasGoverned <=> \A r \in Roles : Governed(r, Effective(r))
BY DEF EffectiveWasGoverned, Governed

\* Typed forms of the writes.
LEMMA WriteTypes ==
    /\ \A r \in Roles, s \in State : Upsert(r, s) \in RowWrites
    /\ \A r \in Roles, a \in Action, s \in State, v \in Nat :
         Audit(r, a, s, v) \in AuditWrites /\ Audit(r, a, s, v) \notin RowWrites
    /\ \A w \in OtherWrites : w \notin RowWrites
    /\ DeleteRows \in OtherWrites /\ DeleteRoutes \in OtherWrites
    /\ \A r \in Roles, m \in Model : UpsertRoute(r, m) \in OtherWrites
    /\ \A p \in Policy : UpsertPolicy(p) \in OtherWrites
    /\ \A t \in Roles \cup {"every role", "freshness"}, v \in Model \cup Policy : Trace(t, v) \in OtherWrites
<1>1. \A r \in Roles, s \in State : Upsert(r, s) \in RowWrites
  BY DEF Upsert, RowWrites
<1>2. \A r \in Roles, a \in Action, s \in State, v \in Nat :
         Audit(r, a, s, v) \in AuditWrites /\ Audit(r, a, s, v) \notin RowWrites
  BY DEF Audit, AuditWrites, RowWrites, Events
<1>3. \A w \in OtherWrites : w \notin RowWrites
  BY DEF OtherWrites, RowWrites
<1>4. DeleteRows \in OtherWrites /\ DeleteRoutes \in OtherWrites
  BY DEF OtherWrites, DeleteRows, DeleteRoutes
<1>5. \A r \in Roles, m \in Model : UpsertRoute(r, m) \in OtherWrites
  BY DEF OtherWrites, UpsertRoute
<1>6. \A p \in Policy : UpsertPolicy(p) \in OtherWrites
  BY DEF OtherWrites, UpsertPolicy
<1>7. \A t \in Roles \cup {"every role", "freshness"}, v \in Model \cup Policy : Trace(t, v) \in OtherWrites
  BY DEF OtherWrites, Trace
<1> QED
  BY <1>1, <1>2, <1>3, <1>4, <1>5, <1>6, <1>7

-----------------------------------------------------------------------------
\* Serving a request writes nothing yet: what it is going to write has to be governed.
LEMMA Serving ==
    ASSUME GovernedInv, NEW writes \in Seq(Writes), todo' = writes,
           UNCHANGED <<prompt, log, unlogged>>,
           \A i \in DOMAIN writes : writes[i] \in RowWrites => Governed(writes[i].role, writes[i].state)
    PROVE  GovernedInv'
<1>1. RowInv' /\ EffectiveWasGoverned'
  BY DEF GovernedInv, RowInv, EffectiveWasGoverned, Effective, EventsOf, CanSave
<1>2. \A r, s : Governed(r, s)' <=> Governed(r, s)
  BY DEF Governed, EventsOf, CanSave
<1>3. TodoInv'
  BY <1>2 DEF TodoInv
<1> QED
  BY <1>1, <1>3 DEF GovernedInv

\* A request that only writes an event.
LEMMA ServingEvent ==
    ASSUME GovernedInv, NEW r \in Roles, NEW a \in Action, NEW s \in State, NEW v \in Nat,
           Serve(<<Audit(r, a, s, v)>>)
    PROVE  GovernedInv'
<1> DEFINE w == Audit(r, a, s, v)
<1>1. w \in Writes /\ w \notin RowWrites
  BY WriteTypes DEF Writes
<1>2. todo' = <<w>> /\ UNCHANGED <<prompt, log, unlogged>>
  BY DEF Serve
<1> HIDE DEF w
<1>3. <<w>> \in Seq(Writes) /\ \A i \in DOMAIN <<w>> : <<w>>[i] \notin RowWrites
  BY <1>1
<1> QED
  BY <1>2, <1>3, Serving

\* A request that writes a row and then its event.
LEMMA ServingRow ==
    ASSUME GovernedInv, NEW r \in Roles, NEW a \in Action, NEW s \in State, Governed(r, s),
           Serve(Apply(r, a, s))
    PROVE  GovernedInv'
<1> DEFINE u == Upsert(r, s)
           w == Audit(r, a, s, 0)
<1>1. u \in Writes /\ w \in Writes /\ w \notin RowWrites
  BY WriteTypes DEF Writes
<1>2. todo' = <<u, w>> /\ UNCHANGED <<prompt, log, unlogged>>
  BY DEF Serve, Apply
<1>3. u.role = r /\ u.state = s
  BY DEF Upsert
<1> HIDE DEF u, w
<1>4. <<u, w>> \in Seq(Writes)
  BY <1>1
<1>5. \A i \in DOMAIN <<u, w>> : <<u, w>>[i] \in RowWrites => Governed(<<u, w>>[i].role, <<u, w>>[i].state)
  <2> TAKE i \in DOMAIN <<u, w>>
  <2>1. i = 1 \/ i = 2
    OBVIOUS
  <2>2. <<u, w>>[1] = u /\ <<u, w>>[2] = w
    OBVIOUS
  <2> QED
    BY <1>1, <1>3, <2>1, <2>2
<1> QED
  BY <1>2, <1>4, <1>5, Serving

\* What a reset writes.
LEMMA ResetGoverned ==
    /\ ResetWrites \in Seq(Writes)
    /\ \A i \in DOMAIN ResetWrites :
         ResetWrites[i] \in RowWrites => Governed(ResetWrites[i].role, ResetWrites[i].state)
<1> DEFINE n == 2 * Len(RoleOrder)
           Step(i) == LET r == RoleOrder[(i + 1) \div 2]
                      IN  IF i % 2 = 1 THEN Upsert(r, Default(r)) ELSE Audit(r, "reset", Default(r), 0)
           steps == [i \in 1 .. n |-> Step(i)]
           Fit(w) == w \in Writes /\ (w \in RowWrites => Governed(w.role, w.state))
<1>1. RoleOrder \in Seq(Roles) /\ n \in Nat
  BY PromptAssumption
<1>2. ASSUME NEW i \in 1 .. n PROVE Fit(Step(i))
  <2> DEFINE r == RoleOrder[(i + 1) \div 2]
  <2>1. (i + 1) \div 2 \in 1 .. Len(RoleOrder)
    BY <1>1
  <2>2. r \in Roles
    BY <1>1, <2>1
  <2>3. Default(r) \in State /\ Governed(r, Default(r))
    BY <2>2, DefaultGoverned
  <2>4. Upsert(r, Default(r)) \in RowWrites /\ Upsert(r, Default(r)).role = r /\ Upsert(r, Default(r)).state = Default(r)
    BY <2>2, <2>3, WriteTypes DEF Upsert
  <2>5. "reset" \in Action
    BY DEF Action, APPLIED_PROMPT_ACTIONS
  <2>6. Audit(r, "reset", Default(r), 0) \in AuditWrites /\ Audit(r, "reset", Default(r), 0) \notin RowWrites
    BY <2>2, <2>3, <2>5, WriteTypes
  <2>7. Fit(Upsert(r, Default(r))) /\ Fit(Audit(r, "reset", Default(r), 0))
    BY <2>3, <2>4, <2>6, Zenon DEF Writes
  <2> QED
    BY <2>7, Zenon
<1>3. Fit(DeleteRows)
  BY WriteTypes DEF Writes
<1>4. ResetWrites = <<DeleteRows>> \o steps
  BY Zenon DEF ResetWrites
<1>5. \A i \in 1 .. n : Step(i) \in Writes
  BY <1>2
<1> HIDE DEF n, Step
<1>6. steps \in Seq(Writes) /\ DOMAIN steps = 1 .. n /\ Len(steps) = n
  BY <1>1, <1>5
<1> DEFINE d == DeleteRows
<1>7. d \in Writes
  BY <1>3
<1> HIDE DEF steps, d
<1>8. <<d>> \o steps \in Seq(Writes)
  BY <1>6, <1>7
<1>9. \A i \in DOMAIN (<<d>> \o steps) :
        \/ i = 1 /\ (<<d>> \o steps)[i] = d
        \/ i - 1 \in 1 .. n /\ (<<d>> \o steps)[i] = steps[i - 1]
  BY <1>1, <1>6, <1>7
<1>10. \A i \in 1 .. n : Fit(steps[i])
  BY <1>2 DEF steps
<1>11. \A i \in DOMAIN ResetWrites : Fit(ResetWrites[i])
  <2> HIDE DEF Fit
  <2> QED
    BY <1>3, <1>4, <1>9, <1>10 DEF d
<1> QED
  BY <1>4, <1>8, <1>11 DEF d

-----------------------------------------------------------------------------
\* Requests about the prompts.
LEMMA RequestGoverned ==
    ASSUME GovernedInv, NEW r \in Roles, Request(r)
    PROVE  GovernedInv'
<1> "update" \in Action /\ "restore" \in Action /\ "approve" \in Action
    /\ "dismiss" \in Action /\ "draft" \in Action /\ "draft_restore" \in Action
  BY DEF Action, APPLIED_PROMPT_ACTIONS, DRAFT_PROMPT_ACTIONS
<1>1. ASSUME NEW s \in State, UpdatePrompt(r, s) PROVE GovernedInv'
  <2>1. CASE NeedsApproval(r, Effective(r), s)
    <3>1. Serve(<<Audit(r, "draft", s, 0)>>)
      BY <1>1, <2>1, Zenon DEF UpdatePrompt
    <3> QED
      BY <3>1, ServingEvent
  <2>2. CASE ~NeedsApproval(r, Effective(r), s)
    <3>1. CanSave(r, s) /\ Serve(Apply(r, "update", s))
      BY <1>1, <2>2, Zenon DEF UpdatePrompt
    <3>2. Governed(r, s)
      BY <2>2, <3>1, SavedGoverned
    <3> QED
      BY <3>1, <3>2, ServingRow
  <2> QED
    BY <2>1, <2>2
<1>2. ASSUME NEW s \in State, RestorePrompt(r, s) PROVE GovernedInv'
  <2>1. CASE NeedsApproval(r, Effective(r), s) /\ Effective(r) # s
    <3>1. Serve(<<Audit(r, "draft_restore", s, 0)>>)
      BY <1>2, <2>1, Zenon DEF RestorePrompt
    <3> QED
      BY <3>1, ServingEvent
  <2>2. CASE ~(NeedsApproval(r, Effective(r), s) /\ Effective(r) # s)
    <3>1. CanSave(r, s) /\ Serve(Apply(r, "restore", s))
      BY <1>2, <2>2, Zenon DEF RestorePrompt
    <3>2. CASE Effective(r) = s
      <4>1. Governed(r, s)
        BY <3>2, EffectiveGoverned DEF GovernedInv
      <4> QED
        BY <3>1, <4>1, ServingRow
    <3>3. CASE Effective(r) # s
      <4>1. Governed(r, s)
        BY <2>2, <3>1, <3>3, SavedGoverned
      <4> QED
        BY <3>1, <4>1, ServingRow
    <3> QED
      BY <3>2, <3>3
  <2> QED
    BY <2>1, <2>2
<1>3. ASSUME PendingVersion(r) # 0
      PROVE  /\ PendingVersion(r) \in EventsOf(r) /\ PendingVersion(r) \in Nat
             /\ log[PendingVersion(r)].action \in DRAFT_PROMPT_ACTIONS
             /\ log[PendingVersion(r)].state \in State
  <2>1. RowInv
    BY DEF GovernedInv
  <2>2. PendingVersion(r) \in EventsOf(r)
        /\ log[PendingVersion(r)].action \in DRAFT_PROMPT_ACTIONS
        /\ log[PendingVersion(r)].state \in State
    BY <1>3, <2>1, PendingIsDraft
  <2>3. DOMAIN log \subseteq Nat
    BY <2>1 DEF RowInv
  <2> QED
    BY <2>2, <2>3 DEF EventsOf
<1>4. ASSUME ApprovePrompt(r) PROVE GovernedInv'
  <2> DEFINE s == log[PendingVersion(r)].state
  <2>1. PendingVersion(r) # 0 /\ CanSave(r, s) /\ Serve(Apply(r, "approve", s))
    BY <1>4 DEF ApprovePrompt
  <2>2. s \in State /\ Governed(r, s)
    BY <1>3, <2>1 DEF Governed
  <2> QED
    BY <2>1, <2>2, ServingRow
<1>5. ASSUME DismissPrompt(r) PROVE GovernedInv'
  <2> DEFINE s == log[PendingVersion(r)].state
  <2>1. PendingVersion(r) # 0 /\ Serve(<<Audit(r, "dismiss", s, PendingVersion(r))>>)
    BY <1>5 DEF DismissPrompt
  <2>2. s \in State /\ PendingVersion(r) \in Nat
    BY <1>3, <2>1
  <2> QED
    BY <2>1, <2>2, ServingEvent
<1> QED
  BY <1>1, <1>2, <1>4, <1>5 DEF Request

\* A reset goes through all the roles, each row with the default.
LEMMA ResetServed ==
    ASSUME GovernedInv, ResetPrompts
    PROVE  GovernedInv'
<1>1. todo' = ResetWrites /\ UNCHANGED <<prompt, log, unlogged>>
  BY DEF ResetPrompts, Serve
<1> QED
  BY <1>1, ResetGoverned, Serving

\* Requests about the rest of the panel never write a prompt.
LEMMA PanelRequestGoverned ==
    ASSUME GovernedInv, PanelRequest
    PROVE  GovernedInv'
<1>1. ASSUME NEW writes \in Seq(OtherWrites), ServePanel(writes)
      PROVE  GovernedInv'
  <2>1. writes \in Seq(Writes) /\ \A i \in DOMAIN writes : writes[i] \notin RowWrites
    <3>1. OtherWrites \subseteq Writes /\ \A w \in OtherWrites : w \notin RowWrites
      BY WriteTypes DEF Writes
    <3> HIDE DEF OtherWrites
    <3> QED
      BY <3>1
  <2>2. todo' = writes /\ UNCHANGED <<prompt, log, unlogged>>
    BY <1>1 DEF ServePanel
  <2> QED
    BY <2>1, <2>2, Serving
<1>2. ASSUME NEW u \in OtherWrites, NEW v \in OtherWrites
      PROVE  <<u, v>> \in Seq(OtherWrites)
  OBVIOUS
<1>3. ASSUME NEW r \in Roles, NEW m \in Model, UpdateRoute(r, m) PROVE GovernedInv'
  <2>1. UpsertRoute(r, m) \in OtherWrites /\ Trace(r, m) \in OtherWrites
    BY WriteTypes
  <2> QED
    BY <1>1, <1>2, <1>3, <2>1, Zenon DEF UpdateRoute
<1>4. ASSUME NEW p \in Policy, UpdatePolicy(p) PROVE GovernedInv'
  <2>1. UpsertPolicy(p) \in OtherWrites /\ Trace("freshness", p) \in OtherWrites
    BY WriteTypes
  <2> QED
    BY <1>1, <1>2, <1>4, <2>1, Zenon DEF UpdatePolicy
<1>5. ASSUME ResetRoutes PROVE GovernedInv'
  <2> DEFINE rows == [i \in DOMAIN RoleOrder |-> UpsertRoute(RoleOrder[i], DefaultModel)]
             first == <<DeleteRoutes>>
             last == <<Trace("every role", DefaultModel)>>
  <2>1. RoleOrder \in Seq(Roles) /\ DefaultModel \in Model
    BY PromptAssumption, PanelAssumption
  <2>2. \A i \in DOMAIN RoleOrder : UpsertRoute(RoleOrder[i], DefaultModel) \in OtherWrites
    <3>1. \A i \in DOMAIN RoleOrder : RoleOrder[i] \in Roles
      BY <2>1
    <3> QED
      BY <2>1, <3>1, WriteTypes, Zenon
  <2>3. rows \in Seq(OtherWrites)
    BY <2>1, <2>2
  <2>4. \A w \in OtherWrites : <<w>> \in Seq(OtherWrites)
    OBVIOUS
  <2>5. first \in Seq(OtherWrites) /\ last \in Seq(OtherWrites)
    BY <2>1, <2>4, WriteTypes, Zenon
  <2>6. ServePanel(first \o rows \o last)
    BY <1>5, Zenon DEF ResetRoutes
  <2> HIDE DEF first, rows, last
  <2>7. first \o rows \o last \in Seq(OtherWrites)
    BY <2>3, <2>5
  <2> QED
    BY <1>1, <2>6, <2>7
<1> QED
  BY <1>3, <1>4, <1>5 DEF PanelRequest

\* The transactions.
LEMMA TransactionGoverned ==
    ASSUME GovernedInv, Write \/ Crash \/ WritePanel
    PROVE  GovernedInv'
<1>1. RowInv /\ TodoInv /\ EffectiveWasGoverned /\ todo # <<>>
  BY DEF GovernedInv, Write, Crash, WritePanel
<1>2. Head(todo) \in Writes /\ Tail(todo) \in Seq(Writes) /\ 1 \in DOMAIN todo /\ Head(todo) = todo[1]
  BY <1>1 DEF TodoInv
<1>3. \A i \in DOMAIN Tail(todo) : i + 1 \in DOMAIN todo /\ Tail(todo)[i] = todo[i + 1]
  BY <1>1 DEF TodoInv
<1>4. \A i \in DOMAIN Tail(todo) :
        Tail(todo)[i] \in RowWrites => Governed(Tail(todo)[i].role, Tail(todo)[i].state)
  BY <1>1, <1>3 DEF TodoInv
<1>5. ASSUME todo' = Tail(todo) \/ todo' = <<>>,
             log' = log \/ \E e \in Events : log' = Append(log, e)
      PROVE  TodoInv'
  <2>1. \A r \in Roles : \A t : Governed(r, t) => Governed(r, t)'
    BY <1>1, <1>5, StaysGoverned DEF RowInv
  <2>2. CASE todo' = <<>>
    <3>1. <<>> \in Seq(Writes) /\ DOMAIN <<>> = {}
      OBVIOUS
    <3> QED
      BY <2>2, <3>1 DEF TodoInv
  <2>3. CASE todo' = Tail(todo)
    <3>1. PICK rest : rest = Tail(todo)
      OBVIOUS
    <3>2. \A i \in DOMAIN rest : rest[i] \in RowWrites => rest[i].role \in Roles
      BY DEF RowWrites
    <3>3. \A i \in DOMAIN rest : rest[i] \in RowWrites => Governed(rest[i].role, rest[i].state)
      BY <1>4, <3>1
    <3>4. \A i \in DOMAIN rest : rest[i] \in RowWrites => Governed(rest[i].role, rest[i].state)'
      BY <2>1, <3>2, <3>3
    <3> QED
      BY <1>2, <2>3, <3>1, <3>4 DEF TodoInv, Governed, EventsOf, CanSave
  <2> QED
    BY <1>5, <2>2, <2>3
<1>6. ASSUME prompt' = prompt, log' = log \/ \E e \in Events : log' = Append(log, e)
      PROVE  RowInv' /\ EffectiveWasGoverned'
  <2>1. RowInv'
    BY <1>1, <1>6 DEF RowInv
  <2>2. \A r \in Roles : Effective(r)' = Effective(r)
    BY <1>6 DEF Effective, Default
  <2>3. \A r \in Roles : \A t : Governed(r, t) => Governed(r, t)'
    BY <1>1, <1>6, StaysGoverned DEF RowInv
  <2> QED
    BY <1>1, <2>1, <2>2, <2>3, EffectiveGoverned DEF EffectiveWasGoverned, Governed
<1>7. CASE Crash
  <2>1. todo' = <<>> /\ UNCHANGED <<prompt, log>>
    BY <1>7 DEF Crash
  <2> QED
    BY <1>5, <1>6, <2>1 DEF GovernedInv
<1>8. CASE WritePanel
  <2>1. todo' = Tail(todo) /\ UNCHANGED <<prompt, log>>
    BY <1>8 DEF WritePanel
  <2> QED
    BY <1>5, <1>6, <2>1 DEF GovernedInv
<1>9. CASE Write
  <2> DEFINE w == Head(todo)
  <2>1. CASE w.write = "delete" /\ todo' = Tail(todo) /\ prompt' = [r \in Roles |-> None] /\ UNCHANGED log
    <3>1. TodoInv'
      BY <1>5, <2>1
    <3>2. RowInv'
      BY <1>1, <2>1 DEF RowInv
    <3>3. \A r \in Roles : Effective(r)' = Default(r)
      BY <2>1 DEF Effective, Default
    <3>4. EffectiveWasGoverned'
      BY <3>3, DefaultGoverned DEF EffectiveWasGoverned, Default
    <3> QED
      BY <3>1, <3>2, <3>4 DEF GovernedInv
  <2>2. CASE w.write = "row" /\ todo' = Tail(todo) /\ prompt' = [prompt EXCEPT ![w.role] = w.state] /\ UNCHANGED log
    <3>1. TodoInv'
      BY <1>5, <2>2
    <3>2. w \in RowWrites
      BY <1>2, <2>2 DEF Writes, RowWrites, AuditWrites, OtherWrites
    <3>3. w.role \in Roles /\ w.state \in State /\ Governed(w.role, w.state)
      BY <1>1, <1>2, <3>2 DEF TodoInv, RowWrites
    <3>4. RowInv'
      BY <1>1, <2>2, <3>3 DEF RowInv
    <3>5. w.state # None
      BY <3>3, PromptAssumption
    <3>6. \A r \in Roles : Effective(r)' = IF r = w.role THEN w.state ELSE Effective(r)
      BY <1>1, <2>2, <3>3, <3>5 DEF RowInv, Effective, Default
    <3>7. \A r \in Roles : Governed(r, Effective(r))
      BY <1>1, EffectiveGoverned
    <3>8. \A r \in Roles : \A s : Governed(r, s)' <=> Governed(r, s)
      BY <2>2 DEF Governed, EventsOf, CanSave
    <3>9. EffectiveWasGoverned'
      BY <3>3, <3>6, <3>7, <3>8, <2>2 DEF EffectiveWasGoverned, Governed, EventsOf
    <3> QED
      BY <3>1, <3>4, <3>9 DEF GovernedInv
  <2>3. CASE w.write = "audit" /\ todo' = Tail(todo) /\ log' = Append(log, w.event) /\ UNCHANGED prompt
    <3>1. w.event \in Events
      BY <1>2, <2>3 DEF Writes, RowWrites, AuditWrites, OtherWrites
    <3> QED
      BY <1>5, <1>6, <2>3, <3>1 DEF GovernedInv
  <2> QED
    BY <1>9, <2>1, <2>2, <2>3 DEF Write
<1> QED
  BY <1>7, <1>8, <1>9

-----------------------------------------------------------------------------
\* The inductive invariant of the panel's prompts: what is in effect and what is about to be
\* written are governed, whatever requests, crashes and writes of the rest come in between.
THEOREM GovernedInductive == PanelSpec => []GovernedInv
<1>1. PanelInit => GovernedInv
  <2> SUFFICES ASSUME PanelInit PROVE GovernedInv
    OBVIOUS
  <2>1. prompt = [r \in Roles |-> None] /\ log = <<>> /\ todo = <<>>
    BY DEF PanelInit, Init
  <2>2. RowInv /\ TodoInv
    BY <2>1 DEF RowInv, TodoInv
  <2>3. \A r \in Roles : Effective(r) = Default(r)
    BY <2>1 DEF Effective
  <2>4. EffectiveWasGoverned
    BY <2>3, DefaultGoverned, EffectiveGoverned
  <2> QED
    BY <2>2, <2>4 DEF GovernedInv
<1>2. GovernedInv /\ [PanelNext]_allVars => GovernedInv'
  <2> SUFFICES ASSUME GovernedInv, [PanelNext]_allVars PROVE GovernedInv'
    OBVIOUS
  <2>1. CASE UNCHANGED allVars
    <3>1. UNCHANGED <<prompt, log, todo>>
      BY <2>1 DEF allVars, vars
    <3> QED
      BY <3>1 DEF GovernedInv, RowInv, TodoInv, EffectiveWasGoverned, Governed, Effective, EventsOf, CanSave
  <2>2. CASE PromptRequest
    BY <2>2, RequestGoverned, ResetServed DEF PromptRequest
  <2>3. CASE PanelRequest
    BY <2>3, PanelRequestGoverned
  <2>4. CASE Write \/ Crash \/ WritePanel
    BY <2>4, TransactionGoverned
  <2> QED
    BY <2>1, <2>2, <2>3, <2>4 DEF PanelNext
<1> QED
  BY <1>1, <1>2, PTL DEF PanelSpec

\* EffectiveWasGoverned holds for any roles, templates, rewrites and windows: no fixed prompt is
\* in effect that was not a draft before, and none that the checks on saving refuse.
THEOREM PromptsGoverned == PanelSpec => []EffectiveWasGoverned
<1>1. GovernedInv => EffectiveWasGoverned
  BY DEF GovernedInv
<1> QED
  BY <1>1, GovernedInductive, PTL

-----------------------------------------------------------------------------
(* The newest of a set of versions, and the windows of the log. *)

\* The newest of some versions of a log, 0 if there are none.
LEMMA NewestOf ==
    ASSUME NEW n \in Nat, NEW S \in SUBSET (1 .. n)
    PROVE  /\ S = {} => Newest(S) = 0
           /\ S # {} => Newest(S) \in S /\ \A y \in S : Newest(S) >= y
           /\ Newest(S) \in 0 .. n
<1>1. CASE S = {}
  BY <1>1 DEF Newest
<1>2. CASE S # {}
  <2>1. \E x \in S : \A y \in S : x >= y
    BY <1>2, MaxExists
  <2>2. Max(S) \in S /\ \A y \in S : Max(S) >= y
    BY <2>1 DEF Max
  <2>3. Newest(S) = Max(S)
    BY <1>2 DEF Newest
  <2>4. PICK x \in S : x = Newest(S)
    BY <2>2, <2>3
  <2>5. x \in 0 .. n
    OBVIOUS
  <2> QED
    BY <1>2, <2>2, <2>3, <2>4, <2>5, Zenon
<1> QED
  BY <1>1, <1>2

\* A version that no other of the set exceeds is its newest.
LEMMA NewestIs ==
    ASSUME NEW n \in Nat, NEW S \in SUBSET (1 .. n), NEW x \in S, \A y \in S : x >= y
    PROVE  Newest(S) = x
<1>1. PICK m \in S : m = Newest(S) /\ m >= x
  BY NewestOf
<1>2. m \in Int /\ x \in Int /\ x >= m
  OBVIOUS
<1> QED
  BY <1>1, <1>2

\* An event at the end is the newest of its kind.
LEMMA NewestAdded ==
    ASSUME NEW n \in Nat, NEW S \in SUBSET (1 .. n)
    PROVE  Newest(S \cup {n + 1}) = n + 1
<1>1. S \cup {n + 1} \in SUBSET (1 .. n + 1) /\ n + 1 \in S \cup {n + 1} /\ n + 1 \in Nat
  OBVIOUS
<1>2. \A y \in S \cup {n + 1} : n + 1 >= y
  OBVIOUS
<1> QED
  BY <1>1, <1>2, NewestIs

\* Versions that a look at the newest events sees: with every event of the role, all later ones.
Upward(r, H) == H \subseteq EventsOf(r) /\ \A i \in H : \A j \in EventsOf(r) : j > i => j \in H

\* The windows of the requests and of the page are of that kind, and so is the whole log.
LEMMA WindowsUpward ==
    ASSUME log \in Seq(Events), NEW r \in Roles
    PROVE  Upward(r, History(r)) /\ Upward(r, PanelHistory(r)) /\ Upward(r, EventsOf(r))
<1>1. EventsOf(r) \in SUBSET (1 .. Len(log)) /\ Len(log) \in Nat
  BY DEF EventsOf
<1>2. ASSUME NEW i \in History(r), NEW j \in EventsOf(r), j > i PROVE j \in History(r)
  <2> DEFINE After(k) == {l \in EventsOf(r) : l > k}
  <2>1. i \in EventsOf(r) /\ Cardinality(After(i)) < HistoryWindow
    BY <1>2 DEF History
  <2>2. After(j) \subseteq After(i)
    BY <1>1, <1>2, <2>1
  <2>3. IsFiniteSet(1 .. Len(log)) /\ After(i) \subseteq 1 .. Len(log)
    BY <1>1, FS_Interval
  <2>4. IsFiniteSet(After(i))
    BY <2>3, FS_Subset
  <2>5. IsFiniteSet(After(j)) /\ Cardinality(After(j)) <= Cardinality(After(i))
    BY <2>2, <2>4, FS_Subset
  <2>6. Cardinality(After(i)) \in Nat /\ Cardinality(After(j)) \in Nat
    BY <2>4, <2>5, FS_CardinalityType
  <2>7. Cardinality(After(j)) < HistoryWindow
    BY <2>1, <2>5, <2>6, PromptAssumption
  <2> QED
    BY <2>7 DEF History
<1>3. ASSUME NEW i \in PanelHistory(r), NEW j \in EventsOf(r), j > i PROVE j \in PanelHistory(r)
  <2>1. i \in 1 .. Len(log) /\ j \in 1 .. Len(log) /\ OverviewWindow \in Int
    BY <1>1, PromptAssumption DEF PanelHistory
  <2>2. Len(log) - i < OverviewWindow => Len(log) - j < OverviewWindow
    BY <1>1, <1>3, <2>1
  <2> QED
    BY <2>2 DEF PanelHistory
<1> QED
  BY <1>2, <1>3 DEF Upward, History, PanelHistory

-----------------------------------------------------------------------------
(* What the log says of a role. *)

\* A dismissal names an earlier version, and nothing else names one.
LogInv ==
    /\ log \in Seq(Events) /\ Len(log) <= MaxLog
    /\ \A i \in DOMAIN log : log[i].about # 0 => log[i].action = "dismiss" /\ log[i].about < i

\* Unless a change never reached the log, the last one applied is what is in effect.
LastTells ==
    \A r \in Roles \ unlogged : LastApplied(r) # 0 => log[LastApplied(r)].state = Effective(r)

\* A window that sees later events sees no draft as pending that the whole log does not.
LEMMA PendingInWindow ==
    ASSUME LogInv, NEW r \in Roles, NEW H, Upward(r, H)
    PROVE  PendingIn(r, H) \in {0, PendingIn(r, EventsOf(r))}
<1> DEFINE E == EventsOf(r)
           Applies(G) == {i \in G : log[i].action \in APPLIED_PROMPT_ACTIONS /\ log[i].state = Effective(r)}
           Drafts(G) == {i \in G : /\ log[i].action \in DRAFT_PROMPT_ACTIONS
                                   /\ i \notin Dismissed(G)
                                   /\ i > ApprovedIn(r, G)}
           n == Len(log)
           p == PendingIn(r, H)
<1>1. n \in Nat /\ E \in SUBSET (1 .. n) /\ H \in SUBSET E
  BY DEF LogInv, EventsOf, Upward
<1>2. \A G : ApprovedIn(r, G) = Newest(Applies(G)) /\ PendingIn(r, G) = Newest(Drafts(G))
  BY DEF ApprovedIn, PendingIn
<1>3. Applies(H) \in SUBSET (1 .. n) /\ Applies(E) \in SUBSET (1 .. n)
  BY <1>1
<1>4. Drafts(H) \in SUBSET (1 .. n) /\ Drafts(E) \in SUBSET (1 .. n)
  BY <1>1
<1>5. SUFFICES ASSUME p # 0 PROVE p = PendingIn(r, E)
  BY <1>2
<1>6. p \in Drafts(H) /\ \A q \in Drafts(H) : p >= q
  <2>1. p = Newest(Drafts(H))
    BY <1>2
  <2> HIDE DEF p, Drafts
  <2> QED
    BY <1>1, <1>4, <1>5, <2>1, NewestOf
<1> DEFINE a == ApprovedIn(r, H)
           b == ApprovedIn(r, E)
<1>7. a = Newest(Applies(H)) /\ b = Newest(Applies(E))
  BY <1>2
<1>8. p \in H /\ p \in 1 .. n /\ log[p].action \in DRAFT_PROMPT_ACTIONS /\ p \notin Dismissed(H) /\ p > a
  BY <1>1, <1>6
<1> HIDE DEF p, Drafts, a, b, n
<1>9. a \in 0 .. n /\ b \in 0 .. n /\ a <= b /\ p > b
  <2>1. a \in 0 .. n /\ b \in 0 .. n
    <3> HIDE DEF Applies
    <3> QED
      BY <1>1, <1>3, <1>7, NewestOf
  <2>2. a # 0 => a \in Applies(H)
    <3> HIDE DEF Applies
    <3> QED
      BY <1>1, <1>3, <1>7, NewestOf
  <2>3. b # 0 => b \in Applies(E) /\ \A y \in Applies(E) : b >= y
    <3> HIDE DEF Applies
    <3> QED
      BY <1>1, <1>3, <1>7, NewestOf
  <2>4. \A y \in Applies(E) : b >= y
    <3> HIDE DEF Applies
    <3> QED
      BY <1>1, <1>3, <1>7, NewestOf
  <2>5. Applies(H) \subseteq Applies(E)
    BY <1>1
  <2>6. a <= b
    BY <1>1, <2>1, <2>2, <2>4, <2>5
  <2>7. ASSUME b >= p PROVE FALSE
    <3>1. b # 0 /\ b \in E
      BY <1>8, <1>1, <2>1, <2>3, <2>7
    <3>2. b \in H
      <4>1. CASE b = p
        BY <1>8, <4>1
      <4>2. CASE b > p
        BY <1>8, <3>1, <4>2 DEF Upward
      <4> QED
        BY <1>1, <1>8, <2>1, <2>7, <4>1, <4>2
    <3>3. b \in Applies(H)
      BY <2>3, <3>1, <3>2
    <3>4. a >= b
      <4> HIDE DEF Applies
      <4> QED
        BY <1>1, <1>3, <1>7, <3>3, NewestOf
    <3> QED
      BY <1>1, <1>8, <2>1, <2>7, <3>4
  <2> QED
    BY <1>1, <1>8, <2>1, <2>6, <2>7
<1>10. p \notin Dismissed(E)
  <2> SUFFICES ASSUME NEW j \in E, log[j].action = "dismiss", p = log[j].about PROVE FALSE
    BY DEF Dismissed
  <2>1. j \in DOMAIN log /\ p < j
    BY <1>1, <1>8 DEF LogInv, n
  <2>2. j \in H
    BY <1>8, <2>1 DEF Upward
  <2> QED
    BY <1>8, <2>2 DEF Dismissed
<1>11. p \in Drafts(E)
  BY <1>1, <1>8, <1>9, <1>10 DEF Drafts, b
<1>12. \A q \in Drafts(E) : p >= q
  <2> SUFFICES ASSUME NEW q \in Drafts(E), q > p PROVE FALSE
    BY <1>1, <1>4, <1>8
  <2>1. q \in E /\ q \in 1 .. n /\ log[q].action \in DRAFT_PROMPT_ACTIONS /\ q \notin Dismissed(E) /\ q > b
    BY <1>4 DEF Drafts, b
  <2>2. q \in H
    BY <1>8, <2>1 DEF Upward
  <2>3. q \notin Dismissed(H)
    BY <1>1, <2>1 DEF Dismissed
  <2>4. q > a
    BY <1>1, <1>9, <2>1
  <2>5. q \in Drafts(H)
    BY <2>1, <2>2, <2>3, <2>4 DEF Drafts, a
  <2> QED
    BY <1>1, <1>6, <1>8, <2>1, <2>5
<1>13. PendingIn(r, E) = Newest(Drafts(E))
  BY <1>2 DEF Drafts
<1> QED
  BY <1>1, <1>4, <1>11, <1>12, <1>13, NewestIs

\* Once every change has reached the log: the version resolved as approved is the last one
\* applied or has left the window, and the one resolved as pending is newer and not dismissed.
LEMMA ResolvedVersions ==
    ASSUME LogInv, LastTells, NEW r \in Roles \ unlogged
    PROVE  /\ ApprovedVersion(r) \in {0, LastApplied(r)}
           /\ PendingVersion(r) # 0 => /\ PendingVersion(r) > LastApplied(r)
                                       /\ \A i \in EventsOf(r) : log[i].about # PendingVersion(r)
<1> DEFINE E == EventsOf(r)
           H == History(r)
           Applied == {i \in E : log[i].action \in APPLIED_PROMPT_ACTIONS}
           Resolved == {i \in H : log[i].action \in APPLIED_PROMPT_ACTIONS /\ log[i].state = Effective(r)}
           Drafts == {i \in H : /\ log[i].action \in DRAFT_PROMPT_ACTIONS
                                /\ i \notin Dismissed(H) /\ i > ApprovedIn(r, H)}
           n == Len(log)
           l == LastApplied(r)
           a == ApprovedVersion(r)
           p == PendingVersion(r)
<1>1. n \in Nat /\ E \in SUBSET (1 .. n) /\ Upward(r, H) /\ H \in SUBSET E
  BY WindowsUpward DEF LogInv, EventsOf, Upward
<1>2. l = Newest(Applied) /\ a = Newest(Resolved) /\ p = Newest(Drafts) /\ a = ApprovedIn(r, H)
  BY DEF LastApplied, ApprovedVersion, ApprovedIn, PendingVersion, PendingIn
<1>3. Applied \in SUBSET (1 .. n) /\ Resolved \in SUBSET (1 .. n) /\ Drafts \in SUBSET (1 .. n)
      /\ Resolved \subseteq Applied
  BY <1>1
<1>4. l # 0 => l \in E /\ log[l].action \in APPLIED_PROMPT_ACTIONS /\ log[l].state = Effective(r)
  <2>1. l # 0 => l \in Applied
    <3> HIDE DEF Applied, l
    <3> QED
      BY <1>1, <1>2, <1>3, NewestOf
  <2> QED
    BY <2>1 DEF LastTells
<1>5. l # 0 /\ l \in H => l \in Resolved
  BY <1>4
<1>6. \A y \in Applied : l >= y
  <2> HIDE DEF Applied, l
  <2> QED
    BY <1>1, <1>2, <1>3, NewestOf
<1>7. l \in 0 .. n /\ a \in 0 .. n
  <2> HIDE DEF Applied, Resolved, l, a
  <2> QED
    BY <1>1, <1>2, <1>3, NewestOf
<1>8. a # 0 => a \in Resolved
  <2> HIDE DEF Resolved, a
  <2> QED
    BY <1>1, <1>2, <1>3, NewestOf
<1>9. \A y \in Resolved : a >= y
  <2> HIDE DEF Resolved, a
  <2> QED
    BY <1>1, <1>2, <1>3, NewestOf
<1>10. p # 0 => p \in Drafts
  <2> HIDE DEF Drafts, p
  <2> QED
    BY <1>1, <1>2, <1>3, NewestOf
<1> DEFINE Dis == Dismissed(H)
<1>11. p # 0 => p \in H /\ log[p].action \in DRAFT_PROMPT_ACTIONS /\ p \notin Dis /\ p > a
  BY <1>2, <1>10
<1> HIDE DEF l, a, p, n, Applied, Drafts
<1>12. a \in {0, l}
  <2> SUFFICES ASSUME a # 0 PROVE a = l
    OBVIOUS
  <2>1. a \in H /\ a \in Applied
    BY <1>3, <1>8
  <2>2. l >= a /\ l # 0
    BY <1>1, <1>6, <1>7, <2>1
  <2>3. l \in H
    <3>1. l = a \/ l > a
      BY <1>1, <1>7, <2>2
    <3> QED
      BY <1>1, <1>4, <2>1, <2>2, <3>1 DEF Upward
  <2>4. a >= l
    BY <1>5, <1>9, <2>2, <2>3
  <2> QED
    BY <1>1, <1>7, <2>2, <2>4
<1>13. ASSUME p # 0 PROVE p > l
  <2>1. p \in H /\ p \in 1 .. n /\ p > a
    BY <1>1, <1>11, <1>13
  <2>2. ASSUME l >= p PROVE FALSE
    <3>1. l \in E /\ l # 0 /\ (l = p \/ l > p)
      BY <1>1, <1>4, <1>7, <2>1, <2>2
    <3>2. l \in H
      BY <1>1, <2>1, <3>1 DEF Upward
    <3>3. a >= l
      BY <1>5, <1>9, <3>1, <3>2
    <3> QED
      BY <1>1, <1>7, <2>1, <2>2, <3>3
  <2> QED
    BY <1>1, <1>7, <2>1, <2>2
<1>14. ASSUME p # 0, NEW i \in E, log[i].about = p PROVE FALSE
  <2>1. i \in DOMAIN log /\ log[i].action = "dismiss" /\ p < i
    BY <1>14 DEF LogInv, EventsOf
  <2>2. i \in H
    BY <1>1, <1>11, <1>14, <2>1 DEF Upward
  <2>3. p \in Dis
    BY <1>14, <2>1, <2>2 DEF Dismissed
  <2> QED
    BY <1>11, <1>14, <2>3
<1> QED
  BY <1>12, <1>13, <1>14 DEF l, a, p

-----------------------------------------------------------------------------
(* The events a request has yet to write. *)

AuditsIn(writes) == {i \in DOMAIN writes : writes[i].write = "audit"}

\* Such an event names a version that is there, if any, and if it applies a state to a role,
\* then that state is in effect or is written right before it.
Explained(writes, i) ==
    LET e == writes[i].event IN
    /\ e.about # 0 => e.action = "dismiss" /\ e.about <= Len(log)
    /\ e.action \in APPLIED_PROMPT_ACTIONS =>
         IF i = 1 THEN Effective(e.role) = e.state ELSE writes[i - 1] = Upsert(e.role, e.state)

AuditInv ==
    /\ LogInv /\ LastTells
    /\ unlogged \subseteq Roles
    /\ Len(log) + Cardinality(AuditsIn(todo)) <= MaxLog
    /\ \A i \in AuditsIn(todo) : Explained(todo, i)

\* There are finitely many of them.
LEMMA AuditsFinite ==
    ASSUME NEW w \in Seq(Writes)
    PROVE  IsFiniteSet(AuditsIn(w)) /\ Cardinality(AuditsIn(w)) \in Nat /\ AuditsIn(w) \subseteq 1 .. Len(w)
<1>1. AuditsIn(w) \subseteq 1 .. Len(w) /\ Len(w) \in Nat
  BY DEF AuditsIn
<1>2. IsFiniteSet(1 .. Len(w))
  BY <1>1, FS_Interval
<1>3. IsFiniteSet(AuditsIn(w))
  BY <1>1, <1>2, FS_Subset
<1> QED
  BY <1>1, <1>3, FS_CardinalityType

\* With the first write made, as many events are left, or one less if it was one.
LEMMA AuditsLeft ==
    ASSUME NEW w \in Seq(Writes), w # <<>>
    PROVE  /\ Cardinality(AuditsIn(Tail(w))) \in Nat
           /\ Cardinality(AuditsIn(Tail(w))) + (IF Head(w).write = "audit" THEN 1 ELSE 0) <= Cardinality(AuditsIn(w))
<1> DEFINE A == AuditsIn(w)
           B == AuditsIn(Tail(w))
           f == [i \in B |-> i + 1]
<1>1. Tail(w) \in Seq(Writes) /\ Head(w) = w[1] /\ 1 \in DOMAIN w
      /\ \A i \in DOMAIN Tail(w) : i \in Nat \ {0} /\ i + 1 \in DOMAIN w /\ Tail(w)[i] = w[i + 1]
  OBVIOUS
<1>2. IsFiniteSet(A) /\ IsFiniteSet(B) /\ Cardinality(A) \in Nat /\ Cardinality(B) \in Nat
  BY <1>1, AuditsFinite
<1>3. \A i \in B : i \in Nat \ {0} /\ i + 1 \in A \ {1}
  BY <1>1 DEF AuditsIn
<1> HIDE DEF A, B
<1>4. f \in Injection(B, A \ {1})
  BY <1>3 DEF Injection, IsInjective
<1>5. IsFiniteSet(A \ {1}) /\ Cardinality(A \ {1}) = IF 1 \in A THEN Cardinality(A) - 1 ELSE Cardinality(A)
  BY <1>2, FS_RemoveElement
<1> HIDE DEF f
<1>6. Cardinality(B) <= Cardinality(A \ {1})
  BY <1>4, <1>5, FS_Injection
<1>7. Head(w).write = "audit" <=> 1 \in A
  BY <1>1 DEF A, AuditsIn
<1> QED
  BY <1>2, <1>5, <1>6, <1>7 DEF A, B

\* A request begins to be served.
LEMMA AuditServed ==
    ASSUME AuditInv, NEW w, todo' = w, UNCHANGED <<prompt, log, unlogged>>,
           Len(log) + Cardinality(AuditsIn(w)) <= MaxLog,
           \A i \in AuditsIn(w) : Explained(w, i)
    PROVE  AuditInv'
<1>1. \A r : Effective(r)' = Effective(r) /\ EventsOf(r)' = EventsOf(r)
  BY DEF Effective, EventsOf, Default
<1>2. \A r : LastApplied(r)' = LastApplied(r)
  BY DEF LastApplied, EventsOf
<1>3. LogInv' /\ LastTells'
  BY <1>1, <1>2 DEF AuditInv, LogInv, LastTells
<1>4. \A i : Explained(w, i) => Explained(todo, i)'
  BY <1>1 DEF Explained
<1>5. AuditsIn(todo)' = AuditsIn(w)
  BY DEF AuditsIn
<1> QED
  BY <1>3, <1>4, <1>5 DEF AuditInv

\* A request about the prompts, which is only served if its events fit into the log.
LEMMA ServeAudited ==
    ASSUME AuditInv, NEW w, Serve(w), \A i \in AuditsIn(w) : Explained(w, i)
    PROVE  AuditInv'
<1>1. todo' = w /\ UNCHANGED <<prompt, log, unlogged>> /\ Len(log) + Cardinality(AuditsIn(w)) <= MaxLog
  BY DEF Serve, AuditsIn
<1> QED
  BY <1>1, AuditServed

\* A draft or a dismissal, written on its own.
LEMMA EventAudited ==
    ASSUME AuditInv, NEW r, NEW a \in DRAFT_PROMPT_ACTIONS \cup {"dismiss"}, NEW s, NEW v,
           v # 0 => a = "dismiss" /\ v <= Len(log),
           Serve(<<Audit(r, a, s, v)>>)
    PROVE  AuditInv'
<1> DEFINE w == Audit(r, a, s, v)
<1>1. w.event.action = a /\ w.event.about = v
  BY DEF Audit
<1>2. a \notin APPLIED_PROMPT_ACTIONS
  BY DEF APPLIED_PROMPT_ACTIONS, DRAFT_PROMPT_ACTIONS
<1> HIDE DEF w
<1>3. \A i \in DOMAIN <<w>> : <<w>>[i] = w
  OBVIOUS
<1>4. \A i \in AuditsIn(<<w>>) : Explained(<<w>>, i)
  BY <1>1, <1>2, <1>3 DEF AuditsIn, Explained
<1> QED
  BY <1>4, ServeAudited DEF w

\* A row with its event.
LEMMA RowAudited ==
    ASSUME AuditInv, NEW r, NEW a, NEW s, Serve(Apply(r, a, s))
    PROVE  AuditInv'
<1> DEFINE u == Upsert(r, s)
           w == Audit(r, a, s, 0)
<1>1. u.write = "row" /\ w.event.role = r /\ w.event.state = s /\ w.event.about = 0 /\ u = Upsert(r, s)
  BY DEF Upsert, Audit
<1>2. Apply(r, a, s) = <<u, w>>
  BY DEF Apply
<1> HIDE DEF u, w
<1>3. DOMAIN <<u, w>> = 1 .. 2 /\ <<u, w>>[1] = u /\ <<u, w>>[2] = w
  OBVIOUS
<1>4. \A i \in AuditsIn(<<u, w>>) : i = 2
  BY <1>1, <1>3 DEF AuditsIn
<1>5. Explained(<<u, w>>, 2)
  BY <1>1, <1>3 DEF Explained
<1> QED
  BY <1>2, <1>4, <1>5, ServeAudited, Zenon

\* A reset writes the row of every role right before its event.
LEMMA ResetAudited ==
    ASSUME GovernedInv, AuditInv, ResetPrompts
    PROVE  AuditInv'
<1> DEFINE n == 2 * Len(RoleOrder)
           Step(i) == LET r == RoleOrder[(i + 1) \div 2]
                      IN  IF i % 2 = 1 THEN Upsert(r, Default(r)) ELSE Audit(r, "reset", Default(r), 0)
           steps == [i \in 1 .. n |-> Step(i)]
           all == <<DeleteRows>> \o steps
<1>1. ResetWrites = all
  BY Zenon DEF ResetWrites
<1>2. n \in Nat
  BY PromptAssumption
<1>3. DeleteRows.write = "delete"
  BY DEF DeleteRows
<1> DEFINE d == DeleteRows
<1> HIDE DEF n, Step, d
<1>4. steps \in [1 .. n -> {Step(i) : i \in 1 .. n}] /\ Len(steps) = n
  BY <1>2
<1>5. \A i \in DOMAIN (<<d>> \o steps) :
        \/ i = 1 /\ (<<d>> \o steps)[i] = d
        \/ i - 1 \in 1 .. n /\ i \in Nat /\ (<<d>> \o steps)[i] = Step(i - 1)
  BY <1>2, <1>4
<1>6. \A i \in 1 .. n : (<<d>> \o steps)[i + 1] = Step(i)
  BY <1>2, <1>4
<1> HIDE DEF steps
<1>7. ASSUME NEW i \in AuditsIn(all) PROVE Explained(all, i)
  <2>1. i \in DOMAIN all /\ all[i].write = "audit"
    BY <1>7 DEF AuditsIn
  <2>2. i - 1 \in 1 .. n /\ i \in Nat /\ all[i] = Step(i - 1)
    BY <1>3, <1>5, <2>1 DEF d
  <2> DEFINE k == i - 1
             r == RoleOrder[(k + 1) \div 2]
  <2>3. ASSUME k % 2 = 1 PROVE FALSE
    <3>1. Step(k) = Upsert(r, Default(r))
      BY <2>3, Zenon DEF Step
    <3>2. \A q, t : Upsert(q, t).write = "row"
      BY DEF Upsert
    <3>3. Step(k).write = "row"
      BY <3>1, <3>2, Zenon
    <3> QED
      BY <2>1, <2>2, <3>3
  <2>4. k \in 1 .. n /\ k - 1 \in 1 .. n /\ (k - 1) % 2 = 1 /\ (k - 1 + 1) \div 2 = (k + 1) \div 2
    BY <1>2, <2>2, <2>3
  <2>5. all[i] = Audit(r, "reset", Default(r), 0)
    BY <2>2, <2>3 DEF Step
  <2>6. Step(k - 1) = Upsert(r, Default(r))
    BY <2>4 DEF Step
  <2>7. all[i - 1] = Upsert(r, Default(r))
    <3>1. all[(k - 1) + 1] = Step(k - 1)
      BY <1>6, <2>4 DEF d
    <3>2. (k - 1) + 1 = i - 1
      BY <2>2
    <3> QED
      BY <2>6, <3>1, <3>2
  <2>8. i # 1
    BY <2>2
  <2> HIDE DEF all, r, k
  <2>9. all[i].event = [role |-> r, action |-> "reset", state |-> Default(r), about |-> 0]
    BY <2>5 DEF Audit
  <2> QED
    BY <2>7, <2>8, <2>9 DEF Explained
<1> QED
  BY <1>1, <1>7, ServeAudited DEF ResetPrompts

\* The other requests about the prompts write an event, or a row and its event.
LEMMA RequestAudited ==
    ASSUME GovernedInv, AuditInv, NEW r \in Roles, Request(r)
    PROVE  AuditInv'
<1> "draft" \in DRAFT_PROMPT_ACTIONS /\ "draft_restore" \in DRAFT_PROMPT_ACTIONS
  BY DEF DRAFT_PROMPT_ACTIONS
<1>1. ASSUME NEW s \in State, UpdatePrompt(r, s) PROVE AuditInv'
  <2>1. Serve(<<Audit(r, "draft", s, 0)>>) \/ Serve(Apply(r, "update", s))
    BY <1>1, Zenon DEF UpdatePrompt
  <2> QED
    BY <2>1, EventAudited, RowAudited
<1>2. ASSUME NEW s \in State, RestorePrompt(r, s) PROVE AuditInv'
  <2>1. Serve(<<Audit(r, "draft_restore", s, 0)>>) \/ Serve(Apply(r, "restore", s))
    BY <1>2, Zenon DEF RestorePrompt
  <2> QED
    BY <2>1, EventAudited, RowAudited
<1>3. ASSUME ApprovePrompt(r) PROVE AuditInv'
  BY <1>3, RowAudited, Zenon DEF ApprovePrompt
<1>4. ASSUME DismissPrompt(r) PROVE AuditInv'
  <2> DEFINE p == PendingVersion(r)
  <2>1. p # 0 /\ Serve(<<Audit(r, "dismiss", log[p].state, p)>>)
    BY <1>4 DEF DismissPrompt
  <2>2. p \in EventsOf(r)
    BY <2>1, PendingIsDraft DEF GovernedInv
  <2>3. p <= Len(log)
    BY <2>2 DEF EventsOf, GovernedInv, RowInv
  <2> QED
    BY <2>1, <2>3, EventAudited
<1> QED
  BY <1>1, <1>2, <1>3, <1>4 DEF Request

\* Requests about the rest write no event of the log.
LEMMA PanelRequestAudited ==
    ASSUME GovernedInv, AuditInv, PanelRequest
    PROVE  AuditInv'
<1>1. ASSUME NEW w, ServePanel(w), AuditsIn(w) = {} PROVE AuditInv'
  <2>1. todo' = w /\ todo = <<>> /\ UNCHANGED <<prompt, log, unlogged>>
    BY <1>1 DEF ServePanel
  <2>2. Cardinality(AuditsIn(w)) = 0
    BY <1>1, FS_EmptySet
  <2>3. Len(log) + Cardinality(AuditsIn(w)) <= MaxLog
    BY <2>2, PromptAssumption DEF AuditInv, LogInv
  <2> QED
    BY <1>1, <2>1, <2>3, AuditServed
<1> DEFINE Quiet(x) == x.write # "audit"
<1>2. /\ \A r, m : Quiet(UpsertRoute(r, m))
      /\ \A p : Quiet(UpsertPolicy(p))
      /\ \A t, v : Quiet(Trace(t, v))
      /\ Quiet(DeleteRoutes)
  BY DEF UpsertRoute, UpsertPolicy, Trace, DeleteRoutes
<1>3. \A x, y : Quiet(x) /\ Quiet(y) => AuditsIn(<<x, y>>) = {}
  <2> TAKE x, y
  <2>1. DOMAIN <<x, y>> = 1 .. 2 /\ <<x, y>>[1] = x /\ <<x, y>>[2] = y
    OBVIOUS
  <2> QED
    BY <2>1 DEF AuditsIn
<1>4. ASSUME NEW r \in Roles, NEW m \in Model, UpdateRoute(r, m) PROVE AuditInv'
  <2>1. ServePanel(<<UpsertRoute(r, m), Trace(r, m)>>)
    BY <1>4 DEF UpdateRoute
  <2>2. Quiet(UpsertRoute(r, m)) /\ Quiet(Trace(r, m))
    BY <1>2
  <2> HIDE DEF Quiet
  <2> QED
    BY <1>1, <1>3, <2>1, <2>2, Zenon
<1>5. ASSUME NEW p \in Policy, UpdatePolicy(p) PROVE AuditInv'
  <2>1. ServePanel(<<UpsertPolicy(p), Trace("freshness", p)>>)
    BY <1>5 DEF UpdatePolicy
  <2>2. Quiet(UpsertPolicy(p)) /\ Quiet(Trace("freshness", p))
    BY <1>2
  <2> HIDE DEF Quiet
  <2> QED
    BY <1>1, <1>3, <2>1, <2>2, Zenon
<1>6. ASSUME ResetRoutes PROVE AuditInv'
  <2> DEFINE rows == [i \in DOMAIN RoleOrder |-> UpsertRoute(RoleOrder[i], DefaultModel)]
             x == DeleteRoutes
             y == Trace("every role", DefaultModel)
             Row(i) == UpsertRoute(RoleOrder[i], DefaultModel)
  <2>1. ServePanel(<<x>> \o rows \o <<y>>)
    BY <1>6, Zenon DEF ResetRoutes
  <2>2. Quiet(x) /\ Quiet(y) /\ \A i : Quiet(Row(i))
    BY <1>2
  <2>3. RoleOrder \in Seq(Roles)
    BY PromptAssumption
  <2> HIDE DEF x, y, Row
  <2>4. rows = [i \in 1 .. Len(RoleOrder) |-> Row(i)]
    BY <2>3 DEF Row
  <2> HIDE DEF rows
  <2>5. rows \in Seq({Row(i) : i \in 1 .. Len(RoleOrder)})
    BY <2>3, <2>4
  <2>6. \A i \in DOMAIN (<<x>> \o rows \o <<y>>) :
          \/ (<<x>> \o rows \o <<y>>)[i] = x \/ (<<x>> \o rows \o <<y>>)[i] = y
          \/ \E j \in DOMAIN rows : (<<x>> \o rows \o <<y>>)[i] = rows[j]
    BY <2>5
  <2>7. \A j \in DOMAIN rows : Quiet(rows[j])
    BY <2>2, <2>4
  <2> HIDE DEF Quiet
  <2>8. \A i \in DOMAIN (<<x>> \o rows \o <<y>>) : Quiet((<<x>> \o rows \o <<y>>)[i])
    BY <2>2, <2>6, <2>7
  <2> DEFINE all == <<x>> \o rows \o <<y>>
  <2> HIDE DEF all
  <2>9. AuditsIn(all) = {}
    BY <2>8 DEF AuditsIn, Quiet, all
  <2> QED
    BY <1>1, <2>1, <2>9 DEF all
<1> QED
  BY <1>4, <1>5, <1>6 DEF PanelRequest

\* What a write leaves of the events still to be written.
LEMMA RestExplained ==
    ASSUME GovernedInv, AuditInv, todo # <<>>, todo' = Tail(todo),
           log' = log \/ \E e \in Events : log' = Append(log, e),
           \A r \in Roles, s \in State : Head(todo) = Upsert(r, s) => Effective(r)' = s
    PROVE  \A i \in AuditsIn(todo)' : Explained(todo, i)'
<1>1. todo \in Seq(Writes) /\ log \in Seq(Events)
  BY DEF GovernedInv, TodoInv, RowInv
<1>2. Len(log) \in Nat /\ Len(log') \in Nat /\ Len(log) <= Len(log')
  BY <1>1
<1> SUFFICES ASSUME NEW i \in AuditsIn(Tail(todo)) PROVE Explained(todo, i)'
  BY DEF AuditsIn
<1>3. i \in DOMAIN Tail(todo) /\ i \in Nat \ {0} /\ i + 1 \in DOMAIN todo /\ todo[i + 1] \in Writes
      /\ Head(todo) = todo[1]
  BY <1>1 DEF AuditsIn
<1> PICK rest : rest = Tail(todo)
  OBVIOUS
<1> PICK e : e = todo[i + 1].event
  OBVIOUS
<1> PICK before : before = todo[i]
  OBVIOUS
<1>4. rest[i] = todo[i + 1] /\ (i # 1 => rest[i - 1] = before) /\ (i = 1 => before = Head(todo))
  BY <1>1, <1>3
<1>5. todo[i + 1].write = "audit" /\ i + 1 \in AuditsIn(todo)
  BY <1>3, <1>4 DEF AuditsIn
<1>6. e \in Events
  BY <1>3, <1>5 DEF Writes, RowWrites, AuditWrites, OtherWrites
<1>7. /\ e.about # 0 => e.action = "dismiss" /\ e.about <= Len(log)
      /\ e.action \in APPLIED_PROMPT_ACTIONS => before = Upsert(e.role, e.state)
  <2>1. Explained(todo, i + 1)
    BY <1>5 DEF AuditInv
  <2>2. i + 1 # 1 /\ todo[(i + 1) - 1] = before
    BY <1>3
  <2> QED
    BY <2>1, <2>2, Zenon DEF Explained
<1>8. e.role \in Roles /\ e.state \in State /\ e.about \in Nat
  BY <1>6 DEF Events
<1>9. e.about # 0 => e.action = "dismiss" /\ e.about <= Len(log')
  BY <1>2, <1>7, <1>8
<1>10. e.action \in APPLIED_PROMPT_ACTIONS =>
         IF i = 1 THEN Effective(e.role)' = e.state ELSE rest[i - 1] = Upsert(e.role, e.state)
  BY <1>4, <1>7, <1>8
<1>11. todo' = rest /\ rest[i].event = e
  BY <1>4
<1> QED
  BY <1>9, <1>10, <1>11 DEF Explained, Upsert

\* The transactions: a row without its event makes its role one whose log lags, the event
\* that follows catches it up.
LEMMA TransactionAudited ==
    ASSUME GovernedInv, AuditInv, Write \/ Crash \/ WritePanel
    PROVE  AuditInv'
<1>1. /\ todo \in Seq(Writes) /\ todo # <<>> /\ log \in Seq(Events) /\ Len(log) \in Nat
      /\ prompt \in [Roles -> State \cup {None}] /\ None \notin State /\ MaxLog \in Nat
  BY PromptAssumption DEF GovernedInv, TodoInv, RowInv, Write, Crash, WritePanel
<1>2. Head(todo) \in Writes
  BY <1>1
<1>3. /\ Cardinality(AuditsIn(todo)) \in Nat /\ Cardinality(AuditsIn(Tail(todo))) \in Nat
      /\ Cardinality(AuditsIn(Tail(todo))) + (IF Head(todo).write = "audit" THEN 1 ELSE 0) <= Cardinality(AuditsIn(todo))
      /\ Len(log) + Cardinality(AuditsIn(todo)) <= MaxLog
  BY <1>1, AuditsFinite, AuditsLeft DEF AuditInv
<1>4. ASSUME UNCHANGED <<prompt, log, unlogged>>
      PROVE  LogInv' /\ LastTells' /\ unlogged' \subseteq Roles /\ \A r : Effective(r)' = Effective(r)
  <2>1. \A r : Effective(r)' = Effective(r)
    BY <1>4 DEF Effective, Default
  <2>2. \A r : LastApplied(r)' = LastApplied(r)
    BY <1>4 DEF LastApplied, EventsOf
  <2> QED
    BY <1>4, <2>1, <2>2 DEF AuditInv, LogInv, LastTells
<1>5. CASE Crash
  <2>1. todo' = <<>> /\ UNCHANGED <<prompt, log, unlogged>>
    BY <1>5 DEF Crash
  <2>2. AuditsIn(todo)' = {}
    BY <2>1 DEF AuditsIn
  <2>3. Cardinality(AuditsIn(todo)') = 0
    BY <2>2, FS_EmptySet
  <2> QED
    BY <1>1, <1>3, <1>4, <2>1, <2>2, <2>3 DEF AuditInv
<1>6. CASE WritePanel
  <2>1. todo' = Tail(todo) /\ UNCHANGED <<prompt, log, unlogged>>
        /\ Head(todo).write \in {"routes", "route", "policy", "trail"}
    BY <1>6 DEF WritePanel
  <2>2. \A r, s : Head(todo) # Upsert(r, s)
    BY <2>1 DEF Upsert
  <2>3. \A i \in AuditsIn(todo)' : Explained(todo, i)'
    BY <1>1, <2>1, <2>2, RestExplained
  <2>4. AuditsIn(todo)' = AuditsIn(Tail(todo))
    BY <2>1 DEF AuditsIn
  <2> QED
    BY <1>1, <1>3, <1>4, <2>1, <2>3, <2>4 DEF AuditInv
<1> DEFINE w == Head(todo)
<1>7. ASSUME w.write = "delete", todo' = Tail(todo), prompt' = [r \in Roles |-> None],
             unlogged' = unlogged \cup {r \in Roles : Effective(r) # Default(r)}, UNCHANGED log
      PROVE  AuditInv'
  <2>1. \A r, s : w # Upsert(r, s)
    BY <1>7 DEF Upsert
  <2>2. \A i \in AuditsIn(todo)' : Explained(todo, i)'
    BY <1>1, <1>7, <2>1, RestExplained
  <2>3. AuditsIn(todo)' = AuditsIn(Tail(todo))
    BY <1>7 DEF AuditsIn
  <2>4. \A r \in Roles : Effective(r)' = Default(r)
    BY <1>7 DEF Effective, Default
  <2>5. \A r : LastApplied(r)' = LastApplied(r)
    BY <1>7 DEF LastApplied, EventsOf
  <2>6. LastTells'
    <3> SUFFICES ASSUME NEW r \in Roles \ unlogged', LastApplied(r) # 0
                 PROVE  log[LastApplied(r)].state = Default(r)
      BY <1>7, <2>4, <2>5 DEF LastTells
    <3>1. r \in Roles \ unlogged /\ Effective(r) = Default(r)
      BY <1>7
    <3> QED
      BY <3>1 DEF AuditInv, LastTells
  <2>7. LogInv' /\ unlogged' \subseteq Roles
    BY <1>7 DEF AuditInv, LogInv
  <2> QED
    BY <1>1, <1>3, <1>7, <2>2, <2>3, <2>6, <2>7 DEF AuditInv
<1>8. ASSUME w.write = "row", todo' = Tail(todo), prompt' = [prompt EXCEPT ![w.role] = w.state],
             unlogged' = unlogged \cup {w.role}, UNCHANGED log
      PROVE  AuditInv'
  <2>1. w.role \in Roles /\ w.state \in State
    BY <1>2, <1>8 DEF Writes, RowWrites, AuditWrites, OtherWrites
  <2>2. \A r \in Roles : Effective(r)' = IF r = w.role THEN w.state ELSE Effective(r)
    BY <1>1, <1>8, <2>1 DEF Effective, Default
  <2>3. \A r \in Roles, s \in State : w = Upsert(r, s) => Effective(r)' = s
    <3>1. \A r \in Roles, s \in State : w = Upsert(r, s) => w.role = r /\ w.state = s
      BY DEF Upsert
    <3> QED
      BY <2>2, <3>1
  <2>4. \A i \in AuditsIn(todo)' : Explained(todo, i)'
    BY <1>1, <1>8, <2>3, RestExplained
  <2>5. AuditsIn(todo)' = AuditsIn(Tail(todo))
    BY <1>8 DEF AuditsIn
  <2>6. \A r : LastApplied(r)' = LastApplied(r)
    BY <1>8 DEF LastApplied, EventsOf
  <2>7. LastTells'
    BY <1>8, <2>2, <2>6 DEF AuditInv, LastTells
  <2>8. LogInv' /\ unlogged' \subseteq Roles
    BY <1>8, <2>1 DEF AuditInv, LogInv
  <2> QED
    BY <1>1, <1>3, <1>8, <2>4, <2>5, <2>7, <2>8 DEF AuditInv
<1>9. ASSUME w.write = "audit", todo' = Tail(todo), log' = Append(log, w.event), UNCHANGED prompt,
             unlogged' = IF w.event.action \in APPLIED_PROMPT_ACTIONS
                         THEN unlogged \ {w.event.role} ELSE unlogged
      PROVE  AuditInv'
  <2> DEFINE e == w.event
             n == Len(log)
  <2>1. e \in Events
    BY <1>2, <1>9 DEF Writes, RowWrites, AuditWrites, OtherWrites
  <2>2. e.role \in Roles /\ e.state \in State /\ e.about \in Nat /\ e.action \in Action
    BY <2>1 DEF Events
  <2>3. \A r, s : w # Upsert(r, s)
    BY <1>9 DEF Upsert
  <2>4. \A i \in AuditsIn(todo)' : Explained(todo, i)'
    BY <1>1, <1>9, <2>1, <2>3, RestExplained
  <2>5. AuditsIn(todo)' = AuditsIn(Tail(todo))
    BY <1>9 DEF AuditsIn
  <2>6. /\ e.about # 0 => e.action = "dismiss" /\ e.about <= n
        /\ e.action \in APPLIED_PROMPT_ACTIONS => Effective(e.role) = e.state
    <3>1. 1 \in AuditsIn(todo) /\ todo[1] = w
      BY <1>1, <1>9 DEF AuditsIn
    <3>2. Explained(todo, 1)
      BY <3>1 DEF AuditInv
    <3> QED
      BY <3>1, <3>2 DEF Explained
  <2> HIDE DEF e
  <2>7. log' = Append(log, e)
    BY <1>9 DEF e
  <2>8. /\ log' \in Seq(Events) /\ Len(log') = n + 1 /\ DOMAIN log' = DOMAIN log \cup {n + 1}
        /\ DOMAIN log = 1 .. n /\ log'[n + 1] = e /\ \A i \in DOMAIN log : log'[i] = log[i]
    BY <1>1, <2>1, <2>7
  <2>9. LogInv'
    <3>1. Len(log') <= MaxLog
      BY <1>1, <1>3, <1>9, <2>8
    <3>2. \A i \in DOMAIN log' : log'[i].about # 0 => log'[i].action = "dismiss" /\ log'[i].about < i
      <4> TAKE i \in DOMAIN log'
      <4>1. CASE i \in DOMAIN log
        BY <2>8, <4>1 DEF AuditInv, LogInv
      <4>2. CASE i = n + 1
        BY <1>1, <2>2, <2>6, <2>8, <4>2
      <4> QED
        BY <2>8, <4>1, <4>2
    <3> QED
      BY <2>8, <3>1, <3>2 DEF LogInv
  <2>10. \A r : EventsOf(r)' = IF r = e.role THEN EventsOf(r) \cup {n + 1} ELSE EventsOf(r)
    <3>1. \A r : EventsOf(r)' = {i \in DOMAIN log \cup {n + 1} : (IF i = n + 1 THEN e ELSE log[i]).role = r}
      BY <1>1, <2>8 DEF EventsOf
    <3>2. n + 1 \notin DOMAIN log
      BY <1>1
    <3> QED
      BY <3>1, <3>2 DEF EventsOf
  <2> DEFINE Applied(r) == {i \in EventsOf(r) : log[i].action \in APPLIED_PROMPT_ACTIONS}
  <2>11. \A r : EventsOf(r) \subseteq DOMAIN log /\ n + 1 \notin DOMAIN log
    BY <1>1 DEF EventsOf
  <2>12. \A r : Applied(r)' = IF r = e.role /\ e.action \in APPLIED_PROMPT_ACTIONS
                              THEN Applied(r) \cup {n + 1} ELSE Applied(r)
    <3> TAKE r
    <3>1. Applied(r)' = {i \in EventsOf(r)' : log'[i].action \in APPLIED_PROMPT_ACTIONS}
      OBVIOUS
    <3>2. \A i \in EventsOf(r) : log'[i] = log[i]
      BY <2>8, <2>11
    <3> QED
      BY <2>8, <2>10, <2>11, <3>1, <3>2
  <2>13. \A r : LastApplied(r) = Newest(Applied(r)) /\ LastApplied(r)' = Newest(Applied(r)') /\ Applied(r) \in SUBSET (1 .. n)
    BY <2>8, <2>11 DEF LastApplied, Newest
  <2> HIDE DEF Applied, n
  <2>14. \A r : Effective(r)' = Effective(r)
    BY <1>9 DEF Effective, Default
  <2>15. LastTells'
    <3> SUFFICES ASSUME NEW r \in Roles \ unlogged', LastApplied(r)' # 0
                 PROVE  log'[LastApplied(r)'].state = Effective(r)
      BY <2>14 DEF LastTells
    <3>1. CASE r = e.role /\ e.action \in APPLIED_PROMPT_ACTIONS
      <4>1. LastApplied(r)' = n + 1
        BY <1>1, <2>12, <2>13, <3>1, NewestAdded DEF n
      <4> QED
        BY <2>6, <2>8, <3>1, <4>1
    <3>2. CASE ~(r = e.role /\ e.action \in APPLIED_PROMPT_ACTIONS)
      <4>1. LastApplied(r)' = LastApplied(r) /\ LastApplied(r) = Newest(Applied(r)) /\ Applied(r) \in SUBSET (1 .. n)
        BY <2>12, <2>13, <3>2
      <4>2. r \in Roles \ unlogged
        BY <1>9, <3>2 DEF e
      <4>3. Newest(Applied(r)) \in 0 .. n
        BY <1>1, <4>1, NewestOf DEF n
      <4>4. LastApplied(r) \in DOMAIN log
        BY <1>1, <2>8, <4>1, <4>3
      <4>5. log[LastApplied(r)].state = Effective(r)
        BY <4>1, <4>2 DEF AuditInv, LastTells
      <4> QED
        BY <2>8, <4>1, <4>4, <4>5
    <3> QED
      BY <3>1, <3>2
  <2>16. unlogged' \subseteq Roles
    BY <1>9 DEF AuditInv
  <2>17. Len(log') + Cardinality(AuditsIn(Tail(todo))) <= MaxLog
    BY <1>1, <1>3, <1>9, <2>8 DEF n
  <2> QED
    BY <2>4, <2>5, <2>9, <2>15, <2>16, <2>17 DEF AuditInv
<1>10. CASE Write
  BY <1>7, <1>8, <1>9, <1>10 DEF Write
<1> QED
  BY <1>5, <1>6, <1>10

\* The log is read together with what has still to be written: as long as no change is cut off
\* from its event, the last event of a role tells what is in effect.
THEOREM AuditInductive == PanelSpec => []AuditInv
<1>1. PanelInit => AuditInv
  <2> SUFFICES ASSUME PanelInit PROVE AuditInv
    OBVIOUS
  <2>1. log = <<>> /\ todo = <<>> /\ unlogged = {}
    BY DEF PanelInit, Init
  <2>2. AuditsIn(todo) = {} /\ \A r : EventsOf(r) = {}
    BY <2>1 DEF AuditsIn, EventsOf
  <2>3. Cardinality(AuditsIn(todo)) = 0
    BY <2>2, FS_EmptySet
  <2>4. \A r : LastApplied(r) = 0
    BY <2>2 DEF LastApplied, Newest
  <2>5. Len(log) = 0 /\ MaxLog \in Nat
    BY <2>1, PromptAssumption
  <2> QED
    BY <2>1, <2>2, <2>3, <2>4, <2>5 DEF AuditInv, LogInv, LastTells
<1>2. GovernedInv /\ AuditInv /\ [PanelNext]_allVars => AuditInv'
  <2> SUFFICES ASSUME GovernedInv, AuditInv, [PanelNext]_allVars PROVE AuditInv'
    OBVIOUS
  <2>1. CASE UNCHANGED allVars
    <3>1. todo' = todo /\ UNCHANGED <<prompt, log, unlogged>>
      BY <2>1 DEF allVars, vars
    <3> QED
      BY <3>1, AuditServed DEF AuditInv
  <2>2. CASE PromptRequest
    BY <2>2, RequestAudited, ResetAudited DEF PromptRequest
  <2>3. CASE PanelRequest
    BY <2>3, PanelRequestAudited
  <2>4. CASE Write \/ Crash \/ WritePanel
    BY <2>4, TransactionAudited
  <2> QED
    BY <2>1, <2>2, <2>3, <2>4 DEF PanelNext
<1> QED
  BY <1>1, <1>2, GovernedInductive, PTL DEF PanelSpec

\* TypeOK holds for any instance: an event that dismisses a version names an earlier one of
\* the log, whatever requests were cut off.
THEOREM PromptsTyped == PanelSpec => []TypeOK
<1>1. GovernedInv /\ AuditInv => TypeOK
  <2> SUFFICES ASSUME GovernedInv, AuditInv PROVE TypeOK
    OBVIOUS
  <2>1. \A i \in DOMAIN log : log[i] \in Events /\ i \in Nat /\ i <= MaxLog /\ i > 0
    BY PromptAssumption DEF AuditInv, LogInv
  <2>2. \A i \in DOMAIN log : log[i].about < i /\ log[i] \in Event
    <3> TAKE i \in DOMAIN log
    <3>1. log[i].about \in Nat
      BY <2>1 DEF Events
    <3>2. log[i].about < i
      BY <2>1, <3>1 DEF AuditInv, LogInv
    <3>3. log[i].about \in 0 .. MaxLog
      BY <2>1, <3>1, <3>2, PromptAssumption
    <3>4. log[i] \in Event
      BY <2>1, <3>3 DEF Events, Event
    <3> QED
      BY <3>2, <3>4
  <2>3. log \in Seq(Event)
    BY <2>2 DEF AuditInv, LogInv
  <2> QED
    BY <2>2, <2>3 DEF TypeOK, GovernedInv, RowInv, AuditInv, LogInv
<1> QED
  BY <1>1, GovernedInductive, AuditInductive, PTL

\* LogExplainsRow and NoStaleOffer: the versions that a request resolves from its window, and
\* the buttons of the page from its own, are those of the whole log, and no draft that was
\* approved, overtaken by a later change, or dismissed is offered again.
LEMMA LogRead ==
    ASSUME AuditInv
    PROVE  LogExplainsRow /\ NoStaleOffer
<1>1. ASSUME NEW r \in Roles \ unlogged
      PROVE  /\ LastApplied(r) # 0 => log[LastApplied(r)].state = Effective(r)
             /\ ApprovedVersion(r) \in {0, LastApplied(r)}
             /\ LET diff == Preview(r, Default(r)) IN
                  PendingVersion(r) = 0 /\ diff.baseline # 0 => log[diff.baseline].state = diff.before
  <2>1. LastApplied(r) # 0 => log[LastApplied(r)].state = Effective(r)
    BY DEF AuditInv, LastTells
  <2>2. ApprovedVersion(r) \in {0, LastApplied(r)}
    BY ResolvedVersions DEF AuditInv
  <2>3. Preview(r, Default(r)).baseline = ApprovedVersion(r) /\ Preview(r, Default(r)).before = Working(r)
    BY DEF Preview
  <2>4. PendingVersion(r) = 0 => Working(r) = Effective(r)
    BY DEF Working
  <2> QED
    BY <2>1, <2>2, <2>3, <2>4
<1>2. LogExplainsRow
  BY <1>1, Zenon DEF LogExplainsRow
<1>3. NoStaleDraft
  BY ResolvedVersions DEF NoStaleDraft, AuditInv
<1>4. ASSUME NEW r \in Roles PROVE Card(r).draft \in {0, PendingIn(r, EventsOf(r))}
  <2>1. Card(r).draft = PendingIn(r, PanelHistory(r))
    BY DEF Card, Profile
  <2>2. Upward(r, PanelHistory(r))
    BY WindowsUpward DEF AuditInv, LogInv
  <2> QED
    BY <2>1, <2>2, PendingInWindow DEF AuditInv
<1> QED
  BY <1>2, <1>3, <1>4 DEF NoStaleOffer

\* NoStaleOffer holds for any windows of the requests and of the page: no draft that was approved,
\* overtaken by a later change or dismissed is offered again.
THEOREM NothingStaleOffered == PanelSpec => []NoStaleOffer
<1>1. AuditInv => NoStaleOffer
  BY LogRead
<1> QED
  BY <1>1, AuditInductive, PTL

-----------------------------------------------------------------------------
(* The trail of the routes and the thresholds. *)

TrailEvents == [target : Roles \cup {"every role", "freshness"}, value : Model \cup Policy]

Precedes(writes, i, w) == \E j \in 1 .. i - 1 : writes[j] = w

\* What an event of the trail says of its targets has been written, or is written before it and
\* not written over in between.
Backed(writes, i) ==
    LET e == writes[i].event IN
    /\ \A r \in Targets(e) \cap Roles :
         /\ Precedes(writes, i, UpsertRoute(r, e.value)) \/ (route[r] = e.value /\ ~Precedes(writes, i, DeleteRoutes))
         /\ \A j \in 1 .. i - 1 : writes[j].write = "route" /\ writes[j].role = r => writes[j].model = e.value
    /\ "freshness" \in Targets(e) =>
         /\ Precedes(writes, i, UpsertPolicy(e.value)) \/ policy = e.value
         /\ \A j \in 1 .. i - 1 : writes[j].write = "policy" => writes[j].policy = e.value

\* Only the first write deletes the routes.
TrailOf(writes) ==
    /\ \A i \in DOMAIN writes : writes[i].write = "routes" => i = 1
    /\ \A i \in DOMAIN writes : writes[i].write = "trail" => Backed(writes, i)

TrailTells ==
    /\ \A r \in Roles \ untrailed :
         IF LastAbout(r) = 0 THEN route[r] = None ELSE route[r] = trail[LastAbout(r)].value
    /\ "freshness" \notin untrailed =>
         IF LastAbout("freshness") = 0 THEN policy = None ELSE policy = trail[LastAbout("freshness")].value

TrailInv ==
    /\ route \in [Roles -> Model \cup {None}] /\ policy \in Policy \cup {None}
    /\ trail \in Seq(TrailEvents)
    /\ TrailOf(todo) /\ TrailTells

\* A request begins to be served; nothing of the rest has been written yet.
LEMMA TrailServed ==
    ASSUME TrailInv, NEW w, todo' = w, UNCHANGED panelVars, TrailOf(w)
    PROVE  TrailInv'
<1>1. UNCHANGED <<route, policy, trail, untrailed>>
  BY DEF panelVars
<1>2. TrailOf(todo)'
  BY <1>1 DEF TrailOf, Backed, Precedes
<1>3. TrailTells'
  BY <1>1 DEF TrailInv, TrailTells, LastAbout
<1> QED
  BY <1>1, <1>2, <1>3 DEF TrailInv

\* Requests about the prompts write nothing of the rest.
LEMMA PromptsTrail ==
    ASSUME TrailInv, PromptRequest, UNCHANGED panelVars
    PROVE  TrailInv'
<1> DEFINE Other(x) == x.write # "routes" /\ x.write # "trail"
<1>1. ASSUME NEW w, Serve(w), \A i \in DOMAIN w : Other(w[i]) PROVE TrailInv'
  <2>1. todo' = w
    BY <1>1 DEF Serve
  <2> QED
    BY <1>1, <2>1, TrailServed DEF TrailOf
<1>2. (\A r, s : Other(Upsert(r, s))) /\ (\A r, a, s, v : Other(Audit(r, a, s, v))) /\ Other(DeleteRows)
  BY DEF Upsert, Audit, DeleteRows
<1> HIDE DEF Other
<1>3. ASSUME NEW r, NEW a, NEW s, NEW v, Serve(<<Audit(r, a, s, v)>>) PROVE TrailInv'
  <2>1. \A x : Other(x) => \A i \in DOMAIN <<x>> : Other(<<x>>[i])
    OBVIOUS
  <2> QED
    BY <1>1, <1>2, <1>3, <2>1
<1>4. ASSUME NEW r, NEW a, NEW s, Serve(Apply(r, a, s)) PROVE TrailInv'
  <2>1. \A x, y : Other(x) /\ Other(y) => \A i \in DOMAIN <<x, y>> : Other(<<x, y>>[i])
    OBVIOUS
  <2>2. Apply(r, a, s) = <<Upsert(r, s), Audit(r, a, s, 0)>>
    BY DEF Apply
  <2> QED
    BY <1>1, <1>2, <1>4, <2>1, <2>2
<1>5. ASSUME ResetPrompts PROVE TrailInv'
  <2> DEFINE n == 2 * Len(RoleOrder)
             Step(i) == LET r == RoleOrder[(i + 1) \div 2]
                        IN  IF i % 2 = 1 THEN Upsert(r, Default(r)) ELSE Audit(r, "reset", Default(r), 0)
             d == DeleteRows
  <2>1. ResetWrites = <<d>> \o [i \in 1 .. n |-> Step(i)]
    BY Zenon DEF ResetWrites
  <2>2. \A i : Other(Step(i)) /\ Other(d)
    BY <1>2
  <2>3. n \in Nat
    BY PromptAssumption
  <2> HIDE DEF Step, n, d
  <2>4. \A i \in DOMAIN (<<d>> \o [k \in 1 .. n |-> Step(k)]) : Other((<<d>> \o [k \in 1 .. n |-> Step(k)])[i])
    BY <2>2, <2>3
  <2> QED
    BY <1>1, <1>5, <2>1, <2>4 DEF ResetPrompts
<1>6. ASSUME NEW r \in Roles, Request(r) PROVE TrailInv'
  <2>1. ASSUME NEW s \in State, UpdatePrompt(r, s) PROVE TrailInv'
    BY <1>3, <1>4, <2>1, Zenon DEF UpdatePrompt
  <2>2. ASSUME NEW s \in State, RestorePrompt(r, s) PROVE TrailInv'
    BY <1>3, <1>4, <2>2, Zenon DEF RestorePrompt
  <2> QED
    BY <1>3, <1>4, <1>6, <2>1, <2>2, Zenon DEF Request, ApprovePrompt, DismissPrompt
<1> QED
  BY <1>5, <1>6 DEF PromptRequest

\* The targets of an event.
LEMMA TargetsOf ==
    ASSUME NEW e
    PROVE  /\ e.target = "every role" => Targets(e) = Roles
           /\ e.target \in Roles \cup {"freshness"} => Targets(e) = {e.target}
           /\ "freshness" \notin Roles
BY PanelAssumption DEF Targets

\* What the requests about the rest write is backed.
LEMMA PanelRequestTrail ==
    ASSUME TrailInv, PanelRequest
    PROVE  TrailInv'
<1>1. ASSUME NEW w, ServePanel(w), TrailOf(w) PROVE TrailInv'
  BY <1>1, TrailServed DEF ServePanel
<1>2. ASSUME NEW x, NEW y, x.write \notin {"routes", "trail"}, y.write = "trail", Backed(<<x, y>>, 2)
      PROVE  TrailOf(<<x, y>>)
  <2>1. DOMAIN <<x, y>> = 1 .. 2 /\ <<x, y>>[1] = x /\ <<x, y>>[2] = y
    OBVIOUS
  <2>2. \A i \in DOMAIN <<x, y>> : i = 1 \/ i = 2
    OBVIOUS
  <2>3. "trail" # "routes"
    OBVIOUS
  <2> QED
    BY <1>2, <2>1, <2>2, <2>3 DEF TrailOf
<1>3. ASSUME NEW r \in Roles, NEW m \in Model, UpdateRoute(r, m) PROVE TrailInv'
  <2> DEFINE x == UpsertRoute(r, m)
             y == Trace(r, m)
  <2>1. x.write = "route" /\ x.role = r /\ x.model = m /\ x = UpsertRoute(r, m)
        /\ y.write = "trail" /\ y.event.target = r /\ y.event.value = m
    BY DEF UpsertRoute, Trace
  <2>2. ServePanel(<<x, y>>)
    BY <1>3 DEF UpdateRoute
  <2> HIDE DEF x, y
  <2>3. <<x, y>>[2] = y /\ <<x, y>>[1] = x /\ 1 .. 2 - 1 = {1}
    OBVIOUS
  <2>4. Targets(y.event) = {r} /\ y.event.value = m /\ r # "freshness"
    BY <2>1, TargetsOf
  <2>5. Backed(<<x, y>>, 2)
    BY <2>1, <2>3, <2>4 DEF Backed, Precedes
  <2>6. x.write \notin {"routes", "trail"}
    BY <2>1
  <2> QED
    BY <1>1, <1>2, <2>1, <2>2, <2>5, <2>6
<1>4. ASSUME NEW p \in Policy, UpdatePolicy(p) PROVE TrailInv'
  <2> DEFINE x == UpsertPolicy(p)
             y == Trace("freshness", p)
  <2>1. x.write = "policy" /\ x.policy = p /\ x = UpsertPolicy(p)
        /\ y.write = "trail" /\ y.event.target = "freshness" /\ y.event.value = p
    BY DEF UpsertPolicy, Trace
  <2>2. ServePanel(<<x, y>>)
    BY <1>4 DEF UpdatePolicy
  <2> HIDE DEF x, y
  <2>3. <<x, y>>[2] = y /\ <<x, y>>[1] = x /\ 1 .. 2 - 1 = {1}
    OBVIOUS
  <2>4. Targets(y.event) = {"freshness"} /\ y.event.value = p /\ "freshness" \notin Roles
    BY <2>1, TargetsOf
  <2>5. Backed(<<x, y>>, 2)
    BY <2>1, <2>3, <2>4 DEF Backed, Precedes
  <2>6. x.write \notin {"routes", "trail"}
    BY <2>1
  <2> QED
    BY <1>1, <1>2, <2>1, <2>2, <2>5, <2>6
<1>5. ASSUME ResetRoutes PROVE TrailInv'
  <2> DEFINE n == Len(RoleOrder)
             x == DeleteRoutes
             y == Trace("every role", DefaultModel)
             Row(i) == UpsertRoute(RoleOrder[i], DefaultModel)
             rows == [i \in 1 .. n |-> Row(i)]
             all == <<x>> \o rows \o <<y>>
  <2>1. RoleOrder \in Seq(Roles) /\ n \in Nat /\ DOMAIN RoleOrder = 1 .. n
        /\ \A r \in Roles : \E i \in 1 .. n : RoleOrder[i] = r
    BY PromptAssumption
  <2>2. ServePanel(all)
    <3>1. ServePanel(<<x>> \o [i \in DOMAIN RoleOrder |-> Row(i)] \o <<y>>)
      BY <1>5, Zenon DEF ResetRoutes
    <3> QED
      BY <2>1, <3>1
  <2>3. x.write = "routes" /\ y.write = "trail" /\ y.event.target = "every role" /\ y.event.value = DefaultModel
    BY DEF DeleteRoutes, Trace
  <2>4. \A i : /\ Row(i).write = "route" /\ Row(i).model = DefaultModel
               /\ Row(i) = UpsertRoute(RoleOrder[i], DefaultModel)
    BY DEF UpsertRoute
  <2> HIDE DEF x, y, Row, n
  <2>5. /\ DOMAIN (<<x>> \o rows \o <<y>>) = 1 .. n + 2
        /\ (<<x>> \o rows \o <<y>>)[1] = x /\ (<<x>> \o rows \o <<y>>)[n + 2] = y
        /\ \A i \in 1 .. n : (<<x>> \o rows \o <<y>>)[i + 1] = Row(i)
    BY <2>1
  <2>6. DOMAIN all = 1 .. n + 2 /\ all[1] = x /\ all[n + 2] = y /\ \A i \in 1 .. n : all[i + 1] = Row(i)
    BY <2>5
  <2> HIDE DEF all
  <2>7. \A i \in 1 .. n + 2 : i = 1 \/ i = n + 2 \/ \E j \in 1 .. n : i = j + 1
    <3> TAKE i \in 1 .. n + 2
    <3>1. i = 1 \/ i = n + 2 \/ i - 1 \in 1 .. n
      BY <2>1
    <3>2. i = (i - 1) + 1
      OBVIOUS
    <3> QED
      BY <3>1, <3>2
  <2>8. \A i \in 1 .. n + 2 : (all[i].write = "routes" => i = 1) /\ (all[i].write = "trail" => i = n + 2)
    BY <2>3, <2>4, <2>6, <2>7
  <2>9. Targets(y.event) = Roles /\ y.event.value = DefaultModel /\ "freshness" \notin Roles
    BY <2>3, TargetsOf
  <2>10. (n + 2) - 1 = n + 1
    BY <2>1
  <2>11. ASSUME NEW r \in Roles PROVE Precedes(all, n + 2, UpsertRoute(r, DefaultModel))
    <3>1. PICK i \in 1 .. n : RoleOrder[i] = r
      BY <2>1
    <3>2. all[i + 1] = Row(i) /\ Row(i) = UpsertRoute(r, DefaultModel)
      BY <2>4, <2>6, <3>1, Zenon
    <3>3. i + 1 \in 1 .. (n + 2) - 1
      BY <2>1
    <3> QED
      BY <3>2, <3>3, Zenon DEF Precedes
  <2>12. \A j \in 1 .. n + 1 : all[j].write = "route" => all[j].model = DefaultModel
    <3> TAKE j \in 1 .. n + 1
    <3>1. j = 1 \/ \E k \in 1 .. n : j = k + 1
      BY <2>1, <2>7
    <3> QED
      BY <2>3, <2>4, <2>6, <3>1
  <2>13. Backed(all, n + 2)
    BY <2>6, <2>9, <2>10, <2>11, <2>12, ZenonT(60) DEF Backed
  <2>14. TrailOf(all)
    BY <2>6, <2>8, <2>13 DEF TrailOf
  <2> QED
    BY <1>1, <2>2, <2>14
<1> QED
  BY <1>3, <1>4, <1>5 DEF PanelRequest

\* The first write made, what is left is still backed.
LEMMA RestBacked ==
    ASSUME GovernedInv, TrailInv, todo # <<>>, todo' = Tail(todo),
           NEW w, w = Head(todo),
           \A r \in Roles : IF w.write = "route" /\ w.role = r THEN route'[r] = w.model
                            ELSE w.write # "routes" => route'[r] = route[r],
           policy' = IF w.write = "policy" THEN w.policy ELSE policy
    PROVE  TrailOf(todo)'
<1>1. todo \in Seq(Writes)
  BY DEF GovernedInv, TodoInv
<1> PICK rest : rest = Tail(todo)
  OBVIOUS
<1>2. /\ todo' = rest /\ 1 \in DOMAIN todo /\ todo[1] = w
      /\ \A i \in DOMAIN rest : /\ i \in Nat \ {0} /\ i + 1 \in DOMAIN todo /\ rest[i] = todo[i + 1]
                                /\ \A j \in 1 .. i - 1 : j + 1 \in 1 .. (i + 1) - 1 /\ rest[j] = todo[j + 1]
                                /\ \A j \in 1 .. (i + 1) - 1 : j = 1 \/ (j - 1 \in 1 .. i - 1 /\ rest[j - 1] = todo[j])
                                /\ 1 \in 1 .. (i + 1) - 1
  BY <1>1
<1>3. \A i \in DOMAIN rest : rest[i].write # "routes"
  <2> TAKE i \in DOMAIN rest
  <2>1. i + 1 # 1 /\ i + 1 \in DOMAIN todo /\ rest[i] = todo[i + 1]
    BY <1>2
  <2> QED
    BY <2>1 DEF TrailInv, TrailOf
<1>4. ASSUME NEW i \in DOMAIN rest, NEW u, Precedes(todo, i + 1, u), w # u PROVE Precedes(rest, i, u)
  BY <1>2, <1>4 DEF Precedes
<1>5. ASSUME NEW i \in DOMAIN rest PROVE ~Precedes(rest, i, DeleteRoutes)
  <2>1. \A j \in 1 .. i - 1 : j \in DOMAIN rest
    BY <1>1, <1>2
  <2>2. DeleteRoutes.write = "routes"
    BY DEF DeleteRoutes
  <2> QED
    BY <1>3, <2>1, <2>2 DEF Precedes
<1>6. ASSUME NEW i \in DOMAIN rest, rest[i].write = "trail" PROVE Backed(rest, i)'
  <2> PICK e : e = rest[i].event
    OBVIOUS
  <2>1. todo[i + 1].write = "trail" /\ todo[i + 1].event = e /\ Backed(todo, i + 1)
    BY <1>2, <1>6 DEF TrailInv, TrailOf
  <2>2. ASSUME NEW r \in Targets(e) \cap Roles
        PROVE  /\ Precedes(rest, i, UpsertRoute(r, e.value)) \/ route'[r] = e.value
               /\ \A j \in 1 .. i - 1 : rest[j].write = "route" /\ rest[j].role = r => rest[j].model = e.value
    <3> PICK u : u = UpsertRoute(r, e.value)
      OBVIOUS
    <3>1. u.write = "route" /\ u.role = r /\ u.model = e.value
      BY DEF UpsertRoute
    <3>2. /\ Precedes(todo, i + 1, u) \/ (route[r] = e.value /\ ~Precedes(todo, i + 1, DeleteRoutes))
          /\ \A j \in 1 .. (i + 1) - 1 : todo[j].write = "route" /\ todo[j].role = r => todo[j].model = e.value
      BY <2>1, Zenon DEF Backed
    <3>3. \A j \in 1 .. i - 1 : rest[j].write = "route" /\ rest[j].role = r => rest[j].model = e.value
      BY <1>2, <3>2
    <3>4. w.write = "route" /\ w.role = r => w.model = e.value
      BY <1>2, <3>2
    <3>5. CASE Precedes(todo, i + 1, u)
      <4>1. CASE w = u
        BY <3>1, <3>3, <4>1
      <4>2. CASE w # u
        BY <1>4, <3>3, <3>5, <4>2
      <4> QED
        BY <4>1, <4>2
    <3>6. CASE route[r] = e.value /\ ~Precedes(todo, i + 1, DeleteRoutes)
      <4>1. w # DeleteRoutes
        BY <1>2, <3>6 DEF Precedes
      <4>2. w.write # "routes"
        <5>1. w \in Writes
          BY <1>1, <1>2
        <5>2. w.write = "routes" => w \in [write : {"delete", "routes"}]
          BY <5>1 DEF Writes, RowWrites, AuditWrites, OtherWrites
        <5>3. ASSUME w.write = "routes" PROVE w = DeleteRoutes
          BY <5>2, <5>3 DEF DeleteRoutes
        <5> QED
          BY <4>1, <5>3
      <4>3. route'[r] = e.value
        BY <3>4, <3>6, <4>2
      <4> QED
        BY <3>3, <4>3
    <3> QED
      BY <3>2, <3>5, <3>6
  <2>3. ASSUME "freshness" \in Targets(e)
        PROVE  /\ Precedes(rest, i, UpsertPolicy(e.value)) \/ policy' = e.value
               /\ \A j \in 1 .. i - 1 : rest[j].write = "policy" => rest[j].policy = e.value
    <3> PICK u : u = UpsertPolicy(e.value)
      OBVIOUS
    <3>1. u.write = "policy" /\ u.policy = e.value
      BY DEF UpsertPolicy
    <3>2. /\ Precedes(todo, i + 1, u) \/ policy = e.value
          /\ \A j \in 1 .. (i + 1) - 1 : todo[j].write = "policy" => todo[j].policy = e.value
      BY <2>1, <2>3, Zenon DEF Backed
    <3>3. \A j \in 1 .. i - 1 : rest[j].write = "policy" => rest[j].policy = e.value
      BY <1>2, <3>2
    <3>4. w.write = "policy" => w.policy = e.value
      BY <1>2, <3>2
    <3>5. Precedes(todo, i + 1, u) => w = u \/ Precedes(rest, i, u)
      BY <1>4
    <3> QED
      BY <3>1, <3>2, <3>3, <3>4, <3>5
  <2>4. ASSUME NEW r \in Targets(e) \cap Roles
        PROVE  /\ (\E j \in 1 .. i - 1 : rest[j] = UpsertRoute(r, e.value))
                   \/ (route'[r] = e.value /\ ~(\E j \in 1 .. i - 1 : rest[j] = DeleteRoutes))
               /\ \A j \in 1 .. i - 1 : rest[j].write = "route" /\ rest[j].role = r => rest[j].model = e.value
    BY <1>5, <2>2, Zenon DEF Precedes
  <2>5. "freshness" \in Targets(e) =>
          /\ (\E j \in 1 .. i - 1 : rest[j] = UpsertPolicy(e.value)) \/ policy' = e.value
          /\ \A j \in 1 .. i - 1 : rest[j].write = "policy" => rest[j].policy = e.value
    BY <2>3, Zenon DEF Precedes
  <2> QED
    BY <2>4, <2>5, ZenonT(60) DEF Backed, Precedes, UpsertRoute, UpsertPolicy, DeleteRoutes, Targets
<1> QED
  BY <1>2, <1>3, <1>6 DEF TrailOf

\* What a write of the rest does to the trail.
LEMMA TransactionTrail ==
    ASSUME GovernedInv, TrailInv, ((Write \/ Crash) /\ UNCHANGED panelVars) \/ WritePanel
    PROVE  TrailInv'
<1> USE DEF panelVars
<1>1. /\ todo \in Seq(Writes) /\ todo # <<>>
      /\ route \in [Roles -> Model \cup {None}] /\ policy \in Policy \cup {None}
      /\ trail \in Seq(TrailEvents) /\ TrailTells
  BY DEF GovernedInv, TodoInv, TrailInv, Write, Crash, WritePanel
<1> PICK w \in Writes : w = Head(todo)
  BY <1>1
<1>2. CASE Crash /\ UNCHANGED panelVars
  <2>1. todo' = <<>> /\ UNCHANGED panelVars
    BY <1>2 DEF Crash
  <2>2. TrailOf(<<>>)
    BY DEF TrailOf
  <2> QED
    BY <2>1, <2>2, TrailServed
<1>3. CASE Write /\ UNCHANGED panelVars
  <2>1. todo' = Tail(todo) /\ w.write \in {"delete", "row", "audit"} /\ UNCHANGED <<route, policy, trail, untrailed>>
    BY <1>3 DEF Write
  <2>2. TrailOf(todo)'
    BY <1>1, <2>1, RestBacked
  <2>3. TrailTells'
    BY <1>1, <2>1 DEF TrailTells, LastAbout
  <2> QED
    BY <1>1, <2>1, <2>2, <2>3 DEF TrailInv
<1>4. ASSUME todo' = Tail(todo), UNCHANGED trail,
             \/ w.write = "routes" /\ route' = [r \in Roles |-> None] /\ untrailed' = untrailed \cup Roles /\ UNCHANGED policy
             \/ /\ w.write = "route" /\ route' = [route EXCEPT ![w.role] = w.model]
                /\ untrailed' = untrailed \cup {w.role} /\ UNCHANGED policy
             \/ w.write = "policy" /\ policy' = w.policy /\ untrailed' = untrailed \cup {"freshness"} /\ UNCHANGED route
      PROVE  TrailInv'
  <2>1. /\ w.write = "route" => w.role \in Roles /\ w.model \in Model
        /\ w.write = "policy" => w.policy \in Policy
    BY DEF Writes, RowWrites, AuditWrites, OtherWrites
  <2>2. /\ \A r \in Roles : IF w.write = "route" /\ w.role = r THEN route'[r] = w.model
                            ELSE w.write # "routes" => route'[r] = route[r]
        /\ policy' = IF w.write = "policy" THEN w.policy ELSE policy
    BY <1>1, <1>4, <2>1
  <2>3. TrailOf(todo)'
    BY <1>1, <1>4, <2>2, RestBacked
  <2>4. route' \in [Roles -> Model \cup {None}] /\ policy' \in Policy \cup {None}
    BY <1>1, <1>4, <2>1
  <2>5. \A r \in Roles : r \notin untrailed' => r \notin untrailed /\ route'[r] = route[r]
    BY <1>1, <1>4, <2>1
  <2>6. "freshness" \notin untrailed' => "freshness" \notin untrailed /\ policy' = policy
    BY <1>4
  <2>7. \A t : LastAbout(t)' = LastAbout(t)
    BY <1>4 DEF LastAbout
  <2>8. TrailTells'
    BY <1>1, <1>4, <2>5, <2>6, <2>7 DEF TrailTells
  <2> QED
    BY <1>1, <1>4, <2>3, <2>4, <2>8 DEF TrailInv
<1>5. ASSUME todo' = Tail(todo), w.write = "trail", trail' = Append(trail, w.event),
             untrailed' = untrailed \ Targets(w.event), UNCHANGED <<route, policy>>
      PROVE  TrailInv'
  <2> DEFINE n == Len(trail)
  <2> PICK e : e = w.event
    OBVIOUS
  <2>1. e \in TrailEvents
    BY <1>5 DEF Writes, RowWrites, AuditWrites, OtherWrites, TrailEvents
  <2>2. /\ trail' \in Seq(TrailEvents) /\ DOMAIN trail' = DOMAIN trail \cup {n + 1} /\ n \in Nat
        /\ DOMAIN trail = 1 .. n /\ trail'[n + 1] = e /\ \A i \in DOMAIN trail : trail'[i] = trail[i]
    BY <1>1, <1>5, <2>1
  <2>3. TrailOf(todo)'
    BY <1>1, <1>5, RestBacked
  <2>4. /\ \A r \in Targets(e) \cap Roles : route[r] = e.value
        /\ "freshness" \in Targets(e) => policy = e.value
    <3>1. 1 \in DOMAIN todo /\ todo[1] = w
      BY <1>1
    <3>2. Backed(todo, 1)
      BY <1>5, <3>1 DEF TrailInv, TrailOf
    <3>3. \A u : ~Precedes(todo, 1, u)
      BY DEF Precedes
    <3> QED
      BY <3>1, <3>2, <3>3 DEF Backed
  <2> DEFINE About(t) == {i \in DOMAIN trail : t \in Targets(trail[i])}
  <2>5. \A t : About(t) \in SUBSET (1 .. n)
    BY <2>2
  <2>6. \A t : LastAbout(t)' = IF t \in Targets(e) THEN n + 1 ELSE LastAbout(t)
    <3> TAKE t
    <3>1. LastAbout(t)' = Newest({i \in DOMAIN trail' : t \in Targets(trail'[i])})
      BY DEF LastAbout, Newest, Targets
    <3>2. n + 1 \notin DOMAIN trail
      BY <2>2
    <3>3. {i \in DOMAIN trail' : t \in Targets(trail'[i])} = IF t \in Targets(e) THEN About(t) \cup {n + 1} ELSE About(t)
      BY <2>2, <3>2
    <3>4. LastAbout(t) = Newest(About(t))
      BY DEF LastAbout
    <3> HIDE DEF About
    <3> QED
      BY <2>2, <2>5, <3>1, <3>3, <3>4, NewestAdded
  <2>7. \A t : LastAbout(t) \in 0 .. n
    <3> TAKE t
    <3>1. LastAbout(t) = Newest(About(t))
      BY DEF LastAbout
    <3> HIDE DEF About, n
    <3> QED
      BY <2>2, <2>5, <3>1, NewestOf
  <2> HIDE DEF About
  <2>8. \A t : LastAbout(t) # 0 => trail'[LastAbout(t)] = trail[LastAbout(t)]
    BY <2>2, <2>7
  <2>9. n + 1 # 0
    BY <2>2
  <2> HIDE DEF n
  <2>10. ASSUME NEW r \in Roles \ untrailed'
         PROVE IF LastAbout(r)' = 0 THEN route[r] = None ELSE route[r] = trail'[LastAbout(r)'].value
    <3>1. CASE r \in Targets(e)
      BY <2>2, <2>4, <2>6, <2>9, <3>1
    <3>2. CASE r \notin Targets(e)
      <4>1. r \in Roles \ untrailed /\ LastAbout(r)' = LastAbout(r)
        BY <1>5, <2>6, <3>2
      <4> QED
        BY <1>1, <2>8, <4>1 DEF TrailTells
    <3> QED
      BY <3>1, <3>2
  <2>11. ASSUME "freshness" \notin untrailed'
         PROVE IF LastAbout("freshness")' = 0 THEN policy = None ELSE policy = trail'[LastAbout("freshness")'].value
    <3>1. CASE "freshness" \in Targets(e)
      BY <2>2, <2>4, <2>6, <2>9, <3>1
    <3>2. CASE "freshness" \notin Targets(e)
      <4>1. "freshness" \notin untrailed /\ LastAbout("freshness")' = LastAbout("freshness")
        BY <1>5, <2>6, <2>11, <3>2
      <4> QED
        BY <1>1, <2>8, <4>1 DEF TrailTells
    <3> QED
      BY <3>1, <3>2
  <2>12. TrailTells'
    BY <1>5, <2>10, <2>11 DEF TrailTells
  <2> QED
    BY <1>1, <1>5, <2>2, <2>3, <2>12 DEF TrailInv
<1>6. CASE WritePanel
  BY <1>4, <1>5, <1>6 DEF WritePanel
<1> QED
  BY <1>2, <1>3, <1>6

\* The trail is read together with what has still to be written, like the log.
THEOREM TrailInductive == PanelSpec => []TrailInv
<1>1. PanelInit => TrailInv
  <2> SUFFICES ASSUME PanelInit PROVE TrailInv
    OBVIOUS
  <2>1. todo = <<>> /\ route = [r \in Roles |-> None] /\ policy = None /\ trail = <<>>
    BY DEF PanelInit, Init
  <2>2. TrailOf(todo)
    BY <2>1 DEF TrailOf
  <2>3. \A t : {i \in DOMAIN trail : t \in Targets(trail[i])} = {}
    BY <2>1
  <2>4. \A t : LastAbout(t) = 0
    BY <2>3 DEF LastAbout, Newest
  <2> QED
    BY <2>1, <2>2, <2>4 DEF TrailInv, TrailTells
<1>2. GovernedInv /\ TrailInv /\ [PanelNext]_allVars => TrailInv'
  <2> SUFFICES ASSUME GovernedInv, TrailInv, [PanelNext]_allVars PROVE TrailInv'
    OBVIOUS
  <2>1. CASE UNCHANGED allVars
    <3>1. todo' = todo /\ UNCHANGED panelVars
      BY <2>1 DEF allVars, vars
    <3> QED
      BY <3>1, TrailServed DEF TrailInv
  <2>2. CASE PromptRequest /\ UNCHANGED panelVars
    BY <2>2, PromptsTrail
  <2>3. CASE PanelRequest
    BY <2>3, PanelRequestTrail
  <2>4. CASE ((Write \/ Crash) /\ UNCHANGED panelVars) \/ WritePanel
    BY <2>4, TransactionTrail
  <2> QED
    BY <2>1, <2>2, <2>3, <2>4 DEF PanelNext
<1> QED
  BY <1>1, <1>2, GovernedInductive, PTL DEF PanelSpec

\* TrailExplainsPanel: unless a change was cut off from its event, the last event about a
\* prompt, a route or the thresholds tells what is in effect.
THEOREM TrailExplains == PanelSpec => []TrailExplainsPanel
<1>1. AuditInv /\ TrailInv => TrailExplainsPanel
  <2> SUFFICES ASSUME AuditInv, TrailInv PROVE TrailExplainsPanel
    OBVIOUS
  <2>1. LogExplainsRow /\ TrailTells
    BY LogRead DEF TrailInv
  <2> DEFINE l == LastAbout("freshness")
  <2>2. l # 0 => trail[l] \in TrailEvents
    <3> DEFINE S == {i \in DOMAIN trail : "freshness" \in Targets(trail[i])}
    <3>1. S \in SUBSET (1 .. Len(trail)) /\ Len(trail) \in Nat /\ DOMAIN trail = 1 .. Len(trail)
      BY DEF TrailInv
    <3>2. l = Newest(S)
      BY DEF LastAbout
    <3> HIDE DEF S, l
    <3>3. l # 0 => l \in 1 .. Len(trail)
      BY <3>1, <3>2, NewestOf
    <3> QED
      BY <3>3 DEF TrailInv
  <2>3. l # 0 => trail[l].value # None
    BY <2>2, PanelAssumption DEF TrailEvents
  <2>4. "freshness" \notin untrailed =>
           IF l = 0 THEN policy = None ELSE FreshnessPolicy = trail[l].value
    BY <2>1, <2>3 DEF TrailTells, FreshnessPolicy
  <2> QED
    BY <2>1, <2>4 DEF TrailExplainsPanel, TrailTells
<1> QED
  BY <1>1, AuditInductive, TrailInductive, PTL
=============================================================================
