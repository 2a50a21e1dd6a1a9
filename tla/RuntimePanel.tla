---------------------------- MODULE RuntimePanel ----------------------------
(***************************************************************************)
(* The rest of the runtime control panel, served by the same process as    *)
(* the role prompts: which model answers for each council role, and the    *)
(* thresholds at which market data counts as fresh.  Both are rows with an *)
(* audit event written after them.  And the readiness gate, which counts   *)
(* what the panel lists.                                                   *)
(*                                                                         *)
(* Requests about the prompts and requests about the rest change different *)
(* rows; so that their states do not multiply, a behaviour has requests of *)
(* one part only.                                                          *)
(***************************************************************************)
EXTENDS PromptGovernance

CONSTANTS
    Model,          \* owner, product, model and mode of a route, as one value
    DefaultModel,
    Policy,         \* the thresholds that may be saved
    DefaultPolicy   \* 30, 180, 900 and 3600 seconds

ASSUME PanelAssumption ==
    /\ DefaultModel \in Model /\ None \notin Model
    /\ DefaultPolicy \in Policy /\ None \notin Policy
    /\ Roles \cap {"freshness", "every role"} = {}   \* the other targets of a trail event

VARIABLES
    route,      \* runtime_model_route: role -> model or None
    policy,     \* the default row of runtime_freshness_policy, or None
    trail,      \* runtime_audit_events of the other categories, oldest first
    untrailed,  \* (history) the targets whose last change never reached the trail
    part        \* the part of the panel that this behaviour's requests are about

panelVars == <<route, policy, trail, untrailed, part>>
allVars == <<vars, panelVars>>

PanelInit ==
    /\ Init
    /\ route = [r \in Roles |-> None]
    /\ policy = None
    /\ trail = <<>>
    /\ untrailed = {}
    /\ part \in {"prompts", "rest"}

-----------------------------------------------------------------------------
(* Reads. *)

\* list_model_routes: the defaults only as long as there is no row at all.
ListedRoutes ==
    LET rows == {r \in Roles : route[r] # None}
    IN  IF rows = {} THEN [r \in Roles |-> DefaultModel] ELSE [r \in rows |-> route[r]]

\* get_freshness_policy
FreshnessPolicy == IF policy = None THEN DefaultPolicy ELSE policy

\* The card of a role on the page: how its save button is labelled, the draft its
\* approve and dismiss buttons name, and what can be restored (0: the default).
Card(r) ==
    [save |-> IF Profile(r).required THEN "save_draft" ELSE "save_prompt",
     draft |-> Profile(r).pending,
     restore |-> {0} \cup PanelHistory(r)]

\* get_snapshot with a prompt context renders every role's prompt, the one shown
\* and the one in effect.
SnapshotBuilds == \A r \in Roles : Renders(Profile(r).shown) /\ Renders(Effective(r))

-----------------------------------------------------------------------------
(* Product readiness: what fails is the set of the surfaces that do not build. *)

Required(key, ok) == [key |-> key, severity |-> "required", status |-> IF ok THEN "ok" ELSE "not_ok"]
Warning(key) == [key |-> key, severity |-> "advisory", status |-> "warning"]

\* The database, the feature flag, and the dashboard, workspace, signal and journal surfaces.
SurfaceChecks(failing) ==
    {Required(key, key \notin failing) :
        key \in {"database", "dashboard_feature_flag", "dashboard_surface", "workspace_surface", "review_loop_surface"}}
    \cup {IF "workspace_surface" \in failing THEN Warning("signal_detail_surface")
          ELSE Required("signal_detail_surface", "signal_detail_surface" \notin failing)}

\* All the prompts are there and, given a workspace to take the context from, rendered.
PromptsRendered(failing) == "workspace_surface" \notin failing /\ SnapshotBuilds

\* The panel's own checks; without a workspace the snapshot is built without a context.
PanelChecks(failing) ==
    LET builds == SnapshotBuilds \/ "workspace_surface" \in failing
    IN  {Required("runtime_control_surface", builds)} \cup
        (IF ~builds THEN {}
         ELSE {Required("runtime_prompt_governance",
                        DOMAIN ListedRoutes = Roles /\ PromptsRendered(failing))})

ReleaseGate(failing) ==
    IF \E c \in SurfaceChecks(failing) \cup PanelChecks(failing) :
           c.severity = "required" /\ c.status = "not_ok"
    THEN "fail" ELSE "pass"

-----------------------------------------------------------------------------
(* Requests, and the writes they make one transaction after the other. *)

UpsertRoute(r, m) == [write |-> "route", role |-> r, model |-> m]
DeleteRoutes == [write |-> "routes"]
UpsertPolicy(p) == [write |-> "policy", policy |-> p]
Trace(target, value) == [write |-> "trail", event |-> [target |-> target, value |-> value]]

ServePanel(writes) ==
    /\ todo = <<>>
    /\ todo' = writes
    /\ UNCHANGED <<prompt, log, unlogged>>
    /\ UNCHANGED panelVars

\* Any role key is accepted, and nothing is checked.
UpdateRoute(r, m) == ServePanel(<<UpsertRoute(r, m), Trace(r, m)>>)

\* One event stands for all the roles.
ResetRoutes ==
    ServePanel(<<DeleteRoutes>>
               \o [i \in DOMAIN RoleOrder |-> UpsertRoute(RoleOrder[i], DefaultModel)]
               \o <<Trace("every role", DefaultModel)>>)

\* The four thresholds need not be in order.
UpdatePolicy(p) == ServePanel(<<UpsertPolicy(p), Trace("freshness", p)>>)

Targets(event) == IF event.target = "every role" THEN Roles ELSE {event.target}

WritePanel ==
    /\ todo # <<>>
    /\ todo' = Tail(todo)
    /\ UNCHANGED <<prompt, log, unlogged, part>>
    /\ LET w == Head(todo) IN
       \/ /\ w.write = "routes"
          /\ route' = [r \in Roles |-> None]
          /\ untrailed' = untrailed \cup Roles
          /\ UNCHANGED <<policy, trail>>
       \/ /\ w.write = "route"
          /\ route' = [route EXCEPT ![w.role] = w.model]
          /\ untrailed' = untrailed \cup {w.role}
          /\ UNCHANGED <<policy, trail>>
       \/ /\ w.write = "policy"
          /\ policy' = w.policy
          /\ untrailed' = untrailed \cup {"freshness"}
          /\ UNCHANGED <<route, trail>>
       \/ /\ w.write = "trail"
          /\ trail' = Append(trail, w.event)
          /\ untrailed' = untrailed \ Targets(w.event)
          /\ UNCHANGED <<route, policy>>

PanelRequest ==
    /\ Len(trail) < MaxLog
    /\ \/ \E r \in Roles, m \in Model : UpdateRoute(r, m)
       \/ ResetRoutes
       \/ \E p \in Policy : UpdatePolicy(p)

PromptRequest == (\E r \in Roles : Request(r)) \/ ResetPrompts

PanelNext ==
    \/ part = "prompts" /\ PromptRequest /\ UNCHANGED panelVars
    \/ part = "rest" /\ PanelRequest
    \/ (Write \/ Crash) /\ UNCHANGED panelVars
    \/ WritePanel

PanelSpec == PanelInit /\ [][PanelNext]_allVars
-----------------------------------------------------------------------------
(* Properties. *)

LastAbout(target) == Newest({i \in DOMAIN trail : target \in Targets(trail[i])})

\* The audit trail can be trusted for every part of the panel: unless a change has
\* been cut off from its event, the last event about a prompt, a route or the
\* thresholds tells what is in effect, and no event is about what was not written.
TrailExplainsPanel ==
    /\ LogExplainsRow
    /\ \A r \in Roles \ untrailed :
         IF LastAbout(r) = 0 THEN route[r] = None ELSE route[r] = trail[LastAbout(r)].value
    /\ "freshness" \notin untrailed =>
         IF LastAbout("freshness") = 0 THEN policy = None ELSE FreshnessPolicy = trail[LastAbout("freshness")].value

\* No draft that was approved, overtaken or dismissed is offered again; and whatever
\* has reached the log, the page, which works with a window of its own over all the
\* roles, has buttons for no draft but the one the whole log has pending.
NoStaleOffer ==
    /\ NoStaleDraft
    /\ \A r \in Roles : Card(r).draft \in {0, PendingIn(r, EventsOf(r))}

\* When the release gate fails although every surface builds and every request was
\* served to its end, a prompt is to blame, as the check's detail says:
\* "Some council role prompts are missing, empty, or not renderable".
GateBlamesPrompts ==
    todo = <<>> /\ untrailed = {} /\ ReleaseGate({}) = "fail" => ~PromptsRendered({})
=============================================================================
