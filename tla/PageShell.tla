------------------------------ MODULE PageShell ------------------------------
(***************************************************************************)
(* What all pages of the console share: links that swap the document for   *)
(* another page's markup, forms that post a change and then refresh the    *)
(* page, and the live refresh timer of the pages that have one.  Nothing   *)
(* disables a form while its post is on the way, and a continuation of an  *)
(* old document runs on after a swap, though not after a full load.  A     *)
(* swap writes the new markup into the same window, whose constants the    *)
(* scripts of most pages declare again: whether such a script runs depends *)
(* on the browser.                                                         *)
(*                                                                         *)
(* The server's state is the number of changes it has stored, a document   *)
(* the number of changes it was rendered with.                             *)
(***************************************************************************)
EXTENDS Integers, FiniteSets

CONSTANTS
    Pages,          \* the pages, among "workspace", "signal", "preferences", "runtime"
    Forms,          \* the forms used, among AllForms
    PostIds, SwapIds,
    NoPost, NoSwap,
    MaxWrites, MaxLoads, MaxSubmits, MaxLost    \* bounds

LivePages == {"workspace", "signal"}

\* The pages whose script declares constants in the window's scope, and whether it
\* declares one that an earlier script has: the workspace shares names with all.
Declaring == {"workspace", "signal", "preferences"}
Redeclares(page, declared) ==
    /\ page \in Declaring
    /\ page \in declared \/ "workspace" \in declared \/ (page = "workspace" /\ declared # {})

\* The forms of a page and the element each reports to.
RuntimeForms == {"model_route", "role_prompt", "freshness_policy"}
RuntimeVersions == {"restore", "approve", "dismiss"}
RuntimeResets == {"reset_routes", "reset_prompts"}
RuntimeDiff == {"diff"}
PreferenceForm == {"preferences"}
Journal == {"journal"}
Workflow == {"workflow"}
SendNow == {"send_now", "send_now_force"}
Skip == {"skip_next", "undo_skip"}
OnRuntime == RuntimeForms \cup RuntimeVersions \cup RuntimeResets \cup RuntimeDiff
AllForms == OnRuntime \cup PreferenceForm \cup Journal \cup Workflow \cup SendNow \cup Skip

FormsOf(page) ==
    CASE page = "runtime" -> OnRuntime
      [] page = "preferences" -> PreferenceForm \cup SendNow \cup Skip
      [] page = "workspace" -> Journal \cup Workflow \cup SendNow \cup Skip
      [] page = "signal" -> Journal \cup Workflow

StatusOf(f) ==
    CASE f \in OnRuntime -> "runtime" [] f \in SendNow \cup Skip -> "delivery" [] OTHER -> f

\* postJson's callers catch what it raises; the other pages' handlers do not.
Catches(f) == f \in OnRuntime

\* Delivery actions refresh the page some time after their answer.
Delayed(f) == f \in SendNow \cup Skip

Stores(f) == f \notin RuntimeDiff

ASSUME ShellAssumption ==
    /\ Pages \subseteq {"workspace", "signal", "preferences", "runtime"} /\ Forms \subseteq AllForms
    /\ PostIds \subseteq Nat /\ SwapIds \subseteq Nat
    /\ {MaxWrites, MaxLoads, MaxSubmits, MaxLost} \subseteq Nat /\ MaxLoads >= 1

VARIABLES
    writes,     \* changes the server has stored
    shown,      \* the document, whether its script runs, and what is declared
    status,     \* what the document's status elements say
    posts,      \* posts on the way, and refreshes that are due after one
    swaps,      \* page requests on the way
    timers,     \* the documents (loads) whose live refresh runs
    stopper,    \* __imoexMarketLiveRefreshStop: the load whose refresh it stops, or 0
    told,       \* (history) the newest change whose success reached the browser
    submits, lost   \* bounded

shellVars == <<writes, shown, status, posts, swaps, timers, stopper, told, submits, lost>>

Elements == {StatusOf(f) : f \in Forms}
Post ==
    [form : Forms, load : 1 .. MaxLoads, stage : {"sent", "stored", "refused", "due"},
     write : 0 .. MaxWrites]
\* alone: no other page request was on the way at the same time.
Swap == [page : Pages, since : 0 .. MaxWrites, alone : BOOLEAN]

ASSUME NothingOnTheWay == NoPost \notin Post /\ NoSwap \notin Swap

ShellTypeOK ==
    /\ writes \in 0 .. MaxWrites /\ told \in 0 .. writes
    /\ shown \in [page : Pages, writes : 0 .. writes, load : 1 .. MaxLoads, alone : BOOLEAN,
                  runs : BOOLEAN, declared : SUBSET Declaring]
    /\ status \in [Elements -> {"blank", "busy", "done", "failed"}]
    /\ posts \in [PostIds -> Post \cup {NoPost}]
    /\ swaps \in [SwapIds -> Swap \cup {NoSwap}]
    /\ timers \subseteq 1 .. MaxLoads /\ stopper \in 0 .. MaxLoads
    /\ submits \in 0 .. MaxSubmits /\ lost \in 0 .. MaxLost

-----------------------------------------------------------------------------
(* The document is replaced. *)

\* Fault: the script relies on the swap to have stopped the refresh.
StartTimerBeside(running, known) ==
    IF shown'.page \in LivePages /\ shown'.runs
    THEN timers' = running \cup {shown'.load} /\ stopper' = shown'.load
    ELSE timers' = running /\ stopper' = known

\* The script of a live page stops the refresh it knows of and starts its own.
StartTimer(running, known) ==
    IF shown'.page \in LivePages /\ shown'.runs
    THEN timers' = (running \ {known}) \cup {shown'.load} /\ stopper' = shown'.load
    ELSE timers' = running /\ stopper' = known

FreshStatus == [e \in Elements |-> "blank"]

ShellInit ==
    /\ writes = 0 /\ told = 0
    /\ \E page \in Pages :
           shown = [page |-> page, writes |-> 0, load |-> 1, alone |-> TRUE,
                    runs |-> TRUE, declared |-> {page} \cap Declaring]
    /\ status = FreshStatus
    /\ posts = [id \in PostIds |-> NoPost] /\ swaps = [id \in SwapIds |-> NoSwap]
    /\ timers = (IF shown.page \in LivePages THEN {1} ELSE {})
    /\ stopper = (IF shown.page \in LivePages THEN 1 ELSE 0)
    /\ submits = 0 /\ lost = 0

Document(page, seen, alone, declared) ==
    /\ shown.load < MaxLoads
    /\ \E runs \in IF Redeclares(page, declared) THEN BOOLEAN ELSE {TRUE} :
           shown' = [page |-> page, writes |-> seen, load |-> shown.load + 1, alone |-> alone,
                     runs |-> runs,
                     declared |-> IF runs THEN declared \cup ({page} \cap Declaring) ELSE declared]
    /\ status' = FreshStatus

\* document.write keeps the window: timers, posts and other swaps go on.
AnswerSwap(id) ==
    LET s == swaps[id] IN
    /\ s # NoSwap
    /\ \E seen \in s.since .. writes : Document(s.page, seen, s.alone, shown.declared)
    /\ swaps' = [swaps EXCEPT ![id] = NoSwap]
    /\ StartTimer(timers, stopper)
    /\ UNCHANGED <<writes, posts, told, submits, lost>>

\* An error loads the page the ordinary way, into a new window: whatever was on
\* the way is forgotten.
FailSwap(id) ==
    LET s == swaps[id] IN
    /\ s # NoSwap /\ lost < MaxLost
    /\ lost' = lost + 1
    /\ Document(s.page, writes, TRUE, {})
    /\ swaps' = [other \in SwapIds |-> NoSwap]
    /\ posts' = [other \in PostIds |-> NoPost]
    /\ StartTimer({}, 0)
    /\ UNCHANGED <<writes, told, submits>>

-----------------------------------------------------------------------------
(* Page requests and forms. *)

Free(ids, table, none) == {id \in ids : table[id] = none /\ \A o \in ids : o < id => table[o] # none}

SwapsOnTheWay == {id \in SwapIds : swaps[id] # NoSwap}

\* A page request first stops the live refresh.
SwapPage(page) ==
    /\ \E id \in Free(SwapIds, swaps, NoSwap) :
           swaps' = [other \in SwapIds |->
               IF other = id
               THEN [page |-> page, since |-> writes, alone |-> SwapsOnTheWay = {}]
               ELSE IF swaps[other] = NoSwap THEN NoSwap ELSE [swaps[other] EXCEPT !.alone = FALSE]]
    /\ timers' = timers \ {stopper} /\ stopper' = 0

\* Fault: a page that is being loaded anyway is not refreshed.
RefreshPageUnlessLoading ==
    IF SwapsOnTheWay = {} THEN SwapPage(shown.page) ELSE UNCHANGED <<swaps, timers, stopper>>

RefreshPage == SwapPage(shown.page)

\* A link, the language, or another root, which leaves the page of a signal.
FollowLink(page) ==
    /\ submits < MaxSubmits /\ submits' = submits + 1
    /\ SwapPage(page)
    /\ UNCHANGED <<writes, shown, status, posts, told, lost>>

ChangeRoot ==
    FollowLink(IF shown.page = "signal" /\ "workspace" \in Pages THEN "workspace" ELSE shown.page)

Says(f, load, what) ==
    status' = IF load = shown.load THEN [status EXCEPT ![StatusOf(f)] = what] ELSE status

\* A journal entry without title or note is not posted.
Invalid(f) ==
    /\ shown.runs /\ f \in Journal \cap FormsOf(shown.page)
    /\ submits < MaxSubmits /\ submits' = submits + 1
    /\ Says(f, shown.load, "failed")
    /\ UNCHANGED <<writes, shown, posts, swaps, timers, stopper, told, lost>>

Submit(f) ==
    /\ shown.runs /\ f \in FormsOf(shown.page)
    /\ submits < MaxSubmits /\ submits' = submits + 1
    /\ \E id \in Free(PostIds, posts, NoPost) :
           posts' = [posts EXCEPT ![id] =
               [form |-> f, load |-> shown.load, stage |-> "sent", write |-> 0]]
    /\ Says(f, shown.load, "busy")
    /\ UNCHANGED <<writes, shown, swaps, timers, stopper, told, lost>>

\* The server stores the change, or refuses it.
ServePost(id) ==
    LET p == posts[id] IN
    /\ p # NoPost /\ p.stage = "sent"
    /\ \/ /\ posts' = [posts EXCEPT ![id] = [p EXCEPT !.stage = "refused"]]
          /\ UNCHANGED writes
       \/ /\ writes < MaxWrites
          /\ writes' = IF Stores(p.form) THEN writes + 1 ELSE writes
          /\ posts' = [posts EXCEPT ![id] =
                 [p EXCEPT !.stage = "stored", !.write = IF Stores(p.form) THEN writes' ELSE 0]]
    /\ UNCHANGED <<shown, status, swaps, timers, stopper, told, submits, lost>>

Newer(a, b) == IF a < b THEN b ELSE a

\* Fault: a refused post is not reported.
AnswerRefusedSilently(id) ==
    LET p == posts[id] IN
    /\ p # NoPost /\ p.stage = "refused"
    /\ posts' = [posts EXCEPT ![id] = NoPost]
    /\ UNCHANGED <<writes, shown, status, swaps, timers, stopper, told, submits, lost>>

AnswerRefused(id) ==
    LET p == posts[id] IN
    /\ p # NoPost /\ p.stage = "refused"
    /\ posts' = [posts EXCEPT ![id] = NoPost]
    /\ Says(p.form, p.load, "failed")
    /\ UNCHANGED <<writes, shown, swaps, timers, stopper, told, submits, lost>>

\* A change that was stored refreshes the page, at once or after a delay; a diff
\* is only shown.
AnswerStored(id) ==
    LET p == posts[id] IN
    /\ p # NoPost /\ p.stage = "stored"
    /\ Says(p.form, p.load, "done")
    /\ told' = Newer(told, p.write)
    /\ IF Delayed(p.form)
       THEN posts' = [posts EXCEPT ![id] = [p EXCEPT !.stage = "due"]] /\ UNCHANGED <<swaps, timers, stopper>>
       ELSE /\ posts' = [posts EXCEPT ![id] = NoPost]
            /\ IF Stores(p.form) THEN RefreshPage ELSE UNCHANGED <<swaps, timers, stopper>>
    /\ UNCHANGED <<writes, shown, submits, lost>>

RefreshDue(id) ==
    /\ posts[id] # NoPost /\ posts[id].stage = "due"
    /\ posts' = [posts EXCEPT ![id] = NoPost]
    /\ RefreshPage
    /\ UNCHANGED <<writes, shown, status, told, submits, lost>>

\* The request, or its answer, is lost: only the runtime page says so.  A refusal to send
\* whose body is no JSON is lost as well: the body is parsed before the status is looked at.
LosePost(id) ==
    LET p == posts[id] IN
    /\ p # NoPost /\ p.stage \in {"sent", "stored", "refused"} /\ lost < MaxLost
    /\ lost' = lost + 1
    /\ posts' = [posts EXCEPT ![id] = NoPost]
    /\ IF Catches(p.form) THEN Says(p.form, p.load, "failed") ELSE UNCHANGED status
    /\ UNCHANGED <<writes, shown, swaps, timers, stopper, told, submits>>

-----------------------------------------------------------------------------
UsesPage ==
    \/ \E page \in Pages : FollowLink(page)
    \/ ChangeRoot
    \/ \E f \in Forms : Submit(f) \/ Invalid(f)

PostGoesOn ==
    \E id \in PostIds :
        ServePost(id) \/ AnswerRefused(id) \/ AnswerStored(id) \/ RefreshDue(id) \/ LosePost(id)

ShellFairness ==
    \A id \in PostIds :
        /\ WF_shellVars(ServePost(id)) /\ WF_shellVars(AnswerRefused(id))
        /\ WF_shellVars(AnswerStored(id))

SwapEnds == \E id \in SwapIds : AnswerSwap(id) \/ FailSwap(id)

-----------------------------------------------------------------------------
(* Properties. *)

\* However swaps overlap, at most one document's live refresh runs, and once no page
\* is on the way a live page whose script runs has its own: neither is one refresh
\* left running beside another nor a page left without.
OneRefresh ==
    /\ Cardinality(timers) <= 1
    /\ SwapsOnTheWay = {} /\ shown.page \in LivePages /\ shown.runs => timers = {shown.load}

\* Once nothing is on the way, the page shows every change the browser was told is
\* stored, whatever other posts, delays and failures there were; only page requests
\* that were on the way together, of which the last to answer stays, are excepted.
PageTells ==
    /\ SwapsOnTheWay = {} /\ shown.alone
    /\ \A id \in PostIds : posts[id] # NoPost => posts[id].stage # "due"
    => told <= shown.writes

\* A form of the control page does not say "saving" for good, even if its request
\* is refused or lost: a later status, or the refreshed page, replaces it.
BusyEnds ==
    \A e \in Elements \cap {"runtime"} : []<>(status[e] # "busy")
=============================================================================
