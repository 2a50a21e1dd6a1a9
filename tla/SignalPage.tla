----------------------------- MODULE SignalPage -----------------------------
(***************************************************************************)
(* The page of a signal within the console: its market panel is a          *)
(* MarketChart that a live refresh fills, on a document that links, forms  *)
(* and their refreshes (PageShell) may replace at any moment.              *)
(***************************************************************************)
EXTENDS PageShell, MarketChart

CONSTANTS AskIds, NoAsk, MaxAsks

VARIABLES
    quoted, available,  \* the server's newest snapshot, and whether it has one to give
    asks,       \* panel requests on the way, with what the server answered
    asked       \* bounded

panelVars == <<quoted, available, asks, asked>>
signalVars == <<shellVars, chartVars, panelVars>>

ASSUME SignalPageAssumption == AskIds \subseteq Nat /\ MaxAsks \in Nat

SignalTypeOK ==
    /\ ShellTypeOK /\ ChartTypeOK
    /\ quoted \in Snapshot /\ available \in BOOLEAN
    /\ asks \in [AskIds -> [load : 1 .. MaxLoads, answer : Snapshot \cup {NoSnapshot}] \cup {NoAsk}]
    /\ asked \in 0 .. MaxAsks

SignalInit ==
    /\ ShellInit /\ ChartInit
    /\ quoted = snapshot /\ available = TRUE
    /\ asks = [id \in AskIds |-> NoAsk] /\ asked = 0

Given == IF available THEN quoted ELSE NoSnapshot

\* A new document has the panel of the server, and keeps nothing of the old one.
LoadPanel ==
    /\ snapshot' = IF shown'.page = "signal" THEN Given ELSE NoSnapshot
    /\ keptRange' = [c \in Charts |-> "full"]
    /\ keptLevel' = [c \in Charts |->
           IF snapshot' = NoSnapshot THEN NoLevel ELSE First(snapshot'.levels)]
    /\ chosen' = [c \in Charts |-> NoLevel]
    /\ chart' = IF snapshot' = NoSnapshot THEN chart
                ELSE [c \in Charts |-> AttachAfresh(snapshot', c)]

SwapDocument ==
    /\ SwapEnds
    /\ LoadPanel
    /\ UNCHANGED panelVars

UseForms == (UsesPage \/ PostGoesOn) /\ UNCHANGED <<chartVars, panelVars>>

\* The timer's request, or the one the script makes when it starts.
RefreshSignalMarketPanel ==
    /\ shown.page = "signal" /\ shown.load \in timers
    /\ asked < MaxAsks /\ asked' = asked + 1
    /\ \E id \in Free(AskIds, asks, NoAsk) :
           asks' = [asks EXCEPT ![id] = [load |-> shown.load, answer |-> Given]]
    /\ UNCHANGED <<shellVars, chartVars, quoted, available>>

\* The answer of an old document's request goes to a panel that is not shown; an
\* error leaves the panel as it is.
SyncMarketPanel(id) ==
    /\ asks[id] # NoAsk
    /\ asks' = [asks EXCEPT ![id] = NoAsk]
    /\ \/ asks[id].load = shown.load /\ PutSnapshot(asks[id].answer)
       \/ UNCHANGED chartVars
    /\ UNCHANGED <<shellVars, quoted, available, asked>>

MarketChanges ==
    /\ \/ /\ quoted.at < MaxSnapshots
          /\ \E s \in Snapshot : s.at = quoted.at + 1 /\ quoted' = s
          /\ UNCHANGED available
       \/ available' = ~available /\ UNCHANGED quoted
    /\ UNCHANGED <<shellVars, chartVars, asks, asked>>

-----------------------------------------------------------------------------
(* The page's own copy of the chart's handlers. *)

OnChart(c) ==
    /\ shown.runs /\ snapshot # NoSnapshot
    /\ Measures(c)
    /\ UNCHANGED <<shellVars, panelVars>>

OnLegend(c) ==
    /\ shown.runs /\ snapshot # NoSnapshot
    /\ UsesLegend(c) \/ UsesToolbar(c)
    /\ UNCHANGED <<shellVars, panelVars>>

UsePanel ==
    \/ RefreshSignalMarketPanel \/ \E id \in AskIds : SyncMarketPanel(id)
    \/ MarketChanges
    \/ \E c \in Charts : OnChart(c) \/ OnLegend(c)

SignalNext == SwapDocument \/ UseForms \/ UsePanel

SignalSpec == SignalInit /\ [][SignalNext]_signalVars /\ ShellFairness

-----------------------------------------------------------------------------
(* Properties. *)

\* As long as the document stays, so does the level somebody chose by its line or its button:
\* the chart is on it whenever the panel is there and has it, whatever refreshes, outages of the
\* panel, snapshots without any level and late answers there were since.  Only levels without
\* the chosen one end the choice.
LevelKept ==
    \A c \in Charts :
        (snapshot # NoSnapshot /\ chosen[c] # NoLevel /\ chosen[c] \in snapshot.levels)
        => chart[c].level = chosen[c]
=============================================================================
