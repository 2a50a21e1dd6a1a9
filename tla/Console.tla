------------------------------- MODULE Console -------------------------------
(***************************************************************************)
(* The console: the scripts of its pages in a browser tab, and what the    *)
(* API and the database make of the market behind them.  The parts have no *)
(* state in common that either changes under the other, so a behaviour is  *)
(* about one of them, which `screen' names, and the others rest:           *)
(*   workspace  the previews, the compare entries and the live refresh;    *)
(*   board      the strips and the linked charts of the compare board;    *)
(*   panel      the charts of a signal's market panel;                     *)
(*   forms      the posts and the page swaps of every page;                *)
(*   quotes     the live market data and its caches;                       *)
(*   reference  the reference metadata and its syncs;                      *)
(*   desk       the sessions, the continuous series and the signals.       *)
(***************************************************************************)
EXTENDS WorkspacePage, CompareBoard, SignalPage, MarketData, ReferenceSync, TradingDesk

VARIABLE screen

consoleVars == <<screen, pageVars, boardVars, signalVars, marketVars, refVars, deskVars>>

Screens == {"workspace", "board", "panel", "forms", "quotes", "reference", "desk"}

\* Of the part that moves: the others are as they began.
ConsoleTypeOK ==
    \/ screen = "workspace" /\ PageTypeOK
    \/ screen = "board" /\ BoardTypeOK
    \/ screen \in {"panel", "forms"} /\ SignalTypeOK
    \/ screen = "quotes" /\ MarketTypeOK
    \/ screen = "reference" /\ ReferenceTypeOK
    \/ screen = "desk" /\ DeskTypeOK

ConsoleInit ==
    /\ screen \in Screens
    /\ PageInit /\ BoardInit /\ SignalInit /\ MarketInit /\ ReferenceInit /\ DeskInit
    /\ screen # "workspace" => LET o == CHOOSE o \in Openings : TRUE
                               IN  market = o.market /\ panel = PanelOf(o.of, o.rendered)
    /\ screen # "board" => boardRange = CHOOSE k \in BoardRanges : TRUE
    /\ screen # "forms" => shown.page = "signal"
    /\ screen # "quotes" => liveEnabled /\ token = "none"

InWorkspace(A) == screen = "workspace" /\ A /\ UNCHANGED <<screen, boardVars, signalVars, marketVars, refVars, deskVars>>
AtBoard(A) == screen = "board" /\ A /\ UNCHANGED <<screen, pageVars, signalVars, marketVars, refVars, deskVars>>
InPanel(A) == screen = "panel" /\ A /\ UNCHANGED <<screen, pageVars, boardVars, shellVars, marketVars, refVars, deskVars>>
InForms(A) == screen = "forms" /\ A /\ UNCHANGED <<screen, pageVars, boardVars, panelVars, marketVars, refVars, deskVars>>
InQuotes(A) == screen = "quotes" /\ A /\ UNCHANGED <<screen, pageVars, boardVars, signalVars, refVars, deskVars>>
InReference(A) == screen = "reference" /\ A /\ UNCHANGED <<screen, pageVars, boardVars, signalVars, marketVars, deskVars>>
AtDesk(A) == screen = "desk" /\ A /\ UNCHANGED <<screen, pageVars, boardVars, signalVars, marketVars, refVars>>

ConsoleNext ==
    \/ InWorkspace(PageNext)
    \/ AtBoard(BoardNext)
    \/ InPanel(UsePanel)
    \/ InForms(SwapDocument \/ UseForms)
    \/ InQuotes(MarketNext)
    \/ InReference(ReferenceNext)
    \/ AtDesk(DeskNext)

ConsoleFairness ==
    /\ \A id \in RequestIds : WF_consoleVars(InWorkspace(AnswerRequest(id)))
    /\ \A n \in Rounds : WF_consoleVars(InWorkspace(AnswerRound(n)))
    /\ WF_consoleVars(InWorkspace(TimerFires))
    /\ \A id \in PostIds :
           /\ WF_consoleVars(InForms(ServePost(id) /\ UNCHANGED chartVars))
           /\ WF_consoleVars(InForms(AnswerRefused(id) /\ UNCHANGED chartVars))
           /\ WF_consoleVars(InForms(AnswerStored(id) /\ UNCHANGED chartVars))
    /\ WF_consoleVars(InReference(HoursPass))
    /\ \A p \in Processes :
           /\ WF_consoleVars(InReference(Seed(p)))
           /\ WF_consoleVars(InReference(InCall(p)))

ConsoleSpec == ConsoleInit /\ [][ConsoleNext]_consoleVars /\ ConsoleFairness

-----------------------------------------------------------------------------
\* Once the market rests and the user stops, every surface of the workspace shows
\* the newest snapshot for good, and no compare card is left waiting: answers out of
\* order, overlapping rounds and marks on the wrong entry are repaired by a later round.
\* A panel whose signal has no market data is left out: it may keep an older price.
ViewsCatchUp == <>[](screen = "workspace" => ShowsNewest)

\* Once MOEX publishes nothing new and ISS answers, the rows of the one process that serves
\* pages and syncs catch up with MOEX for good, after failed and half finished syncs and
\* restarts that put the bundled contracts back.
RowsCatchUp == <>[](screen = "reference" => RowsCurrent)
=============================================================================
