----------------------------- MODULE ConsoleProofs -----------------------------
(***************************************************************************)
(* Proofs about the console as a whole, which the runs check: each of its  *)
(* steps is a step of one part and leaves the others alone, so the parts'  *)
(* invariants hold of it together, and with them the parts' theorems.      *)
(***************************************************************************)
EXTENDS Console, MarketProofs, SignalPageProofs, WorkspaceProofs

ConsoleInv ==
    /\ screen \in Screens
    /\ PageInv /\ BoardInv /\ SignalInv /\ MarketInv /\ ReferenceInv /\ DeskInv

\* What a step of the console is to each of its parts.
PartsStep ==
    /\ [PageNext]_pageVars /\ [BoardNext]_boardVars /\ [SignalNext]_signalVars
    /\ [MarketNext]_marketVars /\ [ReferenceNext]_refVars /\ [DeskNext]_deskVars

-----------------------------------------------------------------------------
\* The console begins as its parts do.
LEMMA ConsoleStarts == ConsoleInit => ConsoleInv
BY PageInitially, BoardInitially, SignalInitially, MarketStart, ReferenceInitially, DeskInitially
   DEF ConsoleInit, ConsoleInv

\* A step of the console is a step of each part, or leaves it alone.
LEMMA ConsoleMoves == [ConsoleNext]_consoleVars => PartsStep /\ screen' = screen
<1> SUFFICES ASSUME [ConsoleNext]_consoleVars PROVE PartsStep /\ screen' = screen
  OBVIOUS
<1>1. CASE UNCHANGED consoleVars
  BY <1>1 DEF consoleVars, PartsStep
<1>2. CASE InWorkspace(PageNext)
  BY <1>2 DEF InWorkspace, PartsStep
<1>3. CASE AtBoard(BoardNext)
  BY <1>3 DEF AtBoard, PartsStep
<1>4. CASE InPanel(UsePanel)
  BY <1>4 DEF InPanel, PartsStep, SignalNext
<1>5. CASE InForms(SwapDocument \/ UseForms)
  BY <1>5 DEF InForms, PartsStep, SignalNext
<1>6. CASE InQuotes(MarketNext)
  BY <1>6 DEF InQuotes, PartsStep
<1>7. CASE InReference(ReferenceNext)
  BY <1>7 DEF InReference, PartsStep
<1>8. CASE AtDesk(DeskNext)
  BY <1>8 DEF AtDesk, PartsStep
<1> QED
  BY <1>1, <1>2, <1>3, <1>4, <1>5, <1>6, <1>7, <1>8 DEF ConsoleNext

\* So every step keeps every part's invariant.
LEMMA ConsoleStepKept == ConsoleInv /\ [ConsoleNext]_consoleVars => ConsoleInv'
BY ConsoleMoves, PageStepKept, BoardStepKept, SignalStepKept, MarketStep, ReferenceStepKept, DeskStepKept
   DEF ConsoleInv, PartsStep

\* What the invariant says of the console.
LEMMA ConsoleSays ==
    ConsoleInv => /\ ConsoleTypeOK /\ StoredAsLeft /\ PinButtonsTell
                  /\ MeasureFits /\ LevelKept /\ OneRefresh /\ PageTells /\ ServedFresh
<1> SUFFICES ASSUME ConsoleInv
             PROVE  /\ ConsoleTypeOK /\ StoredAsLeft /\ PinButtonsTell
                    /\ MeasureFits /\ LevelKept /\ OneRefresh /\ PageTells /\ ServedFresh
  OBVIOUS
<1>1. PageTypeOK /\ StoredAsLeft /\ PinButtonsTell
  BY DEF ConsoleInv, PageInv
<1>2. SignalTypeOK /\ MeasureFits /\ LevelKept /\ OneRefresh /\ PageTells
  BY SignalTells DEF ConsoleInv
<1>3. MarketTypeOK /\ ServedFresh
  BY DEF ConsoleInv, MarketInv
<1>4. BoardTypeOK /\ ReferenceTypeOK /\ DeskTypeOK
  BY BoardTyped, ReferenceTyped, DeskTyped DEF ConsoleInv
<1>5. ConsoleTypeOK
  BY <1>1, <1>2, <1>3, <1>4 DEF ConsoleInv, ConsoleTypeOK, Screens
<1> QED
  BY <1>1, <1>2, <1>3, <1>5

\* The invariant of the console holds throughout, for any size of any of its parts.
THEOREM ConsoleInductive == ConsoleSpec => []ConsoleInv
BY ConsoleStarts, ConsoleStepKept, PTL DEF ConsoleSpec

\* The console's state is of the right types throughout, on every screen.
THEOREM ConsoleTyped == ConsoleSpec => []ConsoleTypeOK
BY ConsoleInductive, ConsoleSays, PTL

\* While the browser's copy of the board is the tab's own, it is the board that is shown, and the pin
\* buttons tell of that board whoever wrote the copy (persistCompareState, syncPinButtons).
THEOREM ConsoleStored == ConsoleSpec => [](StoredAsLeft /\ PinButtonsTell)
BY ConsoleInductive, ConsoleSays, PTL

\* A signal page has one refresh, measurements that fit, and shows what the browser was told of.
THEOREM ConsolePages == ConsoleSpec => [](MeasureFits /\ OneRefresh /\ PageTells)
BY ConsoleInductive, ConsoleSays, PTL

\* Quotes are of the contract they name, and not older than the time to live.
THEOREM ConsoleQuotes == ConsoleSpec => []ServedFresh
BY ConsoleInductive, ConsoleSays, PTL

\* As long as the document stays, a chart whose panel has the level somebody chose is on it,
\* whatever refreshes, outages and empty snapshots there were since (PutSnapshot, ClickLevel).
THEOREM ConsoleLevels == ConsoleSpec => []LevelKept
BY ConsoleInductive, ConsoleSays, PTL

-----------------------------------------------------------------------------
\* What a step of the console does: the action properties of its parts.
LEMMA ConsoleDoes ==
    ConsoleInv /\ [ConsoleNext]_consoleVars =>
        /\ KeepsPins /\ OpensNothing /\ [BoardSays]_boardVars
        /\ GoesForward /\ Announces /\ FollowsRows
BY ConsoleMoves, AnswersKeep, NothingOpens, BoardStepTells, ForwardStep, AnnouncesStep, FollowsStep
   DEF ConsoleInv, PartsStep

\* Answers pin nothing, and open no preview that was closed (AnswerCompare, AnswerPreview, AnswerRefresh).
THEOREM ConsoleAnswers == ConsoleSpec => AnswersKeepPins /\ RefreshOpensNothing
<1>1. ConsoleSpec => [][KeepsPins]_pageVars /\ [][OpensNothing]_pageVars
  BY ConsoleDoes, ConsoleInductive, PTL DEF ConsoleSpec
<1> QED
  BY <1>1 DEF AnswersKeepPins, KeepsPins, RefreshOpensNothing, OpensNothing

\* The compare board's strips tell of the change between the drawings they show, and its charts agree on
\* the level, for any pins, ranges, quotes and pointers (renderCompareBoard,
\* applyCompareChartCursor).
THEOREM ConsoleBoard == ConsoleSpec => BoardTells
<1>1. ConsoleSpec => [][BoardSays]_boardVars
  BY ConsoleDoes, ConsoleInductive, PTL DEF ConsoleSpec
<1> QED
  BY <1>1 DEF BoardTells, BoardSays

\* The pages never go back to an earlier trading day while the calendar of MOEX is in order and stays
\* as it is (Link, TradingDay, SessionType).
THEOREM ConsoleDays == ConsoleSpec => TradingDayForward
<1>1. ConsoleSpec => [][GoesForward]_deskVars
  BY ConsoleDoes, ConsoleInductive, PTL DEF ConsoleSpec
<1> QED
  BY <1>1 DEF TradingDayForward, GoesForward

\* A contract that becomes active was announced (RollEvent), while the contracts' status and an orderly
\* calendar stay and the rows do not lag behind.
THEOREM ConsoleRolls == ConsoleSpec => RollAnnounced
<1>1. ConsoleSpec => [][Announces]_deskVars
  BY ConsoleDoes, ConsoleInductive, PTL DEF ConsoleSpec
<1> QED
  BY <1>1 DEF RollAnnounced, Announces

\* A series goes on with the contracts its row names (Series, ExpectedRow).
THEOREM ConsoleSeries == ConsoleSpec => SeriesAsRows
<1>1. ConsoleSpec => [][FollowsRows]_deskVars
  BY ConsoleDoes, ConsoleInductive, PTL DEF ConsoleSpec
<1> QED
  BY <1>1 DEF SeriesAsRows, FollowsRows
=============================================================================
