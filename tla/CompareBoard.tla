----------------------------- MODULE CompareBoard -----------------------------
(***************************************************************************)
(* What the compare board of the workspace draws: the strips that say      *)
(* which of two pinned roots leads and how their regimes changed, and the  *)
(* two cards whose charts share a cursor, a measurement and a marked       *)
(* level.  WorkspacePage has the pins themselves and the requests behind   *)
(* them; the strips and cards of the signals work alike.                   *)
(*                                                                         *)
(* The board is drawn anew as a whole, and what it drew is all it compares *)
(* the next drawing with.  A pin or a timeframe draws it twice, before and *)
(* after its request: at once if the snapshot is there.  Prices are left   *)
(* out: Gain orders the roots' changes, a snapshot has a regime and price  *)
(* levels, and a place on a chart is one of BoardPlaces.                   *)
(***************************************************************************)
EXTENDS Naturals

CONSTANTS
    BoardRoots, BoardFrames, BoardRanges,
    Gain,          \* Gain[<<r, f, k>>]: the change of root r in timeframe f and boardRange k
    Quotes,        \* the snapshots a root may have: [regime, levels]
    BoardLevels,   \* the price levels
    BoardPlaces, BoardPointers,
    MaxDraws, MaxAnswers,  \* bounds on the drawings after the first and on the snapshots that arrive
    NoPin, NoQuote, NoContext, NoNote, NoChart, NoMark, Nowhere, NoDrag

ASSUME BoardAssumption ==
    /\ Gain \in [BoardRoots \X BoardFrames \X BoardRanges -> Nat]
    /\ \A q \in Quotes : q.levels \subseteq BoardLevels
    /\ {MaxDraws, MaxAnswers} \subseteq Nat

VARIABLES
    pair,     \* pair[s]: the root and timeframe pinned in slot s
    boardRange,    \* the range of both cards
    quote,    \* rootPreviewCache
    marked,   \* compareOverlayState, which the local storage keeps
    history,  \* compareLeaderHistory and compareRegimeHistory
    strip,    \* the strips as drawn
    card,     \* card[s]: the chart of slot s as drawn
    gesture,  \* the measurement being dragged, a pending clear, whether a level is hovered
    draws, answers  \* how often the board was drawn and a snapshot arrived

boardVars == <<pair, boardRange, quote, marked, history, strip, card, gesture, draws, answers>>

Slots == {"a", "b"}

Context ==
    [pair : [Slots -> [root : BoardRoots, frame : BoardFrames]], range : BoardRanges,
     leader : BoardRoots \cup {"tie"}, regimes : [Slots -> {q.regime : q \in Quotes}]]

Spans == {[from |-> x, to |-> y] : x, y \in BoardPlaces}

BoardTypeOK ==
    /\ pair \in [Slots -> [root : BoardRoots, frame : BoardFrames] \cup {NoPin}]
    /\ boardRange \in BoardRanges /\ quote \in [BoardRoots -> Quotes \cup {NoQuote}]
    /\ marked \in BoardLevels \cup {NoMark}
    /\ {history, strip.context} \subseteq Context \cup {NoContext}
    /\ \A s \in Slots : card[s] # NoChart =>
           /\ card[s].levels \subseteq BoardLevels /\ card[s].focus \in card[s].levels \cup {NoMark}
           /\ card[s].cursor \in BoardPlaces \cup {Nowhere} /\ card[s].span \in Spans \cup {Nowhere}
    /\ {gesture.clearing, gesture.hovering} \subseteq BOOLEAN
    /\ draws \in 0..MaxDraws /\ answers \in 0..MaxAnswers

-----------------------------------------------------------------------------
\* Where both slots have a snapshot, what the strips compare.
Leading(p, k) ==
    LET GainOf(s) == Gain[<<p[s].root, p[s].frame, k>>] IN
    IF GainOf("a") = GainOf("b") THEN "tie" ELSE IF GainOf("a") > GainOf("b") THEN p["a"].root ELSE p["b"].root

Charted(p, q, s) == p[s] # NoPin /\ q[p[s].root] # NoQuote

Compared(p, k, q) ==
    IF \A s \in Slots : Charted(p, q, s)
    THEN [pair |-> p, range |-> k, leader |-> Leading(p, k), regimes |-> [s \in Slots |-> q[p[s].root].regime]]
    ELSE NoContext

\* Without two snapshots the strips forget.
Remembered(h, context) == context

Frames(context) == <<context.pair["a"].frame, context.pair["b"].frame, context.range>>

\* buildLeaderShiftNote: only the timeframes and the boardRange are compared.
Shift(h, context) ==
    IF NoContext \in {h, context} \/ Frames(h) = Frames(context) THEN NoNote
    ELSE [was |-> h.leader, now |-> context.leader]

\* buildCompareRegimeDriftNote: of the same roots, timeframes and boardRange.
Drift(h, context) ==
    IF NoContext \in {h, context} \/ h.pair # context.pair \/ h.range # context.range THEN {}
    ELSE {[slot |-> s, was |-> h.regimes[s], now |-> context.regimes[s]] :
              s \in {t \in Slots : h.regimes[t] # context.regimes[t]}}

Focus(level, levels) == IF level \in levels THEN level ELSE NoMark

\* A level is marked on no card until somebody chooses one again.
FreshChart(levels, mark) == [levels |-> levels, focus |-> NoMark, cursor |-> Nowhere, span |-> Nowhere]

NewBoardChart(levels, mark) == [levels |-> levels, focus |-> Focus(mark, levels), cursor |-> Nowhere, span |-> Nowhere]

\* What the strips above the cards say; signals' slots are drawn and compared as roots' are.
Strips(h, context) == [context |-> context, shift |-> Shift(h, context), drift |-> Drift(h, context)]

\* renderCompareBoard, once what was drawn before is h.
Draw(h, p, k, q, mark) ==
    LET context == Compared(p, k, q) IN
    /\ draws < MaxDraws /\ draws' = draws + 1
    /\ pair' = p /\ boardRange' = k /\ quote' = q /\ marked' = mark
    /\ history' = Remembered(h, context)
    /\ strip' = Strips(h, context)
    /\ card' = [s \in Slots |->
           IF Charted(p, q, s) THEN NewBoardChart(q[p[s].root].levels, mark) ELSE NoChart]
    /\ gesture' = [drag |-> NoDrag, clearing |-> FALSE, hovering |-> FALSE]

\* A pin or a timeframe: the answer that is there draws the board a second time at once.
DrawForRequest(s, p) ==
    Draw(IF Charted(p, quote, s) THEN Remembered(history, Compared(p, boardRange, quote)) ELSE history,
         p, boardRange, quote, marked)

EmptyPair == [s \in Slots |-> NoPin]

BoardInit ==
    /\ pair = EmptyPair /\ boardRange \in BoardRanges
    /\ quote = [r \in BoardRoots |-> NoQuote]
    /\ marked = NoMark /\ history = NoContext
    /\ strip = [context |-> NoContext, shift |-> NoNote, drift |-> {}]
    /\ card = [s \in Slots |-> NoChart]
    /\ gesture = [drag |-> NoDrag, clearing |-> FALSE, hovering |-> FALSE]
    /\ draws = 0 /\ answers = 0

-----------------------------------------------------------------------------
PinRoot(s, entry) ==
    /\ IF pair[s] = entry THEN Draw(history, [pair EXCEPT ![s] = NoPin], boardRange, quote, marked)
       ELSE DrawForRequest(s, [pair EXCEPT ![s] = entry])
    /\ UNCHANGED answers

SwitchFrame(s, f) ==
    /\ pair[s] # NoPin
    /\ DrawForRequest(s, [pair EXCEPT ![s].frame = f])
    /\ UNCHANGED answers

SwitchRange(k) == Draw(history, pair, k, quote, marked) /\ UNCHANGED answers

ClearRoot(s) == Draw(history, [pair EXCEPT ![s] = NoPin], boardRange, quote, marked) /\ UNCHANGED answers

Arrives == answers < MaxAnswers /\ answers' = answers + 1

\* The snapshot a pin waits for, or its failure: the board is drawn either way.
PinAnswered(s) ==
    /\ pair[s] # NoPin /\ quote[pair[s].root] = NoQuote /\ Arrives
    /\ \E q \in Quotes \cup {NoQuote} :
           Draw(history, pair, boardRange, [quote EXCEPT ![pair[s].root] = q], marked)

\* A live round: a root's snapshot goes into the cache, and the board is drawn after the last.
RoundAnswered(r) ==
    /\ Arrives
    /\ \E q \in Quotes : quote' = [quote EXCEPT ![r] = q]
    /\ UNCHANGED <<pair, boardRange, marked, history, strip, card, gesture, draws>>

RoundDraws == Draw(history, pair, boardRange, quote, marked) /\ UNCHANGED answers

\* The page is loaded again: pins, boardRange and the marked level come from the local storage.
LoadBoard == Draw(NoContext, pair, boardRange, [r \in BoardRoots |-> NoQuote], marked) /\ UNCHANGED answers

-----------------------------------------------------------------------------
\* The pointers.  Whatever one does on a chart is done to every chart of the board; the chart
\* where a pointer went down captures it.
Drawn == {s \in Slots : card[s] # NoChart}

OnCards(changed) == card' = [s \in Slots |-> IF s \in Drawn THEN changed[s] ELSE card[s]]

Offered == {NoMark} \cup UNION {card[s].levels : s \in Drawn}

Active == IF \E s \in Drawn : marked \in card[s].levels THEN marked ELSE NoMark

Gesture == UNCHANGED <<pair, boardRange, quote, history, strip, draws, answers>>

\* pointerenter and pointermove, over a level or not.
CursorMoves(p, place, over) ==
    /\ Drawn # {} /\ over \in Offered
    /\ LET dragging == gesture.drag # NoDrag /\ gesture.drag.pointer = p
           drag == IF dragging THEN [gesture.drag EXCEPT !.to = place, !.moved = @ \/ place # gesture.drag.from]
                   ELSE gesture.drag
           level == IF over = NoMark THEN Active ELSE over
       IN /\ gesture' = [drag |-> drag, clearing |-> FALSE, hovering |-> over # NoMark]
          /\ OnCards([s \in Drawn |-> [card[s] EXCEPT !.focus = Focus(level, card[s].levels), !.cursor = place,
                                          !.span = IF dragging THEN [from |-> drag.from, to |-> place] ELSE @]])
    /\ Gesture /\ UNCHANGED marked

\* The cursor goes 90 ms after the pointer left, unless it comes back or somebody measures.
CursorLeaves ==
    /\ Drawn # {}
    /\ gesture' = [gesture EXCEPT !.hovering = FALSE, !.clearing = @ \/ gesture.drag = NoDrag]
    /\ OnCards([s \in Drawn |-> [card[s] EXCEPT !.focus = Focus(Active, card[s].levels)]])
    /\ Gesture /\ UNCHANGED marked

CursorCleared ==
    /\ gesture.clearing
    /\ gesture' = [gesture EXCEPT !.clearing = FALSE]
    /\ OnCards([s \in Drawn |-> [card[s] EXCEPT !.cursor = Nowhere]])
    /\ Gesture /\ UNCHANGED marked

\* pointerdown: a press on a level marks it for good.
DragStarts(p, place, over) ==
    /\ Drawn # {} /\ over \in Offered
    /\ marked' = IF over = NoMark THEN marked ELSE over
    /\ gesture' = [drag |-> [pointer |-> p, from |-> place, to |-> place, moved |-> FALSE],
                   clearing |-> FALSE, hovering |-> gesture.hovering /\ over = NoMark]
    /\ OnCards([s \in Drawn |-> [card[s] EXCEPT !.focus = IF over = NoMark THEN @ ELSE Focus(over, card[s].levels),
                                    !.cursor = place, !.span = [from |-> place, to |-> place]]])
    /\ Gesture

\* pointerup of the pointer that drags; a drag that went nowhere leaves nothing.
DragEnds(p) ==
    /\ gesture.drag # NoDrag /\ gesture.drag.pointer = p
    /\ gesture' = [gesture EXCEPT !.drag = NoDrag, !.clearing = @ /\ ~gesture.drag.moved]
    /\ OnCards([s \in Drawn |->
           IF gesture.drag.moved
           THEN [card[s] EXCEPT !.cursor = gesture.drag.to, !.span = [from |-> gesture.drag.from, to |-> gesture.drag.to]]
           ELSE [card[s] EXCEPT !.cursor = Nowhere, !.span = Nowhere]])
    /\ Gesture /\ UNCHANGED marked

\* pointercancel of that pointer, and a double click of any.
DragCancelled ==
    /\ Drawn # {}
    /\ gesture' = [gesture EXCEPT !.drag = NoDrag]
    /\ OnCards([s \in Drawn |-> [card[s] EXCEPT !.cursor = Nowhere, !.span = Nowhere]])
    /\ Gesture /\ UNCHANGED marked

BoardEdited ==
    \/ \E s \in Slots :
        \/ \E r \in BoardRoots, f \in BoardFrames : PinRoot(s, [root |-> r, frame |-> f])
        \/ \E f \in BoardFrames : SwitchFrame(s, f)
        \/ ClearRoot(s) \/ PinAnswered(s)
    \/ \E k \in BoardRanges : SwitchRange(k)
    \/ \E r \in BoardRoots : RoundAnswered(r)
    \/ RoundDraws \/ LoadBoard

BoardPointed ==
    \/ \E p \in BoardPointers :
        \/ \E place \in BoardPlaces, over \in Offered :
               CursorMoves(p, place, over) \/ DragStarts(p, place, over)
        \/ DragEnds(p)
    \/ CursorLeaves \/ CursorCleared \/ DragCancelled

BoardNext == BoardEdited \/ BoardPointed

-----------------------------------------------------------------------------
\* A note on the strips is about the drawing the user saw before: the leader it was, and
\* of the same two roots the regime that changed.
NotesTell ==
    LET before == strip.context
        now == strip'.context
    IN strip' # strip =>
        /\ strip'.shift # NoNote => before # NoContext /\ strip'.shift = [was |-> before.leader, now |-> now.leader]
        /\ \A d \in strip'.drift :
               /\ before # NoContext /\ before.pair = now.pair
               /\ d.was = before.regimes[d.slot] /\ d.now = now.regimes[d.slot]

\* The two charts show one cursor and one measurement, and unless a pointer is over a level
\* each marks the level chosen last, where it has it: after refreshes that took the level
\* away and brought it back, drawings in the middle of a drag, and reloads.
CardsAgree ==
    /\ \A s, t \in Drawn : card[s].cursor = card[t].cursor /\ card[s].span = card[t].span
    /\ ~gesture.hovering => \A s \in Drawn : card[s].focus = Focus(marked, card[s].levels)

\* What the board tells is true: its notes of the drawing before, its charts of the user's
\* last gesture.
BoardTells == [][NotesTell /\ CardsAgree']_boardVars
=============================================================================
