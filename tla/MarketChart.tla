----------------------------- MODULE MarketChart -----------------------------
(***************************************************************************)
(* The interactive charts of a market panel: range buttons, price levels   *)
(* and the measurement a pointer drags over the bars.  A live              *)
(* refresh replaces the panel's markup, and the charts are attached to the *)
(* new markup again; what shall survive is kept with the panel itself.     *)
(*                                                                         *)
(* A bar is its number in the snapshot.  Of the prices only the level an   *)
(* anchor snapped to is left; the line of the current price, which it      *)
(* snaps to like a level, and what hovering shows are left out.            *)
(***************************************************************************)
EXTENDS Integers

CONSTANTS
    Charts,         \* the timeframes of the panel, among "1D", "1W", "1M"
    ChartPointers,
    ChartLevels,    \* a set of numbers: price levels in the order of the legend
    BarCounts,      \* how many bars a snapshot may have
    MaxSnapshots,   \* bound on the snapshots of a run
    NoPointer, NoMeasure, NoSnapshot

RangeKeys == {"full", "focus", "tight"}
NoLevel == 0

ASSUME ChartAssumption ==
    /\ Charts \subseteq {"1D", "1W", "1M"}
    /\ ChartLevels \subseteq Nat \ {NoLevel} /\ BarCounts \subseteq Nat \ {0}
    /\ \E longest \in BarCounts : \A n \in BarCounts : n <= longest
    /\ MaxSnapshots \in Nat
    /\ NoPointer \notin ChartPointers

VARIABLES
    snapshot,   \* what the panel shows: [at, bars, levels] or NoSnapshot
    chart,      \* the state of every chart's closure and markup
    keptRange, keptLevel,   \* marketRangeState and marketOverlayState of the panel
    chosen      \* history: the level somebody chose on a chart, as long as its panel has it

chartVars == <<snapshot, chart, keptRange, keptLevel, chosen>>

Anchor == [bar : Nat, snap : ChartLevels \cup {NoLevel}, at : Nat]
Measure == [from : Anchor, to : Anchor]
Snapshot == [at : 0 .. MaxSnapshots, bars : BarCounts, levels : SUBSET ChartLevels]
Chart ==
    [range : RangeKeys, level : ChartLevels \cup {NoLevel},
     measure : Measure \cup {NoMeasure},
     pointer : ChartPointers \cup {NoPointer}, moved : BOOLEAN]

ASSUME NothingMeasured == NoMeasure \notin Measure

ChartTypeOK ==
    /\ snapshot \in Snapshot \cup {NoSnapshot}
    /\ chart \in [Charts -> Chart]
    /\ keptRange \in [Charts -> RangeKeys]
    /\ keptLevel \in [Charts -> ChartLevels \cup {NoLevel}]
    /\ chosen \in [Charts -> ChartLevels \cup {NoLevel}]

-----------------------------------------------------------------------------
(* Ranges and levels. *)

Smaller(a, b) == IF a < b THEN a ELSE b
Greater(a, b) == IF a < b THEN b ELSE a
AtLeast(percent, minimum, total) ==
    Smaller(total, Greater(minimum, (total * percent + 99) \div 100))

PresetCount(c, key, total) ==
    CASE key = "full" -> total
      [] key = "focus" -> IF c = "1D" THEN AtLeast(50, 10, total)
                          ELSE AtLeast(IF c = "1W" THEN 45 ELSE 50, 6, total)
      [] key = "tight" -> IF c = "1D" THEN AtLeast(22, 6, total)
                          ELSE AtLeast(IF c = "1W" THEN 20 ELSE 25, 4, total)

\* buildRangePresets: a preset is offered if it is shorter than the one before.
Presets(c, total) ==
    {key \in RangeKeys :
        \/ key = "full"
        \/ key = "focus" /\ PresetCount(c, key, total) < total
        \/ key = "tight" /\ PresetCount(c, key, total) < PresetCount(c, "focus", total)}

\* subsetForRange: the newest bars; a range that is not offered shows them all.
Bars(c, key, total) ==
    (total + 1 - PresetCount(c, IF key \in Presets(c, total) THEN key ELSE "full", total)) .. total

First(levels) ==
    IF levels = {} THEN NoLevel ELSE CHOOSE l \in levels : \A m \in levels : l <= m

ResolveOverlayKey(key, levels) == IF key \in levels THEN key ELSE First(levels)

\* The bars under the left and the right edge of a chart.
Edges(c) ==
    LET bars == Bars(c, chart[c].range, snapshot.bars)
    IN  {b \in bars : b - 1 \notin bars \/ b + 1 \notin bars}

\* The levels a pointer is tried on over a bar: over the newest those of the chart.
LevelsOver(bar) == (IF bar = snapshot.bars THEN snapshot.levels ELSE {}) \cup {NoLevel}

-----------------------------------------------------------------------------
(* What the handlers do to a chart. *)

\* Fault: the measurement of the old range stays.
KeepMeasurement(k) == [k EXCEPT !.pointer = NoPointer]

ResetMeasurement(k) ==
    [k EXCEPT !.measure = NoMeasure, !.pointer = NoPointer, !.moved = FALSE]

\* Drawing a range drops the measurement with the old markup.
RenderRange(k, key) ==
    [ResetMeasurement(k) EXCEPT !.range = key]

StartMeasurement(k, anchor, p) ==
    [k EXCEPT !.measure = [from |-> anchor, to |-> anchor],
              !.pointer = p, !.moved = FALSE]

UpdateMeasurement(k, anchor) ==
    [k EXCEPT !.measure.to = anchor,
              !.moved = @ \/ anchor # k.measure.from]

FinishMeasurement(k) ==
    IF k.moved THEN [k EXCEPT !.pointer = NoPointer] ELSE ResetMeasurement(k)

AnchorAt(bar, snap) == [bar |-> bar, snap |-> snap, at |-> snapshot.at]

\* persistOverlayKey: only a level the chart has is kept.
Persisted(c, level) ==
    IF level = NoLevel THEN keptLevel ELSE [keptLevel EXCEPT ![c] = level]

-----------------------------------------------------------------------------
(* A snapshot is put into the panel. *)

NewChart(level) ==
    RenderRange([range |-> "full", level |-> level, measure |-> NoMeasure, pointer |-> NoPointer, moved |-> FALSE], "full")

\* A page that has just been loaded keeps nothing.
AttachAfresh(s, c) == NewChart(First(s.levels))

\* A live refresh makes the card anew: its level comes from what the panel keeps.
\* The kept range is read as well, but the last call renders the card's own, which
\* on a new card is "full".
Attach(s, c) == NewChart(ResolveOverlayKey(keptLevel[c], s.levels))

\* A choice ends where the panel shows levels without it.
StillChosen(levels) ==
    [c \in Charts |-> IF levels = {} \/ chosen[c] \in levels THEN chosen[c] ELSE NoLevel]

\* Fault: a panel that goes away forgets its levels.
PutSnapshotForgetting(s) ==
    /\ snapshot' = s
    /\ IF s = NoSnapshot
       THEN keptLevel' = [c \in Charts |-> NoLevel] /\ UNCHANGED <<chart, keptRange, chosen>>
       ELSE /\ chart' = [c \in Charts |-> Attach(s, c)]
            /\ keptRange' = [c \in Charts |-> "full"]
            /\ keptLevel' = [c \in Charts |->
                   IF s.levels = {} THEN keptLevel[c] ELSE chart'[c].level]
            /\ chosen' = StillChosen(s.levels)

\* Without a snapshot the panel says so and has no charts.
PutSnapshot(s) ==
    /\ snapshot' = s
    /\ IF s = NoSnapshot THEN UNCHANGED <<chart, keptRange, keptLevel, chosen>>
       ELSE /\ chart' = [c \in Charts |-> Attach(s, c)]
            /\ keptRange' = [c \in Charts |-> "full"]
            /\ keptLevel' = [c \in Charts |->
                   IF s.levels = {} THEN keptLevel[c] ELSE chart'[c].level]
            /\ chosen' = StillChosen(s.levels)

ChartInit ==
    /\ snapshot = [at |-> 0, bars |-> CHOOSE n \in BarCounts : \A m \in BarCounts : m <= n,
                   levels |-> ChartLevels]
    /\ keptRange = [c \in Charts |-> "full"]
    /\ keptLevel = [c \in Charts |-> First(ChartLevels)]
    /\ chosen = [c \in Charts |-> NoLevel]
    /\ chart = [c \in Charts |-> AttachAfresh(snapshot, c)]

-----------------------------------------------------------------------------
(* Gestures on the chart of a shown snapshot. *)

Handle(c, k) ==
    /\ snapshot # NoSnapshot
    /\ chart' = [chart EXCEPT ![c] = k]
    /\ UNCHANGED snapshot

\* Only the pointer that drags measures; its anchor snaps to the level it is close to, so that
\* a drag from one level to another spans something even over the same bar.
PointerMoves(c, p, bar, snap) ==
    /\ chart[c].pointer = p
    /\ Handle(c, UpdateMeasurement(chart[c], AnchorAt(bar, snap)))
    /\ UNCHANGED <<keptRange, keptLevel, chosen>>

Choose(c, level) == chosen' = IF level = NoLevel THEN chosen ELSE [chosen EXCEPT ![c] = level]

\* A press on a level selects it; a press of a second pointer takes the drag over.
PointerDown(c, p, bar, over, snap) ==
    LET level == IF over = NoLevel THEN chart[c].level ELSE over IN
    /\ Handle(c, StartMeasurement([chart[c] EXCEPT !.level = level], AnchorAt(bar, snap), p))
    /\ keptLevel' = Persisted(c, over) /\ Choose(c, over)
    /\ UNCHANGED keptRange

PointerUp(c, p) ==
    /\ chart[c].pointer = p
    /\ Handle(c, FinishMeasurement(chart[c]))
    /\ UNCHANGED <<keptRange, keptLevel, chosen>>

\* pointercancel of whichever pointer, and dblclick.
PointerCancel(c) ==
    /\ Handle(c, ResetMeasurement(chart[c]))
    /\ UNCHANGED <<keptRange, keptLevel, chosen>>

ClickRange(c, key) ==
    /\ Handle(c, RenderRange(chart[c], key))
    /\ keptRange' = [keptRange EXCEPT ![c] = key]
    /\ keptLevel' = Persisted(c, chart[c].level) /\ UNCHANGED chosen

ClickLevel(c, level) ==
    /\ Handle(c, [chart[c] EXCEPT !.level = level])
    /\ keptLevel' = Persisted(c, level) /\ Choose(c, level)
    /\ UNCHANGED keptRange

Measures(c) ==
    \/ PointerCancel(c)
    \/ \E p \in ChartPointers :
        \/ PointerUp(c, p)
        \/ \E bar \in Edges(c) : \E snap \in LevelsOver(bar) :
            \/ PointerMoves(c, p, bar, snap)
            \/ \E over \in {NoLevel, snap} : PointerDown(c, p, bar, over, snap)

UsesLegend(c) == \E level \in snapshot.levels : ClickLevel(c, level)

UsesToolbar(c) == \E key \in Presets(c, snapshot.bars) : ClickRange(c, key)

-----------------------------------------------------------------------------
(* Properties. *)

\* A measurement on a chart is one of the bars on it: no range button, refresh,
\* second pointer or cancelled gesture leaves one whose anchors belong to bars that
\* have gone, and without a drag only one that spans something stays.
MeasureFits ==
    snapshot # NoSnapshot =>
        \A c \in Charts :
            LET k == chart[c]
                bars == Bars(c, k.range, snapshot.bars)
            IN  IF k.measure = NoMeasure THEN k.pointer = NoPointer /\ ~k.moved
                ELSE /\ {k.measure.from.bar, k.measure.to.bar} \subseteq bars
                     /\ k.measure.from.at = snapshot.at /\ k.measure.to.at = snapshot.at
                     /\ k.pointer = NoPointer => k.moved
=============================================================================
