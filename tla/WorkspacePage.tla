---------------------------- MODULE WorkspacePage ----------------------------
(***************************************************************************)
(* The script of the workspace page: previews of roots and signals, the    *)
(* compare board with its copy in the browser's local storage, and the     *)
(* live refresh.  The script runs on one thread, but every request it      *)
(* makes is answered later, in any order, and may fail.                    *)
(*                                                                         *)
(* A snapshot is its version.  Version 0 is "no data": null for a root,    *)
(* 404 for a signal.  A signal that is there may come without market data. *)
(* Charts, texts and the two strips that compare the slots are drawn from  *)
(* the same data and left out.                                             *)
(***************************************************************************)
EXTENDS Integers, FiniteSets

CONSTANTS
    Roots, Signals,     \* what has a card on the page
    Timeframes, DefaultTimeframe,
    CompareSlots, Ranges, FullRange,
    Empty,              \* a slot, a cache entry or a request that is not there
    Loading, Unavailable,   \* what is shown instead of a snapshot
    Failed,             \* the outcome of a request that raises
    Openings,           \* the page's first load: the panel's item, the market then and as it was rendered
    Priceless,          \* the versions of a signal that have no market data
    OtherCopies,        \* what another tab may store under the same key
    MaxVersion, MaxOutside, MaxClicks, MaxErrors, MaxEvents, MaxRequests, MaxRounds  \* bounds

Items == Roots \cup Signals
Kinds == {"roots", "signals"}
KindOf(i) == IF i \in Roots THEN "roots" ELSE "signals"
ItemsOf(kind) == IF kind = "roots" THEN Roots ELSE Signals

RequestIds == 1 .. MaxRequests
Rounds == 1 .. MaxRounds

ASSUME PageAssumption ==
    /\ Roots \cap Signals = {}
    /\ DefaultTimeframe \in Timeframes /\ FullRange \in Ranges
    /\ {MaxVersion, MaxOutside, MaxClicks, MaxErrors, MaxEvents, MaxRequests, MaxRounds} \subseteq Nat

VARIABLES
    market,         \* the server's newest version of every item
    cache,          \* rootPreviewCache and signalPreviewCache
    popover,        \* [hidden, timeframe, shows] of every card
    chip,           \* the version behind the card's price level
    panel,          \* [of, shows] of the market panel: its item and the version whose price it has
    compareState, range,
    board,          \* what renderCompareBoard has put into the slots' cards
    pinLit,         \* item -> slots whose pin button is marked active
    stored,         \* the copy in local storage
    ownCopy,        \* history: the copy is the one this page has last read or written
    requests,       \* requests on the way, by id
    refresh,        \* round -> item -> version at the time of its request
    outside,        \* how often the market has moved, the storage failed or another tab written it
    clicks, errors  \* bounded, like outside

pageVars == <<market, cache, popover, chip, panel, compareState, range, board,
              pinLit, stored, ownCopy, requests, refresh, outside, clicks, errors>>

Version == 0 .. MaxVersion
Entry == [item : Items, timeframe : Timeframes, unavailable : BOOLEAN]
Place == Kinds \X CompareSlots
NoPlace == <<"none", "none">>
Kept == [item : Items, timeframe : Timeframes]
Copy == [slots : [Place -> Kept \cup {Empty}], ranges : [Kinds -> Ranges]]
Request ==
    [by : {"preview", "pin", "timeframe", "restore"}, item : Items,
     place : Place \cup {NoPlace}, timeframe : Timeframes, since : Version]

\* A reload sends one request for each place.
ASSUME PlacesFit == IsFiniteSet(Place) /\ Cardinality(Place) <= MaxRequests

ASSUME NothingThere ==
    /\ Empty \notin Entry /\ Empty \notin Request /\ Empty \notin Kept /\ Empty \notin Copy
    /\ Failed \notin Version /\ Priceless \subseteq Version \ {0}
    /\ OtherCopies \subseteq Copy
    /\ \A o \in Openings : /\ {o.market, o.rendered} \subseteq [Items -> Version] /\ o.of \in Items
                           /\ \A i \in Signals : o.market[i] # 0
                           /\ o.rendered = o.market \/ MaxOutside > 0

PageTypeOK ==
    /\ market \in [Items -> Version]
    /\ cache \in [Items -> Version \cup {Empty}]
    /\ popover \in [Items -> [hidden : BOOLEAN, timeframe : Timeframes,
                              shows : {Loading, Unavailable} \cup Version]]
    /\ chip \in [Items -> Version] /\ panel \in [of : Items, shows : Version]
    /\ compareState \in [Place -> Entry \cup {Empty}]
    /\ range \in [Kinds -> Ranges]
    /\ board \in [Place -> {Empty, Loading, Unavailable} \cup Version]
    /\ pinLit \in [Items -> SUBSET CompareSlots]
    /\ stored \in Copy \cup {Empty} /\ ownCopy \in BOOLEAN
    /\ requests \in [RequestIds -> Request \cup {Empty}]
    /\ refresh \in [Rounds -> [Items -> Version \cup {Empty}]]
    /\ outside \in 0 .. MaxOutside /\ clicks \in 0 .. MaxClicks /\ errors \in 0 .. MaxErrors

-----------------------------------------------------------------------------
(* What the script computes. *)

EmptyBoard == [p \in Place |-> Empty]

Slot(i, tf) == [item |-> i, timeframe |-> tf, unavailable |-> FALSE]

\* serializeCompareCollection: without the unavailable marks.
Serialized(state, ranges) ==
    [slots |-> [p \in Place |->
        IF state[p] = Empty THEN Empty
        ELSE [item |-> state[p].item, timeframe |-> state[p].timeframe]],
     ranges |-> ranges]

Restored(copy) ==
    [p \in Place |->
        IF copy = Empty \/ copy.slots[p] = Empty THEN Empty
        ELSE Slot(copy.slots[p].item, copy.slots[p].timeframe)]

RestoredRange(copy) ==
    IF copy = Empty THEN [k \in Kinds |-> FullRange] ELSE copy.ranges

\* A compare card shows the cached snapshot whatever its entry is marked as.
Card(entry, cached) ==
    IF entry = Empty THEN Empty
    ELSE IF cached[entry.item] \notin {Empty, 0} THEN cached[entry.item]
    ELSE IF entry.unavailable THEN Unavailable ELSE Loading

Cards(state, cached) == [p \in Place |-> Card(state[p], cached)]

\* The slots whose pin button on item i shall be marked.
Lit(i, state, timeframe) ==
    {s \in CompareSlots :
        /\ state[KindOf(i), s] # Empty
        /\ state[KindOf(i), s].item = i
        /\ state[KindOf(i), s].timeframe = timeframe}

\* fetch...PreviewSnapshot stores what it got; a signal without data raises.
Fails(i, answer) == answer = Failed \/ (i \in Signals /\ answer = 0)
Fetched(i, answer) ==
    IF Fails(i, answer) THEN cache ELSE [cache EXCEPT ![i] = answer]

Known(i) == cache[i] # Empty

-----------------------------------------------------------------------------
(* What it does to the page.  These constrain primed variables. *)

\* Bounded together.
Room == outside + clicks + errors < MaxEvents

\* What happens outside of the script: the market and the storage are independent of each other.
Outside == outside < MaxOutside /\ Room /\ outside' = outside + 1

\* A write that fails, on a full or a blocked storage, is caught and not told to anybody.
PersistCompareState ==
    \/ /\ stored' = Serialized(compareState', range') /\ ownCopy' = TRUE
       /\ UNCHANGED outside
    \/ Outside /\ ownCopy' = FALSE /\ UNCHANGED stored

\* Fault: it looks at the preview as it was before the click.
SyncPinButtonsAsBefore(kinds) ==
    pinLit' = [i \in Items |->
        IF KindOf(i) \in kinds THEN Lit(i, compareState', popover[i].timeframe)
        ELSE pinLit[i]]

SyncPinButtons(kinds) ==
    pinLit' = [i \in Items |->
        IF KindOf(i) \in kinds THEN Lit(i, compareState', popover'[i].timeframe)
        ELSE pinLit[i]]

RenderCompareBoard ==
    /\ board' = Cards(compareState', cache')
    /\ SyncPinButtons(Kinds)

Preview(i, tf, shows) ==
    [popover EXCEPT ![i] = [hidden |-> FALSE, timeframe |-> tf, shows |-> shows]]

HideOthers(i, cards) ==
    [j \in Items |->
        IF KindOf(j) = KindOf(i) /\ j # i THEN [cards[j] EXCEPT !.hidden = TRUE]
        ELSE cards[j]]

\* set...PreviewContent, or set...PreviewMessage when there is nothing to show:
\* what a preview of i shows once its request has been answered.
Shown(i, answer) ==
    IF answer \in {Failed, 0} THEN Unavailable ELSE answer
\* Fault: a message counts as a level.
ChipAsShown(i, shows) == [chip EXCEPT ![i] = shows]

ChipOf(i, shows) ==
    [chip EXCEPT ![i] = IF shows \in {Loading, Unavailable} THEN 0 ELSE shows]

HideAll == [i \in Items |-> [popover[i] EXCEPT !.hidden = TRUE]]

\* A request takes the least free id.
Send(by, i, p, tf) ==
    \E id \in RequestIds :
        /\ requests[id] = Empty
        /\ \A other \in 1 .. (id - 1) : requests[other] # Empty
        /\ requests' = [requests EXCEPT ![id] =
               [by |-> by, item |-> i, place |-> p, timeframe |-> tf, since |-> market[i]]]

\* A request is answered with what the server had at some moment on its way.
Answers(i, since) ==
    (since .. market[i]) \cup (IF errors < MaxErrors /\ Room THEN {Failed} ELSE {})

Count(answer) == errors' = IF answer = Failed THEN errors + 1 ELSE errors

Click == clicks < MaxClicks /\ Room /\ clicks' = clicks + 1

-----------------------------------------------------------------------------
(* Loading the page. *)

Idle == [i \in Items |-> Empty]
StartRound == [i \in Items |-> IF i \in Roots THEN market[i] ELSE Empty]

\* The server renders the panel for the signal in focus, or for the root.
PricedAs(i, v) == IF i \in Signals /\ v \in Priceless THEN 0 ELSE v
PanelOf(i, versions) == [of |-> i, shows |-> PricedAs(i, versions[i])]

FreshCards == [i \in Items |->
    [hidden |-> TRUE, timeframe |-> DefaultTimeframe, shows |-> Loading]]

\* The requests restoreCompareState leads to, one for each restored slot.
RestoreRequests(state) ==
    {[by |-> "restore", item |-> state[p].item, place |-> p,
      timeframe |-> state[p].timeframe, since |-> market[state[p].item]] :
        p \in {q \in Place : state[q] # Empty}}

Enumerated(set) ==
    CHOOSE f \in [RequestIds -> set \cup {Empty}] :
        /\ \A id \in RequestIds : (f[id] # Empty) <=> id <= Cardinality(set)
        /\ \A r \in set : \E id \in RequestIds : f[id] = r

\* The market may have moved while the page was on its way to the browser.
PageInit ==
    /\ \E o \in Openings :
           /\ market = o.market /\ panel = PanelOf(o.of, o.rendered)
           /\ outside = IF o.rendered = o.market THEN 0 ELSE 1
    /\ cache = [i \in Items |-> Empty]
    /\ popover = FreshCards /\ chip = [i \in Items |-> 0]
    /\ compareState = EmptyBoard /\ range = [k \in Kinds |-> FullRange]
    /\ board = Cards(EmptyBoard, cache) /\ pinLit = [i \in Items |-> {}]
    /\ stored = Empty /\ ownCopy = TRUE
    /\ requests = [id \in RequestIds |-> Empty]
    /\ refresh = [n \in Rounds |-> IF n = 1 THEN StartRound ELSE Idle]
    /\ clicks = 0 /\ errors = 0

\* restoreCompareState: a storage that cannot be read leaves the board empty.
RestoreCompareState ==
    \/ /\ compareState' = Restored(stored) /\ range' = RestoredRange(stored)
       /\ ownCopy' = TRUE /\ UNCHANGED outside
    \/ /\ Outside
       /\ compareState' = EmptyBoard /\ range' = [k \in Kinds |-> FullRange]
       /\ ownCopy' = FALSE

\* A reload drops whatever is on the way and starts from the stored copy.
Reload ==
    /\ Click
    /\ \E i \in Items : panel' = PanelOf(i, market)
    /\ cache' = [i \in Items |-> Empty]
    /\ popover' = FreshCards /\ chip' = [i \in Items |-> 0]
    /\ RestoreCompareState /\ RenderCompareBoard
    /\ requests' = Enumerated(RestoreRequests(compareState'))
    /\ refresh' = [n \in Rounds |-> IF n = 1 THEN StartRound ELSE Idle]
    /\ UNCHANGED <<market, stored, errors>>

\* The workspace in another tab stores its board under the same key.  This page is not told.
OtherTabStores ==
    /\ Outside
    /\ stored' \in OtherCopies /\ ownCopy' = FALSE
    /\ UNCHANGED <<market, cache, popover, chip, panel, compareState, range, board, pinLit,
                   requests, refresh, clicks, errors>>

-----------------------------------------------------------------------------
(* Clicks. *)

\* The button of the timeframe that is open closes the popover.
ClosePreview(i, tf) ==
    /\ Click /\ ~popover[i].hidden /\ popover[i].timeframe = tf
    /\ popover' = [popover EXCEPT ![i].hidden = TRUE]
    /\ UNCHANGED <<market, cache, chip, panel, compareState, range, board, pinLit,
                   stored, ownCopy, requests, refresh, outside, errors>>

OpenPreview(i, tf) ==
    /\ Click /\ (popover[i].hidden \/ popover[i].timeframe # tf)
    /\ LET shows == IF Known(i) THEN Shown(i, cache[i]) ELSE Loading IN
           /\ popover' = HideOthers(i, Preview(i, tf, shows))
           /\ chip' = ChipOf(i, shows)
    /\ IF Known(i) THEN UNCHANGED requests ELSE Send("preview", i, NoPlace, tf)
    /\ UNCHANGED <<compareState, range>> /\ SyncPinButtons({KindOf(i)})
    /\ UNCHANGED <<market, cache, panel, board, stored, ownCopy, refresh, outside, errors>>

ClickOutside ==
    /\ Click /\ \E i \in Items : ~popover[i].hidden
    /\ popover' = HideAll
    /\ UNCHANGED <<market, cache, chip, panel, compareState, range, board, pinLit,
                   stored, ownCopy, requests, refresh, outside, errors>>

\* Every change of the compare state is stored and drawn.
Compare ==
    /\ UNCHANGED <<market, cache, chip, panel, refresh, errors>>
    /\ PersistCompareState /\ RenderCompareBoard

\* A click on the board, or on its clear button, is outside of every card.
OnBoard == Click /\ popover' = HideAll

\* The pin button of a popover pins its timeframe, or removes just that pin.
TogglePin(i, s) ==
    LET p == <<KindOf(i), s>>
        tf == popover[i].timeframe
    IN  /\ Click /\ ~popover[i].hidden
        /\ UNCHANGED popover
        /\ \/ /\ s \in Lit(i, compareState, tf)
              /\ compareState' = [compareState EXCEPT ![p] = Empty]
              /\ UNCHANGED requests
           \/ /\ s \notin Lit(i, compareState, tf)
              /\ compareState' = [compareState EXCEPT ![p] =
                     [Slot(i, tf) EXCEPT !.unavailable = (cache[i] = 0)]]
              /\ IF Known(i) THEN UNCHANGED requests ELSE Send("pin", i, p, tf)
        /\ UNCHANGED range /\ Compare

ClearSlot(p) ==
    /\ OnBoard /\ compareState[p] # Empty
    /\ compareState' = [compareState EXCEPT ![p] = Empty]
    /\ UNCHANGED <<range, requests>> /\ Compare

ClearAll ==
    /\ OnBoard /\ compareState # EmptyBoard
    /\ compareState' = EmptyBoard
    /\ UNCHANGED <<range, requests>> /\ Compare

\* Fault: the range is drawn and not stored.
ChooseRangeUnstored(kind, key) ==
    /\ OnBoard /\ range[kind] # key
    /\ range' = [range EXCEPT ![kind] = key]
    /\ UNCHANGED <<market, cache, chip, panel, compareState, stored, ownCopy, requests, refresh,
                   outside, errors>>
    /\ RenderCompareBoard

ChooseRange(kind, key) ==
    /\ OnBoard /\ range[kind] # key
    /\ range' = [range EXCEPT ![kind] = key]
    /\ UNCHANGED <<compareState, requests>> /\ Compare

\* The mark is taken off, even of a root known to have no data.
ChooseTimeframe(p, tf) ==
    /\ OnBoard /\ compareState[p] # Empty
    /\ compareState' = [compareState EXCEPT ![p].timeframe = tf, ![p].unavailable = FALSE]
    /\ IF Known(compareState[p].item) THEN UNCHANGED requests
       ELSE Send("timeframe", compareState[p].item, p, tf)
    /\ UNCHANGED range /\ Compare

-----------------------------------------------------------------------------
(* Answers. *)

\* Fault: the answer for a pin puts the pin it was made for into the slot.
MarkedAsAsked(r, answer) ==
    IF r.by = "pin" THEN [Slot(r.item, r.timeframe) EXCEPT !.unavailable = (answer \in {0, Failed})]
    ELSE compareState[r.place]

\* The entry of a slot once a request made for it has been answered.  A pin looks
\* whether the slot still holds what was pinned; the others take what is there.
Marked(r, answer) ==
    LET entry == compareState[r.place]
        same == entry # Empty /\ entry.item = r.item /\ entry.timeframe = r.timeframe
        failed == Fails(r.item, answer)
    IN  IF entry = Empty THEN Empty
        ELSE CASE r.by = "pin" /\ same ->
                    [entry EXCEPT !.unavailable = failed \/ answer = 0]
               [] r.by = "timeframe" /\ failed -> [entry EXCEPT !.unavailable = TRUE]
               [] r.by = "restore" -> [entry EXCEPT !.unavailable = failed]
               [] OTHER -> entry

AnswerCompare(id) ==
    LET r == requests[id] IN
    /\ r # Empty /\ r.by # "preview"
    /\ \E answer \in Answers(r.item, r.since) :
           /\ Count(answer)
           /\ cache' = Fetched(r.item, answer)
           /\ compareState' = [compareState EXCEPT ![r.place] = Marked(r, answer)]
    /\ requests' = [requests EXCEPT ![id] = Empty]
    /\ UNCHANGED <<market, popover, chip, panel, range, stored, ownCopy, refresh, outside, clicks>>
    /\ RenderCompareBoard

\* A late answer shows the preview again, whether or not it has been closed.
AnswerPreview(id) ==
    LET r == requests[id] IN
    /\ r # Empty /\ r.by = "preview"
    /\ \E answer \in Answers(r.item, r.since) :
           /\ Count(answer)
           /\ cache' = Fetched(r.item, answer)
           /\ popover' = Preview(r.item, r.timeframe, Shown(r.item, answer))
           /\ chip' = ChipOf(r.item, Shown(r.item, answer))
    /\ requests' = [requests EXCEPT ![id] = Empty]
    /\ UNCHANGED compareState /\ SyncPinButtons({KindOf(r.item)})
    /\ UNCHANGED <<market, panel, range, board, stored, ownCopy, refresh, outside, clicks>>

-----------------------------------------------------------------------------
(* The live refresh: all roots, then all signals, then the compare board. *)

Waiting(round, kind) == {i \in ItemsOf(kind) : round[i] # Empty}

\* The timer starts a round whether or not the one before has ended.  The bound on
\* clicks bounds the rounds that overlap another as well.
TimerFires ==
    \E n \in Rounds :
        /\ refresh[n] = Idle /\ \A m \in 1 .. (n - 1) : refresh[m] # Idle
        /\ refresh' = [refresh EXCEPT ![n] = StartRound]
        /\ IF n = 1 THEN UNCHANGED clicks ELSE Click
        /\ UNCHANGED <<market, cache, popover, chip, panel, compareState, range, board,
                       pinLit, stored, ownCopy, requests, outside, errors>>

\* Fault: the signals are not asked for.
AfterRoots(round, i) == [round EXCEPT ![i] = Empty]

\* What is left of a round after the answer for item i: the last root sends the
\* requests for the signals.
After(round, i) ==
    LET rest == [round EXCEPT ![i] = Empty] IN
    IF i \in Roots /\ Waiting(rest, "roots") = {}
    THEN [j \in Items |-> IF j \in Signals THEN market[j] ELSE Empty]
    ELSE rest

\* syncMarketPanel, if the panel is about the item.
PanelShows(i, v) == IF panel.of = i THEN [panel EXCEPT !.shows = v] ELSE panel

\* Fault: the preview is shown whether or not it is open.
RefreshRootOpening(i, v) ==
    /\ UNCHANGED compareState
    /\ popover' = Preview(i, popover[i].timeframe, Shown(i, v))
    /\ chip' = [chip EXCEPT ![i] = v]
    /\ panel' = PanelShows(i, v)

RefreshRootLiveViews(i, v) ==
    /\ compareState' = [p \in Place |->
           IF compareState[p] # Empty /\ compareState[p].item = i
           THEN [compareState[p] EXCEPT !.unavailable = (v = 0)] ELSE compareState[p]]
    /\ popover' = IF popover[i].hidden THEN popover
                  ELSE Preview(i, popover[i].timeframe, Shown(i, v))
    /\ chip' = [chip EXCEPT ![i] = v]
    /\ panel' = PanelShows(i, v)

\* The panel is left alone by a signal without market data.
RefreshSignalLiveViews(i, v) ==
    /\ popover' = IF popover[i].hidden THEN popover
                  ELSE Preview(i, popover[i].timeframe, v)
    /\ chip' = [chip EXCEPT ![i] = v]
    /\ panel' = IF PricedAs(i, v) = 0 THEN panel ELSE PanelShows(i, v)
    /\ UNCHANGED compareState

AnswerRefresh(n, i) ==
    /\ refresh[n][i] # Empty
    /\ \E answer \in Answers(i, refresh[n][i]) :
           /\ Count(answer)
           /\ cache' = Fetched(i, answer)
           /\ IF Fails(i, answer) THEN UNCHANGED <<compareState, popover, chip, panel>>
              ELSE IF i \in Roots THEN RefreshRootLiveViews(i, answer)
              ELSE RefreshSignalLiveViews(i, answer)
    /\ refresh' = [refresh EXCEPT ![n] = After(refresh[n], i)]
    /\ IF refresh'[n] = Idle THEN RenderCompareBoard
       ELSE UNCHANGED board /\ IF popover' = popover THEN UNCHANGED pinLit
                               ELSE SyncPinButtons({KindOf(i)})
    /\ UNCHANGED <<market, range, stored, ownCopy, requests, outside, clicks>>

MarketMoves(i) ==
    /\ Outside
    /\ market[i] < MaxVersion
    /\ market' = [market EXCEPT ![i] = @ + 1]
    /\ UNCHANGED <<cache, popover, chip, panel, compareState, range, board, pinLit,
                   stored, ownCopy, requests, refresh, clicks, errors>>

-----------------------------------------------------------------------------
UserActs ==
    \/ Reload \/ ClickOutside \/ ClearAll
    \/ \E i \in Items, tf \in Timeframes : OpenPreview(i, tf) \/ ClosePreview(i, tf)
    \/ \E i \in Items, s \in CompareSlots : TogglePin(i, s)
    \/ \E p \in Place : ClearSlot(p) \/ \E tf \in Timeframes : ChooseTimeframe(p, tf)
    \/ \E kind \in Kinds, key \in Ranges : ChooseRange(kind, key)

AnswerRequest(id) == AnswerCompare(id) \/ AnswerPreview(id)
AnswerRound(n) == \E i \in Items : AnswerRefresh(n, i)

Answered ==
    \/ \E id \in RequestIds : AnswerRequest(id)
    \/ \E n \in Rounds : AnswerRound(n)

PageNext ==
    \/ UserActs
    \/ Answered
    \/ TimerFires
    \/ OtherTabStores
    \/ \E i \in Items : MarketMoves(i)

\* Every request is answered or fails, and the timer goes on while the page is
\* visible; nobody has to click.
PageFairness ==
    /\ \A id \in RequestIds : WF_pageVars(AnswerRequest(id))
    /\ \A n \in Rounds : WF_pageVars(AnswerRound(n))
    /\ WF_pageVars(TimerFires)

PageSpec == PageInit /\ [][PageNext]_pageVars /\ PageFairness

-----------------------------------------------------------------------------
(* Properties. *)

\* Unless a write of the page's own has failed, its storage could not be read, or another
\* tab has stored its board since, the copy in local storage is the compare state the page
\* shows, so that a reload comes back with every pin and range the user left: no handler
\* changes the one without the other, and the next write that succeeds repairs the copy.
StoredAsLeft == ownCopy =>
    \/ stored = Empty /\ compareState = EmptyBoard /\ range = [k \in Kinds |-> FullRange]
    \/ stored = Serialized(compareState, range)

\* A pin button is marked exactly when pressing it would remove the pin, whatever
\* has changed since: the slot, or the timeframe of the button's own preview.
PinButtonsTell ==
    \A i \in Items : pinLit[i] = Lit(i, compareState, popover[i].timeframe)

\* An answer, however late, pins nothing, removes no pin and moves none: the user
\* may have cleared the slot or put something else into it meanwhile.
AnswersKeepPins ==
    [][Answered => Serialized(compareState', range') = Serialized(compareState, range)]_pageVars

\* A closed preview comes back by a click or by the answer it was waiting for when
\* it was closed; a refresh, or the answer for a pin, does not open it.
RefreshOpensNothing ==
    [][\A i \in Items :
          popover[i].hidden /\ ~popover'[i].hidden =>
              \/ clicks' > clicks
              \/ \E id \in RequestIds : /\ requests[id] # Empty /\ requests'[id] = Empty
                                        /\ requests[id].by = "preview" /\ requests[id].item = i
      ]_pageVars

\* What every surface shows once nothing is outstanding: the newest snapshot in the
\* caches, the level chips, the open previews, the panel and the compare cards.  The
\* panel of a signal that has lost its market data is the exception: it keeps the price
\* it had, for as long as the signal has no other.
Newest(i) == Shown(i, market[i])

ShowsNewest ==
    /\ cache = market /\ chip = market
    /\ \/ panel.shows = market[panel.of]
       \/ panel.of \in Signals /\ market[panel.of] \in Priceless
    /\ \A i \in Items : popover[i].hidden \/ popover[i].shows = Newest(i)
    /\ \A p \in Place :
           board[p] = IF compareState[p] = Empty THEN Empty ELSE Newest(compareState[p].item)
=============================================================================
