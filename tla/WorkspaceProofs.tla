--------------------------- MODULE WorkspaceProofs ---------------------------
(***************************************************************************)
(* Proofs about the workspace page, for any number of roots, signals,      *)
(* compare slots, requests on the way and overlapping refresh rounds: its  *)
(* copy in the local storage, its pin buttons and its previews.  At the    *)
(* end the compare board: its strips, its charts and their gestures.       *)
(*                                                                         *)
(* Answers only change the mark of an entry, so the argument is about      *)
(* boards with the same pins: they are stored alike and light the same     *)
(* buttons.  The invariant adds to the properties that a request which is  *)
(* not for a preview is for a place on the board.                          *)
(***************************************************************************)
EXTENDS WorkspacePage, CompareBoard, FiniteSetTheorems, TLAPS

\* A request that is not for a preview is for a place on the board.
PlacesInv ==
    \A id \in RequestIds :
        requests[id] # Empty /\ requests[id].by # "preview" => requests[id].place \in Place

PageInv == PageTypeOK /\ PlacesInv /\ StoredAsLeft /\ PinButtonsTell

\* The panel: its item and what it shows.
PanelType == [of : Items, shows : Version]

\* Two boards with the same pins, whatever is marked as unavailable.
SamePins(a, b) ==
    \A p \in Place :
        /\ a[p] = Empty <=> b[p] = Empty
        /\ a[p] # Empty => a[p].item = b[p].item /\ a[p].timeframe = b[p].timeframe

\* An item and a slot make a place on the board: KindOf.
LEMMA KindsOfItems ==
    ASSUME NEW i \in Items, NEW s \in CompareSlots
    PROVE  KindOf(i) \in Kinds /\ <<KindOf(i), s>> \in Place
BY DEF KindOf, Kinds, Place

\* Boards with the same pins are stored alike: serializeCompareCollection.
LEMMA SameSerialized ==
    ASSUME NEW a, NEW b, SamePins(a, b), NEW r
    PROVE  Serialized(a, r) = Serialized(b, r)
<1>1. ASSUME NEW p \in Place
      PROVE  (IF a[p] = Empty THEN Empty ELSE [item |-> a[p].item, timeframe |-> a[p].timeframe])
             = (IF b[p] = Empty THEN Empty ELSE [item |-> b[p].item, timeframe |-> b[p].timeframe])
  BY DEF SamePins
<1> QED
  BY <1>1, Zenon DEF Serialized

\* They light the same buttons: Lit.
LEMMA SameLit ==
    ASSUME NEW a, NEW b, SamePins(a, b), NEW i \in Items, NEW tf
    PROVE  Lit(i, a, tf) = Lit(i, b, tf)
<1>1. \A s \in CompareSlots : <<KindOf(i), s>> \in Place
  BY KindsOfItems
<1> QED
  BY <1>1 DEF Lit, SamePins

\* What a card of the board shows: Card.
LEMMA CardTyped ==
    ASSUME NEW entry \in Entry \cup {Empty}, NEW cached \in [Items -> Version \cup {Empty}]
    PROVE  Card(entry, cached) \in {Empty, Loading, Unavailable} \cup Version
<1>1. entry # Empty => cached[entry.item] \in Version \cup {Empty}
  BY DEF Entry
<1> QED
  BY <1>1 DEF Card

\* A drawing of the board makes every button tell: RenderCompareBoard.
LEMMA Rendered ==
    ASSUME RenderCompareBoard, compareState' \in [Place -> Entry \cup {Empty}],
           cache' \in [Items -> Version \cup {Empty}]
    PROVE  /\ board' \in [Place -> {Empty, Loading, Unavailable} \cup Version]
           /\ pinLit' \in [Items -> SUBSET CompareSlots]
           /\ PinButtonsTell'
<1>1. \A p \in Place : Card(compareState'[p], cache') \in {Empty, Loading, Unavailable} \cup Version
  BY CardTyped
<1>2. board' = [p \in Place |-> Card(compareState'[p], cache')]
  BY DEF RenderCompareBoard, Cards
<1>3. \A i \in Items : KindOf(i) \in Kinds
  BY DEF KindOf, Kinds
<1>4. pinLit' = [i \in Items |-> Lit(i, compareState', popover'[i].timeframe)]
  <2>1. pinLit' = [i \in Items |->
            IF KindOf(i) \in Kinds THEN Lit(i, compareState', popover'[i].timeframe) ELSE pinLit[i]]
    BY DEF RenderCompareBoard, SyncPinButtons
  <2> QED
    BY <1>3, <2>1
<1>5. \A i \in Items : Lit(i, compareState', popover'[i].timeframe) \subseteq CompareSlots
  BY DEF Lit
<1>6. PinButtonsTell'
  BY <1>4 DEF PinButtonsTell, Lit
<1> QED
  BY <1>1, <1>2, <1>4, <1>5, <1>6

\* The buttons of some kinds are synchronised, and for the others nothing has changed.
LEMMA Synchronised ==
    ASSUME NEW kinds, SyncPinButtons(kinds), PinButtonsTell, SamePins(compareState', compareState),
           pinLit \in [Items -> SUBSET CompareSlots],
           \A i \in Items : KindOf(i) \notin kinds => popover'[i].timeframe = popover[i].timeframe
    PROVE  pinLit' \in [Items -> SUBSET CompareSlots] /\ PinButtonsTell'
<1>1. pinLit' = [i \in Items |->
          IF KindOf(i) \in kinds THEN Lit(i, compareState', popover'[i].timeframe) ELSE pinLit[i]]
  BY DEF SyncPinButtons
<1>2. ASSUME NEW i \in Items
      PROVE  pinLit'[i] = Lit(i, compareState', popover'[i].timeframe) /\ pinLit'[i] \subseteq CompareSlots
  <2>1. CASE KindOf(i) \in kinds
    <3>1. pinLit'[i] = Lit(i, compareState', popover'[i].timeframe)
      BY <1>1, <2>1
    <3> QED
      BY <3>1 DEF Lit
  <2>2. CASE KindOf(i) \notin kinds
    <3>1. pinLit'[i] = pinLit[i] /\ popover'[i].timeframe = popover[i].timeframe
      BY <1>1, <2>2
    <3>2. pinLit[i] = Lit(i, compareState, popover[i].timeframe)
      BY DEF PinButtonsTell
    <3>3. Lit(i, compareState', popover[i].timeframe) = Lit(i, compareState, popover[i].timeframe)
      BY SameLit
    <3> QED
      BY <3>1, <3>2, <3>3
  <2> QED
    BY <2>1, <2>2
<1>3. PinButtonsTell'
  BY <1>2 DEF PinButtonsTell, Lit
<1> QED
  BY <1>1, <1>2, <1>3

\* Nothing has changed for any.
LEMMA ButtonsStay ==
    ASSUME PinButtonsTell, UNCHANGED pinLit, SamePins(compareState', compareState),
           \A i \in Items : popover'[i].timeframe = popover[i].timeframe
    PROVE  PinButtonsTell'
<1>1. ASSUME NEW i \in Items PROVE pinLit'[i] = Lit(i, compareState', popover'[i].timeframe)
  <2>1. pinLit[i] = Lit(i, compareState, popover[i].timeframe)
    BY DEF PinButtonsTell
  <2>2. Lit(i, compareState', popover[i].timeframe) = Lit(i, compareState, popover[i].timeframe)
    BY SameLit
  <2> QED
    BY <2>1, <2>2
<1> QED
  BY <1>1 DEF PinButtonsTell, Lit

\* What is stored is a copy: serializeCompareCollection.
LEMMA SerializedTyped ==
    ASSUME NEW a \in [Place -> Entry \cup {Empty}], NEW r \in [Kinds -> Ranges]
    PROVE  Serialized(a, r) \in Copy
<1> DEFINE slots == [p \in Place |->
        IF a[p] = Empty THEN Empty ELSE [item |-> a[p].item, timeframe |-> a[p].timeframe]]
<1>1. ASSUME NEW p \in Place
      PROVE  (IF a[p] = Empty THEN Empty ELSE [item |-> a[p].item, timeframe |-> a[p].timeframe])
             \in Kept \cup {Empty}
  BY DEF Entry, Kept
<1>2. slots \in [Place -> Kept \cup {Empty}]
  BY <1>1
<1>3. Serialized(a, r) = [slots |-> slots, ranges |-> r]
  BY DEF Serialized
<1> HIDE DEF slots
<1> QED
  BY <1>2, <1>3 DEF Copy

\* What comes back from a copy is what was stored.
LEMMA RestoredTyped ==
    ASSUME NEW copy \in Copy \cup {Empty}
    PROVE  /\ Restored(copy) \in [Place -> Entry \cup {Empty}]
           /\ RestoredRange(copy) \in [Kinds -> Ranges]
<1>1. ASSUME NEW p \in Place
      PROVE  (IF copy = Empty \/ copy.slots[p] = Empty THEN Empty
              ELSE Slot(copy.slots[p].item, copy.slots[p].timeframe)) \in Entry \cup {Empty}
  <2>1. CASE copy = Empty \/ copy.slots[p] = Empty
    BY <2>1
  <2>2. CASE ~(copy = Empty \/ copy.slots[p] = Empty)
    <3>1. copy.slots[p] \in Kept
      BY <2>2 DEF Copy
    <3> QED
      BY <2>2, <3>1 DEF Kept, Slot, Entry
  <2> QED
    BY <2>1, <2>2
<1>2. Restored(copy) \in [Place -> Entry \cup {Empty}]
  BY <1>1 DEF Restored
<1>3. RestoredRange(copy) \in [Kinds -> Ranges]
  BY PageAssumption DEF RestoredRange, Copy
<1> QED
  BY <1>2, <1>3

\* It has the pins and the ranges of the copy, whoever stored it: restoreCompareState.
LEMMA RestoredKept ==
    ASSUME NEW copy \in Copy
    PROVE  Serialized(Restored(copy), RestoredRange(copy)) = copy
<1>1. copy # Empty /\ copy = [slots |-> copy.slots, ranges |-> copy.ranges]
  BY NothingThere DEF Copy
<1>2. copy.slots \in [Place -> Kept \cup {Empty}]
  BY DEF Copy
<1> PICK slots \in [Place -> Kept \cup {Empty}] : slots = copy.slots
  BY <1>2
<1>3. ASSUME NEW p \in Place
      PROVE  (IF Restored(copy)[p] = Empty THEN Empty
              ELSE [item |-> Restored(copy)[p].item, timeframe |-> Restored(copy)[p].timeframe]) = slots[p]
  <2>1. Restored(copy)[p] = IF slots[p] = Empty THEN Empty ELSE Slot(slots[p].item, slots[p].timeframe)
    BY <1>1 DEF Restored
  <2>2. CASE slots[p] = Empty
    BY <2>1, <2>2
  <2>3. CASE slots[p] # Empty
    <3>1. slots[p] \in Kept
      BY <2>3
    <3>2. Slot(slots[p].item, slots[p].timeframe) \in Entry
      BY <3>1 DEF Kept, Slot, Entry
    <3>3. Restored(copy)[p] # Empty /\ Restored(copy)[p] = Slot(slots[p].item, slots[p].timeframe)
      BY <2>1, <2>3, <3>2, NothingThere
    <3>4. Restored(copy)[p].item = slots[p].item /\ Restored(copy)[p].timeframe = slots[p].timeframe
      BY <3>3 DEF Slot
    <3>5. slots[p] = [item |-> slots[p].item, timeframe |-> slots[p].timeframe]
      BY <3>1 DEF Kept
    <3> QED
      BY <3>3, <3>4, <3>5
  <2> QED
    BY <2>2, <2>3
<1>4. RestoredRange(copy) = copy.ranges
  BY <1>1 DEF RestoredRange
<1>5. [p \in Place |->
          IF Restored(copy)[p] = Empty THEN Empty
          ELSE [item |-> Restored(copy)[p].item, timeframe |-> Restored(copy)[p].timeframe]] = slots
  BY <1>3
<1> QED
  BY <1>1, <1>4, <1>5 DEF Serialized

\* The requests of a reload fit in the ids.
LEMMA EnumeratedTyped ==
    ASSUME NEW set \in SUBSET Request, IsFiniteSet(set), Cardinality(set) <= MaxRequests
    PROVE  /\ Enumerated(set) \in [RequestIds -> set \cup {Empty}]
<1>1. Cardinality(set) \in Nat /\ MaxRequests \in Nat
  BY FS_CardinalityType, PageAssumption
<1> PICK n \in Nat : n = Cardinality(set)
  BY <1>1
<1>2. n <= MaxRequests
  OBVIOUS
<1>3. PICK g \in Bijection(1 .. n, set) : TRUE
  BY FS_CardinalityType DEF ExistsBijection
<1> DEFINE f == [id \in RequestIds |-> IF id <= n THEN g[id] ELSE Empty]
<1>4. ASSUME NEW id \in RequestIds
      PROVE  /\ f[id] \in set \cup {Empty}
             /\ (f[id] # Empty) <=> id <= n
  <2>1. CASE id <= n
    <3>1. id \in 1 .. n
      BY <1>1, <2>1 DEF RequestIds
    <3>2. g[id] \in set
      BY <1>3, <3>1 DEF Bijection, Injection, Surjection
    <3>3. g[id] # Empty
      BY <3>2, NothingThere
    <3> QED
      BY <2>1, <3>2, <3>3
  <2>2. CASE ~(id <= n)
    BY <2>2
  <2> QED
    BY <2>1, <2>2
<1>5. ASSUME NEW r \in set PROVE \E id \in RequestIds : f[id] = r
  <2>1. PICK id \in 1 .. n : g[id] = r
    BY <1>3 DEF Bijection, Surjection
  <2>2. id \in RequestIds /\ id <= n
    BY <1>1, <1>2 DEF RequestIds
  <2> QED
    BY <2>1, <2>2
<1>6. f \in [RequestIds -> set \cup {Empty}]
  BY <1>4
<1> HIDE DEF f
<1>7. \E h \in [RequestIds -> set \cup {Empty}] :
          /\ \A id \in RequestIds : (h[id] # Empty) <=> id <= Cardinality(set)
          /\ \A r \in set : \E id \in RequestIds : h[id] = r
  BY <1>4, <1>5, <1>6
<1> QED
  BY <1>7, Zenon DEF Enumerated

\* A reload sends requests for places on the board only: RestoreRequests.
LEMMA RestoredRequests ==
    ASSUME NEW a \in [Place -> Entry \cup {Empty}], market \in [Items -> Version]
    PROVE  /\ Enumerated(RestoreRequests(a)) \in [RequestIds -> Request \cup {Empty}]
           /\ \A id \in RequestIds : Enumerated(RestoreRequests(a))[id] # Empty =>
                  Enumerated(RestoreRequests(a))[id].place \in Place
<1> DEFINE asked == {q \in Place : a[q] # Empty}
           request(p) == [by |-> "restore", item |-> a[p].item, place |-> p,
                          timeframe |-> a[p].timeframe, since |-> market[a[p].item]]
           set == {request(p) : p \in asked}
<1>1. RestoreRequests(a) = set
  BY DEF RestoreRequests
<1>2. ASSUME NEW p \in asked PROVE request(p) \in Request /\ request(p).place \in Place
  <2>1. a[p] \in Entry
    OBVIOUS
  <2>2. a[p].item \in Items /\ a[p].timeframe \in Timeframes
    BY <2>1 DEF Entry
  <2> QED
    BY <2>2 DEF Request
<1>3. IsFiniteSet(asked) /\ Cardinality(asked) <= Cardinality(Place)
  BY PlacesFit, FS_Subset
<1>4. IsFiniteSet(set) /\ Cardinality(set) <= Cardinality(asked)
  <2> DEFINE f == [p \in asked |-> request(p)]
  <2>1. f \in Surjection(asked, set)
    BY DEF Surjection
  <2> HIDE DEF f, set, asked
  <2> QED
    BY <1>3, <2>1, FS_Surjection
<1>5. Cardinality(set) <= MaxRequests
  <2>1. Cardinality(set) \in Nat /\ Cardinality(asked) \in Nat /\ Cardinality(Place) \in Nat /\ MaxRequests \in Nat
    BY <1>3, <1>4, PlacesFit, FS_CardinalityType, PageAssumption
  <2> HIDE DEF set, asked
  <2> QED
    BY <1>3, <1>4, <2>1, PlacesFit
<1>6. \A r \in set : r \in Request /\ r.place \in Place
  BY <1>2
<1> HIDE DEF set
<1>7. Enumerated(set) \in [RequestIds -> set \cup {Empty}]
  BY <1>4, <1>5, <1>6, EnumeratedTyped
<1> QED
  BY <1>1, <1>6, <1>7

\* A board has its own pins.
LEMMA SamePinsRefl == \A a : SamePins(a, a)
BY DEF SamePins

\* A step that keeps the pins keeps the copy current.
LEMMA StoredStays ==
    ASSUME StoredAsLeft, UNCHANGED <<stored, ownCopy, range>>, SamePins(compareState', compareState),
           compareState' \in [Place -> Entry \cup {Empty}]
    PROVE  StoredAsLeft'
<1>1. CASE stored = Empty /\ compareState = EmptyBoard /\ range = [k \in Kinds |-> FullRange]
  <2>1. compareState' = EmptyBoard
    BY <1>1 DEF SamePins, EmptyBoard
  <2> QED
    BY <1>1, <2>1 DEF StoredAsLeft, EmptyBoard
<1>2. CASE stored = Serialized(compareState, range)
  <2>1. Serialized(compareState', range) = Serialized(compareState, range)
    BY SameSerialized
  <2>2. stored' = Serialized(compareState', range')
    BY <1>2, <2>1
  <2> QED
    BY <2>2 DEF StoredAsLeft, Serialized
<1>3. CASE ~ownCopy
  BY <1>3 DEF StoredAsLeft
<1> QED
  BY <1>1, <1>2, <1>3 DEF StoredAsLeft

\* The cards and the round of a page that has just been loaded.
LEMMA FreshTyped ==
    ASSUME market \in [Items -> Version]
    PROVE  /\ FreshCards \in [Items -> [hidden : BOOLEAN, timeframe : Timeframes,
                                        shows : {Loading, Unavailable} \cup Version]]
           /\ StartRound \in [Items -> Version \cup {Empty}]
           /\ Idle \in [Items -> Version \cup {Empty}]
<1>1. DefaultTimeframe \in Timeframes
  BY PageAssumption
<1> QED
  BY <1>1 DEF FreshCards, StartRound, Idle

\* What the server renders the panel with: PanelOf.
LEMMA PanelTyped ==
    ASSUME NEW versions \in [Items -> Version], NEW i \in Items
    PROVE  PanelOf(i, versions) \in PanelType
<1>1. 0 \in Version
  BY PageAssumption DEF Version
<1> QED
  BY <1>1 DEF PanelOf, PricedAs, PanelType

\* The page as it is first loaded satisfies the invariant: PageInit.
LEMMA PageInitially == PageInit => PageInv
<1> SUFFICES ASSUME PageInit PROVE PageInv
  OBVIOUS
<1>1. /\ MaxVersion \in Nat /\ MaxClicks \in Nat /\ MaxErrors \in Nat /\ MaxOutside \in Nat
      /\ 0 \in Version
  BY PageAssumption DEF Version
<1>2. /\ cache = [i \in Items |-> Empty] /\ popover = FreshCards /\ chip = [i \in Items |-> 0]
      /\ compareState = EmptyBoard /\ range = [k \in Kinds |-> FullRange]
      /\ board = Cards(EmptyBoard, cache) /\ pinLit = [i \in Items |-> {}]
      /\ stored = Empty /\ requests = [id \in RequestIds |-> Empty]
      /\ refresh = [n \in Rounds |-> IF n = 1 THEN StartRound ELSE Idle]
      /\ clicks = 0 /\ errors = 0 /\ ownCopy = TRUE
  BY DEF PageInit
<1>3. market \in [Items -> Version] /\ panel \in PanelType /\ outside \in 0 .. MaxOutside
  <2>1. PICK o \in Openings : /\ market = o.market /\ panel = PanelOf(o.of, o.rendered)
                              /\ outside = IF o.rendered = o.market THEN 0 ELSE 1
    BY DEF PageInit
  <2>2. /\ market \in [Items -> Version] /\ o.rendered \in [Items -> Version] /\ o.of \in Items
        /\ o.rendered = o.market \/ MaxOutside > 0
    BY <2>1, NothingThere
  <2>3. outside \in 0 .. MaxOutside
    BY <1>1, <2>1, <2>2
  <2> QED
    BY <2>1, <2>2, <2>3, PanelTyped
<1>4. /\ popover \in [Items -> [hidden : BOOLEAN, timeframe : Timeframes,
                                shows : {Loading, Unavailable} \cup Version]]
      /\ refresh \in [Rounds -> [Items -> Version \cup {Empty}]]
  BY <1>2, <1>3, FreshTyped
<1>5. /\ cache \in [Items -> Version \cup {Empty}] /\ chip \in [Items -> Version]
      /\ pinLit \in [Items -> SUBSET CompareSlots] /\ requests \in [RequestIds -> Request \cup {Empty}]
      /\ clicks \in 0 .. MaxClicks /\ errors \in 0 .. MaxErrors /\ outside \in 0 .. MaxOutside
  BY <1>1, <1>2, <1>3
<1>6. /\ compareState \in [Place -> Entry \cup {Empty}] /\ range \in [Kinds -> Ranges]
  BY <1>2, PageAssumption DEF EmptyBoard
<1>7. board \in [Place -> {Empty, Loading, Unavailable} \cup Version]
  BY <1>2 DEF Cards, Card, EmptyBoard
<1>8. PageTypeOK
  BY <1>2, <1>3, <1>4, <1>5, <1>6, <1>7 DEF PageTypeOK, PanelType
<1>9. PlacesInv /\ StoredAsLeft
  BY <1>2 DEF PlacesInv, StoredAsLeft
<1>10. PinButtonsTell
  <2>1. \A i \in Items, s \in CompareSlots : compareState[KindOf(i), s] = Empty
    BY <1>2, KindsOfItems DEF EmptyBoard
  <2> QED
    BY <1>2, <2>1 DEF PinButtonsTell, Lit
<1> QED
  BY <1>8, <1>9, <1>10 DEF PageInv

\* A reload keeps it: what was stored is what is shown.
LEMMA ReloadKept == ASSUME PageInv, Reload PROVE PageInv'
<1>1. /\ market \in [Items -> Version] /\ MaxClicks \in Nat /\ clicks \in 0 .. MaxClicks
      /\ compareState \in [Place -> Entry \cup {Empty}] /\ range \in [Kinds -> Ranges]
      /\ stored \in Copy \cup {Empty} /\ errors \in 0 .. MaxErrors
      /\ outside \in 0 .. MaxOutside /\ MaxOutside \in Nat
  BY PageAssumption DEF PageInv, PageTypeOK
<1>2. /\ clicks < MaxClicks /\ clicks' = clicks + 1 /\ \E i \in Items : panel' = PanelOf(i, market)
      /\ cache' = [i \in Items |-> Empty] /\ popover' = FreshCards /\ chip' = [i \in Items |-> 0]
      /\ RestoreCompareState /\ RenderCompareBoard
      /\ requests' = Enumerated(RestoreRequests(compareState'))
      /\ refresh' = [n \in Rounds |-> IF n = 1 THEN StartRound ELSE Idle]
      /\ UNCHANGED <<market, stored, errors>>
  BY DEF Reload, Click
<1>3. /\ compareState' \in [Place -> Entry \cup {Empty}] /\ range' \in [Kinds -> Ranges]
      /\ outside' \in 0 .. MaxOutside /\ ownCopy' \in BOOLEAN
  <2>1. CASE compareState' = Restored(stored) /\ range' = RestoredRange(stored) /\ ownCopy' = TRUE /\ UNCHANGED outside
    BY <1>1, <2>1, RestoredTyped
  <2>2. CASE Outside /\ compareState' = EmptyBoard /\ range' = [k \in Kinds |-> FullRange] /\ ownCopy' = FALSE
    <3>1. outside' \in 0 .. MaxOutside
      BY <1>1, <2>2 DEF Outside
    <3>2. compareState' \in [Place -> Entry \cup {Empty}] /\ range' \in [Kinds -> Ranges]
      BY <2>2, PageAssumption DEF EmptyBoard
    <3> QED
      BY <2>2, <3>1, <3>2
  <2> QED
    BY <1>2, <2>1, <2>2 DEF RestoreCompareState
<1>4. /\ cache' \in [Items -> Version \cup {Empty}] /\ chip' \in [Items -> Version]
      /\ clicks' \in 0 .. MaxClicks /\ panel' \in PanelType
  <2>1. 0 \in Version
    BY PageAssumption DEF Version
  <2>2. panel' \in PanelType
    BY <1>1, <1>2, PanelTyped
  <2> QED
    BY <1>1, <1>2, <2>1, <2>2
<1>5. /\ board' \in [Place -> {Empty, Loading, Unavailable} \cup Version]
      /\ pinLit' \in [Items -> SUBSET CompareSlots] /\ PinButtonsTell'
  BY <1>2, <1>3, <1>4, Rendered
<1>6. /\ requests' \in [RequestIds -> Request \cup {Empty}] /\ PlacesInv'
  BY <1>1, <1>2, <1>3, RestoredRequests DEF PlacesInv
<1>7. /\ popover' \in [Items -> [hidden : BOOLEAN, timeframe : Timeframes,
                                 shows : {Loading, Unavailable} \cup Version]]
      /\ refresh' \in [Rounds -> [Items -> Version \cup {Empty}]]
  BY <1>1, <1>2, FreshTyped
<1>8. PageTypeOK'
  BY <1>1, <1>2, <1>3, <1>4, <1>5, <1>6, <1>7 DEF PageTypeOK, PanelType
<1>9. StoredAsLeft'
  <2>1. CASE ownCopy' = FALSE
    BY <2>1 DEF StoredAsLeft
  <2>2. CASE compareState' = Restored(stored) /\ range' = RestoredRange(stored)
    <3>1. Serialized(compareState', range') = stored \/ stored = Empty
      BY <1>1, <2>2, RestoredKept
    <3>2. CASE stored = Empty
      BY <1>2, <2>2, <3>2 DEF StoredAsLeft, Restored, RestoredRange, EmptyBoard
    <3>3. CASE Serialized(compareState', range') = stored
      <4>1. stored' = Serialized(compareState', range')
        BY <1>2, <3>3
      <4> QED
        BY <4>1 DEF StoredAsLeft, Serialized
    <3> QED
      BY <3>1, <3>2, <3>3
  <2> QED
    BY <1>2, <2>1, <2>2 DEF RestoreCompareState
<1> QED
  BY <1>5, <1>6, <1>8, <1>9 DEF PageInv

\* A request that is sent: Send.
LEMMA RequestSent ==
    ASSUME NEW by \in {"preview", "pin", "timeframe", "restore"}, NEW i \in Items,
           NEW p \in Place \cup {NoPlace}, by # "preview" => p \in Place, NEW tf \in Timeframes,
           Send(by, i, p, tf), PlacesInv, requests \in [RequestIds -> Request \cup {Empty}],
           market \in [Items -> Version]
    PROVE  requests' \in [RequestIds -> Request \cup {Empty}] /\ PlacesInv'
<1> PICK r : r = [by |-> by, item |-> i, place |-> p, timeframe |-> tf, since |-> market[i]]
  OBVIOUS
<1>1. r \in Request /\ r.by = by /\ r.place = p
  BY DEF Request
<1>2. PICK id \in RequestIds : requests' = [requests EXCEPT ![id] = r]
  BY DEF Send
<1> QED
  BY <1>1, <1>2 DEF PlacesInv

\* A request that is answered.
LEMMA RequestEnded ==
    ASSUME NEW id \in RequestIds, requests' = [requests EXCEPT ![id] = Empty],
           PlacesInv, requests \in [RequestIds -> Request \cup {Empty}]
    PROVE  requests' \in [RequestIds -> Request \cup {Empty}] /\ PlacesInv'
BY DEF PlacesInv

CardType == [hidden : BOOLEAN, timeframe : Timeframes, shows : {Loading, Unavailable} \cup Version]

\* A preview that is shown changes its own card: Preview.
LEMMA PreviewTyped ==
    ASSUME popover \in [Items -> CardType], NEW i \in Items, NEW tf \in Timeframes,
           NEW shows \in {Loading, Unavailable} \cup Version
    PROVE  /\ Preview(i, tf, shows) \in [Items -> CardType]
           /\ Preview(i, tf, shows)[i].timeframe = tf
           /\ \A j \in Items \ {i} : Preview(i, tf, shows)[j] = popover[j]
<1> PICK c : c = [hidden |-> FALSE, timeframe |-> tf, shows |-> shows]
  OBVIOUS
<1>1. c \in CardType /\ c.timeframe = tf
  BY DEF CardType
<1>2. Preview(i, tf, shows) = [popover EXCEPT ![i] = c]
  BY DEF Preview
<1> QED
  BY <1>1, <1>2

\* A card that is hidden keeps its timeframe.
LEMMA Hidden ==
    ASSUME NEW c \in CardType
    PROVE  /\ [c EXCEPT !.hidden = TRUE] \in CardType
           /\ [c EXCEPT !.hidden = TRUE].timeframe = c.timeframe
           /\ [c EXCEPT !.hidden = TRUE].hidden = TRUE
BY DEF CardType

\* So do all of them: HideAll.
LEMMA AllHidden ==
    ASSUME popover \in [Items -> CardType]
    PROVE  /\ HideAll \in [Items -> CardType]
           /\ \A i \in Items : HideAll[i].timeframe = popover[i].timeframe
<1>1. \A i \in Items : popover[i] \in CardType
  OBVIOUS
<1> QED
  BY <1>1, Hidden, Zenon DEF HideAll

\* So do the others of a kind, and those of the other kind do not change: HideOthers.
LEMMA OthersHidden ==
    ASSUME NEW cards \in [Items -> CardType], NEW i \in Items
    PROVE  /\ HideOthers(i, cards) \in [Items -> CardType]
           /\ \A j \in Items : KindOf(j) # KindOf(i) => HideOthers(i, cards)[j] = cards[j]
           /\ \A j \in Items : HideOthers(i, cards)[j].timeframe = cards[j].timeframe
<1>1. ASSUME NEW j \in Items
      PROVE  /\ HideOthers(i, cards)[j] \in CardType
             /\ HideOthers(i, cards)[j].timeframe = cards[j].timeframe
             /\ KindOf(j) # KindOf(i) => HideOthers(i, cards)[j] = cards[j]
  <2>1. CASE KindOf(j) = KindOf(i) /\ j # i
    <3>1. HideOthers(i, cards)[j] = [cards[j] EXCEPT !.hidden = TRUE]
      BY <2>1, Zenon DEF HideOthers
    <3> QED
      BY <2>1, <3>1, Hidden
  <2>2. CASE ~(KindOf(j) = KindOf(i) /\ j # i)
    <3>1. HideOthers(i, cards)[j] = cards[j]
      BY <2>2, Zenon DEF HideOthers
    <3> QED
      BY <3>1
  <2> QED
    BY <2>1, <2>2
<1>2. HideOthers(i, cards) \in [Items -> CardType]
  <2>1. HideOthers(i, cards) = [j \in Items |-> HideOthers(i, cards)[j]]
    BY Zenon DEF HideOthers
  <2> QED
    BY <1>1, <2>1
<1> QED
  BY <1>1, <1>2

\* What the invariant says of every variable.
LEMMA PageTyped ==
    ASSUME PageInv
    PROVE  /\ market \in [Items -> Version] /\ cache \in [Items -> Version \cup {Empty}]
           /\ popover \in [Items -> CardType] /\ chip \in [Items -> Version] /\ panel \in PanelType
           /\ compareState \in [Place -> Entry \cup {Empty}] /\ range \in [Kinds -> Ranges]
           /\ board \in [Place -> {Empty, Loading, Unavailable} \cup Version]
           /\ pinLit \in [Items -> SUBSET CompareSlots] /\ stored \in Copy \cup {Empty}
           /\ requests \in [RequestIds -> Request \cup {Empty}]
           /\ refresh \in [Rounds -> [Items -> Version \cup {Empty}]]
           /\ clicks \in 0 .. MaxClicks /\ errors \in 0 .. MaxErrors
           /\ outside \in 0 .. MaxOutside /\ ownCopy \in BOOLEAN
           /\ MaxClicks \in Nat /\ MaxErrors \in Nat /\ MaxOutside \in Nat
           /\ PlacesInv /\ StoredAsLeft /\ PinButtonsTell
BY PageAssumption DEF PageInv, PageTypeOK, CardType, PanelType

\* The same of the state after a step.
LEMMA PageTypedNext ==
    ASSUME /\ market' \in [Items -> Version] /\ cache' \in [Items -> Version \cup {Empty}]
           /\ popover' \in [Items -> CardType] /\ chip' \in [Items -> Version] /\ panel' \in PanelType
           /\ compareState' \in [Place -> Entry \cup {Empty}] /\ range' \in [Kinds -> Ranges]
           /\ board' \in [Place -> {Empty, Loading, Unavailable} \cup Version]
           /\ pinLit' \in [Items -> SUBSET CompareSlots] /\ stored' \in Copy \cup {Empty}
           /\ requests' \in [RequestIds -> Request \cup {Empty}]
           /\ refresh' \in [Rounds -> [Items -> Version \cup {Empty}]]
           /\ clicks' \in 0 .. MaxClicks /\ errors' \in 0 .. MaxErrors
           /\ outside' \in 0 .. MaxOutside /\ ownCopy' \in BOOLEAN
           /\ PlacesInv' /\ StoredAsLeft' /\ PinButtonsTell'
    PROVE  PageInv'
BY DEF PageInv, PageTypeOK, CardType, PanelType

\* A click is counted: Click.
LEMMA Clicked ==
    ASSUME Click, clicks \in 0 .. MaxClicks, MaxClicks \in Nat
    PROVE  clicks' \in 0 .. MaxClicks /\ clicks' > clicks
BY DEF Click

\* So is what happens outside: Outside.
LEMMA OutsideCounted ==
    ASSUME Outside, outside \in 0 .. MaxOutside, MaxOutside \in Nat
    PROVE  outside' \in 0 .. MaxOutside
BY DEF Outside

\* Every click keeps the invariant: ClosePreview.
LEMMA ClosePreviewKept ==
    ASSUME PageInv, NEW i \in Items, NEW tf \in Timeframes, ClosePreview(i, tf) PROVE PageInv'
<1>1. Click /\ popover' = [popover EXCEPT ![i].hidden = TRUE]
      /\ UNCHANGED <<market, cache, chip, panel, compareState, range, board, pinLit,
                   stored, ownCopy, requests, refresh, outside, errors>>
  BY DEF ClosePreview
<1>2. popover \in [Items -> CardType] /\ clicks' \in 0 .. MaxClicks
  BY <1>1, PageTyped, Clicked
<1> PICK c : c = [popover[i] EXCEPT !.hidden = TRUE]
  OBVIOUS
<1>3. c \in CardType /\ c.timeframe = popover[i].timeframe
  <2>1. popover[i] \in CardType
    BY <1>2
  <2> QED
    BY <2>1, Hidden
<1>4. popover' = [popover EXCEPT ![i] = c]
  BY <1>1
<1>5. popover' \in [Items -> CardType] /\ \A j \in Items : popover'[j].timeframe = popover[j].timeframe
  BY <1>2, <1>3, <1>4
<1>6. PinButtonsTell'
  BY <1>1, <1>5, PageTyped, ButtonsStay, SamePinsRefl
<1>7. StoredAsLeft' /\ PlacesInv'
  BY <1>1, PageTyped, StoredStays, SamePinsRefl DEF PlacesInv
<1> QED
  BY <1>1, <1>2, <1>5, <1>6, <1>7, PageTyped, PageTypedNext

\* ClickOutside.
LEMMA ClickOutsideKept == ASSUME PageInv, ClickOutside PROVE PageInv'
<1>1. Click /\ popover' = HideAll
      /\ UNCHANGED <<market, cache, chip, panel, compareState, range, board, pinLit,
                   stored, ownCopy, requests, refresh, outside, errors>>
  BY DEF ClickOutside
<1>2. popover \in [Items -> CardType] /\ clicks' \in 0 .. MaxClicks
  BY <1>1, PageTyped, Clicked
<1>3. popover' \in [Items -> CardType] /\ \A j \in Items : popover'[j].timeframe = popover[j].timeframe
  BY <1>1, <1>2, AllHidden
<1>4. PinButtonsTell'
  BY <1>1, <1>3, PageTyped, ButtonsStay, SamePinsRefl
<1>5. StoredAsLeft' /\ PlacesInv'
  BY <1>1, PageTyped, StoredStays, SamePinsRefl DEF PlacesInv
<1> QED
  BY <1>1, <1>2, <1>3, <1>4, <1>5, PageTyped, PageTypedNext

\* What a preview shows of an answer: Shown.
LEMMA ShownTyped ==
    ASSUME NEW i, NEW answer \in Version \cup {Failed}
    PROVE  Shown(i, answer) \in {Loading, Unavailable} \cup Version
BY DEF Shown

\* What a level chip shows: ChipOf.
LEMMA ChipTyped ==
    ASSUME chip \in [Items -> Version], NEW i \in Items, NEW shows \in {Loading, Unavailable} \cup Version
    PROVE  ChipOf(i, shows) \in [Items -> Version]
<1>1. 0 \in Version
  BY PageAssumption DEF Version
<1> QED
  BY <1>1 DEF ChipOf

\* OpenPreview: the buttons of its kind are synchronised, those of the other kind need not be.
LEMMA OpenPreviewKept ==
    ASSUME PageInv, NEW i \in Items, NEW tf \in Timeframes, OpenPreview(i, tf) PROVE PageInv'
<1> PICK shows : shows = (IF Known(i) THEN Shown(i, cache[i]) ELSE Loading)
  OBVIOUS
<1>1. Click /\ popover' = HideOthers(i, Preview(i, tf, shows)) /\ chip' = ChipOf(i, shows)
      /\ (UNCHANGED requests \/ Send("preview", i, NoPlace, tf))
      /\ UNCHANGED <<compareState, range>> /\ SyncPinButtons({KindOf(i)})
      /\ UNCHANGED <<market, cache, panel, board, stored, ownCopy, refresh, outside, errors>>
  BY DEF OpenPreview
<1>2. shows \in {Loading, Unavailable} \cup Version
  <2>1. Known(i) => cache[i] \in Version
    BY PageTyped DEF Known
  <2> QED
    BY <2>1, ShownTyped
<1>3. clicks' \in 0 .. MaxClicks /\ chip' \in [Items -> Version]
  BY <1>1, <1>2, PageTyped, Clicked, ChipTyped
<1>4. /\ Preview(i, tf, shows) \in [Items -> CardType]
      /\ \A j \in Items \ {i} : Preview(i, tf, shows)[j] = popover[j]
  BY <1>2, PageTyped, PreviewTyped
<1>5. /\ popover' \in [Items -> CardType]
      /\ \A j \in Items : KindOf(j) # KindOf(i) => popover'[j] = popover[j]
  BY <1>1, <1>4, OthersHidden
<1>6. pinLit' \in [Items -> SUBSET CompareSlots] /\ PinButtonsTell'
  <2>1. SamePins(compareState', compareState)
    BY <1>1, SamePinsRefl
  <2>2. \A j \in Items : KindOf(j) \notin {KindOf(i)} => popover'[j].timeframe = popover[j].timeframe
    BY <1>5
  <2> QED
    BY <1>1, <2>1, <2>2, PageTyped, Synchronised
<1>7. requests' \in [RequestIds -> Request \cup {Empty}] /\ PlacesInv'
  BY <1>1, PageTyped, RequestSent DEF PlacesInv
<1>8. StoredAsLeft'
  BY <1>1, PageTyped, StoredStays, SamePinsRefl
<1> QED
  BY <1>1, <1>3, <1>5, <1>6, <1>7, <1>8, PageTyped, PageTypedNext

\* A change of the compare state, whatever it is.
LEMMA CompareKept ==
    ASSUME PageInv, Compare, Click,
           popover' \in [Items -> CardType],
           compareState' \in [Place -> Entry \cup {Empty}], range' \in [Kinds -> Ranges],
           requests' \in [RequestIds -> Request \cup {Empty}], PlacesInv'
    PROVE  PageInv'
<1>1. UNCHANGED <<market, cache, chip, panel, refresh, errors>> /\ PersistCompareState /\ RenderCompareBoard
  BY DEF Compare
<1>2. /\ stored' \in Copy \cup {Empty} /\ StoredAsLeft'
      /\ outside' \in 0 .. MaxOutside /\ ownCopy' \in BOOLEAN
  <2>1. CASE stored' = Serialized(compareState', range') /\ ownCopy' = TRUE /\ UNCHANGED outside
    <3>1. StoredAsLeft'
      BY <2>1 DEF StoredAsLeft, Serialized
    <3> QED
      BY <2>1, <3>1, PageTyped, SerializedTyped
  <2>2. CASE Outside /\ ownCopy' = FALSE /\ UNCHANGED stored
    <3>1. StoredAsLeft'
      BY <2>2 DEF StoredAsLeft
    <3> QED
      BY <2>2, <3>1, PageTyped, OutsideCounted
  <2> QED
    BY <1>1, <2>1, <2>2 DEF PersistCompareState
<1>4. cache' \in [Items -> Version \cup {Empty}] /\ clicks' \in 0 .. MaxClicks
  BY <1>1, PageTyped, Clicked
<1>5. /\ board' \in [Place -> {Empty, Loading, Unavailable} \cup Version]
      /\ pinLit' \in [Items -> SUBSET CompareSlots] /\ PinButtonsTell'
  BY <1>1, <1>4, Rendered
<1> QED
  BY <1>1, <1>2, <1>4, <1>5, PageTyped, PageTypedNext

\* TogglePin.
LEMMA TogglePinKept ==
    ASSUME PageInv, NEW i \in Items, NEW s \in CompareSlots, TogglePin(i, s) PROVE PageInv'
<1> PICK p : p = <<KindOf(i), s>>
  OBVIOUS
<1> PICK tf : tf = popover[i].timeframe
  OBVIOUS
<1> PICK entry : entry = [Slot(i, tf) EXCEPT !.unavailable = (cache[i] = 0)]
  OBVIOUS
<1>1. /\ Click /\ UNCHANGED popover /\ UNCHANGED range /\ Compare
      /\ \/ compareState' = [compareState EXCEPT ![p] = Empty] /\ UNCHANGED requests
         \/ /\ compareState' = [compareState EXCEPT ![p] = entry]
            /\ UNCHANGED requests \/ Send("pin", i, p, tf)
  BY DEF TogglePin
<1>2. p \in Place
  BY KindsOfItems
<1>3. tf \in Timeframes
  BY PageTyped DEF CardType
<1>4. entry \in Entry
  <2> PICK mark \in BOOLEAN : mark = (cache[i] = 0)
    OBVIOUS
  <2>1. entry = [Slot(i, tf) EXCEPT !.unavailable = mark]
    OBVIOUS
  <2> QED
    BY <1>3, <2>1 DEF Slot, Entry
<1>5. compareState' \in [Place -> Entry \cup {Empty}]
  BY <1>1, <1>4, PageTyped
<1>6. requests' \in [RequestIds -> Request \cup {Empty}] /\ PlacesInv'
  BY <1>1, <1>2, <1>3, PageTyped, RequestSent DEF PlacesInv
<1> QED
  BY <1>1, <1>5, <1>6, PageTyped, CompareKept

\* A click on the board: OnBoard.
LEMMA BoardClicked ==
    ASSUME PageInv, OnBoard PROVE Click /\ popover' \in [Items -> CardType]
BY PageTyped, AllHidden DEF OnBoard

\* ClearSlot.
LEMMA ClearSlotKept == ASSUME PageInv, NEW p \in Place, ClearSlot(p) PROVE PageInv'
<1>1. OnBoard /\ compareState' = [compareState EXCEPT ![p] = Empty]
      /\ UNCHANGED <<range, requests>> /\ Compare
  BY DEF ClearSlot
<1>2. compareState' \in [Place -> Entry \cup {Empty}]
  BY <1>1, PageTyped
<1>3. PlacesInv'
  BY <1>1, PageTyped DEF PlacesInv
<1> QED
  BY <1>1, <1>2, <1>3, PageTyped, BoardClicked, CompareKept

\* ClearAll.
LEMMA ClearAllKept == ASSUME PageInv, ClearAll PROVE PageInv'
<1>1. OnBoard /\ compareState' = EmptyBoard /\ UNCHANGED <<range, requests>> /\ Compare
  BY DEF ClearAll
<1>2. compareState' \in [Place -> Entry \cup {Empty}]
  BY <1>1 DEF EmptyBoard
<1>3. PlacesInv'
  BY <1>1, PageTyped DEF PlacesInv
<1> QED
  BY <1>1, <1>2, <1>3, PageTyped, BoardClicked, CompareKept

\* ChooseRange.
LEMMA ChooseRangeKept ==
    ASSUME PageInv, NEW kind \in Kinds, NEW key \in Ranges, ChooseRange(kind, key) PROVE PageInv'
<1>1. OnBoard /\ range' = [range EXCEPT ![kind] = key] /\ UNCHANGED <<compareState, requests>> /\ Compare
  BY DEF ChooseRange
<1>2. range' \in [Kinds -> Ranges]
  BY <1>1, PageTyped
<1>3. PlacesInv'
  BY <1>1, PageTyped DEF PlacesInv
<1> QED
  BY <1>1, <1>2, <1>3, PageTyped, BoardClicked, CompareKept

\* ChooseTimeframe.
LEMMA ChooseTimeframeKept ==
    ASSUME PageInv, NEW p \in Place, NEW tf \in Timeframes, ChooseTimeframe(p, tf) PROVE PageInv'
<1> PICK entry : entry = [compareState[p] EXCEPT !.timeframe = tf, !.unavailable = FALSE]
  OBVIOUS
<1>1. /\ OnBoard /\ compareState[p] # Empty /\ UNCHANGED range /\ Compare
      /\ compareState' = [compareState EXCEPT ![p].timeframe = tf, ![p].unavailable = FALSE]
      /\ UNCHANGED requests \/ Send("timeframe", compareState[p].item, p, tf)
  BY DEF ChooseTimeframe
<1>2. compareState[p] \in Entry
  BY <1>1, PageTyped
<1>3. entry \in Entry /\ compareState[p].item \in Items
  BY <1>2 DEF Entry
<1>4. compareState' = [compareState EXCEPT ![p] = entry]
  BY <1>1, PageTyped
<1>5. compareState' \in [Place -> Entry \cup {Empty}]
  BY <1>3, <1>4, PageTyped
<1>6. requests' \in [RequestIds -> Request \cup {Empty}] /\ PlacesInv'
  BY <1>1, <1>3, PageTyped, RequestSent DEF PlacesInv
<1> QED
  BY <1>1, <1>5, <1>6, PageTyped, BoardClicked, CompareKept

-----------------------------------------------------------------------------
(* Answers and the live refresh. *)

\* What an answer may be, and what the cache makes of it: Answers, Fetched.
LEMMA AnswersTyped ==
    ASSUME PageInv, NEW i \in Items, NEW since \in Version, NEW answer \in Answers(i, since),
           Count(answer)
    PROVE  /\ answer \in Version \cup {Failed} /\ errors' \in 0 .. MaxErrors
           /\ ~Fails(i, answer) => answer \in Version
           /\ Fetched(i, answer) \in [Items -> Version \cup {Empty}]
<1>1. answer \in Version \/ (answer = Failed /\ errors < MaxErrors)
  <2>1. market[i] \in Version /\ MaxVersion \in Nat
    BY PageTyped, PageAssumption
  <2>2. since .. market[i] \subseteq Version
    BY <2>1 DEF Version
  <2> QED
    BY <2>2 DEF Answers
<1>2. errors' \in 0 .. MaxErrors
  BY <1>1, PageTyped, NothingThere DEF Count
<1>3. ~Fails(i, answer) => answer \in Version
  BY <1>1 DEF Fails
<1>4. Fetched(i, answer) \in [Items -> Version \cup {Empty}]
  BY <1>3, PageTyped DEF Fetched
<1> QED
  BY <1>1, <1>2, <1>3, <1>4

\* An answer marks an entry and changes nothing else of it: Marked.
LEMMA MarkedSame ==
    ASSUME PageInv, NEW r \in Request, r.place \in Place, NEW answer
    PROVE  /\ Marked(r, answer) \in Entry \cup {Empty}
           /\ Marked(r, answer) = Empty <=> compareState[r.place] = Empty
           /\ Marked(r, answer) # Empty =>
                /\ Marked(r, answer).item = compareState[r.place].item
                /\ Marked(r, answer).timeframe = compareState[r.place].timeframe
<1> PICK entry \in Entry \cup {Empty} : entry = compareState[r.place]
  BY PageTyped
<1> PICK failed \in BOOLEAN : failed = Fails(r.item, answer)
  BY DEF Fails
<1> PICK known \in BOOLEAN : known = (failed \/ answer = 0)
  OBVIOUS
<1>1. CASE entry = Empty
  BY <1>1 DEF Marked
<1>2. CASE entry # Empty
  <2>1. entry \in Entry
    BY <1>2
  <2>2. ASSUME NEW mark \in BOOLEAN
        PROVE  /\ [entry EXCEPT !.unavailable = mark] \in Entry
               /\ [entry EXCEPT !.unavailable = mark].item = entry.item
               /\ [entry EXCEPT !.unavailable = mark].timeframe = entry.timeframe
    BY <2>1 DEF Entry
  <2>3. \/ Marked(r, answer) = [entry EXCEPT !.unavailable = known]
        \/ Marked(r, answer) = [entry EXCEPT !.unavailable = TRUE]
        \/ Marked(r, answer) = [entry EXCEPT !.unavailable = failed]
        \/ Marked(r, answer) = entry
    BY <1>2 DEF Marked
  <2> QED
    BY <1>2, <2>1, <2>2, <2>3, NothingThere
<1> QED
  BY <1>1, <1>2

\* What an answer does to the pins: nothing.
LEMMA AnswerCompareSame ==
    ASSUME PageInv, NEW id \in RequestIds, AnswerCompare(id)
    PROVE  /\ compareState' \in [Place -> Entry \cup {Empty}]
           /\ SamePins(compareState', compareState) /\ UNCHANGED range
<1> PICK r : r = requests[id]
  OBVIOUS
<1>1. PICK answer : compareState' = [compareState EXCEPT ![r.place] = Marked(r, answer)]
  BY DEF AnswerCompare
<1>2. r \in Request /\ r.place \in Place
  BY PageTyped DEF AnswerCompare, PlacesInv
<1> PICK entry : entry = Marked(r, answer)
  OBVIOUS
<1>3. /\ entry \in Entry \cup {Empty} /\ (entry = Empty <=> compareState[r.place] = Empty)
      /\ entry # Empty => entry.item = compareState[r.place].item /\ entry.timeframe = compareState[r.place].timeframe
  BY <1>2, MarkedSame
<1>4. compareState' = [compareState EXCEPT ![r.place] = entry]
  BY <1>1
<1>5. SamePins(compareState', compareState)
  BY <1>2, <1>3, <1>4, PageTyped DEF SamePins
<1>6. UNCHANGED range
  BY DEF AnswerCompare
<1> QED
  BY <1>3, <1>4, <1>5, <1>6, PageTyped

\* Every answer keeps the invariant: AnswerCompare.
LEMMA AnswerCompareKept ==
    ASSUME PageInv, NEW id \in RequestIds, AnswerCompare(id) PROVE PageInv'
<1> PICK r : r = requests[id]
  OBVIOUS
<1>1. PICK answer \in Answers(r.item, r.since) : Count(answer) /\ cache' = Fetched(r.item, answer)
  BY DEF AnswerCompare
<1>2. /\ r # Empty /\ requests' = [requests EXCEPT ![id] = Empty]
      /\ UNCHANGED <<market, popover, chip, panel, range, stored, ownCopy, refresh, outside, clicks>>
      /\ RenderCompareBoard
  BY DEF AnswerCompare
<1>3. r \in Request
  BY <1>2, PageTyped
<1>4. r.item \in Items /\ r.since \in Version
  BY <1>3 DEF Request
<1>5. errors' \in 0 .. MaxErrors /\ cache' \in [Items -> Version \cup {Empty}]
  BY <1>1, <1>4, AnswersTyped
<1>6. compareState' \in [Place -> Entry \cup {Empty}] /\ SamePins(compareState', compareState)
  BY AnswerCompareSame
<1>7. /\ board' \in [Place -> {Empty, Loading, Unavailable} \cup Version]
      /\ pinLit' \in [Items -> SUBSET CompareSlots] /\ PinButtonsTell'
  BY <1>2, <1>5, <1>6, Rendered
<1>8. requests' \in [RequestIds -> Request \cup {Empty}] /\ PlacesInv'
  BY <1>2, PageTyped, RequestEnded
<1>9. StoredAsLeft'
  BY <1>2, <1>6, PageTyped, StoredStays
<1> QED
  BY <1>2, <1>5, <1>6, <1>7, <1>8, <1>9, PageTyped, PageTypedNext

\* AnswerPreview.
LEMMA AnswerPreviewKept ==
    ASSUME PageInv, NEW id \in RequestIds, AnswerPreview(id) PROVE PageInv'
<1> PICK r : r = requests[id]
  OBVIOUS
<1>1. PICK answer \in Answers(r.item, r.since) :
          /\ Count(answer) /\ cache' = Fetched(r.item, answer)
          /\ popover' = Preview(r.item, r.timeframe, Shown(r.item, answer))
          /\ chip' = ChipOf(r.item, Shown(r.item, answer))
  BY DEF AnswerPreview
<1>2. /\ r # Empty /\ requests' = [requests EXCEPT ![id] = Empty]
      /\ UNCHANGED compareState /\ SyncPinButtons({KindOf(r.item)})
      /\ UNCHANGED <<market, panel, range, board, stored, ownCopy, refresh, outside, clicks>>
  BY DEF AnswerPreview
<1>3. r \in Request
  BY <1>2, PageTyped
<1>4. r.item \in Items /\ r.since \in Version /\ r.timeframe \in Timeframes
  BY <1>3 DEF Request
<1>5. /\ errors' \in 0 .. MaxErrors /\ cache' \in [Items -> Version \cup {Empty}]
      /\ answer \in Version \cup {Failed}
  BY <1>1, <1>4, AnswersTyped
<1> PICK shows \in {Loading, Unavailable} \cup Version : shows = Shown(r.item, answer)
  BY <1>5, ShownTyped
<1>6. chip' \in [Items -> Version]
  BY <1>1, <1>4, PageTyped, ChipTyped
<1>7. popover' \in [Items -> CardType] /\ \A j \in Items \ {r.item} : popover'[j] = popover[j]
  BY <1>1, <1>4, PageTyped, PreviewTyped
<1>8. pinLit' \in [Items -> SUBSET CompareSlots] /\ PinButtonsTell'
  <2>1. SamePins(compareState', compareState)
    BY <1>2, SamePinsRefl
  <2>2. \A j \in Items : KindOf(j) \notin {KindOf(r.item)} => popover'[j].timeframe = popover[j].timeframe
    BY <1>7
  <2> QED
    BY <1>2, <2>1, <2>2, PageTyped, Synchronised
<1>9. requests' \in [RequestIds -> Request \cup {Empty}] /\ PlacesInv'
  BY <1>2, PageTyped, RequestEnded
<1>10. StoredAsLeft'
  BY <1>2, PageTyped, SamePinsRefl, StoredStays
<1> QED
  BY <1>2, <1>5, <1>6, <1>7, <1>8, <1>9, <1>10, PageTyped, PageTypedNext

\* What is left of a round: After.
LEMMA AfterTyped ==
    ASSUME NEW round \in [Items -> Version \cup {Empty}], NEW i \in Items,
           market \in [Items -> Version]
    PROVE  After(round, i) \in [Items -> Version \cup {Empty}]
BY DEF After

\* A live refresh marks entries and changes nothing else of them: RefreshRootLiveViews.
LEMMA MarksSame ==
    ASSUME PageInv, NEW i \in Items, NEW mark \in BOOLEAN,
           compareState' = [p \in Place |->
               IF compareState[p] # Empty /\ compareState[p].item = i
               THEN [compareState[p] EXCEPT !.unavailable = mark] ELSE compareState[p]]
    PROVE  /\ compareState' \in [Place -> Entry \cup {Empty}]
           /\ SamePins(compareState', compareState)
<1>1. ASSUME NEW p \in Place
      PROVE  /\ compareState'[p] \in Entry \cup {Empty}
             /\ compareState'[p] = Empty <=> compareState[p] = Empty
             /\ compareState'[p] # Empty =>
                  compareState'[p].item = compareState[p].item /\ compareState'[p].timeframe = compareState[p].timeframe
  <2> PICK entry \in Entry \cup {Empty} : entry = compareState[p]
    BY PageTyped
  <2>1. CASE entry # Empty /\ entry.item = i
    <3>1. compareState'[p] = [entry EXCEPT !.unavailable = mark]
      BY <2>1, Zenon
    <3>2. entry \in Entry
      BY <2>1
    <3>3. /\ [entry EXCEPT !.unavailable = mark] \in Entry
          /\ [entry EXCEPT !.unavailable = mark].item = entry.item
          /\ [entry EXCEPT !.unavailable = mark].timeframe = entry.timeframe
      BY <3>2 DEF Entry
    <3> QED
      BY <2>1, <3>1, <3>3, NothingThere
  <2>2. CASE ~(entry # Empty /\ entry.item = i)
    <3>1. compareState'[p] = entry
      BY <2>2, Zenon
    <3> QED
      BY <3>1
  <2> QED
    BY <2>1, <2>2
<1>2. compareState' \in [Place -> Entry \cup {Empty}]
  <2>1. compareState' = [p \in Place |-> compareState'[p]]
    BY Zenon
  <2> QED
    BY <1>1, <2>1
<1> QED
  BY <1>1, <1>2 DEF SamePins

\* What the answer of a live refresh does to the pins, the previews and the panel.
LEMMA RefreshViews ==
    ASSUME PageInv, NEW i \in Items, NEW answer \in Version \cup {Failed},
           ~Fails(i, answer) => answer \in Version,
           IF Fails(i, answer) THEN UNCHANGED <<compareState, popover, chip, panel>>
           ELSE IF i \in Roots THEN RefreshRootLiveViews(i, answer)
           ELSE RefreshSignalLiveViews(i, answer)
    PROVE  /\ compareState' \in [Place -> Entry \cup {Empty}] /\ SamePins(compareState', compareState)
           /\ chip' \in [Items -> Version] /\ panel' \in PanelType
           /\ popover' \in [Items -> CardType]
           /\ \A j \in Items : /\ popover'[j].timeframe = popover[j].timeframe
                               /\ popover[j].hidden => popover'[j].hidden
                               /\ KindOf(j) # KindOf(i) => popover'[j] = popover[j]
<1>1. CASE Fails(i, answer)
  BY <1>1, PageTyped, SamePinsRefl
<1>2. CASE ~Fails(i, answer)
  <2>1. answer \in Version
    BY <1>2
  <2>2. PICK shows \in {Loading, Unavailable} \cup Version :
            /\ popover' = IF popover[i].hidden THEN popover ELSE Preview(i, popover[i].timeframe, shows)
            /\ chip' = [chip EXCEPT ![i] = answer]
            /\ panel' = panel \/ panel' = PanelShows(i, answer)
    <3>1. CASE i \in Roots
      <4>1. Shown(i, answer) \in {Loading, Unavailable} \cup Version
        BY ShownTyped
      <4> QED
        BY <1>2, <3>1, <4>1 DEF RefreshRootLiveViews
    <3>2. CASE i \notin Roots
      BY <1>2, <2>1, <3>2 DEF RefreshSignalLiveViews
    <3> QED
      BY <3>1, <3>2
  <2>3. compareState' \in [Place -> Entry \cup {Empty}] /\ SamePins(compareState', compareState)
    <3>1. CASE i \in Roots
      <4> PICK mark \in BOOLEAN : mark = (answer = 0)
        OBVIOUS
      <4>1. compareState' = [p \in Place |->
               IF compareState[p] # Empty /\ compareState[p].item = i
               THEN [compareState[p] EXCEPT !.unavailable = mark] ELSE compareState[p]]
        BY <1>2, <3>1 DEF RefreshRootLiveViews
      <4> QED
        BY <4>1, MarksSame
    <3>2. CASE i \notin Roots
      <4>1. UNCHANGED compareState
        BY <1>2, <3>2 DEF RefreshSignalLiveViews
      <4> QED
        BY <4>1, PageTyped, SamePinsRefl
    <3> QED
      BY <3>1, <3>2
  <2>4. chip' \in [Items -> Version] /\ panel' \in PanelType
    <3>1. PanelShows(i, answer) \in PanelType
      BY <2>1, PageTyped DEF PanelShows, PanelType
    <3> QED
      BY <2>1, <2>2, <3>1, PageTyped
  <2>5. popover[i].timeframe \in Timeframes
    BY PageTyped DEF CardType
  <2>6. /\ Preview(i, popover[i].timeframe, shows) \in [Items -> CardType]
        /\ Preview(i, popover[i].timeframe, shows)[i].timeframe = popover[i].timeframe
        /\ \A j \in Items \ {i} : Preview(i, popover[i].timeframe, shows)[j] = popover[j]
    BY <2>5, PageTyped, PreviewTyped
  <2>7. popover' \in [Items -> CardType]
    BY <2>2, <2>6, PageTyped
  <2>8. ASSUME NEW j \in Items
        PROVE  /\ popover'[j].timeframe = popover[j].timeframe
               /\ popover[j].hidden => popover'[j].hidden
               /\ KindOf(j) # KindOf(i) => popover'[j] = popover[j]
    BY <2>2, <2>6
  <2> QED
    BY <2>3, <2>4, <2>7, <2>8
<1> QED
  BY <1>1, <1>2

\* AnswerRefresh, which besides opens no preview and keeps the pins.
LEMMA AnswerRefreshKept ==
    ASSUME PageInv, NEW n \in Rounds, NEW i \in Items, AnswerRefresh(n, i)
    PROVE  /\ PageInv' /\ SamePins(compareState', compareState) /\ UNCHANGED range
           /\ \A j \in Items : popover[j].hidden => popover'[j].hidden
<1>1. PICK answer \in Answers(i, refresh[n][i]) :
          /\ Count(answer) /\ cache' = Fetched(i, answer)
          /\ IF Fails(i, answer) THEN UNCHANGED <<compareState, popover, chip, panel>>
             ELSE IF i \in Roots THEN RefreshRootLiveViews(i, answer)
             ELSE RefreshSignalLiveViews(i, answer)
  BY DEF AnswerRefresh
<1>2. /\ refresh[n][i] # Empty /\ refresh' = [refresh EXCEPT ![n] = After(refresh[n], i)]
      /\ IF refresh'[n] = Idle THEN RenderCompareBoard
         ELSE UNCHANGED board /\ IF popover' = popover THEN UNCHANGED pinLit
                                 ELSE SyncPinButtons({KindOf(i)})
      /\ UNCHANGED <<market, range, stored, ownCopy, requests, outside, clicks>>
  BY DEF AnswerRefresh
<1>3. refresh[n] \in [Items -> Version \cup {Empty}] /\ refresh[n][i] \in Version
  BY <1>2, PageTyped
<1>4. /\ errors' \in 0 .. MaxErrors /\ cache' \in [Items -> Version \cup {Empty}]
      /\ answer \in Version \cup {Failed} /\ (~Fails(i, answer) => answer \in Version)
  BY <1>1, <1>3, AnswersTyped
<1>5. /\ compareState' \in [Place -> Entry \cup {Empty}] /\ SamePins(compareState', compareState)
      /\ chip' \in [Items -> Version] /\ panel' \in PanelType
      /\ popover' \in [Items -> CardType]
      /\ \A j \in Items : /\ popover'[j].timeframe = popover[j].timeframe
                          /\ popover[j].hidden => popover'[j].hidden
                          /\ KindOf(j) # KindOf(i) => popover'[j] = popover[j]
  BY <1>1, <1>4, RefreshViews
<1>6. refresh' \in [Rounds -> [Items -> Version \cup {Empty}]]
  <2>1. After(refresh[n], i) \in [Items -> Version \cup {Empty}]
    BY <1>3, PageTyped, AfterTyped
  <2> QED
    BY <1>2, <2>1, PageTyped
<1>7. /\ board' \in [Place -> {Empty, Loading, Unavailable} \cup Version]
      /\ pinLit' \in [Items -> SUBSET CompareSlots] /\ PinButtonsTell'
  <2>1. CASE RenderCompareBoard
    BY <1>4, <1>5, <2>1, Rendered
  <2>2. CASE UNCHANGED board /\ UNCHANGED pinLit
    BY <1>5, <2>2, PageTyped, ButtonsStay
  <2>3. CASE UNCHANGED board /\ SyncPinButtons({KindOf(i)})
    BY <1>5, <2>3, PageTyped, Synchronised
  <2> QED
    BY <1>2, <2>1, <2>2, <2>3
<1>8. PlacesInv' /\ StoredAsLeft'
  <2>1. PlacesInv'
    BY <1>2, PageTyped DEF PlacesInv
  <2> QED
    BY <1>2, <1>5, <2>1, PageTyped, StoredStays
<1>9. PageInv'
  BY <1>2, <1>4, <1>5, <1>6, <1>7, <1>8, PageTyped, PageTypedNext
<1> QED
  BY <1>2, <1>5, <1>9

\* TimerFires.
LEMMA TimerFiresKept == ASSUME PageInv, TimerFires PROVE PageInv'
<1>1. PICK n \in Rounds : refresh' = [refresh EXCEPT ![n] = StartRound]
  BY DEF TimerFires
<1>2. /\ UNCHANGED clicks \/ Click
      /\ UNCHANGED <<market, cache, popover, chip, panel, compareState, range, board,
                     pinLit, stored, ownCopy, requests, outside, errors>>
  BY DEF TimerFires
<1>3. clicks' \in 0 .. MaxClicks
  BY <1>2, PageTyped, Clicked
<1>4. refresh' \in [Rounds -> [Items -> Version \cup {Empty}]]
  BY <1>1, PageTyped, FreshTyped
<1>5. PinButtonsTell' /\ StoredAsLeft' /\ PlacesInv'
  <2>1. PlacesInv'
    BY <1>2, PageTyped DEF PlacesInv
  <2> QED
    BY <1>2, <2>1, PageTyped, ButtonsStay, StoredStays, SamePinsRefl
<1> QED
  BY <1>2, <1>3, <1>4, <1>5, PageTyped, PageTypedNext

\* MarketMoves.
LEMMA MarketMovesKept == ASSUME PageInv, NEW i \in Items, MarketMoves(i) PROVE PageInv'
<1>1. /\ Outside /\ market[i] < MaxVersion /\ market' = [market EXCEPT ![i] = @ + 1]
      /\ UNCHANGED <<cache, popover, chip, panel, compareState, range, board, pinLit,
                   stored, ownCopy, requests, refresh, clicks, errors>>
  BY DEF MarketMoves
<1>2. market[i] + 1 \in Version
  BY <1>1, PageTyped, PageAssumption DEF Version
<1>3. market' \in [Items -> Version] /\ outside' \in 0 .. MaxOutside
  BY <1>1, <1>2, PageTyped, OutsideCounted
<1>4. PinButtonsTell' /\ StoredAsLeft' /\ PlacesInv'
  <2>1. PlacesInv'
    BY <1>1, PageTyped DEF PlacesInv
  <2> QED
    BY <1>1, <2>1, PageTyped, ButtonsStay, StoredStays, SamePinsRefl
<1> QED
  BY <1>1, <1>3, <1>4, PageTyped, PageTypedNext

\* OtherTabStores.
LEMMA OtherTabStoresKept == ASSUME PageInv, OtherTabStores PROVE PageInv'
<1>1. /\ Outside /\ stored' \in OtherCopies /\ ownCopy' = FALSE
      /\ UNCHANGED <<market, cache, popover, chip, panel, compareState, range, board, pinLit,
                     requests, refresh, clicks, errors>>
  BY DEF OtherTabStores
<1>2. stored' \in Copy /\ outside' \in 0 .. MaxOutside
  BY <1>1, PageTyped, NothingThere, OutsideCounted
<1>3. PinButtonsTell' /\ StoredAsLeft' /\ PlacesInv'
  <2>1. PlacesInv'
    BY <1>1, PageTyped DEF PlacesInv
  <2>2. StoredAsLeft'
    BY <1>1 DEF StoredAsLeft
  <2> QED
    BY <1>1, <2>1, <2>2, PageTyped, ButtonsStay, SamePinsRefl
<1> QED
  BY <1>1, <1>2, <1>3, PageTyped, PageTypedNext

\* A step that leaves the page alone.
LEMMA PageStays == ASSUME PageInv, UNCHANGED pageVars PROVE PageInv'
<1>1. PinButtonsTell' /\ StoredAsLeft' /\ PlacesInv'
  <2>1. PlacesInv'
    BY PageTyped DEF PlacesInv, pageVars
  <2> QED
    BY <2>1, PageTyped, ButtonsStay, StoredStays, SamePinsRefl DEF pageVars
<1> QED
  BY <1>1, PageTyped, PageTypedNext DEF pageVars

\* Every step of the page keeps the invariant.
LEMMA PageStepKept == PageInv /\ [PageNext]_pageVars => PageInv'
<1> SUFFICES ASSUME PageInv, [PageNext]_pageVars PROVE PageInv'
  OBVIOUS
<1>1. CASE UserActs
  BY <1>1, ReloadKept, ClickOutsideKept, ClearAllKept, OpenPreviewKept, ClosePreviewKept, TogglePinKept,
     ClearSlotKept, ChooseTimeframeKept, ChooseRangeKept DEF UserActs
<1>2. CASE Answered
  BY <1>2, AnswerCompareKept, AnswerPreviewKept, AnswerRefreshKept DEF Answered, AnswerRequest, AnswerRound
<1> QED
  BY <1>1, <1>2, TimerFiresKept, OtherTabStoresKept, MarketMovesKept, PageStays DEF PageNext

\* The invariant of the workspace, which the next theorems rest on, holds throughout, for any
\* number of roots, signals, slots, timeframes, requests and overlapping rounds.
THEOREM PageInductive == PageSpec => []PageInv
BY PageInitially, PageStepKept, PTL DEF PageSpec

\* The page's state and its copy in the local storage are of the right types throughout.
THEOREM PageTypesHold == PageSpec => []PageTypeOK
<1>1. PageInv => PageTypeOK
  BY DEF PageInv
<1> QED
  BY <1>1, PageInductive, PTL

\* The copy in the local storage is the board the page shows, after every click, answer, refresh
\* and reload, for as long as no write has failed or been overwritten by another tab since the
\* page's own last one, and no read since its load (persistCompareState, restoreCompareState).
THEOREM CopyIsCurrent == PageSpec => []StoredAsLeft
<1>1. PageInv => StoredAsLeft
  BY DEF PageInv
<1> QED
  BY <1>1, PageInductive, PTL

\* A pin button is lit exactly when pressing it would remove the pin (syncPinButtons).
THEOREM ButtonsTell == PageSpec => []PinButtonsTell
<1>1. PageInv => PinButtonsTell
  BY DEF PageInv
<1> QED
  BY <1>1, PageInductive, PTL

\* What AnswersKeepPins says of a step.
KeepsPins == Answered => Serialized(compareState', range') = Serialized(compareState, range)

\* No answer changes what would be stored.
LEMMA AnswersKeep == PageInv => KeepsPins
<1> SUFFICES ASSUME PageInv, Answered
             PROVE  Serialized(compareState', range') = Serialized(compareState, range)
  BY DEF KeepsPins
<1>1. ASSUME NEW id \in RequestIds, AnswerPreview(id)
      PROVE  SamePins(compareState', compareState) /\ UNCHANGED range
  BY <1>1, SamePinsRefl DEF AnswerPreview
<1>2. SamePins(compareState', compareState) /\ UNCHANGED range
  BY <1>1, AnswerCompareSame, AnswerRefreshKept DEF Answered, AnswerRequest, AnswerRound
<1> QED
  BY <1>2, SameSerialized

\* An answer, however late, pins nothing, removes no pin and moves none (AnswerCompare,
\* AnswerPreview, AnswerRefresh).
THEOREM AnswersPinNothing == PageSpec => AnswersKeepPins
<1>1. PageInv /\ [PageNext]_pageVars => [KeepsPins]_pageVars
  BY AnswersKeep
<1>2. PageSpec => [][KeepsPins]_pageVars
  BY <1>1, PageInductive, PTL DEF PageSpec
<1> QED
  BY <1>2 DEF AnswersKeepPins, KeepsPins

\* What RefreshOpensNothing says of a step.
OpensNothing ==
    \A i \in Items :
        popover[i].hidden /\ ~popover'[i].hidden =>
            \/ clicks' > clicks
            \/ \E id \in RequestIds : /\ requests[id] # Empty /\ requests'[id] = Empty
                                      /\ requests[id].by = "preview" /\ requests[id].item = i

\* No step but a click, or the answer a preview waits for, opens one.
LEMMA NothingOpens == PageInv /\ [PageNext]_pageVars => OpensNothing
<1> SUFFICES ASSUME PageInv, [PageNext]_pageVars, NEW i \in Items,
                    popover[i].hidden, ~popover'[i].hidden
             PROVE  \/ clicks' > clicks
                    \/ \E id \in RequestIds : /\ requests[id] # Empty /\ requests'[id] = Empty
                                              /\ requests[id].by = "preview" /\ requests[id].item = i
  BY DEF OpensNothing
<1>1. CASE UserActs
  <2>1. Click
    BY <1>1 DEF UserActs, Reload, ClickOutside, ClearAll, OpenPreview, ClosePreview, TogglePin,
                ClearSlot, ChooseTimeframe, ChooseRange, OnBoard
  <2> QED
    BY <2>1, PageTyped, Clicked
<1>2. ASSUME NEW id \in RequestIds, AnswerPreview(id)
      PROVE  /\ requests[id] # Empty /\ requests'[id] = Empty
             /\ requests[id].by = "preview" /\ requests[id].item = i
  <2> PICK r : r = requests[id]
    OBVIOUS
  <2>1. /\ r # Empty /\ r.by = "preview" /\ requests' = [requests EXCEPT ![id] = Empty]
        /\ \E answer : popover' = Preview(r.item, r.timeframe, Shown(r.item, answer))
    BY <1>2 DEF AnswerPreview
  <2>2. r.item = i
    BY <2>1, PageTyped DEF Preview
  <2> QED
    BY <2>1, <2>2, PageTyped
<1>3. ASSUME NEW id \in RequestIds, AnswerCompare(id) PROVE FALSE
  BY <1>3 DEF AnswerCompare
<1>4. ASSUME NEW n \in Rounds, NEW j \in Items, AnswerRefresh(n, j) PROVE FALSE
  BY <1>4, AnswerRefreshKept
<1>5. ~TimerFires /\ ~OtherTabStores /\ ~(\E j \in Items : MarketMoves(j)) /\ ~UNCHANGED pageVars
  BY DEF TimerFires, OtherTabStores, MarketMoves, pageVars
<1> QED
  BY <1>1, <1>2, <1>3, <1>4, <1>5 DEF PageNext, Answered, AnswerRequest, AnswerRound

\* A closed preview comes back only by a click or by the answer it was waiting for.
THEOREM OnlyClicksOpen == PageSpec => RefreshOpensNothing
<1>1. PageInv /\ [PageNext]_pageVars => [OpensNothing]_pageVars
  BY NothingOpens
<1>2. PageSpec => [][OpensNothing]_pageVars
  BY <1>1, PageInductive, PTL DEF PageSpec
<1> QED
  BY <1>2 DEF RefreshOpensNothing, OpensNothing

-----------------------------------------------------------------------------
(* The compare board. *)

\* What a slot holds, a chart shows, and a gesture has under way.
Pins == [root : BoardRoots, frame : BoardFrames]
BoardCharts == [levels : SUBSET BoardLevels, focus : BoardLevels \cup {NoMark},
                cursor : BoardPlaces \cup {Nowhere}, span : Spans \cup {Nowhere}]
Drags == [pointer : BoardPointers, from : BoardPlaces, to : BoardPlaces, moved : BOOLEAN]
Gestures == [drag : Drags \cup {NoDrag}, clearing : BOOLEAN, hovering : BOOLEAN]

\* The strips compare the next drawing with what they show, and a chart that is drawn is a
\* chart, with a marked level of its own.
BoardInv ==
    /\ pair \in [Slots -> Pins \cup {NoPin}]
    /\ boardRange \in BoardRanges /\ quote \in [BoardRoots -> Quotes \cup {NoQuote}]
    /\ marked \in BoardLevels \cup {NoMark}
    /\ history \in Context \cup {NoContext} /\ strip.context = history
    /\ card \in [Slots -> BoardCharts \cup {NoChart}]
    /\ \A s \in Drawn : card[s].focus \in card[s].levels \cup {NoMark}
    /\ gesture \in Gestures
    /\ draws \in 0 .. MaxDraws /\ answers \in 0 .. MaxAnswers
    /\ CardsAgree

\* A comparison is of two pins with a quote each, or nothing: Compared.
LEMMA ComparedIs ==
    ASSUME NEW p \in [Slots -> Pins \cup {NoPin}], NEW k \in BoardRanges, NEW q \in [BoardRoots -> Quotes \cup {NoQuote}]
    PROVE  Compared(p, k, q) \in Context \cup {NoContext}
<1>1. CASE ~(\A s \in Slots : Charted(p, q, s))
  BY <1>1 DEF Compared
<1>2. CASE \A s \in Slots : Charted(p, q, s)
  <2>1. \A s \in Slots : p[s] \in Pins /\ p[s].root \in BoardRoots /\ q[p[s].root] \in Quotes
    BY <1>2 DEF Charted, Pins
  <2>2. p \in [Slots -> Pins]
    BY <2>1
  <2>3. Leading(p, k) \in BoardRoots \cup {"tie"}
    <3>1. "a" \in Slots /\ "b" \in Slots
      BY DEF Slots
    <3> QED
      BY <2>1, <3>1 DEF Leading
  <2>4. [s \in Slots |-> q[p[s].root].regime] \in [Slots -> {e.regime : e \in Quotes}]
    BY <2>1
  <2>5. Compared(p, k, q) = [pair |-> p, range |-> k, leader |-> Leading(p, k), regimes |-> [s \in Slots |-> q[p[s].root].regime]]
    BY <1>2 DEF Compared
  <2> QED
    BY <2>2, <2>3, <2>4, <2>5 DEF Context, Pins
<1> QED
  BY <1>1, <1>2

\* The focus is a level the chart has, or none: Focus.
LEMMA FocusIs ==
    ASSUME NEW level \in BoardLevels \cup {NoMark}, NEW levels \in SUBSET BoardLevels
    PROVE  /\ Focus(level, levels) \in levels \cup {NoMark}
           /\ Focus(level, levels) \in BoardLevels \cup {NoMark}
BY DEF Focus

\* The board as it is first drawn satisfies the invariant: BoardInit.
LEMMA BoardInitially == BoardInit => BoardInv
<1> SUFFICES ASSUME BoardInit PROVE BoardInv
  OBVIOUS
<1>1. Drawn = {}
  BY DEF BoardInit, Drawn
<1>2. gesture \in Gestures
  BY DEF BoardInit, Gestures
<1>3. pair \in [Slots -> Pins \cup {NoPin}] /\ quote \in [BoardRoots -> Quotes \cup {NoQuote}]
      /\ card \in [Slots -> BoardCharts \cup {NoChart}]
  BY DEF BoardInit, EmptyPair
<1>4. draws \in 0 .. MaxDraws /\ answers \in 0 .. MaxAnswers
  BY BoardAssumption DEF BoardInit
<1>5. strip.context = history /\ history = NoContext /\ marked = NoMark /\ boardRange \in BoardRanges
  BY DEF BoardInit
<1>6. CardsAgree
  BY <1>1 DEF CardsAgree
<1> QED
  BY <1>1, <1>2, <1>3, <1>4, <1>5, <1>6 DEF BoardInv

\* A drawing compares with what the strips show, with itself, or with nothing.
LEMMA DrawKept ==
    ASSUME BoardInv, NEW p \in [Slots -> Pins \cup {NoPin}], NEW k \in BoardRanges,
           NEW q \in [BoardRoots -> Quotes \cup {NoQuote}], NEW mark \in BoardLevels \cup {NoMark},
           NEW h, h \in {history, Compared(p, k, q), NoContext}, Draw(h, p, k, q, mark),
           answers' \in 0 .. MaxAnswers
    PROVE  BoardInv' /\ NotesTell
<1>1. /\ draws < MaxDraws /\ draws' = draws + 1
      /\ pair' = p /\ boardRange' = k /\ quote' = q /\ marked' = mark
      /\ history' = Compared(p, k, q) /\ strip' = Strips(h, Compared(p, k, q))
      /\ card' = [s \in Slots |-> IF Charted(p, q, s) THEN NewBoardChart(q[p[s].root].levels, mark) ELSE NoChart]
      /\ gesture' = [drag |-> NoDrag, clearing |-> FALSE, hovering |-> FALSE]
  BY DEF Draw, Remembered
<1>2. draws' \in 0 .. MaxDraws
  BY <1>1, BoardAssumption DEF BoardInv
<1>3. history' \in Context \cup {NoContext} /\ strip'.context = history'
  BY <1>1, ComparedIs DEF Strips
<1>4. ASSUME NEW s \in Slots, Charted(p, q, s)
      PROVE  /\ NewBoardChart(q[p[s].root].levels, mark) \in BoardCharts
             /\ LET new == NewBoardChart(q[p[s].root].levels, mark) IN
                /\ new.focus = Focus(mark, new.levels) /\ new.focus \in new.levels \cup {NoMark}
                /\ new.cursor = Nowhere /\ new.span = Nowhere
  <2>1. PICK levels \in SUBSET BoardLevels : levels = q[p[s].root].levels
    <3>1. p[s] \in Pins /\ p[s].root \in BoardRoots /\ q[p[s].root] \in Quotes
      BY <1>4 DEF Charted, Pins
    <3> QED
      BY <3>1, BoardAssumption
  <2>2. Focus(mark, levels) \in levels \cup {NoMark} /\ Focus(mark, levels) \in BoardLevels \cup {NoMark}
    BY FocusIs
  <2>3. NewBoardChart(levels, mark) = [levels |-> levels, focus |-> Focus(mark, levels), cursor |-> Nowhere, span |-> Nowhere]
    BY DEF NewBoardChart
  <2>4. NewBoardChart(levels, mark) \in BoardCharts
    BY <2>2, <2>3 DEF BoardCharts
  <2> QED
    BY <2>1, <2>2, <2>3, <2>4
<1>5. card' \in [Slots -> BoardCharts \cup {NoChart}]
  BY <1>1, <1>4
<1>6. \A s \in Drawn' : /\ card'[s].focus = Focus(marked', card'[s].levels) /\ card'[s].focus \in card'[s].levels \cup {NoMark}
                        /\ card'[s].cursor = Nowhere /\ card'[s].span = Nowhere
  BY <1>1, <1>4 DEF Drawn
<1>7. CardsAgree'
  BY <1>6 DEF CardsAgree
<1>8. gesture' \in Gestures
  BY <1>1 DEF Gestures
<1>9. BoardInv'
  BY <1>1, <1>2, <1>3, <1>5, <1>6, <1>7, <1>8 DEF BoardInv
<1>10. NotesTell
  <2>1. PICK now : now = Compared(p, k, q)
    OBVIOUS
  <2>2. strip'.context = now /\ strip'.shift = Shift(h, now) /\ strip'.drift = Drift(h, now)
    BY <1>1, <2>1 DEF Strips
  <2>3. strip.context = history
    BY DEF BoardInv
  <2>4. CASE h = history
    BY <2>2, <2>3, <2>4 DEF NotesTell, Shift, Drift
  <2>5. CASE h = NoContext
    <3>1. Shift(h, now) = NoNote /\ Drift(h, now) = {}
      BY <2>5 DEF Shift, Drift
    <3> QED
      BY <2>2, <3>1 DEF NotesTell
  <2>6. CASE h = now
    <3>1. Shift(h, now) = NoNote /\ Drift(h, now) = {}
      BY <2>6 DEF Shift, Drift
    <3> QED
      BY <2>2, <3>1 DEF NotesTell
  <2> QED
    BY <2>1, <2>4, <2>5, <2>6
<1> QED
  BY <1>9, <1>10

\* Pins, ranges and answers keep the invariant, and the strips tell of them: BoardEdited.
LEMMA EditedKept == ASSUME BoardInv, BoardEdited PROVE BoardInv' /\ NotesTell
<1>1. /\ pair \in [Slots -> Pins \cup {NoPin}] /\ boardRange \in BoardRanges
      /\ quote \in [BoardRoots -> Quotes \cup {NoQuote}] /\ marked \in BoardLevels \cup {NoMark}
      /\ answers \in 0 .. MaxAnswers
  BY DEF BoardInv
<1>2. \A s \in Slots : [pair EXCEPT ![s] = NoPin] \in [Slots -> Pins \cup {NoPin}]
  BY <1>1
<1>3. ASSUME NEW s \in Slots, NEW p \in [Slots -> Pins \cup {NoPin}], DrawForRequest(s, p), UNCHANGED answers
      PROVE  BoardInv' /\ NotesTell
  <2>1. PICK h : h \in {history, Compared(p, boardRange, quote), NoContext} /\ Draw(h, p, boardRange, quote, marked)
    BY <1>3 DEF DrawForRequest, Remembered
  <2> QED
    BY <1>1, <1>3, <2>1, DrawKept
<1>4. ASSUME NEW s \in Slots, NEW r \in BoardRoots, NEW f \in BoardFrames, PinRoot(s, [root |-> r, frame |-> f])
      PROVE  BoardInv' /\ NotesTell
  <2>1. PICK entry \in Pins : entry = [root |-> r, frame |-> f]
    BY DEF Pins
  <2>2. [pair EXCEPT ![s] = entry] \in [Slots -> Pins \cup {NoPin}]
    BY <1>1
  <2>3. UNCHANGED answers
    BY <1>4 DEF PinRoot
  <2>4. CASE pair[s] = entry
    <3>1. Draw(history, [pair EXCEPT ![s] = NoPin], boardRange, quote, marked)
      BY <1>4, <2>1, <2>4 DEF PinRoot
    <3> QED
      BY <1>1, <1>2, <2>3, <3>1, DrawKept
  <2>5. CASE pair[s] # entry
    <3>1. DrawForRequest(s, [pair EXCEPT ![s] = entry])
      BY <1>4, <2>1, <2>5 DEF PinRoot
    <3> QED
      BY <1>3, <2>2, <2>3, <3>1
  <2> QED
    BY <2>4, <2>5
<1>5. ASSUME NEW s \in Slots, NEW f \in BoardFrames, SwitchFrame(s, f)
      PROVE  BoardInv' /\ NotesTell
  <2>1. pair[s] \in Pins
    BY <1>1, <1>5 DEF SwitchFrame
  <2>2. [pair EXCEPT ![s].frame = f] \in [Slots -> Pins \cup {NoPin}]
    BY <1>1, <2>1 DEF Pins
  <2> QED
    BY <1>3, <1>5, <2>2 DEF SwitchFrame
<1>6. ASSUME NEW s \in Slots, ClearRoot(s) PROVE BoardInv' /\ NotesTell
  <2>1. Draw(history, [pair EXCEPT ![s] = NoPin], boardRange, quote, marked) /\ UNCHANGED answers
    BY <1>6 DEF ClearRoot
  <2> QED
    BY <1>1, <1>2, <2>1, DrawKept
<1>7. Arrives => answers' \in 0 .. MaxAnswers
  BY <1>1, BoardAssumption DEF Arrives
<1>8. ASSUME NEW s \in Slots, PinAnswered(s) PROVE BoardInv' /\ NotesTell
  <2>1. PICK q \in Quotes \cup {NoQuote} : Draw(history, pair, boardRange, [quote EXCEPT ![pair[s].root] = q], marked)
    BY <1>8 DEF PinAnswered
  <2>2. [quote EXCEPT ![pair[s].root] = q] \in [BoardRoots -> Quotes \cup {NoQuote}]
    BY <1>1
  <2>3. answers' \in 0 .. MaxAnswers
    BY <1>7, <1>8 DEF PinAnswered
  <2> QED
    BY <1>1, <2>1, <2>2, <2>3, DrawKept
<1>9. ASSUME NEW k \in BoardRanges, SwitchRange(k) PROVE BoardInv' /\ NotesTell
  BY <1>1, <1>9, DrawKept DEF SwitchRange
<1>10. ASSUME NEW r \in BoardRoots, RoundAnswered(r) PROVE BoardInv' /\ NotesTell
  <2>1. /\ answers' \in 0 .. MaxAnswers
        /\ UNCHANGED <<pair, boardRange, marked, history, strip, card, gesture, draws>>
    BY <1>7, <1>10 DEF RoundAnswered
  <2>2. quote' \in [BoardRoots -> Quotes \cup {NoQuote}]
    BY <1>1, <1>10 DEF RoundAnswered
  <2>3. CardsAgree'
    BY <2>1 DEF BoardInv, CardsAgree, Drawn, Focus
  <2>4. \A s \in Drawn' : card'[s].focus \in card'[s].levels \cup {NoMark}
    BY <2>1 DEF BoardInv, Drawn
  <2> QED
    BY <2>1, <2>2, <2>3, <2>4 DEF BoardInv, NotesTell
<1>11. CASE RoundDraws
  BY <1>1, <1>11, DrawKept DEF RoundDraws
<1>12. CASE LoadBoard
  <2>1. [r \in BoardRoots |-> NoQuote] \in [BoardRoots -> Quotes \cup {NoQuote}]
    OBVIOUS
  <2> QED
    BY <1>1, <1>12, <2>1, DrawKept DEF LoadBoard
<1> QED
  BY <1>4, <1>5, <1>6, <1>8, <1>9, <1>10, <1>11, <1>12 DEF BoardEdited

\* A pointer gives every chart that is drawn one cursor and one span, and the level that it
\* has of the one chosen.
LEMMA PointedKept ==
    ASSUME BoardInv, Gesture, marked' \in BoardLevels \cup {NoMark}, gesture' \in Gestures,
           NEW changed, OnCards(changed),
           \A s \in Drawn :
              /\ changed[s] \in BoardCharts /\ changed[s].focus \in changed[s].levels \cup {NoMark}
              /\ ~gesture'.hovering => changed[s].focus = Focus(marked', changed[s].levels),
           \A s, t \in Drawn : changed[s].cursor = changed[t].cursor /\ changed[s].span = changed[t].span
    PROVE  BoardInv' /\ NotesTell
<1>1. card' = [s \in Slots |-> IF s \in Drawn THEN changed[s] ELSE NoChart]
  BY DEF OnCards, Drawn
<1>2. Drawn' \subseteq Drawn
  BY <1>1 DEF Drawn
<1>3. card' \in [Slots -> BoardCharts \cup {NoChart}]
  BY <1>1
<1>4. \A s \in Drawn' : card'[s] = changed[s]
  BY <1>1, <1>2 DEF Drawn
<1> QED
  BY <1>2, <1>3, <1>4 DEF BoardInv, CardsAgree, Gesture, NotesTell

\* A chart that is drawn, part by part.
LEMMA CardIs ==
    ASSUME BoardInv, NEW s \in Drawn
    PROVE  /\ card[s] \in BoardCharts /\ card[s].levels \in SUBSET BoardLevels
           /\ card[s].focus \in card[s].levels \cup {NoMark}
           /\ card[s].cursor \in BoardPlaces \cup {Nowhere} /\ card[s].span \in Spans \cup {Nowhere}
<1>1. card[s] \in BoardCharts /\ card[s].focus \in card[s].levels \cup {NoMark}
  BY DEF BoardInv, Drawn
<1> QED
  BY <1>1 DEF BoardCharts

\* A stretch between two places of the board is a span.
LEMMA SpanIs == \A x, y \in BoardPlaces : [from |-> x, to |-> y] \in Spans
BY DEF Spans

\* What can be pointed at, and what is active, is a level of the board or none.
LEMMA OfferedIs == BoardInv => Offered \subseteq BoardLevels \cup {NoMark} /\ Active \in BoardLevels \cup {NoMark}
<1> SUFFICES ASSUME BoardInv PROVE Offered \subseteq BoardLevels \cup {NoMark} /\ Active \in BoardLevels \cup {NoMark}
  OBVIOUS
<1>1. Offered \subseteq BoardLevels \cup {NoMark}
  <2>1. \A s \in Drawn : card[s].levels \subseteq BoardLevels
    BY CardIs
  <2>2. SUFFICES ASSUME NEW x \in Offered, x # NoMark PROVE x \in BoardLevels
    BY <2>2
  <2>3. \E s \in Drawn : x \in card[s].levels
    <3>1. x \in UNION {card[s].levels : s \in Drawn}
      BY <2>2 DEF Offered
    <3>2. PICK levels \in {card[s].levels : s \in Drawn} : x \in levels
      BY <3>1
    <3>3. PICK s \in Drawn : levels = card[s].levels
      BY <3>2
    <3> QED
      BY <3>2, <3>3
  <2> QED
    BY <2>1, <2>3
<1>2. Active \in BoardLevels \cup {NoMark}
  BY DEF Active, BoardInv
<1> QED
  BY <1>1, <1>2

\* The level that is active is the one chosen last, wherever a chart has that.
LEMMA ActiveFocus ==
    ASSUME BoardInv, NEW s \in Drawn
    PROVE  Focus(Active, card[s].levels) = Focus(marked, card[s].levels)
BY DEF Active, Focus

\* Every gesture keeps it, and the charts agree: CursorMoves.
LEMMA CursorKept ==
    ASSUME BoardInv, NEW p \in BoardPointers, NEW place \in BoardPlaces, NEW over \in Offered, CursorMoves(p, place, over)
    PROVE  BoardInv' /\ NotesTell
<1>1. PICK dragging \in BOOLEAN : dragging = (gesture.drag # NoDrag /\ gesture.drag.pointer = p)
  OBVIOUS
<1>2. gesture \in Gestures /\ gesture.drag \in Drags \cup {NoDrag}
  BY DEF BoardInv, Gestures
<1>3. PICK drag : drag = IF dragging THEN [gesture.drag EXCEPT !.to = place, !.moved = @ \/ place # gesture.drag.from]
                         ELSE gesture.drag
  OBVIOUS
<1>4. drag \in Drags \cup {NoDrag} /\ (dragging => drag.from \in BoardPlaces)
  <2>1. CASE dragging
    <3>1. gesture.drag \in Drags
      BY <1>1, <1>2, <2>1
    <3>2. PICK moved \in BOOLEAN : moved = (gesture.drag.moved \/ place # gesture.drag.from)
      OBVIOUS
    <3>3. drag = [gesture.drag EXCEPT !.to = place, !.moved = moved]
      BY <1>3, <2>1, <3>2, Zenon
    <3> QED
      BY <3>1, <3>3 DEF Drags
  <2>2. CASE ~dragging
    BY <1>2, <1>3, <2>2
  <2> QED
    BY <2>1, <2>2
<1>5. PICK level \in BoardLevels \cup {NoMark} : level = IF over = NoMark THEN Active ELSE over
  BY OfferedIs
<1>6. PICK hovering \in BOOLEAN : hovering = (over # NoMark)
  OBVIOUS
<1>7. gesture' = [drag |-> drag, clearing |-> FALSE, hovering |-> hovering]
  BY <1>1, <1>3, <1>6, Zenon DEF CursorMoves
<1>8. PICK changed : changed = [s \in Drawn |-> [card[s] EXCEPT !.focus = Focus(level, card[s].levels), !.cursor = place,
                                          !.span = IF dragging THEN [from |-> drag.from, to |-> place] ELSE @]]
  OBVIOUS
<1>9. OnCards(changed)
  BY <1>1, <1>3, <1>5, <1>8, Zenon DEF CursorMoves
<1>10. Gesture /\ marked' = marked
  BY DEF CursorMoves
<1>11. ASSUME NEW s \in Drawn
       PROVE  /\ changed[s] \in BoardCharts /\ changed[s].levels = card[s].levels
              /\ changed[s].focus = Focus(level, card[s].levels) /\ changed[s].cursor = place
              /\ changed[s].span = IF dragging THEN [from |-> drag.from, to |-> place] ELSE card[s].span
  <2>1. PICK span \in Spans \cup {Nowhere} : span = IF dragging THEN [from |-> drag.from, to |-> place] ELSE card[s].span
    <3>1. CASE dragging
      BY <1>4, <3>1, SpanIs
    <3>2. CASE ~dragging
      BY <3>2, CardIs
    <3> QED
      BY <3>1, <3>2
  <2>2. PICK focus \in BoardLevels \cup {NoMark} : focus = Focus(level, card[s].levels)
    BY CardIs, FocusIs
  <2>3. changed[s] = [card[s] EXCEPT !.focus = focus, !.cursor = place, !.span = span]
    BY <1>8, <2>1, <2>2, Zenon
  <2> QED
    BY <2>1, <2>2, <2>3, CardIs DEF BoardCharts
<1>12. \A s \in Drawn : /\ changed[s] \in BoardCharts /\ changed[s].focus \in changed[s].levels \cup {NoMark}
                        /\ ~gesture'.hovering => changed[s].focus = Focus(marked', changed[s].levels)
  <2>1. ASSUME NEW s \in Drawn, ~hovering PROVE Focus(level, card[s].levels) = Focus(marked, card[s].levels)
    BY <1>5, <1>6, <2>1, ActiveFocus
  <2>2. \A s \in Drawn : Focus(level, card[s].levels) \in card[s].levels \cup {NoMark}
    BY CardIs, FocusIs
  <2> QED
    BY <1>7, <1>10, <1>11, <2>1, <2>2
<1>13. \A s, t \in Drawn : changed[s].cursor = changed[t].cursor /\ changed[s].span = changed[t].span
  <2>1. \A s, t \in Drawn : card[s].span = card[t].span
    BY DEF BoardInv, CardsAgree
  <2> QED
    BY <1>11, <2>1
<1>14. gesture' \in Gestures /\ marked' \in BoardLevels \cup {NoMark}
  BY <1>4, <1>7, <1>10 DEF Gestures, BoardInv
<1> QED
  BY <1>9, <1>10, <1>12, <1>13, <1>14, PointedKept

\* CursorLeaves.
LEMMA LeaveKept == ASSUME BoardInv, CursorLeaves PROVE BoardInv' /\ NotesTell
<1>1. gesture \in Gestures /\ Active \in BoardLevels \cup {NoMark} /\ marked \in BoardLevels \cup {NoMark}
  BY OfferedIs DEF BoardInv
<1>2. gesture' = [gesture EXCEPT !.hovering = FALSE, !.clearing = @ \/ gesture.drag = NoDrag] /\ Gesture /\ marked' = marked
  BY DEF CursorLeaves
<1>3. gesture' \in Gestures /\ gesture'.hovering = FALSE
  <2>1. PICK clearing \in BOOLEAN : clearing = (gesture.clearing \/ gesture.drag = NoDrag)
    OBVIOUS
  <2>2. gesture' = [gesture EXCEPT !.hovering = FALSE, !.clearing = clearing]
    BY <1>2, <2>1, Zenon
  <2> QED
    BY <1>1, <2>2 DEF Gestures
<1>4. PICK changed : changed = [s \in Drawn |-> [card[s] EXCEPT !.focus = Focus(Active, card[s].levels)]]
  OBVIOUS
<1>5. OnCards(changed)
  BY <1>4 DEF CursorLeaves
<1>6. ASSUME NEW s \in Drawn
      PROVE  /\ changed[s] \in BoardCharts /\ changed[s].levels = card[s].levels
             /\ changed[s].focus = Focus(Active, card[s].levels)
             /\ changed[s].cursor = card[s].cursor /\ changed[s].span = card[s].span
  <2>1. PICK focus \in BoardLevels \cup {NoMark} : focus = Focus(Active, card[s].levels)
    BY <1>1, CardIs, FocusIs
  <2>2. changed[s] = [card[s] EXCEPT !.focus = focus]
    BY <1>4, <2>1
  <2> QED
    BY <2>1, <2>2, CardIs DEF BoardCharts
<1>7. \A s \in Drawn : /\ changed[s] \in BoardCharts /\ changed[s].focus \in changed[s].levels \cup {NoMark}
                       /\ ~gesture'.hovering => changed[s].focus = Focus(marked', changed[s].levels)
  <2>1. \A s \in Drawn : Focus(Active, card[s].levels) \in card[s].levels \cup {NoMark}
    BY <1>1, CardIs, FocusIs
  <2>2. \A s \in Drawn : Focus(Active, card[s].levels) = Focus(marked, card[s].levels)
    BY ActiveFocus
  <2> QED
    BY <1>2, <1>6, <2>1, <2>2
<1>8. \A s, t \in Drawn : changed[s].cursor = changed[t].cursor /\ changed[s].span = changed[t].span
  <2>1. \A s, t \in Drawn : card[s].cursor = card[t].cursor /\ card[s].span = card[t].span
    BY DEF BoardInv, CardsAgree
  <2> QED
    BY <1>6, <2>1
<1> QED
  BY <1>1, <1>2, <1>3, <1>5, <1>7, <1>8, PointedKept

\* CursorCleared.
LEMMA ClearedKept == ASSUME BoardInv, CursorCleared PROVE BoardInv' /\ NotesTell
<1>1. gesture \in Gestures /\ marked \in BoardLevels \cup {NoMark}
  BY DEF BoardInv
<1>2. gesture' = [gesture EXCEPT !.clearing = FALSE] /\ Gesture /\ marked' = marked
  BY DEF CursorCleared
<1>3. gesture' \in Gestures /\ gesture'.hovering = gesture.hovering
  BY <1>1, <1>2 DEF Gestures
<1>4. PICK changed : changed = [s \in Drawn |-> [card[s] EXCEPT !.cursor = Nowhere]]
  OBVIOUS
<1>5. OnCards(changed)
  BY <1>4 DEF CursorCleared
<1>6. \A s \in Drawn : /\ changed[s] \in BoardCharts /\ changed[s].levels = card[s].levels
                       /\ changed[s].focus = card[s].focus
                       /\ changed[s].cursor = Nowhere /\ changed[s].span = card[s].span
  BY <1>4, CardIs DEF BoardCharts
<1>7. \A s \in Drawn : /\ changed[s] \in BoardCharts /\ changed[s].focus \in changed[s].levels \cup {NoMark}
                       /\ ~gesture'.hovering => changed[s].focus = Focus(marked', changed[s].levels)
  <2>1. \A s \in Drawn : ~gesture.hovering => card[s].focus = Focus(marked, card[s].levels)
    BY DEF BoardInv, CardsAgree
  <2> QED
    BY <1>2, <1>3, <1>6, <2>1, CardIs
<1>8. \A s, t \in Drawn : changed[s].cursor = changed[t].cursor /\ changed[s].span = changed[t].span
  <2>1. \A s, t \in Drawn : card[s].span = card[t].span
    BY DEF BoardInv, CardsAgree
  <2> QED
    BY <1>6, <2>1
<1> QED
  BY <1>1, <1>2, <1>3, <1>5, <1>7, <1>8, PointedKept

\* DragStarts.
LEMMA StartKept ==
    ASSUME BoardInv, NEW p \in BoardPointers, NEW place \in BoardPlaces, NEW over \in Offered, DragStarts(p, place, over)
    PROVE  BoardInv' /\ NotesTell
<1>1. gesture \in Gestures /\ marked \in BoardLevels \cup {NoMark} /\ over \in BoardLevels \cup {NoMark}
  BY OfferedIs DEF BoardInv
<1>2. marked' = (IF over = NoMark THEN marked ELSE over) /\ Gesture
  BY DEF DragStarts
<1>3. PICK hovering \in BOOLEAN : hovering = (gesture.hovering /\ over = NoMark)
  OBVIOUS
<1>4. gesture' = [drag |-> [pointer |-> p, from |-> place, to |-> place, moved |-> FALSE],
                  clearing |-> FALSE, hovering |-> hovering]
  BY <1>3, Zenon DEF DragStarts
<1>5. gesture' \in Gestures /\ gesture'.hovering = hovering
  BY <1>4 DEF Gestures, Drags
<1>6. PICK changed : changed = [s \in Drawn |-> [card[s] EXCEPT !.focus = IF over = NoMark THEN @ ELSE Focus(over, card[s].levels),
                                    !.cursor = place, !.span = [from |-> place, to |-> place]]]
  OBVIOUS
<1>7. OnCards(changed)
  BY <1>6, Zenon DEF DragStarts
<1>8. ASSUME NEW s \in Drawn
      PROVE  /\ changed[s] \in BoardCharts /\ changed[s].levels = card[s].levels
             /\ changed[s].focus = IF over = NoMark THEN card[s].focus ELSE Focus(over, card[s].levels)
             /\ changed[s].cursor = place /\ changed[s].span = [from |-> place, to |-> place]
  <2>1. PICK focus \in BoardLevels \cup {NoMark} : focus = IF over = NoMark THEN card[s].focus ELSE Focus(over, card[s].levels)
    BY <1>1, CardIs, FocusIs
  <2>2. [from |-> place, to |-> place] \in Spans
    BY DEF Spans
  <2>3. changed[s] = [card[s] EXCEPT !.focus = focus, !.cursor = place, !.span = [from |-> place, to |-> place]]
    BY <1>6, <2>1, Zenon
  <2> QED
    BY <2>1, <2>2, <2>3, CardIs DEF BoardCharts
<1>9. \A s \in Drawn : /\ changed[s] \in BoardCharts /\ changed[s].focus \in changed[s].levels \cup {NoMark}
                       /\ ~gesture'.hovering => changed[s].focus = Focus(marked', changed[s].levels)
  <2>1. \A s \in Drawn : ~gesture.hovering => card[s].focus = Focus(marked, card[s].levels)
    BY DEF BoardInv, CardsAgree
  <2>2. \A s \in Drawn : Focus(over, card[s].levels) \in card[s].levels \cup {NoMark}
    BY <1>1, CardIs, FocusIs
  <2> QED
    BY <1>2, <1>3, <1>5, <1>8, <2>1, <2>2, CardIs
<1>10. \A s, t \in Drawn : changed[s].cursor = changed[t].cursor /\ changed[s].span = changed[t].span
  BY <1>8
<1>11. marked' \in BoardLevels \cup {NoMark}
  BY <1>1, <1>2
<1> QED
  BY <1>2, <1>5, <1>7, <1>9, <1>10, <1>11, PointedKept

\* The end of a drag, or a measurement that is given up, with the cursor and the span it leaves.
LEMMA DragLeaves ==
    ASSUME BoardInv, Gesture, marked' = marked, gesture' \in Gestures, gesture'.hovering = gesture.hovering,
           NEW cursor \in BoardPlaces \cup {Nowhere}, NEW span \in Spans \cup {Nowhere},
           NEW changed, OnCards(changed),
           \A s \in Drawn : changed[s] = [card[s] EXCEPT !.cursor = cursor, !.span = span]
    PROVE  BoardInv' /\ NotesTell
<1>1. \A s \in Drawn : /\ changed[s] \in BoardCharts /\ changed[s].levels = card[s].levels
                       /\ changed[s].focus = card[s].focus
                       /\ changed[s].cursor = cursor /\ changed[s].span = span
  BY CardIs DEF BoardCharts
<1>2. \A s \in Drawn : /\ changed[s] \in BoardCharts /\ changed[s].focus \in changed[s].levels \cup {NoMark}
                       /\ ~gesture'.hovering => changed[s].focus = Focus(marked', changed[s].levels)
  <2>1. \A s \in Drawn : ~gesture.hovering => card[s].focus = Focus(marked, card[s].levels)
    BY DEF BoardInv, CardsAgree
  <2> QED
    BY <1>1, <2>1, CardIs
<1>3. \A s, t \in Drawn : changed[s].cursor = changed[t].cursor /\ changed[s].span = changed[t].span
  BY <1>1
<1>4. marked' \in BoardLevels \cup {NoMark}
  BY DEF BoardInv
<1> QED
  BY <1>2, <1>3, <1>4, PointedKept

\* DragEnds.
LEMMA EndKept == ASSUME BoardInv, NEW p \in BoardPointers, DragEnds(p) PROVE BoardInv' /\ NotesTell
<1>1. gesture \in Gestures /\ gesture.drag \in Drags
  BY DEF BoardInv, Gestures, DragEnds
<1>2. PICK clearing \in BOOLEAN : clearing = (gesture.clearing /\ ~gesture.drag.moved)
  OBVIOUS
<1>3. gesture' = [gesture EXCEPT !.drag = NoDrag, !.clearing = clearing]
  BY <1>2, Zenon DEF DragEnds
<1>4. gesture' \in Gestures /\ gesture'.hovering = gesture.hovering
  BY <1>1, <1>3 DEF Gestures
<1>5. Gesture /\ marked' = marked
  BY DEF DragEnds
<1>6. CASE gesture.drag.moved
  <2>1. PICK to \in BoardPlaces : to = gesture.drag.to
    BY <1>1 DEF Drags
  <2>2. PICK span \in Spans : span = [from |-> gesture.drag.from, to |-> gesture.drag.to]
    <3>1. gesture.drag.from \in BoardPlaces /\ gesture.drag.to \in BoardPlaces
      BY <1>1 DEF Drags
    <3> QED
      BY <3>1, SpanIs
  <2>3. PICK changed : changed = [s \in Drawn |-> [card[s] EXCEPT !.cursor = to, !.span = span]]
    OBVIOUS
  <2>4. OnCards(changed)
    BY <1>6, <2>1, <2>2, <2>3 DEF DragEnds
  <2>5. \A s \in Drawn : changed[s] = [card[s] EXCEPT !.cursor = to, !.span = span]
    BY <2>3
  <2> QED
    BY <1>4, <1>5, <2>4, <2>5, DragLeaves
<1>7. CASE ~gesture.drag.moved
  <2>1. PICK changed : changed = [s \in Drawn |-> [card[s] EXCEPT !.cursor = Nowhere, !.span = Nowhere]]
    OBVIOUS
  <2>2. OnCards(changed)
    BY <1>7, <2>1 DEF DragEnds
  <2>3. \A s \in Drawn : changed[s] = [card[s] EXCEPT !.cursor = Nowhere, !.span = Nowhere]
    BY <2>1
  <2> QED
    BY <1>4, <1>5, <2>2, <2>3, DragLeaves
<1> QED
  BY <1>6, <1>7

\* DragCancelled.
LEMMA CancelKept == ASSUME BoardInv, DragCancelled PROVE BoardInv' /\ NotesTell
<1>1. gesture' \in Gestures /\ gesture'.hovering = gesture.hovering
  BY DEF DragCancelled, BoardInv, Gestures
<1>2. PICK changed : changed = [s \in Drawn |-> [card[s] EXCEPT !.cursor = Nowhere, !.span = Nowhere]]
  OBVIOUS
<1>3. OnCards(changed)
  BY <1>2 DEF DragCancelled
<1>4. \A s \in Drawn : changed[s] = [card[s] EXCEPT !.cursor = Nowhere, !.span = Nowhere]
  BY <1>2
<1>5. Gesture /\ marked' = marked
  BY DEF DragCancelled
<1> QED
  BY <1>1, <1>3, <1>4, <1>5, DragLeaves

\* Every step of the board keeps the invariant, and the strips tell of it.
LEMMA BoardStepKept == BoardInv /\ [BoardNext]_boardVars => BoardInv' /\ NotesTell
<1> SUFFICES ASSUME BoardInv, [BoardNext]_boardVars PROVE BoardInv' /\ NotesTell
  OBVIOUS
<1>1. CASE UNCHANGED boardVars
  BY <1>1 DEF boardVars, BoardInv, CardsAgree, Drawn, NotesTell
<1>2. CASE BoardEdited
  BY <1>2, EditedKept
<1>3. CASE BoardPointed
  BY <1>3, CursorKept, StartKept, EndKept, LeaveKept, ClearedKept, CancelKept DEF BoardPointed
<1> QED
  BY <1>1, <1>2, <1>3 DEF BoardNext

\* The invariant says what every variable may be.
LEMMA BoardTyped == BoardInv => BoardTypeOK
<1> SUFFICES ASSUME BoardInv PROVE BoardTypeOK
  OBVIOUS
<1>1. \A s \in Slots : card[s] # NoChart =>
           /\ card[s].levels \subseteq BoardLevels /\ card[s].focus \in card[s].levels \cup {NoMark}
           /\ card[s].cursor \in BoardPlaces \cup {Nowhere} /\ card[s].span \in Spans \cup {Nowhere}
  BY CardIs DEF Drawn
<1>2. {gesture.clearing, gesture.hovering} \subseteq BOOLEAN
  BY DEF BoardInv, Gestures
<1> QED
  BY <1>1, <1>2 DEF BoardInv, BoardTypeOK, Pins

\* What BoardTells says of a step.
BoardSays == NotesTell /\ CardsAgree'

\* So after every step the strips have told of it and the charts agree.
LEMMA BoardStepTells == BoardInv /\ [BoardNext]_boardVars => BoardSays
BY BoardStepKept DEF BoardInv, BoardSays
=============================================================================
