--------------------------- MODULE SignalPageProofs ---------------------------
(***************************************************************************)
(* Proofs about the page of a signal, for any number of pages, forms,      *)
(* posts, page requests, charts and pointers: the live refresh that runs   *)
(* is the page's own, what the browser was told is shown, and measurements *)
(* and chosen levels survive what they should.                             *)
(*                                                                         *)
(* The invariant has a part for each: TimerInv says that the refresh that  *)
(* runs is the one the window knows how to stop; ToldInv that a change the *)
(* browser was told of is on the page or will be asked for; and ChartInv   *)
(* that every measurement fits its chart.                                  *)
(***************************************************************************)
EXTENDS SignalPage, FiniteSetTheorems, WellFoundedInduction, TLAPS

-----------------------------------------------------------------------------
(* The shell. *)

DuePosts == {id \in PostIds : posts[id] # NoPost /\ posts[id].stage = "due"}

\* The refresh that runs is the one the window knows how to stop, and on a live page with
\* nothing on the way it is the page's own.
TimerInv ==
    /\ timers = IF stopper = 0 THEN {} ELSE {stopper}
    /\ SwapsOnTheWay = {} /\ shown.page \in LivePages /\ shown.runs => stopper = shown.load

\* A change the browser was told of is on the page, or will be asked for: by the only page
\* request on the way, which left after it was stored, or by a refresh that is due.
ToldInv ==
    /\ \A id \in PostIds : posts[id] # NoPost => posts[id].write <= writes
    /\ \A id \in PostIds : posts[id] # NoPost /\ ~Stores(posts[id].form) => posts[id].write = 0
    /\ \A id \in SwapIds : swaps[id] # NoSwap => swaps[id].since <= writes
    /\ DuePosts = {} =>
         /\ \A id \in SwapIds : swaps[id] # NoSwap /\ swaps[id].alone => told <= swaps[id].since
         /\ SwapsOnTheWay = {} /\ shown.alone => told <= shown.writes

ShellInv == ShellTypeOK /\ TimerInv /\ ToldInv

\* Every form reports to an element of the page: StatusOf.
LEMMA ElementOf == ASSUME NEW f \in Forms PROVE StatusOf(f) \in Elements
BY DEF Elements

\* The page as it is first loaded satisfies the invariant: ShellInit.
LEMMA ShellInitially == ShellInit => ShellInv
<1> SUFFICES ASSUME ShellInit PROVE ShellInv
  OBVIOUS
<1>1. MaxWrites \in Nat /\ MaxLoads \in Nat /\ MaxLoads >= 1 /\ MaxSubmits \in Nat /\ MaxLost \in Nat
  BY ShellAssumption
<1>2. PICK page \in Pages :
        shown = [page |-> page, writes |-> 0, load |-> 1, alone |-> TRUE,
                 runs |-> TRUE, declared |-> {page} \cap Declaring]
  BY DEF ShellInit
<1>3. ShellTypeOK
  <2>1. writes = 0 /\ told = 0 /\ submits = 0 /\ lost = 0
    BY DEF ShellInit
  <2>2. shown \in [page : Pages, writes : 0 .. 0, load : 1 .. MaxLoads, alone : BOOLEAN,
                  runs : BOOLEAN, declared : SUBSET Declaring]
    BY <1>1, <1>2
  <2>3. status \in [Elements -> {"blank", "busy", "done", "failed"}]
    BY DEF ShellInit, FreshStatus
  <2>4. posts \in [PostIds -> Post \cup {NoPost}] /\ swaps \in [SwapIds -> Swap \cup {NoSwap}]
    BY DEF ShellInit
  <2>5. timers \subseteq 1 .. MaxLoads /\ stopper \in 0 .. MaxLoads
    BY <1>1 DEF ShellInit
  <2> QED
    BY <1>1, <2>1, <2>2, <2>3, <2>4, <2>5 DEF ShellTypeOK
<1>4. TimerInv
  BY <1>2 DEF ShellInit, TimerInv
<1>5. ToldInv
  BY <1>2 DEF ShellInit, ToldInv, DuePosts
<1> QED
  BY <1>3, <1>4, <1>5 DEF ShellInv

\* A page request: everything else on the way is not alone any more.
LEMMA SwapPageKept ==
    ASSUME ShellInv, NEW page \in Pages, SwapPage(page),
           UNCHANGED <<writes, shown>>,
           told' \in 0 .. writes, status' \in [Elements -> {"blank", "busy", "done", "failed"}],
           posts' \in [PostIds -> Post \cup {NoPost}],
           \A id \in PostIds : posts'[id] # NoPost => posts[id] # NoPost /\ posts'[id].write = posts[id].write /\ posts'[id].form = posts[id].form,
           submits' \in 0 .. MaxSubmits, lost' \in 0 .. MaxLost
    PROVE  ShellInv'
<1>1. PICK id \in Free(SwapIds, swaps, NoSwap) :
        swaps' = [other \in SwapIds |->
               IF other = id
               THEN [page |-> page, since |-> writes, alone |-> SwapsOnTheWay = {}]
               ELSE IF swaps[other] = NoSwap THEN NoSwap ELSE [swaps[other] EXCEPT !.alone = FALSE]]
  BY DEF SwapPage
<1>2. id \in SwapIds /\ swaps[id] = NoSwap /\ writes \in Nat /\ writes \in 0 .. MaxWrites /\ MaxWrites \in Nat
  <2>1. id \in SwapIds /\ swaps[id] = NoSwap
    BY DEF Free
  <2>2. writes \in 0 .. MaxWrites /\ MaxWrites \in Nat
    BY ShellAssumption DEF ShellInv, ShellTypeOK
  <2> QED
    BY <2>1, <2>2
<1>3. swaps \in [SwapIds -> Swap \cup {NoSwap}]
  BY DEF ShellInv, ShellTypeOK
<1> PICK sole \in BOOLEAN : sole = (SwapsOnTheWay = {})
  OBVIOUS
<1> DEFINE new == [page |-> page, since |-> writes, alone |-> sole]
<1>4. new \in Swap /\ new # NoSwap /\ new.since = writes
  <2>1. new \in Swap
    BY <1>2 DEF Swap
  <2>2. new.since = writes
    OBVIOUS
  <2> HIDE DEF new
  <2> QED
    BY <2>1, <2>2, NothingOnTheWay
<1>5. swaps'[id] = new /\ (sole => SwapsOnTheWay = {})
  BY <1>1, <1>2
<1>6. \A other \in SwapIds \ {id} :
         /\ swaps[other] = NoSwap => swaps'[other] = NoSwap
         /\ swaps[other] # NoSwap => /\ swaps'[other] \in Swap
                                     /\ swaps'[other].since = swaps[other].since
                                     /\ swaps'[other].alone = FALSE
  BY <1>1, <1>3 DEF Swap
<1> HIDE DEF new
<1>7. swaps' \in [SwapIds -> Swap \cup {NoSwap}]
  BY <1>1, <1>4, <1>5, <1>6
<1>8. timers' = {} /\ stopper' = 0
  BY DEF SwapPage, ShellInv, TimerInv
<1>9. ShellTypeOK'
  <2>1. /\ writes' \in 0 .. MaxWrites /\ timers' \subseteq 1 .. MaxLoads /\ stopper' \in 0 .. MaxLoads
        /\ told' \in 0 .. writes'
    BY <1>2, <1>8, ShellAssumption
  <2>2. shown' \in [page : Pages, writes : 0 .. writes', load : 1 .. MaxLoads, alone : BOOLEAN,
                  runs : BOOLEAN, declared : SUBSET Declaring]
    BY DEF ShellInv, ShellTypeOK
  <2> QED
    BY <1>7, <2>1, <2>2, Zenon DEF ShellTypeOK
<1>10. id \in SwapsOnTheWay'
  BY <1>2, <1>4, <1>5 DEF SwapsOnTheWay
<1>11. TimerInv'
  BY <1>8, <1>10 DEF TimerInv
<1>12. \A other \in SwapIds : swaps'[other] # NoSwap => swaps'[other].since <= writes
  <2>1. \A other \in SwapIds : swaps[other] # NoSwap => swaps[other].since <= writes
    BY DEF ShellInv, ToldInv
  <2> QED
    BY <1>2, <1>4, <1>5, <1>6, <2>1
<1>13. \A other \in SwapIds : swaps'[other] # NoSwap /\ swaps'[other].alone => told' <= swaps'[other].since
  BY <1>2, <1>4, <1>5, <1>6
<1>14. ToldInv'
  BY <1>10, <1>12, <1>13 DEF ShellInv, ToldInv
<1> QED
  BY <1>9, <1>11, <1>14 DEF ShellInv

\* A document is replaced: its number is new, and nothing is said on it yet.
LEMMA DocumentMade ==
    ASSUME ShellInv, NEW page \in Pages, NEW seen \in 0 .. writes, NEW alone \in BOOLEAN,
           NEW declared \in SUBSET Declaring, Document(page, seen, alone, declared)
    PROVE  /\ shown' \in [page : Pages, writes : 0 .. writes, load : 1 .. MaxLoads, alone : BOOLEAN,
                           runs : BOOLEAN, declared : SUBSET Declaring]
           /\ shown'.writes = seen /\ shown'.alone = alone /\ shown'.load = shown.load + 1
           /\ status' \in [Elements -> {"blank", "busy", "done", "failed"}]
<1>1. shown.load \in 1 .. MaxLoads /\ MaxLoads \in Nat /\ shown.load < MaxLoads
  BY ShellAssumption DEF ShellInv, ShellTypeOK, Document
<1>2. PICK runs \in BOOLEAN :
        shown' = [page |-> page, writes |-> seen, load |-> shown.load + 1, alone |-> alone, runs |-> runs,
                  declared |-> IF runs THEN declared \cup ({page} \cap Declaring) ELSE declared]
  BY Zenon DEF Document
<1> PICK d : d = IF runs THEN declared \cup ({page} \cap Declaring) ELSE declared
  OBVIOUS
<1>3. d \in SUBSET Declaring
  OBVIOUS
<1>4. shown' = [page |-> page, writes |-> seen, load |-> shown.load + 1, alone |-> alone, runs |-> runs, declared |-> d]
  BY <1>2, Zenon
<1>5. shown.load + 1 \in 1 .. MaxLoads
  BY <1>1
<1>6. status' \in [Elements -> {"blank", "busy", "done", "failed"}]
  BY DEF Document, FreshStatus
<1> QED
  BY <1>3, <1>4, <1>5, <1>6

\* The new document runs the only refresh there is, or none does.
LEMMA TimerStarted ==
    ASSUME NEW running, NEW known, StartTimer(running, known),
           running = (IF known = 0 THEN {} ELSE {known}), known \in 0 .. MaxLoads,
           shown'.load \in 1 .. MaxLoads
    PROVE  /\ timers' \subseteq 1 .. MaxLoads /\ stopper' \in 0 .. MaxLoads
           /\ timers' = IF stopper' = 0 THEN {} ELSE {stopper'}
           /\ shown'.page \in LivePages /\ shown'.runs => stopper' = shown'.load
<1>1. MaxLoads \in Nat
  BY ShellAssumption
<1>2. CASE shown'.page \in LivePages /\ shown'.runs
  <2>1. timers' = (running \ {known}) \cup {shown'.load} /\ stopper' = shown'.load
    BY <1>2 DEF StartTimer
  <2> QED
    BY <1>1, <2>1
<1>3. CASE ~(shown'.page \in LivePages /\ shown'.runs)
  <2>1. timers' = running /\ stopper' = known
    BY <1>3, Zenon DEF StartTimer
  <2> QED
    BY <1>1, <1>3, <2>1
<1> QED
  BY <1>2, <1>3

\* The answer of a page request keeps the shell's invariant: AnswerSwap.
LEMMA AnswerSwapKept ==
    ASSUME ShellInv, NEW id \in SwapIds, AnswerSwap(id)
    PROVE  ShellInv'
<1> PICK s : s = swaps[id]
  OBVIOUS
<1>1. s \in Swap /\ s # NoSwap
  BY DEF AnswerSwap, ShellInv, ShellTypeOK
<1>2. /\ s.page \in Pages /\ s.since \in 0 .. MaxWrites /\ s.alone \in BOOLEAN /\ s.since <= writes
      /\ writes \in 0 .. MaxWrites /\ MaxWrites \in Nat
  BY <1>1, ShellAssumption DEF Swap, ShellInv, ShellTypeOK, ToldInv
<1>3. PICK seen \in s.since .. writes : Document(s.page, seen, s.alone, shown.declared)
  BY Zenon DEF AnswerSwap
<1>4. seen \in 0 .. writes /\ s.since <= seen /\ shown.declared \in SUBSET Declaring
  BY <1>2 DEF ShellInv, ShellTypeOK
<1>5. /\ shown' \in [page : Pages, writes : 0 .. writes, load : 1 .. MaxLoads, alone : BOOLEAN,
                           runs : BOOLEAN, declared : SUBSET Declaring]
      /\ shown'.writes = seen /\ shown'.alone = s.alone /\ shown'.load = shown.load + 1
      /\ status' \in [Elements -> {"blank", "busy", "done", "failed"}]
  <2> PICK alone \in BOOLEAN : alone = s.alone
    BY <1>2
  <2> PICK declared \in SUBSET Declaring : declared = shown.declared
    BY <1>4
  <2>1. Document(s.page, seen, alone, declared)
    BY <1>3
  <2>2. shown'.writes = seen /\ shown'.alone = alone /\ shown'.load = shown.load + 1
    <3>1. shown'.writes = seen
      BY <1>2, <1>4, <2>1, DocumentMade, SMT
    <3>2. shown'.alone = alone
      BY <2>1 DEF Document
    <3>3. shown'.load = shown.load + 1
      BY <1>2, <1>4, <2>1, DocumentMade, Zenon
    <3> QED
      BY <3>1, <3>2, <3>3, Zenon
  <2>3. shown' \in [page : Pages, writes : 0 .. writes, load : 1 .. MaxLoads, alone : BOOLEAN,
                     runs : BOOLEAN, declared : SUBSET Declaring]
    BY <1>2, <1>4, <2>1, DocumentMade, Zenon
  <2>4. status' \in [Elements -> {"blank", "busy", "done", "failed"}]
    BY <1>2, <1>4, <2>1, DocumentMade, Zenon
  <2> QED
    BY <2>2, <2>3, <2>4
<1>6. /\ swaps' = [swaps EXCEPT ![id] = NoSwap] /\ StartTimer(timers, stopper)
      /\ UNCHANGED <<writes, posts, told, submits, lost>>
  BY DEF AnswerSwap
<1>7. /\ timers' \subseteq 1 .. MaxLoads /\ stopper' \in 0 .. MaxLoads
      /\ timers' = IF stopper' = 0 THEN {} ELSE {stopper'}
      /\ shown'.page \in LivePages /\ shown'.runs => stopper' = shown'.load
  <2>1. timers = (IF stopper = 0 THEN {} ELSE {stopper}) /\ stopper \in 0 .. MaxLoads
    BY DEF ShellInv, TimerInv, ShellTypeOK
  <2>2. shown'.load \in 1 .. MaxLoads
    BY <1>5
  <2> QED
    BY <1>6, <2>1, <2>2, TimerStarted
<1>8. swaps' \in [SwapIds -> Swap \cup {NoSwap}] /\ \A other \in SwapIds : swaps'[other] # NoSwap => swaps'[other] = swaps[other]
  BY <1>6 DEF ShellInv, ShellTypeOK
<1>9. ShellTypeOK'
  BY <1>5, <1>6, <1>7, <1>8, Zenon DEF ShellInv, ShellTypeOK
<1>10. TimerInv'
  BY <1>7 DEF TimerInv
<1>11. told' = told /\ DuePosts' = DuePosts /\ told \in Nat /\ seen \in Nat
  BY <1>2, <1>4, <1>6 DEF DuePosts, ShellInv, ShellTypeOK
<1>12. s.alone /\ DuePosts = {} => told <= seen
  <2>1. s.alone /\ DuePosts = {} => told <= s.since
    BY <1>1 DEF ShellInv, ToldInv
  <2> QED
    BY <1>2, <1>4, <1>11, <2>1
<1>13. ToldInv'
  BY <1>5, <1>6, <1>8, <1>11, <1>12 DEF ShellInv, ToldInv
<1> QED
  BY <1>9, <1>10, <1>13 DEF ShellInv

\* A failed page request, which loads the page anew, keeps it: FailSwap.
LEMMA FailSwapKept ==
    ASSUME ShellInv, NEW id \in SwapIds, FailSwap(id)
    PROVE  ShellInv'
<1> PICK s : s = swaps[id]
  OBVIOUS
<1>1. s \in Swap /\ s # NoSwap
  BY DEF FailSwap, ShellInv, ShellTypeOK
<1>2. s.page \in Pages /\ writes \in 0 .. MaxWrites /\ MaxWrites \in Nat /\ writes \in 0 .. writes /\ {} \in SUBSET Declaring
  BY <1>1, ShellAssumption DEF Swap, ShellInv, ShellTypeOK
<1>3. Document(s.page, writes, TRUE, {}) /\ StartTimer({}, 0) /\ UNCHANGED <<writes, told, submits>>
      /\ swaps' = [other \in SwapIds |-> NoSwap] /\ posts' = [other \in PostIds |-> NoPost]
      /\ lost < MaxLost /\ lost' = lost + 1
  BY Zenon DEF FailSwap
<1>4. /\ shown' \in [page : Pages, writes : 0 .. writes, load : 1 .. MaxLoads, alone : BOOLEAN,
                           runs : BOOLEAN, declared : SUBSET Declaring]
      /\ shown'.writes = writes /\ shown'.load = shown.load + 1
      /\ status' \in [Elements -> {"blank", "busy", "done", "failed"}]
  BY <1>2, <1>3, DocumentMade, Zenon
<1>5. /\ timers' \subseteq 1 .. MaxLoads /\ stopper' \in 0 .. MaxLoads
      /\ timers' = IF stopper' = 0 THEN {} ELSE {stopper'}
      /\ shown'.page \in LivePages /\ shown'.runs => stopper' = shown'.load
  <2>1. {} = (IF 0 = 0 THEN {} ELSE {0}) /\ 0 \in 0 .. MaxLoads
    BY ShellAssumption
  <2>2. shown'.load \in 1 .. MaxLoads
    BY <1>4
  <2> QED
    BY <1>3, <2>1, <2>2, TimerStarted, Zenon
<1>6. lost' \in 0 .. MaxLost
  BY <1>3, ShellAssumption DEF ShellInv, ShellTypeOK
<1>7. swaps' \in [SwapIds -> Swap \cup {NoSwap}] /\ posts' \in [PostIds -> Post \cup {NoPost}]
  BY <1>3
<1>8. ShellTypeOK'
  BY <1>3, <1>4, <1>5, <1>6, <1>7, Zenon DEF ShellInv, ShellTypeOK
<1>9. TimerInv'
  BY <1>5 DEF TimerInv
<1>10. told' <= shown'.writes
  BY <1>2, <1>3, <1>4 DEF ShellInv, ShellTypeOK
<1>11. ToldInv'
  BY <1>3, <1>10 DEF ToldInv
<1> QED
  BY <1>8, <1>9, <1>11 DEF ShellInv

\* The posts move on while the document and the page requests stay.
LEMMA PostsKept ==
    ASSUME ShellInv, UNCHANGED <<shown, swaps, timers, stopper>>,
           writes' \in writes .. MaxWrites, told' \in 0 .. writes',
           posts' \in [PostIds -> Post \cup {NoPost}],
           \A id \in PostIds : posts'[id] # NoPost =>
               posts'[id].write <= writes' /\ (~Stores(posts'[id].form) => posts'[id].write = 0),
           DuePosts' = {} => DuePosts = {} /\ told' = told,
           status' \in [Elements -> {"blank", "busy", "done", "failed"}],
           submits' \in 0 .. MaxSubmits, lost' \in 0 .. MaxLost
    PROVE  ShellInv'
<1>1. writes \in 0 .. MaxWrites /\ MaxWrites \in Nat /\ writes' \in 0 .. MaxWrites /\ writes <= writes'
  BY ShellAssumption DEF ShellInv, ShellTypeOK
<1>2. shown' \in [page : Pages, writes : 0 .. writes', load : 1 .. MaxLoads, alone : BOOLEAN,
                  runs : BOOLEAN, declared : SUBSET Declaring]
  <2>1. 0 .. writes \subseteq 0 .. writes'
    BY <1>1
  <2> QED
    BY <2>1 DEF ShellInv, ShellTypeOK
<1>3. ShellTypeOK'
  BY <1>1, <1>2, Zenon DEF ShellInv, ShellTypeOK
<1>4. TimerInv'
  BY DEF ShellInv, TimerInv, SwapsOnTheWay
<1>5. \A id \in SwapIds : swaps[id] # NoSwap => swaps[id].since <= writes'
  <2> TAKE id \in SwapIds
  <2> HAVE swaps[id] # NoSwap
  <2>1. swaps[id] \in Swap /\ swaps[id].since <= writes
    BY DEF ShellInv, ShellTypeOK, ToldInv
  <2>2. swaps[id].since \in 0 .. MaxWrites
    BY <2>1 DEF Swap
  <2> QED
    BY <1>1, <2>1, <2>2
<1>6. ToldInv'
  BY <1>5 DEF ShellInv, ToldInv, SwapsOnTheWay
<1> QED
  BY <1>3, <1>4, <1>6 DEF ShellInv

\* What a form reports is one of the words its element may show: Says.
LEMMA SaysTyped ==
    ASSUME ShellInv, NEW f \in Forms, NEW load, NEW what \in {"busy", "done", "failed"}, Says(f, load, what)
    PROVE  status' \in [Elements -> {"blank", "busy", "done", "failed"}]
BY ElementOf DEF Says, ShellInv, ShellTypeOK

\* Links and forms keep the shell's invariant: UsesPage.
LEMMA FormsUsedKept ==
    ASSUME ShellInv, UsesPage
    PROVE  ShellInv'
<1>1. /\ MaxWrites \in Nat /\ MaxSubmits \in Nat /\ writes \in 0 .. MaxWrites /\ told \in 0 .. writes /\ submits \in 0 .. MaxSubmits
      /\ posts \in [PostIds -> Post \cup {NoPost}] /\ lost \in 0 .. MaxLost /\ writes \in writes .. MaxWrites
      /\ status \in [Elements -> {"blank", "busy", "done", "failed"}]
      /\ shown.page \in Pages /\ shown.load \in 1 .. MaxLoads
  BY ShellAssumption DEF ShellInv, ShellTypeOK
<1>2. submits < MaxSubmits /\ submits' = submits + 1 => submits' \in 0 .. MaxSubmits
  BY <1>1
<1>3. ASSUME NEW page \in Pages, FollowLink(page) PROVE ShellInv'
  <2>1. SwapPage(page) /\ UNCHANGED <<writes, shown, status, posts, told, lost>> /\ submits' \in 0 .. MaxSubmits
    BY <1>2, <1>3 DEF FollowLink
  <2> QED
    BY <1>1, <2>1, SwapPageKept
<1>4. ASSUME ChangeRoot PROVE ShellInv'
  <2> PICK page : page = IF shown.page = "signal" /\ "workspace" \in Pages THEN "workspace" ELSE shown.page
    OBVIOUS
  <2>1. page \in Pages /\ FollowLink(page)
    BY <1>1, <1>4, Zenon DEF ChangeRoot
  <2> QED
    BY <1>3, <2>1
<1>5. ASSUME NEW f \in Forms, Invalid(f) PROVE ShellInv'
  <2>1. UNCHANGED <<writes, shown, posts, swaps, timers, stopper, told, lost>> /\ submits' \in 0 .. MaxSubmits
    BY <1>2, <1>5 DEF Invalid
  <2>2. status' \in [Elements -> {"blank", "busy", "done", "failed"}]
    BY <1>5, SaysTyped DEF Invalid
  <2>3. DuePosts' = DuePosts
    BY <2>1 DEF DuePosts
  <2>4. \A id \in PostIds : posts'[id] # NoPost =>
               posts'[id].write <= writes' /\ (~Stores(posts'[id].form) => posts'[id].write = 0)
    BY <2>1 DEF ShellInv, ToldInv
  <2> QED
    BY <1>1, <2>1, <2>2, <2>3, <2>4, PostsKept
<1>6. ASSUME NEW f \in Forms, Submit(f) PROVE ShellInv'
  <2>1. UNCHANGED <<writes, shown, swaps, timers, stopper, told, lost>> /\ submits' \in 0 .. MaxSubmits
    BY <1>2, <1>6 DEF Submit
  <2>2. status' \in [Elements -> {"blank", "busy", "done", "failed"}]
    BY <1>6, SaysTyped DEF Submit
  <2>3. PICK id \in Free(PostIds, posts, NoPost) :
          posts' = [posts EXCEPT ![id] = [form |-> f, load |-> shown.load, stage |-> "sent", write |-> 0]]
    BY <1>6 DEF Submit
  <2> DEFINE new == [form |-> f, load |-> shown.load, stage |-> "sent", write |-> 0]
  <2>4. new \in Post /\ new.write = 0 /\ new.stage = "sent"
    BY <1>1 DEF Post
  <2>5. id \in PostIds /\ posts[id] = NoPost
    BY <2>3 DEF Free
  <2>6. posts' = [posts EXCEPT ![id] = new]
    BY <2>3
  <2> HIDE DEF new
  <2>7. posts' \in [PostIds -> Post \cup {NoPost}] /\ posts'[id] = new /\ \A other \in PostIds \ {id} : posts'[other] = posts[other]
    BY <1>1, <2>4, <2>5, <2>6
  <2>8. DuePosts' = DuePosts
    BY <2>4, <2>5, <2>7 DEF DuePosts
  <2>9. \A other \in PostIds : posts'[other] # NoPost =>
               posts'[other].write <= writes' /\ (~Stores(posts'[other].form) => posts'[other].write = 0)
    BY <1>1, <2>1, <2>4, <2>7 DEF ShellInv, ToldInv
  <2> QED
    BY <1>1, <2>1, <2>2, <2>7, <2>8, <2>9, PostsKept
<1> QED
  BY <1>3, <1>4, <1>5, <1>6 DEF UsesPage

\* A post is answered or lost, or its refresh is made.
LEMMA PostGoesOnKept ==
    ASSUME ShellInv, PostGoesOn
    PROVE  ShellInv'
<1> PICK id \in PostIds : ServePost(id) \/ AnswerRefused(id) \/ AnswerStored(id) \/ RefreshDue(id) \/ LosePost(id)
  BY DEF PostGoesOn
<1> PICK p : p = posts[id]
  OBVIOUS
<1>1. /\ MaxWrites \in Nat /\ writes \in 0 .. MaxWrites /\ told \in 0 .. writes /\ submits \in 0 .. MaxSubmits
      /\ posts \in [PostIds -> Post \cup {NoPost}] /\ lost \in 0 .. MaxLost /\ writes \in writes .. MaxWrites
      /\ status \in [Elements -> {"blank", "busy", "done", "failed"}]
      /\ shown.page \in Pages /\ MaxLost \in Nat
  BY ShellAssumption DEF ShellInv, ShellTypeOK
<1>2. p # NoPost /\ p \in Post
  BY <1>1 DEF ServePost, AnswerRefused, AnswerStored, RefreshDue, LosePost
<1>3. /\ p.form \in Forms /\ p.load \in 1 .. MaxLoads /\ p.write \in 0 .. MaxWrites /\ p.stage \in {"sent", "stored", "refused", "due"}
      /\ p.write <= writes /\ (~Stores(p.form) => p.write = 0)
  BY <1>2 DEF Post, ShellInv, ToldInv
<1>4. \A other \in PostIds : posts[other] # NoPost =>
         posts[other].write <= writes /\ (~Stores(posts[other].form) => posts[other].write = 0)
  BY DEF ShellInv, ToldInv
<1>5. ASSUME posts' = [posts EXCEPT ![id] = NoPost]
      PROVE  /\ posts' \in [PostIds -> Post \cup {NoPost}]
             /\ \A other \in PostIds : posts'[other] # NoPost => posts'[other] = posts[other]
             /\ p.stage # "due" => DuePosts' = DuePosts
  <2>1. posts' \in [PostIds -> Post \cup {NoPost}] /\ \A other \in PostIds : posts'[other] = IF other = id THEN NoPost ELSE posts[other]
    BY <1>1, <1>5
  <2> QED
    BY <2>1 DEF DuePosts
<1>6. ASSUME posts' = [posts EXCEPT ![id] = NoPost], p.stage # "due",
             UNCHANGED <<writes, shown, swaps, timers, stopper, told>>,
             status' \in [Elements -> {"blank", "busy", "done", "failed"}],
             submits' \in 0 .. MaxSubmits, lost' \in 0 .. MaxLost
      PROVE  ShellInv'
  <2>1. \A other \in PostIds : posts'[other] # NoPost =>
               posts'[other].write <= writes' /\ (~Stores(posts'[other].form) => posts'[other].write = 0)
    BY <1>4, <1>5, <1>6
  <2> QED
    BY <1>1, <1>5, <1>6, <2>1, PostsKept
<1>7. ASSUME NEW q \in Post, posts' = [posts EXCEPT ![id] = q], q.form = p.form,
             writes' \in writes .. MaxWrites, q.write <= writes', ~Stores(q.form) => q.write = 0,
             p.stage # "due", q.stage = "due" \/ told' = told, told' \in 0 .. writes',
             UNCHANGED <<shown, swaps, timers, stopper, submits, lost>>,
             status' \in [Elements -> {"blank", "busy", "done", "failed"}]
      PROVE  ShellInv'
  <2>1. /\ posts' \in [PostIds -> Post \cup {NoPost}] /\ posts'[id] = q /\ q # NoPost
        /\ \A other \in PostIds \ {id} : posts'[other] = posts[other]
    BY <1>1, <1>7, NothingOnTheWay
  <2>2. \A other \in PostIds : posts'[other] # NoPost =>
               posts'[other].write <= writes' /\ (~Stores(posts'[other].form) => posts'[other].write = 0)
    <3> TAKE other \in PostIds
    <3> HAVE posts'[other] # NoPost
    <3>1. CASE other = id
      BY <1>7, <2>1, <3>1
    <3>2. CASE other # id
      <4>1. posts'[other] = posts[other] /\ posts[other] \in Post
        BY <1>1, <2>1, <3>2
      <4>2. posts[other].write \in 0 .. MaxWrites
        BY <4>1 DEF Post
      <4> QED
        BY <1>1, <1>4, <1>7, <4>1, <4>2
    <3> QED
      BY <3>1, <3>2
  <2>3. DuePosts' = {} => DuePosts = {} /\ told' = told
    BY <1>7, <2>1 DEF DuePosts
  <2>4. UNCHANGED <<shown, swaps, timers, stopper>> /\ submits' \in 0 .. MaxSubmits /\ lost' \in 0 .. MaxLost
    BY <1>1, <1>7
  <2> QED
    BY <1>7, <2>1, <2>2, <2>3, <2>4, PostsKept
<1>8. CASE ServePost(id)
  <2>1. p.stage = "sent" /\ UNCHANGED <<shown, status, swaps, timers, stopper, told, submits, lost>>
    BY <1>8 DEF ServePost
  <2>2. CASE posts' = [posts EXCEPT ![id] = [p EXCEPT !.stage = "refused"]] /\ UNCHANGED writes
    <3> PICK q : q = [p EXCEPT !.stage = "refused"]
      OBVIOUS
    <3>1. q \in Post /\ q.form = p.form /\ q.write = p.write
      BY <1>2 DEF Post
    <3> QED
      BY <1>1, <1>3, <1>7, <2>1, <2>2, <3>1
  <2>3. CASE /\ writes < MaxWrites
             /\ writes' = IF Stores(p.form) THEN writes + 1 ELSE writes
             /\ posts' = [posts EXCEPT ![id] =
                  [p EXCEPT !.stage = "stored", !.write = IF Stores(p.form) THEN writes' ELSE 0]]
    <3> PICK n : n = IF Stores(p.form) THEN writes' ELSE 0
      OBVIOUS
    <3>1. writes' \in writes .. MaxWrites /\ n \in 0 .. MaxWrites /\ n <= writes' /\ (~Stores(p.form) => n = 0)
          /\ told \in 0 .. writes'
      BY <1>1, <2>3
    <3> PICK q : q = [p EXCEPT !.stage = "stored", !.write = n]
      OBVIOUS
    <3>2. q \in Post /\ q.form = p.form /\ q.write = n
      BY <1>2, <3>1 DEF Post
    <3>3. posts' = [posts EXCEPT ![id] = q]
      BY <2>3
    <3> QED
      BY <1>1, <1>7, <2>1, <3>1, <3>2, <3>3
  <2> QED
    BY <1>8, <2>2, <2>3, Zenon DEF ServePost
<1>9. CASE AnswerRefused(id)
  <2>1. /\ p.stage = "refused" /\ posts' = [posts EXCEPT ![id] = NoPost] /\ Says(p.form, p.load, "failed")
        /\ UNCHANGED <<writes, shown, swaps, timers, stopper, told, submits, lost>>
    BY <1>9 DEF AnswerRefused
  <2>2. status' \in [Elements -> {"blank", "busy", "done", "failed"}]
    BY <1>3, <2>1, SaysTyped
  <2> QED
    BY <1>1, <1>6, <2>1, <2>2
<1>10. CASE LosePost(id)
  <2>1. /\ p.stage \in {"sent", "stored", "refused"} /\ posts' = [posts EXCEPT ![id] = NoPost] /\ lost < MaxLost /\ lost' = lost + 1
        /\ Says(p.form, p.load, "failed") \/ status' = status
        /\ UNCHANGED <<writes, shown, swaps, timers, stopper, told, submits>>
    BY <1>10 DEF LosePost
  <2>2. status' \in [Elements -> {"blank", "busy", "done", "failed"}]
    BY <1>1, <1>3, <2>1, SaysTyped
  <2>3. lost' \in 0 .. MaxLost
    BY <1>1, <2>1
  <2> QED
    BY <1>1, <1>6, <2>1, <2>2, <2>3
<1>11. CASE RefreshDue(id)
  <2>1. /\ posts' = [posts EXCEPT ![id] = NoPost] /\ SwapPage(shown.page)
        /\ UNCHANGED <<writes, shown, status, told, submits, lost>>
    BY <1>11 DEF RefreshDue, RefreshPage
  <2> QED
    BY <1>1, <1>5, <2>1, SwapPageKept
<1>12. CASE AnswerStored(id)
  <2>1. /\ p.stage = "stored" /\ Says(p.form, p.load, "done") /\ told' = Newer(told, p.write)
        /\ UNCHANGED <<writes, shown, submits, lost>>
        /\ \/ posts' = [posts EXCEPT ![id] = [p EXCEPT !.stage = "due"]] /\ UNCHANGED <<swaps, timers, stopper>>
           \/ posts' = [posts EXCEPT ![id] = NoPost] /\ Stores(p.form) /\ SwapPage(shown.page)
           \/ posts' = [posts EXCEPT ![id] = NoPost] /\ ~Stores(p.form) /\ UNCHANGED <<swaps, timers, stopper>>
    BY <1>12 DEF AnswerStored, RefreshPage
  <2>2. status' \in [Elements -> {"blank", "busy", "done", "failed"}]
    BY <1>3, <2>1, SaysTyped
  <2>3. told' \in 0 .. writes /\ (~Stores(p.form) => told' = told)
    BY <1>1, <1>3, <2>1 DEF Newer
  <2>4. CASE posts' = [posts EXCEPT ![id] = [p EXCEPT !.stage = "due"]] /\ UNCHANGED <<swaps, timers, stopper>>
    <3> PICK q : q = [p EXCEPT !.stage = "due"]
      OBVIOUS
    <3>1. q \in Post /\ q.form = p.form /\ q.write = p.write /\ q.stage = "due"
      BY <1>2 DEF Post
    <3> QED
      BY <1>1, <1>3, <1>7, <2>1, <2>2, <2>3, <2>4, <3>1
  <2>5. CASE posts' = [posts EXCEPT ![id] = NoPost] /\ SwapPage(shown.page)
    BY <1>1, <1>5, <2>1, <2>2, <2>3, <2>5, SwapPageKept
  <2>6. CASE posts' = [posts EXCEPT ![id] = NoPost] /\ ~Stores(p.form) /\ UNCHANGED <<swaps, timers, stopper>>
    BY <1>1, <1>6, <2>1, <2>2, <2>3, <2>6
  <2> QED
    BY <2>1, <2>4, <2>5, <2>6
<1> QED
  BY <1>8, <1>9, <1>10, <1>11, <1>12

\* What the invariant says of the page.
LEMMA ShellTells == ShellInv => OneRefresh /\ PageTells
<1> SUFFICES ASSUME ShellInv PROVE OneRefresh /\ PageTells
  OBVIOUS
<1>1. timers = {} \/ timers = {stopper}
  BY DEF ShellInv, TimerInv
<1>2. Cardinality(timers) <= 1
  <2>1. CASE timers = {}
    <3>1. Cardinality(timers) = 0
      BY <2>1, FS_EmptySet
    <3> QED
      BY <3>1
  <2>2. CASE timers = {stopper}
    <3>1. Cardinality(timers) = 1
      BY <2>2, FS_Singleton
    <3> QED
      BY <3>1
  <2> QED
    BY <1>1, <2>1, <2>2
<1>3. shown.load # 0
  BY DEF ShellInv, ShellTypeOK
<1>4. OneRefresh
  BY <1>2, <1>3 DEF OneRefresh, ShellInv, TimerInv
<1>5. PageTells
  BY DEF PageTells, ShellInv, ToldInv, DuePosts
<1> QED
  BY <1>4, <1>5

-----------------------------------------------------------------------------
(* The charts. *)

\* A share of the bars, at least a minimum, is never more than there are: AtLeast.
LEMMA AtLeastFits ==
    ASSUME NEW percent \in Nat, NEW minimum \in Nat, NEW total \in Nat
    PROVE  AtLeast(percent, minimum, total) \in 0 .. total
<1>1. (total * percent + 99) \div 100 \in Int
  OBVIOUS
<1> PICK x \in Int : x = (total * percent + 99) \div 100
  BY <1>1
<1>2. Greater(minimum, x) \in Int /\ Greater(minimum, x) >= 0
  BY DEF Greater
<1> QED
  BY <1>2 DEF AtLeast, Smaller

\* A preset shows a number of the bars there are: PresetCount.
LEMMA PresetFits ==
    ASSUME NEW c \in Charts, NEW key \in RangeKeys, NEW total \in Nat
    PROVE  PresetCount(c, key, total) \in 0 .. total
<1>1. \A percent \in {20, 22, 25, 45, 50}, minimum \in {4, 6, 10} :
          AtLeast(percent, minimum, total) \in 0 .. total
  <2> SUFFICES ASSUME NEW percent \in {20, 22, 25, 45, 50}, NEW minimum \in {4, 6, 10}
               PROVE  AtLeast(percent, minimum, total) \in 0 .. total
    OBVIOUS
  <2>1. percent \in Nat /\ minimum \in Nat
    OBVIOUS
  <2> QED
    BY <2>1, AtLeastFits
<1>2. CASE key = "full"
  BY <1>2 DEF PresetCount
<1>3. CASE key = "focus"
  BY <1>1, <1>3 DEF PresetCount
<1>4. CASE key = "tight"
  BY <1>1, <1>4 DEF PresetCount
<1> QED
  BY <1>2, <1>3, <1>4 DEF RangeKeys

\* So the bars it shows are numbers of bars: Bars.
LEMMA BarsCounted ==
    ASSUME NEW c \in Charts, NEW key \in RangeKeys, NEW total \in Nat
    PROVE  Bars(c, key, total) \subseteq Nat
<1> PICK offered \in RangeKeys : offered = (IF key \in Presets(c, total) THEN key ELSE "full")
  BY DEF RangeKeys
<1>1. PresetCount(c, offered, total) \in 0 .. total
  BY PresetFits
<1> QED
  BY <1>1 DEF Bars

\* The first of some levels is one of them: First.
LEMMA FirstLevel ==
    ASSUME NEW levels \in SUBSET ChartLevels
    PROVE  /\ First(levels) \in ChartLevels \cup {NoLevel}
           /\ levels # {} => First(levels) \in levels
<1>1. CASE levels = {}
  BY <1>1 DEF First
<1>2. CASE levels # {}
  <2> DEFINE less == {ll \in Nat \X Nat : ll[1] < ll[2]}
  <2>1. levels \subseteq Nat
    BY ChartAssumption
  <2>2. IsWellFoundedOn(less, Nat)
    BY NatLessThanWellFounded DEF OpToRel
  <2>3. PICK l \in levels : \A m \in levels : <<m, l>> \notin less
    <3> HIDE DEF less
    <3> QED
      BY <1>2, <2>1, <2>2, WFMin
  <2>4. ASSUME NEW m \in levels PROVE l <= m
    <3>1. m \in Nat /\ l \in Nat /\ <<m, l>> \notin less
      BY <2>1, <2>3
    <3> QED
      BY <3>1
  <2> QED
    BY <1>2, <2>4 DEF First
<1> QED
  BY <1>1, <1>2

\* What MeasureFits says of one chart.
Fits(c, k, s) ==
    LET bars == Bars(c, k.range, s.bars)
    IN  IF k.measure = NoMeasure THEN k.pointer = NoPointer /\ ~k.moved
        ELSE /\ {k.measure.from.bar, k.measure.to.bar} \subseteq bars
             /\ k.measure.from.at = s.at /\ k.measure.to.at = s.at
             /\ k.pointer = NoPointer => k.moved

\* A chosen level is the one the panel keeps, and a chart of a snapshot with levels is on it.
Held(c) ==
    chosen[c] # NoLevel =>
        /\ keptLevel[c] = chosen[c]
        /\ snapshot # NoSnapshot =>
            chart[c].level = IF snapshot.levels = {} THEN NoLevel ELSE chosen[c]

ChartInv ==
    /\ ChartTypeOK
    /\ snapshot # NoSnapshot => \A c \in Charts : Fits(c, chart[c], snapshot)
    /\ \A c \in Charts : Held(c)

\* What a gesture does with the level of a chart: it stays, or one of the snapshot's is chosen.
LevelMoves(c, k) ==
    \/ /\ k.level = chart[c].level /\ UNCHANGED chosen
       /\ keptLevel' = keptLevel \/ keptLevel' = Persisted(c, chart[c].level)
    \/ \E level \in snapshot.levels :
        k.level = level /\ Choose(c, level) /\ keptLevel' = Persisted(c, level)

\* A dropped measurement, and a range drawn anew, leave a chart that fits: ResetMeasurement, RenderRange.
LEMMA ResetFits ==
    ASSUME NEW c, NEW k \in Chart, NEW s, NEW key \in RangeKeys
    PROVE  /\ ResetMeasurement(k) \in Chart /\ Fits(c, ResetMeasurement(k), s)
           /\ RenderRange(k, key) \in Chart /\ Fits(c, RenderRange(k, key), s)
           /\ RenderRange(k, key).level = k.level /\ ResetMeasurement(k).level = k.level
<1> PICK r : r = ResetMeasurement(k)
  OBVIOUS
<1>1. /\ r \in Chart /\ r.measure = NoMeasure /\ r.pointer = NoPointer /\ r.moved = FALSE
      /\ r.level = k.level
  BY DEF ResetMeasurement, Chart
<1> PICK q : q = [r EXCEPT !.range = key]
  OBVIOUS
<1>2. /\ q \in Chart /\ q.measure = NoMeasure /\ q.pointer = NoPointer /\ q.moved = FALSE
      /\ q.level = k.level
  BY <1>1 DEF Chart
<1>3. RenderRange(k, key) = q
  BY DEF RenderRange
<1> QED
  BY <1>1, <1>2, <1>3 DEF Fits

\* So does a new chart: NewChart.
LEMMA NewFits ==
    ASSUME NEW c, NEW level \in ChartLevels \cup {NoLevel}, NEW s
    PROVE  NewChart(level) \in Chart /\ Fits(c, NewChart(level), s) /\ NewChart(level).level = level
<1> PICK k : k = [range |-> "full", level |-> level, measure |-> NoMeasure, pointer |-> NoPointer, moved |-> FALSE]
  OBVIOUS
<1>1. k \in Chart /\ k.level = level
  BY DEF Chart, RangeKeys
<1>2. NewChart(level) = RenderRange(k, "full") /\ "full" \in RangeKeys
  BY DEF NewChart, RangeKeys
<1> QED
  BY <1>1, <1>2, ResetFits

\* A press starts a measurement of one bar of the chart: StartMeasurement.
LEMMA StartFits ==
    ASSUME NEW c \in Charts, NEW k \in Chart, NEW level \in ChartLevels \cup {NoLevel}, NEW s \in Snapshot,
           NEW anchor \in Anchor, anchor.at = s.at, anchor.bar \in Bars(c, k.range, s.bars),
           NEW p \in ChartPointers
    PROVE  /\ StartMeasurement([k EXCEPT !.level = level], anchor, p) \in Chart
           /\ Fits(c, StartMeasurement([k EXCEPT !.level = level], anchor, p), s)
           /\ StartMeasurement([k EXCEPT !.level = level], anchor, p).level = level
<1> PICK m : m = [from |-> anchor, to |-> anchor]
  OBVIOUS
<1>1. m \in Measure /\ m # NoMeasure /\ m.from = anchor /\ m.to = anchor
  BY NothingMeasured DEF Measure
<1> PICK l : l = [k EXCEPT !.level = level]
  OBVIOUS
<1>2. l \in Chart /\ l.range = k.range /\ l.level = level
  BY DEF Chart
<1> PICK q : q = StartMeasurement(l, anchor, p)
  OBVIOUS
<1>3. q \in Chart /\ q.range = k.range /\ q.measure = m /\ q.pointer = p /\ q.level = level
  BY <1>1, <1>2 DEF Chart, StartMeasurement
<1>4. p # NoPointer
  BY ChartAssumption
<1>5. Fits(c, q, s)
  BY <1>1, <1>3, <1>4 DEF Fits
<1> QED
  BY <1>3, <1>5

\* Dragging it to another bar of the chart keeps it fitting: UpdateMeasurement.
LEMMA UpdateFits ==
    ASSUME NEW c \in Charts, NEW k \in Chart, NEW s \in Snapshot, Fits(c, k, s),
           NEW anchor \in Anchor, anchor.at = s.at, anchor.bar \in Bars(c, k.range, s.bars),
           k.pointer \in ChartPointers
    PROVE  /\ UpdateMeasurement(k, anchor) \in Chart /\ Fits(c, UpdateMeasurement(k, anchor), s)
           /\ UpdateMeasurement(k, anchor).level = k.level
<1>1. k.pointer # NoPointer
  BY ChartAssumption
<1>2. /\ k.measure # NoMeasure /\ k.measure.from.bar \in Bars(c, k.range, s.bars)
      /\ k.measure.from.at = s.at
  BY <1>1 DEF Fits
<1>3. k.measure \in Measure
  BY <1>2 DEF Chart
<1> PICK m : m = [k.measure EXCEPT !.to = anchor]
  OBVIOUS
<1>4. m \in Measure /\ m # NoMeasure /\ m.from = k.measure.from /\ m.to = anchor
  BY <1>3, NothingMeasured DEF Measure
<1> PICK moved \in BOOLEAN : moved = (k.moved \/ anchor # k.measure.from)
  OBVIOUS
<1> PICK q : q = [k EXCEPT !.measure = m, !.moved = moved]
  OBVIOUS
<1>5. UpdateMeasurement(k, anchor) = q
  BY DEF UpdateMeasurement
<1>6. q \in Chart /\ q.range = k.range /\ q.measure = m /\ q.pointer = k.pointer /\ q.level = k.level
  BY <1>4 DEF Chart
<1>7. Fits(c, q, s)
  BY <1>1, <1>2, <1>4, <1>6 DEF Fits
<1> QED
  BY <1>5, <1>6, <1>7

\* Letting go keeps one that spans something and drops the others: FinishMeasurement.
LEMMA FinishFits ==
    ASSUME NEW c, NEW k \in Chart, NEW s, Fits(c, k, s)
    PROVE  /\ FinishMeasurement(k) \in Chart /\ Fits(c, FinishMeasurement(k), s)
           /\ FinishMeasurement(k).level = k.level
<1>1. CASE ~k.moved
  BY <1>1, ResetFits DEF FinishMeasurement, RangeKeys
<1>2. CASE k.moved
  <2> PICK q : q = [k EXCEPT !.pointer = NoPointer]
    OBVIOUS
  <2>1. q \in Chart /\ q.range = k.range /\ q.measure = k.measure /\ q.pointer = NoPointer /\ q.moved = k.moved
        /\ q.level = k.level
    BY DEF Chart
  <2>2. Fits(c, q, s)
    BY <1>2, <2>1 DEF Fits
  <2> QED
    BY <1>2, <2>1, <2>2 DEF FinishMeasurement
<1> QED
  BY <1>1, <1>2

\* What is kept of a level is a level: persistOverlayKey.
LEMMA PersistedTyped ==
    ASSUME NEW c \in Charts, NEW level \in ChartLevels \cup {NoLevel},
           keptLevel \in [Charts -> ChartLevels \cup {NoLevel}]
    PROVE  Persisted(c, level) \in [Charts -> ChartLevels \cup {NoLevel}]
BY DEF Persisted

\* A gesture moves the level of a chart, and what is kept and chosen of it, together.
LEMMA HeldKept ==
    ASSUME NEW c \in Charts, NEW k \in Chart, ChartInv, Handle(c, k), LevelMoves(c, k)
    PROVE  /\ keptLevel' \in [Charts -> ChartLevels \cup {NoLevel}]
           /\ chosen' \in [Charts -> ChartLevels \cup {NoLevel}]
           /\ \A d \in Charts : Held(d)'
<1>1. /\ snapshot # NoSnapshot /\ snapshot' = snapshot /\ snapshot \in Snapshot
      /\ chart' = [chart EXCEPT ![c] = k] /\ chart \in [Charts -> Chart]
      /\ keptLevel \in [Charts -> ChartLevels \cup {NoLevel}]
      /\ chosen \in [Charts -> ChartLevels \cup {NoLevel}]
  BY DEF Handle, ChartInv, ChartTypeOK
<1>2. chart'[c] = k /\ \A d \in Charts \ {c} : chart'[d] = chart[d]
  BY <1>1
<1>3. /\ chart[c].level \in ChartLevels \cup {NoLevel}
      /\ snapshot.levels \in SUBSET ChartLevels /\ NoLevel \notin ChartLevels
  BY <1>1, ChartAssumption DEF Chart, Snapshot
<1>4. CASE /\ k.level = chart[c].level /\ UNCHANGED chosen
           /\ keptLevel' = keptLevel \/ keptLevel' = Persisted(c, chart[c].level)
  <2>1. keptLevel' \in [Charts -> ChartLevels \cup {NoLevel}]
    BY <1>1, <1>3, <1>4, PersistedTyped
  <2>2. \/ keptLevel' = keptLevel
        \/ chart[c].level # NoLevel /\ keptLevel' = [keptLevel EXCEPT ![c] = chart[c].level]
    BY <1>4 DEF Persisted
  <2>3. ASSUME NEW d \in Charts PROVE Held(d)'
    <3>1. Held(d) /\ chart'[d].level = chart[d].level
      BY <1>2, <1>4 DEF ChartInv
    <3>2. chosen[d] # NoLevel => keptLevel'[d] = chosen[d]
      <4>1. CASE keptLevel' = keptLevel
        BY <3>1, <4>1 DEF Held
      <4>2. CASE chart[c].level # NoLevel /\ keptLevel' = [keptLevel EXCEPT ![c] = chart[c].level]
        BY <1>1, <3>1, <4>2 DEF Held
      <4> QED
        BY <2>2, <4>1, <4>2
    <3> QED
      BY <1>1, <1>4, <3>1, <3>2 DEF Held
  <2> QED
    BY <1>1, <1>4, <2>1, <2>3
<1>5. ASSUME NEW level \in snapshot.levels, k.level = level, Choose(c, level), keptLevel' = Persisted(c, level)
      PROVE  /\ keptLevel' \in [Charts -> ChartLevels \cup {NoLevel}]
             /\ chosen' \in [Charts -> ChartLevels \cup {NoLevel}]
             /\ \A d \in Charts : Held(d)'
  <2>1. level \in ChartLevels /\ level # NoLevel /\ snapshot.levels # {}
    BY <1>3
  <2>2. /\ keptLevel' = [keptLevel EXCEPT ![c] = level]
        /\ chosen' = [chosen EXCEPT ![c] = level]
    BY <1>5, <2>1 DEF Persisted, Choose
  <2>3. ASSUME NEW d \in Charts PROVE Held(d)'
    <3>1. CASE d = c
      BY <1>1, <1>2, <1>5, <2>1, <2>2, <3>1 DEF Held
    <3>2. CASE d # c
      <4>1. Held(d)
        BY DEF ChartInv
      <4> QED
        BY <1>1, <1>2, <2>2, <3>2, <4>1 DEF Held
    <3> QED
      BY <3>1, <3>2
  <2> QED
    BY <1>1, <2>1, <2>2, <2>3
<1> QED
  BY <1>4, <1>5 DEF LevelMoves

\* A handler that leaves its own chart fitting leaves all of them so: Handle.
LEMMA HandleKept ==
    ASSUME NEW c \in Charts, NEW k, ChartInv, Handle(c, k),
           k \in Chart /\ Fits(c, k, snapshot), LevelMoves(c, k),
           keptRange' \in [Charts -> RangeKeys]
    PROVE  ChartInv'
<1>1. /\ snapshot # NoSnapshot /\ snapshot' = snapshot
      /\ chart' = [chart EXCEPT ![c] = k] /\ chart \in [Charts -> Chart]
      /\ snapshot \in Snapshot \cup {NoSnapshot}
  BY DEF Handle, ChartInv, ChartTypeOK
<1>2. chart' \in [Charts -> Chart]
  BY <1>1
<1>3. ChartTypeOK' /\ \A d \in Charts : Held(d)'
  BY <1>1, <1>2, HeldKept DEF ChartTypeOK
<1>4. ASSUME NEW d \in Charts PROVE Fits(d, chart'[d], snapshot)
  <2>1. CASE d = c
    BY <1>1, <2>1
  <2>2. CASE d # c
    BY <1>1, <2>2 DEF ChartInv
  <2> QED
    BY <2>1, <2>2
<1>5. ASSUME NEW d \in Charts PROVE Fits(d, chart[d], snapshot)'
  BY <1>1, <1>4 DEF Fits
<1> QED
  BY <1>3, <1>5 DEF ChartInv

\* Every gesture, level and range button keeps the charts' invariant.
LEMMA GesturesKept ==
    ASSUME NEW c \in Charts, ChartInv, Measures(c) \/ UsesLegend(c) \/ UsesToolbar(c)
    PROVE  ChartInv'
<1> DEFINE k == chart[c]
<1>1. /\ chart \in [Charts -> Chart] /\ k \in Chart
      /\ keptRange \in [Charts -> RangeKeys]
  BY DEF ChartInv, ChartTypeOK
<1>2. k.range \in RangeKeys /\ k.level \in ChartLevels \cup {NoLevel}
  BY <1>1 DEF Chart
<1>3. snapshot # NoSnapshot
  <2>1. ASSUME NEW q, Handle(c, q) PROVE snapshot # NoSnapshot
    BY <2>1 DEF Handle
  <2> QED
    BY <2>1 DEF Measures, PointerCancel, PointerUp, PointerMoves, PointerDown, UsesLegend,
                ClickLevel, UsesToolbar, ClickRange
<1>4. snapshot \in Snapshot /\ Fits(c, k, snapshot)
  BY <1>3 DEF ChartInv, ChartTypeOK
<1>5. snapshot.bars \in Nat /\ snapshot.at \in Nat /\ snapshot.levels \subseteq ChartLevels
  <2>1. snapshot.bars \in BarCounts /\ snapshot.at \in 0 .. MaxSnapshots /\ snapshot.levels \in SUBSET ChartLevels
    BY <1>4 DEF Snapshot
  <2>2. snapshot.bars \in Nat
    BY <2>1, ChartAssumption
  <2>3. snapshot.at \in Nat
    BY <2>1, ChartAssumption
  <2> QED
    BY <2>1, <2>2, <2>3
<1>6. ASSUME NEW bar \in Edges(c), NEW snap \in LevelsOver(bar)
      PROVE  /\ AnchorAt(bar, snap) \in Anchor /\ AnchorAt(bar, snap).at = snapshot.at
             /\ AnchorAt(bar, snap).bar \in Bars(c, k.range, snapshot.bars)
  <2>1. bar \in Bars(c, k.range, snapshot.bars)
    BY DEF Edges
  <2>2. bar \in Nat
    BY <2>1, <1>2, <1>5, BarsCounted
  <2>3. snap \in ChartLevels \cup {NoLevel}
    BY <1>5 DEF LevelsOver
  <2> QED
    BY <2>1, <2>2, <2>3, <1>5 DEF AnchorAt, Anchor
<1> HIDE DEF k
<1>7. CASE PointerCancel(c)
  <2>1. Handle(c, ResetMeasurement(k)) /\ UNCHANGED <<keptRange, keptLevel, chosen>>
    BY <1>7 DEF PointerCancel, k
  <2>2. /\ ResetMeasurement(k) \in Chart /\ Fits(c, ResetMeasurement(k), snapshot)
        /\ ResetMeasurement(k).level = k.level
    BY <1>1, <1>2, ResetFits
  <2>3. LevelMoves(c, ResetMeasurement(k))
    BY <2>1, <2>2 DEF LevelMoves, k
  <2> QED
    BY <1>1, <2>1, <2>2, <2>3, HandleKept
<1>8. ASSUME NEW p \in ChartPointers, PointerUp(c, p) PROVE ChartInv'
  <2>1. Handle(c, FinishMeasurement(k)) /\ UNCHANGED <<keptRange, keptLevel, chosen>>
    BY <1>8 DEF PointerUp, k
  <2>2. /\ FinishMeasurement(k) \in Chart /\ Fits(c, FinishMeasurement(k), snapshot)
        /\ FinishMeasurement(k).level = k.level
    BY <1>1, <1>4, FinishFits
  <2>3. LevelMoves(c, FinishMeasurement(k))
    BY <2>1, <2>2 DEF LevelMoves, k
  <2> QED
    BY <1>1, <2>1, <2>2, <2>3, HandleKept
<1>9. ASSUME NEW p \in ChartPointers, NEW bar \in Edges(c), NEW snap \in LevelsOver(bar),
             PointerMoves(c, p, bar, snap)
      PROVE  ChartInv'
  <2> PICK anchor : anchor = AnchorAt(bar, snap)
    OBVIOUS
  <2>1. /\ anchor \in Anchor /\ anchor.at = snapshot.at
        /\ anchor.bar \in Bars(c, k.range, snapshot.bars)
    BY <1>6
  <2>2. /\ Handle(c, UpdateMeasurement(k, anchor)) /\ UNCHANGED <<keptRange, keptLevel, chosen>>
        /\ k.pointer \in ChartPointers
    BY <1>9 DEF PointerMoves, k
  <2>3. /\ UpdateMeasurement(k, anchor) \in Chart /\ Fits(c, UpdateMeasurement(k, anchor), snapshot)
        /\ UpdateMeasurement(k, anchor).level = k.level
    BY <1>1, <1>4, <2>1, <2>2, UpdateFits
  <2>4. LevelMoves(c, UpdateMeasurement(k, anchor))
    BY <2>2, <2>3 DEF LevelMoves, k
  <2> QED
    BY <1>1, <2>2, <2>3, <2>4, HandleKept
<1>10. ASSUME NEW p \in ChartPointers, NEW bar \in Edges(c), NEW snap \in LevelsOver(bar),
              NEW over \in {NoLevel, snap}, PointerDown(c, p, bar, over, snap)
       PROVE  ChartInv'
  <2>0. over \in snapshot.levels \cup {NoLevel} /\ snapshot.levels \subseteq ChartLevels
    BY <1>5 DEF LevelsOver
  <2> PICK anchor : anchor = AnchorAt(bar, snap)
    OBVIOUS
  <2> PICK level \in ChartLevels \cup {NoLevel} : level = (IF over = NoLevel THEN k.level ELSE over)
    BY <1>2, <2>0
  <2>1. /\ anchor \in Anchor /\ anchor.at = snapshot.at
        /\ anchor.bar \in Bars(c, k.range, snapshot.bars)
    BY <1>6
  <2>2. /\ Handle(c, StartMeasurement([k EXCEPT !.level = level], anchor, p))
        /\ keptLevel' = Persisted(c, over) /\ Choose(c, over) /\ UNCHANGED keptRange
    BY <1>10 DEF PointerDown, k
  <2>3. /\ StartMeasurement([k EXCEPT !.level = level], anchor, p) \in Chart
        /\ Fits(c, StartMeasurement([k EXCEPT !.level = level], anchor, p), snapshot)
        /\ StartMeasurement([k EXCEPT !.level = level], anchor, p).level = level
    BY <1>1, <1>4, <2>1, StartFits
  <2>4. LevelMoves(c, StartMeasurement([k EXCEPT !.level = level], anchor, p))
    <3>1. CASE over = NoLevel
      BY <2>2, <2>3, <3>1 DEF LevelMoves, Persisted, Choose, k
    <3>2. CASE over # NoLevel
      BY <2>0, <2>2, <2>3, <3>2 DEF LevelMoves
    <3> QED
      BY <3>1, <3>2
  <2> QED
    BY <1>1, <2>2, <2>3, <2>4, HandleKept
<1>11. ASSUME NEW level \in snapshot.levels, ClickLevel(c, level) PROVE ChartInv'
  <2> PICK q : q = [k EXCEPT !.level = level]
    OBVIOUS
  <2>1. level \in ChartLevels
    BY <1>5
  <2>2. /\ q \in Chart /\ q.range = k.range /\ q.measure = k.measure
        /\ q.pointer = k.pointer /\ q.moved = k.moved /\ q.level = level
    BY <1>1, <2>1 DEF Chart
  <2>3. Fits(c, q, snapshot)
    BY <1>4, <2>2 DEF Fits
  <2>4. Handle(c, q) /\ keptLevel' = Persisted(c, level) /\ Choose(c, level) /\ UNCHANGED keptRange
    BY <1>11 DEF ClickLevel, k
  <2>5. LevelMoves(c, q)
    BY <2>2, <2>4 DEF LevelMoves
  <2> QED
    BY <1>1, <2>2, <2>3, <2>4, <2>5, HandleKept
<1>12. ASSUME NEW key \in Presets(c, snapshot.bars), ClickRange(c, key) PROVE ChartInv'
  <2>1. key \in RangeKeys
    BY DEF Presets
  <2>2. /\ Handle(c, RenderRange(k, key)) /\ keptRange' = [keptRange EXCEPT ![c] = key]
        /\ keptLevel' = Persisted(c, k.level) /\ UNCHANGED chosen
    BY <1>12 DEF ClickRange, k
  <2>3. /\ RenderRange(k, key) \in Chart /\ Fits(c, RenderRange(k, key), snapshot)
        /\ RenderRange(k, key).level = k.level
    BY <1>1, <2>1, ResetFits
  <2>4. keptRange' \in [Charts -> RangeKeys]
    BY <1>1, <2>1, <2>2
  <2>5. LevelMoves(c, RenderRange(k, key))
    BY <2>2, <2>3 DEF LevelMoves, k
  <2> QED
    BY <2>2, <2>3, <2>4, <2>5, HandleKept
<1>13. ASSUME Measures(c) PROVE ChartInv'
  BY <1>7, <1>8, <1>9, <1>10, <1>13 DEF Measures
<1> QED
  BY <1>11, <1>12, <1>13 DEF UsesLegend, UsesToolbar

\* The level of a new chart is one of the snapshot's, the kept one if it is: ResolveOverlayKey.
LEMMA Resolved ==
    ASSUME NEW key, NEW levels \in SUBSET ChartLevels
    PROVE  /\ ResolveOverlayKey(key, levels) \in ChartLevels \cup {NoLevel}
           /\ key \in levels => ResolveOverlayKey(key, levels) = key
           /\ levels = {} => ResolveOverlayKey(key, levels) = NoLevel
BY FirstLevel DEF ResolveOverlayKey, First

\* A live refresh keeps the charts' invariant: what was chosen outlives it with what the panel
\* keeps, unless the panel shows levels without it (PutSnapshot).
LEMMA PutSnapshotKept ==
    ASSUME ChartInv, NEW s \in Snapshot \cup {NoSnapshot}, PutSnapshot(s)
    PROVE  ChartInv'
<1>1. CASE s = NoSnapshot
  <2>1. snapshot' = NoSnapshot /\ UNCHANGED <<chart, keptRange, keptLevel, chosen>>
    BY <1>1 DEF PutSnapshot
  <2>2. ASSUME NEW c \in Charts PROVE Held(c)'
    <3>1. Held(c)
      BY DEF ChartInv
    <3> QED
      BY <2>1, <3>1 DEF Held
  <2> QED
    BY <1>1, <2>1, <2>2 DEF ChartInv, ChartTypeOK
<1>2. CASE s # NoSnapshot
  <2>1. /\ snapshot' = s /\ chart' = [c \in Charts |-> Attach(s, c)]
        /\ keptRange' = [c \in Charts |-> "full"]
        /\ keptLevel' = [c \in Charts |-> IF s.levels = {} THEN keptLevel[c] ELSE chart'[c].level]
        /\ chosen' = StillChosen(s.levels)
    BY <1>2 DEF PutSnapshot
  <2>2. s.levels \in SUBSET ChartLevels
    BY <1>2 DEF Snapshot
  <2>3. ASSUME NEW c \in Charts
        PROVE  /\ chart'[c] \in Chart /\ Fits(c, chart'[c], s)
               /\ chart'[c].level = ResolveOverlayKey(keptLevel[c], s.levels)
               /\ chart'[c].level \in ChartLevels \cup {NoLevel}
    <3> PICK level : level = ResolveOverlayKey(keptLevel[c], s.levels)
      OBVIOUS
    <3>1. level \in ChartLevels \cup {NoLevel}
      BY <2>2, Resolved
    <3>2. chart'[c] = NewChart(level)
      BY <2>1 DEF Attach
    <3> QED
      BY <3>1, <3>2, NewFits
  <2>4. /\ keptLevel \in [Charts -> ChartLevels \cup {NoLevel}]
        /\ chosen \in [Charts -> ChartLevels \cup {NoLevel}]
    BY DEF ChartInv, ChartTypeOK
  <2>5. chart' \in [Charts -> Chart]
    BY <2>1, <2>3
  <2>6. keptLevel' \in [Charts -> ChartLevels \cup {NoLevel}]
    BY <2>1, <2>3, <2>4
  <2>7. keptRange' \in [Charts -> RangeKeys]
    BY <2>1 DEF RangeKeys
  <2>8. ASSUME NEW c \in Charts PROVE Fits(c, chart[c], snapshot)'
    BY <2>1, <2>3 DEF Fits
  <2>9. chosen' \in [Charts -> ChartLevels \cup {NoLevel}]
    BY <2>1, <2>4 DEF StillChosen
  <2>10. ASSUME NEW c \in Charts PROVE Held(c)'
    <3> SUFFICES ASSUME chosen'[c] # NoLevel
                 PROVE  /\ keptLevel'[c] = chosen'[c]
                        /\ chart'[c].level = IF s.levels = {} THEN NoLevel ELSE chosen'[c]
      BY <2>1 DEF Held
    <3>1. chosen'[c] = chosen[c] /\ (s.levels = {} \/ chosen[c] \in s.levels)
      BY <2>1 DEF StillChosen
    <3>2. keptLevel[c] = chosen[c]
      BY <3>1 DEF ChartInv, Held
    <3>3. CASE s.levels = {}
      BY <2>1, <2>2, <2>3, <3>1, <3>2, <3>3, Resolved
    <3>4. CASE s.levels # {}
      BY <2>1, <2>2, <2>3, <3>1, <3>2, <3>4, Resolved
    <3> QED
      BY <3>3, <3>4
  <2> QED
    BY <2>1, <2>5, <2>6, <2>7, <2>8, <2>9, <2>10 DEF ChartInv, ChartTypeOK
<1> QED
  BY <1>1, <1>2

-----------------------------------------------------------------------------
(* The page. *)

SignalInv ==
    /\ ShellInv /\ ChartInv
    /\ quoted \in Snapshot /\ available \in BOOLEAN
    /\ asks \in [AskIds -> [load : 1 .. MaxLoads, answer : Snapshot \cup {NoSnapshot}] \cup {NoAsk}]
    /\ asked \in 0 .. MaxAsks

\* The chart of a page that has just been loaded fits: AttachAfresh.
LEMMA Attached ==
    ASSUME NEW s \in Snapshot, NEW c
    PROVE  /\ First(s.levels) \in ChartLevels \cup {NoLevel}
           /\ AttachAfresh(s, c) \in Chart /\ Fits(c, AttachAfresh(s, c), s)
<1>1. s.levels \in SUBSET ChartLevels
  BY DEF Snapshot
<1>2. First(s.levels) \in ChartLevels \cup {NoLevel}
  BY <1>1, FirstLevel
<1> QED
  BY <1>2, NewFits DEF AttachAfresh

\* The page as it is first loaded satisfies the invariant: SignalInit.
LEMMA SignalInitially == SignalInit => SignalInv
<1> SUFFICES ASSUME SignalInit PROVE SignalInv
  OBVIOUS
<1>1. ShellInv
  BY ShellInitially DEF SignalInit
<1> PICK most \in BarCounts : most = CHOOSE n \in BarCounts : \A m \in BarCounts : m <= n
  BY ChartAssumption
<1>2. snapshot = [at |-> 0, bars |-> most, levels |-> ChartLevels]
  BY DEF SignalInit, ChartInit
<1>3. 0 \in 0 .. MaxSnapshots /\ MaxSnapshots \in Nat /\ 0 \in 0 .. MaxAsks
  BY ChartAssumption, SignalPageAssumption
<1>4. snapshot \in Snapshot
  BY <1>2, <1>3 DEF Snapshot
<1>5. /\ keptRange = [c \in Charts |-> "full"] /\ keptLevel = [c \in Charts |-> First(ChartLevels)]
      /\ chart = [c \in Charts |-> AttachAfresh(snapshot, c)] /\ chosen = [c \in Charts |-> NoLevel]
  BY DEF SignalInit, ChartInit
<1>6. First(ChartLevels) \in ChartLevels \cup {NoLevel}
  BY FirstLevel
<1>7. ASSUME NEW c \in Charts PROVE chart[c] \in Chart /\ Fits(c, chart[c], snapshot)
  BY <1>4, <1>5, Attached
<1>8. keptRange \in [Charts -> RangeKeys]
  BY <1>5 DEF RangeKeys
<1>9. /\ chart \in [Charts -> Chart] /\ keptLevel \in [Charts -> ChartLevels \cup {NoLevel}]
      /\ chosen \in [Charts -> ChartLevels \cup {NoLevel}] /\ \A c \in Charts : Held(c)
  BY <1>5, <1>6, <1>7 DEF Held
<1>10. ChartInv
  BY <1>4, <1>7, <1>8, <1>9 DEF ChartInv, ChartTypeOK
<1> QED
  BY <1>1, <1>3, <1>4, <1>10 DEF SignalInit, SignalInv

\* A new document's panel satisfies the charts' invariant, whatever was shown before: LoadPanel.
LEMMA LoadPanelKept ==
    ASSUME SignalInv, LoadPanel
    PROVE  ChartInv'
<1>1. Given \in Snapshot \cup {NoSnapshot}
  BY DEF Given, SignalInv
<1>2. snapshot' \in Snapshot \cup {NoSnapshot}
  BY <1>1 DEF LoadPanel
<1>3. /\ keptRange' = [c \in Charts |-> "full"]
      /\ keptLevel' = [c \in Charts |-> IF snapshot' = NoSnapshot THEN NoLevel ELSE First(snapshot'.levels)]
      /\ chart' = IF snapshot' = NoSnapshot THEN chart
                  ELSE [c \in Charts |-> AttachAfresh(snapshot', c)]
      /\ chosen' = [c \in Charts |-> NoLevel]
  BY DEF LoadPanel
<1>4. chart \in [Charts -> Chart]
  BY DEF SignalInv, ChartInv, ChartTypeOK
<1>5. /\ keptRange' \in [Charts -> RangeKeys] /\ chosen' \in [Charts -> ChartLevels \cup {NoLevel}]
      /\ \A c \in Charts : Held(c)'
  BY <1>3 DEF RangeKeys, Held
<1>6. CASE snapshot' = NoSnapshot
  <2>1. chart' = chart /\ keptLevel' = [c \in Charts |-> NoLevel]
    BY <1>3, <1>6
  <2>2. keptLevel' \in [Charts -> ChartLevels \cup {NoLevel}]
    BY <2>1
  <2> QED
    BY <1>2, <1>4, <1>5, <1>6, <2>1, <2>2 DEF ChartInv, ChartTypeOK
<1>7. CASE snapshot' # NoSnapshot
  <2> PICK s \in Snapshot : s = snapshot'
    BY <1>2, <1>7
  <2>1. /\ chart' = [c \in Charts |-> AttachAfresh(s, c)]
        /\ keptLevel' = [c \in Charts |-> First(s.levels)]
    BY <1>3, <1>7
  <2>2. ASSUME NEW c \in Charts
        PROVE  /\ chart'[c] \in Chart /\ Fits(c, chart'[c], s)
               /\ keptLevel'[c] \in ChartLevels \cup {NoLevel}
    BY <2>1, Attached
  <2>3. chart' \in [Charts -> Chart] /\ keptLevel' \in [Charts -> ChartLevels \cup {NoLevel}]
    BY <2>1, <2>2
  <2>4. ASSUME NEW c \in Charts PROVE Fits(c, chart[c], snapshot)'
    BY <2>2 DEF Fits
  <2> QED
    BY <1>2, <1>5, <2>3, <2>4 DEF ChartInv, ChartTypeOK
<1> QED
  BY <1>6, <1>7

\* A step that leaves the chart alone.
LEMMA ChartStays == ASSUME ChartInv, UNCHANGED chartVars PROVE ChartInv'
BY DEF chartVars, ChartInv, ChartTypeOK, Fits, Bars, Presets, Held

\* A step that leaves the shell alone.
LEMMA ShellStays == ASSUME ShellInv, UNCHANGED shellVars PROVE ShellInv'
BY DEF shellVars, ShellInv, ShellTypeOK, TimerInv, ToldInv, DuePosts, SwapsOnTheWay

\* Every step of the page keeps the invariant.
LEMMA SignalStepKept == SignalInv /\ [SignalNext]_signalVars => SignalInv'
<1> SUFFICES ASSUME SignalInv, [SignalNext]_signalVars PROVE SignalInv'
  OBVIOUS
<1>1. ShellInv /\ ChartInv
  BY DEF SignalInv
<1>2. /\ quoted \in Snapshot /\ available \in BOOLEAN /\ asked \in 0 .. MaxAsks /\ MaxAsks \in Nat
      /\ asks \in [AskIds -> [load : 1 .. MaxLoads, answer : Snapshot \cup {NoSnapshot}] \cup {NoAsk}]
  BY SignalPageAssumption DEF SignalInv
<1>3. Given \in Snapshot \cup {NoSnapshot}
  BY <1>2 DEF Given
<1>4. CASE UNCHANGED signalVars
  <2>1. UNCHANGED shellVars /\ UNCHANGED chartVars /\ UNCHANGED panelVars
    BY <1>4 DEF signalVars
  <2>2. ShellInv' /\ ChartInv'
    BY <1>1, <2>1, ShellStays, ChartStays
  <2> QED
    BY <1>2, <2>1, <2>2 DEF panelVars, SignalInv
<1>5. CASE SwapDocument
  <2>1. SwapEnds /\ LoadPanel /\ UNCHANGED panelVars
    BY <1>5 DEF SwapDocument
  <2>2. ShellInv'
    BY <1>1, <2>1, AnswerSwapKept, FailSwapKept DEF SwapEnds
  <2>3. ChartInv'
    BY <2>1, LoadPanelKept
  <2> QED
    BY <1>2, <2>1, <2>2, <2>3 DEF panelVars, SignalInv
<1>6. CASE UseForms
  <2>1. (UsesPage \/ PostGoesOn) /\ UNCHANGED chartVars /\ UNCHANGED panelVars
    BY <1>6 DEF UseForms
  <2>2. ShellInv' /\ ChartInv'
    BY <1>1, <2>1, FormsUsedKept, PostGoesOnKept, ChartStays
  <2> QED
    BY <1>2, <2>1, <2>2 DEF panelVars, SignalInv
<1>7. CASE RefreshSignalMarketPanel
  <2>1. /\ asked < MaxAsks /\ asked' = asked + 1
        /\ UNCHANGED shellVars /\ UNCHANGED chartVars /\ UNCHANGED <<quoted, available>>
    BY <1>7 DEF RefreshSignalMarketPanel
  <2>2. ShellInv' /\ ChartInv'
    BY <1>1, <2>1, ShellStays, ChartStays
  <2>3. PICK id : asks' = [asks EXCEPT ![id] = [load |-> shown.load, answer |-> Given]]
    BY <1>7 DEF RefreshSignalMarketPanel
  <2>4. shown.load \in 1 .. MaxLoads
    BY <1>1 DEF ShellInv, ShellTypeOK
  <2> DEFINE ask == [load |-> shown.load, answer |-> Given]
  <2>5. ask \in [load : 1 .. MaxLoads, answer : Snapshot \cup {NoSnapshot}]
    BY <1>3, <2>4
  <2>6. asks' = [asks EXCEPT ![id] = ask]
    BY <2>3
  <2> HIDE DEF ask
  <2>7. asks' \in [AskIds -> [load : 1 .. MaxLoads, answer : Snapshot \cup {NoSnapshot}] \cup {NoAsk}]
    BY <1>2, <2>5, <2>6
  <2>8. asked' \in 0 .. MaxAsks
    BY <1>2, <2>1
  <2> QED
    BY <1>2, <2>1, <2>2, <2>7, <2>8 DEF SignalInv
<1>8. ASSUME NEW id \in AskIds, SyncMarketPanel(id) PROVE SignalInv'
  <2>1. /\ asks[id] # NoAsk /\ asks' = [asks EXCEPT ![id] = NoAsk]
        /\ PutSnapshot(asks[id].answer) \/ UNCHANGED chartVars
        /\ UNCHANGED shellVars /\ UNCHANGED <<quoted, available, asked>>
    BY <1>8 DEF SyncMarketPanel
  <2>2. asks[id].answer \in Snapshot \cup {NoSnapshot}
    BY <1>2, <2>1
  <2>3. ShellInv' /\ ChartInv'
    BY <1>1, <2>1, <2>2, PutSnapshotKept, ShellStays, ChartStays
  <2>4. asks' \in [AskIds -> [load : 1 .. MaxLoads, answer : Snapshot \cup {NoSnapshot}] \cup {NoAsk}]
    BY <1>2, <2>1
  <2> QED
    BY <1>2, <2>1, <2>3, <2>4 DEF SignalInv
<1>9. CASE MarketChanges
  <2>1. /\ quoted' \in Snapshot /\ available' \in BOOLEAN
        /\ UNCHANGED shellVars /\ UNCHANGED chartVars /\ UNCHANGED <<asks, asked>>
    BY <1>2, <1>9 DEF MarketChanges
  <2>2. ShellInv' /\ ChartInv'
    BY <1>1, <2>1, ShellStays, ChartStays
  <2> QED
    BY <1>2, <2>1, <2>2 DEF SignalInv
<1>10. ASSUME NEW c \in Charts, OnChart(c) \/ OnLegend(c) PROVE SignalInv'
  <2>1. /\ Measures(c) \/ UsesLegend(c) \/ UsesToolbar(c)
        /\ UNCHANGED shellVars /\ UNCHANGED panelVars
    BY <1>10 DEF OnChart, OnLegend
  <2>2. ShellInv' /\ ChartInv'
    BY <1>1, <2>1, GesturesKept, ShellStays
  <2> QED
    BY <1>2, <2>1, <2>2 DEF panelVars, SignalInv
<1> QED
  BY <1>4, <1>5, <1>6, <1>7, <1>8, <1>9, <1>10 DEF SignalNext, UsePanel

\* The invariant of the page, which the next theorems rest on, holds throughout: its own live
\* refresh, its forms and page requests, and the charts that every answer makes anew.
THEOREM SignalInductive == SignalSpec => []SignalInv
<1> QED
  BY SignalInitially, SignalStepKept, PTL DEF SignalSpec

\* What the invariant says of the page.
LEMMA SignalTells == SignalInv => SignalTypeOK /\ MeasureFits /\ LevelKept /\ OneRefresh /\ PageTells
<1> SUFFICES ASSUME SignalInv PROVE SignalTypeOK /\ MeasureFits /\ LevelKept /\ OneRefresh /\ PageTells
  OBVIOUS
<1>1. ShellInv /\ ChartInv
  BY DEF SignalInv
<1>2. OneRefresh /\ PageTells
  BY <1>1, ShellTells
<1>3. MeasureFits
  BY <1>1 DEF MeasureFits, ChartInv, Fits
<1>4. SignalTypeOK
  BY DEF SignalTypeOK, SignalInv, ShellInv, ChartInv
<1>5. LevelKept
  BY <1>1 DEF LevelKept, ChartInv, Held
<1> QED
  BY <1>2, <1>3, <1>4, <1>5

\* The page's state, that of its forms, requests and charts, is of the right types throughout.
THEOREM SignalTyped == SignalSpec => []SignalTypeOK
BY SignalInductive, SignalTells, PTL

\* No range button, refresh, second pointer or cancelled gesture leaves a measurement of bars
\* that are not on the chart, for any number of charts, pointers, levels and bars.
THEOREM MeasurementsFit == SignalSpec => []MeasureFits
BY SignalInductive, SignalTells, PTL

\* For any number of page requests in any order, at most one document's live refresh runs, and
\* a live page that stays has its own (StartTimer, SwapPage).
THEOREM OneRefreshRuns == SignalSpec => []OneRefresh
BY SignalInductive, SignalTells, PTL

\* Whatever posts, delays and failures there were: once nothing is on the way, the page shows
\* every change the browser was told is stored (AnswerStored, RefreshDue, SwapPage).
THEOREM ChangesShown == SignalSpec => []PageTells
BY SignalInductive, SignalTells, PTL

\* As long as the document stays, the level somebody chose outlives every live refresh, every
\* outage of the panel and every snapshot without levels: a chart whose panel has the level is
\* on it (persistOverlayKey, resolveOverlayKey, syncMarketPanel).
THEOREM LevelsKept == SignalSpec => []LevelKept
BY SignalInductive, SignalTells, PTL
=============================================================================
