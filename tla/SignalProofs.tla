---------------------------- MODULE SignalProofs ----------------------------
(***************************************************************************)
(* Machine-checked proofs about SignalLifecycle, for any workers, series,  *)
(* horizons, cards and retentions, with or without failures.               *)
(***************************************************************************)
EXTENDS SignalLifecycle, TLAPS

Labels == {"idle", "build", "store", "resolve", "write"}

Shape ==
    /\ now \in Instants
    /\ signal \in [Id -> SignalRow \cup {None}]
    /\ version \in [Id -> Instants \cup {None}]
    /\ resolution \in [Id -> ResolutionRow \cup {None}]
    /\ pc \in [Processes -> Labels]
    /\ call \in [Processes -> [asOf : AsOf \cup {None}, resolve : BOOLEAN, roots : SUBSET Roots]]
    /\ built \in [Processes -> SUBSET Built]
    /\ todo \in [Processes -> SUBSET Built]
    /\ second \in [Processes -> BOOLEAN]
    /\ due \in [Processes -> Due \cup {None}]
    /\ first \in [Id -> Instants \cup {None}]
    /\ chosen \in [Id -> Workflow]
    /\ raced \subseteq Id

\* The moment a signal may be resolved at the earliest.
Horizon(i) == first[i] + Window[i.horizon]

\* A signal in the hands of a process was first built no later than it was built there,
\* and the one to be resolved has reached its horizon.
ProcessInv(p) ==
    /\ todo[p] \subseteq built[p]
    /\ pc[p] \in {"idle", "build"} => built[p] = {}
    /\ due[p] # None <=> pc[p] = "write"
    /\ \A b \in built[p] : first[b.id] # None /\ first[b.id] <= b.generated
    /\ due[p] # None => first[due[p].signal.id] # None /\ due[p].at >= Horizon(due[p].signal.id)

FirstInv == \A i \in Id : first[i] # None => first[i] <= now

ResolvedInv == \A i \in Id : resolution[i] # None => first[i] # None /\ resolution[i].at >= Horizon(i)

\* A row that is not there has no choice of the user's to keep.
WorkflowInv == \A i \in Id : chosen[i] = IF signal[i] = None THEN Watching ELSE signal[i].workflow

\* Unless two processes have met, one process resolves a signal, and it is not resolved yet.
MeetInv ==
    \A p \in Processes : due[p] # None =>
        \/ due[p].signal.id \in raced
        \/ /\ resolution[due[p].signal.id] = None
           /\ \A q \in Processes \ {p} : due[q] # None => due[q].signal.id # due[p].signal.id

SignalInv ==
    Shape /\ FirstInv /\ ResolvedInv /\ WorkflowInv /\ MeetInv /\ \A p \in Processes : ProcessInv(p)

-----------------------------------------------------------------------------
\* A signal's id is an id, its horizon has a window, and the moments are numbers.
LEMMA Facts ==
    /\ Instants \subseteq Int /\ AsOf \subseteq Int
    /\ None \notin Instants /\ None \notin SignalRow /\ None \notin ResolutionRow /\ None \notin Due
    /\ \A r \in Roots : \A h \in Series[r] : \A t \in Instants, c \in Card : SignalId(r, h, t, c) \in Id
    /\ \A i \in Id : Window[i.horizon] \in Nat
    /\ \A b \in Built : b.id \in Id /\ b.generated \in Instants /\ b.card \in Card
    /\ \A d \in Due : d.signal \in Built /\ d.at \in AsOf \cup Instants
<1>1. \A r \in Roots : \A h \in Series[r] : \A t \in Instants, c \in Card : SignalId(r, h, t, c) \in Id
  BY DEF Id
<1>2. \A i \in Id : Window[i.horizon] \in Nat
  <2> TAKE i \in Id
  <2>1. PICK r \in Roots, h \in UNION {Series[s] : s \in Roots}, t \in Instants, c \in Card : i = SignalId(r, h, t, c)
    BY DEF Id
  <2>2. i.horizon = h
    BY <2>1 DEF SignalId
  <2> QED
    BY <2>1, <2>2, SignalAssumption
<1>3. \A b \in Built : b.id \in Id /\ b.generated \in Instants /\ b.card \in Card
  BY DEF Built
<1>4. \A d \in Due : d.signal \in Built /\ d.at \in AsOf \cup Instants
  BY DEF Due
<1> QED
  BY <1>1, <1>2, <1>3, <1>4, SignalAssumption

\* A process whose entries stay keeps its part, as first builds are not forgotten.
LEMMA Bystander ==
    ASSUME Shape, NEW q \in Processes, ProcessInv(q),
           pc'[q] = pc[q], built'[q] = built[q], todo'[q] = todo[q], due'[q] = due[q],
           \A i \in Id : first[i] # None => first'[i] = first[i]
    PROVE  ProcessInv(q)'
<1>1. \A b \in built[q] : b.id \in Id
  BY Facts DEF Shape
<1>2. due[q] # None => due[q].signal.id \in Id
  BY Facts DEF Shape
<1> QED
  BY <1>1, <1>2 DEF ProcessInv, Horizon

\* A step within a process: it changes no table and no history.
LEMMA Inside ==
    ASSUME SignalInv, NEW p \in Processes, Shape', ProcessInv(p)',
           UNCHANGED <<now, signal, resolution, first, chosen, raced>>,
           \A q \in Processes \ {p} :
               pc'[q] = pc[q] /\ built'[q] = built[q] /\ todo'[q] = todo[q] /\ due'[q] = due[q],
           due'[p] \in {due[p], None}
    PROVE  SignalInv'
<1>1. FirstInv' /\ ResolvedInv' /\ WorkflowInv'
  BY DEF SignalInv, FirstInv, ResolvedInv, WorkflowInv, Horizon
<1>2. \A q \in Processes : due'[q] \in {due[q], None}
  OBVIOUS
<1>3. MeetInv'
  BY <1>2 DEF SignalInv, MeetInv
<1>4. ASSUME NEW q \in Processes PROVE ProcessInv(q)'
  BY Bystander DEF SignalInv
<1> QED
  BY <1>1, <1>3, <1>4 DEF SignalInv

\* A call that is over, or dies.
LEMMA Returns ==
    ASSUME SignalInv, NEW p \in Processes, Return(p), UNCHANGED <<now, tables, history>>
    PROVE  SignalInv'
<1>1. Shape
  BY DEF SignalInv
<1>2. UNCHANGED <<now, signal, version, resolution, first, chosen, raced>>
  BY DEF tables, history
<1>3. Idle \in [asOf : AsOf \cup {None}, resolve : BOOLEAN, roots : SUBSET Roots] /\ "idle" \in Labels
  BY DEF Idle, Labels
<1>4. Shape'
  BY <1>1, <1>2, <1>3 DEF Shape, Return, Goto
<1>5. pc'[p] = "idle" /\ built'[p] = {} /\ todo'[p] = {} /\ due'[p] = None
  BY <1>1 DEF Shape, Return, Goto
<1>6. ProcessInv(p)'
  BY <1>5 DEF ProcessInv
<1>7. \A q \in Processes \ {p} :
        pc'[q] = pc[q] /\ built'[q] = built[q] /\ todo'[q] = todo[q] /\ due'[q] = due[q]
  BY <1>1 DEF Shape, Return, Goto
<1> QED
  BY <1>2, <1>4, <1>5, <1>6, <1>7, Inside

LEMMA CallKept ==
    ASSUME SignalInv, NEW p \in Processes, Call(p)
    PROVE  SignalInv'
<1>1. PICK asOf \in AsOf \cup {None}, resolve \in BOOLEAN, roots \in {Roots} \cup {{r} : r \in Roots} :
        Begin(p, asOf, resolve, roots)
  BY DEF Call
<1>2. Shape /\ ProcessInv(p)
  BY DEF SignalInv
<1>3. [asOf |-> asOf, resolve |-> resolve, roots |-> roots]
        \in [asOf : AsOf \cup {None}, resolve : BOOLEAN, roots : SUBSET Roots]
  OBVIOUS
<1>4. call' = [call EXCEPT ![p] = [asOf |-> asOf, resolve |-> resolve, roots |-> roots]]
      /\ pc' = [pc EXCEPT ![p] = "build"] /\ pc[p] = "idle"
      /\ UNCHANGED <<now, signal, version, resolution, built, todo, second, due, first, chosen, raced>>
  BY <1>1 DEF Begin, Goto, tables, history
<1>5. Shape'
  <2>1. "build" \in Labels
    BY DEF Labels
  <2> QED
    BY <1>2, <1>3, <1>4, <2>1 DEF Shape
<1>6. pc'[p] = "build" /\ \A q \in Processes \ {p} : pc'[q] = pc[q]
  BY <1>2, <1>4 DEF Shape
<1>7. ProcessInv(p)'
  BY <1>2, <1>4, <1>6 DEF ProcessInv, Horizon
<1> QED
  BY <1>4, <1>5, <1>6, <1>7, Inside

LEMMA EndPassKept ==
    ASSUME SignalInv, NEW p \in Processes, EndPass(p)
    PROVE  SignalInv'
<1>1. Shape /\ ProcessInv(p) /\ pc[p] = "resolve"
  BY DEF SignalInv, EndPass
<1>2. UNCHANGED <<now, signal, version, resolution, call, due, first, chosen, raced>>
  BY DEF EndPass, tables, history
<1>3. CASE todo' = [todo EXCEPT ![p] = built[p]] /\ second' = [second EXCEPT ![p] = TRUE] /\ UNCHANGED <<pc, built>>
  <2>1. Shape'
    BY <1>1, <1>2, <1>3 DEF Shape
  <2>2. ProcessInv(p)'
    BY <1>1, <1>2, <1>3 DEF ProcessInv, Shape, Horizon
  <2>3. \A q \in Processes \ {p} : todo'[q] = todo[q]
    BY <1>1, <1>3 DEF Shape
  <2> QED
    BY <1>2, <1>3, <2>1, <2>2, <2>3, Inside
<1>4. CASE pc' = [pc EXCEPT ![p] = "build"] /\ built' = [built EXCEPT ![p] = {}]
           /\ second' = [second EXCEPT ![p] = FALSE] /\ UNCHANGED todo /\ todo[p] = {}
  <2>1. "build" \in Labels
    BY DEF Labels
  <2>2. Shape'
    BY <1>1, <1>2, <1>4, <2>1 DEF Shape
  <2>3. ProcessInv(p)'
    BY <1>1, <1>2, <1>4 DEF ProcessInv, Shape, Horizon
  <2>4. \A q \in Processes \ {p} : pc'[q] = pc[q] /\ built'[q] = built[q]
    BY <1>1, <1>4 DEF Shape
  <2> QED
    BY <1>2, <1>4, <2>2, <2>3, <2>4, Inside
<1> QED
  BY <1>3, <1>4 DEF EndPass, Goto

-----------------------------------------------------------------------------
\* What a process builds is a signal, first built now or before.
LEMMA BuildKept ==
    ASSUME SignalInv, NEW p \in Processes, Build(p)
    PROVE  SignalInv'
<1>1. Shape /\ ProcessInv(p) /\ FirstInv /\ pc[p] = "build"
  BY DEF SignalInv, Build
<1>2. UNCHANGED <<now, signal, version, resolution, chosen, raced>>
  BY DEF Build, tables
<1>3. CASE Return(p) /\ UNCHANGED first
  BY <1>2, <1>3, Returns DEF tables, history
<1>4. ASSUME NEW r \in Roots, r \in call[p].roots, NEW hs \in SUBSET Series[r], NEW made \in [hs -> Card],
             call' = [call EXCEPT ![p].roots = @ \ {r}],
             built' = [built EXCEPT ![p] =
                 {[id |-> SignalId(r, h, now, made[h]), generated |-> now, card |-> made[h]] : h \in DOMAIN made}],
             first' = [i \in Id |-> IF first[i] = None /\ \E h \in DOMAIN made : i = SignalId(r, h, now, made[h])
                                   THEN now ELSE first[i]],
             pc' = [pc EXCEPT ![p] = IF made = <<>> THEN "build" ELSE "store"],
             UNCHANGED <<todo, second, due>>
      PROVE  SignalInv'
  <2> DEFINE new == {[id |-> SignalId(r, h, now, made[h]), generated |-> now, card |-> made[h]] : h \in DOMAIN made}
             l == IF made = <<>> THEN "build" ELSE "store"
  <2>1. now \in Instants /\ now # None /\ now \in Int
    BY <1>1, Facts DEF Shape
  <2>2. \A h \in DOMAIN made : SignalId(r, h, now, made[h]) \in Id /\ made[h] \in Card
    BY <1>4, <2>1, Facts
  <2>3. new \subseteq Built
    BY <2>1, <2>2 DEF Built
  <2>4. \A i \in Id : /\ first[i] # None => first'[i] = first[i]
                      /\ first'[i] \in {first[i], now}
    BY <1>4
  <2>5. \A b \in new : b.id \in Id /\ b.generated = now /\ first'[b.id] # None
    BY <1>4, <2>1, <2>2
  <2>6. l \in {"build", "store"}
    OBVIOUS
  <2>7. built' = [built EXCEPT ![p] = new] /\ pc' = [pc EXCEPT ![p] = l]
    BY <1>4
  <2> HIDE DEF new, l
  <2>8. first' \in [Id -> Instants \cup {None}]
    BY <1>1, <1>4, <2>1 DEF Shape
  <2>9. call' \in [Processes -> [asOf : AsOf \cup {None}, resolve : BOOLEAN, roots : SUBSET Roots]]
    <3> DEFINE c == call[p]
    <3>1. c \in [asOf : AsOf \cup {None}, resolve : BOOLEAN, roots : SUBSET Roots]
      BY <1>1 DEF Shape
    <3>2. [c EXCEPT !.roots = @ \ {r}] \in [asOf : AsOf \cup {None}, resolve : BOOLEAN, roots : SUBSET Roots]
      BY <3>1
    <3>3. call' = [call EXCEPT ![p] = [c EXCEPT !.roots = @ \ {r}]]
      BY <1>4, Zenon
    <3> HIDE DEF c
    <3> QED
      BY <1>1, <3>2, <3>3 DEF Shape
  <2>10. Shape'
    <3>1. built' \in [Processes -> SUBSET Built] /\ pc' \in [Processes -> Labels]
      BY <1>1, <2>3, <2>6, <2>7 DEF Shape, Labels
    <3> QED
      BY <1>1, <1>2, <1>4, <2>8, <2>9, <3>1 DEF Shape
  <2>11. FirstInv'
    BY <1>1, <1>2, <2>1, <2>4 DEF FirstInv
  <2>12. ResolvedInv'
    BY <1>2, <2>4 DEF SignalInv, ResolvedInv, Horizon
  <2>13. WorkflowInv' /\ MeetInv'
    BY <1>2, <1>4 DEF SignalInv, WorkflowInv, MeetInv
  <2>14. ProcessInv(p)'
    <3>1. todo[p] = {} /\ (l = "build" => new = {})
      BY <1>1 DEF ProcessInv, l, new
    <3>2. due[p] = None /\ pc'[p] = l /\ built'[p] = new
      BY <1>1, <2>7 DEF Shape, ProcessInv
    <3>3. \A b \in new : first'[b.id] # None /\ first'[b.id] <= b.generated
      BY <1>2, <2>1, <2>5, <2>11 DEF FirstInv
    <3> QED
      BY <1>4, <2>6, <3>1, <3>2, <3>3 DEF ProcessInv
  <2>15. ASSUME NEW q \in Processes \ {p} PROVE ProcessInv(q)'
    <3>1. pc'[q] = pc[q] /\ built'[q] = built[q]
      BY <1>1, <2>7 DEF Shape
    <3>2. ProcessInv(q)
      BY DEF SignalInv
    <3> QED
      BY <1>1, <1>4, <2>4, <3>1, <3>2, Bystander
  <2> QED
    BY <2>10, <2>11, <2>12, <2>13, <2>14, <2>15 DEF SignalInv
<1>5. call[p].roots \subseteq Roots
  BY <1>1 DEF Shape
<1>6. CASE \E r \in call[p].roots : \E made \in UNION {[hs -> Card] : hs \in SUBSET Series[r]} :
            /\ call' = [call EXCEPT ![p].roots = @ \ {r}]
            /\ built' = [built EXCEPT ![p] =
                 {[id |-> SignalId(r, h, now, made[h]), generated |-> now, card |-> made[h]]
                      : h \in DOMAIN made}]
            /\ first' = [i \in Id |-> IF first[i] = None /\ \E h \in DOMAIN made : i = SignalId(r, h, now, made[h])
                                      THEN now ELSE first[i]]
            /\ Goto(p, IF made = <<>> THEN "build" ELSE "store")
            /\ UNCHANGED <<todo, second, due>>
  <2>1. PICK r \in call[p].roots : \E made \in UNION {[hs -> Card] : hs \in SUBSET Series[r]} :
            /\ call' = [call EXCEPT ![p].roots = @ \ {r}]
            /\ built' = [built EXCEPT ![p] =
                 {[id |-> SignalId(r, h, now, made[h]), generated |-> now, card |-> made[h]]
                      : h \in DOMAIN made}]
            /\ first' = [i \in Id |-> IF first[i] = None /\ \E h \in DOMAIN made : i = SignalId(r, h, now, made[h])
                                      THEN now ELSE first[i]]
            /\ pc' = [pc EXCEPT ![p] = IF made = <<>> THEN "build" ELSE "store"]
            /\ UNCHANGED <<todo, second, due>>
    BY <1>6, Zenon DEF Goto
  <2>2. PICK made \in UNION {[hs -> Card] : hs \in SUBSET Series[r]} :
            /\ call' = [call EXCEPT ![p].roots = @ \ {r}]
            /\ built' = [built EXCEPT ![p] =
                 {[id |-> SignalId(r, h, now, made[h]), generated |-> now, card |-> made[h]]
                      : h \in DOMAIN made}]
            /\ first' = [i \in Id |-> IF first[i] = None /\ \E h \in DOMAIN made : i = SignalId(r, h, now, made[h])
                                      THEN now ELSE first[i]]
            /\ pc' = [pc EXCEPT ![p] = IF made = <<>> THEN "build" ELSE "store"]
            /\ UNCHANGED <<todo, second, due>>
    BY <2>1, Zenon
  <2>3. PICK hs \in SUBSET Series[r] : made \in [hs -> Card]
    BY Zenon
  <2>4. r \in Roots
    BY <1>5
  <2> QED
    BY <1>4, <2>1, <2>2, <2>3, <2>4, Zenon
<1> QED
  BY <1>3, <1>6, Zenon DEF Build

\* A rebuild keeps the user's choice.
LEMMA StoreKept ==
    ASSUME SignalInv, NEW p \in Processes, Store(p)
    PROVE  SignalInv'
<1>1. Shape /\ ProcessInv(p) /\ WorkflowInv /\ pc[p] = "store"
  BY DEF SignalInv, Store
<1>2. UNCHANGED <<now, resolution, call, built, due, first, chosen, raced>>
      /\ todo' = [todo EXCEPT ![p] = built[p]] /\ second' = [second EXCEPT ![p] = FALSE]
      /\ pc' = [pc EXCEPT ![p] = "resolve"]
  BY DEF Store, Goto, history
<1>3. /\ signal' \in [Id -> SignalRow \cup {None}] /\ version' \in [Id -> Instants \cup {None}]
      /\ \A i \in Id : signal'[i] = signal[i] \/ (signal'[i] # None /\ signal'[i].workflow = chosen[i])
  <2> DEFINE stored == {b.id : b \in built[p]}
             Of(i) == CHOOSE b \in built[p] : b.id = i
             RowNow(i) == RowOf(Of(i), WorkflowOf(i))
  <2>1. CASE UNCHANGED <<signal, version>>
    BY <1>1, <2>1 DEF Shape
  <2>2. CASE /\ signal' = [i \in Id |-> IF i \in stored THEN RowNow(i) ELSE signal[i]]
             /\ version' = [i \in Id |-> IF i \in stored THEN now ELSE version[i]]
    <3>1. ASSUME NEW i \in Id, i \in stored
          PROVE  RowNow(i) \in SignalRow /\ RowNow(i) # None /\ RowNow(i).workflow = chosen[i]
      <4>1. Of(i) \in built[p]
        BY <3>1
      <4>2. Of(i) \in Built
        BY <1>1, <4>1 DEF Shape
      <4>3. Of(i).generated \in Instants /\ Of(i).card.status \in {"active", "invalidated"}
        BY <4>2, Facts, SignalAssumption
      <4>4. WorkflowOf(i) = chosen[i] /\ chosen[i] \in Workflow
        BY <1>1 DEF WorkflowOf, WorkflowInv, Shape
      <4> HIDE DEF Of
      <4>5. RowNow(i) \in SignalRow /\ RowNow(i).workflow = chosen[i]
        BY <1>1, <4>3, <4>4 DEF RowOf, SignalRow, Shape
      <4> QED
        BY <4>5, Facts
    <3> HIDE DEF RowNow, stored
    <3> QED
      BY <1>1, <2>2, <3>1 DEF Shape
  <2> QED
    BY <2>1, <2>2, Zenon DEF Store
<1>4. Shape'
  BY <1>1, <1>2, <1>3 DEF Shape, Labels
<1>5. WorkflowInv'
  BY <1>1, <1>2, <1>3 DEF WorkflowInv
<1>6. FirstInv' /\ ResolvedInv' /\ MeetInv'
  BY <1>2 DEF SignalInv, FirstInv, ResolvedInv, MeetInv, Horizon
<1>7. ProcessInv(p)'
  <2>1. todo'[p] = built[p] /\ pc'[p] = "resolve"
    BY <1>1, <1>2 DEF Shape
  <2> QED
    BY <1>1, <1>2, <2>1 DEF ProcessInv, Horizon
<1>8. ASSUME NEW q \in Processes \ {p} PROVE ProcessInv(q)'
  <2>1. pc'[q] = pc[q] /\ todo'[q] = todo[q] /\ ProcessInv(q)
    BY <1>1, <1>2 DEF Shape, SignalInv
  <2> QED
    BY <1>1, <1>2, <2>1, Bystander
<1> QED
  BY <1>4, <1>5, <1>6, <1>7, <1>8 DEF SignalInv

\* A signal that is found due has reached its horizon, and it is found unresolved, or raced.
LEMMA LookupKept ==
    ASSUME SignalInv, NEW p \in Processes, Lookup(p)
    PROVE  SignalInv'
<1>1. Shape /\ ProcessInv(p) /\ MeetInv /\ pc[p] = "resolve" /\ due[p] = None
  BY DEF SignalInv, Lookup, ProcessInv
<1>2. UNCHANGED <<now, signal, version, resolution, call, built, second, first, chosen>>
  BY DEF Lookup, tables
<1>3. PICK b \in todo[p], failing \in BOOLEAN :
        LET at == IF second[p] /\ call[p].asOf # None THEN call[p].asOf ELSE now
            resolves == (failing \/ ~Found(b.id)) /\ IsDue(b, at)
        IN /\ todo' = [todo EXCEPT ![p] = @ \ {b}]
           /\ IF resolves
              THEN /\ due' = [due EXCEPT ![p] = [signal |-> b, at |-> at]]
                   /\ Goto(p, "write")
              ELSE UNCHANGED <<due, pc>>
           /\ raced' = IF resolves /\ (failing \/ \E q \in Processes : due[q] # None /\ due[q].signal.id = b.id)
                       THEN raced \cup {b.id} ELSE raced
  BY Zenon DEF Lookup
<1> DEFINE at == IF second[p] /\ call[p].asOf # None THEN call[p].asOf ELSE now
           resolves == (failing \/ ~Found(b.id)) /\ IsDue(b, at)
           d == [signal |-> b, at |-> at]
<1>4. b \in built[p] /\ b \in Built /\ b.id \in Id
  BY <1>1, Facts DEF ProcessInv, Shape
<1>5. at \in AsOf \cup Instants
  BY <1>1 DEF Shape
<1>6. todo' = [todo EXCEPT ![p] = @ \ {b}] /\ todo' \in [Processes -> SUBSET Built]
      /\ todo'[p] \subseteq todo[p] /\ \A q \in Processes \ {p} : todo'[q] = todo[q]
  BY <1>1, <1>3 DEF Shape
<1> HIDE DEF at
<1>7. CASE ~resolves
  <2>1. UNCHANGED <<due, pc, raced>>
    BY <1>3, <1>7, Zenon DEF at
  <2>2. Shape'
    BY <1>1, <1>2, <1>6, <2>1 DEF Shape
  <2>3. ProcessInv(p)'
    BY <1>1, <1>2, <1>6, <2>1 DEF ProcessInv, Horizon
  <2> QED
    BY <1>2, <1>6, <2>1, <2>2, <2>3, Inside
<1>8. CASE resolves
  <2>1. due' = [due EXCEPT ![p] = d] /\ pc' = [pc EXCEPT ![p] = "write"]
    BY <1>3, <1>8, Zenon DEF at, Goto
  <2>2. raced' = IF failing \/ \E q \in Processes : due[q] # None /\ due[q].signal.id = b.id
                 THEN raced \cup {b.id} ELSE raced
    BY <1>3, <1>8, Zenon DEF at
  <2>3. d \in Due /\ d # None /\ d.signal = b /\ d.at = at
    BY <1>4, <1>5, Facts DEF Due
  <2>4. at >= b.generated + Window[b.id.horizon] /\ (failing \/ resolution[b.id] = None)
    BY <1>8 DEF IsDue, Found
  <2> HIDE DEF d
  <2>5. Shape'
    BY <1>1, <1>2, <1>4, <1>6, <2>1, <2>2, <2>3 DEF Shape, Labels
  <2>6. due'[p] = d /\ pc'[p] = "write" /\ \A q \in Processes \ {p} : due'[q] = due[q] /\ pc'[q] = pc[q]
    BY <1>1, <2>1 DEF Shape
  <2>7. at >= Horizon(b.id) /\ first[b.id] # None
    <3>1. first[b.id] # None /\ first[b.id] <= b.generated
      BY <1>1, <1>4 DEF ProcessInv
    <3>2. first[b.id] \in Int /\ b.generated \in Int /\ at \in Int /\ Window[b.id.horizon] \in Int
      <4>1. first[b.id] \in Instants
        BY <1>1, <1>4, <3>1 DEF Shape
      <4>2. b.generated \in Instants /\ Window[b.id.horizon] \in Nat
        BY <1>4, Facts
      <4>3. Instants \subseteq Int /\ AsOf \subseteq Int
        BY Facts
      <4>4. at \in Int
        BY <1>5, <4>3, Zenon
      <4>5. first[b.id] \in Int /\ b.generated \in Int
        BY <4>1, <4>2, <4>3, Zenon
      <4> QED
        BY <4>2, <4>4, <4>5
    <3> QED
      BY <2>4, <3>1, <3>2 DEF Horizon
  <2>8. ProcessInv(p)'
    BY <1>1, <1>2, <1>6, <2>3, <2>6, <2>7 DEF ProcessInv, Horizon
  <2>9. ASSUME NEW q \in Processes \ {p} PROVE ProcessInv(q)'
    <3>1. ProcessInv(q) /\ built'[q] = built[q] /\ first' = first
      BY <1>2 DEF SignalInv
    <3> QED
      BY <1>1, <1>6, <2>6, <3>1, Bystander
  <2>10. FirstInv' /\ ResolvedInv' /\ WorkflowInv'
    BY <1>2 DEF SignalInv, FirstInv, ResolvedInv, WorkflowInv, Horizon
  <2>11. MeetInv'
    <3>1. ASSUME NEW q \in Processes, due'[q] # None, due'[q].signal.id \notin raced'
          PROVE  /\ resolution[due'[q].signal.id] = None
                 /\ \A o \in Processes \ {q} : due'[o] # None => due'[o].signal.id # due'[q].signal.id
      <4>1. CASE q = p
        BY <1>1, <2>2, <2>3, <2>4, <2>6, <3>1, <4>1
      <4>2. CASE q # p
        <5>1. due'[q] = due[q] /\ due[q].signal.id \notin raced
          BY <2>2, <2>6, <3>1, <4>2
        <5>2. due[q].signal.id # b.id
          BY <2>2, <3>1, <5>1
        <5> QED
          BY <1>1, <2>3, <2>6, <3>1, <4>2, <5>1, <5>2 DEF MeetInv
      <4> QED
        BY <4>1, <4>2
    <3> QED
      BY <1>2, <3>1 DEF MeetInv
  <2> QED
    BY <2>5, <2>8, <2>9, <2>10, <2>11 DEF SignalInv
<1> QED
  BY <1>7, <1>8

\* The resolution is put in place.
LEMMA WriteResolutionKept ==
    ASSUME SignalInv, NEW p \in Processes, WriteResolution(p)
    PROVE  SignalInv'
<1>1. Shape /\ ProcessInv(p) /\ ResolvedInv /\ MeetInv /\ pc[p] = "write" /\ due[p] # None
  BY DEF SignalInv, WriteResolution, ProcessInv
<1> DEFINE b == due[p].signal
           new == [status |-> IF b.card.status = "invalidated" THEN "invalidated" ELSE "resolved",
                   outcome |-> b.card.outcome, at |-> due[p].at, created |-> now]
<1>2. b \in Built /\ b.id \in Id /\ due[p].at \in AsOf \cup Instants /\ b.card \in Card
  BY <1>1, Facts DEF Shape
<1>3. new \in ResolutionRow /\ new # None /\ new.at = due[p].at
  BY <1>1, <1>2, Facts DEF Shape, ResolutionRow
<1>4. UNCHANGED <<now, signal, version, call, built, todo, second, first, chosen, raced>>
      /\ due' = [due EXCEPT ![p] = None] /\ pc' = [pc EXCEPT ![p] = "resolve"]
  BY DEF WriteResolution, Goto, history
<1>5. resolution' = [resolution EXCEPT ![b.id] = new] \/ resolution' = resolution
  BY Zenon DEF WriteResolution
<1> HIDE DEF new
<1>6. Shape'
  BY <1>1, <1>2, <1>3, <1>4, <1>5 DEF Shape, Labels
<1>7. \A i \in Id : resolution'[i] = resolution[i] \/ (i = b.id /\ resolution'[i] = new)
  BY <1>1, <1>5 DEF Shape
<1>8. ResolvedInv'
  BY <1>1, <1>3, <1>4, <1>7 DEF ResolvedInv, ProcessInv, Horizon
<1>9. due'[p] = None /\ pc'[p] = "resolve" /\ \A q \in Processes \ {p} : due'[q] = due[q] /\ pc'[q] = pc[q]
  BY <1>1, <1>4 DEF Shape
<1>10. FirstInv' /\ WorkflowInv'
  BY <1>4 DEF SignalInv, FirstInv, WorkflowInv
<1>11. MeetInv'
  <2>1. ASSUME NEW q \in Processes, due'[q] # None, due'[q].signal.id \notin raced
        PROVE  /\ resolution'[due'[q].signal.id] = None
               /\ \A o \in Processes \ {q} : due'[o] # None => due'[o].signal.id # due'[q].signal.id
    <3>1. q # p /\ due'[q] = due[q]
      BY <1>9, <2>1
    <3>2. due[q].signal.id \in Id
      BY <1>1, <2>1, <3>1, Facts DEF Shape
    <3>3. due[q].signal.id # b.id
      BY <1>1, <2>1, <3>1 DEF MeetInv
    <3> QED
      BY <1>1, <1>7, <1>9, <2>1, <3>1, <3>2, <3>3 DEF MeetInv
  <2> QED
    BY <1>4, <2>1 DEF MeetInv
<1>12. ProcessInv(p)'
  BY <1>1, <1>4, <1>9 DEF ProcessInv, Horizon
<1>13. ASSUME NEW q \in Processes \ {p} PROVE ProcessInv(q)'
  <2>1. ProcessInv(q)
    BY DEF SignalInv
  <2> QED
    BY <1>1, <1>4, <1>9, <2>1, Bystander
<1> QED
  BY <1>6, <1>8, <1>10, <1>11, <1>12, <1>13 DEF SignalInv

-----------------------------------------------------------------------------
\* The steps of the user, the cleanup and the clock leave the processes alone.
LEMMA Outside ==
    ASSUME SignalInv, UNCHANGED <<pc, call, built, todo, second, due, first, raced>>, now' \in Instants, now' >= now,
           signal' \in [Id -> SignalRow \cup {None}], version' \in [Id -> Instants \cup {None}],
           chosen' \in [Id -> Workflow], WorkflowInv',
           resolution' \in [Id -> ResolutionRow \cup {None}],
           \A i \in Id : resolution'[i] \in {resolution[i], None}
    PROVE  SignalInv'
<1>1. Shape
  BY DEF SignalInv
<1>2. Shape'
  BY <1>1 DEF Shape
<1>3. FirstInv'
  <2>1. \A i \in Id : first[i] # None => first[i] \in Int
    BY <1>1, Facts DEF Shape
  <2>2. now \in Int /\ now' \in Int
    BY <1>1, Facts DEF Shape
  <2> QED
    BY <2>1, <2>2 DEF SignalInv, FirstInv
<1>4. ResolvedInv'
  BY DEF SignalInv, ResolvedInv, Horizon
<1>5. MeetInv'
  <2>1. \A p \in Processes : due[p] # None => due[p].signal.id \in Id
    BY <1>1, Facts DEF Shape
  <2> QED
    BY <2>1 DEF SignalInv, MeetInv
<1>6. ASSUME NEW p \in Processes PROVE ProcessInv(p)'
  BY <1>1, Bystander DEF SignalInv
<1> QED
  BY <1>2, <1>3, <1>4, <1>5, <1>6 DEF SignalInv

LEMMA WorkflowSet ==
    ASSUME SignalInv, NEW i \in Id, NEW w \in Workflow, SetWorkflowState(i, w)
    PROVE  SignalInv'
<1>1. Shape /\ WorkflowInv /\ signal[i] # None
  BY DEF SignalInv, SetWorkflowState
<1>2. chosen' = [chosen EXCEPT ![i] = w] /\ UNCHANGED <<now, version, resolution, pc, call, built, todo, second, due, first, raced>>
  BY DEF SetWorkflowState, local
<1> DEFINE old == signal[i]
           new == [old EXCEPT !.workflow = w]
<1>3. old \in SignalRow
  BY <1>1 DEF Shape
<1>4. new \in SignalRow /\ new.workflow = w
  BY <1>3 DEF SignalRow
<1>5. signal' = [signal EXCEPT ![i] = new]
  BY Zenon DEF SetWorkflowState
<1>6. new # None
  BY <1>4, Facts
<1> HIDE DEF new
<1>7. signal' \in [Id -> SignalRow \cup {None}] /\ chosen' \in [Id -> Workflow]
  BY <1>1, <1>2, <1>4, <1>5 DEF Shape
<1>8. WorkflowInv'
  BY <1>1, <1>2, <1>4, <1>5, <1>6 DEF WorkflowInv, Shape
<1>9. now' \in Instants /\ now' >= now
  BY <1>1, <1>2, Facts DEF Shape
<1> QED
  BY <1>1, <1>2, <1>7, <1>8, <1>9, Outside DEF Shape

LEMMA PurgeKept ==
    ASSUME SignalInv, NEW retention \in Retentions, Purge(retention)
    PROVE  SignalInv'
<1>1. Shape /\ WorkflowInv
  BY DEF SignalInv
<1> DEFINE Old(created) == created < now - retention
           purged == {i \in Id : signal[i] # None /\ Old(signal[i].created) /\ signal[i].status # "active"}
<1>2. /\ signal' = [i \in Id |-> IF i \in purged THEN None ELSE signal[i]]
      /\ version' = [i \in Id |-> IF version[i] # None /\ Old(version[i]) THEN None ELSE version[i]]
      /\ resolution' = [i \in Id |-> IF resolution[i] # None /\ Old(resolution[i].created)
                                     THEN None ELSE resolution[i]]
      /\ chosen' = [i \in Id |-> IF i \in purged THEN Watching ELSE chosen[i]]
      /\ UNCHANGED <<now, pc, call, built, todo, second, due, first, raced>>
  BY DEF Purge, local
<1> HIDE DEF purged, Old
<1>3. Watching \in Workflow
  BY SignalAssumption
<1>4. /\ signal' \in [Id -> SignalRow \cup {None}] /\ version' \in [Id -> Instants \cup {None}]
      /\ chosen' \in [Id -> Workflow] /\ resolution' \in [Id -> ResolutionRow \cup {None}]
  BY <1>1, <1>2, <1>3 DEF Shape
<1>5. WorkflowInv' /\ \A i \in Id : resolution'[i] \in {resolution[i], None}
  BY <1>1, <1>2 DEF WorkflowInv
<1>6. now' \in Instants /\ now' >= now
  BY <1>1, <1>2, Facts DEF Shape
<1> QED
  BY <1>2, <1>4, <1>5, <1>6, Outside

LEMMA TickKept ==
    ASSUME SignalInv, Tick
    PROVE  SignalInv'
<1>1. Shape /\ WorkflowInv
  BY DEF SignalInv
<1>2. now' = now + 1 /\ now' \in Instants
      /\ UNCHANGED <<signal, version, resolution, pc, call, built, todo, second, due, first, chosen, raced>>
  BY DEF Tick, tables, local, history
<1>3. now' >= now
  BY <1>1, <1>2, Facts DEF Shape
<1>4. WorkflowInv'
  BY <1>1, <1>2 DEF WorkflowInv
<1> QED
  BY <1>1, <1>2, <1>3, <1>4, Outside DEF Shape

-----------------------------------------------------------------------------
\* The inductive invariant: what a process carries between its build, its lookup and its write.
THEOREM SignalInductive == Spec => []SignalInv
<1>1. Init => SignalInv
  <2> SUFFICES ASSUME Init PROVE SignalInv
    OBVIOUS
  <2>1. Start \in Instants /\ Watching \in Workflow
    BY SignalAssumption
  <2>2. Idle \in [asOf : AsOf \cup {None}, resolve : BOOLEAN, roots : SUBSET Roots]
    BY DEF Idle
  <2>3. Shape
    BY <2>1, <2>2 DEF Init, Shape, Labels
  <2>4. FirstInv /\ ResolvedInv /\ WorkflowInv /\ MeetInv
    BY DEF Init, FirstInv, ResolvedInv, WorkflowInv, MeetInv
  <2>5. \A p \in Processes : ProcessInv(p)
    BY DEF Init, ProcessInv
  <2> QED
    BY <2>3, <2>4, <2>5 DEF SignalInv
<1>2. SignalInv /\ [Next]_vars => SignalInv'
  <2> SUFFICES ASSUME SignalInv, [Next]_vars PROVE SignalInv'
    OBVIOUS
  <2>1. CASE UNCHANGED vars
    BY <2>1 DEF vars, tables, local, history, SignalInv, Shape, FirstInv, ResolvedInv, WorkflowInv, MeetInv, ProcessInv, Horizon
  <2>2. ASSUME NEW p \in Processes, Step(p) PROVE SignalInv'
    BY <2>2, BuildKept, StoreKept, LookupKept, WriteResolutionKept, EndPassKept DEF Step
  <2>3. ASSUME NEW p \in Processes, Crash(p) PROVE SignalInv'
    BY <2>3, Returns DEF Crash
  <2> QED
    BY <2>1, <2>2, <2>3, CallKept, WorkflowSet, PurgeKept, TickKept DEF Next
<1> QED
  BY <1>1, <1>2, PTL DEF Spec

\* The types, with a signal in hand exactly while its resolution is to be written.
THEOREM SignalTyped == Spec => []TypeOK
<1>1. SignalInv => TypeOK
  BY DEF SignalInv, Shape, ProcessInv, TypeOK, Labels
<1> QED
  BY <1>1, SignalInductive, PTL

\* No signal is resolved before its horizon has passed since its first build, however many
\* processes rebuild it and whatever as_of they resolve it with.
THEOREM NeverEarly == Spec => []NotBeforeHorizon
<1>1. SignalInv => NotBeforeHorizon
  BY DEF SignalInv, ResolvedInv, NotBeforeHorizon, Horizon
<1> QED
  BY <1>1, SignalInductive, PTL

\* No rebuild loses the workflow state the user chose.
THEOREM ChoiceKept == Spec => []WorkflowKept
<1>1. SignalInv => WorkflowKept
  BY DEF SignalInv, WorkflowInv, WorkflowKept
<1> QED
  BY <1>1, SignalInductive, PTL

\* A resolution is not rewritten unless two processes resolved the signal at once or a lookup failed.
THEOREM ResolvedOnce == Spec => ResolutionStays
<1> DEFINE Stays == \A i \in Id \ raced' : resolution[i] # None => resolution'[i] \in {resolution[i], None}
<1>1. SignalInv /\ [Next]_vars => [Stays]_vars
  <2> SUFFICES ASSUME SignalInv, Next PROVE Stays
    BY DEF vars
  <2>1. CASE resolution' = resolution
    BY <2>1
  <2>2. ASSUME NEW retention \in Retentions, Purge(retention) PROVE Stays
    BY <2>2 DEF Purge
  <2>3. ASSUME NEW p \in Processes, WriteResolution(p) PROVE Stays
    <3>1. due[p] # None /\ raced' = raced /\ Shape /\ MeetInv
      BY <2>3 DEF SignalInv, ProcessInv, WriteResolution, history
    <3>2. \A i \in Id : i # due[p].signal.id => resolution'[i] = resolution[i]
      BY <2>3, <3>1 DEF WriteResolution, Shape
    <3> QED
      BY <3>1, <3>2 DEF MeetInv
  <2> QED
    BY <2>1, <2>2, <2>3 DEF Next, Call, Begin, Step, Build, Store, Lookup, EndPass, Crash, SetWorkflowState, Tick, tables
<1> QED
  BY <1>1, SignalInductive, PTL DEF Spec, ResolutionStays
=============================================================================
