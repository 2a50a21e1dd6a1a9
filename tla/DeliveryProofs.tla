--------------------------- MODULE DeliveryProofs ---------------------------
(***************************************************************************)
(* Machine-checked proofs about DeliveryPreferences, for any workers,      *)
(* event kinds, settings and number of calls.                              *)
(***************************************************************************)
EXTENDS DeliveryPreferences, FiniteSetTheorems, TLAPS

Labels == {"idle", "quiet", "allowed", "skip", "suppress", "act", "read", "write", "log"}

\* What is stored names at least one kind, if there are any.
Normal(r) == r.settings.kinds = {} => Kinds = {}

Shape ==
    /\ pc \in [Processes -> Labels]
    /\ DOMAIN call = Processes /\ call = [p \in Processes |-> call[p]]
    /\ quiet \in [Processes -> BOOLEAN]
    /\ reason \in [Processes -> Reasons \cup {None}]
    /\ base \in [Processes -> Row \cup {None}]
    /\ consent \in [Processes -> SUBSET {"subscribed", "unskipped"}]

RowInv ==
    /\ row \in Row \cup {None}
    /\ row # None => Normal(row)
    /\ saved \in Settings /\ unspent \subseteq Kinds /\ overlapped \in BOOLEAN
    /\ night \in BOOLEAN /\ calls \in 0 .. MaxCalls

\* Without overlapping writes the row holds what the user saved and every unspent mark.
MarkInv == ~overlapped => Snapshot.settings = saved /\ unspent \subseteq Snapshot.skips

\* A delivery knows what the row says now, and what its preview has found by now.
Aware(p) ==
    /\ call[p].kind \in Snapshot.settings.kinds => "subscribed" \in consent[p]
    /\ call[p].kind \notin Snapshot.skips => "unskipped" \in consent[p]

Sendable(p) == pc[p] = "suppress" \/ (pc[p] = "act" /\ reason[p] = None)

ProcessInv(p) ==
    /\ call[p] \in Call(p) \cup {None} /\ (call[p] = None <=> pc[p] = "idle")
    /\ pc[p] = "write" => base[p] # None
    /\ base[p] # None => Normal(base[p])
    /\ pc[p] \in {"quiet", "allowed", "skip", "suppress", "act"} => call[p].op = "send"
    /\ pc[p] # "idle" /\ call[p].op = "send" => Aware(p)
    /\ pc[p] = "skip" \/ Sendable(p) => "subscribed" \in consent[p]
    /\ p \in Workers /\ Sendable(p) => "unskipped" \in consent[p]

DeliveryInv == Shape /\ RowInv /\ MarkInv /\ \A p \in Processes : ProcessInv(p)

-----------------------------------------------------------------------------
\* The row as it is read.
LEMMA NormalizedRow ==
    /\ \A s \in Settings : Normalized(s) \in Settings /\ (Normalized(s).kinds = {} => Kinds = {})
    /\ \A s \in Settings : (s.kinds = {} => Kinds = {}) => Normalized(s) = s
<1>1. \A s \in Settings : [s EXCEPT !.kinds = Kinds] \in Settings /\ [s EXCEPT !.kinds = Kinds].kinds = Kinds
  BY DEF Settings
<1>2. \A s \in Settings : s.kinds = Kinds => [s EXCEPT !.kinds = Kinds] = s
  BY DEF Settings
<1> QED
  BY <1>1, <1>2 DEF Normalized

LEMMA SnapshotFacts ==
    ASSUME RowInv
    PROVE  /\ Snapshot \in Row /\ Normal(Snapshot)
           /\ row = None => Snapshot = DefaultRow
           /\ row # None => Snapshot = row
<1>1. DefaultRow \in Row /\ Normal(DefaultRow)
  BY DEF DefaultRow, Row, Settings, Normal
<1>2. CASE row = None
  BY <1>1, <1>2 DEF Snapshot
<1>3. CASE row # None
  <2>1. row \in Row /\ row.settings \in Settings /\ Normalized(row.settings) = row.settings
    BY <1>3, NormalizedRow DEF RowInv, Row, Normal
  <2>2. [row EXCEPT !.settings = Normalized(@)] = row
    BY <2>1 DEF Row
  <2>3. Snapshot = row
    BY <1>3, <2>2 DEF Snapshot
  <2> QED
    BY <1>3, <2>1, <2>3 DEF RowInv
<1> QED
  BY <1>2, <1>3

LEMMA ConsentsFacts ==
    ASSUME NEW c, NEW r
    PROVE  /\ Consents(c, r) \subseteq {"subscribed", "unskipped"}
           /\ c.kind \in r.settings.kinds => "subscribed" \in Consents(c, r)
           /\ c.kind \notin r.skips => "unskipped" \in Consents(c, r)
BY DEF Consents

LEMMA Actors == Workers \subseteq Processes /\ Api \in Processes /\ Api \notin Workers
BY DeliveryAssumption DEF Processes

\* A process that does not move keeps its part of the invariant as long as the row stays.
LEMMA Bystander ==
    ASSUME NEW q \in Processes, ProcessInv(q), row' = row,
           pc'[q] = pc[q], call'[q] = call[q], reason'[q] = reason[q], base'[q] = base[q], consent'[q] = consent[q]
    PROVE  ProcessInv(q)'
<1>1. Snapshot' = Snapshot
  BY DEF Snapshot, DefaultRow, Normalized
<1> QED
  BY <1>1 DEF ProcessInv, Aware, Sendable, Normal, Call, Processes

\* The others' entries stay.
Alone(p) ==
    \A q \in Processes \ {p} :
        /\ pc'[q] = pc[q] /\ call'[q] = call[q] /\ reason'[q] = reason[q]
        /\ base'[q] = base[q] /\ consent'[q] = consent[q]

\* A step that leaves the row alone.
LEMMA Moves ==
    ASSUME DeliveryInv, NEW p \in Processes, Alone(p),
           UNCHANGED <<row, saved, overlapped>>, night' \in BOOLEAN, calls' \in 0 .. MaxCalls, unspent' \subseteq unspent,
           Shape', ProcessInv(p)'
    PROVE  DeliveryInv'
<1>1. RowInv'
  BY DEF DeliveryInv, RowInv, Normal
<1>2. Snapshot' = Snapshot
  BY DEF Snapshot, DefaultRow, Normalized
<1>3. MarkInv'
  BY <1>2 DEF DeliveryInv, MarkInv
<1>4. ASSUME NEW q \in Processes PROVE ProcessInv(q)'
  BY Bystander DEF DeliveryInv, Alone
<1> QED
  BY <1>1, <1>3, <1>4 DEF DeliveryInv

LEMMA BeginKept ==
    ASSUME DeliveryInv, NEW p \in Processes, NEW c \in Call(p), Begin(p, c)
    PROVE  DeliveryInv'
<1>1. Shape /\ RowInv /\ ProcessInv(p)
  BY DEF DeliveryInv
<1>2. call' = [call EXCEPT ![p] = c] /\ DOMAIN call = Processes
  BY <1>1 DEF Begin, Shape
<1>3. call'[p] = c /\ c # None /\ pc[p] = "idle" /\ base[p] = base'[p]
  BY <1>2, DeliveryAssumption DEF Begin
<1>4. pc' = [pc EXCEPT ![p] = IF c.op = "send" THEN "quiet" ELSE "read"]
      /\ consent' = [consent EXCEPT ![p] = IF c.op = "send" THEN Consents(c, Snapshot) ELSE {}]
      /\ UNCHANGED <<row, night, quiet, reason, base, history>> /\ calls < MaxCalls /\ calls' = calls + 1
  BY DEF Begin
<1>5. Shape'
  <2>1. call' = [q \in Processes |-> call'[q]] /\ DOMAIN call' = Processes
    BY <1>1, <1>2 DEF Shape
  <2>2. pc' \in [Processes -> Labels]
    BY <1>1, <1>4 DEF Shape, Labels
  <2>3. consent' \in [Processes -> SUBSET {"subscribed", "unskipped"}]
    <3>1. (IF c.op = "send" THEN Consents(c, Snapshot) ELSE {}) \in SUBSET {"subscribed", "unskipped"}
      BY ConsentsFacts
    <3> QED
      BY <1>1, <1>4, <3>1 DEF Shape
  <2> QED
    BY <1>1, <1>4, <2>1, <2>2, <2>3 DEF Shape
<1>6. Alone(p)
  BY <1>1, <1>2, <1>4 DEF Alone, Shape
<1>7. ProcessInv(p)'
  <2>1. Snapshot' = Snapshot
    BY <1>4 DEF Snapshot, DefaultRow, Normalized
  <2>2. pc'[p] = IF c.op = "send" THEN "quiet" ELSE "read"
    BY <1>1, <1>4 DEF Shape
  <2>3. c.op = "send" => consent'[p] = Consents(c, Snapshot)
    BY <1>1, <1>4 DEF Shape
  <2>4. c.op = "send" => Aware(p)'
    BY <1>3, <2>1, <2>3, ConsentsFacts DEF Aware
  <2> QED
    BY <1>1, <1>3, <2>2, <2>4 DEF ProcessInv, Sendable, Normal, Call, Processes
<1>8. UNCHANGED <<row, saved, overlapped>> /\ night' \in BOOLEAN /\ calls' \in 0 .. MaxCalls /\ unspent' \subseteq unspent
  BY <1>1, <1>4, DeliveryAssumption DEF RowInv, history
<1> QED
  BY <1>5, <1>6, <1>7, <1>8, Moves

\* A call that returns or dies.
LEMMA Returns ==
    ASSUME DeliveryInv, NEW p \in Processes, Return(p), UNCHANGED <<row, night, calls, consent, history>>
    PROVE  DeliveryInv'
<1>1. Shape /\ RowInv
  BY DEF DeliveryInv
<1>2. Shape'
  <2>1. DOMAIN call' = Processes /\ call' = [q \in Processes |-> call'[q]]
    BY <1>1 DEF Shape, Return
  <2> QED
    BY <1>1, <2>1 DEF Shape, Return, Labels
<1>3. Alone(p)
  BY <1>1 DEF Alone, Shape, Return
<1>4. ProcessInv(p)'
  BY <1>1 DEF ProcessInv, Sendable, Shape, Return
<1>5. UNCHANGED <<row, saved, overlapped>> /\ night' \in BOOLEAN /\ calls' \in 0 .. MaxCalls /\ unspent' \subseteq unspent
  BY <1>1 DEF RowInv, history
<1> QED
  BY <1>2, <1>3, <1>4, <1>5, Moves

\* A step of a call under way that reads, and may take an unspent mark.
LEMMA Reads ==
    ASSUME DeliveryInv, NEW p \in Processes, NEW l \in Labels, NEW why \in Reasons \cup {None},
           NEW b \in Row \cup {None}, NEW asleep \in BOOLEAN,
           pc[p] # "idle", l # "idle",
           pc' = [pc EXCEPT ![p] = l], reason' = [reason EXCEPT ![p] = why], base' = [base EXCEPT ![p] = b],
           quiet' = [quiet EXCEPT ![p] = asleep],
           UNCHANGED <<row, night, call, calls, consent, saved, overlapped>>, unspent' \subseteq unspent,
           b # None => Normal(b),
           l = "write" => b # None,
           l \in {"quiet", "allowed", "skip", "suppress", "act"} => call[p].op = "send",
           l \in {"skip", "suppress"} \/ (l = "act" /\ why = None) => "subscribed" \in consent[p],
           p \in Workers /\ (l = "suppress" \/ (l = "act" /\ why = None)) => "unskipped" \in consent[p]
    PROVE  DeliveryInv'
<1>1. Shape /\ RowInv /\ ProcessInv(p)
  BY DEF DeliveryInv
<1>2. Shape'
  BY <1>1 DEF Shape
<1>3. Alone(p)
  BY <1>1 DEF Alone, Shape
<1>4. pc'[p] = l /\ reason'[p] = why /\ base'[p] = b /\ call'[p] = call[p] /\ consent'[p] = consent[p]
  BY <1>1 DEF Shape
<1>5. Snapshot' = Snapshot
  BY DEF Snapshot, DefaultRow, Normalized
<1>6. ProcessInv(p)'
  BY <1>1, <1>4, <1>5 DEF ProcessInv, Sendable, Aware, Normal, Call, Processes
<1>7. night' \in BOOLEAN /\ calls' \in 0 .. MaxCalls
  BY <1>1 DEF RowInv
<1> QED
  BY <1>2, <1>3, <1>6, <1>7, Moves

LEMMA Same ==
    ASSUME Shape, NEW p \in Processes
    PROVE  /\ reason[p] \in Reasons \cup {None} /\ reason = [reason EXCEPT ![p] = reason[p]]
           /\ base[p] \in Row \cup {None} /\ base = [base EXCEPT ![p] = base[p]]
           /\ quiet[p] \in BOOLEAN /\ quiet = [quiet EXCEPT ![p] = quiet[p]]
BY DEF Shape

\* A step that only goes on, with the reason it has.
LEMMA Goes ==
    ASSUME DeliveryInv, NEW p \in Processes, NEW l \in Labels,
           pc[p] # "idle", l \notin {"idle", "quiet", "allowed", "write"},
           pc' = [pc EXCEPT ![p] = l],
           UNCHANGED <<row, night, call, quiet, reason, base, calls, consent, saved, overlapped>>, unspent' \subseteq unspent,
           l \in {"skip", "suppress", "act"} => call[p].op = "send",
           l \in {"skip", "suppress"} \/ (l = "act" /\ reason[p] = None) => "subscribed" \in consent[p],
           p \in Workers /\ (l = "suppress" \/ (l = "act" /\ reason[p] = None)) => "unskipped" \in consent[p]
    PROVE  DeliveryInv'
<1>1. PICK why \in Reasons \cup {None}, b \in Row \cup {None}, asleep \in BOOLEAN :
        why = reason[p] /\ b = base[p] /\ asleep = quiet[p]
  BY Same DEF DeliveryInv
<1>2. reason' = [reason EXCEPT ![p] = why] /\ base' = [base EXCEPT ![p] = b] /\ quiet' = [quiet EXCEPT ![p] = asleep]
  BY <1>1, Same DEF DeliveryInv
<1>3. b # None => Normal(b)
  BY <1>1 DEF DeliveryInv, ProcessInv
<1>4. l \in {"skip", "suppress"} \/ (l = "act" /\ why = None) => "subscribed" \in consent[p]
  BY <1>1
<1>5. p \in Workers /\ (l = "suppress" \/ (l = "act" /\ why = None)) => "unskipped" \in consent[p]
  BY <1>1
<1>6. l \notin {"write", "idle"} /\ (l \in {"quiet", "allowed", "skip", "suppress", "act"} => call[p].op = "send")
  OBVIOUS
<1> QED
  BY <1>2, <1>3, <1>4, <1>5, <1>6, Reads

-----------------------------------------------------------------------------
LEMMA PreviewKept ==
    ASSUME DeliveryInv, NEW p \in Processes, Preview(p)
    PROVE  DeliveryInv'
<1>1. Shape /\ RowInv /\ ProcessInv(p) /\ Snapshot \in Row
  BY SnapshotFacts DEF DeliveryInv
<1>2. /\ reason[p] \in Reasons \cup {None} /\ reason = [reason EXCEPT ![p] = reason[p]]
      /\ base[p] \in Row \cup {None} /\ base = [base EXCEPT ![p] = base[p]]
      /\ quiet[p] \in BOOLEAN /\ quiet = [quiet EXCEPT ![p] = quiet[p]]
  BY <1>1, Same
<1>3. pc[p] # "write" /\ (base[p] # None => Normal(base[p]))
      /\ (pc[p] \in {"quiet", "allowed", "skip", "suppress"} => call[p].op = "send" /\ Aware(p))
  BY <1>1 DEF ProcessInv, Preview, IsQuietHours, AllowsEventKind, ShouldSkipNextEvent, ShouldSuppress
<1>4. {"quiet", "allowed", "skip", "suppress", "act", "write"} \subseteq Labels
  BY DEF Labels
<1>5. CASE IsQuietHours(p)
  <2> DEFINE asleep == Snapshot.settings.window /\ night
  <2>1. asleep \in BOOLEAN
    BY <1>1 DEF Row, Settings, RowInv
  <2>2. pc[p] = "quiet" /\ pc' = [pc EXCEPT ![p] = "allowed"] /\ quiet' = [quiet EXCEPT ![p] = asleep]
        /\ UNCHANGED <<row, night, call, reason, base, calls, consent, history>>
    BY <1>5, Zenon DEF IsQuietHours, Goto
  <2> HIDE DEF asleep
  <2> QED
    BY <1>2, <1>3, <1>4, <2>1, <2>2, Reads DEF history
<1>6. CASE AllowsEventKind(p)
  <2>1. pc[p] = "allowed" /\ UNCHANGED <<row, night, call, quiet, base, calls, consent, history>>
    BY <1>6 DEF AllowsEventKind
  <2>2. CASE \E why \in Reasons : Suppress(p, why)
    <3>1. PICK why \in Reasons : Suppress(p, why)
      BY <2>2
    <3>2. why # None /\ pc' = [pc EXCEPT ![p] = "act"] /\ reason' = [reason EXCEPT ![p] = why]
      BY <3>1, DeliveryAssumption DEF Suppress, Goto
    <3> QED
      BY <1>2, <1>3, <1>4, <2>1, <3>2, Reads DEF history
  <2>3. CASE call[p].kind \in Snapshot.settings.kinds /\ UNCHANGED reason
             /\ Goto(p, IF p = Api THEN "suppress" ELSE "skip")
    <3> DEFINE l == IF p = Api THEN "suppress" ELSE "skip"
    <3>1. pc' = [pc EXCEPT ![p] = l] /\ "subscribed" \in consent[p]
      BY <1>3, <2>1, <2>3 DEF Goto, Aware
    <3>2. l \in {"suppress", "skip"} /\ (p \in Workers => l = "skip")
      BY Actors
    <3> HIDE DEF l
    <3> QED
      BY <1>3, <1>4, <2>1, <2>3, <3>1, <3>2, Goes DEF history
  <2> QED
    BY <1>6, <2>2, <2>3 DEF AllowsEventKind, Reasons
<1>7. CASE ShouldSkipNextEvent(p)
  <2>1. pc[p] = "skip" /\ UNCHANGED <<row, night, call, quiet, base, calls, consent, saved, overlapped>>
    BY <1>7 DEF ShouldSkipNextEvent
  <2>2. CASE call[p].kind \in Snapshot.skips
    <3>1. "skip_next" \in Reasons /\ "skip_next" # None
      BY DeliveryAssumption DEF Reasons
    <3>2. pc' = [pc EXCEPT ![p] = "act"] /\ reason' = [reason EXCEPT ![p] = "skip_next"] /\ unspent' \subseteq unspent
      BY <1>7, <2>2 DEF ShouldSkipNextEvent, Suppress, Goto
    <3> QED
      BY <1>2, <1>3, <1>4, <2>1, <3>1, <3>2, Reads
  <2>3. CASE call[p].kind \notin Snapshot.skips
    <3>1. pc' = [pc EXCEPT ![p] = "suppress"] /\ UNCHANGED <<reason, unspent>>
      BY <1>7, <2>3 DEF ShouldSkipNextEvent, Goto
    <3>2. "subscribed" \in consent[p] /\ "unskipped" \in consent[p]
      BY <1>1, <1>3, <2>1, <2>3 DEF ProcessInv, Aware
    <3> QED
      BY <1>3, <1>4, <2>1, <3>1, <3>2, Goes
  <2> QED
    BY <2>2, <2>3
<1>8. CASE ShouldSuppress(p)
  <2>1. pc[p] = "suppress" /\ UNCHANGED <<row, night, call, quiet, base, calls, consent, history>>
    BY <1>8 DEF ShouldSuppress
  <2>2. PICK why \in Reasons \cup {None} : Suppress(p, why)
    BY <1>8 DEF ShouldSuppress, Reasons
  <2>3. pc' = [pc EXCEPT ![p] = "act"] /\ reason' = [reason EXCEPT ![p] = why]
    BY <2>2 DEF Suppress, Goto
  <2>4. "subscribed" \in consent[p] /\ (p \in Workers => "unskipped" \in consent[p])
    BY <1>1, <2>1 DEF ProcessInv, Sendable
  <2> QED
    BY <1>2, <1>3, <1>4, <2>1, <2>3, <2>4, Reads DEF history
<1> QED
  BY <1>5, <1>6, <1>7, <1>8 DEF Preview

LEMMA DeliverKept ==
    ASSUME DeliveryInv, NEW p \in Processes, Deliver(p)
    PROVE  DeliveryInv'
<1>1. Shape /\ RowInv /\ ProcessInv(p) /\ pc[p] = "act"
  BY DEF DeliveryInv, Deliver
<1>2. UNCHANGED <<row, night, calls, consent, history>>
  BY DEF Deliver
<1>3. CASE Return(p)
  BY <1>2, <1>3, Returns
<1>4. CASE \E l \in {"log", "read"} : Goto(p, l) /\ UNCHANGED <<call, quiet, reason, base>>
  <2>1. PICK l \in {"log", "read"} : Goto(p, l) /\ UNCHANGED <<call, quiet, reason, base>>
    BY <1>4
  <2>2. pc' = [pc EXCEPT ![p] = l] /\ l \in Labels
    BY <2>1 DEF Goto, Labels
  <2> QED
    BY <1>1, <1>2, <2>1, <2>2, Goes DEF history
<1> QED
  BY <1>3, <1>4 DEF Deliver, SendMessage

LEMMA ReadRowKept ==
    ASSUME DeliveryInv, NEW p \in Processes, ReadRow(p)
    PROVE  DeliveryInv'
<1>1. Shape /\ RowInv /\ pc[p] = "read" /\ Snapshot \in Row /\ Normal(Snapshot)
  BY SnapshotFacts DEF DeliveryInv, ReadRow
<1>2. base' = [base EXCEPT ![p] = Snapshot] /\ pc' = [pc EXCEPT ![p] = "write"] /\ "write" \in Labels
      /\ UNCHANGED <<row, night, call, quiet, reason, calls, consent, history>>
  BY DEF ReadRow, Goto, Labels
<1>3. Snapshot # None
  BY <1>1, DeliveryAssumption
<1> QED
  BY <1>1, <1>2, <1>3, Same, Reads DEF history

\* A write of the row: each of the three puts a normal row in place, with the settings
\* the user saved last, and every mark it has read but the one it clears.
LEMMA WrittenRow ==
    ASSUME RowInv, Shape, NEW p \in Processes, ProcessInv(p), pc[p] = "write",
           UpdatePreferences(p) \/ MarkSkipNextEvent(p) \/ ClearSkipNextEvent(p)
    PROVE  /\ Becomes(row') /\ row' \in Row /\ Normal(row') /\ saved' \in Settings /\ unspent' \subseteq Kinds
           /\ (base[p].settings = saved => row'.settings = saved')
           /\ (unspent \subseteq base[p].skips /\ (call[p].op = "send" => call[p].kind \notin unspent)
               => unspent' \subseteq row'.skips)
<1> DEFINE b == base[p]
           c == call[p]
<1>1. b \in Row /\ Normal(b) /\ c \in Call(p)
  BY DEF Shape, ProcessInv
<1>2. b.settings \in Settings /\ b.skips \subseteq Kinds
  BY <1>1 DEF Row
<1>3. CASE UpdatePreferences(p)
  <2> DEFINE s == Normalized(c.settings)
  <2>1. c.settings \in Settings
    BY <1>1, <1>3, DeliveryAssumption DEF UpdatePreferences, Call
  <2>2. s \in Settings /\ (s.kinds = {} => Kinds = {})
    BY <2>1, NormalizedRow
  <2>3. Becomes([settings |-> s, skips |-> b.skips]) /\ saved' = s /\ UNCHANGED <<marked, unspent>>
    BY <1>3, Zenon DEF UpdatePreferences
  <2>4. row' = [settings |-> s, skips |-> b.skips]
    BY <2>3 DEF Becomes
  <2> HIDE DEF s, b
  <2>5. row' \in Row /\ Normal(row') /\ row'.settings = s /\ row'.skips = b.skips
    BY <1>2, <2>2, <2>4 DEF Row, Normal
  <2> QED
    BY <2>2, <2>3, <2>4, <2>5 DEF RowInv, b
<1>4. CASE MarkSkipNextEvent(p)
  <2>1. c.kind \in Kinds
    BY <1>1, <1>4 DEF MarkSkipNextEvent, Call
  <2>2. Becomes([b EXCEPT !.skips = @ \cup {c.kind}]) /\ saved' = saved /\ c.op = "mark"
        /\ unspent' \subseteq unspent \cup {c.kind}
    BY <1>4 DEF MarkSkipNextEvent
  <2>3. row' = [b EXCEPT !.skips = @ \cup {c.kind}]
    BY <2>2 DEF Becomes
  <2>4. row' \in Row /\ row'.settings = b.settings /\ row'.skips = b.skips \cup {c.kind}
    BY <1>1, <1>2, <2>1, <2>3 DEF Row
  <2>5. Normal(row')
    BY <1>1, <2>4 DEF Normal
  <2>6. unspent \subseteq b.skips => unspent' \subseteq row'.skips
    BY <2>2, <2>4
  <2>7. saved' \in Settings /\ unspent' \subseteq Kinds /\ Becomes(row')
    BY <2>1, <2>2, <2>3 DEF RowInv
  <2> QED
    BY <2>2, <2>4, <2>5, <2>6, <2>7
<1>5. CASE ClearSkipNextEvent(p)
  <2>1. Becomes(Unmarked(b, c.kind)) /\ saved' = saved
        /\ c.op \in {"undo", "send"}
        /\ unspent' = IF c.op = "undo" THEN unspent \ {c.kind} ELSE unspent
    BY <1>5 DEF ClearSkipNextEvent
  <2>2. row' = [b EXCEPT !.skips = @ \ {c.kind}] /\ Becomes(row')
    BY <2>1 DEF Becomes, Unmarked
  <2>3. row' \in Row /\ row'.settings = b.settings /\ row'.skips = b.skips \ {c.kind}
    BY <1>1, <1>2, <2>2 DEF Row
  <2>4. Normal(row')
    BY <1>1, <2>3 DEF Normal
  <2>5. unspent \subseteq b.skips /\ (c.op = "send" => c.kind \notin unspent) => unspent' \subseteq row'.skips
    BY <2>1, <2>3
  <2>6. saved' \in Settings /\ unspent' \subseteq Kinds
    BY <2>1 DEF RowInv
  <2> QED
    BY <2>1, <2>2, <2>3, <2>4, <2>5, <2>6
<1> QED
  BY <1>3, <1>4, <1>5

LEMMA WriteRowKept ==
    ASSUME DeliveryInv, NEW p \in Processes, WriteRow(p)
    PROVE  DeliveryInv'
<1>1. Shape /\ RowInv /\ MarkInv /\ ProcessInv(p) /\ pc[p] = "write" /\ base[p] # None
  BY DEF DeliveryInv, WriteRow, ProcessInv
<1>2. UpdatePreferences(p) \/ MarkSkipNextEvent(p) \/ ClearSkipNextEvent(p)
  BY DEF WriteRow
<1>3. /\ Becomes(row') /\ row' \in Row /\ Normal(row') /\ saved' \in Settings /\ unspent' \subseteq Kinds
      /\ (base[p].settings = saved => row'.settings = saved')
      /\ (unspent \subseteq base[p].skips /\ (call[p].op = "send" => call[p].kind \notin unspent)
          => unspent' \subseteq row'.skips)
  BY <1>1, <1>2, WrittenRow
<1>4. overlapped' = (overlapped \/ Overlaps(p)) /\ UNCHANGED <<night, calls>>
  BY DEF WriteRow
<1>5. RowInv'
  BY <1>1, <1>3, <1>4 DEF RowInv, Normal
<1>6. row' # None
  BY <1>3, DeliveryAssumption
<1>7. Snapshot' = row'
  <2>1. RowInv' => (row # None => Snapshot = row)'
    BY SnapshotFacts, PTL
  <2> QED
    BY <1>5, <1>6, <2>1
<1>8. MarkInv'
  <2>1. SUFFICES ASSUME ~overlapped' PROVE row'.settings = saved' /\ unspent' \subseteq row'.skips
    BY <1>7 DEF MarkInv
  <2>2. ~overlapped /\ ~Overlaps(p)
    BY <1>1, <1>4, <2>1 DEF RowInv
  <2>3. base[p] = Snapshot /\ (call[p].op = "send" => call[p].kind \notin unspent)
    BY <2>2 DEF Overlaps
  <2> QED
    BY <1>1, <1>3, <2>2, <2>3 DEF MarkInv
<1>9. consent' = [q \in Processes |-> IF pc[q] # "idle" /\ call[q].op = "send"
                                      THEN consent[q] \cup Consents(call[q], row') ELSE consent[q]]
  BY <1>3 DEF Becomes
<1>10. \A q \in Processes : consent'[q] \subseteq {"subscribed", "unskipped"} /\ consent[q] \subseteq consent'[q]
  BY <1>1, <1>9, ConsentsFacts DEF Shape
<1>11. ASSUME NEW q \in Processes, pc'[q] = pc[q], call'[q] = call[q], reason'[q] = reason[q], base'[q] = base[q]
       PROVE  ProcessInv(q)'
  <2>1. ProcessInv(q) /\ pc[q] # "idle" /\ call[q].op = "send" => Aware(q)'
    BY <1>7, <1>9, <1>11, ConsentsFacts DEF Aware
  <2>2. ProcessInv(q)
    BY DEF DeliveryInv
  <2> QED
    BY <1>10, <1>11, <2>1, <2>2 DEF ProcessInv, Sendable, Normal, Call, Processes
<1>12. CASE call[p].op = "send"
  <2>1. pc' = [pc EXCEPT ![p] = "log"] /\ UNCHANGED <<call, quiet, reason, base>>
    BY <1>12 DEF WriteRow, Goto, local
  <2>2. Shape'
    BY <1>1, <1>9, <1>10, <2>1 DEF Shape, Labels
  <2>3. Aware(p)'
    BY <1>1, <1>7, <1>9, <1>12, <2>1, ConsentsFacts DEF Aware
  <2>4. ProcessInv(p)'
    BY <1>1, <2>1, <2>3 DEF ProcessInv, Sendable, Normal, Call, Processes, Shape
  <2>5. \A q \in Processes \ {p} : ProcessInv(q)'
    BY <1>1, <1>11, <2>1 DEF Shape
  <2> QED
    BY <1>5, <1>8, <2>2, <2>4, <2>5 DEF DeliveryInv
<1>13. CASE call[p].op # "send"
  <2>1. Return(p)
    BY <1>13 DEF WriteRow
  <2>2. Shape'
    <3>1. DOMAIN call' = Processes /\ call' = [q \in Processes |-> call'[q]]
      BY <1>1, <2>1 DEF Shape, Return
    <3> QED
      BY <1>1, <1>9, <1>10, <2>1, <3>1 DEF Shape, Return, Labels
  <2>3. ProcessInv(p)'
    BY <1>1, <2>1 DEF ProcessInv, Sendable, Shape, Return
  <2>4. \A q \in Processes \ {p} : ProcessInv(q)'
    BY <1>1, <1>11, <2>1 DEF Shape, Return
  <2> QED
    BY <1>5, <1>8, <2>2, <2>3, <2>4 DEF DeliveryInv
<1> QED
  BY <1>12, <1>13

-----------------------------------------------------------------------------
LEMMA NextKept == DeliveryInv /\ [Next]_vars => DeliveryInv'
<1> SUFFICES ASSUME DeliveryInv, [Next]_vars PROVE DeliveryInv'
  OBVIOUS
<1>1. CASE UNCHANGED vars
  BY <1>1 DEF vars, local, history, DeliveryInv, Shape, RowInv, MarkInv, ProcessInv, Aware, Sendable, Normal,
              Snapshot, DefaultRow, Normalized, Call, Processes
<1>2. CASE Dusk
  <2>1. UNCHANGED <<row, pc, local, calls, consent, history>> /\ night' = ~night
    BY <1>2 DEF Dusk
  <2>2. night' \in BOOLEAN
    BY <2>1 DEF DeliveryInv, RowInv
  <2> QED
    BY <2>1, <2>2 DEF local, history, DeliveryInv, Shape, RowInv, MarkInv, ProcessInv, Aware, Sendable, Normal,
              Snapshot, DefaultRow, Normalized, Call, Processes
<1>3. ASSUME NEW p \in Processes, NEW c \in Call(p), Begin(p, c) PROVE DeliveryInv'
  BY <1>3, BeginKept
<1>4. ASSUME NEW p \in Processes, Step(p) PROVE DeliveryInv'
  <2>1. CASE RecordDeliveryActivity(p)
    BY <2>1, Returns DEF RecordDeliveryActivity
  <2> QED
    BY <1>4, <2>1, PreviewKept, DeliverKept, ReadRowKept, WriteRowKept DEF Step
<1>5. ASSUME NEW p \in Processes, Crash(p) PROVE DeliveryInv'
  BY <1>5, Returns DEF Crash
<1> QED
  BY <1>1, <1>2, <1>3, <1>4, <1>5 DEF Next

\* The inductive invariant: what each call knows of the row, and what the row keeps as long as
\* no two writes have overlapped.
THEOREM DeliveryInductive == Spec => []DeliveryInv
<1>1. Init => DeliveryInv
  <2> SUFFICES ASSUME Init PROVE DeliveryInv
    OBVIOUS
  <2>1. Shape
    BY DEF Init, Shape, Labels
  <2>2. RowInv
    <3>1. DefaultRow.settings \in Settings
      BY DEF DefaultRow, Settings
    <3>2. 0 \in 0 .. MaxCalls
      BY DeliveryAssumption
    <3> QED
      BY <3>1, <3>2 DEF Init, RowInv
  <2>3. MarkInv
    BY DEF Init, MarkInv, Snapshot, DefaultRow
  <2>4. \A p \in Processes : ProcessInv(p)
    BY DEF Init, ProcessInv, Sendable
  <2> QED
    BY <2>1, <2>2, <2>3, <2>4 DEF DeliveryInv
<1> QED
  BY <1>1, NextKept, PTL DEF Spec

\* The types, with a row to start from under every write.
THEOREM DeliveryTyped == Spec => []TypeOK
<1>1. DeliveryInv => TypeOK
  BY DEF DeliveryInv, Shape, RowInv, ProcessInv, TypeOK, Labels
<1> QED
  BY <1>1, DeliveryInductive, PTL

\* Saving preferences and clearing another kind's mark lose no mark, for any number of workers
\* and calls, as long as no two writes overlap.
THEOREM MarksStay == Spec => []MarkStays
<1>1. DeliveryInv => MarkStays
  BY DEF DeliveryInv, MarkInv, MarkStays
<1> QED
  BY <1>1, DeliveryInductive, PTL

\* And the settings in force are the ones saved last.
THEOREM SettingsKept == Spec => []SettingsStay
<1>1. DeliveryInv => SettingsStay
  BY SnapshotFacts DEF DeliveryInv, MarkInv, SettingsStay
<1> QED
  BY <1>1, DeliveryInductive, PTL

\* Whatever other processes write meanwhile, a message goes out only with consent.
THEOREM ConsentGiven == Spec => SentWithConsent
<1> DEFINE Consented ==
             \A p \in Processes :
               pc[p] = "act" /\ pc'[p] # "act" /\ messages' # messages
               => /\ "subscribed" \in consent[p]
                  /\ p \in Workers => "unskipped" \in consent[p]
<1>1. DeliveryInv /\ [Next]_vars => [Consented]_vars
  <2> SUFFICES ASSUME DeliveryInv, Next, NEW p \in Processes,
                      pc[p] = "act", pc'[p] # "act", messages' # messages
               PROVE  "subscribed" \in consent[p] /\ (p \in Workers => "unskipped" \in consent[p])
    BY DEF vars
  <2>1. PICK q \in Processes : Deliver(q)
    BY DEF Next, Dusk, Begin, Step, Preview, IsQuietHours, AllowsEventKind, ShouldSkipNextEvent, ShouldSuppress,
           ReadRow, WriteRow, RecordDeliveryActivity, Crash
  <2>2. reason[q] = None /\ pc[q] = "act"
    BY <2>1 DEF Deliver
  <2>3. q = p
    BY <2>1 DEF Deliver, SendMessage, Goto, Return, DeliveryInv, Shape
  <2> QED
    BY <2>2, <2>3 DEF DeliveryInv, ProcessInv, Sendable
<1> QED
  BY <1>1, DeliveryInductive, PTL DEF Spec, SentWithConsent

-----------------------------------------------------------------------------
(* The delivery log against the chat and against the user's marks. *)

\* The deliveries that are about to be recorded: those that sent, those that were muted by a mark.
Flying(k, why) ==
    {p \in Processes : pc[p] = "log" /\ call[p].kind = k /\ ~call[p].dry /\ reason[p] = why}

Marked(k) == IF k \in Snapshot.skips THEN 1 ELSE 0

LedgerShape ==
    log \in [Kinds -> [sent : Nat, skip_next : Nat]] /\ messages \in [Kinds -> Nat] /\ marked \in [Kinds -> Nat]

\* Only a delivery muted by a mark goes on to a write, and only a delivery is recorded.
StageInv ==
    \A p \in Processes :
        /\ pc[p] \in {"read", "write"} /\ call[p].op = "send" => reason[p] = "skip_next" /\ ~call[p].dry
        /\ pc[p] = "log" => call[p].op = "send"

\* A message is in the chat before it is in the log.
SentInv == \A k \in Kinds : Cardinality(Flying(k, None)) + log[k].sent <= messages[k]

\* Without overlapping writes a mark is in the row, or with the delivery it has muted, or in the log.
SpentInv ==
    ~overlapped => \A k \in Kinds :
        Cardinality(Flying(k, "skip_next")) + log[k].skip_next + Marked(k) <= marked[k]

LedgerInv == LedgerShape /\ StageInv /\ SentInv /\ SpentInv

Whys == {None, "skip_next"}

LEMMA FlyingFinite ==
    /\ IsFiniteSet(Processes)
    /\ \A S \in SUBSET Processes : IsFiniteSet(S) /\ Cardinality(S) \in Nat
<1>1. IsFiniteSet(Processes)
  BY DeliveryAssumption, FS_AddElement DEF Processes
<1>2. \A S \in SUBSET Processes : IsFiniteSet(S)
  BY <1>1, FS_Subset
<1> QED
  BY <1>1, <1>2, FS_CardinalityType

\* A set of deliveries with at most one more, or with one fewer.
LEMMA Counting ==
    ASSUME NEW S \in SUBSET Processes, NEW T \in SUBSET Processes, NEW p \in Processes
    PROVE  /\ Cardinality(S) \in Nat /\ Cardinality(T) \in Nat
           /\ T \subseteq S => Cardinality(T) <= Cardinality(S)
           /\ T \subseteq S \cup {p} => Cardinality(T) <= Cardinality(S) + 1
           /\ p \in S /\ T \subseteq S \ {p} => Cardinality(T) + 1 <= Cardinality(S)
<1>1. IsFiniteSet(S) /\ IsFiniteSet(T) /\ Cardinality(S) \in Nat /\ Cardinality(T) \in Nat
  BY FlyingFinite
<1>2. ASSUME T \subseteq S PROVE Cardinality(T) <= Cardinality(S)
  BY <1>1, <1>2, FS_Subset
<1>3. ASSUME T \subseteq S \cup {p} PROVE Cardinality(T) <= Cardinality(S) + 1
  <2>1. IsFiniteSet(S \cup {p}) /\ Cardinality(S \cup {p}) \in {Cardinality(S), Cardinality(S) + 1}
    BY <1>1, FS_AddElement
  <2>2. Cardinality(T) <= Cardinality(S \cup {p})
    BY <1>3, <2>1, FS_Subset
  <2> QED
    BY <1>1, <2>1, <2>2
<1>4. ASSUME p \in S, T \subseteq S \ {p} PROVE Cardinality(T) + 1 <= Cardinality(S)
  <2>1. IsFiniteSet(S \ {p}) /\ Cardinality(S \ {p}) = Cardinality(S) - 1
    BY <1>1, <1>4, FS_RemoveElement
  <2>2. Cardinality(T) <= Cardinality(S \ {p})
    BY <1>4, <2>1, FS_Subset
  <2> QED
    BY <1>1, <2>1, <2>2
<1> QED
  BY <1>1, <1>2, <1>3, <1>4

\* What the others fly stays.
Apart(p) ==
    \A q \in Processes \ {p} : pc'[q] = pc[q] /\ call'[q] = call[q] /\ reason'[q] = reason[q]

LEMMA FlyingOthers ==
    ASSUME NEW p \in Processes, Apart(p), NEW k, NEW why
    PROVE  Flying(k, why)' \subseteq Flying(k, why) \cup {p}
BY DEF Flying, Apart

\* A step that records nothing and sends nothing.
LEMMA QuietStep ==
    ASSUME LedgerInv, DeliveryInv, NEW p \in Processes, Apart(p),
           UNCHANGED <<row, log, messages, marked, overlapped>>,
           pc'[p] = "log" /\ ~call'[p].dry => reason'[p] \notin Whys,
           pc'[p] = "log" => call'[p].op = "send",
           pc'[p] \in {"read", "write"} /\ call'[p].op = "send" => reason'[p] = "skip_next" /\ ~call'[p].dry
    PROVE  LedgerInv'
<1>1. \A k \in Kinds, why \in Whys : Flying(k, why)' \subseteq Flying(k, why)
  BY DEF Flying, Apart
<1>2. \A k \in Kinds, why \in Whys :
        /\ Cardinality(Flying(k, why)) \in Nat /\ Cardinality(Flying(k, why)') \in Nat
        /\ Cardinality(Flying(k, why)') <= Cardinality(Flying(k, why))
  <2>1. \A k, why : Flying(k, why) \in SUBSET Processes /\ Flying(k, why)' \in SUBSET Processes
    BY DEF Flying, Processes
  <2> QED
    BY <1>1, <2>1, Counting
<1>3. Snapshot' = Snapshot
  BY DEF Snapshot, DefaultRow, Normalized
<1>4. SentInv'
  BY <1>2 DEF LedgerInv, LedgerShape, SentInv, Whys
<1>5. SpentInv'
  BY <1>2, <1>3 DEF LedgerInv, LedgerShape, SpentInv, Whys, Marked
<1>6. StageInv'
  BY DEF LedgerInv, StageInv, Apart
<1> QED
  BY <1>4, <1>5, <1>6 DEF LedgerInv, LedgerShape

LEMMA FlyingSets ==
    \A k, why : Flying(k, why) \in SUBSET Processes /\ Flying(k, why)' \in SUBSET Processes
BY DEF Flying, Processes

\* A call that returns without recording.
LEMMA ReturnQuiet ==
    ASSUME LedgerInv, DeliveryInv, NEW p \in Processes, Return(p), UNCHANGED <<row, log, messages, marked, overlapped>>
    PROVE  LedgerInv'
<1>1. Shape
  BY DEF DeliveryInv
<1>2. Apart(p) /\ pc'[p] = "idle"
  BY <1>1 DEF Apart, Return, Shape
<1> QED
  BY <1>2, QuietStep

LEMMA DeliverLedger ==
    ASSUME LedgerInv, DeliveryInv, NEW p \in Processes, Deliver(p)
    PROVE  LedgerInv'
<1>1. Shape /\ ProcessInv(p) /\ pc[p] = "act" /\ call[p].op = "send" /\ call[p].kind \in Kinds
  BY DEF DeliveryInv, Deliver, ProcessInv, Call
<1>2. UNCHANGED <<row, log, marked, overlapped>>
  BY DEF Deliver, history
<1>k. PICK k \in Kinds : k = call[p].kind
  BY <1>1
<1>3. CASE SendMessage(p) /\ ~call[p].dry /\ reason[p] = None
  <2>1. messages' = [messages EXCEPT ![k] = @ + 1] \/ messages' = messages
    BY <1>3, <1>k DEF SendMessage
  <2>2. /\ messages' \in [Kinds -> Nat] /\ \A j \in Kinds : messages'[j] >= messages[j]
        /\ messages' # messages => messages'[k] = messages[k] + 1
    BY <1>1, <2>1 DEF LedgerInv, LedgerShape
  <2>3. Snapshot' = Snapshot
    BY <1>2 DEF Snapshot, DefaultRow, Normalized
  <2>4. CASE Goto(p, "log") /\ UNCHANGED <<call, reason>> /\ messages' = [messages EXCEPT ![k] = @ + 1]
    <3>1. Apart(p) /\ pc'[p] = "log"
      BY <1>1, <2>4 DEF Apart, Goto, Shape
    <3>2. messages'[k] = messages[k] + 1
      BY <1>1, <2>4 DEF LedgerInv, LedgerShape
    <3>3. Flying(k, None)' \subseteq Flying(k, None) \cup {p}
      BY <3>1, FlyingOthers
    <3>4. \A j \in Kinds, why \in Whys : j # k \/ why # None => Flying(j, why)' \subseteq Flying(j, why)
      BY <1>3, <1>k, <2>4, <3>1 DEF Flying, Apart
    <3>5. Cardinality(Flying(k, None)') <= Cardinality(Flying(k, None)) + 1
      BY <3>3, FlyingSets, Counting
    <3>6. \A j \in Kinds, why \in Whys : Cardinality(Flying(j, why)) \in Nat /\ Cardinality(Flying(j, why)') \in Nat
      BY FlyingSets, FlyingFinite
    <3>7. \A j \in Kinds, why \in Whys : j # k \/ why # None =>
            Cardinality(Flying(j, why)') <= Cardinality(Flying(j, why))
      BY <3>4, FlyingSets, Counting
    <3>8. SentInv'
      BY <1>1, <1>2, <2>2, <3>2, <3>5, <3>6, <3>7 DEF LedgerInv, LedgerShape, SentInv, Whys
    <3>9. "skip_next" # None
      BY DeliveryAssumption DEF Reasons
    <3>10. SpentInv'
      BY <1>2, <2>3, <3>6, <3>7, <3>9 DEF LedgerInv, LedgerShape, SpentInv, Whys, Marked
    <3>11. StageInv'
      BY <1>1, <2>4, <3>1 DEF LedgerInv, StageInv, Apart
    <3> QED
      BY <1>2, <2>2, <3>8, <3>10, <3>11 DEF LedgerInv, LedgerShape
  <2>5. CASE Return(p)
    <3>1. Apart(p) /\ pc'[p] = "idle"
      BY <1>1, <2>5 DEF Apart, Return, Shape
    <3>2. \A j \in Kinds, why \in Whys : Flying(j, why)' \subseteq Flying(j, why)
      BY <3>1 DEF Flying, Apart
    <3>3. \A j \in Kinds, why \in Whys :
            /\ Cardinality(Flying(j, why)) \in Nat /\ Cardinality(Flying(j, why)') \in Nat
            /\ Cardinality(Flying(j, why)') <= Cardinality(Flying(j, why))
      BY <3>2, FlyingSets, Counting
    <3>4. SentInv'
      BY <1>2, <2>2, <3>3 DEF LedgerInv, LedgerShape, SentInv, Whys
    <3>5. SpentInv'
      BY <1>2, <2>3, <3>3 DEF LedgerInv, LedgerShape, SpentInv, Whys, Marked
    <3>6. StageInv'
      BY <3>1 DEF LedgerInv, StageInv, Apart
    <3> QED
      BY <1>2, <2>2, <3>4, <3>5, <3>6 DEF LedgerInv, LedgerShape
  <2> QED
    BY <1>3, <1>k, <2>4, <2>5 DEF SendMessage
<1>4. CASE /\ ~(~call[p].dry /\ reason[p] = None)
           /\ Goto(p, IF ~call[p].dry /\ reason[p] = "skip_next" THEN "read" ELSE "log")
           /\ UNCHANGED <<call, reason, messages>>
  <2>1. Apart(p) /\ pc'[p] = IF ~call[p].dry /\ reason[p] = "skip_next" THEN "read" ELSE "log"
    BY <1>1, <1>4 DEF Apart, Goto, Shape
  <2> QED
    BY <1>1, <1>2, <1>4, <2>1, QuietStep DEF Whys
<1> QED
  BY <1>3, <1>4 DEF Deliver

\* The event of a delivery takes it out of the air.
LEMMA RecordLedger ==
    ASSUME LedgerInv, DeliveryInv, NEW p \in Processes, RecordDeliveryActivity(p)
    PROVE  LedgerInv'
<1>1. Shape /\ ProcessInv(p) /\ pc[p] = "log" /\ call[p].op = "send" /\ call[p].kind \in Kinds
  BY DEF DeliveryInv, RecordDeliveryActivity, ProcessInv, LedgerInv, StageInv, Call
<1>2. UNCHANGED <<row, messages, marked, overlapped>> /\ Return(p)
  BY DEF RecordDeliveryActivity, history
<1>k. PICK k \in Kinds : k = call[p].kind
  BY <1>1
<1>3. CASE call[p].dry \/ reason[p] \notin Whys
  <2>1. log' = log
    BY <1>3 DEF RecordDeliveryActivity, Whys
  <2> QED
    BY <1>2, <2>1, ReturnQuiet
<1>4. CASE ~call[p].dry /\ reason[p] \in Whys
  <2>0. PICK why \in Whys : why = reason[p]
    BY <1>4
  <2> DEFINE old == log[k]
             new == IF why = None THEN [old EXCEPT !.sent = @ + 1] ELSE [old EXCEPT !.skip_next = @ + 1]
  <2>1. old \in [sent : Nat, skip_next : Nat]
    BY <1>1 DEF LedgerInv, LedgerShape
  <2>2. new \in [sent : Nat, skip_next : Nat]
        /\ new.sent = (IF why = None THEN old.sent + 1 ELSE old.sent)
        /\ new.skip_next = (IF why = None THEN old.skip_next ELSE old.skip_next + 1)
    BY <2>1
  <2>3. log' = [log EXCEPT ![k] = new]
    <3>1. "skip_next" # None
      BY DeliveryAssumption DEF Reasons
    <3>2. why = None \/ why = "skip_next"
      BY DEF Whys
    <3>3. CASE why = None
      BY <1>4, <1>k, <2>0, <3>1, <3>3, Zenon DEF RecordDeliveryActivity
    <3>4. CASE why = "skip_next"
      BY <1>4, <1>k, <2>0, <3>1, <3>4, Zenon DEF RecordDeliveryActivity
    <3> QED
      BY <3>2, <3>3, <3>4
  <2> HIDE DEF new
  <2>4. log' \in [Kinds -> [sent : Nat, skip_next : Nat]] /\ log'[k] = new /\ \A j \in Kinds \ {k} : log'[j] = log[j]
    BY <1>1, <2>2, <2>3 DEF LedgerInv, LedgerShape
  <2>5. Apart(p) /\ pc'[p] = "idle"
    BY <1>1, <1>2 DEF Apart, Return, Shape
  <2>6. \A j \in Kinds, w \in Whys : Flying(j, w)' \subseteq Flying(j, w) \ {p}
    BY <2>5 DEF Flying, Apart
  <2>7. p \in Flying(k, why)
    BY <1>1, <1>4, <1>k, <2>0 DEF Flying
  <2>8. \A j \in Kinds, w \in Whys :
          /\ Cardinality(Flying(j, w)) \in Nat /\ Cardinality(Flying(j, w)') \in Nat
          /\ Cardinality(Flying(j, w)') <= Cardinality(Flying(j, w))
    BY <2>6, FlyingSets, Counting
  <2>9. Cardinality(Flying(k, why)') + 1 <= Cardinality(Flying(k, why))
    <3>1. Flying(k, why)' \subseteq Flying(k, why) \ {p}
      BY <2>6
    <3> QED
      BY <2>7, <3>1, FlyingSets, Counting
  <2>10. Snapshot' = Snapshot
    BY <1>2 DEF Snapshot, DefaultRow, Normalized
  <2>11. "skip_next" # None
    BY DeliveryAssumption DEF Reasons
  <2>12. SentInv'
    BY <1>2, <2>1, <2>2, <2>4, <2>8, <2>9 DEF LedgerInv, LedgerShape, SentInv, Whys
  <2>13. SpentInv'
    BY <1>2, <2>1, <2>2, <2>4, <2>8, <2>9, <2>10, <2>11 DEF LedgerInv, LedgerShape, SpentInv, Whys, Marked
  <2>14. StageInv'
    BY <2>5 DEF LedgerInv, StageInv, Apart
  <2> QED
    BY <1>2, <2>4, <2>12, <2>13, <2>14 DEF LedgerInv, LedgerShape
<1> QED
  BY <1>3, <1>4

LEMMA BeginLedger ==
    ASSUME LedgerInv, DeliveryInv, NEW p \in Processes, NEW c \in Call(p), Begin(p, c)
    PROVE  LedgerInv'
<1>1. Shape
  BY DEF DeliveryInv
<1>2. call' = [call EXCEPT ![p] = c] /\ pc' = [pc EXCEPT ![p] = IF c.op = "send" THEN "quiet" ELSE "read"]
      /\ UNCHANGED <<row, reason, log, messages, marked, overlapped>>
  BY DEF Begin, history
<1>3. Apart(p) /\ call'[p] = c /\ pc'[p] = IF c.op = "send" THEN "quiet" ELSE "read"
  BY <1>1, <1>2 DEF Apart, Shape
<1> QED
  BY <1>2, <1>3, QuietStep

LEMMA PreviewLedger ==
    ASSUME LedgerInv, DeliveryInv, NEW p \in Processes, Preview(p)
    PROVE  LedgerInv'
<1>1. Shape
  BY DEF DeliveryInv
<1>2. UNCHANGED <<row, call, log, messages, marked, overlapped>>
  BY DEF Preview, IsQuietHours, AllowsEventKind, ShouldSkipNextEvent, ShouldSuppress, history
<1>3. PICK l \in {"allowed", "skip", "suppress", "act"} : Goto(p, l)
  <2>1. CASE AllowsEventKind(p)
    BY <2>1 DEF AllowsEventKind, Suppress
  <2> QED
    BY <2>1 DEF Preview, IsQuietHours, ShouldSkipNextEvent, ShouldSuppress, Suppress
<1>4. \A q \in Processes \ {p} : reason'[q] = reason[q]
  <2>1. (\E why : Suppress(p, why)) \/ UNCHANGED reason
    BY DEF Preview, IsQuietHours, AllowsEventKind, ShouldSkipNextEvent, ShouldSuppress
  <2> QED
    BY <1>1, <2>1 DEF Suppress, Shape
<1>5. Apart(p) /\ pc'[p] = l
  BY <1>1, <1>2, <1>3, <1>4 DEF Apart, Goto, Shape
<1> QED
  BY <1>2, <1>5, QuietStep

LEMMA ReadRowLedger ==
    ASSUME LedgerInv, DeliveryInv, NEW p \in Processes, ReadRow(p)
    PROVE  LedgerInv'
<1>1. Shape
  BY DEF DeliveryInv
<1>2. pc[p] = "read" /\ pc' = [pc EXCEPT ![p] = "write"]
      /\ UNCHANGED <<row, call, reason, log, messages, marked, overlapped>>
  BY DEF ReadRow, Goto, history
<1>3. Apart(p) /\ pc'[p] = "write"
  BY <1>1, <1>2 DEF Apart, Shape
<1> QED
  BY <1>2, <1>3, QuietStep DEF LedgerInv, StageInv

\* What a write does to the marks, and to their count.
LEMMA WrittenMarks ==
    ASSUME Shape, NEW p \in Processes, ProcessInv(p), pc[p] = "write", marked \in [Kinds -> Nat],
           UpdatePreferences(p) \/ MarkSkipNextEvent(p) \/ ClearSkipNextEvent(p)
    PROVE  /\ marked' \in [Kinds -> Nat]
           /\ \A k \in Kinds :
                \/ marked'[k] = marked[k] /\ (k \in row'.skips => k \in base[p].skips)
                \/ marked'[k] = marked[k] + 1 /\ k \notin base[p].skips
           /\ call[p].op = "send" => /\ marked' = marked /\ call[p].kind \in Kinds
                                     /\ call[p].kind \notin row'.skips
<1> DEFINE b == base[p]
           c == call[p]
<1>1. b \in Row /\ c \in Call(p)
  BY DEF Shape, ProcessInv
<1>2. CASE UpdatePreferences(p)
  <2>1. row' = [settings |-> Normalized(c.settings), skips |-> b.skips] /\ c.op = "update" /\ marked' = marked
    BY <1>2 DEF UpdatePreferences, Becomes
  <2>2. row'.skips = b.skips
    BY <2>1
  <2> QED
    BY <2>1, <2>2
<1>3. CASE MarkSkipNextEvent(p)
  <2>k. PICK k \in Kinds : k = c.kind
    BY <1>1, <1>3 DEF MarkSkipNextEvent, Call
  <2>1. row' = [b EXCEPT !.skips = @ \cup {k}] /\ c.op = "mark"
        /\ (IF k \in b.skips THEN marked' = marked ELSE marked' = [marked EXCEPT ![k] = @ + 1])
    BY <1>3, <2>k, Zenon DEF MarkSkipNextEvent, Becomes
  <2>2. row'.skips = b.skips \cup {k}
    BY <1>1, <2>1 DEF Row
  <2> HIDE DEF b
  <2>3. CASE k \in b.skips
    BY <2>1, <2>2, <2>3 DEF b
  <2>4. CASE k \notin b.skips
    BY <2>1, <2>2, <2>4 DEF b
  <2> QED
    BY <2>3, <2>4
<1>4. CASE ClearSkipNextEvent(p)
  <2>1. row' = [b EXCEPT !.skips = @ \ {c.kind}] /\ c.op \in {"undo", "send"} /\ marked' = marked
    BY <1>4 DEF ClearSkipNextEvent, Becomes, Unmarked
  <2>2. row'.skips = b.skips \ {c.kind}
    BY <1>1, <2>1 DEF Row
  <2>3. c.kind \in Kinds
    BY <1>1, <2>1 DEF Call
  <2> QED
    BY <2>1, <2>2, <2>3
<1> QED
  BY <1>2, <1>3, <1>4

\* A write that clears the mark of a muted delivery puts the delivery in the mark's place.
LEMMA WriteRowLedger ==
    ASSUME LedgerInv, DeliveryInv, NEW p \in Processes, WriteRow(p)
    PROVE  LedgerInv'
<1>1. Shape /\ RowInv /\ ProcessInv(p) /\ pc[p] = "write" /\ marked \in [Kinds -> Nat]
  BY DEF DeliveryInv, WriteRow, LedgerInv, LedgerShape
<1>2. UpdatePreferences(p) \/ MarkSkipNextEvent(p) \/ ClearSkipNextEvent(p)
  BY DEF WriteRow
<1>3. UNCHANGED <<messages, log>> /\ overlapped' = (overlapped \/ Overlaps(p))
  BY DEF WriteRow
<1>4. /\ marked' \in [Kinds -> Nat]
      /\ \A k \in Kinds :
           \/ marked'[k] = marked[k] /\ (k \in row'.skips => k \in base[p].skips)
           \/ marked'[k] = marked[k] + 1 /\ k \notin base[p].skips
      /\ call[p].op = "send" => /\ marked' = marked /\ call[p].kind \in Kinds
                                /\ call[p].kind \notin row'.skips
  BY <1>1, <1>2, WrittenMarks
<1>5. Snapshot' = row'
  <2>1. RowInv'
    BY WriteRowKept DEF DeliveryInv
  <2>2. RowInv' => (row # None => Snapshot = row)'
    BY SnapshotFacts, PTL
  <2>3. row' # None
    BY <1>1, <1>2, WrittenRow, DeliveryAssumption
  <2> QED
    BY <2>1, <2>2, <2>3
<1>6. Apart(p) /\ pc'[p] \in {"log", "idle"}
      /\ (pc'[p] = "log" => call'[p] = call[p] /\ reason'[p] = reason[p] /\ call[p].op = "send")
      /\ (call[p].op # "send" => pc'[p] = "idle")
  BY <1>1 DEF WriteRow, Goto, Return, local, Shape, Apart
<1>7. call[p].op = "send" => reason[p] = "skip_next" /\ "skip_next" # None
  BY <1>1, DeliveryAssumption DEF LedgerInv, StageInv, Reasons
<1>8. \A k \in Kinds : Flying(k, None)' \subseteq Flying(k, None)
  BY <1>6, <1>7 DEF Flying, Apart
<1>9. \A k \in Kinds, why \in Whys : Cardinality(Flying(k, why)) \in Nat /\ Cardinality(Flying(k, why)') \in Nat
  BY FlyingSets, FlyingFinite
<1>10. SentInv'
  <2>1. \A k \in Kinds : Cardinality(Flying(k, None)') <= Cardinality(Flying(k, None))
    BY <1>8, FlyingSets, Counting
  <2> QED
    BY <1>3, <1>9, <2>1 DEF LedgerInv, LedgerShape, SentInv, Whys
<1>11. StageInv'
  BY <1>6 DEF LedgerInv, StageInv, Apart
<1>12. ASSUME ~overlapped', NEW k \in Kinds
       PROVE  Cardinality(Flying(k, "skip_next")') + log'[k].skip_next + Marked(k)' <= marked'[k]
  <2>1. ~overlapped /\ ~Overlaps(p)
    BY <1>1, <1>3, <1>12 DEF RowInv
  <2>2. base[p] = Snapshot /\ (call[p].op = "send" => call[p].kind \in Snapshot.skips)
    BY <2>1 DEF Overlaps
  <2>3. Cardinality(Flying(k, "skip_next")) + log[k].skip_next + Marked(k) <= marked[k]
    BY <2>1 DEF LedgerInv, SpentInv
  <2>4. Marked(k)' = IF k \in row'.skips THEN 1 ELSE 0
    BY <1>5 DEF Marked
  <2>5. log[k].skip_next \in Nat /\ marked[k] \in Nat /\ marked'[k] \in Nat
        /\ Cardinality(Flying(k, "skip_next")) \in Nat /\ Cardinality(Flying(k, "skip_next")') \in Nat
    BY <1>1, <1>4, <1>9 DEF LedgerInv, LedgerShape, Whys
  <2>6. CASE call[p].op = "send" /\ call[p].kind = k
    <3>1. Flying(k, "skip_next")' \subseteq Flying(k, "skip_next") \cup {p}
      BY <1>6, FlyingOthers
    <3>2. Cardinality(Flying(k, "skip_next")') <= Cardinality(Flying(k, "skip_next")) + 1
      BY <3>1, FlyingSets, Counting
    <3>3. Marked(k) = 1 /\ Marked(k)' = 0 /\ marked'[k] = marked[k]
      BY <1>4, <2>2, <2>4, <2>6 DEF Marked
    <3> QED
      BY <1>3, <2>3, <2>5, <3>2, <3>3
  <2>7. CASE ~(call[p].op = "send" /\ call[p].kind = k)
    <3>1. Flying(k, "skip_next")' \subseteq Flying(k, "skip_next")
      BY <1>6, <2>7 DEF Flying, Apart
    <3>2. Cardinality(Flying(k, "skip_next")') <= Cardinality(Flying(k, "skip_next"))
      BY <3>1, FlyingSets, Counting
    <3>3. CASE marked'[k] = marked[k] /\ (k \in row'.skips => k \in base[p].skips)
      <4>1. Marked(k)' <= Marked(k) /\ Marked(k) \in Nat /\ Marked(k)' \in Nat
        BY <2>2, <2>4, <3>3 DEF Marked
      <4> QED
        BY <1>3, <2>3, <2>5, <3>2, <3>3, <4>1
    <3>4. CASE marked'[k] = marked[k] + 1 /\ k \notin base[p].skips
      <4>1. Marked(k) = 0 /\ Marked(k)' \in {0, 1}
        BY <2>2, <2>4, <3>4 DEF Marked
      <4> QED
        BY <1>3, <2>3, <2>5, <3>2, <3>4, <4>1
    <3> QED
      BY <1>4, <3>3, <3>4
  <2> QED
    BY <2>6, <2>7
<1>13. SpentInv'
  BY <1>12 DEF SpentInv
<1> QED
  BY <1>3, <1>4, <1>10, <1>11, <1>13 DEF LedgerInv, LedgerShape

LEMMA LedgerUnchanged ==
    ASSUME LedgerInv, UNCHANGED <<row, pc, call, reason, log, messages, marked, overlapped>>
    PROVE  LedgerInv'
<1>1. Snapshot' = Snapshot /\ \A k, why : Flying(k, why)' = Flying(k, why)
  BY DEF Snapshot, DefaultRow, Normalized, Flying, Processes
<1>2. SentInv' /\ SpentInv'
  BY <1>1 DEF LedgerInv, SentInv, SpentInv, Marked
<1>3. StageInv' /\ LedgerShape'
  BY DEF LedgerInv, StageInv, LedgerShape
<1> QED
  BY <1>2, <1>3 DEF LedgerInv

\* Messages, log entries and marks balance, for any number of workers and calls, crashes included.
THEOREM LedgerInductive == Spec => []LedgerInv
<1>1. Init => LedgerInv
  <2> SUFFICES ASSUME Init PROVE LedgerInv
    OBVIOUS
  <2>1. LedgerShape
    <3>1. [sent |-> 0, skip_next |-> 0] \in [sent : Nat, skip_next : Nat]
      OBVIOUS
    <3> QED
      BY <3>1 DEF Init, LedgerShape
  <2>2. StageInv
    BY DEF Init, StageInv
  <2>3. \A k, why : Flying(k, why) = {}
    BY DEF Init, Flying
  <2>4. Cardinality({}) = 0
    BY FS_EmptySet
  <2>5. \A k \in Kinds : log[k].sent = 0 /\ log[k].skip_next = 0 /\ messages[k] = 0 /\ marked[k] = 0
    BY DEF Init
  <2>6. \A k \in Kinds : Marked(k) = 0
    BY DEF Init, Marked, Snapshot, DefaultRow
  <2>7. \A k, why : Cardinality(Flying(k, why)) = 0
    BY <2>3, <2>4
  <2>8. SentInv /\ SpentInv
    BY <2>5, <2>6, <2>7 DEF SentInv, SpentInv
  <2> QED
    BY <2>1, <2>2, <2>8 DEF LedgerInv
<1>2. DeliveryInv /\ LedgerInv /\ [Next]_vars => LedgerInv'
  <2> SUFFICES ASSUME DeliveryInv, LedgerInv, [Next]_vars PROVE LedgerInv'
    OBVIOUS
  <2>1. CASE UNCHANGED vars \/ Dusk
    <3>1. UNCHANGED <<row, pc, call, reason, log, messages, marked, overlapped>>
      BY <2>1 DEF vars, local, history, Dusk
    <3> QED
      BY <3>1, LedgerUnchanged
  <2>2. ASSUME NEW p \in Processes, NEW c \in Call(p), Begin(p, c) PROVE LedgerInv'
    BY <2>2, BeginLedger
  <2>3. ASSUME NEW p \in Processes, Step(p) PROVE LedgerInv'
    BY <2>3, PreviewLedger, DeliverLedger, ReadRowLedger, WriteRowLedger, RecordLedger DEF Step
  <2>4. ASSUME NEW p \in Processes, Crash(p) PROVE LedgerInv'
    BY <2>4, ReturnQuiet DEF Crash, history
  <2> QED
    BY <2>1, <2>2, <2>3, <2>4 DEF Next
<1> QED
  BY <1>1, <1>2, DeliveryInductive, PTL DEF Spec

\* The log never shows a message the chat did not get.
THEOREM LoggedWithinChat == Spec => []LogWithinChat
<1>1. LedgerInv => LogWithinChat
  <2> SUFFICES ASSUME LedgerInv, NEW k \in Kinds PROVE log[k].sent <= messages[k]
    BY DEF LogWithinChat
  <2>1. Cardinality(Flying(k, None)) + log[k].sent <= messages[k]
        /\ log[k].sent \in Nat /\ messages[k] \in Nat /\ Cardinality(Flying(k, None)) \in Nat
    BY FlyingSets, FlyingFinite DEF LedgerInv, LedgerShape, SentInv
  <2> QED
    BY <2>1
<1> QED
  BY <1>1, LedgerInductive, PTL

\* A mark mutes one recorded delivery at most, as long as no two writes overlap.
THEOREM MarkSpent == Spec => []MarkSpentOnce
<1>1. LedgerInv => MarkSpentOnce
  <2> SUFFICES ASSUME LedgerInv, ~overlapped, NEW k \in Kinds PROVE log[k].skip_next <= marked[k]
    BY DEF MarkSpentOnce
  <2>1. Cardinality(Flying(k, "skip_next")) + log[k].skip_next + Marked(k) <= marked[k]
        /\ log[k].skip_next \in Nat /\ marked[k] \in Nat /\ Cardinality(Flying(k, "skip_next")) \in Nat
    BY FlyingSets, FlyingFinite DEF LedgerInv, LedgerShape, SpentInv
  <2>2. Marked(k) \in {0, 1}
    BY DEF Marked
  <2> QED
    BY <2>1, <2>2
<1> QED
  BY <1>1, LedgerInductive, PTL
=============================================================================
