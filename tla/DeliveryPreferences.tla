------------------------- MODULE DeliveryPreferences -------------------------
(***************************************************************************)
(* The user's delivery preferences and the Telegram deliveries that read   *)
(* them.  The preferences are one row.  The API process, which serves one  *)
(* request at a time, and the scheduler's workers all read it and write    *)
(* the whole of it back, each read and each write a transaction of its     *)
(* own.  `Skip next` is a mark in that row: a scheduled delivery that      *)
(* finds it is muted and clears it.                                        *)
(***************************************************************************)
EXTENDS Integers, FiniteSets

CONSTANTS
    Api,            \* the API process
    Workers,        \* the scheduler's workers
    Ready,          \* the processes whose settings enable and configure Telegram
    Kinds,          \* event kinds: digest, signal_open, resolution, post_mortem
    Saved,          \* the settings the user may save
    MaxCalls,       \* bound on the calls made
    None

Processes == Workers \cup {Api}

\* kinds: subscribed_event_kinds; window: the quiet hours are set (they are the
\* night here); suppress: suppress_during_quiet_hours
Settings == [kinds : SUBSET Kinds, window : BOOLEAN, suppress : BOOLEAN]
Row == [settings : Settings, skips : SUBSET Kinds]

DefaultRow ==
    [settings |-> [kinds |-> Kinds, window |-> FALSE, suppress |-> TRUE], skips |-> {}]

\* What a process may be asked for. A scheduled delivery honours quiet hours
\* and is no dry run unless the job's payload says so.
Call(p) ==
    [op : {"send"}, kind : Kinds, ignore : BOOLEAN, dry : BOOLEAN]
        \cup IF p = Api
             THEN [op : {"update"}, settings : Saved] \cup [op : {"mark", "undo"}, kind : Kinds]
             ELSE {}

\* Why a delivery is suppressed; "disabled" stands for "not_configured" too.
Reasons == {"disabled", "event_disabled", "skip_next", "quiet_hours", "no_candidates"}

ASSUME DeliveryAssumption ==
    /\ IsFiniteSet(Workers) /\ Api \notin Workers
    /\ Ready \subseteq Processes
    /\ Saved \subseteq Settings
    /\ MaxCalls \in Nat
    /\ None \notin Row \cup Reasons
    /\ \A p \in Processes : None \notin Call(p)

VARIABLES
    row,        \* user_notification_preferences, or None
    night,      \* it is night: the quiet hours, where they are set
    pc, call,   \* what each process does next, and in which call
    quiet,      \* the answer of is_quiet_hours in its preview
    reason,     \* the reason its preview gave to suppress, or None
    base,       \* the row its pending write starts from
    calls,      \* calls begun
    messages,   \* (the chat) messages delivered, by kind
    log,        \* notification_delivery_events: scheduled or manual deliveries
                \* recorded as "sent" and as "skip_next", by kind
    saved,      \* (history) the settings the user saved last
    marked,     \* (history) how often the user marked a kind to be skipped
    unspent,    \* (history) kinds marked and neither undone nor found by a delivery
    consent,    \* (history) per process, what was true at some moment of its call
    overlapped  \* (history) some write was overtaken by another (Overlaps)

local == <<call, quiet, reason, base>>
history == <<saved, marked, unspent, overlapped>>
vars == <<row, night, pc, local, calls, messages, log, consent, history>>

Init ==
    /\ row = None /\ night = FALSE
    /\ pc = [p \in Processes |-> "idle"]
    /\ call = [p \in Processes |-> None]
    /\ quiet = [p \in Processes |-> FALSE]
    /\ reason = [p \in Processes |-> None]
    /\ base = [p \in Processes |-> None]
    /\ calls = 0
    /\ messages = [k \in Kinds |-> 0]
    /\ log = [k \in Kinds |-> [sent |-> 0, skip_next |-> 0]]
    /\ saved = DefaultRow.settings
    /\ marked = [k \in Kinds |-> 0]
    /\ unspent = {}
    /\ consent = [p \in Processes |-> {}]
    /\ overlapped = FALSE

\* No kind subscribed means all of them, on reading and on saving.
Normalized(s) == IF s.kinds = {} THEN [s EXCEPT !.kinds = Kinds] ELSE s

\* get_preferences: defaults stand in for a missing row.
Snapshot == IF row = None THEN DefaultRow ELSE [row EXCEPT !.settings = Normalized(@)]

-----------------------------------------------------------------------------
(* History: what a call has found to hold at some moment since it began. *)

Consents(c, r) ==
    {x \in {"subscribed", "unskipped"} :
        IF x = "subscribed" THEN c.kind \in r.settings.kinds ELSE c.kind \notin r.skips}

\* The row becomes r: what a delivery under way could find is more.
Becomes(r) ==
    /\ row' = r
    /\ consent' = [p \in Processes |->
                      IF pc[p] # "idle" /\ call[p].op = "send"
                      THEN consent[p] \cup Consents(call[p], r) ELSE consent[p]]

-----------------------------------------------------------------------------
(* A call, and the preview a delivery starts with. *)

Begin(p, c) ==
    /\ pc[p] = "idle" /\ calls < MaxCalls
    /\ calls' = calls + 1
    /\ call' = [call EXCEPT ![p] = c]
    /\ pc' = [pc EXCEPT ![p] = IF c.op = "send" THEN "quiet" ELSE "read"]
    /\ consent' = [consent EXCEPT ![p] = IF c.op = "send" THEN Consents(c, Snapshot) ELSE {}]
    /\ UNCHANGED <<row, night, quiet, reason, base, messages, log, history>>

Return(p) ==
    /\ pc' = [pc EXCEPT ![p] = "idle"]
    /\ call' = [call EXCEPT ![p] = None]
    /\ quiet' = [quiet EXCEPT ![p] = FALSE]
    /\ reason' = [reason EXCEPT ![p] = None]
    /\ base' = [base EXCEPT ![p] = None]

Goto(p, next) == pc' = [pc EXCEPT ![p] = next]

IsQuietHours(p) ==
    /\ pc[p] = "quiet"
    /\ quiet' = [quiet EXCEPT ![p] = Snapshot.settings.window /\ night]
    /\ Goto(p, "allowed")
    /\ UNCHANGED <<row, night, call, reason, base, calls, messages, log, consent, history>>

Suppress(p, why) ==
    /\ reason' = [reason EXCEPT ![p] = why]
    /\ Goto(p, "act")

AllowsEventKind(p) ==
    /\ pc[p] = "allowed"
    /\ IF p \notin Ready THEN Suppress(p, "disabled")
       ELSE IF call[p].kind \notin Snapshot.settings.kinds THEN Suppress(p, "event_disabled")
       ELSE /\ Goto(p, IF p = Api THEN "suppress" ELSE "skip")
            /\ UNCHANGED reason
    /\ UNCHANGED <<row, night, call, quiet, base, calls, messages, log, consent, history>>

\* Only a scheduled delivery looks at the marks.
ShouldSkipNextEvent(p) ==
    /\ pc[p] = "skip"
    /\ IF call[p].kind \in Snapshot.skips
       THEN /\ Suppress(p, "skip_next")
            /\ unspent' = IF call[p].dry THEN unspent ELSE unspent \ {call[p].kind}
       ELSE /\ Goto(p, "suppress")
            /\ UNCHANGED <<reason, unspent>>
    /\ UNCHANGED <<row, night, call, quiet, base, calls, messages, log, consent,
                   saved, marked, overlapped>>

ShouldSuppress(p) ==
    /\ pc[p] = "suppress"
    /\ IF quiet[p] /\ ~call[p].ignore /\ Snapshot.settings.suppress
       THEN Suppress(p, "quiet_hours")
       ELSE \E why \in {None, "no_candidates"} : Suppress(p, why)
    /\ UNCHANGED <<row, night, call, quiet, base, calls, messages, log, consent, history>>

-----------------------------------------------------------------------------
(* The delivery, and the writes to the row. *)

\* The client posts the message; a call that raises leaves no event behind,
\* and its message may have arrived all the same.
SendMessage(p) ==
    \/ /\ messages' = [messages EXCEPT ![call[p].kind] = @ + 1]
       /\ Goto(p, "log")
       /\ UNCHANGED <<call, quiet, reason, base>>
    \/ /\ messages' \in {messages, [messages EXCEPT ![call[p].kind] = @ + 1]}
       /\ Return(p)

\* Fault: the event is recorded before the message is posted.
DeliverLogFirst(p) ==
    /\ pc[p] = "act"
    /\ IF ~call[p].dry /\ reason[p] = None
       THEN /\ log' = [log EXCEPT ![call[p].kind].sent = @ + 1]
            /\ SendMessage(p)
       ELSE /\ Goto(p, IF ~call[p].dry /\ reason[p] = "skip_next" THEN "read" ELSE "log")
            /\ UNCHANGED <<call, quiet, reason, base, messages, log>>
    /\ UNCHANGED <<row, night, calls, consent, history>>

\* Fault: what the preview found suppresses a dry run only.
DeliverUnlessDry(p) ==
    /\ pc[p] = "act"
    /\ IF ~call[p].dry
       THEN SendMessage(p)
       ELSE Goto(p, "log") /\ UNCHANGED <<call, quiet, reason, base, messages>>
    /\ UNCHANGED <<row, night, calls, log, consent, history>>

\* A dry run comes first; a delivery muted by a mark goes on to clear the mark.
Deliver(p) ==
    /\ pc[p] = "act"
    /\ IF ~call[p].dry /\ reason[p] = None
       THEN SendMessage(p)
       ELSE /\ Goto(p, IF ~call[p].dry /\ reason[p] = "skip_next" THEN "read" ELSE "log")
            /\ UNCHANGED <<call, quiet, reason, base, messages>>
    /\ UNCHANGED <<row, night, calls, log, consent, history>>

\* Fault: a missing row is not replaced by the defaults.
ReadRowAsStored(p) ==
    /\ pc[p] = "read"
    /\ base' = [base EXCEPT ![p] = row]
    /\ Goto(p, "write")
    /\ UNCHANGED <<row, night, call, quiet, reason, calls, messages, log, consent, history>>

\* The read a write starts from.
ReadRow(p) ==
    /\ pc[p] = "read"
    /\ base' = [base EXCEPT ![p] = Snapshot]
    /\ Goto(p, "write")
    /\ UNCHANGED <<row, night, call, quiet, reason, calls, messages, log, consent, history>>

Unmarked(r, k) == [r EXCEPT !.skips = @ \ {k}]

\* Fault: an update starts from an empty list of marks.
UpdatePreferencesClearing(p) ==
    /\ call[p].op = "update"
    /\ Becomes([settings |-> Normalized(call[p].settings), skips |-> {}])
    /\ saved' = Normalized(call[p].settings)
    /\ UNCHANGED <<marked, unspent>>

\* update_preferences keeps the marks it has read.
UpdatePreferences(p) ==
    /\ call[p].op = "update"
    /\ Becomes([settings |-> Normalized(call[p].settings), skips |-> base[p].skips])
    /\ saved' = Normalized(call[p].settings)
    /\ UNCHANGED <<marked, unspent>>

MarkSkipNextEvent(p) ==
    /\ call[p].op = "mark"
    /\ Becomes([base[p] EXCEPT !.skips = @ \cup {call[p].kind}])
    /\ IF call[p].kind \in base[p].skips
       THEN UNCHANGED <<marked, unspent>>
       ELSE /\ marked' = [marked EXCEPT ![call[p].kind] = @ + 1]
            /\ unspent' = unspent \cup {call[p].kind}
    /\ UNCHANGED saved

\* Fault: the snapshot written back is the default one.
ClearSkipNextEventOfDefault(p) ==
    /\ call[p].op \in {"undo", "send"}
    /\ Becomes(Unmarked([DefaultRow EXCEPT !.skips = base[p].skips], call[p].kind))
    /\ unspent' = IF call[p].op = "undo" THEN unspent \ {call[p].kind} ELSE unspent
    /\ UNCHANGED <<saved, marked>>

\* Fault: only the user's own undo clears the mark.
ClearSkipNextEventByUser(p) ==
    /\ call[p].op \in {"undo", "send"}
    /\ Becomes(IF call[p].op = "undo" THEN Unmarked(base[p], call[p].kind) ELSE base[p])
    /\ unspent' = IF call[p].op = "undo" THEN unspent \ {call[p].kind} ELSE unspent
    /\ UNCHANGED <<saved, marked>>

\* clear_skip_next_event, called by the user's undo and by a muted delivery
ClearSkipNextEvent(p) ==
    /\ call[p].op \in {"undo", "send"}
    /\ Becomes(Unmarked(base[p], call[p].kind))
    /\ unspent' = IF call[p].op = "undo" THEN unspent \ {call[p].kind} ELSE unspent
    /\ UNCHANGED <<saved, marked>>

\* The write is not based on the row it replaces, or the mark it clears is not
\* the one its preview found: that one is gone, or the user has made it anew.
Overlaps(p) ==
    \/ base[p] # Snapshot
    \/ call[p].op = "send" /\ (call[p].kind \notin base[p].skips \/ call[p].kind \in unspent)

\* A write that is part of a delivery is followed by the delivery's own event.
WriteRow(p) ==
    /\ pc[p] = "write"
    /\ UpdatePreferences(p) \/ MarkSkipNextEvent(p) \/ ClearSkipNextEvent(p)
    /\ overlapped' = (overlapped \/ Overlaps(p))
    /\ IF call[p].op = "send"
       THEN Goto(p, "log") /\ UNCHANGED local
       ELSE Return(p)
    /\ UNCHANGED <<night, calls, messages, log>>

\* _record_delivery_activity of the delivery
RecordDeliveryActivity(p) ==
    /\ pc[p] = "log"
    /\ log' = IF call[p].dry \/ reason[p] \notin {None, "skip_next"} THEN log
              ELSE IF reason[p] = None THEN [log EXCEPT ![call[p].kind].sent = @ + 1]
              ELSE [log EXCEPT ![call[p].kind].skip_next = @ + 1]
    /\ Return(p)
    /\ UNCHANGED <<row, night, calls, messages, consent, history>>

\* The process dies, or a repository call raises.
Crash(p) ==
    /\ pc[p] # "idle"
    /\ Return(p)
    /\ UNCHANGED <<row, night, calls, messages, log, consent, history>>

Dusk ==
    /\ night' = ~night
    /\ UNCHANGED <<row, pc, local, calls, messages, log, consent, history>>

Preview(p) ==
    IsQuietHours(p) \/ AllowsEventKind(p) \/ ShouldSkipNextEvent(p) \/ ShouldSuppress(p)

Step(p) == Preview(p) \/ Deliver(p) \/ ReadRow(p) \/ WriteRow(p) \/ RecordDeliveryActivity(p)

Next ==
    \/ \E p \in Processes : (\E c \in Call(p) : Begin(p, c)) \/ Step(p) \/ Crash(p)
    \/ Dusk

Spec == Init /\ [][Next]_vars
-----------------------------------------------------------------------------
(* Properties. *)

\* The types of the variables; a write is under way only with a row to start from.
TypeOK ==
    /\ row \in Row \cup {None} /\ night \in BOOLEAN
    /\ \A p \in Processes :
         /\ pc[p] \in {"idle", "quiet", "allowed", "skip", "suppress", "act", "read", "write", "log"}
         /\ call[p] \in Call(p) \cup {None} /\ (call[p] = None <=> pc[p] = "idle")
         /\ base[p] \in Row \cup {None} /\ (pc[p] = "write" => base[p] # None)
         /\ quiet[p] \in BOOLEAN
         /\ consent[p] \subseteq {"subscribed", "unskipped"}
    /\ calls \in 0 .. MaxCalls
    /\ unspent \subseteq Kinds /\ overlapped \in BOOLEAN

\* A message goes out only for a kind that was subscribed at some moment of the
\* call; a scheduled one also only if at some moment its kind was not marked to
\* be skipped (TelegramNotificationService.send, whatever other processes write).
SentWithConsent ==
    [][\A p \in Processes :
         pc[p] = "act" /\ pc'[p] # "act" /\ messages' # messages
         => /\ "subscribed" \in consent[p]
            /\ p \in Workers => "unskipped" \in consent[p]]_vars

\* The delivery log never shows a message that was not delivered, whichever
\* call fails or dies (send records after the client has answered).
LogWithinChat == \A k \in Kinds : log[k].sent <= messages[k]

\* As long as no two writes have overlapped, the mark of a kind stays until a
\* scheduled delivery finds it or the user undoes it: neither saving the
\* preferences nor clearing another kind's mark loses it.
MarkStays == ~overlapped => unspent \subseteq Snapshot.skips

\* As long as no two writes have overlapped, a mark mutes one recorded delivery
\* at most, crashes included.
MarkSpentOnce == ~overlapped => \A k \in Kinds : log[k].skip_next <= marked[k]

\* As long as no two writes have overlapped, the settings in force are the ones
\* the user saved last: a delivery that clears a mark writes the same ones back.
SettingsStay == ~overlapped /\ row # None => row.settings = saved

\* `Skip next` mutes only the next scheduler-driven run for that event type.
SkipMutesOnlyNext == \A k \in Kinds : log[k].skip_next <= marked[k]
=============================================================================
