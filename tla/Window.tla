------------------------------- MODULE Window -------------------------------
(***************************************************************************)
(* The window's main loop (tools/rv32win.c) around the input device of     *)
(* tools/rv32emu_core.c: host keys are polled between slices, join the     *)
(* device's queue at the next present, and are recorded as a script; the   *)
(* input script's own events arrive with the frame they name.              *)
(***************************************************************************)
EXTENDS Naturals, Sequences, FiniteSetsExt

CONSTANTS
    KeyOf,        \* host key -> key code (scancode_to_key; either Ctrl is one code)
    Scripts,      \* the scripts a run may be given: sequences of [frame, press, code]
    QueueSize,    \* INPUT_QUEUE
    MaxFrames,    \* bound: frames of a session
    MaxHostEvents \* bound: host key events of a session

ASSUME WindowAssumption ==
    /\ IsFiniteSet(DOMAIN KeyOf)
    /\ \A s \in Scripts :   \* what emu_read_input_script accepts
          /\ s \in Seq({s[i] : i \in DOMAIN s})
          /\ \A i \in DOMAIN s : s[i] = [frame |-> s[i].frame, e |-> s[i].e] /\ s[i].frame \in Nat
          /\ \A i, j \in DOMAIN s : i <= j => s[i].frame <= s[j].frame

HostKeys == DOMAIN KeyOf
Codes == {KeyOf[h] : h \in HostKeys}

VARIABLES
    script, next_scripted,
    frames, queue, keys, dropped, record,   \* the machine
    held, pending, closing,                 \* rv32win's locals
    down,                                   \* the host keys that are down
    used,                                   \* host events so far
    pops,                                   \* history: events the guest took in each frame
    state,                                  \* "pump", "slice", "presented", "over" or "exit"
    allow_lost_events,
    verdict                                 \* the halt, at the end the exit status

winVars == <<script, next_scripted, frames, queue, keys, dropped, record, held, pending, closing,
             down, used, pops, state, allow_lost_events, verdict>>

Event(press, code) == [press |-> press, code |-> code]
device == [queue |-> queue, keys |-> keys, dropped |-> dropped, record |-> record]

\* emu_queue_event: recorded first, then queued or dropped; KEYS follows what is queued.
emu_queue_event(d, frame, e) ==
    LET r == Append(d.record, [frame |-> frame, e |-> e])
    IN  IF Len(d.queue) = QueueSize
        THEN [d EXCEPT !.record = r, !.dropped = @ + 1]
        ELSE [d EXCEPT !.record = r, !.queue = Append(@, e),
                       !.keys = IF e.press THEN @ \cup {e.code} ELSE @ \ {e.code}]

\* The device after entries i .. n of a script have been offered to it, for every n.
Offered(d, s, i) ==
    LET at[n \in i - 1 .. Len(s)] ==
            IF n = i - 1 THEN d ELSE emu_queue_event(at[n - 1], s[n].frame, s[n].e)
    IN  at

\* The last of the entries from i on that is due: the loop stops at the first that is not.
DueEnd(s, i, frame) ==
    LET late == {k \in i .. Len(s) : s[k].frame > frame}
    IN  IF late = {} THEN Len(s) ELSE Min(late) - 1

\* emu_deliver_events
Deliver(d, s, i, frame) == Offered(d, s, i)[DueEnd(s, i, frame)]

Becomes(d) == queue' = d.queue /\ keys' = d.keys /\ dropped' = d.dropped /\ record' = d.record

Empty == [queue |-> <<>>, keys |-> {}, dropped |-> 0, record |-> <<>>]

WindowInit ==
    /\ script \in Scripts
    /\ LET d == Deliver(Empty, script, 1, 0)
       IN  queue = d.queue /\ keys = d.keys /\ dropped = d.dropped /\ record = d.record
    /\ next_scripted = DueEnd(script, 1, 0) + 1
    /\ frames = 0
    /\ held = [c \in Codes |-> 0]
    /\ pending = <<>>
    /\ closing = FALSE
    /\ down = {}
    /\ used = 0
    /\ pops = <<0>>
    /\ state = "pump"
    /\ allow_lost_events \in BOOLEAN
    /\ verdict = "none"

Machine == <<script, next_scripted, frames, queue, keys, dropped, record, pops, allow_lost_events, verdict>>

\* Bug: every host key is a key of its own.
HeldUncounted(c, press) == TRUE

\* The contract's key is pressed with the first of its host keys, released with the last.
HeldChanges(c, press) == held'[c] = IF press THEN 1 ELSE 0

\* One SDL key event that is neither a repeat nor of an unmapped key.
HostKey(h) ==
    LET c == KeyOf[h]
        press == h \notin down
    IN  /\ state = "pump"
        /\ ~closing
        /\ used < MaxHostEvents
        /\ used' = used + 1
        /\ down' = IF press THEN down \cup {h} ELSE down \ {h}
        /\ held' = [held EXCEPT ![c] = IF press THEN @ + 1 ELSE IF @ > 0 THEN @ - 1 ELSE 0]
        /\ pending' = IF HeldChanges(c, press) THEN Append(pending, Event(press, c)) ELSE pending
        /\ UNCHANGED <<Machine, closing, state>>

\* The close button, or a frame that cannot be drawn: the next pump ends the run.
CloseRequested ==
    /\ state = "pump"
    /\ closing' = TRUE
    /\ UNCHANGED <<Machine, held, pending, down, used, state>>

\* The events are polled; a closing window stops the machine.
EndPump ==
    /\ state = "pump"
    /\ state' = IF closing THEN "over" ELSE "slice"
    /\ verdict' = IF closing THEN "stopped" ELSE verdict
    /\ UNCHANGED <<script, next_scripted, frames, queue, keys, dropped, record, pops, held, pending,
                   closing, down, used, allow_lost_events>>

\* The guest reads INPUT_EVENT.
GuestTakes ==
    /\ state = "slice"
    /\ queue # <<>>
    /\ queue' = Tail(queue)
    /\ pops' = [pops EXCEPT ![frames + 1] = @ + 1]
    /\ UNCHANGED <<script, next_scripted, frames, keys, dropped, record, held, pending, closing, down,
                   used, state, allow_lost_events, verdict>>

\* EMU_STOP_BUDGET: nothing was presented, the pump runs again.
SliceEnds ==
    /\ state = "slice"
    /\ state' = "pump"
    /\ UNCHANGED <<Machine, held, pending, closing, down, used>>

\* present: the frame's scripted events arrive with it.
Present ==
    /\ state = "slice"
    /\ frames < MaxFrames
    /\ frames' = frames + 1
    /\ Becomes(Deliver(device, script, next_scripted, frames'))
    /\ next_scripted' = DueEnd(script, next_scripted, frames') + 1
    /\ pops' = Append(pops, 0)
    /\ state' = "presented"
    /\ UNCHANGED <<script, held, pending, closing, down, used, allow_lost_events, verdict>>

\* The keys as a script's entries for a frame.
Lines(p, frame) == [k \in 1 .. Len(p) |-> [frame |-> frame, e |-> p[k]]]

\* Bug: the keys are recorded against the frame they were typed in.
QueuePendingEarly == Becomes(Offered(device, Lines(pending, frames - 1), 1)[Len(pending)])

\* The host's keys join the frame just presented.
QueuePending == Becomes(Offered(device, Lines(pending, frames), 1)[Len(pending)])

Presented ==
    /\ state = "presented"
    /\ QueuePending
    /\ pending' = <<>>
    /\ closing' \in BOOLEAN          \* the frame is drawn, or drawing fails
    /\ state' = "pump"
    /\ UNCHANGED <<script, next_scripted, frames, held, down, used, pops,
                   allow_lost_events, verdict>>

\* The guest writes the done register.
GuestDone ==
    /\ state = "slice"
    /\ verdict' \in {"pass", "fail"}
    /\ state' = "over"
    /\ UNCHANGED <<script, next_scripted, frames, queue, keys, dropped, record, pops, held, pending,
                   closing, down, used, allow_lost_events>>

\* Bug: events the script never got to deliver are not counted.
LostDropped == dropped

\* Events the guest never saw: dropped, or never delivered.
LostEvents == dropped + Len(script) + 1 - next_scripted

\* emu_finish_outputs, emu_report_halt, emu_exit_status.
FinishRun ==
    /\ state = "over"
    /\ state' = "exit"
    /\ \E outputs_ok \in BOOLEAN :
          verdict' = IF ~outputs_ok \/ (verdict = "pass" /\ LostEvents > 0 /\ ~allow_lost_events)
                     THEN "error" ELSE verdict
    /\ UNCHANGED <<script, next_scripted, frames, queue, keys, dropped, record, pops, held, pending,
                   closing, down, used, allow_lost_events>>

WindowOver == state = "exit" /\ UNCHANGED winVars

WindowNext ==
    \/ \E h \in HostKeys : HostKey(h)
    \/ CloseRequested \/ EndPump \/ GuestTakes \/ SliceEnds \/ Present \/ Presented \/ GuestDone
    \/ FinishRun \/ WindowOver

-----------------------------------------------------------------------------
(* Properties *)

\* The guest takes n events.
Taken(d, n) == [d EXCEPT !.queue = SubSeq(@, n + 1, Len(@))]

\* The record replayed as the script of a run without a window, in which the guest
\* takes as many events in each frame: the device after each present.
Replayed ==
    LET at[n \in 0 .. frames] ==
            IF n = 0 THEN Deliver(Empty, record, 1, 0)
            ELSE Deliver(Taken(at[n - 1], pops[n]), record, Len(at[n - 1].record) + 1, n)
    IN  at

Replay == Taken(Replayed[frames], pops[frames + 1])

\* A recorded session replays: the record is a script the parser accepts (frames
\* never decrease), and replaying it gives the device the same events, drops and
\* keys at every point of the session (rv32win.c main loop, emu_queue_event,
\* emu_deliver_events, emu_read_input_script).
RecordReplays ==
    state # "presented" =>
        /\ \A i \in 1 .. Len(record) - 1 : record[i].frame <= record[i + 1].frame
        /\ Replay = device

\* KEYS after the events of a sequence.
KeysAfter(k, p) ==
    LET at[n \in 0 .. Len(p)] ==
            IF n = 0 THEN k
            ELSE IF p[n].press THEN at[n - 1] \cup {p[n].code} ELSE at[n - 1] \ {p[n].code}
    IN  at[Len(p)]

\* While nothing is dropped and no script interferes, what KEYS will be after the keys
\* still pending is exactly the set of codes with a host key down, also when two host
\* keys share a code (rv32win.c held[], emu_queue_event).
KeysFollowHost ==
    (dropped = 0 /\ script = <<>>) => KeysAfter(keys, pending) = {KeyOf[h] : h \in down}

\* A run that reports success without --allow-lost-events had every scripted event,
\* in order, put before the guest: none was dropped and none came too late
\* (emu_exit_status, emu_deliver_events).
PassIsEarned ==
    (state = "exit" /\ verdict = "pass" /\ ~allow_lost_events) =>
        /\ dropped = 0
        /\ \E f \in [DOMAIN script -> DOMAIN record] :
              /\ \A i, j \in DOMAIN script : i < j => f[i] < f[j]
              /\ \A i \in DOMAIN script : record[f[i]] = script[i]

=============================================================================
