------------------------------- MODULE Input --------------------------------
(***************************************************************************)
(* The input path: the device's event queue (rtl/rv32/rv32_input.v), the   *)
(* PLIC's gateway for its source (rtl/rv32/rv32_plic.v), and the kernel's  *)
(* handler and key buffer (external_interrupt, drain_input and SYS_EVENT   *)
(* of programs/rv32/os/kernel.c).                                          *)
(*                                                                         *)
(* A step is a clock: the registers of the devices change together, from   *)
(* their old values, and the hart makes at most one access.  The host may  *)
(* push an event in any clock, so it can come between any two accesses of  *)
(* the handler.                                                            *)
(***************************************************************************)
EXTENDS Naturals, Sequences

CONSTANTS
    Keys,       \* key codes
    Depth,      \* the device's queue, 16 events
    KeyBuffer,  \* KEY_BUFFER
    NoEvent     \* an event word of 0

ASSUME InputAssumption ==
    /\ Depth \in Nat \ {0}
    /\ KeyBuffer \in Nat \ {0}

Events == [key : Keys, down : BOOLEAN]

VARIABLES
    queue,         \* the device's events, oldest first
    held,          \* KEYS: the keys it has seen pressed and not released
    pending,       \* the PLIC's pending bit of the input's source
    claimed,       \* its claimed bit
    pc,            \* where the hart is: user code, or an access of the handler
    keys,          \* the kernel's ring of events
    key_head,
    key_count,
    keys_dropped,  \* whether keys_dropped is nonzero
    got,           \* what the last SYS_EVENT returned
    seen           \* history: the keys held, as a program that takes every event sees it

deviceVars == <<queue, held>>
plicVars == <<pending, claimed>>
ringVars == <<keys, key_head, key_count, keys_dropped>>
vars == <<deviceVars, plicVars, pc, ringVars, got, seen>>

Pressed(set, e) == IF e.down THEN set \cup {e.key} ELSE set \ {e.key}

\* Bug: a push into a full queue still changes KEYS.
PushAlways ==
    \/ UNCHANGED deviceVars
    \/ \E e \in Events : /\ queue' = IF Len(queue) < Depth THEN Append(queue, e) ELSE queue
                         /\ held' = Pressed(held, e)

\* The host pushes an event or none; a push into a full queue is ignored.
Push ==
    \/ UNCHANGED deviceVars
    \/ \E e \in Events : /\ Len(queue) < Depth
                         /\ queue' = Append(queue, e)
                         /\ held' = Pressed(held, e)

\* Bug: the gateway latches only a queue that was empty.
LatchedOnEdge == pending \/ (queue = <<>> /\ queue' # <<>> /\ ~claimed)

\* The pending bit after a clock in which no claim clears it.
Latched == pending \/ (queue # <<>> /\ ~claimed)

\* A clock in which the hart makes no access to these devices.
Clock ==
    /\ Push
    /\ pending' = Latched
    /\ UNCHANGED <<claimed, pc, ringVars, got, seen>>

\* meip is up and user code runs, with interrupts on.
Interrupt ==
    /\ pc = "user"
    /\ pending
    /\ pc' = "claim"
    /\ Push
    /\ pending' = Latched
    /\ UNCHANGED <<claimed, ringVars, got, seen>>

Claim ==
    /\ pc = "claim"
    /\ Push
    /\ pending' = FALSE
    /\ claimed' = TRUE
    /\ pc' = "drain"
    /\ UNCHANGED <<ringVars, got, seen>>

RingSlot(n) == (key_head + n) % KeyBuffer

\* Bug: the last slot is never used.
FullButOne == key_count + 1 >= KeyBuffer

BufferFull == key_count = KeyBuffer

\* One round of drain_input's loop: the device makes a read wait while the host pushes.
Drain ==
    /\ pc = "drain"
    /\ IF queue = <<>>
       THEN pc' = "complete" /\ UNCHANGED <<queue, ringVars>>
       ELSE /\ queue' = Tail(queue)
            /\ IF BufferFull
               THEN keys_dropped' = TRUE /\ UNCHANGED <<keys, key_count>>
               ELSE /\ keys' = [keys EXCEPT ![RingSlot(key_count)] = Head(queue)]
                    /\ key_count' = key_count + 1
                    /\ UNCHANGED keys_dropped
            /\ UNCHANGED <<key_head, pc>>
    /\ pending' = Latched
    /\ UNCHANGED <<held, claimed, got, seen>>

Complete ==
    /\ pc = "complete"
    /\ Push
    /\ claimed' = FALSE
    /\ pending' = Latched
    /\ pc' = "user"
    /\ UNCHANGED <<ringVars, got, seen>>

\* SYS_EVENT, which touches the kernel's memory only.
Event ==
    /\ pc = "user"
    /\ IF key_count = 0
       THEN got' = NoEvent /\ UNCHANGED <<key_head, key_count, seen>>
       ELSE /\ got' = keys[key_head]
            /\ key_head' = (key_head + 1) % KeyBuffer
            /\ key_count' = key_count - 1
            /\ seen' = Pressed(seen, keys[key_head])
    /\ UNCHANGED <<deviceVars, claimed, pc, keys, keys_dropped>>
    /\ pending' = Latched

Init ==
    /\ queue = <<>>
    /\ held = {}
    /\ pending = FALSE
    /\ claimed = FALSE
    /\ pc = "user"
    /\ keys = [i \in 0 .. KeyBuffer - 1 |-> NoEvent]
    /\ key_head = 0
    /\ key_count = 0
    /\ keys_dropped = FALSE
    /\ got = NoEvent
    /\ seen = {}

Next == Clock \/ Interrupt \/ Claim \/ Drain \/ Complete \/ Event

Spec == Init /\ [][Next]_vars

\* The hart takes a pending interrupt and runs its handler.
Fairness == WF_vars(Clock) /\ WF_vars(Interrupt) /\ WF_vars(Claim) /\ WF_vars(Drain) /\ WF_vars(Complete)

FairSpec == Spec /\ Fairness

-----------------------------------------------------------------------------
(* Properties. *)

\* The events in the kernel's ring, oldest first.
Buffered == [i \in 1 .. key_count |-> keys[RingSlot(i - 1)]]

Fifo == INSTANCE EventFifo WITH Capacity <- KeyBuffer, waiting <- Buffered \o queue,
                                dropped <- keys_dropped

\* Events accepted by the device reach programs in order, through both queues and every
\* interleaving of the host and the handler; one is dropped only when the kernel's
\* buffer is full, and counted (drain_input() and SYS_EVENT).
EventsInOrder == Fifo!Spec

\* A program that has taken every event agrees with KEYS on the keys held, unless the
\* kernel dropped one (SYS_EVENT and SYS_KEYS).
KeysAgree == queue = <<>> /\ key_count = 0 /\ ~keys_dropped => seen = held

\* An event in the device brings the handler to its queue, also one that comes after
\* the last read of the handler and before it completes the interrupt
\* (external_interrupt() and the PLIC's gateway).
EventsServed == (queue # <<>> /\ pc = "user") ~> pc = "drain"

=============================================================================
