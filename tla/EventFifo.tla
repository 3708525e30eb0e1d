----------------------------- MODULE EventFifo ------------------------------
(***************************************************************************)
(* What the input path promises a program that calls SYS_EVENT: the events *)
(* the device accepts come out in order, and one is given up only when     *)
(* Capacity events wait before it, never silently.                         *)
(***************************************************************************)
EXTENDS Naturals, Sequences

CONSTANTS Events, NoEvent, Capacity

VARIABLES
    waiting,  \* the events accepted and not yet taken, oldest first
    dropped,  \* whether an event was given up
    got       \* what the last SYS_EVENT returned

Init == waiting = <<>> /\ dropped = FALSE /\ got = NoEvent

Accept ==
    /\ \E e \in Events : waiting' = Append(waiting, e)
    /\ UNCHANGED <<dropped, got>>

Without(s, i) == SubSeq(s, 1, i - 1) \o SubSeq(s, i + 1, Len(s))

Drop ==
    /\ \E i \in Capacity + 1 .. Len(waiting) : waiting' = Without(waiting, i)
    /\ dropped' = TRUE
    /\ UNCHANGED got

\* SYS_EVENT answers NoEvent also while the events are on their way to the kernel.
Take ==
    /\ \/ got' = NoEvent /\ UNCHANGED waiting
       \/ waiting # <<>> /\ got' = Head(waiting) /\ waiting' = Tail(waiting)
    /\ UNCHANGED dropped

Next == Accept \/ Drop \/ Take

Spec == Init /\ [][Next]_<<waiting, dropped, got>>

=============================================================================
