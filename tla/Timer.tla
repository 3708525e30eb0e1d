------------------------------- MODULE Timer --------------------------------
(***************************************************************************)
(* The CLINT's 64-bit time registers (tools/rv32emu_core.c) and the code   *)
(* that reads and writes them in 32-bit halves while time runs             *)
(* (programs/rv32/clint.h, used by the kernel's mtime() and set_timer()).  *)
(* A half counts Half values; 2^32 on the machine.                         *)
(***************************************************************************)
EXTENDS Naturals

CONSTANTS
    Half,       \* values of a half
    MaxTime     \* bound: the last value of mtime

ASSUME TimeAssumption == Half \in Nat \ {0} /\ MaxTime \in Nat

VARIABLES
    mtime, mtimecmp,
    access,     \* the next access of the code, or "none"
    read,       \* the halves clint_mtime() has read
    when,       \* the argument of clint_set_mtimecmp()
    began,      \* history: mtime when clint_mtime() was called
    result,     \* history: what it returned
    before      \* history: mtimecmp when clint_set_mtimecmp() was called

timerVars == <<mtime, mtimecmp, access, read, when, began, result, before>>

Never == Half * Half - 1
Lo(t) == t % Half
Hi(t) == t \div Half
WithLo(t, v) == Hi(t) * Half + v
WithHi(t, v) == v * Half + Lo(t)

\* The line into mip.MTIP.
Due == mtime >= mtimecmp

\* Time runs between any two accesses, by any amount.
Tick ==
    /\ mtime < MaxTime
    /\ mtime' = mtime + 1
    /\ UNCHANGED <<mtimecmp, access, read, when, began, result, before>>

ReadCall ==
    /\ access = "none"
    /\ access' = "hi"
    /\ began' = mtime
    /\ UNCHANGED <<mtime, mtimecmp, read, when, result, before>>

ReadHi ==
    /\ access = "hi"
    /\ read' = [read EXCEPT !.hi = Hi(mtime)]
    /\ access' = "lo"
    /\ UNCHANGED <<mtime, mtimecmp, when, began, result, before>>

ReadLo ==
    /\ access = "lo"
    /\ read' = [read EXCEPT !.lo = Lo(mtime)]
    /\ access' = "again"
    /\ UNCHANGED <<mtime, mtimecmp, when, began, result, before>>

\* The loop ends when the high half has not changed.
HiUnchanged == read.hi = Hi(mtime)

ReadAgain ==
    /\ access = "again"
    /\ IF HiUnchanged
       THEN access' = "returned" /\ result' = read.hi * Half + read.lo
       ELSE access' = "hi" /\ UNCHANGED result
    /\ UNCHANGED <<mtime, mtimecmp, read, when, began, before>>

Return ==
    /\ access = "returned"
    /\ access' = "none"
    /\ began' = 0 /\ result' = 0
    /\ read' = [hi |-> 0, lo |-> 0]
    /\ UNCHANGED <<mtime, mtimecmp, when, before>>

SetCall(t) ==
    /\ access = "none"
    /\ access' = "ones"
    /\ when' = t
    /\ before' = mtimecmp
    /\ UNCHANGED <<mtime, mtimecmp, read, began, result>>

\* Bug: the low half first, as the argument has it.
FirstLo == Lo(when)

FirstStore == Half - 1

StoreOnes ==
    /\ access = "ones"
    /\ mtimecmp' = WithLo(mtimecmp, FirstStore)
    /\ access' = "set_hi"
    /\ UNCHANGED <<mtime, read, when, began, result, before>>

StoreHi ==
    /\ access = "set_hi"
    /\ mtimecmp' = WithHi(mtimecmp, Hi(when))
    /\ access' = "set_lo"
    /\ UNCHANGED <<mtime, read, when, began, result, before>>

StoreLo ==
    /\ access = "set_lo"
    /\ mtimecmp' = WithLo(mtimecmp, Lo(when))
    /\ access' = "none"
    /\ when' = 0 /\ before' = 0
    /\ UNCHANGED <<mtime, read, began, result>>

TimerInit ==
    /\ mtime = 0 /\ mtimecmp = Never
    /\ access = "none"
    /\ read = [hi |-> 0, lo |-> 0]
    /\ when = 0 /\ began = 0 /\ result = 0 /\ before = 0

TimerNext ==
    \/ Tick
    \/ ReadCall \/ ReadHi \/ ReadLo \/ ReadAgain \/ Return
    \/ \E t \in 0..Never : SetCall(t)
    \/ StoreOnes \/ StoreHi \/ StoreLo

TimerSpec == TimerInit /\ [][TimerNext]_timerVars

-----------------------------------------------------------------------------

Setting == access \in {"ones", "set_hi", "set_lo"}

\* mtime read in halves is a time between the call and the return, though the low
\* half may have carried between two reads (clint_mtime()); and while mtimecmp is
\* written in halves, an interrupt becomes due only when the old or the new time is
\* (clint_set_mtimecmp()).
TimerExact ==
    /\ access = "returned" => began <= result /\ result <= mtime
    /\ Setting /\ Due => mtime >= before \/ mtime >= when

\* "Low word to all ones first, so no intermediate value lies below the target."
\* (programs/rv32/clint.h)
NeverBelowTarget == access \in {"set_hi", "set_lo"} => mtimecmp >= when

=============================================================================
