------------------------------- MODULE Kernel -------------------------------
(***************************************************************************)
(* The kernel of programs/rv32/os/kernel.c: the process table, the round   *)
(* robin scheduler, process start and end, blocking by retry, the lazy FPU *)
(* switch, protection (page tables, PMP and the DMA window), the gating of *)
(* the graphics engines, and the open files with their directory.          *)
(*                                                                         *)
(* The kernel runs with interrupts off, so every trap is one atomic step:  *)
(* the handler and the schedule() that ends it.  Between traps the running *)
(* program computes, and the engines, the timer and the console advance.   *)
(* Integers that only identify (addresses, exit codes, file positions) are *)
(* left out; slots, files and floating states are members of small sets.   *)
(***************************************************************************)
EXTENDS Naturals

CONSTANTS
    None,         \* no process, job, layout or file: a null pointer or -1
    MaxProcs,     \* MAX_PROCS, the entries of the process table
    OpenFiles,    \* OPEN_FILES, the descriptors of one process
    Programs,     \* the programs a process can name
    Shell,        \* "sh", the first program
    SlotIds,      \* the 128 KiB memory slots
    Slots,        \* program -> the slots its load address and span cover
    Accelerated,  \* the programs flagged PROGRAM_ACCELERATORS
    OnDisk,       \* the programs that are files on the disk
    Files,        \* file names; a program on the disk is the file it names
    FpValues,     \* contents of f0-f31 and fcsr
    FpZero,       \* their contents at reset
    Calls,        \* what the programs of this instance do
    DiskFails,    \* whether a transfer to the disk may fail
    MaxPid,       \* bound on pids (2^32 - 1 in the code)
    MaxSleep,     \* bound on a sleep, in device ticks
    MaxBytes,     \* bound on the console bytes waiting
    MaxSize       \* bound on a file's size

Entries == 0 .. MaxProcs - 1
Fds == 1 .. OpenFiles
Pids == 0 .. MaxPid
Engines == "engines"  \* the engines' register windows

ASSUME KernelAssumption ==
    /\ MaxProcs \in Nat \ {0}
    /\ OpenFiles \in Nat
    /\ MaxPid \in Nat \ {0}
    /\ MaxSleep \in Nat
    /\ MaxBytes \in Nat
    /\ MaxSize \in Nat
    /\ None \notin Nat
    /\ Shell \in Programs
    /\ None \notin Programs
    /\ Accelerated \subseteq Programs \ {Shell}
    /\ OnDisk \subseteq Files \cap (Programs \ (Accelerated \cup {Shell}))
    /\ Slots \in [Programs -> (SUBSET SlotIds) \ {{}}]
    /\ Engines \notin SlotIds
    /\ None \notin Files
    /\ FpZero \in FpValues
    /\ DiskFails \in BOOLEAN

VARIABLES
    procs,          \* the process table
    current,        \* the running process's entry, None in the idle loop
    next_pid,       \* the next process's pid
    fpu_owner,      \* whose floating state the FPU holds, or None
    fpu,            \* the FPU's registers
    saved,          \* entry -> spaces[].fp, its saved floating state
    engines_used,   \* whether the kernel looks at the engines
    job,            \* the job an engine runs, or None
    space,          \* entry -> the layout its page tables were built for
    leaves,         \* entry -> the regions its page tables map
    hart,           \* satp, the PMP grants and the DMA window
    tlb,            \* the regions whose translations the hart holds
    protected_pid,  \* the pid protect() last set the hart up for
    palette,        \* "boot" or "custom" colours
    palette_writer, \* the pid that last wrote the palette, or 0
    rx,             \* console bytes waiting
    dir,            \* the directory in memory: file -> size, or None
    diskdir,        \* the directory on the disk
    halted,         \* "no", or how the machine stopped
    want,           \* history: the floating state each process last computed
    lost            \* history: the last directory write failed

procVars == <<procs, current, next_pid>>
fpuVars == <<fpu_owner, fpu, saved, want>>
engineVars == <<engines_used, job>>
spaceVars == <<space, leaves>>
hartVars == <<hart, tlb, protected_pid>>
paletteVars == <<palette, palette_writer>>
fileVars == <<dir, diskdir, lost>>
vars == <<procVars, fpuVars, engineVars, spaceVars, hartVars, paletteVars, rx,
          fileVars, halted>>

-----------------------------------------------------------------------------
(* The process table. *)

States == {"FREE", "READY", "RUNNING", "BLOCKED_READ", "BLOCKED_WAIT",
           "BLOCKED_SLEEP", "ZOMBIE"}

Closed == [mode |-> "closed", file |-> None]
OpenFile == [mode : {"read", "write"}, file : Files] \cup {Closed}
NoFiles == [k \in Fds |-> Closed]

\* retry: the call whose ecall runs again, its pc not having moved past it.
\* wake: the ticks left until p->wake.  fs: the frame's mstatus.FS.
Proc == [state : States, pid : Pids, parent : Pids, prog : Programs \cup {None},
         wait_pid : Pids, wake : 0 .. MaxSleep, fs : {"Off", "Clean", "Dirty"},
         retry : {"none", "read", "wait", "present"}, files : [Fds -> OpenFile]]

NewProc(g, pid, parent) ==
    [state |-> "READY", pid |-> pid, parent |-> parent, prog |-> g, wait_pid |-> 0,
     wake |-> 0, fs |-> "Off", retry |-> "none", files |-> NoFiles]

FreeProc == [NewProc(None, 0, 0) EXCEPT !.state = "FREE"]

Alive(ps, i) == ps[i].state \notin {"FREE", "ZOMBIE"}

Flagged(ps, i) == ps[i].prog \in Accelerated

Parents(ps, p) == {i \in Entries : Alive(ps, i) /\ ps[i].pid = ps[p].parent}

\* What the slots, the engines' windows and the leaves of a program cover.
Regions(g) == Slots[g] \cup (IF g \in Accelerated THEN {Engines} ELSE {})

-----------------------------------------------------------------------------
(* Scheduling: wake_blocked, engines_busy, next_ready, protect, schedule.   *)
(* Each takes the table as the handler has left it so far.                  *)

\* Bug: only readers are looked at.
WakeReaders(ps, bytes) ==
    [i \in Entries |-> IF ps[i].state = "BLOCKED_READ" /\ bytes > 0
                       THEN [ps[i] EXCEPT !.state = "READY"] ELSE ps[i]]

WakeBlocked(ps, bytes) ==
    [i \in Entries |->
        IF \/ ps[i].state = "BLOCKED_READ" /\ bytes > 0
           \/ ps[i].state = "BLOCKED_SLEEP" /\ ps[i].wake = 0
        THEN [ps[i] EXCEPT !.state = "READY"]
        ELSE ps[i]]

EnginesBusy(used, j) == used /\ j # None

\* engines_used after engines_busy(): an idle answer looks for a program that
\* drives them.
UsedAfterLook(ps, used, j) ==
    IF used /\ j = None THEN \E i \in Entries : Alive(ps, i) /\ Flagged(ps, i) ELSE used

\* Bug: every round starts at the first entry.
RankFromStart(after, i) == i

\* How far i comes after `after` in the round.
Rank(after, i) ==
    IF after = None THEN i ELSE (i + MaxProcs - (after + 1)) % MaxProcs

Ready(ps) == {i \in Entries : ps[i].state = "READY"}

\* Bug: busy engines keep nobody from running.
EligibleAnyway(ps, busy) == Ready(ps)

Eligible(ps, busy) == {i \in Ready(ps) : Flagged(ps, i) \/ ~busy}

First(S, after) == {i \in S : \A j \in S : Rank(after, i) <= Rank(after, j)}

\* engines_used after next_ready(after): it looks at the engines when the first
\* ready process does not drive them.
UsedAfterNext(ps, after, used, j) ==
    IF \E i \in First(Ready(ps), after) : ~Flagged(ps, i)
    THEN UsedAfterLook(ps, used, j)
    ELSE used

\* Bug: no fence after the new satp.
ProtectNoFence(ps, p) ==
    IF ps[p].pid = protected_pid
    THEN UNCHANGED hartVars
    ELSE /\ protected_pid' = ps[p].pid
         /\ hart' = [satp |-> p, pmp |-> Regions(ps[p].prog), window |-> Slots[ps[p].prog]]
         /\ UNCHANGED tlb

Protect(ps, p) ==
    IF ps[p].pid = protected_pid
    THEN UNCHANGED hartVars
    ELSE /\ protected_pid' = ps[p].pid
         /\ hart' = [satp |-> p, pmp |-> Regions(ps[p].prog), window |-> Slots[ps[p].prog]]
         /\ tlb' = {}

UsedOnceRun(ps, n, used) == used \/ Flagged(ps, n)

Schedule(ps, cur, used, j, bytes) ==
    LET woken == WakeBlocked(ps, bytes)
        ready == Eligible(woken, EnginesBusy(used, j))
        used1 == UsedAfterNext(woken, cur, used, j)
    IN  IF cur # None /\ woken[cur].state = "RUNNING"
        THEN /\ procs' = woken
             /\ current' = cur
             /\ engines_used' = UsedOnceRun(woken, cur, used)
             /\ Protect(woken, cur)
        ELSE \/ /\ ready = {}
                /\ procs' = woken
                /\ current' = None
                /\ engines_used' = used1
                /\ UNCHANGED hartVars
             \/ \E n \in First(ready, cur) :
                /\ procs' = [woken EXCEPT ![n].state = "RUNNING"]
                /\ current' = n
                /\ engines_used' = UsedOnceRun(woken, n, used1)
                /\ Protect(woken, n)

\* A call that returns at once with the table it leaves.
Return(ps, p) ==
    /\ Schedule([ps EXCEPT ![p].retry = "none"], p, engines_used, job, rx)
    /\ UNCHANGED <<next_pid, job, halted>>

-----------------------------------------------------------------------------
(* The directory.  fs_flush writes it whole; a transfer that fails may or  *)
(* may not have reached the disk.                                          *)

FlushIf(needed, d) ==
    /\ dir' = d
    /\ \/ ~needed /\ UNCHANGED <<diskdir, lost>>
       \/ needed /\ diskdir' = d /\ lost' = FALSE
       \/ needed /\ DiskFails /\ diskdir' \in {diskdir, d} /\ lost' = TRUE

Writes(ps, i) == \E k \in Fds : ps[i].files[k].mode = "write"

\* Bug: halt() leaves open files to their processes.
HaltForgets(ps) == FALSE

\* halt() writes the directory back for a file still open for writing.
HaltWrites(ps) == \E i \in Entries : ps[i].state # "FREE" /\ Writes(ps, i)

\* Bug: a writer is refused only while another writes.
MayOpenBeside(ps, f, mode) ==
    \A i \in Entries, k \in Fds : ps[i].state # "FREE" /\ ps[i].files[k].file = f
                                    => ps[i].files[k].mode # "write"

MayOpen(ps, f, mode) ==
    \A i \in Entries : ps[i].state # "FREE" =>
        \A k \in Fds :
            ~ /\ ps[i].files[k].file = f
              /\ \/ mode = "write" /\ ps[i].files[k].mode # "closed"
                 \/ ps[i].files[k].mode = "write"

-----------------------------------------------------------------------------
(* The end of a process. *)

\* Bug: the job outlives its program.
JobKept(ps, p) == job

\* stop_orphaned_engines: the job left once p has ended.
JobAfter(ps, p) ==
    IF /\ Flagged(ps, p)
       /\ \A i \in Entries \ {p} : ~(Alive(ps, i) /\ Flagged(ps, i))
    THEN None
    ELSE job

\* p's files closed and its zombie children, which nobody else can wait for, freed.
Reaped(ps, p) ==
    [i \in Entries |->
        IF i = p THEN [ps[p] EXCEPT !.files = NoFiles]
        ELSE IF ps[i].state = "ZOMBIE" /\ ps[i].parent = ps[p].pid
        THEN [ps[i] EXCEPT !.state = "FREE"]
        ELSE ps[i]]

\* Bug: the waiting parent is not made ready.
FinishedUnheard(ps, p) ==
    [Reaped(ps, p) EXCEPT ![p].state = IF Parents(Reaped(ps, p), p) = {} THEN "FREE" ELSE "ZOMBIE"]

\* The table finish(p) leaves: p a zombie and its waiting parent ready, or p free
\* if nobody will wait for it.
Finished(ps, p) ==
    LET reaped == Reaped(ps, p)
        parents == Parents(reaped, p)
    IN  [i \in Entries |->
            IF i = p
            THEN [reaped[p] EXCEPT !.state = IF parents = {} THEN "FREE" ELSE "ZOMBIE"]
            ELSE IF /\ i \in parents
                    /\ reaped[i].state = "BLOCKED_WAIT"
                    /\ reaped[i].wait_pid = ps[p].pid
            THEN [reaped[i] EXCEPT !.state = "READY"]
            ELSE reaped[i]]

\* The machine stops: the directory is written back for open writers.
Stop(ps, how, closing) ==
    /\ procs' = ps
    /\ halted' = how
    /\ FlushIf(closing \/ HaltWrites(ps), dir)
    /\ UNCHANGED <<current, engines_used, hartVars>>

\* The next program starts with the boot colours.
RestorePalette(p) ==
    IF palette_writer = procs[p].pid
    THEN palette' = "boot" /\ palette_writer' = 0
    ELSE UNCHANGED paletteVars

Finish(p) ==
    LET j == JobAfter(procs, p)
        last == procs[p].pid = 1 /\ Parents(procs, p) = {}
    IN  /\ job' = j
        /\ RestorePalette(p)
        /\ fpu_owner' = IF fpu_owner = p THEN None ELSE fpu_owner
        /\ \/ /\ last
              /\ Stop(Reaped(procs, p), "halt", Writes(procs, p))
           \/ /\ ~last
              /\ FlushIf(Writes(procs, p), dir)
              /\ Schedule(Finished(procs, p), p, engines_used, j, rx)
              /\ UNCHANGED halted
        /\ UNCHANGED <<next_pid, fpu, saved, want, spaceVars, rx>>

-----------------------------------------------------------------------------
(* Steps of the running process p.  It does c unless its pc is on an       *)
(* earlier call that has to run again.                                     *)

Does(p, c) ==
    /\ halted = "no"
    /\ current = p
    /\ c \in Calls
    /\ procs[p].retry \in {"none", c}

Exit(p) == Does(p, "exit") /\ Finish(p)

\* A fault of any kind: kill() ends the process.
Fault(p) == Does(p, "fault") /\ Finish(p)

\* An access to the framebuffer while a job runs is refused by the machine, and the
\* fault kills the process.
EngineFault(p) == Does(p, "draw") /\ job # None /\ Finish(p)

\* A call that reads or returns a word: time, getpid, keys, event, switches...
OtherCall(p) ==
    /\ Does(p, "other")
    /\ Return(procs, p)
    /\ UNCHANGED <<fpuVars, spaceVars, paletteVars, rx, fileVars>>

ReadConsole(p) ==
    /\ Does(p, "read")
    /\ \/ /\ rx = 0
          /\ Schedule([procs EXCEPT ![p].state = "BLOCKED_READ", ![p].retry = "read"],
                      p, engines_used, job, rx)
          /\ UNCHANGED rx
       \/ \E n \in 1 .. rx :
          /\ Schedule([procs EXCEPT ![p].retry = "none"], p, engines_used, job, rx - n)
          /\ rx' = rx - n
    /\ UNCHANGED <<next_pid, job, halted, fpuVars, spaceVars, paletteVars, fileVars>>

\* The call runs again, p keeping the machine, until the engines are idle.
Present(p) ==
    /\ Does(p, "present")
    /\ LET retry == IF EnginesBusy(engines_used, job) THEN "present" ELSE "none"
       IN  Schedule([procs EXCEPT ![p].retry = retry], p,
                    UsedAfterLook(procs, engines_used, job), job, rx)
    /\ UNCHANGED <<next_pid, job, halted, fpuVars, spaceVars, paletteVars, rx, fileVars>>

Yield(p) ==
    /\ Does(p, "yield")
    /\ Return([procs EXCEPT ![p].state = "READY"], p)
    /\ UNCHANGED <<fpuVars, spaceVars, paletteVars, rx, fileVars>>

Sleep(p) ==
    /\ Does(p, "sleep")
    /\ \E d \in 0 .. MaxSleep :
          Return([procs EXCEPT ![p].state = "BLOCKED_SLEEP", ![p].wake = d], p)
    /\ UNCHANGED <<fpuVars, spaceVars, paletteVars, rx, fileVars>>

Children(ps, p, pid) ==
    {i \in Entries : ps[i].state # "FREE" /\ ps[i].pid = pid /\ ps[i].parent = ps[p].pid}

Wait(p) ==
    /\ Does(p, "wait")
    /\ \E pid \in IF procs[p].retry = "wait" THEN {procs[p].wait_pid} ELSE Pids :
       LET children == Children(procs, p, pid)
       IN  \/ /\ \A i \in children : procs[i].state = "ZOMBIE"
              /\ Return([i \in Entries |-> IF i \in children
                                           THEN [procs[i] EXCEPT !.state = "FREE"]
                                           ELSE procs[i]], p)
           \/ /\ \E i \in children : procs[i].state # "ZOMBIE"
              /\ Schedule([procs EXCEPT ![p].state = "BLOCKED_WAIT", ![p].wait_pid = pid,
                                        ![p].retry = "wait"], p, engines_used, job, rx)
              /\ UNCHANGED <<next_pid, job, halted>>
    /\ UNCHANGED <<fpuVars, spaceVars, paletteVars, rx, fileVars>>

Halt(p) ==
    /\ Does(p, "halt")
    /\ Stop(procs, "halt", FALSE)
    /\ UNCHANGED <<next_pid, job, fpuVars, spaceVars, paletteVars, rx>>

WritePalette(p) ==
    /\ Does(p, "palette")
    /\ palette' = "custom"
    /\ palette_writer' = procs[p].pid
    /\ Return(procs, p)
    /\ UNCHANGED <<fpuVars, spaceVars, rx, fileVars>>

-----------------------------------------------------------------------------
(* spawn *)

FreeEntries(ps) == {i \in Entries : ps[i].state = "FREE"}

\* Bug: only a program loaded at the same slots is seen.
SameSlotsInUse(ps, g) == \E i \in Entries : Alive(ps, i) /\ Slots[ps[i].prog] = Slots[g]

SlotsInUse(ps, g) == \E i \in Entries : Alive(ps, i) /\ Slots[ps[i].prog] \cap Slots[g] # {}

\* disk_program finds a file nobody is writing.
Loadable(ps, g) == g \in OnDisk => dir[g] \notin {None, 0} /\ MayOpen(ps, g, "read")

MapProcess(e, g) ==
    /\ space' = [space EXCEPT ![e] = g]
    /\ leaves' = [leaves EXCEPT ![e] =
                     (IF space[e] = None THEN {} ELSE @ \ Regions(space[e])) \cup Regions(g)]

Spawn(p) ==
    /\ Does(p, "spawn")
    /\ next_pid <= MaxPid
    /\ \E g \in Programs, e \in FreeEntries(procs) :
       /\ Loadable(procs, g)
       /\ ~SlotsInUse(procs, g)
       /\ \A i \in FreeEntries(procs) : e <= i
       /\ MapProcess(e, g)
       /\ saved' = [saved EXCEPT ![e] = FpZero]
       /\ want' = [want EXCEPT ![e] = FpZero]
       /\ Schedule([procs EXCEPT ![e] = NewProc(g, next_pid, procs[p].pid)],
                   p, engines_used, job, rx)
    /\ next_pid' = next_pid + 1
    /\ UNCHANGED <<job, halted, fpu_owner, fpu, paletteVars, rx, fileVars>>

\* Its slots in use, no entry free, or a file that is no program or cannot be read:
\* an error, and nothing has changed.
SpawnRefused(p) ==
    /\ Does(p, "spawn")
    /\ \E g \in Programs : \/ SlotsInUse(procs, g)
                           \/ FreeEntries(procs) = {}
                           \/ g \in OnDisk
    /\ Return(procs, p)
    /\ UNCHANGED <<fpuVars, spaceVars, paletteVars, rx, fileVars>>

-----------------------------------------------------------------------------
(* Open files. *)

Opened(ps, p, f, mode, k) == [ps EXCEPT ![p].files[k] = [mode |-> mode, file |-> f]]

FirstClosed(ps, p) ==
    {k \in Fds : /\ ps[p].files[k].mode = "closed"
                 /\ \A l \in 1 .. k - 1 : ps[p].files[l].mode # "closed"}

\* An existing file.  Opening it for writing empties it, in memory only.
Open(p) ==
    /\ Does(p, "open")
    /\ \E f \in Files, mode \in {"read", "write"}, k \in FirstClosed(procs, p) :
       /\ dir[f] # None
       /\ MayOpen(procs, f, mode)
       /\ FlushIf(FALSE, IF mode = "write" THEN [dir EXCEPT ![f] = 0] ELSE dir)
       /\ Return(Opened(procs, p, f, mode, k), p)
    /\ UNCHANGED <<fpuVars, spaceVars, paletteVars, rx>>

\* A new file: fs_open writes its entry back before the descriptor is taken.  A
\* write that fails refuses the call and leaves the entry in memory.
Create(p) ==
    /\ Does(p, "open")
    /\ \E f \in Files, k \in FirstClosed(procs, p) :
       /\ dir[f] = None
       /\ FlushIf(TRUE, [dir EXCEPT ![f] = 0])
       /\ Return(IF lost' THEN procs ELSE Opened(procs, p, f, "write", k), p)
    /\ UNCHANGED <<fpuVars, spaceVars, paletteVars, rx>>

\* The size in memory grows with each sector that reaches the disk.
WriteFile(p) ==
    /\ Does(p, "write")
    /\ \E k \in Fds :
       /\ procs[p].files[k].mode = "write"
       /\ LET f == procs[p].files[k].file
          IN  \E n \in 0 .. MaxSize : n >= dir[f] /\ FlushIf(FALSE, [dir EXCEPT ![f] = n])
    /\ Return(procs, p)
    /\ UNCHANGED <<fpuVars, spaceVars, paletteVars, rx>>

Close(p) ==
    /\ Does(p, "close")
    /\ \E k \in Fds :
       /\ procs[p].files[k].mode # "closed"
       /\ FlushIf(procs[p].files[k].mode = "write", dir)
       /\ Return([procs EXCEPT ![p].files[k] = Closed], p)
    /\ UNCHANGED <<fpuVars, spaceVars, paletteVars, rx>>

-----------------------------------------------------------------------------
(* The FPU. *)

\* Bug: the owner keeps FS on.
HandedKeepingOwner(p) == [procs EXCEPT ![p].fs = "Clean"]

\* The table once p has the FPU: its owner runs with FS Off from now on.
HandedOver(p) ==
    [i \in Entries |-> IF i = p THEN [procs[i] EXCEPT !.fs = "Clean"]
                       ELSE IF i = fpu_owner THEN [procs[i] EXCEPT !.fs = "Off"]
                       ELSE procs[i]]

\* Bug: the test is for Clean, so what the owner has written is lost.
SavedIfClean == IF fpu_owner # None /\ procs[fpu_owner].fs = "Clean"
                THEN [saved EXCEPT ![fpu_owner] = fpu]
                ELSE saved

\* Clean means the saved copy is current.
SavedIfDirty ==
    IF fpu_owner # None /\ procs[fpu_owner].fs = "Dirty"
    THEN [saved EXCEPT ![fpu_owner] = fpu]
    ELSE saved

\* claim_fpu: an F instruction of a process with FS Off.  The check panics if a
\* second process is left with FS on.
ClaimFpu(p) ==
    /\ Does(p, "float")
    /\ procs[p].fs = "Off"
    /\ saved' = SavedIfDirty
    /\ fpu' = SavedIfDirty[p]
    /\ fpu_owner' = p
    /\ IF \E i \in Entries \ {p} : Alive(HandedOver(p), i) /\ HandedOver(p)[i].fs # "Off"
       THEN Stop(HandedOver(p), "panic", FALSE)
       ELSE /\ Schedule(HandedOver(p), p, engines_used, job, rx)
            /\ UNCHANGED <<halted, fileVars>>
    /\ UNCHANGED <<next_pid, job, want, spaceVars, paletteVars, rx>>

\* An F instruction that writes a register or accrues a flag, with FS on.
FloatWrite(p) ==
    /\ Does(p, "float")
    /\ procs[p].fs # "Off"
    /\ \E v \in FpValues : fpu' = v /\ want' = [want EXCEPT ![p] = v]
    /\ procs' = [procs EXCEPT ![p].fs = "Dirty"]
    /\ UNCHANGED <<current, next_pid, fpu_owner, saved, engineVars, spaceVars, hartVars,
                   paletteVars, rx, fileVars, halted>>

-----------------------------------------------------------------------------
(* The engines.  G1 and G2 refuse to start while the other is busy, so one  *)
(* job runs at a time.  It holds the framebuffer and the memory it reads or *)
(* writes by DMA, which must lie in the DMA window when it starts.          *)

StartJob(p) ==
    /\ Does(p, "engine")
    /\ job = None
    /\ Engines \in leaves[hart.satp] \cap hart.pmp
    /\ \E mem \in SUBSET SlotIds :
       /\ mem \subseteq hart.window
       /\ job' = [owner |-> procs[p].pid, mem |-> mem]
    /\ UNCHANGED <<procVars, fpuVars, engines_used, spaceVars, hartVars, paletteVars, rx,
                   fileVars, halted>>

JobDone ==
    /\ halted = "no"
    /\ job # None
    /\ job' = None
    /\ UNCHANGED <<procVars, fpuVars, engines_used, spaceVars, hartVars, paletteVars, rx,
                   fileVars, halted>>

\* A kernel store into slots a job holds may meet the bytes it locks: the store
\* faults, in the kernel, and kernel_fault() stops the machine without a flush.
StoreFaults(p, slots) ==
    /\ job # None
    /\ job.mem \cap slots # {}
    /\ halted' = "fault"
    /\ UNCHANGED <<procVars, fpuVars, engineVars, spaceVars, hartVars, paletteVars, rx,
                   fileVars>>

\* A call that stores into its caller's memory: read, list, ps, files, palette.
CopyOut(p) ==
    /\ Does(p, "copy")
    /\ \/ StoreFaults(p, Slots[procs[p].prog])
       \/ /\ Return(procs, p)
          /\ UNCHANGED <<fpuVars, spaceVars, paletteVars, rx, fileVars>>

\* spawn loads a program into slots no live process has.
SpawnFaults(p) ==
    /\ Does(p, "spawn")
    /\ FreeEntries(procs) # {}
    /\ \E g \in Programs : /\ Loadable(procs, g)
                           /\ ~SlotsInUse(procs, g)
                           /\ StoreFaults(p, Slots[g])

-----------------------------------------------------------------------------
(* Interrupts and the rest of the machine. *)

\* An access of the running program: the hart caches translations of what its page
\* tables map.
Access(p) ==
    /\ Does(p, "access")
    /\ tlb' = tlb \cup leaves[hart.satp]
    /\ UNCHANGED <<procVars, fpuVars, engineVars, spaceVars, hart, protected_pid,
                   paletteVars, rx, fileVars, halted>>

\* The running process yields when another may run.  The engines are looked at
\* here and again in schedule(): a job may end in between.
TimerInterrupt ==
    LET preempt == current # None /\ Eligible(procs, EnginesBusy(engines_used, job)) # {}
        used == IF current = None
                THEN engines_used
                ELSE UsedAfterNext(procs, current, engines_used, job)
    IN  /\ halted = "no"
        /\ \E j \in {job, None} :
           /\ job' = j
           /\ Schedule(IF preempt THEN [procs EXCEPT ![current].state = "READY"] ELSE procs,
                       current, used, j, rx)
        /\ UNCHANGED <<next_pid, fpuVars, spaceVars, paletteVars, rx, fileVars, halted>>

\* What the interrupt drains into the key buffer is module Input's.
ExternalInterrupt ==
    /\ halted = "no"
    /\ Schedule(procs, current, engines_used, job, rx)
    /\ UNCHANGED <<next_pid, job, fpuVars, spaceVars, paletteVars, rx, fileVars, halted>>

ConsoleInput ==
    /\ halted = "no"
    /\ "read" \in Calls
    /\ rx < MaxBytes
    /\ rx' = rx + 1
    /\ UNCHANGED <<procVars, fpuVars, engineVars, spaceVars, hartVars, paletteVars,
                   fileVars, halted>>

TimePasses ==
    /\ halted = "no"
    /\ \E i \in Entries : procs[i].state = "BLOCKED_SLEEP" /\ procs[i].wake > 0
    /\ procs' = [i \in Entries |->
                    IF procs[i].state = "BLOCKED_SLEEP" /\ procs[i].wake > 0
                    THEN [procs[i] EXCEPT !.wake = @ - 1]
                    ELSE procs[i]]
    /\ UNCHANGED <<current, next_pid, fpuVars, engineVars, spaceVars, hartVars, paletteVars,
                   rx, fileVars, halted>>

\* halt() ends in a loop.
Halted == halted # "no" /\ UNCHANGED vars

\* kernel_main: the shell is in the first entry and runs.
Init ==
    /\ procs = [i \in Entries |-> IF i = 0 THEN [NewProc(Shell, 1, 0) EXCEPT !.state = "RUNNING"]
                                  ELSE FreeProc]
    /\ current = 0
    /\ next_pid = 2
    /\ fpu_owner = None
    /\ fpu = FpZero
    /\ saved = [i \in Entries |-> FpZero]
    /\ engines_used = FALSE
    /\ job = None
    /\ space = [i \in Entries |-> IF i = 0 THEN Shell ELSE None]
    /\ leaves = [i \in Entries |-> IF i = 0 THEN Regions(Shell) ELSE {}]
    /\ hart = [satp |-> 0, pmp |-> Regions(Shell), window |-> Slots[Shell]]
    /\ tlb = {}
    /\ protected_pid = 1
    /\ palette = "boot"
    /\ palette_writer = 0
    /\ rx = 0
    /\ dir \in [Files -> {None} \cup (0 .. MaxSize)]
    /\ diskdir = dir
    /\ halted = "no"
    /\ want = [i \in Entries |-> FpZero]
    /\ lost = FALSE

Next ==
    \/ \E p \in Entries :
          \/ Exit(p) \/ Fault(p) \/ EngineFault(p) \/ OtherCall(p) \/ ReadConsole(p)
          \/ Present(p) \/ Yield(p) \/ Sleep(p) \/ Wait(p) \/ Halt(p) \/ WritePalette(p)
          \/ Spawn(p) \/ SpawnRefused(p) \/ SpawnFaults(p)
          \/ Open(p) \/ Create(p) \/ WriteFile(p) \/ Close(p)
          \/ ClaimFpu(p) \/ FloatWrite(p) \/ StartJob(p) \/ CopyOut(p) \/ Access(p)
    \/ JobDone \/ TimerInterrupt \/ ExternalInterrupt \/ ConsoleInput \/ TimePasses
    \/ Halted

Spec == Init /\ [][Next]_vars

\* The timer interrupt is raised again and again, device time advances, and an
\* engine ends the job it runs.  Nothing is assumed of the programs.
Fairness == WF_vars(TimerInterrupt) /\ WF_vars(TimePasses) /\ WF_vars(JobDone)

FairSpec == Spec /\ Fairness

-----------------------------------------------------------------------------
(* Properties. *)

Running == halted = "no" /\ current # None

\* Every variable has its type: the kernel's globals and the devices' registers.
TypeOK ==
    /\ procs \in [Entries -> Proc]
    /\ current \in Entries \cup {None}
    /\ next_pid \in 2 .. MaxPid + 1
    /\ fpu_owner \in Entries \cup {None}
    /\ fpu \in FpValues
    /\ saved \in [Entries -> FpValues]
    /\ engines_used \in BOOLEAN
    /\ job \in [owner : Pids, mem : SUBSET SlotIds] \cup {None}
    /\ space \in [Entries -> Programs \cup {None}]
    /\ leaves \in [Entries -> SUBSET (SlotIds \cup {Engines})]
    /\ hart \in [satp : Entries, pmp : SUBSET (SlotIds \cup {Engines}), window : SUBSET SlotIds]
    /\ tlb \subseteq SlotIds \cup {Engines}
    /\ protected_pid \in Pids
    /\ palette \in {"boot", "custom"}
    /\ palette_writer \in Pids
    /\ rx \in 0 .. MaxBytes
    /\ dir \in [Files -> {None} \cup (0 .. MaxSize)]
    /\ diskdir \in [Files -> {None} \cup (0 .. MaxSize)]
    /\ halted \in {"no", "halt", "panic", "fault"}
    /\ want \in [Entries -> FpValues]
    /\ lost \in BOOLEAN

\* However processes end and in whatever order (SYS_WAIT, SYS_PALETTE, finish()): one
\* blocked in wait waits for a child that is still alive, so no wakeup is lost; a
\* zombie keeps its entry only while a live parent can still wait for it, so no entry
\* of the table leaks; and custom colours are those of a live process.
EndsSettled ==
    /\ \A i \in Entries :
          procs[i].state = "BLOCKED_WAIT" =>
              \E c \in Entries : /\ Alive(procs, c)
                                 /\ procs[c].pid = procs[i].wait_pid
                                 /\ procs[c].parent = procs[i].pid
    /\ halted = "no" =>
          /\ \A i \in Entries : procs[i].state = "ZOMBIE" => Parents(procs, i) # {}
          /\ palette = "custom" =>
                \E i \in Entries : Alive(procs, i) /\ procs[i].pid = palette_writer

\* Two live processes never share a slot (spawn() refuses one whose slots are in
\* use, and an ended process's are free at once).
SlotsDisjoint ==
    \A i, j \in Entries :
        Alive(procs, i) /\ Alive(procs, j) /\ i # j =>
            Slots[procs[i].prog] \cap Slots[procs[j].prog] = {}

\* Every live process finds the floating state it last computed: in the FPU when FS
\* is on, else in the state saved for it (claim_fpu(), finish(), spawn()).
FpuIsolated ==
    halted = "no" =>
        \A i \in Entries : Alive(procs, i) =>
            want[i] = IF procs[i].fs = "Off" THEN saved[i] ELSE fpu

\* claim_fpu()'s check never fires: only the owner runs with FS on.
NoPanic == halted # "panic"

\* While a program runs, the page tables satp names, PMP, the DMA window and the
\* translations the hart holds give it its own slots, and the engines exactly if it
\* is flagged: protect()'s cached pid is never stale though entries, their page
\* tables and slots are used again.
RunningIsolated ==
    Running =>
        LET g == procs[current].prog
        IN  /\ leaves[hart.satp] = Regions(g)
            /\ hart.pmp = Regions(g)
            /\ hart.window = Slots[g]
            /\ tlb \subseteq Regions(g)

\* While a job owns the framebuffer only a program that drives the engines runs, so
\* no other's framebuffer store can fault (next_ready()).
EnginesOwnFramebuffer == Running /\ job # None => Flagged(procs, current)

\* A job runs only while a program that drives the engines lives, reaches no slots but
\* its owner's while the owner lives, and is one the kernel looks for, so that
\* SYS_PRESENT's store to the display cannot meet it (stop_orphaned_engines(),
\* protect(), engines_busy()).
JobAccounted ==
    halted = "no" /\ job # None =>
        /\ engines_used
        /\ \E i \in Entries : Alive(procs, i) /\ Flagged(procs, i)
        /\ \A i \in Entries : Alive(procs, i) /\ procs[i].pid = job.owner =>
              job.mem \subseteq Slots[procs[i].prog]

\* One writer at a time, and no readers while a file is written (may_open()), over
\* every open, close, exit and kill.
WriterExclusive ==
    \A i, j \in Entries : \A k, l \in Fds :
        /\ procs[i].state # "FREE" /\ procs[i].files[k].mode = "write"
        /\ procs[j].state # "FREE" /\ procs[j].files[l].file = procs[i].files[k].file
        => i = j /\ k = l

\* With no file open for writing, and once the machine has stopped by itself, the
\* directory on the disk is the one in memory, unless the last write of it failed
\* (close_file(), finish(), halt()).
DirectoryWrittenBack ==
    /\ ~lost
    /\ halted = "no" => \A i \in Entries : ~Writes(procs, i)
    /\ halted # "fault"
    => diskdir = dir

\* Round robin under preemption: with no engine in use a ready process runs, whatever
\* the others do.
ReadyRuns ==
    \A i \in Entries :
        procs[i].state = "READY" ~> (procs[i].state = "RUNNING" \/ halted # "no")

\* A sleeper's time comes and it is made ready, and a process blocked on the console
\* is woken while bytes wait, unless another process reads them first (wake_blocked()).
BlockedWakes ==
    \A i \in Entries :
        /\ procs[i].state = "BLOCKED_SLEEP" ~> (procs[i].state \in {"READY", "RUNNING"} \/ halted # "no")
        /\ procs[i].state = "BLOCKED_READ" /\ rx > 0
              ~> (procs[i].state # "BLOCKED_READ" \/ rx = 0 \/ halted # "no")

\* "The kernel runs with interrupts off and must never trap itself" (kernel.c:9): no
\* store of a handler is refused by the machine.
KernelNeverTraps == halted # "fault"

\* "so no process can be killed for another's engine work" (docs/rv32-os.md:701):
\* a process killed for a store that an engine's job refuses started that job.
NotKilledForAnother ==
    [][\A p \in Entries : EngineFault(p) => job.owner = procs[p].pid]_vars

\* "A free descriptor first, so a refused open never leaves a new, empty file
\* behind." (kernel.c:1236): an entry appears only for an open that succeeds.
RefusedOpenLeavesNothing ==
    [][\A f \in Files : dir[f] = None /\ dir'[f] # None =>
          \E i \in Entries, k \in Fds :
              procs'[i].files[k] = [mode |-> "write", file |-> f]]_vars

=============================================================================
