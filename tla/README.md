# A verification project for Tiny Processors

Tiny Processors is a computer built from scratch: an RV32IMAF core and its devices in
Verilog (`rtl/`), a C emulator of the same machine with a debugger stub and a window
(`tools/`), and an operating system of one kernel file and a set of user programs
(`programs/rv32/`). This directory holds TLA+ models of these parts, the TLC runs that check
them on small instances, and TLAPS proofs of the most important results for every size.

Paths below are relative to the repository's root.

## The system's parts

The hart runs one user process at a time. Every trap (a system call, a fault, a timer or an
external interrupt) enters `trap_vector` (`kentry.S`), which saves the frame and calls
`kernel_trap` (`kernel.c`); the handler runs with interrupts off and ends in `schedule`,
whose choice `kernel_resume` resumes. Beside the hart, hardware advances by itself: time, the
input, console and disk devices, and the engines G1, G2 and SIMD-4. On the host, the emulator
runs the machine in slices between which a debugger or a window acts on it.

| Part | Source | Module |
| --- | --- | --- |
| processes, scheduler, system calls, lazy FPU switch, engines' gating, open files | `kernel.c`, `kentry.S`, `kfpu.S` | `Kernel` |
| key events from the device to a program | `rv32_input.v`, `rv32_plic.v`, `kernel.c` | `Input`, `EventFifo` |
| page tables, PMP registers, user pointers, `sbrk`, boot | `kernel.c` | `Paging` over `Sv32` |
| the page-table walk and PMP of the hart | `rv32emu_core.c` | `Sv32` |
| privilege modes, traps, interrupts, CSRs, LR/SC | `rv32emu_core.c` | `Hart` over `Sv32` |
| 64-bit time in 32-bit halves | `clint.h`, `rv32emu_core.c` | `Timer` |
| disk driver and device | `virtio.c`, `rv32emu_core.c` | `Virtio` |
| file system | `fs.c`, the file calls of `kernel.c` | `Tfs` |
| 2D engine, driver and reference | `rv32_gpu.c`, `gpu.c`, `gpu_ref.c` | `G1` |
| 3D engine, driver and reference | `rv32_g3d.c`, `g3d.c`, `g3d_ref.c` | `G2` |
| SIMD engine, driver, digit network | `rv32_simd4.c`, `simd4.c`, `digit_hw.c`, `digit_model.c` | `Simd` |
| console, line editor, shell | `rv32emu_core.c`, `line.c`, `sh.c` | `Console` |
| menu, Pong, Tetris, digit screen | `runtime.c`, `pong_game.c`, `tetris_game.c`, `digit_ui.c` | `Apps` |
| debugger stub | `rv32_gdb.c`, `rv32emu.c` | `Gdb` |
| window and record of a session | `rv32win.c` | `Window` |
| files of a run | `rv32emu.c`, `rv32win.c` | `Startup` |

`MCKernel`, `MCInput`, `MCMachine`, `MCBoard` and `MCHost` instantiate them for TLC; the
`*Proofs` modules hold the theorems. `PROJECT.json` lists every part with its sources, the
lines each definition models, and the hazards the code is exposed to with the properties that
would catch them.

Where the repository has a device twice, in Verilog and in the emulator, `Kernel` and `Input`
follow the Verilog and the other modules the emulator; the repository compares the two by
traces and frames.

## Kernel

`Kernel.tla` is the kernel and the machine around it.

**State.** `procs` is the process table: an entry has its state, pid, parent, program, the pid
it waits for, the ticks left to its wake time, its frame's FS field, its open files, and
`retry`, the call whose `ecall` runs again because the pc was not moved. `current`,
`next_pid`, `fpu_owner`, `engines_used`, `protected_pid` and `palette_writer` are the globals
of the same name. `saved` is `spaces[].fp`, and `space` and `leaves` are the layout an entry's
page tables were built for and the regions they map. `hart` is what `protect` writes (satp,
PMP, the DMA window) and `tlb` the regions whose translations the hart holds. `fpu`, `job`,
`palette` and `rx` are device state: the FPU's registers, the job an engine runs (its owner
and the slots it reaches), the colours and the console bytes waiting. `dir` and `diskdir` are
the directory in memory and on the disk (file to size, `None` if absent). Two variables are
history: `want`, the floating state each process last computed, and `lost`, whether the last
write of the directory failed. Neither is read by an action except to describe itself.

**Actions.** Since the kernel is never interrupted, each trap is one action: the handler and
the `schedule()` that ends it. A handler computes the table `ps` it leaves, and
`Schedule(ps, cur, used, j, bytes)` is `wake_blocked`, `next_ready` and `protect` in one.
`TimerInterrupt` lets a job end between the two looks the code takes at the engines; no
other handler looks twice. A call that can return without changing the modelled state is
`OtherCall`. The machine's own steps are `JobDone`, `ConsoleInput`, `TimePasses`, `Access`
(the hart fills its TLB) and `FloatWrite` (an F instruction makes FS Dirty).

**Abstractions.** Memory is a set of slots: `Slots[g]` is what program `g`'s load address and
span cover. Names, addresses, exit codes and positions are left out. A disk write of the
directory succeeds, or fails with the disk old or new (`FlushIf`). A store of the kernel into
slots a job holds may or may not meet the locked bytes (`StoreFaults`). `Calls` names what
the programs of an instance do: the union over the runs is everything, each run leaving out
what its properties do not see.

## Input

`Input.tla` models the path of a key event at the granularity of a clock: the device's queue
and KEYS word, the PLIC's pending and claimed bits for its source, the handler's accesses
(claim, one read of EVENT per round, complete) and the kernel's ring. The host may push an
event in any clock in which the device is not being read, so it comes between any two
accesses. `EventFifo.tla` is what the path promises: one queue, in order, an event given up
only when `KEY_BUFFER` events wait before it, and then noted. `Input!EventsInOrder` is its
specification under the mapping `waiting <- Buffered \o queue`.

## The machine: Sv32, Paging, Hart, Timer

`Sv32.tla` has no state: `translate` and `pmp_allows` are functions of satp, the status bits,
the PMP registers and the page table entries in RAM. Addresses count words, and a page and a
table have `Fan` of them, so that the walk has its two levels, superpages and malformed
entries in a space small enough to compare word by word.

`Paging.tla` is the kernel's use of it, one level below `Kernel`. `Boot` is `discover` and
`check_page_table_budget` over a set of device trees; `Spawn` checks a program's header
(`entry_ok`), finds an entry and builds its page tables in RAM entry by entry
(`map_process`, `lay_out`, `map`), reusing the tables of the entry's last process where
the code does; `protect` writes satp and the PMP registers with their TOR bounds; `Sbrk`,
`Finish`, `Reap` and `user_range` complete it. Which ready process runs next is any: the
scheduler is `Kernel`'s. `ReachExact` then asks the hart's own walk, for every word and kind
of access, what the running process reaches.

`Hart.tla` is the emulated hart without what instructions compute. An instruction is what it
does to the mode, the CSRs and the reservation: `Raise` and `take_interrupt` enter a handler
with delegation, `Mret`, `Sret`, `Wfi`, `SfenceVma` and the CSR writes have their checks
(`csr_allowed`, `supervisor_allows`), and `Touch`, `Amo`, `LoadReserved` and
`StoreConditional` go through `Sv32` with MPRV. Device lines change and devices write memory
between any two instructions. A guest program is the CSRs, bits and addresses an instance
lets it use; within these every order of instructions is explored.

`Timer.tla` interleaves `clint_mtime` (three reads, repeated) and `clint_set_mtimecmp` (three
stores) with a clock that ticks between any two accesses; a half counts `Half` values.

## The board: Virtio, Tfs, G1, G2, Simd, Console, Apps

`Virtio.tla` is `virtio_transfer` access by access against either the emulator's device,
which serves a request inside the notify, word by word, and may fail to write its host file,
or QEMU's, which takes and serves a request at any later time or asks for a reset (marked
external). A request is one sector of `SectorWords` words, and `reach` is how many words of
its buffer lie in RAM: a request whose buffer leaves RAM is torn, its first words moved (and
written to the file) before the device asks for a reset. A write that the host refuses may
have reached the file in part. After a failure the driver gives the device up; a late
completion still lands in memory.

`Tfs.tla` is `fs.c` sector by sector: `fs_mount` (which sets inconsistent entries
aside), `OpenOld`, `OpenNew`, `WriteSector` (read, overlay, write, then the size), `ReadSectors` (the
direct and the buffered path), `fs_flush`, and `close_file`, `seek_file` and `Halt` of the
kernel. Any transfer may fail, a failed write having reached the disk or not, and `Restart`
stops the machine between any two transfers. Who may open beside whom is `Kernel`'s; here a
name has one descriptor.

`G1.tla` runs the engine tick by tick (`gpu_tick`) while the driver submits, polls, times out
and resets, the CPU stores to the framebuffer and to RAM under the bus rules, and the kernel
sets the DMA window. `gpu_reference` is the software rasteriser, translated separately.
`G2.tla` does the same for the 3D engine, whose depth buffer lies in the DMA window, elsewhere
in RAM (which only the device refuses) or outside: `execute` is the shader's control flow under its
mask stack, `g3d_reference` the reference run in one go, and `Alone` one vertex by itself.
What a triangle covers, and how deep, is the constant `Raster`. `Simd.tla` executes the two
kernels `digit_hw.c` loads (built as in `programs/simd4/dense4.py`) instruction by
instruction at a width of `Bits`, under the driver's launches and polls, while another user
may run the engine between two inferences; `digit_infer_cpu` is the network on the CPU.

`Console.tla` goes from stdin to the shell: the emulator polls stdin in chunks, or has a file that
`--console-prompt` releases line by line as prompts appear (`con.gated`), the 16550 gives one byte per read, the line editor
takes it key by key, and the shell parses the line, starts jobs, waits and halts, while
background jobs write. `Apps.tla` is the menu's loop: each step takes the events of one
present, updates the screen's application and draws what changed on a surface of `ScreenW` by
`ScreenH` pixels; `keyboard` is the keys down. The initial menu selection
is any one, all being reachable with the arrow keys.

## The host: Gdb, Window, Startup

`Gdb.tla` is `gdb_serve` and `emu_run_until` one guest instruction at a time, so that the
client's packets, good or damaged, its Ctrl-C and its hang-up fall between any two. What is
left of the instruction limit stands for step counts. `Window.tla` is `rv32win`'s loop: pump
host events, run a slice, and at each present queue what was pumped, deliver the script's
events and record. `Startup.tla` is `main` of both front ends up to the run and the state
file after it, over names with canonical spellings, inodes and links, on volumes that may take
two spellings for one file, as those that ignore case do; the role `input` stands
for the script and for the console's input file. `rv32emu` lists the disk among the inputs
only, while `rv32win` compares it as an output too; `Outputs` follows each.

## Runs

| Run | Properties | What it shows |
| --- | --- | --- |
| `processes` | `EndsSettled`, `SlotsDisjoint`, `RunningIsolated`, `EnginesOwnFramebuffer`, `JobAccounted` | starts, waits, ends, faults and engine jobs in every order: no waiter without a child, no zombie without a parent, no shared slot or stale translation, no job in another's memory |
| `fpu` | `FpuIsolated`, `NoPanic` | the lazy switch over preemption, ends and reuse of entries |
| `files` | `WriterExclusive`, `DirectoryWrittenBack` | opens, writes and ends over a disk that may fail |
| `live` | `ReadyRuns`, `BlockedWakes` | liveness of the scheduler |
| `events` | `KeysAgree`, `EventsInOrder`, `EventsServed` | the input path, its refinement of a queue and its liveness |
| `machine` | `MprvOnlyInMachine`, `SupervisorConfined`, `ReservationSound`, `LockedRegionFixed` | the hart under any order of privileged instructions, traps, interrupts and device writes |
| | `ReachExact`, `UserMemoryBounded`, `BudgetSound` | a process reaches exactly its memory, whatever ran in its entry before; a pointer the kernel accepts lies in it; page tables never run out |
| | `TimerExact` | no time that never was is read, no interrupt comes due early |
| | `ShadedExactly`, `InferenceExact` | G2 and SIMD-4 agree with their references over time-outs, resets and other users |
| `board` | `TransferExact` | a completed transfer is the one asked for, over late completions and wrapping indices; a torn write leaves a prefix, and the host's file follows the disk |
| | `FilesKept`, `ReadsBack` | closed files survive faults and restarts; programs read what they wrote |
| | `DrawnExactly`, `SessionExact` | G1 draws what the reference draws, overlapping blits included; the shell gets every typed line once, edited as an unbounded editor would |
| | `ScreenFresh`, `HeldKeysWait`, `TetrisSound` | drawing by difference never shows, a held key does not leak into the next screen, Tetris keeps its blocks |
| `host` | `SameRun`, `BreakpointsHonoured`, `RequestAnswered`, `InterruptStops` | a debugger only watches; it stops where and when it asked to |
| | `RecordReplays`, `KeysFollowHost`, `PassIsEarned` | a recorded session replays event for event; a run passes only if its script was delivered |
| | `NothingOverwritten` | no output truncates an input; outputs meet in one file only where the volume takes their names for one, and then only the state file can truncate another |
| `traps`, `killed`, `refused`, `early` | one each, violated | what the sources say and the code does not do (below) |

`machine`, `board` and `host` each hold several modules that share no state: a behaviour
chooses one and runs it alone, so a run is the sum of its parts and not their product. The
interactions that matter are inside the modules (a driver and its device, a program and the
kernel, a client and the stub).

**Bounds.** *Kernel*: three table entries are enough for a parent, a child and a third process
that takes part or takes over an entry; `MaxPid` of 4 or 5 lets every entry be used again.
Four programs give one overlap of slots, or two that drive the engines. Two files, one of them
a program, and two descriptors give two writers, a reader beside a writer and a program being
written. Sizes, sleeps and bytes are 0 or 1 where only "some" matters. Two floating values
tell a lost update. `MaxPid` is a guard of `Spawn`: the wrap of the 32-bit pid is not
modelled. *Input*: two events in the device and two in the ring fill both and wrap the ring.
*Paging*: `Fan` = 8 gives 512 words, two levels, superpages and slots that straddle tables;
two entries and three pids reuse an entry for a program of another shape; the probes lie on
both sides of every boundary and of the wrap. *Hart*: each guest program
uses the CSRs one question needs; eight PMP entries are two configuration registers. *Timer*:
`Half` = 4 and 15 times let the low half carry three times. *Virtio*: four transfers wrap rings of
three; sectors of two words are torn before, between and after them. *Tfs*: four changes and two faults cover a create, a write over a sector boundary, a
failed write-back and a restart. *G1*: fifteen commands on a 3 by 3 screen cross each edge and
overlap in both directions, or are refused. *G2*: two lanes that part, and a program for each fault. *Simd*: two
groups, two chunks, three classes (one lane padded), three inferences. *Console*: five inputs
chosen for both line ends, escape sequences, a full line, more jobs than places and a typed
prompt. *Apps*: five key events of a hand of three keys, up to six blocks on a 2 by 4 board.
*Gdb*: a loop of two instructions, two breakpoints, a limit that ends the run and one that
does not. *Window*: a queue of two, three host events, two frames, two host keys with one code.
*Startup*: every combination of names over two files, a hard link, two symbolic links, a
frames directory and two spellings that the volume takes for one.

**Deadlock** is checked in every run but `machine` and `board`, whose parts end when their
bounds (calls, jobs, events, time) are used up.

**Fairness.** `Kernel!Fairness` is weak fairness of the timer interrupt (`kernel_trap` sets
the timer again each time), of time and of the engines, which are hardware. Nothing is
assumed of programs. `ReadyRuns` is checked with no flagged program: one that always has a
job running starves the others, as `docs/rv32-doom.md` says. `Input!Fairness` is weak fairness
of the clock, of taking a pending interrupt in user mode and of the handler's accesses; none is
assumed of the host or of programs. `Gdb!GdbFairness` is weak fairness of the stub's process
and of the client's reading of what it was sent; the client need not ask, interrupt or close.

## Disagreements between the sources and the code

* `traps`: `kernel.c:9` says the kernel "must never trap itself", and `docs/rv32-os.md` that
  "the kernel's own store cannot fault". A CPU write into the blit source or the depth
  buffer of a running job faults (`rv32_soc.v`, `ram_store` in `rv32emu_core.c`). A program
  that starts a job and then calls, say, `SYS_READ` with a buffer there makes the kernel
  store fault, and `kernel_fault` stops the machine. `present` waits for the engines; the
  calls that copy out do not.
* `killed`: `docs/rv32-os.md` says "no process can be killed for another's engine work".
  `next_ready` lets any flagged program run while an engine is busy, and there are two.
* `refused`: `kernel.c` says "a refused open never leaves a new, empty file behind".
  `fs_open` fills the entry before it writes the directory, and does not take it back when
  the write fails.
* `early`: `clint.h:24` says "Low word to all ones first, so no intermediate value lies below
  the target." When the old time's high half is below the new one's, the old high half with
  a low half of all ones is below the target. No interrupt is early for it: what is below
  the target is not below the old time, which `TimerExact` states.

## Proofs

The theorems hold for every value of the constants that satisfies the named assumptions.

`KernelProofs.tla` proves `TypeInvariant` and `TypeCorrect` (`Spec => []TypeOK`) from
`KernelAssumption` (a nonempty table, a shell that is not flagged and not on the disk,
programs with at least one slot; the bounds are arbitrary naturals). `TypeOK` is not
inductive: that the program of a process has slots, and that the running process has an
entry, needs `TypeInv`, which adds that every live entry has a program (`Table`) and that
`current` is in state RUNNING (`CurrentRuns`).

The argument follows the code. A handler leaves a table `ps`, and `Schedule` turns it into
`procs'` changing states only: blocked to READY, READY to RUNNING (`Rescheduled`).
`ScheduleTable` proves that once; `ScheduledStep` and `ReturnStep` carry `TypeInv` from `ps`
to the next state. Each action then has a lemma about the table it leaves. `Kept(ps, qs, W,
F)` states what most calls preserve (who is alive, with what pid, program and FS, who waits,
what is open), and `QuietKeeps` proves it for every step but an end, a spawn and the two FPU
steps, so that a later invariant has only those to look at.

The same module proves `FpuIsolation` (`Spec => []FpuIsolated`) and `ClaimNeverPanics`
(`Spec => []NoPanic`). `FpuIsolated` says where a process's floating state is; it is not
inductive, since nothing in it makes the saved copy of a Clean owner current or says that
only one process has FS on. `FpuInv` adds both: a process with FS on is the owner, and if its
FS is Clean its saved copy is what it last computed.

The module proves `SlotsStayDisjoint` (`Spec => []SlotsDisjoint`), from the fact
that only `Spawn` starts a process (`OnlySpawnStarts`), and `RunningStaysIsolated`
(`Spec => []RunningIsolated`). The latter is not inductive, because `protect` does nothing for
the pid it was last called for: that process may have stopped running, or ended, and its
entry may have been mapped for another. `SpaceInv` says what makes the skip right: live pids
differ and are below `next_pid`, as is `protected_pid`; if the process of `protected_pid`
lives, the hart is set up for its entry, running or not; the running process has that pid;
and an entry's leaves are those of the program it was last mapped for. The pid bound
`MaxPid` matters here: after a wrap of the 32-bit counter the argument does not hold.

It proves `WriterStaysExclusive` (`Spec => []WriterExclusive`). The
property is not inductive, because creating a file does not ask `may_open`: nothing in it
says that the file which is not in the directory is not open. `FilesInv` adds that every
open file is listed. Every step but the two kinds of open closes files at most
(`OnlyOpenOpens`) and takes none out of the directory (`DirectoryGrows`).

It also proves `DirectoryStaysWrittenBack` (`Spec => []DirectoryWrittenBack`). A machine that
stops writes the directory back if an entry in use has a file open for writing, so `DirInv`
adds to the property that whoever has one is alive; every step that makes the two directories
differ leaves such a writer or records the failed write.

It proves `EnginesStayAlone` (`Spec => []EnginesOwnFramebuffer`) and
`JobStaysAccounted` (`Spec => []JobAccounted`). The kernel asks the engines only while
`engines_used` is set, so `EngineInv` adds that it is set whenever a flagged program runs,
and that a job's owner has a pid below `next_pid`: otherwise a process started later could
take the owner's pid with other slots.

It proves `EndsStaySettled` (`Spec => []EndsSettled`). `finish` looks for
the parent while the process that ends is still alive; if it could find the process itself it
would leave a zombie nobody reaps. `EndsInv` therefore adds that no live process is its own
parent, which a spawn keeps because the new pid is above every live one (`SpaceInv`). With
these, every safety invariant of `Kernel` that a passing run checks is proved.

`MachineProofs.tla` proves the hart's four properties for any guest programs, page tables,
device windows and number of PMP entries. `MprvOnlyInMachine` becomes inductive as `ModeInv`,
which adds the types of the mode and of MPP: MRET leaves machine mode only by clearing MPRV,
and below it only the supervisor's view of the register is written.
`SupervisorStaysConfined` looks at each action below machine mode. `ReservationStaysSound`
needs `ReservationInv`, that a held reservation is the word of the last LR.W with nothing
since that ends it; `LockedRegionStaysFixed` needs `RegionInv`, that every PMP entry has its
two registers, and the rule that a locked TOR entry also locks the address below it.

The same module proves `TimerStaysExact` for halves of any width. `TimerInv` adds to
`TimerExact` what each intermediate access has established (`ReadInv`: the high half
read is no later than the time the low half was read at, which is after the call; `SetInv`:
`mtimecmp` is not below the old time until the new high half is in it, and not below the new
one from then on); `ScaledOrder` and `Placed` are the arithmetic of a number and its halves, on which the
steps rest.

It proves that the input path implements `EventFifo` (`EventsStayInOrder`, step by
step: a push appends, `SYS_EVENT` takes the head, a full ring drops an event behind
`KEY_BUFFER` others, and every other step stutters) for queues of any size
(`InputAssumption`: both hold at least one event), and `KeysAlwaysAgree`. The mapped queue is
the ring, read from `key_head` on with wrap-around, followed by the device's queue; the
inductive invariant says that the slots in use hold events and that the keys a program has
seen, after the events still waiting, are those of KEYS, unless one was dropped.

`TfsProofs.tla` proves `TransfersAreExact` of the disk, for rings of any size above
one (`VirtioAssumption`; the real ones have 2^16 indices), sectors of any number of words,
buffers that leave RAM anywhere, either device, and completions that come late or never.
`VirtioInv` keeps the indices together: at most one request is between the
driver's available index and the device's, it is the one in memory, the used index is the
device's, and a driver that still has its device has no request under way between two
transfers. So an index that moved, over the wrap too, is this request's completion. A request
not served has changed nothing unless a reset is needed, when a write may have left a prefix
(`OnlyAsked`); the file differs from the disk only after a write the host refused.

The same module proves `FilesAreKept` and `FilesReadBack` of the file system for any disk, any
sector and directory size, any names and any texts (`TfsAssumption`). What is assumed of a disk
is what `tools/rv32_mkfs.py` makes: the entries in use share no sector. Nothing is
assumed of entries that `fs_mount` sets aside. `TfsInv` says that this stays so of the
directory on the disk and of the one in memory (`Apart`: a new file is placed after every
entry in use, entries set aside being skipped), that an entry in use on the disk is in use in memory at the same
place, that a file which somebody writes is not promised to be kept, and of the call under way
that what was transferred so far is what the file's sectors hold. A sector written then
changes the view of one file only (`OthersKept`), and that of the file written by the piece at
its position (`FileWritten`), whether the sector was read first or wholly overwritten.

`PagingProofs.tla` proves the three properties of the address spaces for every number of pages,
tables, entries and slots, every set of programs and every set of device trees.
`PagingAssumption` is the layout of `sys.h` (slots and the guard are whole pages, `brk` is
rounded to a divisor of a page, the slots end below 2^32) and the width of headers and arguments,
which are unsigned words; nothing is assumed of the values in a header, which `entry_ok` checks.
`TreesAssumption` is the memory map of `docs/rv32-platform.md` and `board.h`: tables and slots are
in RAM, a tree's framebuffer and windows are inside the space and outside RAM, and the framebuffer
shares no page with the region the accelerators span (0x12000000 and from 0x11004000 on). The
last is needed because `protect` opens the whole region to a program that drives the engines
and leaves it to the page tables to keep it to the windows: in a page mapped for the
framebuffer they would not. The number of PMP entries is the eight that `protect` writes.

* `UserMemoryIsBounded` rests on `PagingInv`: a live entry has the layout its header was checked
  for (`LaidOut`: whole slots below the end, a guard page inside, `brk` between them), kept by
  `SYS_SBRK` whose rounding never crosses a multiple of a page (`RoundedUp`). That `user_range`
  accepts exactly the ranges of the program's own words, with sums that wrap, is `RangeIsOwn`.
* `BudgetIsSound` is about what is in RAM. `Good(e, R, a)` says that an entry's tables make sense:
  a root whose entries are pointers to the tables taken so far, in distinct pages, one for each
  region used, all regions among `R`. Writing one leaf keeps it and changes one page's view
  (`MapPage`, `map`, `MapWindows`, `lay_out` in turn, each by induction over pages or windows);
  with `R` the regions the boot counted there is always a table left (`check_page_table_budget`).
  The invariant `TablesInv` says that an entry's tables are `Good` and show the layout
  `spaces[e]` and nothing else: `map_process` clears the last process's leaves by
  laying its layout out with no rights, which works only because that layout is still the one
  the tables show. Tables are never given back, so the count does not depend on what ran before.
* `ReachIsExact` combines `TablesInv` with `HartInv`: live pids differ and are below `next_pid`;
  if the process `protect` last set the hart up for lives, satp and the PMP registers
  are its own; the running process is that one. Given these, `translate` finds in two
  levels the leaf of the layout (`TableView`), and `pmp_allows` over the eight entries, whose TOR bounds
  are in order, grants the rights the kernel wrote; the two together are `Granted`.

`AppsProofs.tla` proves the properties of the menu and its games for every board, surface, key set
and order of events. `TetrisAssumption` says that a shape has blocks in four turns, within four
rows (`SHAPES`), and that bags are not empty. `ScreenAssumption` says that Pong is wide enough for
neither the net nor a score to stand in a paddle's column (`pong_game.h`: paddles at 8 and 308 of
320 columns, scores from 116 on and from 176 on, the net at 158).

* `HeldKeysDoWait`: `Calm` adds to the property that a key down when the screen changed is blocked
  until its release; a change of screen blocks every key, and `runtime_frame` passes on only keys
  that are not blocked.
* `TetrisIsSound`: `Sound` adds the ranges of piece, turn and position. The argument is about
  `lock_piece`: `dest` takes the surviving rows one to one onto the lowest rows, so that blocks are
  neither lost nor copied, and the free rows above are those cleared. It rests on lemmas about the
  sizes of sets of rows and cells. `ClearsAtMostFour` states the comment of the code on which
  the index into `points` rests: a full row after a lock has a block of the piece.
* `ScreenIsFresh`: the pictures are defined in closed form, pixel by pixel, for each screen.
  `Fresh` says that the surface shows the picture of what each application remembers having drawn, or the
  application is marked to be drawn in full; `Ready` is the weaker form between an event and
  the next frame, when the digit screen lacks what the brush painted and, under a pause, Pong has an
  overlay. Every event and frame keeps what was remembered or marks it, drawing by difference
  takes one picture to the other (in Pong: what moved is erased, then net and scores are restored
  where it stood), and a full drawing gives the same picture.

`WindowProofs.tla` proves `RecordsReplay`, `KeysAlwaysFollow` and `PassesAreEarned` for every
keyboard, every script that `emu_read_input_script` accepts (frames in order:
`WindowAssumption`), every queue size and every order of presses, presents and reads. The
replay is defined by recursion over the frames; `ReplayInv` is the existence of a replay of
the frames so far that ends in the device's state, which each present extends by one frame.
What makes it work is that the events of a frame are recorded in the order they were
offered to the device, dropped ones included, first the script's, then the host's. For
the keys, `HeldInv` adds that `held` counts the host keys down of each code.

`HostProofs.tla` proves `NothingIsOverwritten` for every command line, every set of files and
links, and every volume. `StartupAssumption` says what a name resolves to: a file that does not
exist yet is not one that exists. Nothing is assumed of names that are spelled differently:
two of them may make one file. `StartInv` says that each file written is where an output of
its own landed, that output being no link and compared with every other name, and that the
file is this run's if it was not there before. So outputs meet only in a file that the run
makes under two canonical spellings, and once `emu_require_distinct_streams` has compared the
open streams (`StreamsApart`), only if one of them is the state file. That one is opened
after the run and compared with no stream: on a volume that ignores case, `--record new
--state NEW` passes every comparison, and the state file replaces the record. The module proves
`BreakpointsAreHonoured` and `RunIsTheSame` of the debugger for every guest, limit and client
(`GdbAssumption`: the poll interval is positive, a limit is a natural or absent). `TableInv`
says that the stub's table and the set the client believes in are the same, each breakpoint
once, over removals that move the last entry; `ResumeInv` that with breakpoints set a run is
one instruction long. `PlaceInv` says that the machine is where the plain run is after as many
instructions; the plain run is a recursive function.

**Induction.** The library's induction theorems take an operator, which the installed provers
cannot instantiate. `Induction.tla` derives what is needed from the well-foundedness of the
naturals in terms of sets: a set that holds 0 and is closed under successor holds
every natural (`InductiveSet`), a nonempty set has a least element (`LeastNat`), and a step
given as a function has a run (`Iterate`), so that a recursive function has its defining
equation.

**Only model-checked**: the liveness properties (`ReadyRuns`, `BlockedWakes`, `EventsServed`,
`RequestAnswered`, `InterruptStops`), which rest on fairness and are out of the prover's reach;
`ShadedExactly`, `DrawnExactly` and `SessionExact`, whose references are recursive
operators; and `InferenceExact`, which compares two computations over data. Every other
invariant and action property that a passing run checks is proved.

## Not modelled

* What instructions compute: the ALU, multiplication, the FPU and the decoder, in Verilog and
  in the emulator. These are functions of 32-bit data; the repository checks them against
  QEMU, SoftFloat and riscv-tests.
* The Verilog of the engines, of virtio-blk, of the console, of the CLINT and of the RAM port's
  arbitration, where the emulator's device is modelled instead.
* G2's fixed-point projection, interpolation and division, the fonts, colours and layout
  of the programs, and the 2D demo's picture: data with no control of its own.
* The device tree's byte format (`fdt.c`), ELF files, number parsing, traces, checkpoints
  and frame files of the emulator: sequential conversions; `Paging` starts from the tree found.
* The check programs and benchmarks, which are tests; `tools/*.py`, which build and compare;
  Doom, Lua and Linux, which are third-party; SAP8, a sequencer without partners.
* Wraps of the pid and of 64-bit time, which no run of the machine reaches.
