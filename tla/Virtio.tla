------------------------------- MODULE Virtio -------------------------------
(***************************************************************************)
(* The kernel's virtio-blk driver (programs/rv32/os/virtio.c) and the      *)
(* device behind it: the emulator's (tools/rv32emu_core.c), which serves a *)
(* request inside the notify, or QEMU's (external), which serves it later, *)
(* when it likes, or asks for a reset.                                     *)
(*                                                                         *)
(* A request moves one sector, a word at a time.  The rings' 16-bit        *)
(* indices count modulo Ring.  The descriptors of a request are always the *)
(* same three, so a request is its header and buffer.                      *)
(***************************************************************************)
EXTENDS Naturals

CONSTANTS
    SectorCount,  \* the device's sectors
    SectorWords,  \* the words of a sector (128)
    Contents,     \* what a word can hold
    Ring,         \* 2^16
    WaitLimit,    \* WAIT_LIMIT
    MaxCalls      \* bound: transfers asked for

ASSUME VirtioAssumption ==
    /\ Ring \in Nat /\ Ring > 1
    /\ SectorCount \in Nat /\ SectorCount > 0
    /\ SectorWords \in Nat
    /\ Contents # {}

VARIABLES
    backend,      \* "emulator" or "qemu"
    disk,         \* the device's sectors
    file,         \* the host's file behind them
    blk,          \* the device's registers
    taken,        \* the request QEMU is working on; its avail is Ring when there is none
    mem,          \* the driver's header, rings, buffer and status byte in RAM
    device,       \* whether the driver has a device
    seen,         \* the driver's copy of the used index
    call,         \* where the driver is in virtio_transfer()
    polls,
    answer,       \* what the last transfer returned
    asked,        \* history: transfers so far
    was           \* history: the disk at the last request

virtioVars == <<backend, disk, file, blk, taken, mem, device, seen, call, polls, answer, asked, was>>

Inc(i) == (i + 1) % Ring

\* A sector past the end, or a buffer that is not of whole words: the device refuses it.
NoSector == SectorCount

\* What a sector or a buffer holds.
Blocks == [1 .. SectorWords -> Contents]

\* The first n words of the block b over those of the block a.
Overlay(a, b, n) == [w \in 1 .. SectorWords |-> IF w <= n THEN b[w] ELSE a[w]]

Fresh == [ready |-> FALSE, driver_ok |-> FALSE, needs_reset |-> FALSE, last_avail |-> 0,
          used_idx |-> 0, interrupt |-> FALSE, write_error |-> FALSE]

\* virtio_init(): a reset, the queue set up, and the driver goes on.
InitDriver ==
    /\ call = "boot"
    /\ blk' = [blk EXCEPT !.ready = TRUE, !.driver_ok = TRUE, !.needs_reset = FALSE,
                          !.last_avail = 0, !.used_idx = 0, !.interrupt = FALSE]
    /\ device' = TRUE
    /\ seen' = 0
    /\ call' = "idle"
    /\ UNCHANGED <<backend, disk, file, taken, mem, polls, answer, asked, was>>

Return(result) == call' = "idle" /\ answer' = result /\ polls' = 0

\* virtio_transfer() up to the notify; reach is how many words of the buffer lie in RAM.
Transfer(sector, write, value, reach) ==
    /\ call = "idle" /\ asked < MaxCalls
    /\ asked' = asked + 1
    /\ IF ~device
       THEN Return("failed") /\ UNCHANGED <<mem, was>>
       ELSE /\ mem' = [mem EXCEPT !.write = write, !.sector = sector, !.buffer = value,
                                  !.reach = reach, !.status = "none", !.avail = Inc(@)]
            /\ call' = "notify"
            /\ answer' = "none"
            /\ was' = disk
            /\ UNCHANGED polls
    /\ UNCHANGED <<backend, disk, file, blk, taken, device, seen>>

\* The request the ring's newest entry names.
Request == [avail |-> mem.avail, write |-> mem.write, sector |-> mem.sector, buffer |-> mem.buffer]

\* Request r served up to word n, the last of its buffer in RAM: the words go to the disk
\* and, as far as the host lets them, to its file, or come to the buffer, which is no
\* longer the caller's when r is old.  A failed write to the file is remembered.  The
\* request is completed if all its words are moved; else a reset is needed.
Served(r, n, landed, stored) ==
    LET sound == r.sector # NoSector
        out == sound /\ r.write
        error == blk.write_error \/ (out /\ ~stored)
        buffer == IF ~sound \/ r.write \/ r.avail # mem.avail THEN mem.buffer
                  ELSE Overlay(mem.buffer, disk[r.sector], n)
    IN  /\ disk' = IF out THEN [disk EXCEPT ![r.sector] = Overlay(@, r.buffer, n)] ELSE disk
        /\ file' = IF out THEN [file EXCEPT ![r.sector] = Overlay(@, r.buffer, landed)] ELSE file
        /\ IF sound /\ n < SectorWords
           THEN /\ mem' = [mem EXCEPT !.buffer = buffer]
                /\ blk' = [blk EXCEPT !.needs_reset = TRUE, !.write_error = error]
           ELSE /\ mem' = [mem EXCEPT !.status = IF sound /\ ~error THEN "ok" ELSE "ioerr",
                                      !.buffer = buffer, !.used = Inc(blk.used_idx)]
                /\ blk' = [blk EXCEPT !.used_idx = Inc(@), !.last_avail = r.avail, !.interrupt = TRUE,
                                      !.write_error = error]

\* virtio_request() for the one request the ring holds.
virtio_request ==
    \E landed \in 0 .. mem.reach, stored \in BOOLEAN :
       (stored => landed = mem.reach) /\ Served(Request, mem.reach, landed, stored)

\* virtio_serve() on a notify; nothing is served when the ring has nothing new.
Notify ==
    /\ call = "notify"
    /\ call' = "poll"
    /\ IF /\ backend = "emulator"
          /\ blk.ready /\ blk.driver_ok /\ ~blk.needs_reset
          /\ mem.avail # blk.last_avail
       THEN virtio_request
       ELSE UNCHANGED <<disk, file, blk, mem>>
    /\ UNCHANGED <<backend, taken, device, seen, polls, answer, asked, was>>

\* QEMU takes the request of a notify at any later time and finishes it later still,
\* even one given up, or asks for a reset instead.
QemuTakes ==
    /\ backend = "qemu" /\ call \notin {"boot", "notify"} /\ mem.reach = SectorWords
    /\ ~blk.needs_reset /\ mem.avail # blk.last_avail /\ taken.avail = Ring
    /\ taken' = Request
    /\ UNCHANGED <<backend, disk, file, blk, mem, device, seen, call, polls, answer, asked, was>>

QemuServes ==
    /\ taken.avail # Ring /\ ~blk.needs_reset
    /\ Served(taken, SectorWords, SectorWords, TRUE)
    /\ taken' = [taken EXCEPT !.avail = Ring]
    /\ UNCHANGED <<backend, device, seen, call, polls, answer, asked, was>>

QemuStops ==
    /\ backend = "qemu" /\ call # "boot" /\ ~blk.needs_reset
    /\ blk' = [blk EXCEPT !.needs_reset = TRUE]
    /\ UNCHANGED <<backend, disk, file, taken, mem, device, seen, call, polls, answer, asked, was>>

\* Bug: a device that failed once is used again.
StillThere == TRUE

\* fail(): the driver is done with the device.
DeviceAfterFail == FALSE

\* One turn of the loop that waits for the used index to move.
Poll ==
    /\ call = "poll" /\ mem.used = seen
    /\ IF blk.needs_reset \/ polls = WaitLimit
       THEN /\ device' = DeviceAfterFail
            /\ Return("failed")
       ELSE /\ polls' = polls + 1
            /\ UNCHANGED <<device, call, answer>>
    /\ UNCHANGED <<backend, disk, file, blk, taken, mem, seen, asked, was>>

Complete ==
    /\ call = "poll" /\ mem.used # seen
    /\ seen' = Inc(seen)
    /\ blk' = [blk EXCEPT !.interrupt = FALSE]
    /\ Return(IF mem.status = "ok" THEN "ok" ELSE "failed")
    /\ UNCHANGED <<backend, disk, file, taken, mem, device, asked, was>>

VirtioInit ==
    /\ backend \in {"emulator", "qemu"}
    /\ disk = [s \in 0..SectorCount - 1 |-> CHOOSE b \in Blocks : TRUE]
    /\ file = disk
    /\ blk = Fresh
    /\ mem = [write |-> FALSE, sector |-> 0, buffer |-> disk[0], reach |-> SectorWords,
              status |-> "none", avail |-> 0, used |-> 0]
    /\ taken = [avail |-> Ring, write |-> FALSE, sector |-> 0, buffer |-> disk[0]]
    /\ device = FALSE
    /\ seen = 0
    /\ call = "boot"
    /\ polls = 0
    /\ answer = "none"
    /\ asked = 0
    /\ was = disk

DriverNext == InitDriver \/ Notify \/ Poll \/ Complete

VirtioNext ==
    \/ DriverNext
    \/ \E s \in 0..NoSector, v \in Blocks, reach \in 0..SectorWords :
          \E write \in BOOLEAN : Transfer(s, write, v, reach)
    \/ QemuTakes
    \/ QemuServes
    \/ QemuStops

-----------------------------------------------------------------------------

\* A transfer that returns 1 moved exactly the sector it was asked for: the caller's
\* buffer holds what the sector holds, and a sector written is in the host's file.  So
\* no completion is taken for another request's, after a time-out or over the wrap of
\* the rings' indices.  Whatever it returns, a read has changed no sector and a write
\* none but its own, and there only words of the buffer that lie in RAM, in order: a
\* write torn by the end of RAM leaves a prefix.  The host's file follows the disk,
\* torn writes included, until the host fails a write
\* (virtio_transfer(), virtio_request(), virtio_disk_written()).
TransferExact ==
    /\ answer = "ok" =>
          /\ mem.sector # NoSector
          /\ mem.buffer = disk[mem.sector]
          /\ mem.write => file[mem.sector] = mem.buffer
    /\ \/ disk = was
       \/ /\ mem.write /\ mem.sector # NoSector
          /\ disk = [was EXCEPT ![mem.sector] = Overlay(@, mem.buffer, mem.reach)]
    /\ ~blk.write_error => file = disk

=============================================================================
