-------------------------------- MODULE Tfs --------------------------------
(***************************************************************************)
(* The kernel's file system (programs/rv32/os/fs.c) under its file calls   *)
(* (kernel.c), over a disk whose transfers move one sector each or fail    *)
(* (module Virtio): a failed write has or has not reached the disk, and    *)
(* the driver may be done with the device for good.  The machine may stop  *)
(* between any two transfers and boot again from the disk.                 *)
(*                                                                         *)
(* Who may open a file beside whom is module Kernel's; a name has at most  *)
(* one descriptor here.  The disk's data is one function from byte address *)
(* to byte.                                                                *)
(***************************************************************************)
EXTENDS Integers, Sequences, FiniteSetsExt

CONSTANTS
    Names,        \* the names programs use
    DirSize,      \* ENTRIES
    Data,         \* DATA: the first data sector
    DiskSectors,  \* sectors of the file system
    Sector,       \* bytes in a sector
    FileSectors,  \* FS_CAPACITY
    Formats,      \* the directories a disk may come with
    Texts,        \* what programs write
    MaxChanges,   \* bound: opens, writes and seeks
    MaxFaults     \* bound: failed transfers, and boots

VARIABLES
    directory,    \* the directory sector in memory
    mounted,
    ondisk,       \* the directory sector on the disk
    bytes,        \* the data sectors on the disk
    alive,        \* whether the driver still has its device
    files,        \* the descriptor of each name
    op,           \* the read or write in progress
    changes, faults,
    original,     \* history: the directory the disk came with
    text,         \* history: what each file holds for the programs
    kept          \* history: what each file holds whatever happens next

tfsVars == <<directory, mounted, ondisk, bytes, alive, files, op, changes, faults, original,
             text, kept>>

FreeSlot == [name |-> "", first |-> 0, capacity |-> 0, size |-> 0]
ClosedFile == [mode |-> "none", file |-> 0, position |-> 0]
NoOp == [kind |-> "none", name |-> "", from |-> <<>>, done |-> 0, aligned |-> FALSE]

\* What fs_mount() sets aside.
Corrupt(e) ==
    /\ e.name # ""
    /\ \/ e.first < Data \/ e.capacity > DiskSectors \/ e.first > DiskSectors - e.capacity
       \/ e.size > e.capacity * Sector

in_use(dir) == {i \in 1..DirSize : dir[i].name # "" /\ ~Corrupt(dir[i])}
FilesNamed(dir, n) == {i \in in_use(dir) : dir[i].name = n}

\* A disk comes from rv32_mkfs.py, or from an earlier boot: the entries in use share no
\* sector.  Nothing is said of the entries that fs_mount() sets aside.
ASSUME TfsAssumption ==
    /\ {DirSize, Data, DiskSectors, Sector, FileSectors} \subseteq Nat /\ Sector > 0
    /\ "" \notin Names
    /\ Texts \subseteq Seq(Nat)
    /\ Formats \subseteq [1..DirSize -> [name : Names \cup {""}, first : Nat, capacity : Nat, size : Nat]]
    /\ \A dir \in Formats : \A i, j \in in_use(dir) :
          \/ i = j
          \/ dir[i].first + dir[i].capacity <= dir[j].first
          \/ dir[j].first + dir[j].capacity <= dir[i].first

\* What a file holds, or that there is none; Unsure is what a fault left open.
NoFile == [known |-> TRUE, exists |-> FALSE, bytes |-> <<>>]
Unsure == [known |-> FALSE, exists |-> TRUE, bytes |-> <<>>]
Holds(s) == [known |-> TRUE, exists |-> TRUE, bytes |-> s]
View(dir, n) ==
    IF FilesNamed(dir, n) = {} THEN NoFile
    ELSE LET e == dir[Min(FilesNamed(dir, n))] IN
         Holds([k \in 1..e.size |-> bytes[e.first * Sector + k - 1]])

\* A transfer fails: `spent` when the driver gives the device up.
FaultAt(spent) ==
    /\ alive => faults < MaxFaults
    /\ faults' = IF alive THEN faults + 1 ELSE faults
    /\ alive' = (alive /\ ~spent)

TransferOk == alive /\ UNCHANGED <<alive, faults>>
Budgeted == changes < MaxChanges /\ changes' = changes + 1
Ready == mounted = "yes" /\ op.kind = "none"

fs_mount ==
    /\ mounted = "boot"
    /\ \/ /\ TransferOk
          /\ directory' = ondisk
          /\ mounted' = "yes"
          /\ text' = [n \in Names |-> View(ondisk, n)]
          /\ kept' = text'
       \/ /\ \E spent \in BOOLEAN : FaultAt(spent)
          /\ mounted' = "no"
          /\ UNCHANGED <<directory, text, kept>>
    /\ UNCHANGED <<ondisk, bytes, files, op, changes, original>>

\* fs_flush(): the directory sector as a whole.  Afterwards every file no one is writing
\* is as safe as it is visible.
fs_flush(dir, visible, writing) ==
    \/ /\ TransferOk
       /\ ondisk' = dir
       /\ kept' = [n \in Names |-> IF n \in writing THEN Unsure ELSE visible[n]]
    \/ /\ \E spent \in BOOLEAN : FaultAt(spent)
       /\ ondisk' \in IF alive THEN {ondisk, dir} ELSE {ondisk}
       /\ kept' = [n \in Names |-> IF kept[n] = visible[n] /\ n \notin writing THEN kept[n] ELSE Unsure]

Writing == {n \in Names : files[n].mode = "write"}

\* Bug: a new file starts where the last entry's does.
NextFreeTooLow == Max({Data} \cup {directory[i].first : i \in in_use(directory)})

\* Where fs_open() places a new file.
NextFree == Max({Data} \cup {directory[i].first + directory[i].capacity : i \in in_use(directory)})

FreeSlots == {i \in 1..DirSize : directory[i].name = ""}

\* SYS_OPEN of a file that exists: fs_open(), and fs_truncate() in memory for a writer.
OpenOld(n, mode) ==
    /\ Ready /\ files[n].mode = "none" /\ FilesNamed(directory, n) # {} /\ Budgeted
    /\ LET i == Min(FilesNamed(directory, n)) IN
       /\ files' = [files EXCEPT ![n] = [mode |-> mode, file |-> i, position |-> 0]]
       /\ directory' = IF mode = "write" THEN [directory EXCEPT ![i].size = 0] ELSE directory
    /\ text' = IF mode = "write" THEN [text EXCEPT ![n] = Holds(<<>>)] ELSE text
    /\ kept' = IF mode = "write" THEN [kept EXCEPT ![n] = Unsure] ELSE kept
    /\ UNCHANGED <<mounted, ondisk, bytes, alive, op, faults, original>>

\* SYS_OPEN with O_CREATE of one that does not: a new entry, on the disk at once.  When
\* that fails the open does, and the entry stays in memory.
OpenNew(n) ==
    /\ Ready /\ files[n].mode = "none" /\ FilesNamed(directory, n) = {} /\ Budgeted
    /\ FreeSlots # {} /\ NextFree + FileSectors <= DiskSectors
    /\ LET i == Min(FreeSlots)
           e == [name |-> n, first |-> NextFree, capacity |-> FileSectors, size |-> 0] IN
       /\ directory' = [directory EXCEPT ![i] = e]
       /\ text' = [text EXCEPT ![n] = Holds(<<>>)]
       /\ fs_flush(directory', text', Writing \cup {n})
       /\ files' = IF ondisk' = directory' /\ alive /\ faults' = faults
                   THEN [files EXCEPT ![n] = [mode |-> "write", file |-> i, position |-> 0]]
                   ELSE files
    /\ UNCHANGED <<mounted, bytes, op, original>>

\* SYS_WRITE and SYS_READ up to the loops of fs_write() and fs_read().
StartCall(n, mode, from, aligned) ==
    /\ Ready /\ files[n].mode = mode /\ Budgeted
    /\ op' = [kind |-> mode, name |-> n, from |-> from, done |-> 0, aligned |-> aligned]
    /\ UNCHANGED <<directory, mounted, ondisk, bytes, alive, files, faults, original, text, kept>>

Entry == directory[files[op.name].file]
At == files[op.name].position + op.done
Limit == Entry.capacity * Sector
Min2(a, b) == IF a < b THEN a ELSE b

\* What one turn of fs_write()'s loop adds: to the end of the sector, of the file's
\* capacity or of the request.
Piece == Min2(Len(op.from) - op.done, Min2(Limit - At, Sector - (At % Sector)))
MoreToWrite == op.kind = "write" /\ op.done < Len(op.from) /\ At < Limit

Overlaid(old, at, piece) ==
    [k \in DOMAIN old |-> IF k \in at..at + Len(piece) - 1 THEN piece[k - at + 1] ELSE old[k]]
Patched(s, at, piece) ==
    [k \in 1..(IF at + Len(piece) > Len(s) THEN at + Len(piece) ELSE Len(s)) |->
        IF k > at /\ k <= at + Len(piece) THEN piece[k - at] ELSE s[k]]

\* Bug: the sector is not read first, so the bytes around the piece are the buffer's.
SectorUnread(piece) ==
    LET start == Entry.first * Sector + At - (At % Sector)
        blank == [k \in DOMAIN bytes |-> IF k \in start..start + Sector - 1 THEN 0 ELSE bytes[k]]
    IN  Overlaid(blank, Entry.first * Sector + At, piece)

\* The sector read, changed and written back.
SectorWritten(piece) == Overlaid(bytes, Entry.first * Sector + At, piece)

\* One turn of fs_write(): the size counts a piece once its sector is on the disk.
WriteSector ==
    /\ MoreToWrite
    /\ LET piece == SubSeq(op.from, op.done + 1, op.done + Piece) IN
       \/ /\ TransferOk
          /\ bytes' = SectorWritten(piece)
          /\ op' = [op EXCEPT !.done = @ + Piece]
          /\ directory' = [directory EXCEPT ![files[op.name].file].size =
                              IF At + Piece > @ THEN At + Piece ELSE @]
          /\ text' = IF text[op.name].known
                     THEN [text EXCEPT ![op.name] = Holds(Patched(@.bytes, At, piece))]
                     ELSE text
       \/ /\ \E spent \in BOOLEAN : FaultAt(spent)
          /\ bytes' \in IF alive THEN {bytes, SectorWritten(piece)} ELSE {bytes}
          /\ op' = NoOp
          /\ text' = IF alive /\ At < Entry.size THEN [text EXCEPT ![op.name] = Unsure] ELSE text
          /\ UNCHANGED directory
    /\ UNCHANGED <<mounted, ondisk, files, changes, original, kept>>

\* direct_sectors(): the whole sectors that go straight to the caller's aligned buffer.
direct_sectors ==
    IF At % Sector # 0 \/ ~op.aligned THEN 0
    ELSE Min2((Entry.size - At) \div Sector, (Len(op.from) - op.done) \div Sector)

\* What one turn of fs_read()'s loop delivers.
ReadPiece ==
    IF direct_sectors > 0 THEN direct_sectors * Sector
    ELSE Min2(Len(op.from) - op.done, Min2(Entry.size - At, Sector - (At % Sector)))

MoreToRead == op.kind = "read" /\ op.done < Len(op.from) /\ At < Entry.size

\* One turn of fs_read(): the caller's buffer is op.from.
ReadSectors ==
    /\ MoreToRead
    /\ \/ /\ TransferOk
          /\ op' = [op EXCEPT !.done = @ + ReadPiece,
                              !.from = Patched(@, op.done,
                                 [k \in 1..ReadPiece |-> bytes[Entry.first * Sector + At + k - 1]])]
       \/ /\ \E spent \in BOOLEAN : FaultAt(spent)
          /\ op' = NoOp
    /\ UNCHANGED <<directory, mounted, ondisk, bytes, files, changes, original, text, kept>>

\* The call returns its count and the descriptor moves on.
EndCall ==
    /\ op.kind # "none" /\ ~MoreToWrite /\ ~MoreToRead
    /\ files' = [files EXCEPT ![op.name].position = At]
    /\ op' = NoOp
    /\ UNCHANGED <<directory, mounted, ondisk, bytes, alive, changes, faults, original, text, kept>>

\* seek_file(): anywhere in the file, its end included.
seek_file(n, offset, whence) ==
    LET size == directory[files[n].file].size
        to == offset + (CASE whence = "start" -> 0
                          [] whence = "current" -> files[n].position
                          [] whence = "end" -> size) IN
    /\ Ready /\ files[n].mode # "none" /\ Budgeted
    /\ to >= 0 /\ to <= size
    /\ files' = [files EXCEPT ![n].position = to]
    /\ UNCHANGED <<directory, mounted, ondisk, bytes, alive, op, faults, original, text, kept>>

close_file(n) ==
    /\ Ready /\ files[n].mode # "none"
    /\ files' = [files EXCEPT ![n] = ClosedFile]
    /\ IF files[n].mode = "write" THEN fs_flush(directory, text, Writing \ {n})
       ELSE UNCHANGED <<ondisk, alive, faults, kept>>
    /\ UNCHANGED <<directory, mounted, bytes, op, changes, original, text>>

\* halt(): a directory a writer may have changed goes to the disk first.
Halt ==
    /\ Ready
    /\ IF Writing # {} THEN fs_flush(directory, text, {})
       ELSE UNCHANGED <<ondisk, alive, faults, kept>>
    /\ mounted' = "halted"
    /\ files' = [n \in Names |-> ClosedFile]
    /\ UNCHANGED <<directory, bytes, op, changes, original, text>>

\* The machine stops wherever it is and boots again.
Restart ==
    /\ mounted # "boot" /\ faults < MaxFaults
    /\ faults' = faults + 1
    /\ mounted' = "boot"
    /\ files' = [n \in Names |-> ClosedFile]
    /\ op' = NoOp
    /\ alive' = TRUE
    /\ UNCHANGED <<directory, ondisk, bytes, changes, original, text, kept>>

TfsInit ==
    /\ ondisk \in Formats
    /\ original = ondisk
    /\ directory = [i \in 1..DirSize |-> FreeSlot]
    /\ bytes = [a \in Data * Sector..DiskSectors * Sector - 1 |-> 0]
    /\ mounted = "boot"
    /\ alive = TRUE
    /\ files = [n \in Names |-> ClosedFile]
    /\ op = NoOp
    /\ changes = 0 /\ faults = 0
    /\ text = [n \in Names |-> View(ondisk, n)]
    /\ kept = text

TfsNext ==
    \/ fs_mount
    \/ \E n \in Names :
          \/ \E mode \in {"read", "write"} : OpenOld(n, mode)
          \/ OpenNew(n)
          \/ \E s \in Texts : StartCall(n, "write", s, FALSE)
          \/ \E s \in Texts, aligned \in BOOLEAN : StartCall(n, "read", [k \in DOMAIN s |-> 0], aligned)
          \/ \E whence \in {"start", "current", "end"} : seek_file(n, -1, whence) \/ seek_file(n, 0, whence)
          \/ close_file(n)
    \/ WriteSector \/ ReadSectors \/ EndCall
    \/ Halt \/ Restart

-----------------------------------------------------------------------------

\* A file that was closed and is not being written is on the disk as it was left,
\* whenever the machine stops and whatever happens to other files meanwhile: transfers
\* that fail, directories written back half-way through a write, new files placed beside
\* entries the mount set aside.  Those entries stay on the disk as they came (fs_open(),
\* fs_write(), fs_flush(), fs_mount()).
FilesKept ==
    /\ \A n \in Names : kept[n].known => View(ondisk, n) = kept[n]
    /\ \A i \in 1..DirSize : Corrupt(original[i]) => ondisk[i] = original[i]

\* Programs read what they wrote: a file holds exactly the pieces written to it since it
\* was last opened for writing, each at its position, a failed write's earlier sectors
\* included, and a read delivers the bytes from its position up to its length or the
\* end of the file (fs_read(), fs_write(), seek_file()).
ReadsBack ==
    mounted = "yes" =>
       /\ \A n \in Names : text[n].known => View(directory, n) = text[n]
       /\ op.kind = "read" /\ text[op.name].known =>
             LET t == text[op.name].bytes
                 from == files[op.name].position IN
             /\ ~MoreToRead => op.done = Min2(Len(op.from), Len(t) - from)
             /\ SubSeq(op.from, 1, op.done) = SubSeq(t, from + 1, from + op.done)

=============================================================================
