----------------------------- MODULE TfsProofs ------------------------------
(***************************************************************************)
(* What is proved of the disk and the file system on it.  Of the disk, for *)
(* any ring and a device that serves requests late or never: a transfer is *)
(* the sector it was asked for.  Of the file system, for any disk whose    *)
(* files share no sector, any names and any texts, through failed          *)
(* transfers and restarts: files are kept and read back.                   *)
(***************************************************************************)
EXTENDS Virtio, Tfs, Induction, TLAPS

-----------------------------------------------------------------------------
(* The disk (Virtio). *)

Index == 0 .. Ring - 1
SectorIds == 0 .. SectorCount - 1

BlkType ==
    blk \in [ready : BOOLEAN, driver_ok : BOOLEAN, needs_reset : BOOLEAN, last_avail : Index,
             used_idx : Index, interrupt : BOOLEAN, write_error : BOOLEAN]

MemType ==
    mem \in [write : BOOLEAN, sector : 0 .. SectorCount, buffer : Blocks, reach : 0 .. SectorWords,
             status : {"none", "ok", "ioerr"}, avail : Index, used : Index]

VirtioType ==
    /\ disk \in [SectorIds -> Blocks]
    /\ file \in [SectorIds -> Blocks]
    /\ was \in [SectorIds -> Blocks]
    /\ BlkType
    /\ MemType
    /\ taken \in [avail : 0 .. Ring, write : BOOLEAN, sector : 0 .. SectorCount, buffer : Blocks]
    /\ seen \in Index
    /\ call \in {"boot", "idle", "notify", "poll"}
    /\ answer \in {"none", "ok", "failed"}
    /\ device \in BOOLEAN

\* What the caller asked for has been done.
Done ==
    /\ mem.sector # NoSector
    /\ mem.buffer = disk[mem.sector]
    /\ mem.write => file[mem.sector] = mem.buffer

\* No sector is changed but the one asked to be written, by the words of the buffer in RAM.
OnlyAsked ==
    \/ disk = was
    \/ /\ mem.write /\ mem.sector # NoSector
       /\ disk = [was EXCEPT ![mem.sector] = Overlay(@, mem.buffer, mem.reach)]

\* At most one request is outstanding, and it is the one in the driver's memory: the
\* device's indices move together, the ring is never more than one ahead of them, and a
\* driver that has given up asks for nothing more.  A request the device has not served
\* has changed nothing, unless a reset is needed.
VirtioInv ==
    /\ VirtioType
    /\ mem.used = blk.last_avail /\ blk.used_idx = blk.last_avail
    /\ mem.avail # blk.last_avail => mem.avail = Inc(blk.last_avail)
    /\ taken.avail # Ring => taken = Request /\ mem.avail # blk.last_avail /\ mem.reach = SectorWords
    /\ call = "boot" => mem.avail = 0 /\ blk.last_avail = 0 /\ mem.used = 0
    /\ call \in {"boot", "notify"} => taken.avail = Ring
    /\ call = "idle" /\ device => mem.avail = blk.last_avail /\ seen = mem.avail
    /\ call = "notify" => mem.avail = Inc(seen) /\ blk.last_avail = seen
    /\ call = "poll" => mem.avail = Inc(seen)
    /\ mem.avail # blk.last_avail /\ ~blk.needs_reset => disk = was
    /\ mem.avail = blk.last_avail /\ mem.status = "ok" => Done
    /\ answer = "ok" => mem.avail = blk.last_avail /\ mem.status = "ok"
    /\ OnlyAsked
    /\ ~blk.write_error => file = disk

LEMMA IncIndex == \A i \in Index : Inc(i) \in Index /\ Inc(i) # i
<1> SUFFICES ASSUME NEW i \in Index PROVE Inc(i) \in Index /\ Inc(i) # i
  BY Zenon
<1>1. CASE i + 1 = Ring
  <2>1. Inc(i) = 0 /\ i # 0
    BY <1>1, VirtioAssumption DEF Inc, Index
  <2> QED
    BY <2>1, VirtioAssumption DEF Index
<1>2. CASE i + 1 < Ring
  <2>1. Inc(i) = i + 1
    BY <1>2, VirtioAssumption DEF Inc, Index
  <2> QED
    BY <1>2, <2>1, VirtioAssumption DEF Index
<1> QED
  BY <1>1, <1>2, VirtioAssumption DEF Index

LEMMA IncInjective == \A i, j \in Index : Inc(i) = Inc(j) => i = j
<1> SUFFICES ASSUME NEW i \in Index, NEW j \in Index, Inc(i) = Inc(j) PROVE i = j
  BY Zenon
<1>1. \A k \in Index : Inc(k) = IF k + 1 = Ring THEN 0 ELSE k + 1
  <2> SUFFICES ASSUME NEW k \in Index PROVE Inc(k) = IF k + 1 = Ring THEN 0 ELSE k + 1
    BY Zenon
  <2>1. CASE k + 1 = Ring
    BY <2>1, VirtioAssumption DEF Inc, Index
  <2>2. CASE k + 1 < Ring
    BY <2>2, VirtioAssumption DEF Inc, Index
  <2> QED
    BY <2>1, <2>2, VirtioAssumption DEF Index
<1> QED
  BY <1>1, VirtioAssumption DEF Index

\* Words laid over a block make a block, all of them the other one.
LEMMA OverlayBlock ==
    ASSUME NEW a \in Blocks, NEW b \in Blocks, NEW n
    PROVE  Overlay(a, b, n) \in Blocks /\ (n = SectorWords => Overlay(a, b, n) = b)
<1>1. Overlay(a, b, n) \in Blocks
  <2>1. \A w \in 1 .. SectorWords : (IF w <= n THEN b[w] ELSE a[w]) \in Contents
    BY Zenon DEF Blocks
  <2> QED
    BY <2>1, Zenon DEF Overlay, Blocks
<1>2. ASSUME n = SectorWords PROVE Overlay(a, b, n) = b
  <2>1. \A w \in 1 .. SectorWords : w <= n
    BY <1>2, VirtioAssumption
  <2>2. Overlay(a, b, n) = [w \in 1 .. SectorWords |-> b[w]]
    BY <2>1, Zenon DEF Overlay
  <2> QED
    BY <2>2, Zenon DEF Blocks
<1> QED
  BY <1>1, <1>2, Zenon

LEMMA VirtioInitial == VirtioInit => VirtioInv
<1> SUFFICES ASSUME VirtioInit PROVE VirtioInv
  BY Zenon
<1> DEFINE b0 == CHOOSE b \in Blocks : TRUE
<1>1. b0 \in Blocks
  <2>1. PICK c \in Contents : TRUE
    BY VirtioAssumption, Zenon
  <2>2. [w \in 1 .. SectorWords |-> c] \in Blocks
    BY Zenon DEF Blocks
  <2> QED
    BY <2>2, Zenon
<1>2. disk = [s \in SectorIds |-> b0]
  BY Zenon DEF VirtioInit, SectorIds
<1> HIDE DEF b0
<1>3. disk \in [SectorIds -> Blocks] /\ 0 \in SectorIds
  BY <1>1, <1>2, VirtioAssumption DEF SectorIds
<1>4. 0 \in Index /\ Ring \in 0 .. Ring /\ 0 \in 0 .. SectorCount /\ SectorWords \in 0 .. SectorWords
  BY VirtioAssumption DEF Index
<1>5. disk[0] \in Blocks
  BY <1>3, Zenon
<1>6. VirtioType
  BY <1>3, <1>4, <1>5, Zenon DEF VirtioInit, VirtioType, BlkType, MemType, Fresh
<1> QED
  BY <1>3, <1>6, Zenon DEF VirtioInit, VirtioInv, OnlyAsked, Fresh

\* A request served is the outstanding one.
LEMMA ServedKeeps ==
    ASSUME VirtioInv, mem.avail # blk.last_avail, ~blk.needs_reset, NEW landed, NEW stored \in BOOLEAN,
           stored => landed = mem.reach, Served(Request, mem.reach, landed, stored),
           taken' \in [avail : {Ring}, write : BOOLEAN, sector : 0 .. SectorCount, buffer : Blocks],
           UNCHANGED <<device, seen, answer, was>>, call' \in {call, "poll"}, call # "boot",
           call = "notify" => call' = "poll", call = "idle" => call' = "idle"
    PROVE  VirtioInv'
<1> DEFINE s == mem.sector
           n == mem.reach
           sound == s # NoSector
           out == sound /\ mem.write
           error == blk.write_error \/ (out /\ ~stored)
           buffer == IF ~sound \/ mem.write THEN mem.buffer ELSE Overlay(mem.buffer, disk[s], n)
           torn == sound /\ n < SectorWords
<1>1. VirtioType /\ mem.avail = Inc(blk.last_avail) /\ mem.used = blk.last_avail /\ blk.used_idx = blk.last_avail
      /\ disk = was /\ answer # "ok" /\ (~blk.write_error => file = disk)
  BY Zenon DEF VirtioInv
<1>2. Inc(blk.last_avail) \in Index
  BY <1>1, IncIndex, Zenon DEF VirtioType, BlkType
<1>3. s \in 0 .. SectorCount /\ mem.buffer \in Blocks /\ mem.write \in BOOLEAN /\ n \in 0 .. SectorWords
  BY <1>1, Zenon DEF VirtioType, MemType
<1>4. sound => s \in SectorIds
  BY <1>3, VirtioAssumption DEF NoSector, SectorIds
<1>5. sound => disk[s] \in Blocks /\ file[s] \in Blocks
  BY <1>1, <1>4, Zenon DEF VirtioType
<1>6. /\ taken' \in [avail : 0 .. Ring, write : BOOLEAN, sector : 0 .. SectorCount, buffer : Blocks]
      /\ taken'.avail = Ring /\ seen' \in Index /\ device' \in BOOLEAN /\ answer' \in {"none", "ok", "failed"}
      /\ call' \in {"boot", "idle", "notify", "poll"} /\ was' \in [SectorIds -> Blocks] /\ answer' # "ok"
  BY <1>1, VirtioAssumption DEF VirtioType
<1>7. call' \in {"idle", "poll"} /\ (call' = "idle" => ~device) /\ (call' = "poll" => mem.avail = Inc(seen))
  <2>1. call \in {"idle", "notify", "poll"}
    BY <1>1, Zenon DEF VirtioType
  <2> QED
    BY <2>1, Zenon DEF VirtioInv
<1>8. /\ disk' = IF out THEN [disk EXCEPT ![s] = Overlay(disk[s], mem.buffer, n)] ELSE disk
      /\ file' = IF out THEN [file EXCEPT ![s] = Overlay(file[s], mem.buffer, landed)] ELSE file
      /\ IF torn
         THEN /\ mem' = [mem EXCEPT !.buffer = buffer]
              /\ blk' = [blk EXCEPT !.needs_reset = TRUE, !.write_error = error]
         ELSE /\ mem' = [mem EXCEPT !.status = IF sound /\ ~error THEN "ok" ELSE "ioerr",
                                    !.buffer = buffer, !.used = Inc(blk.used_idx)]
              /\ blk' = [blk EXCEPT !.used_idx = Inc(blk.used_idx), !.last_avail = mem.avail,
                                    !.interrupt = TRUE, !.write_error = error]
  BY Zenon DEF Served, Request
<1>9. buffer \in Blocks
  BY <1>3, <1>5, OverlayBlock, Zenon
<1>10. disk' \in [SectorIds -> Blocks] /\ file' \in [SectorIds -> Blocks]
  <2>1. CASE ~out
    BY <1>1, <1>8, <2>1, Zenon DEF VirtioType
  <2>2. CASE out
    <3>1. Overlay(disk[s], mem.buffer, n) \in Blocks /\ Overlay(file[s], mem.buffer, landed) \in Blocks
      BY <1>3, <1>5, <2>2, OverlayBlock, Zenon
    <3> QED
      BY <1>1, <1>8, <2>2, <3>1, Zenon DEF VirtioType
  <2> QED
    BY <2>1, <2>2, Zenon
<1>11. error \in BOOLEAN
  BY <1>1, <1>3, Zenon DEF VirtioType, BlkType
<1>12. ~error => file' = disk'
  BY <1>1, <1>8, Zenon
<1> HIDE DEF buffer, error
<1>13. /\ MemType' /\ mem'.avail = mem.avail /\ mem'.sector = s /\ mem'.write = mem.write /\ mem'.reach = n
       /\ mem'.buffer = buffer /\ mem'.used = (IF torn THEN mem.used ELSE mem.avail)
       /\ mem'.status = (IF torn THEN mem.status ELSE IF sound /\ ~error THEN "ok" ELSE "ioerr")
  <2>1. CASE torn
    BY <1>1, <1>8, <1>9, <2>1 DEF VirtioType, MemType
  <2>2. CASE ~torn
    <3> DEFINE st == IF sound /\ ~error THEN "ok" ELSE "ioerr"
    <3>1. st \in {"none", "ok", "ioerr"}
      BY Zenon
    <3>2. mem' = [mem EXCEPT !.status = st, !.buffer = buffer, !.used = mem.avail] /\ mem.avail \in Index
      BY <1>1, <1>2, <1>8, <2>2, Zenon
    <3> HIDE DEF st
    <3>3. /\ MemType' /\ mem'.avail = mem.avail /\ mem'.sector = s /\ mem'.write = mem.write /\ mem'.reach = n
          /\ mem'.buffer = buffer /\ mem'.used = mem.avail /\ mem'.status = st
      BY <1>1, <1>9, <3>1, <3>2, Zenon DEF VirtioType, MemType
    <3> QED
      BY <2>2, <3>3, Zenon DEF st
  <2> QED
    BY <2>1, <2>2, Zenon
<1>14. /\ BlkType' /\ blk'.write_error = error /\ blk'.needs_reset = (torn \/ blk.needs_reset)
       /\ blk'.last_avail = (IF torn THEN blk.last_avail ELSE mem.avail) /\ blk'.used_idx = blk'.last_avail
  <2>1. CASE torn
    BY <1>1, <1>8, <1>11, <2>1, Zenon DEF VirtioType, BlkType
  <2>2. CASE ~torn
    BY <1>1, <1>2, <1>8, <1>11, <2>2, ZenonT(30) DEF VirtioType, BlkType
  <2> QED
    BY <2>1, <2>2, Zenon
<1>15. VirtioType'
  BY <1>6, <1>10, <1>13, <1>14, Zenon DEF VirtioType
<1>16. OnlyAsked'
  <2>1. CASE ~out
    BY <1>1, <1>8, <2>1, Zenon DEF OnlyAsked
  <2>2. CASE out
    <3>1. buffer = mem.buffer
      BY <2>2, Zenon DEF buffer
    <3> QED
      BY <1>1, <1>8, <1>13, <2>2, <3>1, Zenon DEF OnlyAsked
  <2> QED
    BY <2>1, <2>2, Zenon
<1>17. ASSUME ~torn, mem'.status = "ok" PROVE Done'
  <2>1. sound /\ ~error /\ n = SectorWords
    BY <1>3, <1>13, <1>17, VirtioAssumption
  <2>2. Overlay(mem.buffer, disk[s], n) = disk[s] /\ Overlay(disk[s], mem.buffer, n) = mem.buffer
    BY <1>3, <1>5, <2>1, OverlayBlock
  <2>3. disk'[s] = buffer
    BY <1>1, <1>3, <1>4, <1>8, <2>1, <2>2, Zenon DEF VirtioType, buffer
  <2>4. file' = disk'
    BY <1>12, <2>1, Zenon
  <2> QED
    BY <1>13, <2>1, <2>3, <2>4, Zenon DEF Done
<1>18. CASE torn
  BY <1>1, <1>6, <1>7, <1>12, <1>13, <1>14, <1>15, <1>16, <1>18, Zenon DEF VirtioInv
<1>19. CASE ~torn
  BY <1>6, <1>7, <1>12, <1>13, <1>14, <1>15, <1>16, <1>17, <1>19, Zenon DEF VirtioInv
<1> QED
  BY <1>18, <1>19, Zenon

LEMMA VirtioInductive == VirtioInv /\ [VirtioNext]_virtioVars => VirtioInv'
<1> SUFFICES ASSUME VirtioInv, [VirtioNext]_virtioVars PROVE VirtioInv'
  BY Zenon
<1>0. VirtioType
  BY Zenon DEF VirtioInv
<1>a. taken.avail # Ring => taken = Request /\ mem.avail # blk.last_avail /\ mem.reach = SectorWords
  BY Zenon DEF VirtioInv
<1>1. CASE InitDriver
  <2>1. /\ call = "boot" /\ call' = "idle" /\ device' = TRUE /\ seen' = 0
        /\ blk' = [blk EXCEPT !.ready = TRUE, !.driver_ok = TRUE, !.needs_reset = FALSE,
                              !.last_avail = 0, !.used_idx = 0, !.interrupt = FALSE]
        /\ UNCHANGED <<disk, file, taken, mem, answer, was>>
    BY <1>1, Zenon DEF InitDriver
  <2>2. 0 \in Index
    BY VirtioAssumption DEF Index
  <2>3. VirtioType' /\ blk'.last_avail = 0 /\ blk'.used_idx = 0
    BY <1>0, <2>1, <2>2, Zenon DEF VirtioType, BlkType, MemType
  <2> QED
    BY <2>1, <2>3 DEF VirtioInv, OnlyAsked, Request, Done
<1>2. CASE Notify
  <2>1. /\ call = "notify" /\ call' = "poll" /\ UNCHANGED <<taken, device, seen, answer, was>>
    BY <1>2, Zenon DEF Notify
  <2>2. CASE UNCHANGED <<disk, file, blk, mem>>
    <3>1. VirtioType'
      BY <1>0, <2>1, <2>2 DEF VirtioType, BlkType, MemType
    <3> QED
      BY <2>1, <2>2, <3>1, Zenon DEF VirtioInv, OnlyAsked, Request, Done
  <2>4. CASE mem.avail # blk.last_avail /\ ~blk.needs_reset /\ virtio_request
    <3>1. PICK landed \in 0 .. mem.reach, stored \in BOOLEAN :
             (stored => landed = mem.reach) /\ Served(Request, mem.reach, landed, stored)
      BY <2>4, Zenon DEF virtio_request
    <3>2. CASE taken.avail = Ring
      <4>1. taken' \in [avail : {Ring}, write : BOOLEAN, sector : 0 .. SectorCount, buffer : Blocks]
        BY <1>0, <2>1, <3>2, Zenon DEF VirtioType, BlkType, MemType
      <4> QED
        BY <2>1, <2>4, <3>1, <4>1, ServedKeeps, Zenon
    <3>3. taken.avail = Ring
      BY <2>1, Zenon DEF VirtioInv
    <3> QED
      BY <3>2, <3>3, Zenon
  <2> QED
    BY <1>2, <2>2, <2>4, Zenon DEF Notify
<1>3. CASE Poll
  <2>1. /\ call = "poll" /\ UNCHANGED <<disk, file, blk, taken, mem, seen, was>>
        /\ \/ device' = FALSE /\ call' = "idle" /\ answer' = "failed"
           \/ UNCHANGED <<device, call, answer>>
    BY <1>3, Zenon DEF Poll, Return, DeviceAfterFail
  <2>2. device' \in BOOLEAN /\ call' \in {"idle", "poll"} /\ answer' \in {"none", "ok", "failed"}
    BY <1>0, <2>1, Zenon DEF VirtioType, BlkType, MemType
  <2>3. VirtioType'
    BY <1>0, <2>1, <2>2 DEF VirtioType, BlkType, MemType
  <2> QED
    BY <2>1, <2>3, Zenon DEF VirtioInv, OnlyAsked, Request, Done
<1>4. CASE Complete
  <2>1. /\ call = "poll" /\ mem.used # seen /\ seen' = Inc(seen) /\ call' = "idle"
        /\ blk' = [blk EXCEPT !.interrupt = FALSE]
        /\ answer' = IF mem.status = "ok" THEN "ok" ELSE "failed"
        /\ UNCHANGED <<disk, file, taken, mem, device, was>>
    BY <1>4, Zenon DEF Complete, Return
  <2>2. Inc(seen) \in Index
    BY <1>0, IncIndex, Zenon DEF VirtioType, BlkType, MemType
  <2>3. VirtioType' /\ blk'.last_avail = blk.last_avail /\ blk'.used_idx = blk.used_idx
    BY <1>0, <2>1, <2>2, Zenon DEF VirtioType, BlkType, MemType
  <2>4. mem.avail = blk.last_avail
    <3> SUFFICES ASSUME mem.avail # blk.last_avail PROVE FALSE
      BY Zenon
    <3>1. Inc(seen) = Inc(blk.last_avail) /\ mem.used = blk.last_avail
      BY <2>1, Zenon DEF VirtioInv
    <3>2. seen \in Index /\ blk.last_avail \in Index
      BY <1>0, Zenon DEF VirtioType, BlkType, MemType
    <3> QED
      BY <2>1, <3>1, <3>2, IncInjective, Zenon
  <2> QED
    BY <2>1, <2>3, <2>4 DEF VirtioInv, OnlyAsked, Request, Done
<1>5. CASE \E s \in 0..NoSector, v \in Blocks, reach \in 0..SectorWords :
              \E write \in BOOLEAN : Transfer(s, write, v, reach)
  <2>1. PICK s \in 0..NoSector, v \in Blocks, reach \in 0..SectorWords, write \in BOOLEAN :
           Transfer(s, write, v, reach)
    BY <1>5, Zenon
  <2>2. call = "idle" /\ UNCHANGED <<disk, file, blk, taken, device, seen>>
    BY <2>1, Zenon DEF Transfer
  <2>3. CASE ~device
    <3>1. call' = "idle" /\ answer' = "failed" /\ UNCHANGED <<mem, was>>
      BY <2>1, <2>3, Zenon DEF Transfer, Return
    <3>2. VirtioType'
      BY <1>0, <2>2, <3>1 DEF VirtioType, BlkType, MemType
    <3> QED
      BY <2>2, <2>3, <3>1, <3>2, Zenon DEF VirtioInv, OnlyAsked, Request, Done
  <2>4. CASE device
    <3>1. /\ mem' = [mem EXCEPT !.write = write, !.sector = s, !.buffer = v, !.reach = reach,
                                !.status = "none", !.avail = Inc(mem.avail)]
          /\ call' = "notify" /\ answer' = "none" /\ was' = disk
      BY <2>1, <2>4, Zenon DEF Transfer
    <3>2. mem.avail = blk.last_avail /\ seen = mem.avail /\ taken.avail = Ring /\ mem.used = blk.last_avail
          /\ blk.used_idx = blk.last_avail
      BY <1>a, <2>2, <2>4, Zenon DEF VirtioInv
    <3>3. Inc(mem.avail) \in Index /\ Inc(mem.avail) # mem.avail
      BY <1>0, IncIndex, Zenon DEF VirtioType, BlkType, MemType
    <3>4. s \in 0 .. SectorCount
      BY Zenon DEF NoSector
    <3>5. VirtioType' /\ mem'.avail = Inc(mem.avail) /\ mem'.used = mem.used /\ mem'.status = "none"
      BY <1>0, <2>2, <3>1, <3>3, <3>4, Zenon DEF VirtioType, BlkType, MemType
    <3> QED
      BY <2>2, <3>1, <3>2, <3>3, <3>5, Zenon DEF VirtioInv, OnlyAsked
  <2> QED
    BY <2>3, <2>4, Zenon
<1>6. CASE QemuTakes
  <2>1. /\ call \notin {"boot", "notify"} /\ mem.avail # blk.last_avail /\ mem.reach = SectorWords
        /\ taken' = Request
        /\ UNCHANGED <<disk, file, blk, mem, device, seen, call, answer, was>>
    BY <1>6, Zenon DEF QemuTakes
  <2>2. Request' = Request
    BY <2>1, Zenon DEF Request
  <2>3. Index \subseteq 0 .. Ring
    BY VirtioAssumption DEF Index
  <2>4. Request \in [avail : 0 .. Ring, write : BOOLEAN, sector : 0 .. SectorCount, buffer : Blocks]
    BY <1>0, <2>3, Zenon DEF VirtioType, BlkType, MemType, Request
  <2>5. VirtioType'
    BY <1>0, <2>1, <2>4 DEF VirtioType, BlkType, MemType
  <2> QED
    BY <2>1, <2>2, <2>5, Zenon DEF VirtioInv, OnlyAsked, Done
<1>7. CASE QemuServes
  <2>1. /\ taken.avail # Ring /\ ~blk.needs_reset /\ Served(taken, SectorWords, SectorWords, TRUE)
        /\ taken' = [taken EXCEPT !.avail = Ring]
        /\ UNCHANGED <<device, seen, call, answer, was>>
    BY <1>7, Zenon DEF QemuServes
  <2>2. taken = Request /\ mem.avail # blk.last_avail /\ mem.reach = SectorWords /\ call # "boot" /\ call # "notify"
    BY <1>a, <2>1, Zenon DEF VirtioInv
  <2>3. taken' \in [avail : {Ring}, write : BOOLEAN, sector : 0 .. SectorCount, buffer : Blocks]
    BY <1>0, <2>1, Zenon DEF VirtioType, BlkType, MemType
  <2> QED
    BY <2>1, <2>2, <2>3, ServedKeeps, Zenon
<1>8. CASE QemuStops
  <2>1. blk' = [blk EXCEPT !.needs_reset = TRUE]
        /\ UNCHANGED <<disk, file, taken, mem, device, seen, call, answer, was>>
    BY <1>8, Zenon DEF QemuStops
  <2>2. VirtioType' /\ blk'.last_avail = blk.last_avail /\ blk'.used_idx = blk.used_idx
    BY <1>0, <2>1, Zenon DEF VirtioType, BlkType, MemType
  <2> QED
    BY <2>1, <2>2 DEF VirtioInv, OnlyAsked, Request, Done
<1>9. CASE UNCHANGED virtioVars
  <2>1. UNCHANGED <<disk, file, blk, taken, mem, device, seen, call, answer, was>>
    BY <1>9, Zenon DEF virtioVars
  <2>2. VirtioType'
    BY <1>0, <2>1 DEF VirtioType, BlkType, MemType
  <2> QED
    BY <2>1, <2>2 DEF VirtioInv, OnlyAsked, Request, Done
<1> QED
  BY <1>1, <1>2, <1>3, <1>4, <1>5, <1>6, <1>7, <1>8, <1>9, Zenon DEF VirtioNext, DriverNext

\* A transfer that returns 1 moved exactly the sector it was asked for, one that does not
\* left at most a prefix of what it was to write, and the host's file follows the disk:
\* for any number of sectors, any ring, any buffer that reaches out of RAM and any device
\* that serves requests late, or never (virtio_transfer(), virtio_request()).
THEOREM TransfersAreExact == VirtioInit /\ [][VirtioNext]_virtioVars => []TransferExact
<1>1. VirtioInv => TransferExact
  BY Zenon DEF VirtioInv, OnlyAsked, TransferExact, Done
<1> QED
  BY VirtioInitial, VirtioInductive, <1>1, PTL

-----------------------------------------------------------------------------
(* The file system (Tfs). *)

Entries == [name : Names \cup {""}, first : Nat, capacity : Nat, size : Nat]
Directories == [1 .. DirSize -> Entries]
Addresses == Data * Sector .. DiskSectors * Sector - 1
Views == [known : BOOLEAN, exists : BOOLEAN, bytes : Seq(Nat)]

\* No two entries in use share a sector.
Apart(dir) ==
    \A i, j \in in_use(dir) :
       \/ i = j
       \/ dir[i].first + dir[i].capacity <= dir[j].first
       \/ dir[j].first + dir[j].capacity <= dir[i].first

SameFile(a, b) == a.name = b.name /\ a.first = b.first /\ a.capacity = b.capacity

\* What View says of given bytes.
ViewOf(dir, b, n) ==
    IF FilesNamed(dir, n) = {} THEN NoFile
    ELSE Holds([k \in 1 .. dir[Min(FilesNamed(dir, n))].size |->
                   b[dir[Min(FilesNamed(dir, n))].first * Sector + k - 1]])

TfsType ==
    /\ directory \in Directories /\ ondisk \in Directories /\ original \in Directories
    /\ bytes \in [Addresses -> Nat]
    /\ mounted \in {"boot", "yes", "no", "halted"} /\ alive \in BOOLEAN
    /\ files \in [Names -> [mode : {"none", "read", "write"}, file : Nat, position : Nat]]
    /\ op \in [kind : {"none", "read", "write"}, name : Names \cup {""}, from : Seq(Nat), done : Nat,
               aligned : BOOLEAN]
    /\ text \in [Names -> Views] /\ kept \in [Names -> Views]

\* The disk: its files share no sector, the entries set aside are as they came, and what
\* is kept is there.
DiskInv ==
    /\ Apart(ondisk)
    /\ \A i \in 1 .. DirSize : Corrupt(original[i]) => ondisk[i] = original[i]
    /\ \A n \in Names : kept[n].known => ViewOf(ondisk, bytes, n) = kept[n]

\* The directory in memory names every file on the disk where the disk has it.
MountedInv ==
    /\ Apart(directory)
    /\ \A i \in 1 .. DirSize : Corrupt(original[i]) => directory[i] = original[i]
    /\ \A i \in in_use(ondisk) : i \in in_use(directory) /\ SameFile(directory[i], ondisk[i])
    /\ \A n \in Names : text[n].known => ViewOf(directory, bytes, n) = text[n]

\* A descriptor is for the entry of its name, no further than the end of the file, and
\* what is being written is not kept.
FileInv(n) ==
    files[n].mode # "none" =>
       /\ FilesNamed(directory, n) # {} /\ files[n].file = Min(FilesNamed(directory, n))
       /\ files[n].position <= directory[files[n].file].size
       /\ files[n].mode = "write" => ~kept[n].known

\* A call in progress has a descriptor of its mode; a read has delivered what the disk
\* holds.
CallInv ==
    op.kind # "none" =>
       /\ op.name \in Names /\ files[op.name].mode = op.kind
       /\ op.done <= Len(op.from) /\ At <= Entry.size
       /\ op.kind = "read" =>
             \A k \in 1 .. op.done :
                op.from[k] = bytes[Entry.first * Sector + files[op.name].position + k - 1]

TfsInv ==
    /\ TfsType
    /\ DiskInv
    /\ mounted = "yes" => MountedInv /\ (\A n \in Names : FileInv(n)) /\ CallInv
    /\ mounted # "yes" => op.kind = "none" /\ \A n \in Names : files[n].mode = "none"

-----------------------------------------------------------------------------

LEMMA SubSeqIs ==
    ASSUME NEW S, NEW s \in Seq(S), NEW m \in 1 .. Len(s) + 1, NEW n \in m - 1 .. Len(s)
    PROVE  SubSeq(s, m, n) \in Seq(S) /\ Len(SubSeq(s, m, n)) = n - m + 1
           /\ \A k \in 1 .. n - m + 1 : SubSeq(s, m, n)[k] = s[m + k - 1]
<1> DEFINE t == SubSeq(s, m, n)
           l == n - m + 1
<1>1. l \in Nat /\ m \in Nat /\ n \in Int
  OBVIOUS
<1>2. t = [k \in 1 .. l |-> s[k + m - 1]]
  BY DEF SubSeq
<1>3. \A k \in 1 .. l : k + m - 1 \in 1 .. Len(s) /\ k + m - 1 = m + k - 1
  OBVIOUS
<1> HIDE DEF t, l
<1>4. t \in [1 .. l -> S] /\ \A k \in 1 .. l : t[k] = s[m + k - 1]
  BY <1>2, <1>3
<1> QED
  BY <1>1, <1>4 DEF t, l

LEMMA SameSeq ==
    ASSUME NEW S, NEW s \in Seq(S), NEW t \in Seq(S), Len(s) = Len(t), \A i \in 1 .. Len(s) : s[i] = t[i]
    PROVE  s = t
<1>1. s = [i \in 1 .. Len(s) |-> s[i]] /\ t = [i \in 1 .. Len(t) |-> t[i]]
  OBVIOUS
<1> QED
  BY <1>1, Zenon

LEMMA Sizes ==
    /\ DirSize \in Nat /\ Data \in Nat /\ DiskSectors \in Nat /\ FileSectors \in Nat
    /\ Sector \in Nat /\ Sector > 0
BY TfsAssumption, Zenon

LEMMA Stretch ==
    ASSUME NEW a \in Nat, NEW b \in Nat
    PROVE  /\ a * Sector \in Nat /\ (a + b) * Sector = a * Sector + b * Sector
           /\ a <= b => a * Sector <= b * Sector
<1>1. Sector \in Nat
  BY Sizes, Zenon
<1>2. a * Sector \in Nat /\ (a + b) * Sector = a * Sector + b * Sector
  BY <1>1
<1>3. ASSUME a <= b PROVE a * Sector <= b * Sector
  <2>1. b - a \in Nat
    BY <1>3
  <2>2. (b - a) * Sector \in Nat
    BY <1>1, <2>1
  <2>3. b * Sector = a * Sector + (b - a) * Sector
    BY <1>1
  <2> QED
    BY <1>1, <1>2, <2>2, <2>3
<1> QED
  BY <1>2, <1>3, Zenon

\* An entry in use lies within the file system, and its bytes within its sectors.
LEMMA Extent ==
    ASSUME NEW dir \in Directories, NEW i \in in_use(dir)
    PROVE  /\ i \in 1 .. DirSize /\ dir[i] \in Entries /\ dir[i].name # "" /\ ~Corrupt(dir[i])
           /\ dir[i].first * Sector \in Nat /\ dir[i].capacity * Sector \in Nat
           /\ dir[i].size \in Nat /\ dir[i].size <= dir[i].capacity * Sector
           /\ Data * Sector \in Nat /\ DiskSectors * Sector \in Nat
           /\ Data * Sector <= dir[i].first * Sector
           /\ dir[i].first * Sector + dir[i].capacity * Sector <= DiskSectors * Sector
<1>1. i \in 1 .. DirSize /\ dir[i] \in Entries /\ dir[i].name # "" /\ ~Corrupt(dir[i])
  BY Zenon DEF in_use, Directories
<1>2. dir[i].first \in Nat /\ dir[i].capacity \in Nat /\ dir[i].size \in Nat
  BY <1>1, Zenon DEF Entries
<1>3. Data \in Nat /\ DiskSectors \in Nat /\ Sector \in Nat
  BY Sizes, Zenon
<1>4. /\ dir[i].size <= dir[i].capacity * Sector
      /\ Data <= dir[i].first /\ dir[i].first + dir[i].capacity <= DiskSectors
  <2> DEFINE f == dir[i].first
             c == dir[i].capacity
             z == dir[i].size
             r == dir[i].capacity * Sector
  <2>1. ~(f < Data) /\ ~(f > DiskSectors - c) /\ ~(z > r)
    BY <1>1, Zenon DEF Corrupt
  <2>2. f \in Nat /\ c \in Nat /\ z \in Nat /\ r \in Nat
    BY <1>2, <1>3
  <2> HIDE DEF f, c, z, r
  <2>3. z <= r /\ Data <= f /\ f + c <= DiskSectors
    BY <1>3, <2>1, <2>2
  <2> QED
    BY <2>3, Zenon DEF f, c, z, r
<1>5. /\ dir[i].first * Sector \in Nat /\ dir[i].capacity * Sector \in Nat
      /\ Data * Sector \in Nat /\ DiskSectors * Sector \in Nat
  BY <1>2, <1>3
<1>6. Data * Sector <= dir[i].first * Sector
  BY <1>2, <1>3, <1>4, Stretch, Zenon
<1>7. dir[i].first * Sector + dir[i].capacity * Sector <= DiskSectors * Sector
  <2>1. dir[i].first + dir[i].capacity \in Nat
    BY <1>2
  <2>2. (dir[i].first + dir[i].capacity) * Sector <= DiskSectors * Sector
    BY <1>3, <1>4, <2>1, Stretch, Zenon
  <2>3. (dir[i].first + dir[i].capacity) * Sector = dir[i].first * Sector + dir[i].capacity * Sector
    BY <1>2, Stretch, Zenon
  <2> QED
    BY <2>2, <2>3, Zenon
<1> QED
  BY <1>1, <1>2, <1>4, <1>5, <1>6, <1>7, Zenon

LEMMA ExtentsApart ==
    ASSUME NEW dir \in Directories, Apart(dir), NEW i \in in_use(dir), NEW j \in in_use(dir), i # j
    PROVE  \/ dir[i].first * Sector + dir[i].capacity * Sector <= dir[j].first * Sector
           \/ dir[j].first * Sector + dir[j].capacity * Sector <= dir[i].first * Sector
<1>1. \A k \in in_use(dir) : dir[k].first \in Nat /\ dir[k].capacity \in Nat
  BY Zenon DEF in_use, Directories, Entries
<1>2. ASSUME NEW k \in in_use(dir), NEW l \in in_use(dir), dir[k].first + dir[k].capacity <= dir[l].first
      PROVE  dir[k].first * Sector + dir[k].capacity * Sector <= dir[l].first * Sector
  <2>1. dir[k].first + dir[k].capacity \in Nat
    BY <1>1
  <2>2. (dir[k].first + dir[k].capacity) * Sector <= dir[l].first * Sector
    BY <1>1, <1>2, <2>1, Stretch, Zenon
  <2>3. (dir[k].first + dir[k].capacity) * Sector = dir[k].first * Sector + dir[k].capacity * Sector
    BY <1>1, Stretch, Zenon
  <2> QED
    BY <2>2, <2>3, Zenon
<1> QED
  BY <1>2, Zenon DEF Apart

\* The entry View takes is one of its name.
LEMMA WhereIn ==
    ASSUME NEW dir, NEW n, FilesNamed(dir, n) # {}
    PROVE  Min(FilesNamed(dir, n)) \in FilesNamed(dir, n)
<1>1. FilesNamed(dir, n) \in SUBSET Nat
  <2>1. FilesNamed(dir, n) \subseteq 1 .. DirSize
    BY Zenon DEF FilesNamed, in_use
  <2>2. 1 .. DirSize \subseteq Nat
    BY Sizes
  <2> QED
    BY <2>1, <2>2, Zenon
<1>2. \E x \in FilesNamed(dir, n) : \A y \in FilesNamed(dir, n) : x <= y
  BY <1>1, LeastNat, Zenon
<1> QED
  BY <1>2, Zenon DEF Min

LEMMA NamedInUse ==
    ASSUME NEW dir, NEW n, NEW i \in FilesNamed(dir, n)
    PROVE  i \in in_use(dir) /\ dir[i].name = n
BY Zenon DEF FilesNamed

\* Every address of a file is an address of the disk.
LEMMA FileAddresses ==
    ASSUME NEW dir \in Directories, NEW i \in in_use(dir), NEW k \in Nat, k < dir[i].capacity * Sector
    PROVE  dir[i].first * Sector + k \in Addresses
<1> DEFINE f == dir[i].first * Sector
           c == dir[i].capacity * Sector
           lo == Data * Sector
           hi == DiskSectors * Sector
<1>1. f \in Nat /\ c \in Nat /\ lo \in Nat /\ hi \in Nat /\ lo <= f /\ f + c <= hi /\ k < c
  BY Extent, Zenon
<1>2. Addresses = lo .. hi - 1
  BY Zenon DEF Addresses
<1> HIDE DEF f, c, lo, hi
<1>3. f + k \in lo .. hi - 1
  BY <1>1
<1> QED
  BY <1>2, <1>3, Zenon DEF f

LEMMA ViewIn ==
    ASSUME NEW dir \in Directories, NEW b \in [Addresses -> Nat], NEW n
    PROVE  ViewOf(dir, b, n) \in Views /\ ViewOf(dir, b, n).known
<1>1. CASE FilesNamed(dir, n) = {}
  <2>1. <<>> \in Seq(Nat)
    OBVIOUS
  <2> QED
    BY <1>1, <2>1, Zenon DEF ViewOf, NoFile, Views
<1>2. CASE FilesNamed(dir, n) # {}
  <2> DEFINE i == Min(FilesNamed(dir, n))
             s == [k \in 1 .. dir[i].size |-> b[dir[i].first * Sector + k - 1]]
  <2>1. i \in in_use(dir)
    BY <1>2, WhereIn, NamedInUse, Zenon
  <2>2. ViewOf(dir, b, n) = [known |-> TRUE, exists |-> TRUE, bytes |-> s]
    BY <1>2, Zenon DEF ViewOf, Holds
  <2> HIDE DEF i
  <2>3. dir[i].size \in Nat /\ dir[i].size <= dir[i].capacity * Sector /\ dir[i].capacity * Sector \in Nat
        /\ dir[i].first * Sector \in Nat
    BY <2>1, Extent, Zenon
  <2>4. ASSUME NEW k \in 1 .. dir[i].size PROVE b[dir[i].first * Sector + k - 1] \in Nat
    <3>1. k - 1 \in Nat /\ k - 1 < dir[i].capacity * Sector
      BY <2>3
    <3>2. dir[i].first * Sector + (k - 1) \in Addresses
      BY <2>1, <3>1, FileAddresses, Zenon
    <3>3. dir[i].first * Sector + k - 1 = dir[i].first * Sector + (k - 1)
      BY <2>3, Zenon
    <3> QED
      BY <3>2, <3>3, Zenon
  <2>5. s \in [1 .. dir[i].size -> Nat]
    BY <2>4, Zenon
  <2> HIDE DEF s
  <2>6. s \in Seq(Nat)
    BY <2>3, <2>5
  <2> QED
    BY <2>2, <2>6 DEF Views
<1> QED
  BY <1>1, <1>2, Zenon

LEMMA ViewSame ==
    ASSUME NEW d, NEW e, NEW b, NEW n, FilesNamed(d, n) = FilesNamed(e, n),
           \A i \in FilesNamed(d, n) : d[i] = e[i]
    PROVE  ViewOf(d, b, n) = ViewOf(e, b, n)
<1>1. CASE FilesNamed(d, n) = {}
  BY <1>1, Zenon DEF ViewOf
<1>2. CASE FilesNamed(d, n) # {}
  <2>1. d[Min(FilesNamed(d, n))] = e[Min(FilesNamed(e, n))]
    BY <1>2, WhereIn, Zenon
  <2> QED
    BY <1>2, <2>1, Zenon DEF ViewOf
<1> QED
  BY <1>1, <1>2, Zenon

LEMMA ViewUnmoved ==
    ASSUME NEW d, NEW b, NEW c, NEW n,
           FilesNamed(d, n) # {} =>
              \A k \in 1 .. d[Min(FilesNamed(d, n))].size :
                 b[d[Min(FilesNamed(d, n))].first * Sector + k - 1] = c[d[Min(FilesNamed(d, n))].first * Sector + k - 1]
    PROVE  ViewOf(d, b, n) = ViewOf(d, c, n)
<1>1. CASE FilesNamed(d, n) = {}
  BY <1>1, Zenon DEF ViewOf
<1>2. CASE FilesNamed(d, n) # {}
  <2> DEFINE i == Min(FilesNamed(d, n))
             s == [k \in 1 .. d[i].size |-> b[d[i].first * Sector + k - 1]]
             t == [k \in 1 .. d[i].size |-> c[d[i].first * Sector + k - 1]]
  <2>1. s = t
    BY <1>2, Zenon
  <2>2. ViewOf(d, b, n) = Holds(s) /\ ViewOf(d, c, n) = Holds(t)
    BY <1>2, Zenon DEF ViewOf
  <2> QED
    BY <2>1, <2>2, Zenon
<1> QED
  BY <1>1, <1>2, Zenon

LEMMA Resized ==
    ASSUME NEW e \in Entries, NEW x \in Nat
    PROVE  /\ [e EXCEPT !.size = x] \in Entries /\ SameFile([e EXCEPT !.size = x], e)
           /\ [e EXCEPT !.size = x].size = x
BY Zenon DEF Entries, SameFile

LEMMA NewSound ==
    ASSUME NEW f \in Nat, Data <= f, f + FileSectors <= DiskSectors, NEW e, e.first = f,
           e.capacity = FileSectors, e.size = 0
    PROVE  ~Corrupt(e)
<1>1. FileSectors * Sector \in Nat
  BY Sizes
<1>2. ~(f < Data) /\ ~(FileSectors > DiskSectors) /\ ~(f > DiskSectors - FileSectors)
  BY Sizes
<1>3. ~(0 > FileSectors * Sector)
  BY <1>1
<1> QED
  BY <1>2, <1>3, Zenon DEF Corrupt

\* A file's size changes within its capacity: nothing else of the directory does.
Resize(d, i, x) == [d EXCEPT ![i].size = x]
IsResize(d, i, x, r) ==
    /\ r \in Directories /\ Apart(r) /\ in_use(r) = in_use(d)
    /\ \A j \in 1 .. DirSize : SameFile(r[j], d[j]) /\ (j # i => r[j] = d[j])
    /\ \A n : FilesNamed(r, n) = FilesNamed(d, n)
    /\ r[i].size = x

LEMMA ResizeKeeps ==
    ASSUME NEW d \in Directories, Apart(d), NEW i \in in_use(d), NEW x \in Nat, x <= d[i].capacity * Sector
    PROVE  IsResize(d, i, x, Resize(d, i, x))
<1> DEFINE r == Resize(d, i, x)
<1>0. r = [d EXCEPT ![i].size = x]
  BY Zenon DEF Resize
<1> HIDE DEF r
<1>1. i \in 1 .. DirSize /\ d[i] \in Entries /\ d[i].name # "" /\ ~Corrupt(d[i])
  BY Extent, Zenon
<1>2. [d[i] EXCEPT !.size = x] \in Entries
  BY <1>1, Resized, Zenon
<1>3. /\ r \in Directories /\ r[i] = [d[i] EXCEPT !.size = x]
      /\ \A j \in 1 .. DirSize : j # i => r[j] = d[j]
  BY <1>0, <1>1, <1>2, Zenon DEF Directories
<1>4. SameFile(r[i], d[i]) /\ r[i].size = x
  BY <1>1, <1>3, Resized, ZenonT(30)
<1>5. \A j \in 1 .. DirSize : SameFile(r[j], d[j])
  BY <1>3, <1>4, Zenon DEF SameFile
<1>6. ~Corrupt(r[i])
  <2>1. d[i].capacity * Sector \in Nat
    BY Extent, Zenon
  <2>2. ~(x > d[i].capacity * Sector)
    BY <2>1
  <2> QED
    BY <1>1, <1>4, <2>2, Zenon DEF Corrupt, SameFile
<1>7. in_use(r) = in_use(d)
  BY <1>1, <1>3, <1>4, <1>6, Zenon DEF in_use, SameFile
<1>8. Apart(r)
  <2>1. \A j \in in_use(r) : j \in in_use(d) /\ r[j].first = d[j].first /\ r[j].capacity = d[j].capacity
    BY <1>5, <1>7, Zenon DEF SameFile, in_use
  <2> QED
    BY <2>1, Zenon DEF Apart
<1>9. \A n : FilesNamed(r, n) = FilesNamed(d, n)
  <2>1. \A j \in in_use(d) : r[j].name = d[j].name
    BY <1>5, Zenon DEF SameFile, in_use
  <2> QED
    BY <1>7, <2>1, Zenon DEF FilesNamed
<1> QED
  BY <1>3, <1>4, <1>5, <1>7, <1>8, <1>9, Zenon DEF IsResize, r

\* A new entry past the last file shares no sector with any.
Added(d, i, n, f) == [d EXCEPT ![i] = [name |-> n, first |-> f, capacity |-> FileSectors, size |-> 0]]
IsAdded(d, i, n, r) ==
    /\ r \in Directories /\ Apart(r) /\ in_use(r) = in_use(d) \cup {i} /\ i \notin in_use(d)
    /\ \A j \in 1 .. DirSize : j # i => r[j] = d[j]
    /\ \A m : m # n => FilesNamed(r, m) = FilesNamed(d, m)
    /\ FilesNamed(r, n) = FilesNamed(d, n) \cup {i}
    /\ r[i].size = 0

LEMMA AddKeeps ==
    ASSUME NEW d \in Directories, Apart(d), NEW i \in 1 .. DirSize, d[i].name = "",
           NEW n \in Names, NEW f \in Nat, Data <= f, f + FileSectors <= DiskSectors,
           \A j \in in_use(d) : d[j].first + d[j].capacity <= f
    PROVE  IsAdded(d, i, n, Added(d, i, n, f))
<1> DEFINE e == [name |-> n, first |-> f, capacity |-> FileSectors, size |-> 0]
           r == Added(d, i, n, f)
<1>1. e \in Entries /\ e.name = n /\ e.first = f /\ e.capacity = FileSectors /\ e.size = 0
  BY Sizes, Zenon DEF Entries
<1>2. r = [d EXCEPT ![i] = e]
  BY Zenon DEF Added
<1> HIDE DEF e, r
<1>3. r \in Directories /\ r[i] = e /\ \A j \in 1 .. DirSize : j # i => r[j] = d[j]
  BY <1>1, <1>2, Zenon DEF Directories
<1>4. n # ""
  BY TfsAssumption, Zenon
<1>5. ~Corrupt(e)
  BY <1>1, NewSound, Zenon
<1>6. in_use(r) = in_use(d) \cup {i} /\ i \notin in_use(d)
  BY <1>1, <1>3, <1>4, <1>5, Zenon DEF in_use
<1>7. Apart(r)
  <2> SUFFICES ASSUME NEW j \in in_use(r), NEW k \in in_use(r), j # k
               PROVE  \/ r[j].first + r[j].capacity <= r[k].first
                      \/ r[k].first + r[k].capacity <= r[j].first
    BY Zenon DEF Apart
  <2>1. \A l \in in_use(d) : l \in 1 .. DirSize /\ l # i /\ r[l] = d[l]
    BY <1>3, <1>6, Zenon DEF in_use
  <2>2. CASE j = i
    BY <1>1, <1>3, <1>6, <2>1, <2>2, Zenon
  <2>3. CASE k = i
    BY <1>1, <1>3, <1>6, <2>1, <2>3, Zenon
  <2>4. CASE j # i /\ k # i
    BY <1>6, <2>1, <2>4, Zenon DEF Apart
  <2> QED
    BY <2>2, <2>3, <2>4, Zenon
<1>8. \A m : m # n => FilesNamed(r, m) = FilesNamed(d, m)
  <2>1. \A l \in in_use(d) : r[l] = d[l]
    BY <1>3, <1>6, Zenon DEF in_use
  <2> QED
    BY <1>1, <1>3, <1>6, <2>1, Zenon DEF FilesNamed
<1>9. FilesNamed(r, n) = FilesNamed(d, n) \cup {i}
  <2>1. \A l \in in_use(d) : r[l] = d[l]
    BY <1>3, <1>6, Zenon DEF in_use
  <2> QED
    BY <1>1, <1>3, <1>6, <2>1, Zenon DEF FilesNamed
<1> QED
  BY <1>1, <1>3, <1>6, <1>7, <1>8, <1>9, Zenon DEF IsAdded, r

\* Where fs_open() places a new file is past every file in use.
LEMMA NextFreePast ==
    ASSUME directory \in Directories
    PROVE  /\ NextFree \in Nat /\ Data <= NextFree
           /\ \A j \in in_use(directory) : directory[j].first + directory[j].capacity <= NextFree
<1> DEFINE S == {Data} \cup {directory[i].first + directory[i].capacity : i \in in_use(directory)}
           B == Data + DiskSectors
<1>1. \A x \in S : x \in Nat /\ x <= B
  <2>1. \A i \in in_use(directory) :
           /\ directory[i].first \in Nat /\ directory[i].capacity \in Nat
           /\ directory[i].first + directory[i].capacity <= DiskSectors
    <3> SUFFICES ASSUME NEW i \in in_use(directory)
                 PROVE  /\ directory[i].first \in Nat /\ directory[i].capacity \in Nat
                        /\ directory[i].first + directory[i].capacity <= DiskSectors
      BY Zenon
    <3> DEFINE f == directory[i].first
               c == directory[i].capacity
    <3>1. ~Corrupt(directory[i]) /\ directory[i] \in Entries /\ directory[i].name # ""
      BY Extent, Zenon
    <3>2. ~(f > DiskSectors - c)
      BY <3>1, Zenon DEF Corrupt
    <3>3. f \in Nat /\ c \in Nat
      BY <3>1, Zenon DEF Entries
    <3> HIDE DEF f, c
    <3>4. f + c <= DiskSectors
      BY <3>2, <3>3, Sizes
    <3> QED
      BY <3>3, <3>4, Zenon DEF f, c
  <2> QED
    BY <2>1, Sizes
<1>2. B \in Nat
  BY Sizes
<1>3. NextFree = Max(S)
  BY Zenon DEF NextFree
<1>4. Data \in S /\ \A j \in in_use(directory) : directory[j].first + directory[j].capacity \in S
  BY Zenon
<1> HIDE DEF S, B
<1> DEFINE T == {B - x : x \in S}
<1>5. T \in SUBSET Nat
  BY <1>1, <1>2
<1>6. T # {}
  BY <1>4, Zenon
<1>7. PICK z \in T : \A y \in T : z <= y
  BY <1>5, <1>6, LeastNat, Zenon
<1>8. PICK x \in S : z = B - x
  BY <1>7, Zenon
<1>9. \A y \in S : y <= x
  <2> SUFFICES ASSUME NEW y \in S PROVE y <= x
    BY Zenon
  <2>1. B - y \in T
    BY Zenon
  <2>2. B - x <= B - y
    BY <1>7, <1>8, <2>1, Zenon
  <2> QED
    BY <1>1, <1>2, <2>2
<1>10. Max(S) \in S /\ \A y \in S : y <= Max(S)
  <2>1. \E m \in S : \A y \in S : m >= y
    BY <1>1, <1>9, Zenon
  <2>2. Max(S) \in S /\ \A y \in S : Max(S) >= y
    BY <2>1, Zenon DEF Max
  <2> QED
    BY <1>1, <2>2, Zenon
<1> QED
  BY <1>1, <1>3, <1>4, <1>10, Zenon

-----------------------------------------------------------------------------
(* What a step leaves as it was. *)

LEMMA ViewIs == \A dir, n : View(dir, n) = ViewOf(dir, bytes, n)
BY Zenon DEF View, ViewOf

LEMMA DiskSame == DiskInv /\ UNCHANGED <<ondisk, bytes, original, kept>> => DiskInv'
BY Zenon DEF DiskInv

LEMMA MountedSame == MountedInv /\ UNCHANGED <<directory, ondisk, bytes, original, text>> => MountedInv'
BY Zenon DEF MountedInv

LEMMA FileSame ==
    ASSUME NEW n \in Names, FileInv(n), files'[n] = files[n], UNCHANGED <<directory, kept>>
    PROVE  FileInv(n)'
BY Zenon DEF FileInv

LEMMA NoCall == op'.kind = "none" => CallInv'
BY Zenon DEF CallInv

\* fs_flush() leaves the old directory on the disk or the new one, and what is kept is
\* in both.
LEMMA FlushKeeps ==
    ASSUME TfsType, DiskInv, NEW dir \in Directories, Apart(dir), NEW visible \in [Names -> Views], NEW writing,
           fs_flush(dir, visible, writing), UNCHANGED <<bytes, original>>,
           \A i \in 1 .. DirSize : Corrupt(original[i]) => dir[i] = original[i],
           \A n \in Names : visible[n].known => ViewOf(dir, bytes, n) = visible[n]
    PROVE  /\ ondisk' \in Directories /\ ondisk' \in {ondisk, dir} /\ alive' \in BOOLEAN
           /\ kept' \in [Names -> Views] /\ DiskInv'
           /\ \A n \in Names : n \in writing => ~kept'[n].known
<1>1. alive \in BOOLEAN /\ ondisk \in Directories /\ kept \in [Names -> Views]
  BY Zenon DEF TfsType
<1>2. Unsure \in Views /\ ~Unsure.known
  <2>1. <<>> \in Seq(Nat)
    OBVIOUS
  <2> QED
    BY <2>1, Zenon DEF Unsure, Views
<1>3. /\ Apart(ondisk)
      /\ \A i \in 1 .. DirSize : Corrupt(original[i]) => ondisk[i] = original[i]
      /\ \A n \in Names : kept[n].known => ViewOf(ondisk, bytes, n) = kept[n]
  BY Zenon DEF DiskInv
<1>4. CASE /\ TransferOk /\ ondisk' = dir
           /\ kept' = [n \in Names |-> IF n \in writing THEN Unsure ELSE visible[n]]
  <2>1. alive' \in BOOLEAN
    BY <1>1, <1>4, Zenon DEF TransferOk
  <2>2. kept' \in [Names -> Views] /\ \A n \in Names : kept'[n] = IF n \in writing THEN Unsure ELSE visible[n]
    BY <1>2, <1>4, Zenon
  <2>3. \A n \in Names : kept'[n].known => ViewOf(dir, bytes, n) = kept'[n]
    BY <1>2, <2>2, Zenon
  <2>4. DiskInv'
    BY <1>4, <2>3, Zenon DEF DiskInv
  <2> QED
    BY <1>2, <1>4, <2>1, <2>2, <2>4, Zenon
<1>5. CASE /\ \E spent \in BOOLEAN : FaultAt(spent)
           /\ ondisk' \in IF alive THEN {ondisk, dir} ELSE {ondisk}
           /\ kept' = [n \in Names |-> IF kept[n] = visible[n] /\ n \notin writing THEN kept[n] ELSE Unsure]
  <2>1. alive' \in BOOLEAN
    BY <1>1, <1>5, Zenon DEF FaultAt
  <2>2. /\ kept' \in [Names -> Views]
        /\ \A n \in Names : kept'[n] = IF kept[n] = visible[n] /\ n \notin writing THEN kept[n] ELSE Unsure
    BY <1>1, <1>2, <1>5, Zenon
  <2>3. ondisk' \in {ondisk, dir}
    BY <1>5, Zenon
  <2>4. \A n \in Names : kept'[n].known => kept'[n] = kept[n] /\ kept[n] = visible[n]
    BY <1>2, <2>2, Zenon
  <2>5. CASE ondisk' = ondisk
    <3>1. \A n \in Names : kept'[n].known => ViewOf(ondisk', bytes', n) = kept'[n]
      BY <1>3, <2>4, <2>5, Zenon
    <3>2. DiskInv'
      BY <1>3, <2>5, <3>1, Zenon DEF DiskInv
    <3> QED
      BY <1>1, <1>2, <2>1, <2>2, <2>5, <3>2, Zenon
  <2>6. CASE ondisk' = dir
    <3>1. \A n \in Names : kept'[n].known => ViewOf(ondisk', bytes', n) = kept'[n]
      BY <2>4, <2>6, Zenon
    <3>2. DiskInv'
      BY <2>6, <3>1, Zenon DEF DiskInv
    <3> QED
      BY <1>2, <2>1, <2>2, <2>6, <3>2, Zenon
  <2> QED
    BY <2>3, <2>5, <2>6, Zenon
<1> QED
  BY <1>4, <1>5, Zenon DEF fs_flush

LEMMA MountKeeps == TfsInv /\ fs_mount => TfsInv'
<1> SUFFICES ASSUME TfsInv, fs_mount PROVE TfsInv'
  BY Zenon
<1>1. TfsType /\ DiskInv /\ op.kind = "none" /\ \A n \in Names : files[n].mode = "none"
  BY Zenon DEF TfsInv, fs_mount
<1>2. UNCHANGED <<ondisk, bytes, files, op, original>>
  BY Zenon DEF fs_mount
<1>3. CASE /\ TransferOk /\ directory' = ondisk /\ mounted' = "yes"
           /\ text' = [n \in Names |-> View(ondisk, n)] /\ kept' = text'
  <2>1. \A n \in Names : text'[n] = ViewOf(ondisk, bytes, n)
    BY <1>3, ViewIs, Zenon
  <2>2. text' \in [Names -> Views]
    <3>1. \A n \in Names : ViewOf(ondisk, bytes, n) \in Views
      BY <1>1, ViewIn, Zenon DEF TfsType
    <3>2. \A n \in Names : text'[n] \in Views
      BY <2>1, <3>1, Zenon
    <3> QED
      BY <1>3, <3>2, Zenon
  <2>3. TfsType'
    BY <1>1, <1>2, <1>3, <2>2, Zenon DEF TfsType, TransferOk
  <2>4. DiskInv'
    BY <1>1, <1>2, <1>3, <2>1, Zenon DEF DiskInv
  <2>5. MountedInv'
    BY <1>1, <1>2, <1>3, <2>1, Zenon DEF MountedInv, DiskInv, SameFile
  <2>6. \A n \in Names : FileInv(n)'
    BY <1>1, <1>2, Zenon DEF FileInv
  <2> QED
    BY <1>1, <1>2, <1>3, <2>3, <2>4, <2>5, <2>6, NoCall, Zenon DEF TfsInv
<1>4. CASE /\ \E spent \in BOOLEAN : FaultAt(spent)
           /\ mounted' = "no" /\ UNCHANGED <<directory, text, kept>>
  <2>1. alive' \in BOOLEAN
    BY <1>1, <1>4, Zenon DEF FaultAt, TfsType
  <2>2. TfsType'
    BY <1>1, <1>2, <1>4, <2>1, Zenon DEF TfsType
  <2> QED
    BY <1>1, <1>2, <1>4, <2>2, DiskSame, Zenon DEF TfsInv
<1> QED
  BY <1>3, <1>4, Zenon DEF fs_mount

LEMMA RestartKeeps == TfsInv /\ Restart => TfsInv'
<1> SUFFICES ASSUME TfsInv, Restart PROVE TfsInv'
  BY Zenon
<1>1. TfsType /\ DiskInv
  BY Zenon DEF TfsInv
<1>2. /\ mounted' = "boot" /\ files' = [n \in Names |-> ClosedFile] /\ op' = NoOp /\ alive' = TRUE
      /\ UNCHANGED <<directory, ondisk, bytes, original, text, kept>>
  BY Zenon DEF Restart
<1>3. NoOp \in [kind : {"none", "read", "write"}, name : Names \cup {""}, from : Seq(Nat), done : Nat,
                aligned : BOOLEAN] /\ NoOp.kind = "none"
  <2>1. <<>> \in Seq(Nat)
    OBVIOUS
  <2> QED
    BY <2>1, Zenon DEF NoOp
<1>4. ClosedFile \in [mode : {"none", "read", "write"}, file : Nat, position : Nat] /\ ClosedFile.mode = "none"
  BY Zenon DEF ClosedFile
<1>5. TfsType'
  BY <1>1, <1>2, <1>3, <1>4, Zenon DEF TfsType
<1> QED
  BY <1>1, <1>2, <1>3, <1>4, <1>5, DiskSame, Zenon DEF TfsInv

LEMMA OpenOldKeeps ==
    ASSUME TfsInv, NEW n \in Names, NEW mode \in {"read", "write"}, OpenOld(n, mode)
    PROVE  TfsInv'
<1> DEFINE i == Min(FilesNamed(directory, n))
           fd == [mode |-> mode, file |-> i, position |-> 0]
<1>1. /\ TfsType /\ DiskInv /\ MountedInv /\ (\A m \in Names : FileInv(m))
      /\ mounted = "yes" /\ op.kind = "none" /\ FilesNamed(directory, n) # {}
  BY Zenon DEF TfsInv, OpenOld, Ready
<1>2. /\ files' = [files EXCEPT ![n] = fd]
      /\ directory' = IF mode = "write" THEN [directory EXCEPT ![i].size = 0] ELSE directory
      /\ text' = IF mode = "write" THEN [text EXCEPT ![n] = Holds(<<>>)] ELSE text
      /\ kept' = IF mode = "write" THEN [kept EXCEPT ![n] = Unsure] ELSE kept
      /\ UNCHANGED <<mounted, ondisk, bytes, alive, op, original>>
  BY Zenon DEF OpenOld
<1>3. i \in FilesNamed(directory, n) /\ i \in in_use(directory) /\ directory[i].name = n
  BY <1>1, WhereIn, NamedInUse
<1>4. i \in Nat /\ i \in 1 .. DirSize /\ directory \in Directories /\ directory[i].size \in Nat
  <2>1. directory \in Directories
    BY <1>1, Zenon DEF TfsType
  <2>2. i \in 1 .. DirSize /\ directory[i].size \in Nat
    BY <1>3, <2>1, Extent, Zenon
  <2> HIDE DEF i
  <2>3. i \in Nat
    BY <2>2, Sizes
  <2> QED
    BY <2>1, <2>2, <2>3, Zenon
<1>5. fd \in [mode : {"none", "read", "write"}, file : Nat, position : Nat]
  BY <1>4, Zenon
<1>6. fd.mode = mode /\ fd.file = i /\ fd.position = 0
  BY Zenon
<1> HIDE DEF fd
<1>7. /\ files' \in [Names -> [mode : {"none", "read", "write"}, file : Nat, position : Nat]]
      /\ files'[n] = fd /\ \A m \in Names : m # n => files'[m] = files[m]
  BY <1>1, <1>2, <1>5, Zenon DEF TfsType
<1>8. CASE mode = "read"
  <2>1. UNCHANGED <<directory, text, kept>>
    BY <1>2, <1>8, Zenon
  <2>2. TfsType'
    BY <1>1, <1>2, <1>7, <2>1, Zenon DEF TfsType
  <2>3. DiskInv' /\ MountedInv'
    BY <1>1, <1>2, <2>1, DiskSame, MountedSame, Zenon
  <2>4. ASSUME NEW m \in Names PROVE FileInv(m)'
    <3>1. CASE m = n
      BY <1>1, <1>4, <1>6, <1>7, <1>8, <2>1, <3>1 DEF FileInv
    <3>2. CASE m # n
      BY <1>1, <1>7, <2>1, <3>2, FileSame, Zenon
    <3> QED
      BY <3>1, <3>2, Zenon
  <2> QED
    BY <1>1, <1>2, <2>2, <2>3, <2>4, NoCall, Zenon DEF TfsInv
<1>9. CASE mode = "write"
  <2>1. /\ directory' = [directory EXCEPT ![i].size = 0]
        /\ text' = [text EXCEPT ![n] = Holds(<<>>)] /\ kept' = [kept EXCEPT ![n] = Unsure]
    BY <1>2, <1>9, Zenon
  <2>2. <<>> \in Seq(Nat)
    OBVIOUS
  <2>3. Holds(<<>>) \in Views /\ Unsure \in Views /\ ~Unsure.known
    BY <2>2, Zenon DEF Holds, Unsure, Views
  <2>4. /\ text' \in [Names -> Views] /\ text'[n] = Holds(<<>>) /\ \A m \in Names : m # n => text'[m] = text[m]
        /\ kept' \in [Names -> Views] /\ kept'[n] = Unsure /\ \A m \in Names : m # n => kept'[m] = kept[m]
    BY <1>1, <2>1, <2>3, Zenon DEF TfsType
  <2>5. 0 <= directory[i].capacity * Sector /\ Apart(directory)
    <3>1. directory[i].capacity * Sector \in Nat
      BY <1>3, <1>4, Extent, Zenon
    <3>2. 0 <= directory[i].capacity * Sector
      BY <3>1
    <3> QED
      BY <1>1, <3>2, Zenon DEF MountedInv
  <2>6. /\ directory' \in Directories /\ Apart(directory') /\ in_use(directory') = in_use(directory)
        /\ \A j \in 1 .. DirSize : SameFile(directory'[j], directory[j]) /\ (j # i => directory'[j] = directory[j])
        /\ \A m : FilesNamed(directory', m) = FilesNamed(directory, m)
        /\ directory'[i].size = 0
    <3> HIDE DEF i
    <3>1. IsResize(directory, i, 0, Resize(directory, i, 0))
      BY <1>3, <1>4, <2>5, ResizeKeeps, Zenon
    <3>2. directory' = Resize(directory, i, 0)
      BY <2>1, Zenon DEF Resize
    <3>3. IsResize(directory, i, 0, directory')
      BY <3>1, <3>2, Zenon
    <3> QED
      BY <3>3, Zenon DEF IsResize
  <2>7. TfsType'
    BY <1>1, <1>2, <1>7, <2>4, <2>6, Zenon DEF TfsType
  <2>8. DiskInv'
    BY <1>1, <1>2, <2>3, <2>4, Zenon DEF DiskInv
  <2>9. MountedInv'
    <3>1. ASSUME NEW j \in 1 .. DirSize, Corrupt(original[j]) PROVE directory'[j] = original[j]
      <4>1. directory[j] = original[j]
        BY <1>1, <3>1, Zenon DEF MountedInv
      <4>2. j # i
        BY <1>3, <3>1, <4>1, Zenon DEF in_use
      <4> QED
        BY <2>6, <4>1, <4>2, Zenon
    <3>2. ASSUME NEW j \in in_use(ondisk) PROVE j \in in_use(directory') /\ SameFile(directory'[j], ondisk[j])
      <4>1. j \in in_use(directory) /\ SameFile(directory[j], ondisk[j]) /\ j \in 1 .. DirSize
        BY <1>1, Zenon DEF MountedInv, in_use
      <4> QED
        BY <2>6, <4>1, Zenon DEF SameFile
    <3>3. ASSUME NEW m \in Names, text'[m].known PROVE ViewOf(directory', bytes, m) = text'[m]
      <4>1. CASE m = n
        <5>1. ViewOf(directory', bytes, n) = Holds([k \in 1 .. 0 |-> bytes[directory'[i].first * Sector + k - 1]])
          BY <1>1, <2>6, Zenon DEF ViewOf
        <5>2. [k \in 1 .. 0 |-> bytes[directory'[i].first * Sector + k - 1]] = <<>>
          OBVIOUS
        <5> QED
          BY <2>4, <4>1, <5>1, <5>2, Zenon
      <4>2. CASE m # n
        <5>1. \A j \in FilesNamed(directory', m) : directory'[j] = directory[j]
          BY <1>3, <2>6, <4>2, ZenonT(30) DEF FilesNamed, in_use
        <5>2. ViewOf(directory', bytes, m) = ViewOf(directory, bytes, m)
          BY <2>6, <5>1, ViewSame
        <5> QED
          BY <1>1, <2>4, <3>3, <4>2, <5>2, Zenon DEF MountedInv
      <4> QED
        BY <4>1, <4>2, Zenon
    <3> QED
      BY <1>2, <2>6, <3>1, <3>2, <3>3, Zenon DEF MountedInv
  <2>10. ASSUME NEW m \in Names PROVE FileInv(m)'
    <3>1. CASE m = n
      <4>1. files'[n].file = i /\ files'[n].position = 0
        BY <1>6, <1>7, Zenon
      <4>2. files'[n].position <= directory'[files'[n].file].size
        BY <2>6, <4>1
      <4>3. FilesNamed(directory', n) = FilesNamed(directory, n) /\ ~kept'[n].known
        BY <2>3, <2>4, <2>6, Zenon
      <4>4. files'[n].file = Min(FilesNamed(directory', n))
        BY <4>1, <4>3, Zenon
      <4> QED
        BY <1>1, <3>1, <4>2, <4>3, <4>4, Zenon DEF FileInv
    <3>2. CASE m # n /\ files[m].mode # "none"
      <4>1. FileInv(m)
        BY <1>1, Zenon
      <4>2. files[m].file \in FilesNamed(directory, m)
        BY <3>2, <4>1, WhereIn, Zenon DEF FileInv
      <4>3. files[m].file # i /\ files[m].file \in 1 .. DirSize
        BY <1>3, <3>2, <4>2, Zenon DEF FilesNamed, in_use
      <4> QED
        BY <1>7, <2>4, <2>6, <3>2, <4>1, <4>3 DEF FileInv
    <3>3. CASE m # n /\ files[m].mode = "none"
      BY <1>7, <3>3, Zenon DEF FileInv
    <3> QED
      BY <3>1, <3>2, <3>3, Zenon
  <2> QED
    BY <1>1, <1>2, <2>7, <2>8, <2>9, <2>10, NoCall, Zenon DEF TfsInv
<1> QED
  BY <1>8, <1>9, Zenon

LEMMA OpenNewKeeps ==
    ASSUME TfsInv, NEW n \in Names, OpenNew(n)
    PROVE  TfsInv'
<1> DEFINE i == Min(FreeSlots)
           fd == [mode |-> "write", file |-> i, position |-> 0]
           dir == directory'
<1>1. /\ TfsType /\ DiskInv /\ MountedInv /\ (\A m \in Names : FileInv(m))
      /\ mounted = "yes" /\ op.kind = "none" /\ FilesNamed(directory, n) = {}
      /\ files[n].mode = "none" /\ FreeSlots # {} /\ NextFree + FileSectors <= DiskSectors
  BY Zenon DEF TfsInv, OpenNew, Ready
<1>2. /\ directory' = [directory EXCEPT ![i] =
                          [name |-> n, first |-> NextFree, capacity |-> FileSectors, size |-> 0]]
      /\ text' = [text EXCEPT ![n] = Holds(<<>>)]
      /\ fs_flush(directory', text', Writing \cup {n})
      /\ files' = files \/ files' = [files EXCEPT ![n] = fd]
      /\ UNCHANGED <<mounted, bytes, op, original>>
  BY Zenon DEF OpenNew
<1>3. i \in 1 .. DirSize /\ directory[i].name = "" /\ i \in Nat
  <2>1. FreeSlots \in SUBSET Nat
    <3>1. FreeSlots \subseteq 1 .. DirSize
      BY Zenon DEF FreeSlots
    <3>2. 1 .. DirSize \subseteq Nat
      BY Sizes
    <3> QED
      BY <3>1, <3>2, Zenon
  <2>2. \E x \in FreeSlots : \A y \in FreeSlots : x <= y
    BY <1>1, <2>1, LeastNat, Zenon
  <2>3. i \in FreeSlots
    BY <2>2, Zenon DEF Min
  <2> QED
    BY <2>1, <2>3, Zenon DEF FreeSlots
<1>4. directory \in Directories /\ Apart(directory)
  BY <1>1, Zenon DEF TfsType, MountedInv
<1>5. /\ NextFree \in Nat /\ Data <= NextFree
      /\ \A j \in in_use(directory) : directory[j].first + directory[j].capacity <= NextFree
  BY <1>4, NextFreePast, Zenon
<1>6. /\ dir \in Directories /\ Apart(dir) /\ in_use(dir) = in_use(directory) \cup {i} /\ i \notin in_use(directory)
      /\ \A j \in 1 .. DirSize : j # i => dir[j] = directory[j]
      /\ \A m : m # n => FilesNamed(dir, m) = FilesNamed(directory, m)
      /\ FilesNamed(dir, n) = FilesNamed(directory, n) \cup {i}
      /\ dir[i].size = 0
  <2> DEFINE f == NextFree
  <2>1. /\ f \in Nat /\ Data <= f /\ f + FileSectors <= DiskSectors
        /\ \A j \in in_use(directory) : directory[j].first + directory[j].capacity <= f
    BY <1>1, <1>5, Zenon
  <2>2. dir = Added(directory, i, n, f)
    BY <1>2, Zenon DEF Added
  <2> HIDE DEF f, dir, i
  <2>3. IsAdded(directory, i, n, Added(directory, i, n, f))
    BY <1>3, <1>4, <2>1, AddKeeps, Zenon
  <2>4. IsAdded(directory, i, n, dir)
    BY <2>2, <2>3, Zenon
  <2> QED
    BY <2>4, Zenon DEF IsAdded
<1>7. fd \in [mode : {"none", "read", "write"}, file : Nat, position : Nat]
      /\ fd.mode = "write" /\ fd.file = i /\ fd.position = 0
  BY <1>3, Zenon
<1> HIDE DEF fd
<1>8. /\ files' \in [Names -> [mode : {"none", "read", "write"}, file : Nat, position : Nat]]
      /\ files'[n] \in {files[n], fd} /\ \A m \in Names : m # n => files'[m] = files[m]
  BY <1>1, <1>2, <1>7, ZenonT(30) DEF TfsType
<1>9. <<>> \in Seq(Nat)
  OBVIOUS
<1>10. Holds(<<>>) \in Views
  BY <1>9, Zenon DEF Holds, Views
<1>11. text' \in [Names -> Views] /\ text'[n] = Holds(<<>>) /\ \A m \in Names : m # n => text'[m] = text[m]
  BY <1>1, <1>2, <1>10, Zenon DEF TfsType
<1>12. \A j \in in_use(directory) : j \in 1 .. DirSize /\ j # i /\ dir[j] = directory[j]
  BY <1>6, Zenon DEF in_use
<1>13. ASSUME NEW m \in Names, text'[m].known PROVE ViewOf(dir, bytes, m) = text'[m]
  <2>1. CASE m = n
    <3>1. FilesNamed(dir, n) = {i}
      BY <1>1, <1>6, Zenon
    <3>2. Min({i}) = i
      BY <3>1, WhereIn, Zenon
    <3>3. ViewOf(dir, bytes, n) = Holds([k \in 1 .. 0 |-> bytes[dir[i].first * Sector + k - 1]])
      BY <1>6, <3>1, <3>2, Zenon DEF ViewOf
    <3>4. [k \in 1 .. 0 |-> bytes[dir[i].first * Sector + k - 1]] = <<>>
      OBVIOUS
    <3> QED
      BY <1>11, <2>1, <3>3, <3>4, Zenon
  <2>2. CASE m # n
    <3>1. FilesNamed(dir, m) = FilesNamed(directory, m)
      BY <1>6, <2>2, Zenon
    <3>2. \A j \in FilesNamed(dir, m) : dir[j] = directory[j]
      BY <1>12, <3>1, Zenon DEF FilesNamed
    <3>3. ViewOf(dir, bytes, m) = ViewOf(directory, bytes, m)
      BY <3>1, <3>2, ViewSame
    <3> QED
      BY <1>1, <1>11, <1>13, <2>2, <3>3, Zenon DEF MountedInv
  <2> QED
    BY <2>1, <2>2, Zenon
<1>14. ASSUME NEW j \in 1 .. DirSize, Corrupt(original[j]) PROVE dir[j] = original[j]
  <2>1. directory[j] = original[j]
    BY <1>1, <1>14, Zenon DEF MountedInv
  <2>2. j # i
    BY <1>3, <1>14, <2>1, Zenon DEF Corrupt
  <2> QED
    BY <1>6, <2>1, <2>2, Zenon
<1>15. /\ ondisk' \in Directories /\ ondisk' \in {ondisk, dir} /\ alive' \in BOOLEAN
       /\ kept' \in [Names -> Views] /\ DiskInv'
       /\ \A m \in Names : m \in Writing \cup {n} => ~kept'[m].known
  <2> DEFINE visible == text'
             writing == Writing \cup {n}
  <2>1. fs_flush(dir, visible, writing) /\ visible \in [Names -> Views]
        /\ \A m \in Names : visible[m].known => ViewOf(dir, bytes, m) = visible[m]
    BY <1>2, <1>11, <1>13, ZenonT(30)
  <2>2. UNCHANGED <<bytes, original>>
    BY <1>2, Zenon
  <2>3. TfsType /\ DiskInv
    BY <1>1, Zenon
  <2> HIDE DEF visible, writing, dir
  <2>4. /\ ondisk' \in Directories /\ ondisk' \in {ondisk, dir} /\ alive' \in BOOLEAN
        /\ kept' \in [Names -> Views] /\ DiskInv'
        /\ \A m \in Names : m \in writing => ~kept'[m].known
    BY <1>6, <1>14, <2>1, <2>2, <2>3, FlushKeeps, Zenon
  <2> QED
    BY <2>4, Zenon DEF writing
<1>16. TfsType'
  BY <1>1, <1>2, <1>6, <1>8, <1>11, <1>15, ZenonT(30) DEF TfsType
<1>17. MountedInv'
  <2>1. ASSUME NEW j \in in_use(ondisk') PROVE j \in in_use(dir) /\ SameFile(dir[j], ondisk'[j])
    <3>1. CASE ondisk' = dir
      BY <3>1, Zenon DEF SameFile
    <3>2. CASE ondisk' = ondisk
      <4>1. j \in in_use(directory) /\ SameFile(directory[j], ondisk[j])
        BY <1>1, <3>2, Zenon DEF MountedInv
      <4> QED
        BY <1>6, <1>12, <3>2, <4>1, Zenon
    <3> QED
      BY <1>15, <3>1, <3>2, Zenon
  <2> QED
    BY <1>2, <1>6, <1>13, <1>14, <2>1, Zenon DEF MountedInv
<1>18. ASSUME NEW m \in Names PROVE FileInv(m)'
  <2>1. CASE m = n
    <3>1. FilesNamed(dir, n) = {i}
      BY <1>1, <1>6, Zenon
    <3>2. Min({i}) = i
      BY <3>1, WhereIn, Zenon
    <3>3. ~kept'[n].known
      BY <1>15, Zenon
    <3>4. CASE files'[n] = files[n]
      BY <1>1, <2>1, <3>4, Zenon DEF FileInv
    <3>5. CASE files'[n] = fd
      <4>1. fd.position <= dir[i].size
        BY <1>6, <1>7
      <4> QED
        BY <1>7, <2>1, <3>1, <3>2, <3>3, <3>5, <4>1, Zenon DEF FileInv
    <3> QED
      BY <1>8, <3>4, <3>5, Zenon
  <2>2. CASE m # n /\ files[m].mode # "none"
    <3>1. FileInv(m) /\ files'[m] = files[m] /\ FilesNamed(dir, m) = FilesNamed(directory, m)
      BY <1>1, <1>6, <1>8, <2>2, Zenon
    <3>2. files[m].file \in in_use(directory)
      BY <2>2, <3>1, WhereIn, NamedInUse DEF FileInv
    <3>3. dir[files[m].file] = directory[files[m].file]
      BY <1>12, <3>2, Zenon
    <3>4. files[m].mode = "write" => ~kept'[m].known
      BY <1>15, Zenon DEF Writing
    <3> QED
      BY <2>2, <3>1, <3>3, <3>4, Zenon DEF FileInv
  <2>3. CASE m # n /\ files[m].mode = "none"
    BY <1>8, <2>3, Zenon DEF FileInv
  <2> QED
    BY <2>1, <2>2, <2>3, Zenon
<1> QED
  BY <1>1, <1>2, <1>15, <1>16, <1>17, <1>18, NoCall, Zenon DEF TfsInv

\* The calls that change neither a directory nor a byte: what files and op become.
LEMMA QuietKeeps ==
    ASSUME TfsInv, mounted = "yes", UNCHANGED <<directory, mounted, ondisk, bytes, original, text, kept>>,
           alive' \in BOOLEAN,
           files' \in [Names -> [mode : {"none", "read", "write"}, file : Nat, position : Nat]],
           op' \in [kind : {"none", "read", "write"}, name : Names \cup {""}, from : Seq(Nat), done : Nat,
                    aligned : BOOLEAN],
           \A n \in Names : FileInv(n)', CallInv'
    PROVE  TfsInv'
<1>1. TfsType /\ DiskInv /\ MountedInv
  BY Zenon DEF TfsInv
<1>2. TfsType'
  BY <1>1, Zenon DEF TfsType
<1>3. DiskInv' /\ MountedInv'
  BY <1>1, DiskSame, MountedSame, Zenon
<1> QED
  BY <1>2, <1>3, Zenon DEF TfsInv

LEMMA StartCallKeeps ==
    ASSUME TfsInv, NEW n \in Names, NEW mode \in {"read", "write"}, NEW from \in Seq(Nat),
           NEW aligned \in BOOLEAN, StartCall(n, mode, from, aligned)
    PROVE  TfsInv'
<1>1. TfsType /\ mounted = "yes" /\ files[n].mode = mode /\ \A m \in Names : FileInv(m)
  BY Zenon DEF TfsInv, StartCall, Ready
<1>2. /\ op' = [kind |-> mode, name |-> n, from |-> from, done |-> 0, aligned |-> aligned]
      /\ UNCHANGED <<directory, mounted, ondisk, bytes, alive, files, original, text, kept>>
  BY Zenon DEF StartCall
<1>3. op' \in [kind : {"none", "read", "write"}, name : Names \cup {""}, from : Seq(Nat), done : Nat,
               aligned : BOOLEAN]
  BY <1>2, Zenon
<1>f. op'.kind = mode /\ op'.name = n /\ op'.from = from /\ op'.done = 0
  BY <1>2, Zenon
<1>4. \A m \in Names : FileInv(m)'
  BY <1>1, <1>2, FileSame, Zenon
<1>5. CallInv'
  <2>1. files[n].position \in Nat
    BY <1>1, Zenon DEF TfsType
  <2>7. Len(from) \in Nat
    OBVIOUS
  <2>2. files[n].position <= directory[files[n].file].size
    BY <1>1, Zenon DEF FileInv
  <2>3. op'.done <= Len(op'.from)
    <3>1. 0 <= Len(from)
      BY <2>7
    <3> QED
      BY <1>f, <3>1, Zenon
  <2>4. At' = files[n].position + 0 /\ Entry' = directory[files[n].file]
    BY <1>2, <1>f, Zenon DEF At, Entry
  <2>5. At' <= (Entry').size
    BY <2>1, <2>2, <2>4
  <2>6. \A k \in 1 .. op'.done : FALSE
    <3>1. \A k \in 1 .. 0 : FALSE
      OBVIOUS
    <3> QED
      BY <1>f, <3>1, Zenon
  <2> QED
    BY <1>1, <1>2, <1>f, <2>3, <2>5, <2>6, Zenon DEF CallInv
<1> QED
  BY <1>1, <1>2, <1>3, <1>4, <1>5, QuietKeeps, Zenon DEF TfsType

LEMMA SeekKeeps ==
    ASSUME TfsInv, NEW n \in Names, NEW offset \in Int, NEW whence \in {"start", "current", "end"},
           seek_file(n, offset, whence)
    PROVE  TfsInv'
<1> DEFINE size == directory[files[n].file].size
           to == offset + (CASE whence = "start" -> 0
                             [] whence = "current" -> files[n].position
                             [] whence = "end" -> size)
           fd == [files[n] EXCEPT !.position = to]
<1>1. /\ TfsType /\ mounted = "yes" /\ op.kind = "none" /\ files[n].mode # "none"
      /\ FileInv(n) /\ \A m \in Names : FileInv(m)
  BY Zenon DEF TfsInv, seek_file, Ready
<1>2. /\ to >= 0 /\ to <= size /\ files' = [files EXCEPT ![n].position = to]
      /\ UNCHANGED <<directory, mounted, ondisk, bytes, alive, op, original, text, kept>>
  BY Zenon DEF seek_file
<1>3. files[n] \in [mode : {"none", "read", "write"}, file : Nat, position : Nat]
  BY <1>1, Zenon DEF TfsType
<1>4. size \in Nat
  <2>1. files[n].file \in in_use(directory)
    BY <1>1, WhereIn, NamedInUse DEF FileInv
  <2> QED
    BY <1>1, <2>1, Extent, Zenon DEF TfsType
<1>5. to \in Int
  BY <1>3, <1>4
<1> HIDE DEF to, size
<1>6. to \in Nat
  BY <1>2, <1>5
<1>7. /\ fd \in [mode : {"none", "read", "write"}, file : Nat, position : Nat]
      /\ fd.mode = files[n].mode /\ fd.file = files[n].file /\ fd.position = to
  BY <1>3, <1>6, Zenon
<1>8. files' = [files EXCEPT ![n] = fd]
  BY <1>2, Zenon
<1> HIDE DEF fd
<1>9. /\ files' \in [Names -> [mode : {"none", "read", "write"}, file : Nat, position : Nat]]
      /\ files'[n] = fd /\ \A m \in Names : m # n => files'[m] = files[m]
  BY <1>1, <1>7, <1>8, Zenon DEF TfsType
<1>10. ASSUME NEW m \in Names PROVE FileInv(m)'
  <2>1. CASE m = n
    <3>1. fd.position <= directory[fd.file].size
      BY <1>2, <1>7, Zenon DEF size
    <3> QED
      BY <1>1, <1>2, <1>7, <1>9, <2>1, <3>1, Zenon DEF FileInv
  <2>2. CASE m # n
    BY <1>1, <1>2, <1>9, <2>2, FileSame, Zenon
  <2> QED
    BY <2>1, <2>2, Zenon
<1> QED
  BY <1>1, <1>2, <1>9, <1>10, NoCall, QuietKeeps, Zenon DEF TfsType

LEMMA EndCallKeeps == TfsInv /\ EndCall => TfsInv'
<1> SUFFICES ASSUME TfsInv, EndCall PROVE TfsInv'
  BY Zenon
<1> DEFINE n == op.name
           fd == [files[n] EXCEPT !.position = At]
<1>1. TfsType /\ op.kind # "none"
  BY Zenon DEF TfsInv, EndCall
<1>2. mounted = "yes" /\ CallInv /\ \A m \in Names : FileInv(m)
  BY <1>1, Zenon DEF TfsInv
<1>3. n \in Names /\ files[n].mode = op.kind /\ At <= Entry.size
  BY <1>1, <1>2, Zenon DEF CallInv
<1>4. /\ files' = [files EXCEPT ![n].position = At] /\ op' = NoOp
      /\ UNCHANGED <<directory, mounted, ondisk, bytes, alive, original, text, kept>>
  BY Zenon DEF EndCall
<1>5. files[n] \in [mode : {"none", "read", "write"}, file : Nat, position : Nat] /\ op.done \in Nat
  BY <1>1, <1>3, Zenon DEF TfsType
<1>6. At \in Nat
  BY <1>5 DEF At
<1>7. /\ fd \in [mode : {"none", "read", "write"}, file : Nat, position : Nat]
      /\ fd.mode = files[n].mode /\ fd.file = files[n].file /\ fd.position = At
  BY <1>5, <1>6, Zenon
<1>8. files' = [files EXCEPT ![n] = fd]
  BY <1>4, Zenon
<1> HIDE DEF fd
<1>9. /\ files' \in [Names -> [mode : {"none", "read", "write"}, file : Nat, position : Nat]]
      /\ files'[n] = fd /\ \A m \in Names : m # n => files'[m] = files[m]
  BY <1>1, <1>3, <1>7, <1>8, Zenon DEF TfsType
<1>10. ASSUME NEW m \in Names PROVE FileInv(m)'
  <2>1. CASE m = n
    <3>1. fd.position <= directory[fd.file].size
      BY <1>3, <1>7, Zenon DEF Entry
    <3>2. FileInv(n)
      BY <1>2, <1>3, Zenon
    <3> QED
      BY <1>1, <1>3, <1>4, <1>7, <1>9, <2>1, <3>1, <3>2, Zenon DEF FileInv
  <2>2. CASE m # n
    BY <1>2, <1>4, <1>9, <2>2, FileSame, Zenon
  <2> QED
    BY <2>1, <2>2, Zenon
<1>11. op' \in [kind : {"none", "read", "write"}, name : Names \cup {""}, from : Seq(Nat), done : Nat,
                aligned : BOOLEAN] /\ op'.kind = "none"
  <2>1. <<>> \in Seq(Nat)
    OBVIOUS
  <2> QED
    BY <1>4, <2>1, Zenon DEF NoOp
<1> QED
  BY <1>1, <1>2, <1>4, <1>9, <1>10, <1>11, NoCall, QuietKeeps, Zenon DEF TfsType

LEMMA FlushCurrent ==
    ASSUME TfsType, DiskInv, MountedInv, NEW writing, fs_flush(directory, text, writing),
           UNCHANGED <<directory, bytes, original, text>>
    PROVE  /\ ondisk' \in Directories /\ alive' \in BOOLEAN /\ kept' \in [Names -> Views] /\ DiskInv' /\ MountedInv'
           /\ \A n \in Names : n \in writing => ~kept'[n].known
<1>1. /\ directory \in Directories /\ Apart(directory) /\ text \in [Names -> Views]
      /\ \A i \in 1 .. DirSize : Corrupt(original[i]) => directory[i] = original[i]
      /\ \A n \in Names : text[n].known => ViewOf(directory, bytes, n) = text[n]
  BY Zenon DEF TfsType, MountedInv
<1>2. /\ ondisk' \in Directories /\ ondisk' \in {ondisk, directory} /\ alive' \in BOOLEAN
      /\ kept' \in [Names -> Views] /\ DiskInv'
      /\ \A n \in Names : n \in writing => ~kept'[n].known
  BY <1>1, FlushKeeps, Zenon
<1>3. MountedInv'
  <2>1. CASE ondisk' = ondisk
    BY <2>1, MountedSame, Zenon
  <2>2. CASE ondisk' = directory
    BY <2>2, Zenon DEF MountedInv, SameFile
  <2> QED
    BY <1>2, <2>1, <2>2, Zenon
<1> QED
  BY <1>2, <1>3, Zenon

LEMMA CloseKeeps ==
    ASSUME TfsInv, NEW n \in Names, close_file(n)
    PROVE  TfsInv'
<1>1. /\ TfsType /\ DiskInv /\ MountedInv /\ mounted = "yes" /\ op.kind = "none"
      /\ \A m \in Names : FileInv(m)
  BY Zenon DEF TfsInv, close_file, Ready
<1>2. /\ files' = [files EXCEPT ![n] = ClosedFile]
      /\ UNCHANGED <<directory, mounted, bytes, op, original, text>>
  BY Zenon DEF close_file
<1>3. ClosedFile \in [mode : {"none", "read", "write"}, file : Nat, position : Nat] /\ ClosedFile.mode = "none"
  BY Zenon DEF ClosedFile
<1>4. /\ files' \in [Names -> [mode : {"none", "read", "write"}, file : Nat, position : Nat]]
      /\ files'[n].mode = "none" /\ \A m \in Names : m # n => files'[m] = files[m]
  BY <1>1, <1>2, <1>3, Zenon DEF TfsType
<1>5. CASE files[n].mode = "write"
  <2> DEFINE writing == Writing \ {n}
  <2>1. fs_flush(directory, text, writing)
    BY <1>5, Zenon DEF close_file
  <2> HIDE DEF writing
  <2>2. /\ ondisk' \in Directories /\ alive' \in BOOLEAN /\ kept' \in [Names -> Views] /\ DiskInv' /\ MountedInv'
        /\ \A m \in Names : m \in writing => ~kept'[m].known
    BY <1>1, <1>2, <2>1, FlushCurrent, Zenon
  <2>3. TfsType'
    BY <1>1, <1>2, <1>4, <2>2, Zenon DEF TfsType
  <2>4. ASSUME NEW m \in Names PROVE FileInv(m)'
    <3>1. CASE m = n
      BY <1>4, <3>1, Zenon DEF FileInv
    <3>2. CASE m # n
      <4>1. FileInv(m) /\ files'[m] = files[m]
        BY <1>1, <1>4, <3>2, Zenon
      <4>2. files[m].mode = "write" => ~kept'[m].known
        BY <2>2, <3>2, Zenon DEF writing, Writing
      <4> QED
        BY <1>2, <4>1, <4>2, Zenon DEF FileInv
    <3> QED
      BY <3>1, <3>2, Zenon
  <2> QED
    BY <1>1, <1>2, <2>2, <2>3, <2>4, NoCall, Zenon DEF TfsInv
<1>6. CASE files[n].mode # "write"
  <2>1. UNCHANGED <<ondisk, alive, kept>>
    BY <1>6, Zenon DEF close_file
  <2>2. ASSUME NEW m \in Names PROVE FileInv(m)'
    <3>1. CASE m = n
      BY <1>4, <3>1, Zenon DEF FileInv
    <3>2. CASE m # n
      BY <1>1, <1>2, <1>4, <2>1, <3>2, FileSame, Zenon
    <3> QED
      BY <3>1, <3>2, Zenon
  <2> QED
    BY <1>1, <1>2, <1>4, <2>1, <2>2, NoCall, QuietKeeps, Zenon DEF TfsType
<1> QED
  BY <1>5, <1>6, Zenon

LEMMA HaltKeeps == TfsInv /\ Halt => TfsInv'
<1> SUFFICES ASSUME TfsInv, Halt PROVE TfsInv'
  BY Zenon
<1>1. /\ TfsType /\ DiskInv /\ MountedInv /\ op.kind = "none"
  BY Zenon DEF TfsInv, Halt, Ready
<1>2. /\ files' = [n \in Names |-> ClosedFile] /\ mounted' = "halted"
      /\ UNCHANGED <<directory, bytes, op, original, text>>
  BY Zenon DEF Halt
<1>3. ClosedFile \in [mode : {"none", "read", "write"}, file : Nat, position : Nat] /\ ClosedFile.mode = "none"
  BY Zenon DEF ClosedFile
<1>4. /\ files' \in [Names -> [mode : {"none", "read", "write"}, file : Nat, position : Nat]]
      /\ \A m \in Names : files'[m].mode = "none"
  BY <1>2, <1>3, Zenon
<1>5. CASE Writing # {}
  <2>1. fs_flush(directory, text, {})
    BY <1>5, Zenon DEF Halt
  <2>2. /\ ondisk' \in Directories /\ alive' \in BOOLEAN /\ kept' \in [Names -> Views] /\ DiskInv'
    BY <1>1, <1>2, <2>1, FlushCurrent, Zenon
  <2>3. TfsType'
    BY <1>1, <1>2, <1>4, <2>2, Zenon DEF TfsType
  <2> QED
    BY <1>1, <1>2, <1>4, <2>2, <2>3, Zenon DEF TfsInv
<1>6. CASE Writing = {}
  <2>1. UNCHANGED <<ondisk, alive, kept>>
    BY <1>6, Zenon DEF Halt
  <2>2. TfsType' /\ DiskInv'
    BY <1>1, <1>2, <1>4, <2>1, DiskSame, Zenon DEF TfsType
  <2> QED
    BY <1>1, <1>2, <1>4, <2>2, Zenon DEF TfsInv
<1> QED
  BY <1>5, <1>6, Zenon

-----------------------------------------------------------------------------
(* One turn of the loops of fs_read() and fs_write(). *)

\* What Patched makes of a sequence and a piece that starts within it or at its end.
LEMMA PatchedIs ==
    ASSUME NEW s \in Seq(Nat), NEW at \in 0 .. Len(s), NEW piece \in Seq(Nat)
    PROVE  /\ Patched(s, at, piece) \in Seq(Nat)
           /\ Len(Patched(s, at, piece)) = IF at + Len(piece) > Len(s) THEN at + Len(piece) ELSE Len(s)
           /\ \A k \in 1 .. Len(Patched(s, at, piece)) :
                 Patched(s, at, piece)[k] = IF k > at /\ k <= at + Len(piece) THEN piece[k - at] ELSE s[k]
<1> DEFINE m == IF at + Len(piece) > Len(s) THEN at + Len(piece) ELSE Len(s)
           V(k) == IF k > at /\ k <= at + Len(piece) THEN piece[k - at] ELSE s[k]
           p == [k \in 1 .. m |-> V(k)]
<1>1. Patched(s, at, piece) = p
  BY Zenon DEF Patched
<1>2. m \in Nat /\ Len(s) \in Nat /\ Len(piece) \in Nat /\ at \in Nat
  OBVIOUS
<1>3. ASSUME NEW k \in 1 .. m PROVE V(k) \in Nat
  <2>1. CASE k > at /\ k <= at + Len(piece)
    <3>1. k - at \in 1 .. Len(piece)
      BY <1>2, <2>1
    <3> QED
      BY <2>1, <3>1
  <2>2. CASE ~(k > at /\ k <= at + Len(piece))
    <3>1. k \in 1 .. Len(s)
      BY <1>2, <2>2
    <3> QED
      BY <2>2, <3>1
  <2> QED
    BY <2>1, <2>2, Zenon
<1> HIDE DEF V, m
<1>4. p \in [1 .. m -> Nat]
  BY <1>3, Zenon
<1>5. p \in Seq(Nat) /\ Len(p) = m /\ \A k \in 1 .. m : p[k] = V(k)
  BY <1>2, <1>4
<1> QED
  BY <1>1, <1>5, Zenon DEF V, m

LEMMA DivBelow ==
    ASSUME NEW a \in Nat
    PROVE  (a \div Sector) \in Nat /\ (a \div Sector) * Sector \in Nat /\ (a \div Sector) * Sector <= a
           /\ a % Sector \in 0 .. Sector - 1
BY Sizes

LEMMA CallFacts ==
    ASSUME TfsInv, op.kind # "none"
    PROVE  /\ mounted = "yes" /\ TfsType /\ DiskInv /\ MountedInv /\ CallInv /\ \A n \in Names : FileInv(n)
           /\ op.name \in Names /\ FilesNamed(directory, op.name) # {}
           /\ files[op.name].file = Min(FilesNamed(directory, op.name))
           /\ files[op.name].file \in in_use(directory) /\ directory[files[op.name].file].name = op.name
           /\ Entry = directory[files[op.name].file] /\ Entry.size \in Nat
           /\ Entry.first * Sector \in Nat /\ Entry.capacity * Sector \in Nat
           /\ Entry.size <= Entry.capacity * Sector
           /\ files[op.name].position \in Nat /\ op.done \in Nat /\ op.from \in Seq(Nat)
           /\ At \in Nat /\ At = files[op.name].position + op.done
           /\ op.done <= Len(op.from) /\ At <= Entry.size
<1>1. /\ mounted = "yes" /\ TfsType /\ DiskInv /\ MountedInv /\ CallInv /\ \A n \in Names : FileInv(n)
  BY Zenon DEF TfsInv
<1>2. op.name \in Names /\ files[op.name].mode = op.kind /\ op.done <= Len(op.from) /\ At <= Entry.size
  BY <1>1, Zenon DEF CallInv
<1>3. FilesNamed(directory, op.name) # {} /\ files[op.name].file = Min(FilesNamed(directory, op.name))
  BY <1>1, <1>2, Zenon DEF FileInv
<1>4. files[op.name].file \in in_use(directory) /\ directory[files[op.name].file].name = op.name
  BY <1>3, WhereIn, NamedInUse
<1>5. Entry = directory[files[op.name].file] /\ At = files[op.name].position + op.done
  BY Zenon DEF Entry, At
<1>6. directory \in Directories
  BY <1>1, Zenon DEF TfsType
<1>7. /\ Entry.size \in Nat /\ Entry.first * Sector \in Nat /\ Entry.capacity * Sector \in Nat
      /\ Entry.size <= Entry.capacity * Sector
  BY <1>4, <1>5, <1>6, Extent, Zenon
<1>8. files[op.name].position \in Nat /\ op.done \in Nat /\ op.from \in Seq(Nat)
  BY <1>1, <1>2, Zenon DEF TfsType
<1>9. At \in Nat
  BY <1>5, <1>8
<1> QED
  BY <1>1, <1>2, <1>3, <1>4, <1>5, <1>7, <1>8, <1>9, Zenon

\* A turn of fs_read() stays within the request and within the file.
LEMMA ReadPieceBounds ==
    ASSUME TfsInv, MoreToRead
    PROVE  ReadPiece \in Nat /\ op.done + ReadPiece <= Len(op.from) /\ At + ReadPiece <= Entry.size
<1>1. op.kind = "read" /\ op.done < Len(op.from) /\ At < Entry.size
  BY Zenon DEF MoreToRead
<1>2. op.done \in Nat /\ op.from \in Seq(Nat) /\ At \in Nat /\ Entry.size \in Nat
  BY <1>1, CallFacts, Zenon
<1> DEFINE l == Len(op.from)
           z == Entry.size
           a == At
           d == op.done
           q == direct_sectors
           m == a % Sector
<1>3. l \in Nat /\ z \in Nat /\ a \in Nat /\ d \in Nat /\ d < l /\ a < z /\ Sector \in Nat /\ m \in 0 .. Sector - 1
  BY <1>1, <1>2, DivBelow, Sizes
<1>4. CASE q > 0
  <2>1. q = Min2((z - a) \div Sector, (l - d) \div Sector)
    BY <1>4 DEF direct_sectors
  <2>2. z - a \in Nat /\ l - d \in Nat
    BY <1>3
  <2> DEFINE u == (z - a) \div Sector
             v == (l - d) \div Sector
  <2>3. u \in Nat /\ u * Sector <= z - a /\ v \in Nat /\ v * Sector <= l - d
    BY <2>2, DivBelow, Zenon
  <2>4. q = Min2(u, v) /\ u * Sector \in Nat /\ v * Sector \in Nat
    BY <2>1, <2>3, Stretch, Zenon
  <2>5. ReadPiece = q * Sector
    BY <1>4, Zenon DEF ReadPiece
  <2> HIDE DEF u, v
  <2>6. q \in Nat /\ q <= u /\ q <= v
    BY <2>3, <2>4 DEF Min2
  <2>7. q * Sector \in Nat /\ q * Sector <= u * Sector /\ q * Sector <= v * Sector
    BY <2>3, <2>6, Stretch, Zenon
  <2> DEFINE p == q * Sector
             x == u * Sector
             y == v * Sector
  <2>8. p \in Nat /\ x \in Nat /\ y \in Nat /\ p <= x /\ p <= y /\ x <= z - a /\ y <= l - d
    BY <2>3, <2>4, <2>7, Zenon
  <2> HIDE DEF p, x, y, q, l, z, a, d
  <2>9. d + p <= l /\ a + p <= z
    BY <1>3, <2>8
  <2> QED
    BY <2>5, <2>8, <2>9, Zenon DEF p, l, z, a, d
<1>5. CASE ~(q > 0)
  <2>1. ReadPiece = Min2(l - d, Min2(z - a, Sector - m))
    BY <1>5, Zenon DEF ReadPiece
  <2> DEFINE p == Min2(l - d, Min2(z - a, Sector - m))
  <2> HIDE DEF l, z, a, d, m
  <2>2. p \in Nat /\ d + p <= l /\ a + p <= z
    BY <1>3 DEF Min2
  <2> QED
    BY <2>1, <2>2, Zenon DEF l, z, a, d
<1> QED
  BY <1>4, <1>5, Zenon

LEMMA ReadKeeps == TfsInv /\ ReadSectors => TfsInv'
<1> SUFFICES ASSUME TfsInv, ReadSectors PROVE TfsInv'
  BY Zenon
<1>1. MoreToRead /\ op.kind = "read"
  BY Zenon DEF ReadSectors, MoreToRead
<1>2. UNCHANGED <<directory, mounted, ondisk, bytes, files, original, text, kept>>
  BY Zenon DEF ReadSectors
<1>3. /\ mounted = "yes" /\ TfsType /\ CallInv /\ \A n \in Names : FileInv(n)
      /\ op.name \in Names /\ files[op.name].file \in in_use(directory)
      /\ Entry = directory[files[op.name].file] /\ Entry.size \in Nat
      /\ Entry.first * Sector \in Nat /\ Entry.capacity * Sector \in Nat
      /\ Entry.size <= Entry.capacity * Sector
      /\ files[op.name].position \in Nat /\ op.done \in Nat /\ op.from \in Seq(Nat)
      /\ At \in Nat /\ At = files[op.name].position + op.done
      /\ op.done <= Len(op.from) /\ At <= Entry.size
  BY <1>1, CallFacts, Zenon
<1>4. \A n \in Names : FileInv(n)'
  BY <1>2, <1>3, FileSame, Zenon
<1>5. CASE (\E spent \in BOOLEAN : FaultAt(spent)) /\ op' = NoOp
  <2>1. alive' \in BOOLEAN
    BY <1>5, Zenon DEF FaultAt, TfsInv, TfsType
  <2>2. op' \in [kind : {"none", "read", "write"}, name : Names \cup {""}, from : Seq(Nat), done : Nat,
                 aligned : BOOLEAN] /\ op'.kind = "none"
    <3>1. <<>> \in Seq(Nat)
      OBVIOUS
    <3> QED
      BY <1>5, <3>1, ZenonT(30) DEF NoOp
  <2> QED
    BY <1>2, <1>3, <1>4, <2>1, <2>2, NoCall, QuietKeeps, Zenon DEF TfsType
<1>6. CASE /\ TransferOk
           /\ op' = [op EXCEPT !.done = @ + ReadPiece,
                               !.from = Patched(@, op.done,
                                  [k \in 1 .. ReadPiece |-> bytes[Entry.first * Sector + At + k - 1]])]
  <2> DEFINE p == ReadPiece
             b == Entry.first * Sector
             piece == [k \in 1 .. p |-> bytes[b + At + k - 1]]
             from == Patched(op.from, op.done, piece)
             pos == files[op.name].position
  <2>1. p \in Nat /\ op.done + p <= Len(op.from) /\ At + p <= Entry.size
    BY <1>1, ReadPieceBounds, Zenon
  <2>2. ASSUME NEW k \in 1 .. p PROVE bytes[b + At + k - 1] \in Nat
    <3> DEFINE x == At + k - 1
               c == Entry.capacity * Sector
               z == Entry.size
               t == At
    <3>1. x \in Nat /\ x < c
      <4>1. c \in Nat /\ z \in Nat /\ t \in Nat /\ t + p <= z /\ z <= c /\ x = t + k - 1
        BY <1>3, <2>1, Zenon
      <4> HIDE DEF p, c, z, t, x
      <4> QED
        BY <2>1, <4>1
    <3>2. b + x \in Addresses /\ b \in Nat
      <4>1. directory \in Directories
        BY <1>3, Zenon DEF TfsType
      <4> HIDE DEF x
      <4> QED
        BY <1>3, <3>1, <4>1, FileAddresses, Zenon
    <3>3. b + At + k - 1 = b + x
      <4>1. b \in Nat /\ t \in Nat /\ x = t + k - 1 /\ k \in Int
        BY <1>3, <2>1, <3>2
      <4> HIDE DEF b, t, x
      <4>2. b + t + k - 1 = b + x
        BY <4>1
      <4> QED
        BY <4>2, Zenon DEF t
    <3>4. bytes \in [Addresses -> Nat]
      BY <1>3, Zenon DEF TfsType
    <3> QED
      BY <3>2, <3>3, <3>4, Zenon
  <2>3. piece \in [1 .. p -> Nat]
    BY <2>2, Zenon
  <2>4. op' = [op EXCEPT !.done = op.done + p, !.from = from]
    BY <1>6, Zenon
  <2>5. UNCHANGED alive
    BY <1>6, Zenon DEF TransferOk
  <2> HIDE DEF piece, p
  <2>6. piece \in Seq(Nat) /\ Len(piece) = p
    BY <2>1, <2>3
  <2>7. op.done \in 0 .. Len(op.from)
    BY <1>3
  <2>8. /\ from \in Seq(Nat)
        /\ Len(from) = IF op.done + Len(piece) > Len(op.from) THEN op.done + Len(piece) ELSE Len(op.from)
        /\ \A k \in 1 .. Len(from) :
              from[k] = IF k > op.done /\ k <= op.done + Len(piece) THEN piece[k - op.done] ELSE op.from[k]
    BY <1>3, <2>6, <2>7, PatchedIs, Zenon
  <2> HIDE DEF from
  <2>9. Len(from) = Len(op.from) /\ op.done + p \in Nat /\ Len(op.from) \in Nat
    BY <1>3, <2>1, <2>6, <2>8, SMTT(30)
  <2>10. op \in [kind : {"none", "read", "write"}, name : Names \cup {""}, from : Seq(Nat), done : Nat,
                 aligned : BOOLEAN]
    BY <1>3, Zenon DEF TfsType
  <2>11. op' \in [kind : {"none", "read", "write"}, name : Names \cup {""}, from : Seq(Nat), done : Nat,
                  aligned : BOOLEAN]
    BY <2>4, <2>8, <2>9, <2>10, Zenon
  <2>12. op'.kind = "read" /\ op'.name = op.name /\ op'.from = from /\ op'.done = op.done + p
    BY <1>1, <2>4, <2>10, ZenonT(30)
  <2>13. At' = At + p /\ Entry' = Entry
    <3>1. At' = pos + (op.done + p) /\ Entry' = Entry
      BY <1>2, <2>12, Zenon DEF At, Entry
    <3> QED
      BY <1>3, <2>1, <3>1, SMTT(30)
  <2>14. ASSUME NEW k \in 1 .. op.done + p PROVE from[k] = bytes[b + pos + k - 1]
    <3>1. k \in 1 .. Len(from) /\ k \in Nat
      BY <1>3, <2>1, <2>9, SMTT(30)
    <3>2. CASE k <= op.done
      <4>1. from[k] = op.from[k] /\ k \in 1 .. op.done
        BY <1>3, <2>8, <3>1, <3>2
      <4> QED
        BY <1>1, <1>3, <4>1, Zenon DEF CallInv
    <3>3. CASE k > op.done
      <4>1. from[k] = piece[k - op.done] /\ k - op.done \in 1 .. p
        <5> DEFINE d == op.done
        <5>1. k - op.done \in 1 .. p /\ k <= op.done + Len(piece)
          <6>1. d \in Nat /\ p \in Nat /\ k \in Nat /\ k > d /\ k <= d + p
            BY <1>3, <2>1, <2>14, <3>1, <3>3
          <6> HIDE DEF d
          <6>2. k - d \in 1 .. p
            BY <6>1
          <6> QED
            BY <2>6, <6>1, <6>2, Zenon DEF d
        <5> QED
          BY <2>8, <3>1, <3>3, <5>1, Zenon
      <4>2. piece[k - op.done] = bytes[b + At + (k - op.done) - 1]
        BY <4>1, Zenon DEF piece
      <4>3. b + At + (k - op.done) - 1 = b + pos + k - 1
        BY <1>3, <3>1, SMTT(30)
      <4> QED
        BY <4>1, <4>2, <4>3, Zenon
    <3> QED
      BY <1>3, <3>1, <3>2, <3>3, SMTT(30)
  <2>15. CallInv'
    <3>1. files[op.name].mode = "read"
      BY <1>1, <1>3, Zenon DEF CallInv
    <3>2. op'.name \in Names /\ files'[op'.name].mode = op'.kind
      BY <1>2, <1>3, <2>12, <3>1, Zenon
    <3>3. op'.done <= Len(op'.from) /\ At' <= (Entry').size
      BY <2>1, <2>9, <2>12, <2>13, Zenon
    <3>4. \A k \in 1 .. op'.done :
             op'.from[k] = bytes'[(Entry').first * Sector + files'[op'.name].position + k - 1]
      BY <1>2, <2>12, <2>13, <2>14, Zenon
    <3> QED
      BY <3>2, <3>3, <3>4, Zenon DEF CallInv
  <2> QED
    BY <1>2, <1>3, <1>4, <2>5, <2>11, <2>15, QuietKeeps, Zenon DEF TfsType
<1> QED
  BY <1>5, <1>6, Zenon DEF ReadSectors

\* A turn of fs_write() stays within the request and within the file's sectors.
LEMMA PieceBounds ==
    ASSUME TfsInv, MoreToWrite
    PROVE  /\ Piece \in Nat /\ op.done + Piece <= Len(op.from) /\ At + Piece <= Entry.capacity * Sector
           /\ SubSeq(op.from, op.done + 1, op.done + Piece) \in Seq(Nat)
           /\ Len(SubSeq(op.from, op.done + 1, op.done + Piece)) = Piece
<1>1. op.kind = "write" /\ op.done < Len(op.from) /\ At < Entry.capacity * Sector
  BY Zenon DEF MoreToWrite, Limit
<1>2. op.done \in Nat /\ op.from \in Seq(Nat) /\ At \in Nat /\ Entry.capacity * Sector \in Nat
  BY <1>1, CallFacts, Zenon
<1> DEFINE l == Len(op.from)
           c == Entry.capacity * Sector
           a == At
           d == op.done
           m == a % Sector
           p == Piece
<1>3. l \in Nat /\ c \in Nat /\ a \in Nat /\ d \in Nat /\ d < l /\ a < c /\ Sector \in Nat /\ m \in 0 .. Sector - 1
  BY <1>1, <1>2, DivBelow, Sizes
<1>4. p = Min2(l - d, Min2(c - a, Sector - m))
  BY Zenon DEF Piece, Limit
<1>5. p \in Nat /\ d + p <= l /\ a + p <= c
  <2> HIDE DEF l, c, a, d, m, p
  <2> QED
    BY <1>3, <1>4 DEF Min2
<1>6. SubSeq(op.from, d + 1, d + p) \in Seq(Nat) /\ Len(SubSeq(op.from, d + 1, d + p)) = p
  <2> DEFINE f == op.from
  <2>1. f \in Seq(Nat) /\ d + 1 \in 1 .. Len(f) + 1 /\ d + p \in d .. Len(f)
    BY <1>2, <1>3, <1>5, SMTT(30)
  <2> HIDE DEF f, d, p
  <2>2. d + p \in (d + 1) - 1 .. Len(f) /\ (d + p) - (d + 1) + 1 = p
    BY <1>3, <1>5, <2>1
  <2>3. /\ SubSeq(f, d + 1, d + p) \in Seq(Nat)
        /\ Len(SubSeq(f, d + 1, d + p)) = (d + p) - (d + 1) + 1
    BY <2>1, <2>2, SubSeqIs, Zenon
  <2> QED
    BY <2>2, <2>3, Zenon DEF f
<1> QED
  BY <1>5, <1>6, Zenon

\* The bytes a turn of fs_write() makes: those of the piece and no others.
LEMMA WrittenIs ==
    ASSUME TfsInv, MoreToWrite, NEW piece \in Seq(Nat), Len(piece) = Piece
    PROVE  /\ SectorWritten(piece) \in [Addresses -> Nat]
           /\ \A a \in Addresses :
                 SectorWritten(piece)[a] =
                    IF a \in Entry.first * Sector + At .. Entry.first * Sector + At + Piece - 1
                    THEN piece[a - (Entry.first * Sector + At) + 1] ELSE bytes[a]
<1>1. op.kind = "write"
  BY Zenon DEF MoreToWrite
<1>2. /\ TfsType /\ At \in Nat /\ Entry.first * Sector \in Nat
  BY <1>1, CallFacts, Zenon
<1>3. Piece \in Nat
  BY PieceBounds, Zenon
<1> DEFINE at == Entry.first * Sector + At
           p == Piece
           V(a) == IF a \in at .. at + p - 1 THEN piece[a - at + 1] ELSE bytes[a]
<1>4. bytes \in [Addresses -> Nat] /\ DOMAIN bytes = Addresses
  BY <1>2, Zenon DEF TfsType
<1>5. SectorWritten(piece) = [a \in Addresses |-> V(a)]
  BY <1>4, Zenon DEF SectorWritten, Overlaid
<1>6. at \in Nat /\ p \in Nat
  BY <1>2, <1>3
<1>7. ASSUME NEW a \in Addresses PROVE V(a) \in Nat
  <2>1. a \in Int
    <3>1. Data * Sector \in Nat /\ DiskSectors * Sector \in Nat
      BY Sizes
    <3> QED
      BY <3>1 DEF Addresses
  <2>2. CASE a \in at .. at + p - 1
    <3>1. a - at + 1 \in 1 .. p
      <4> HIDE DEF at, p
      <4> QED
        BY <1>6, <2>1, <2>2
    <3>2. piece[a - at + 1] \in Nat
      BY <3>1
    <3> QED
      BY <2>2, <3>2, Zenon
  <2>3. CASE a \notin at .. at + p - 1
    BY <1>4, <2>3, Zenon
  <2> QED
    BY <2>2, <2>3, Zenon
<1> HIDE DEF V
<1>8. SectorWritten(piece) \in [Addresses -> Nat] /\ \A a \in Addresses : SectorWritten(piece)[a] = V(a)
  BY <1>5, <1>7, Zenon
<1> QED
  BY <1>8, Zenon DEF V

\* A write to one file leaves every other file as it is, on the disk and in memory.
LEMMA OthersKept ==
    ASSUME TfsInv, MoreToWrite, NEW piece \in Seq(Nat), Len(piece) = Piece,
           NEW dir \in Directories, NEW m \in Names, m # op.name,
           \A j \in in_use(dir) : j \in in_use(directory) /\ SameFile(directory[j], dir[j])
    PROVE  ViewOf(dir, SectorWritten(piece), m) = ViewOf(dir, bytes, m)
<1> DEFINE new == SectorWritten(piece)
           j == Min(FilesNamed(dir, m))
           i == files[op.name].file
<1>1. op.kind = "write"
  BY Zenon DEF MoreToWrite
<1>2. /\ TfsType /\ MountedInv /\ At \in Nat /\ Entry.first * Sector \in Nat /\ Entry.capacity * Sector \in Nat
      /\ i \in in_use(directory) /\ directory[i].name = op.name /\ Entry = directory[i]
  BY <1>1, CallFacts, Zenon
<1>3. Piece \in Nat /\ At + Piece <= Entry.capacity * Sector
  BY PieceBounds, Zenon
<1>4. /\ new \in [Addresses -> Nat]
      /\ \A a \in Addresses :
            a \notin Entry.first * Sector + At .. Entry.first * Sector + At + Piece - 1 => new[a] = bytes[a]
  BY WrittenIs, Zenon
<1> HIDE DEF new
<1>5. ASSUME FilesNamed(dir, m) # {}, NEW k \in 1 .. dir[j].size
      PROVE  new[dir[j].first * Sector + k - 1] = bytes[dir[j].first * Sector + k - 1]
  <2>1. j \in in_use(dir) /\ dir[j].name = m
    BY <1>5, WhereIn, NamedInUse, Zenon
  <2> HIDE DEF j, i
  <2>2. j \in in_use(directory) /\ directory[j].name = m /\ directory[j].first = dir[j].first
        /\ directory[j].capacity = dir[j].capacity
    BY <2>1, Zenon DEF SameFile
  <2>3. i # j
    BY <1>2, <2>2, Zenon
  <2>4. directory \in Directories /\ Apart(directory)
    BY <1>2, Zenon DEF TfsType, MountedInv
  <2> DEFINE bj == dir[j].first * Sector
             cj == dir[j].capacity * Sector
             bi == Entry.first * Sector
             ci == Entry.capacity * Sector
             t == At
             p == Piece
  <2>5. bi + ci <= bj \/ bj + cj <= bi
    BY <1>2, <2>2, <2>3, <2>4, ExtentsApart, Zenon
  <2>6. bj \in Nat /\ cj \in Nat /\ dir[j].size \in Nat /\ dir[j].size <= cj
    BY <2>1, Extent, Zenon
  <2>7. bi \in Nat /\ ci \in Nat /\ t \in Nat /\ p \in Nat /\ t + p <= ci
    BY <1>2, <1>3, Zenon
  <2>8. k \in Nat /\ k >= 1 /\ k <= cj
    BY <2>6
  <2>9. k - 1 \in Nat /\ k - 1 < cj
    BY <2>6, <2>8
  <2>10. bj + (k - 1) \in Addresses
    BY <2>1, <2>9, FileAddresses, Zenon
  <2> HIDE DEF bj, cj, bi, ci, t, p
  <2>11. bj + k - 1 = bj + (k - 1)
    BY <2>6, <2>8, Zenon
  <2>12. bj + k - 1 \notin bi + t .. bi + t + p - 1
    BY <2>5, <2>6, <2>7, <2>8
  <2> QED
    BY <1>4, <2>10, <2>11, <2>12, Zenon DEF bj, bi, t, p
<1> QED
  BY <1>5, ViewUnmoved, Zenon DEF new

\* What a write to a file makes of the file.
LEMMA FileWritten ==
    ASSUME TfsInv, MoreToWrite, NEW piece \in Seq(Nat), Len(piece) = Piece,
           NEW s \in Seq(Nat), Len(s) = Entry.size,
           \A k \in 1 .. Entry.size : s[k] = bytes[Entry.first * Sector + k - 1],
           NEW z \in Nat, z = IF At + Piece > Entry.size THEN At + Piece ELSE Entry.size
    PROVE  [k \in 1 .. z |-> SectorWritten(piece)[Entry.first * Sector + k - 1]] = Patched(s, At, piece)
<1> DEFINE new == SectorWritten(piece)
           b == Entry.first * Sector
           c == Entry.capacity * Sector
           t == At
           p == Piece
           q == Entry.size
           g == Patched(s, At, piece)
<1>1. op.kind = "write"
  BY Zenon DEF MoreToWrite
<1>2. /\ b \in Nat /\ c \in Nat /\ t \in Nat /\ q \in Nat /\ q <= c /\ t <= q
      /\ TfsType /\ files[op.name].file \in in_use(directory) /\ Entry = directory[files[op.name].file]
  BY <1>1, CallFacts, Zenon
<1>3. p \in Nat /\ t + p <= c
  BY PieceBounds, Zenon
<1>4. Len(s) = q /\ z = IF t + p > q THEN t + p ELSE q
  BY Zenon
<1>5. t \in 0 .. Len(s)
  <2> HIDE DEF t, q
  <2> QED
    BY <1>2, <1>4
<1>6. /\ g \in Seq(Nat) /\ Len(g) = IF t + p > q THEN t + p ELSE q
      /\ \A k \in 1 .. Len(g) : g[k] = IF k > t /\ k <= t + p THEN piece[k - t] ELSE s[k]
  <2>1. At \in 0 .. Len(s) /\ Len(piece) = Piece
    BY <1>5, Zenon
  <2>2. /\ g \in Seq(Nat) /\ Len(g) = IF At + Len(piece) > Len(s) THEN At + Len(piece) ELSE Len(s)
        /\ \A k \in 1 .. Len(g) : g[k] = IF k > At /\ k <= At + Len(piece) THEN piece[k - At] ELSE s[k]
    BY <2>1, PatchedIs, Zenon
  <2> QED
    BY <1>4, <2>1, <2>2, Zenon
<1>7. \A a \in Addresses : new[a] = IF a \in b + t .. b + t + p - 1 THEN piece[a - (b + t) + 1] ELSE bytes[a]
  BY WrittenIs, Zenon
<1>8. Len(g) = z
  BY <1>4, <1>6, Zenon
<1>9. ASSUME NEW k \in 1 .. z PROVE new[b + k - 1] = g[k]
  <2> HIDE DEF new, b, c, t, p, q, g
  <2>1. k \in Nat /\ k >= 1 /\ k <= z /\ z <= c
    BY <1>2, <1>3, <1>4, SMTT(30)
  <2>2. k - 1 \in Nat /\ k - 1 < c
    BY <1>2, <2>1
  <2>3. b + (k - 1) \in Addresses
    <3>1. directory \in Directories
      BY <1>2, ZenonT(30) DEF TfsType
    <3> QED
      BY <1>2, <2>2, <3>1, FileAddresses, Zenon DEF b, c
  <2>4. b + k - 1 = b + (k - 1)
    BY <1>2, <2>1, Zenon
  <2>5. g[k] = IF k > t /\ k <= t + p THEN piece[k - t] ELSE s[k]
    BY <1>6, <1>8, Zenon
  <2>6. CASE k > t /\ k <= t + p
    <3>1. b + k - 1 \in b + t .. b + t + p - 1 /\ (b + k - 1) - (b + t) + 1 = k - t
      BY <1>2, <1>3, <2>1, <2>6
    <3>2. new[b + k - 1] = piece[k - t]
      <4> DEFINE a == b + k - 1
      <4>1. a \in Addresses /\ a \in b + t .. b + t + p - 1 /\ a - (b + t) + 1 = k - t
        <5>1. a = b + (k - 1)
          BY <2>4, Zenon
        <5>2. a \in Addresses
          BY <2>3, <5>1, Zenon
        <5>3. a \in b + t .. b + t + p - 1
          BY <3>1, Zenon
        <5>4. a - (b + t) + 1 = k - t
          BY <3>1, Zenon
        <5> QED
          BY <5>2, <5>3, <5>4, Zenon
      <4> HIDE DEF a
      <4>2. new[a] = piece[a - (b + t) + 1]
        BY <1>7, <4>1, Zenon
      <4>3. new[a] = piece[k - t]
        BY <4>1, <4>2, Zenon
      <4> QED
        BY <4>3, Zenon DEF a
    <3> QED
      BY <2>5, <2>6, <3>2, ZenonT(30)
  <2>7. CASE ~(k > t /\ k <= t + p)
    <3>1. b + k - 1 \notin b + t .. b + t + p - 1 /\ k \in 1 .. q
      BY <1>2, <1>3, <1>4, <2>1, <2>7
    <3>2. new[b + k - 1] = bytes[b + k - 1]
      BY <1>7, <2>3, <2>4, <3>1, Zenon
    <3>3. s[k] = bytes[b + k - 1]
      BY <3>1, Zenon DEF q, b
    <3> QED
      BY <2>5, <2>7, <3>2, <3>3, ZenonT(30)
  <2> QED
    BY <2>6, <2>7, ZenonT(30)
<1> HIDE DEF new, b, g
<1>10. g = [k \in 1 .. z |-> g[k]]
  BY <1>6, <1>8
<1>11. [k \in 1 .. z |-> new[b + k - 1]] = [k \in 1 .. z |-> g[k]]
  BY <1>9, Zenon
<1> QED
  BY <1>10, <1>11, Zenon DEF new, b, g

LEMMA WriteKeeps == TfsInv /\ WriteSector => TfsInv'
<1> SUFFICES ASSUME TfsInv, WriteSector PROVE TfsInv'
  BY Zenon
<1> DEFINE n == op.name
           i == files[op.name].file
           p == Piece
           piece == SubSeq(op.from, op.done + 1, op.done + Piece)
           new == SectorWritten(piece)
           s == [k \in 1 .. Entry.size |-> bytes[Entry.first * Sector + k - 1]]
<1>1. MoreToWrite /\ op.kind = "write"
  BY Zenon DEF WriteSector, MoreToWrite
<1>2. UNCHANGED <<mounted, ondisk, files, original, kept>>
  BY Zenon DEF WriteSector
<1>3. /\ mounted = "yes" /\ TfsType /\ DiskInv /\ MountedInv /\ CallInv /\ \A m \in Names : FileInv(m)
      /\ n \in Names /\ FilesNamed(directory, n) # {}
      /\ i = Min(FilesNamed(directory, n)) /\ i \in in_use(directory) /\ directory[i].name = n
      /\ Entry = directory[i] /\ Entry.size \in Nat /\ Entry.capacity * Sector \in Nat
      /\ Entry.size <= Entry.capacity * Sector
      /\ files[n].position \in Nat /\ op.done \in Nat /\ op.from \in Seq(Nat)
      /\ At \in Nat /\ At = files[n].position + op.done /\ op.done <= Len(op.from) /\ At <= Entry.size
  BY <1>1, CallFacts, Zenon
<1>4. p \in Nat /\ op.done + p <= Len(op.from) /\ At + p <= Entry.capacity * Sector
      /\ piece \in Seq(Nat) /\ Len(piece) = p
  BY <1>1, PieceBounds, Zenon
<1>5. directory \in Directories /\ ondisk \in Directories /\ bytes \in [Addresses -> Nat]
      /\ text \in [Names -> Views] /\ kept \in [Names -> Views]
  BY <1>3, Zenon DEF TfsType
<1>6. new \in [Addresses -> Nat]
  <2> HIDE DEF piece
  <2> QED
    BY <1>1, <1>4, WrittenIs, Zenon
<1>7. \A j \in in_use(ondisk) : j \in in_use(directory) /\ SameFile(directory[j], ondisk[j])
  BY <1>3, Zenon DEF MountedInv
<1>8. ASSUME NEW m \in Names, m # n
      PROVE  ViewOf(ondisk, new, m) = ViewOf(ondisk, bytes, m) /\ ViewOf(directory, new, m) = ViewOf(directory, bytes, m)
  <2> HIDE DEF piece
  <2>1. \A j \in in_use(directory) : j \in in_use(directory) /\ SameFile(directory[j], directory[j])
    BY Zenon DEF SameFile
  <2> QED
    BY <1>1, <1>4, <1>5, <1>7, <1>8, <2>1, OthersKept, Zenon
<1>9. ~kept[n].known
  BY <1>1, <1>3 DEF FileInv, CallInv
<1>10. ASSUME bytes' \in {bytes, new} PROVE DiskInv'
  <2>1. ASSUME NEW m \in Names, kept'[m].known PROVE ViewOf(ondisk', bytes', m) = kept'[m]
    <3>1. m # n
      BY <1>2, <1>9, <2>1, Zenon
    <3>2. ViewOf(ondisk, bytes', m) = ViewOf(ondisk, bytes, m)
      BY <1>8, <1>10, <3>1, Zenon
    <3> QED
      BY <1>2, <1>3, <2>1, <3>2, Zenon DEF DiskInv
  <2> QED
    BY <1>2, <1>3, <2>1, Zenon DEF DiskInv
<1>11. ViewOf(directory, bytes, n) = Holds(s)
  BY <1>3, Zenon DEF ViewOf
<1>12. s \in Seq(Nat) /\ Len(s) = Entry.size
  <2>1. ViewOf(directory, bytes, n) \in Views
    BY <1>5, ViewIn, Zenon
  <2>2. Holds(s).bytes = s
    BY Zenon DEF Holds
  <2>3. s \in Seq(Nat)
    BY <1>11, <2>1, <2>2, Zenon DEF Views
  <2>4. DOMAIN s = 1 .. Entry.size
    BY Zenon
  <2> HIDE DEF s
  <2> QED
    BY <1>3, <2>3, <2>4
<1>13. \A k \in 1 .. Entry.size : s[k] = bytes[Entry.first * Sector + k - 1]
  BY Zenon
<1> HIDE DEF s, new, piece
<1>14. CASE /\ TransferOk /\ bytes' = new
            /\ op' = [op EXCEPT !.done = @ + p]
            /\ directory' = [directory EXCEPT ![i].size = IF At + p > @ THEN At + p ELSE @]
            /\ text' = IF text[n].known THEN [text EXCEPT ![n] = Holds(Patched(@.bytes, At, piece))] ELSE text
  <2> DEFINE z == IF At + p > Entry.size THEN At + p ELSE Entry.size
             g == Patched(s, At, piece)
  <2>1. z \in Nat /\ z <= Entry.capacity * Sector /\ Entry.size <= z /\ At + p <= z /\ At + p \in Nat
    BY <1>3, <1>4, SMTT(30)
  <2>2. directory' = Resize(directory, i, z)
    BY <1>3, <1>14, Zenon DEF Resize
  <2>3. IsResize(directory, i, z, Resize(directory, i, z))
    <3>1. z <= directory[i].capacity * Sector /\ z \in Nat /\ Apart(directory)
      BY <1>3, <2>1, ZenonT(30) DEF MountedInv
    <3> HIDE DEF z, i
    <3> QED
      BY <1>3, <1>5, <3>1, ResizeKeeps, Zenon
  <2>4. IsResize(directory, i, z, directory')
    BY <2>2, <2>3, Zenon
  <2> HIDE DEF i
  <2>5. /\ directory' \in Directories /\ Apart(directory') /\ in_use(directory') = in_use(directory)
        /\ \A j \in 1 .. DirSize : SameFile(directory'[j], directory[j]) /\ (j # i => directory'[j] = directory[j])
        /\ \A m : FilesNamed(directory', m) = FilesNamed(directory, m)
        /\ directory'[i].size = z
    BY <2>4, Zenon DEF IsResize
  <2>6. i \in 1 .. DirSize
    BY <1>3, Zenon DEF in_use
  <2>7. \A k \in 1 .. z : TRUE
    BY Zenon
  <2>8. [k \in 1 .. z |-> new[Entry.first * Sector + k - 1]] = g
    <3>1. z = IF At + Piece > Entry.size THEN At + Piece ELSE Entry.size
      BY Zenon
    <3> HIDE DEF z
    <3> QED
      BY <1>1, <1>4, <1>12, <1>13, <2>1, <3>1, FileWritten, Zenon DEF new
  <2>9. g \in Seq(Nat)
    <3>1. At \in 0 .. Len(s)
      BY <1>3, <1>12
    <3> QED
      BY <1>4, <1>12, <3>1, PatchedIs, Zenon
  <2>10. ViewOf(directory', new, n) = Holds(g)
    <3>1. directory'[i].first = Entry.first /\ directory'[i].size = z
      BY <1>3, <2>5, <2>6, Zenon DEF SameFile
    <3>2. ViewOf(directory', new, n) = Holds([k \in 1 .. directory'[i].size |-> new[directory'[i].first * Sector + k - 1]])
      BY <1>3, <2>5, ZenonT(30) DEF ViewOf
    <3> HIDE DEF z, g
    <3> QED
      BY <2>8, <3>1, <3>2, Zenon
  <2> HIDE DEF z, g
  <2>11. Holds(g) \in Views
    BY <2>9, Zenon DEF Holds, Views
  <2>12. /\ text' \in [Names -> Views] /\ \A m \in Names : m # n => text'[m] = text[m]
         /\ text'[n].known => text'[n] = Holds(g)
    <3>1. CASE text[n].known
      <4>1. text[n] = Holds(s)
        BY <1>3, <1>11, <3>1, Zenon DEF MountedInv
      <4>2. text[n].bytes = s
        BY <4>1 DEF Holds
      <4>3. text' = [text EXCEPT ![n] = Holds(g)]
        BY <1>14, <3>1, <4>2, Zenon DEF g
      <4> QED
        BY <1>3, <1>5, <2>11, <4>3, Zenon
    <3>2. CASE ~text[n].known
      BY <1>5, <1>14, <3>2, Zenon
    <3> QED
      BY <3>1, <3>2, Zenon
  <2>13. op \in [kind : {"none", "read", "write"}, name : Names \cup {""}, from : Seq(Nat), done : Nat,
                 aligned : BOOLEAN]
    BY <1>3, ZenonT(30) DEF TfsType
  <2>14. op.done + p \in Nat
    BY <1>3, <1>4
  <2>15. op' = [op EXCEPT !.done = op.done + p]
    BY <1>14, Zenon
  <2>16. op' \in [kind : {"none", "read", "write"}, name : Names \cup {""}, from : Seq(Nat), done : Nat,
                  aligned : BOOLEAN]
    BY <2>13, <2>14, <2>15, Zenon
  <2>17. op'.kind = "write" /\ op'.name = n /\ op'.from = op.from /\ op'.done = op.done + p
    BY <1>1, <2>13, <2>15, Zenon
  <2>18. TfsType'
    BY <1>2, <1>3, <1>6, <1>14, <2>5, <2>12, <2>16, Zenon DEF TfsType, TransferOk
  <2>19. DiskInv'
    BY <1>10, <1>14, Zenon
  <2>20. MountedInv'
    <3>1. ASSUME NEW j \in 1 .. DirSize, Corrupt(original[j]) PROVE directory'[j] = original[j]
      <4>1. directory[j] = original[j]
        BY <1>3, <3>1, Zenon DEF MountedInv
      <4>2. j # i
        BY <1>3, <3>1, <4>1, Zenon DEF in_use
      <4> QED
        BY <2>5, <4>1, <4>2, Zenon
    <3>2. ASSUME NEW j \in in_use(ondisk) PROVE j \in in_use(directory') /\ SameFile(directory'[j], ondisk[j])
      <4>1. j \in in_use(directory) /\ SameFile(directory[j], ondisk[j]) /\ j \in 1 .. DirSize
        BY <1>7, Zenon DEF in_use
      <4> QED
        BY <2>5, <4>1, Zenon DEF SameFile
    <3>3. ASSUME NEW m \in Names, text'[m].known PROVE ViewOf(directory', new, m) = text'[m]
      <4>1. CASE m = n
        BY <2>10, <2>12, <3>3, <4>1, Zenon
      <4>2. CASE m # n
        <5>1. \A j \in FilesNamed(directory', m) : directory'[j] = directory[j]
          <6>1. FilesNamed(directory', m) = FilesNamed(directory, m)
            BY <2>5, Zenon
          <6>2. \A j \in FilesNamed(directory, m) : j \in 1 .. DirSize /\ j # i
            BY <1>3, <4>2, Zenon DEF FilesNamed, in_use
          <6> QED
            BY <2>5, <6>1, <6>2, Zenon
        <5>2. ViewOf(directory', new, m) = ViewOf(directory, new, m)
          BY <2>5, <5>1, ViewSame
        <5>3. text'[m] = text[m] /\ ViewOf(directory, bytes, m) = text[m]
          BY <1>3, <2>12, <3>3, <4>2, ZenonT(30) DEF MountedInv
        <5> QED
          BY <1>8, <4>2, <5>2, <5>3, Zenon
      <4> QED
        BY <4>1, <4>2, Zenon
    <3> QED
      BY <1>2, <1>14, <2>5, <3>1, <3>2, <3>3, ZenonT(30) DEF MountedInv
  <2>21. ASSUME NEW m \in Names PROVE FileInv(m)'
    <3>1. CASE m = n
      <4>1. FileInv(n) /\ files[n].position <= z /\ files[n].file = i
        <5> DEFINE o == files[n].position
                   d == op.done
                   y == Entry.size
        <5>1. o \in Nat /\ d \in Nat /\ y \in Nat /\ o + d <= y /\ y <= z /\ z \in Nat
          BY <1>3, <2>1, Zenon
        <5> HIDE DEF o, d, y, z
        <5>2. o <= z
          BY <5>1
        <5> QED
          BY <1>3, <5>2, Zenon DEF i, o
      <4> QED
        BY <1>2, <2>5, <3>1, <4>1, Zenon DEF FileInv
    <3>2. CASE m # n /\ files[m].mode # "none"
      <4>1. FileInv(m)
        BY <1>3, Zenon
      <4>2. files[m].file \in FilesNamed(directory, m)
        BY <3>2, <4>1, WhereIn, Zenon DEF FileInv
      <4>3. files[m].file # i /\ files[m].file \in 1 .. DirSize
        BY <1>3, <3>2, <4>2, Zenon DEF FilesNamed, in_use
      <4> QED
        BY <1>2, <2>5, <3>2, <4>1, <4>3, Zenon DEF FileInv
    <3>3. CASE m # n /\ files[m].mode = "none"
      BY <1>2, <3>3, Zenon DEF FileInv
    <3> QED
      BY <3>1, <3>2, <3>3, Zenon
  <2>22. CallInv'
    <3>1. files[n].mode = "write"
      BY <1>1, <1>3, Zenon DEF CallInv
    <3>2. op'.name \in Names /\ files'[op'.name].mode = op'.kind
      BY <1>2, <1>3, <2>17, <3>1, Zenon
    <3>3. At' = files[n].position + (op.done + p) /\ Entry' = directory'[i]
      BY <1>2, <2>17, Zenon DEF At, Entry, i
    <3>4. At' <= (Entry').size
      <4> DEFINE d == op.done
                 o == files[n].position
      <4>1. d \in Nat /\ o \in Nat /\ p \in Nat /\ At = o + d /\ At + p <= z /\ At' = o + (d + p) /\ (Entry').size = z
        BY <1>3, <1>4, <2>1, <2>5, <3>3, Zenon
      <4> HIDE DEF d, o, p
      <4> QED
        BY <4>1
    <3>5. op'.done <= Len(op'.from)
      BY <1>4, <2>17, Zenon
    <3> QED
      BY <2>17, <3>2, <3>4, <3>5, Zenon DEF CallInv
  <2> QED
    BY <1>2, <1>3, <2>18, <2>19, <2>20, <2>21, <2>22, ZenonT(30) DEF TfsInv
<1>15. CASE /\ \E spent \in BOOLEAN : FaultAt(spent)
            /\ bytes' \in IF alive THEN {bytes, new} ELSE {bytes}
            /\ op' = NoOp
            /\ text' = IF alive /\ At < Entry.size THEN [text EXCEPT ![n] = Unsure] ELSE text
            /\ UNCHANGED directory
  <2>1. alive' \in BOOLEAN
    BY <1>3, <1>15, Zenon DEF FaultAt, TfsType
  <2>2. bytes' \in {bytes, new} /\ bytes' \in [Addresses -> Nat]
    BY <1>5, <1>6, <1>15, Zenon
  <2>3. op' \in [kind : {"none", "read", "write"}, name : Names \cup {""}, from : Seq(Nat), done : Nat,
                 aligned : BOOLEAN] /\ op'.kind = "none"
    <3>1. <<>> \in Seq(Nat)
      OBVIOUS
    <3> QED
      BY <1>15, <3>1, Zenon DEF NoOp
  <2>4. Unsure \in Views /\ ~Unsure.known
    <3>1. <<>> \in Seq(Nat)
      OBVIOUS
    <3> QED
      BY <3>1, Zenon DEF Unsure, Views
  <2>5. /\ text' \in [Names -> Views] /\ \A m \in Names : text'[m].known => text'[m] = text[m]
        /\ alive /\ At < Entry.size => ~text'[n].known
    BY <1>3, <1>5, <1>15, <2>4, ZenonT(30)
  <2>6. TfsType'
    BY <1>2, <1>3, <1>15, <2>1, <2>2, <2>3, <2>5, Zenon DEF TfsType
  <2>7. DiskInv'
    BY <1>10, <2>2, Zenon
  <2>8. ASSUME NEW m \in Names, text'[m].known PROVE ViewOf(directory, bytes', m) = text'[m]
    <3>1. text'[m] = text[m] /\ ViewOf(directory, bytes, m) = text[m]
      BY <1>3, <2>5, <2>8, ZenonT(30) DEF MountedInv
    <3>2. CASE m # n \/ bytes' = bytes
      BY <1>8, <2>2, <3>1, <3>2, Zenon
    <3>3. CASE m = n /\ bytes' # bytes
      <4>1. bytes' = new /\ alive
        BY <1>15, <3>3, Zenon
      <4>2. ~(At < Entry.size)
        BY <2>5, <2>8, <3>3, <4>1, Zenon
      <4>3. ASSUME NEW k \in 1 .. Entry.size
            PROVE  new[Entry.first * Sector + k - 1] = bytes[Entry.first * Sector + k - 1]
        <5> DEFINE b == Entry.first * Sector
                   c == Entry.capacity * Sector
                   t == At
                   q == Entry.size
        <5>1. b \in Nat /\ c \in Nat /\ t \in Nat /\ q \in Nat /\ q <= c /\ ~(t < q) /\ p \in Nat
          BY <1>1, <1>3, <1>4, <4>2, CallFacts, Zenon
        <5>2. \A a \in Addresses : a \notin b + t .. b + t + p - 1 => new[a] = bytes[a]
          BY <1>1, <1>4, WrittenIs, Zenon DEF new
        <5>3. k \in 1 .. q
          BY Zenon
        <5> HIDE DEF b, c, t, q, p
        <5>4. k - 1 \in Nat /\ k - 1 < c /\ b + k - 1 = b + (k - 1) /\ b + k - 1 \notin b + t .. b + t + p - 1
          BY <5>1, <5>3
        <5>5. b + (k - 1) \in Addresses
          BY <1>3, <1>5, <5>4, FileAddresses, Zenon DEF b, c
        <5>6. new[b + k - 1] = bytes[b + k - 1]
          BY <5>2, <5>4, <5>5, Zenon
        <5> QED
          BY <5>6, Zenon DEF b
      <4>4. ViewOf(directory, new, n) = ViewOf(directory, bytes, n)
        <5> DEFINE e == directory[Min(FilesNamed(directory, n))]
        <5>1. Entry = e
          BY <1>3, Zenon
        <5>2. \A k \in 1 .. e.size : new[e.first * Sector + k - 1] = bytes[e.first * Sector + k - 1]
          BY <4>3, <5>1, Zenon
        <5> HIDE DEF new
        <5> QED
          BY <5>2, ViewUnmoved, Zenon
      <4> QED
        BY <3>1, <3>3, <4>1, <4>4, Zenon
    <3> QED
      BY <3>2, <3>3, Zenon
  <2>9. MountedInv'
    BY <1>2, <1>3, <1>15, <2>8, Zenon DEF MountedInv
  <2>10. \A m \in Names : FileInv(m)'
    BY <1>2, <1>3, <1>15, FileSame, Zenon
  <2> QED
    BY <1>2, <1>3, <2>3, <2>6, <2>7, <2>9, <2>10, NoCall, Zenon DEF TfsInv
<1> QED
  BY <1>14, <1>15, Zenon DEF WriteSector, piece, new

LEMMA TfsInitial == TfsInit => TfsInv
<1> SUFFICES ASSUME TfsInit PROVE TfsInv
  BY Zenon
<1>1. /\ ondisk \in Formats /\ original = ondisk /\ directory = [i \in 1 .. DirSize |-> FreeSlot]
      /\ bytes = [a \in Addresses |-> 0] /\ mounted = "boot" /\ alive = TRUE
      /\ files = [n \in Names |-> ClosedFile] /\ op = NoOp
      /\ text = [n \in Names |-> View(ondisk, n)] /\ kept = text
  BY Zenon DEF TfsInit, Addresses
<1>2. ondisk \in Directories /\ Apart(ondisk)
  BY <1>1, TfsAssumption, Zenon DEF Directories, Entries, Apart
<1>3. bytes \in [Addresses -> Nat]
  BY <1>1, Zenon
<1>4. directory \in Directories
  BY <1>1, Zenon DEF Directories, Entries, FreeSlot
<1>5. NoOp \in [kind : {"none", "read", "write"}, name : Names \cup {""}, from : Seq(Nat), done : Nat,
                aligned : BOOLEAN] /\ NoOp.kind = "none"
  <2>1. <<>> \in Seq(Nat)
    OBVIOUS
  <2> QED
    BY <2>1, Zenon DEF NoOp
<1>6. ClosedFile \in [mode : {"none", "read", "write"}, file : Nat, position : Nat] /\ ClosedFile.mode = "none"
  BY Zenon DEF ClosedFile
<1>7. \A n \in Names : text[n] = ViewOf(ondisk, bytes, n) /\ text[n] \in Views
  <2>1. \A n \in Names : ViewOf(ondisk, bytes, n) \in Views
    BY <1>2, <1>3, ViewIn, Zenon
  <2> QED
    BY <1>1, <2>1, ViewIs, Zenon
<1>8. text \in [Names -> Views]
  BY <1>1, <1>7, Zenon
<1>9. TfsType
  BY <1>1, <1>2, <1>3, <1>4, <1>5, <1>6, <1>8, Zenon DEF TfsType
<1>10. DiskInv
  BY <1>1, <1>2, <1>7, Zenon DEF DiskInv
<1> QED
  BY <1>1, <1>5, <1>6, <1>9, <1>10, Zenon DEF TfsInv

LEMMA TfsStutters == TfsInv /\ UNCHANGED tfsVars => TfsInv'
<1> SUFFICES ASSUME TfsInv, UNCHANGED tfsVars PROVE TfsInv'
  BY Zenon
<1>1. UNCHANGED <<directory, mounted, ondisk, bytes, alive, files, op, original, text, kept>>
  BY Zenon DEF tfsVars
<1>2. TfsType' /\ DiskInv'
  BY <1>1, DiskSame, Zenon DEF TfsInv, TfsType
<1>3. CASE mounted = "yes"
  <2>1. MountedInv' /\ \A n \in Names : FileInv(n)'
    BY <1>1, <1>3, MountedSame, FileSame, Zenon DEF TfsInv
  <2>2. At' = At /\ Entry' = Entry
    BY <1>1, Zenon DEF At, Entry
  <2>3. CallInv'
    BY <1>1, <1>3, <2>2, Zenon DEF TfsInv, CallInv
  <2> QED
    BY <1>1, <1>2, <1>3, <2>1, <2>3, Zenon DEF TfsInv
<1>4. CASE mounted # "yes"
  BY <1>1, <1>2, <1>4, Zenon DEF TfsInv
<1> QED
  BY <1>3, <1>4, Zenon

LEMMA TfsInductive == TfsInv /\ [TfsNext]_tfsVars => TfsInv'
<1> SUFFICES ASSUME TfsInv, [TfsNext]_tfsVars PROVE TfsInv'
  BY Zenon
<1>1. ASSUME NEW n \in Names,
             \/ \E s \in Texts : StartCall(n, "write", s, FALSE)
             \/ \E s \in Texts, aligned \in BOOLEAN : StartCall(n, "read", [k \in DOMAIN s |-> 0], aligned)
      PROVE  TfsInv'
  <2>1. ASSUME NEW s \in Texts, StartCall(n, "write", s, FALSE) PROVE TfsInv'
    <3>1. s \in Seq(Nat)
      BY TfsAssumption, Zenon
    <3> QED
      BY <2>1, <3>1, StartCallKeeps, Zenon
  <2>2. ASSUME NEW s \in Texts, NEW aligned \in BOOLEAN, StartCall(n, "read", [k \in DOMAIN s |-> 0], aligned)
        PROVE  TfsInv'
    <3> DEFINE blank == [k \in DOMAIN s |-> 0]
    <3>1. s \in Seq(Nat)
      BY TfsAssumption, Zenon
    <3>2. DOMAIN s = 1 .. Len(s) /\ Len(s) \in Nat
      BY <3>1
    <3>3. blank \in [1 .. Len(s) -> Nat]
      BY <3>2, Zenon
    <3> HIDE DEF blank
    <3>4. blank \in Seq(Nat)
      BY <3>2, <3>3
    <3>5. StartCall(n, "read", blank, aligned)
      BY <2>2, Zenon DEF blank
    <3> QED
      BY <3>4, <3>5, StartCallKeeps, Zenon
  <2> QED
    BY <1>1, <2>1, <2>2, Zenon
<1>2. ASSUME NEW n \in Names, NEW whence \in {"start", "current", "end"},
             seek_file(n, -1, whence) \/ seek_file(n, 0, whence)
      PROVE  TfsInv'
  <2>1. -1 \in Int /\ 0 \in Int
    OBVIOUS
  <2>2. CASE seek_file(n, -1, whence)
    BY <2>1, <2>2, SeekKeeps, Zenon
  <2>3. CASE seek_file(n, 0, whence)
    BY <2>1, <2>3, SeekKeeps, Zenon
  <2> QED
    BY <1>2, <2>2, <2>3, Zenon
<1>3. CASE fs_mount \/ WriteSector \/ ReadSectors \/ EndCall \/ Halt \/ Restart
  BY <1>3, MountKeeps, WriteKeeps, ReadKeeps, EndCallKeeps, HaltKeeps, RestartKeeps, Zenon
<1>4. ASSUME NEW n \in Names, (\E mode \in {"read", "write"} : OpenOld(n, mode)) \/ OpenNew(n) \/ close_file(n)
      PROVE  TfsInv'
  BY <1>4, OpenOldKeeps, OpenNewKeeps, CloseKeeps, Zenon
<1>5. CASE UNCHANGED tfsVars
  BY <1>5, TfsStutters, Zenon
<1> QED
  BY <1>1, <1>2, <1>3, <1>4, <1>5, Zenon DEF TfsNext

\* A file that was closed and is not being written is on the disk as it was left, through
\* failed transfers, half-written directories and restarts, and the entries fs_mount()
\* set aside stay as they came, for any disk, names and texts (fs_open(), fs_write(),
\* fs_flush(), fs_mount()).
THEOREM FilesAreKept == TfsInit /\ [][TfsNext]_tfsVars => []FilesKept
<1>1. TfsInv => FilesKept
  BY ViewIs, Zenon DEF TfsInv, DiskInv, FilesKept
<1> QED
  BY TfsInitial, TfsInductive, <1>1, PTL

\* Programs read what they wrote: a file is the pieces written to it, each at its
\* position, and a read delivers the bytes from its position up to its length or the end
\* of the file (fs_read(), fs_write(), seek_file()).
THEOREM FilesReadBack == TfsInit /\ [][TfsNext]_tfsVars => []ReadsBack
<1>1. TfsInv => ReadsBack
  <2> SUFFICES ASSUME TfsInv, mounted = "yes"
               PROVE  /\ \A n \in Names : text[n].known => View(directory, n) = text[n]
                      /\ op.kind = "read" /\ text[op.name].known =>
                            /\ ~MoreToRead => op.done = Min2(Len(op.from), Len(text[op.name].bytes) - files[op.name].position)
                            /\ SubSeq(op.from, 1, op.done) =
                                  SubSeq(text[op.name].bytes, files[op.name].position + 1, files[op.name].position + op.done)
    BY Zenon DEF ReadsBack
  <2>1. \A n \in Names : text[n].known => View(directory, n) = text[n]
    BY ViewIs, Zenon DEF TfsInv, MountedInv
  <2>2. ASSUME op.kind = "read", text[op.name].known
        PROVE  /\ ~MoreToRead => op.done = Min2(Len(op.from), Len(text[op.name].bytes) - files[op.name].position)
               /\ SubSeq(op.from, 1, op.done) =
                     SubSeq(text[op.name].bytes, files[op.name].position + 1, files[op.name].position + op.done)
    <3> DEFINE n == op.name
               t == text[op.name].bytes
               from == files[op.name].position
               d == op.done
               f == op.from
               q == Entry.size
               s == [k \in 1 .. Entry.size |-> bytes[Entry.first * Sector + k - 1]]
    <3>1. /\ TfsType /\ MountedInv /\ CallInv /\ n \in Names /\ FilesNamed(directory, n) # {}
          /\ files[n].file = Min(FilesNamed(directory, n)) /\ Entry = directory[files[n].file]
          /\ q \in Nat /\ from \in Nat /\ d \in Nat /\ f \in Seq(Nat) /\ At = from + d
          /\ d <= Len(f) /\ At <= q /\ Entry.first * Sector \in Nat
      BY <2>2, CallFacts, Zenon
    <3>2. text[n] = Holds(s)
      BY <2>2, <3>1, Zenon DEF MountedInv, ViewOf
    <3>3. t = s
      BY <3>2 DEF Holds
    <3>4. t \in Seq(Nat)
      BY <3>1, Zenon DEF TfsType, Views
    <3>5. DOMAIN t = 1 .. q /\ \A k \in 1 .. q : t[k] = bytes[Entry.first * Sector + k - 1]
      BY <3>3, Zenon
    <3>6. Len(t) = q /\ Len(f) \in Nat
      <4> HIDE DEF t, q, f
      <4> QED
        BY <3>1, <3>4, <3>5
    <3>7. MoreToRead <=> d < Len(f) /\ from + d < q
      BY <2>2, <3>1, Zenon DEF MoreToRead
    <3>8. \A k \in 1 .. d : f[k] = bytes[Entry.first * Sector + from + k - 1]
      BY <2>2, <3>1, Zenon DEF CallInv
    <3>9. ASSUME NEW k \in 1 .. d PROVE f[k] = t[from + k]
      <4> DEFINE b == Entry.first * Sector
      <4>1. from + k \in 1 .. q /\ b + from + k - 1 = b + (from + k) - 1
        <5>1. from \in Nat /\ d \in Nat /\ q \in Nat /\ b \in Nat /\ from + d <= q
          BY <3>1, Zenon
        <5> HIDE DEF from, d, q, b
        <5> QED
          BY <5>1
      <4>2. t[from + k] = bytes[b + (from + k) - 1]
        BY <3>5, <4>1, Zenon
      <4> QED
        BY <3>8, <4>1, <4>2, Zenon
    <3>10. from + d <= q
      BY <3>1, Zenon
    <3> HIDE DEF t, from, d, f, q
    <3>11. ~MoreToRead => d = Min2(Len(f), Len(t) - from)
      BY <3>1, <3>6, <3>7, <3>10 DEF Min2
    <3>12. SubSeq(f, 1, d) = SubSeq(t, from + 1, from + d)
      <4> DEFINE u == SubSeq(f, 1, d)
                 v == SubSeq(t, from + 1, from + d)
      <4>1. /\ f \in Seq(Nat) /\ 1 \in 1 .. Len(f) + 1 /\ d \in 0 .. Len(f)
            /\ t \in Seq(Nat) /\ from + 1 \in 1 .. Len(t) + 1 /\ from + d \in from .. Len(t)
        BY <3>1, <3>4, <3>6, <3>10
      <4>2. u \in Seq(Nat) /\ Len(u) = d /\ \A k \in 1 .. d : u[k] = f[k]
        BY <3>1, <4>1
      <4>3. v \in Seq(Nat) /\ Len(v) = d /\ \A k \in 1 .. d : v[k] = t[from + k]
        <5>1. from + d \in (from + 1) - 1 .. Len(t) /\ (from + d) - (from + 1) + 1 = d
          BY <3>1, <4>1
        <5>2. /\ v \in Seq(Nat) /\ Len(v) = (from + d) - (from + 1) + 1
              /\ \A k \in 1 .. (from + d) - (from + 1) + 1 : v[k] = t[(from + 1) + k - 1]
          BY <4>1, <5>1, SubSeqIs, Zenon
        <5>3. \A k \in 1 .. d : (from + 1) + k - 1 = from + k
          BY <3>1
        <5> QED
          BY <5>1, <5>2, <5>3, Zenon
      <4> HIDE DEF u, v
      <4>4. \A k \in 1 .. d : u[k] = v[k]
        BY <3>9, <4>2, <4>3, Zenon
      <4>5. u = v
        BY <4>2, <4>3, <4>4, SameSeq, Zenon
      <4> QED
        BY <4>5, Zenon DEF u, v
    <3> QED
      BY <3>11, <3>12, Zenon DEF t, from, d, f
  <2> QED
    BY <2>1, <2>2, Zenon
<1> QED
  BY TfsInitial, TfsInductive, <1>1, PTL

=============================================================================
