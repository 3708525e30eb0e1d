--------------------------- MODULE MachineProofs ----------------------------
(***************************************************************************)
(* What the hart, its input path and its timer promise.  The hart, for     *)
(* every guest, page table and number of PMP entries: the facts about      *)
(* modes rest on ModeInv, the one about SC.W on ReservationInv and the one *)
(* about PMP on RegionInv.  The input path is a queue: device, ring and    *)
(* handler implement EventFifo for queues of any size, and a program that  *)
(* takes every event agrees with KEYS.  The halves of the 64-bit time      *)
(* registers are read and written safely, whatever a half's width is and   *)
(* however time runs between two accesses.                                 *)
(***************************************************************************)
EXTENDS Hart, Input, Timer, SequenceTheorems, TLAPS

-----------------------------------------------------------------------------
(* The hart (Hart). *)

\* The mode and MPP hold modes; MPRV is set only in machine mode.
ModeInv ==
    /\ priv \in Modes
    /\ mpp \in Modes
    /\ MprvOnlyInMachine

\* A reservation is for the word the last LR.W read, which nothing has ended since.
ReservationInv == reservation # NoReservation => reservation.pa = lr

\* Every PMP entry has its two registers.
RegionInv ==
    /\ pmpcfg = [i \in 0..PmpEntries - 1 |-> pmpcfg[i]]
    /\ pmpaddr = [i \in 0..PmpEntries - 1 |-> pmpaddr[i]]

-----------------------------------------------------------------------------
(* Modes *)

\* Below machine mode no CSR of the machine's own is accessible (csr_allowed()).
LEMMA MachineCsr ==
    ASSUME NEW csr, csr_allowed(csr), priv \in Modes, CsrMode(csr) = M
    PROVE  priv = M
BY DEF csr_allowed, Modes, U, S, M

\* Trap entry leaves a mode and takes MPRV only to machine mode (enter_handler()).
LEMMA EnterKeepsModes ==
    ASSUME ModeInv, NEW STATE delegated, enter_handler(delegated)
    PROVE  ModeInv'
BY DEF ModeInv, MprvOnlyInMachine, enter_handler, If, Modes, U, S, M

\* So does a trap, which either enters the handler or halts the hart (trap()).
LEMMA TrapKeepsModes ==
    ASSUME ModeInv, NEW cause, trap(cause)
    PROVE  ModeInv'
<1>1. CASE in_trap
  BY <1>1, Zenon DEF trap, trapVars, ModeInv, MprvOnlyInMachine
<1>2. CASE ~in_trap
  BY <1>2, EnterKeepsModes, Zenon DEF trap
<1> QED BY <1>1, <1>2

\* An instruction that leaves the modes and mstatus alone keeps the invariant.
LEMMA SameKeepsModes ==
    ASSUME ModeInv, UNCHANGED trapVars
    PROVE  ModeInv'
BY Zenon DEF ModeInv, MprvOnlyInMachine, trapVars

\* The modes are kept by every step.
LEMMA StepKeepsModes ==
    ASSUME ModeInv, [HartNext]_hartVars
    PROVE  ModeInv'
<1> USE SameKeepsModes, TrapKeepsModes
<1> USE DEF Attempt, Privileged, Csr, SameState
<1>1. CASE take_interrupt
  BY <1>1, EnterKeepsModes, Zenon DEF take_interrupt
<1>2. ASSUME NEW cause \in guest.causes, Raise(cause)
      PROVE  ModeInv'
  BY <1>2, Zenon DEF Raise
<1>3. CASE Mret
  <2>1. CASE priv = M /\ Executes
    BY <1>3, <2>1, Zenon DEF Mret, Returns, StatusAfterMret, If, ModeInv, MprvOnlyInMachine, Modes
  <2> QED BY <1>3, <2>1 DEF Mret
<1>4. CASE Sret
  <2>1. CASE supervisor_allows("TSR") /\ Executes
    BY <1>4, <2>1 DEF Sret, Returns, If, ModeInv, MprvOnlyInMachine, Modes
  <2> QED BY <1>4, <2>1 DEF Sret
<1>5. CASE Wfi \/ SfenceVma \/ Branch \/ Compute
  BY <1>5, Zenon DEF Wfi, SfenceVma, Branch, Compute
<1>6. CASE WriteStatus
  <2>1. ASSUME NEW v \in SUBSET guest.bits, NEW mode \in 0..3, csr_allowed("mstatus"),
               mstatus' = v, mpp' = IF mode = 2 THEN U ELSE mode, UNCHANGED priv
        PROVE  ModeInv'
    <3>1. priv = M
      BY <2>1, MachineCsr, Zenon DEF ModeInv, CsrMode
    <3>2. mpp' \in Modes
      BY <2>1 DEF Modes, U, S, M
    <3> QED BY <2>1, <3>1, <3>2 DEF ModeInv, MprvOnlyInMachine
  <2>2. ASSUME NEW v \in SUBSET guest.bits, mstatus' = SstatusWritten(v), UNCHANGED <<priv, mpp>>
        PROVE  ModeInv'
    BY <2>2, Zenon DEF ModeInv, MprvOnlyInMachine, SstatusWritten, SupervisorBits
  <2> QED BY <1>6, <2>1, <2>2 DEF WriteStatus
<1>7. CASE WriteDelegation \/ WriteEnables \/ WritePending \/ Counters
  BY <1>7, Zenon DEF WriteDelegation, WriteEnables, WritePending, Counters
<1>8. CASE WriteSatp \/ WritePmpcfg \/ WritePmpaddr
  BY <1>8, Zenon DEF WriteSatp, WritePmpcfg, WritePmpaddr
<1>9. ASSUME NEW va \in guest.words, NEW kind \in {"load", "store"}, Touch(va, kind)
      PROVE  ModeInv'
  BY <1>9, Zenon DEF Touch
<1>10. ASSUME NEW va \in guest.words, Amo(va) \/ LoadReserved(va) \/ StoreConditional(va)
       PROVE  ModeInv'
  BY <1>10, Zenon DEF Amo, LoadReserved, StoreConditional
<1>11. CASE DeviceLines \/ (\E w \in guest.dma : DeviceWrite(w)) \/ UNCHANGED hartVars
  BY <1>11, Zenon DEF DeviceLines, DeviceWrite, hartVars
<1> QED
  BY <1>1, <1>2, <1>3, <1>4, <1>5, <1>6, <1>7, <1>8, <1>9, <1>10, <1>11, Zenon DEF HartNext

\* MPRV is set only in machine mode, through any nesting of traps and returns, for
\* every guest (MRET and SRET in step(), csr_write()).
THEOREM MprvStaysInMachine == HartSpec => []MprvOnlyInMachine
<1>1. HartInit => ModeInv
  BY Zenon DEF HartInit, ModeInv, MprvOnlyInMachine, Modes
<1>2. ModeInv /\ [HartNext]_hartVars => ModeInv'
  BY StepKeepsModes, Zenon
<1>3. ModeInv => MprvOnlyInMachine
  BY Zenon DEF ModeInv
<1> QED BY <1>1, <1>2, <1>3, PTL DEF HartSpec

-----------------------------------------------------------------------------
(* What runs below machine mode *)

\* What SupervisorConfined asks of a step.
Confined ==
    \/ priv' = M /\ in_trap'
    \/ MachineState' = MachineState /\ (priv' > priv => in_trap')

\* A step that leaves the machine's state and the mode alone is confined.
LEMMA SameConfined ==
    ASSUME ModeInv, UNCHANGED <<trapVars, delegationVars, pmpVars>>
    PROVE  Confined
BY DEF Confined, MachineState, trapVars, delegationVars, pmpVars, ModeInv, Modes, U, S, M

\* Trap entry either reaches machine mode or touches supervisor bits only.
LEMMA TrapConfined ==
    ASSUME ModeInv, NEW STATE delegated, enter_handler(delegated), in_trap',
           UNCHANGED <<delegationVars, pmpVars>>
    PROVE  Confined
<1>1. CASE priv # M /\ delegated
  <2>1. mstatus' \ SupervisorBits = mstatus \ SupervisorBits
    BY <1>1, Zenon DEF enter_handler, If, SupervisorBits
  <2>2. UNCHANGED mpp
    BY <1>1, Zenon DEF enter_handler
  <2> QED BY <2>1, <2>2 DEF Confined, MachineState, delegationVars, pmpVars
<1>2. CASE ~(priv # M /\ delegated)
  BY <1>2, Zenon DEF enter_handler, Confined
<1> QED BY <1>1, <1>2

\* A trap is confined whether it enters a handler or halts the hart.
LEMMA RaisedConfined ==
    ASSUME ModeInv, NEW cause, trap(cause)
    PROVE  Confined
<1>1. CASE in_trap
  BY <1>1, SameConfined, Zenon DEF trap
<1>2. CASE ~in_trap
  BY <1>2, TrapConfined, Zenon DEF trap
<1> QED BY <1>1, <1>2

\* Every step taken below machine mode is confined.
LEMMA StepConfined ==
    ASSUME ModeInv, [HartNext]_hartVars, priv # M
    PROVE  Confined
<1> USE SameConfined, RaisedConfined
<1> USE DEF Attempt, Privileged, Csr, SameState
<1>a. priv \in {U, S} /\ U = 0 /\ S = 1
  BY Zenon DEF ModeInv, Modes, U, S
<1>m. \A csr : csr_allowed(csr) => CsrMode(csr) # M
  BY MachineCsr, Zenon DEF ModeInv
<1>1. CASE take_interrupt
  BY <1>1, TrapConfined, Zenon DEF take_interrupt
<1>2. ASSUME NEW cause \in guest.causes, Raise(cause)
      PROVE  Confined
  BY <1>2, Zenon DEF Raise
<1>3. CASE Mret
  BY <1>3, Zenon DEF Mret
<1>4. CASE Sret
  <2>1. CASE supervisor_allows("TSR") /\ Executes
    <3>1. priv = S /\ priv' \in {U, S}
      BY <1>4, <2>1, <1>a, Zenon DEF Sret, Returns, supervisor_allows
    <3>2. mstatus' \ SupervisorBits = mstatus \ SupervisorBits
      BY <1>4, <2>1, Zenon DEF Sret, Returns, If, SupervisorBits, ModeInv, MprvOnlyInMachine
    <3>3. UNCHANGED <<mpp, delegationVars, pmpVars>>
      BY <1>4, <2>1, Zenon DEF Sret, Returns
    <3> QED BY <3>1, <3>2, <3>3, <1>a DEF Confined, MachineState, delegationVars, pmpVars
  <2> QED BY <1>4, <2>1 DEF Sret
<1>5. CASE Wfi \/ SfenceVma \/ Branch \/ Compute
  BY <1>5, Zenon DEF Wfi, SfenceVma, Branch, Compute
<1>6. CASE WriteStatus
  <2>1. ~csr_allowed("mstatus")
    BY <1>m DEF CsrMode
  <2>2. ASSUME NEW v \in SUBSET guest.bits, mstatus' = SstatusWritten(v),
               UNCHANGED <<priv, mpp, delegationVars, pmpVars>>
        PROVE  Confined
    <3>1. mstatus' \ SupervisorBits = mstatus \ SupervisorBits
      BY <2>2, Zenon DEF SstatusWritten
    <3> QED BY <2>2, <3>1, <1>a DEF Confined, MachineState, delegationVars, pmpVars
  <2> QED BY <1>6, <2>1, <2>2 DEF WriteStatus
<1>7. CASE WriteDelegation
  BY <1>7, <1>m DEF WriteDelegation, CsrMode
<1>8. CASE WriteEnables
  <2>1. ~csr_allowed("mie")
    BY <1>m DEF CsrMode
  <2>2. ASSUME NEW v \in SUBSET guest.ints, mie' = SieWritten(v),
               UNCHANGED <<medeleg, mideleg, mip_soft, counteren, trapVars, pmpVars>>
        PROVE  Confined
    <3>1. mie' \ mideleg' = mie \ mideleg
      BY <2>2, Zenon DEF SieWritten
    <3> QED BY <2>2, <3>1, <1>a DEF Confined, MachineState, trapVars, pmpVars
  <2> QED BY <1>8, <2>1, <2>2 DEF WriteEnables
<1>9. CASE WritePending
  <2>1. ~csr_allowed("mip")
    BY <1>m DEF CsrMode
  <2>2. ASSUME NEW v, mip_soft' = SipWritten(v),
               UNCHANGED <<medeleg, mideleg, mie, counteren, trapVars, pmpVars>>
        PROVE  Confined
    <3>1. mip_soft' \ (mideleg' \cap {"SSI"}) = mip_soft \ (mideleg \cap {"SSI"})
      BY <2>2, Zenon DEF SipWritten
    <3> QED BY <2>2, <3>1, <1>a DEF Confined, MachineState, trapVars, pmpVars
  <2> QED BY <1>9, <2>1, <2>2 DEF WritePending
<1>10. CASE Counters
  <2>1. ~csr_allowed("mcounteren")
    BY <1>m DEF CsrMode
  <2>2. ASSUME NEW on \in BOOLEAN,
               counteren' = IF on THEN counteren \cup {"s"} ELSE counteren \ {"s"},
               UNCHANGED <<medeleg, mideleg, mie, mip_soft, trapVars, pmpVars>>
        PROVE  Confined
    BY <2>2, <1>a DEF Confined, MachineState, trapVars, pmpVars
  <2> QED BY <1>10, <2>1, <2>2 DEF Counters
<1>11. CASE WriteSatp
  BY <1>11, Zenon DEF WriteSatp
<1>12. CASE WritePmpcfg \/ WritePmpaddr
  BY <1>12, <1>m DEF WritePmpcfg, WritePmpaddr, CsrMode
<1>13. ASSUME NEW va \in guest.words, NEW kind \in {"load", "store"}, Touch(va, kind)
       PROVE  Confined
  BY <1>13, Zenon DEF Touch
<1>14. ASSUME NEW va \in guest.words, Amo(va) \/ LoadReserved(va) \/ StoreConditional(va)
       PROVE  Confined
  BY <1>14, Zenon DEF Amo, LoadReserved, StoreConditional
<1>15. CASE DeviceLines \/ (\E w \in guest.dma : DeviceWrite(w)) \/ UNCHANGED hartVars
  BY <1>15, Zenon DEF DeviceLines, DeviceWrite, hartVars
<1> QED
  BY <1>1, <1>2, <1>3, <1>4, <1>5, <1>6, <1>7, <1>8, <1>9, <1>10, <1>11, <1>12, <1>13,
     <1>14, <1>15 DEF HartNext

\* Nothing that runs below machine mode changes the machine's own registers, and only
\* a trap raises the mode, for every guest (csr_allowed(), csr_write(),
\* enter_handler()).
THEOREM SupervisorStaysConfined == HartSpec => SupervisorConfined
<1>1. HartInit => ModeInv
  BY Zenon DEF HartInit, ModeInv, MprvOnlyInMachine, Modes
<1>2. ModeInv /\ [HartNext]_hartVars => ModeInv'
  BY StepKeepsModes, Zenon
<1>3. ModeInv /\ [HartNext]_hartVars => [priv # M => Confined]_hartVars
  BY StepConfined, Zenon
<1> QED BY <1>1, <1>2, <1>3, PTL DEF HartSpec, SupervisorConfined, Confined

-----------------------------------------------------------------------------
(* LR.W and SC.W *)

\* What ReservationSound asks of a step.
StoresReserved == sc' # NoWord => sc' = lr

\* Trap entry ends the reservation, and a second trap keeps it but halts.
LEMMA TrapReserves ==
    ASSUME ReservationInv, NEW cause, trap(cause)
    PROVE  ReservationInv' /\ StoresReserved
BY Zenon DEF trap, enter_handler, EndReservation, ReservationEnded, reservationVars, ReservationInv,
       StoresReserved

\* A step that keeps or ends the reservation and stores nothing.
LEMMA OthersReserve ==
    ASSUME ReservationInv, sc' = NoWord, EndReservation \/ UNCHANGED reservationVars
    PROVE  ReservationInv' /\ StoresReserved
BY Zenon DEF EndReservation, ReservationEnded, reservationVars, ReservationInv, StoresReserved

\* Every step keeps the reservation what the last LR.W read, and stores under it only.
LEMMA StepReserves ==
    ASSUME ReservationInv, [HartNext]_hartVars
    PROVE  ReservationInv' /\ [StoresReserved]_hartVars
<1> USE TrapReserves, OthersReserve
<1> USE DEF Attempt, Privileged, Csr, SameState, retire, RetireStoring
<1>1. CASE take_interrupt
  BY <1>1, Zenon DEF take_interrupt, enter_handler
<1>2. ASSUME NEW cause \in guest.causes, Raise(cause)
      PROVE  ReservationInv' /\ StoresReserved
  BY <1>2, Zenon DEF Raise
<1>3. CASE Mret \/ Sret \/ Wfi \/ SfenceVma \/ Branch \/ Compute
  BY <1>3, Zenon DEF Mret, Sret, Returns, Wfi, SfenceVma, Branch, Compute
<1>4. CASE WriteStatus \/ WriteDelegation \/ WriteEnables \/ WritePending \/ Counters
  BY <1>4, Zenon DEF WriteStatus, WriteDelegation, WriteEnables, WritePending, Counters
<1>5. CASE WriteSatp \/ WritePmpcfg \/ WritePmpaddr
  BY <1>5, Zenon DEF WriteSatp, WritePmpcfg, WritePmpaddr
<1>6. ASSUME NEW va \in guest.words, NEW kind \in {"load", "store"}, Touch(va, kind)
      PROVE  ReservationInv' /\ StoresReserved
  BY <1>6, Zenon DEF Touch
<1>7. ASSUME NEW va \in guest.words, Amo(va)
      PROVE  ReservationInv' /\ StoresReserved
  BY <1>7, Zenon DEF Amo
<1>8. ASSUME NEW va \in guest.words, LoadReserved(va)
      PROVE  ReservationInv' /\ StoresReserved
  BY <1>8 DEF LoadReserved, ReservationInv, StoresReserved
<1>9. ASSUME NEW va \in guest.words, StoreConditional(va)
      PROVE  ReservationInv' /\ StoresReserved
  BY <1>9, Zenon DEF StoreConditional, ReservationInv, StoresReserved
<1>10. ASSUME NEW w \in guest.dma, DeviceWrite(w)
       PROVE  ReservationInv' /\ StoresReserved
  BY <1>10, Zenon DEF DeviceWrite, ReservationInv, StoresReserved
<1>11. CASE DeviceLines
  BY <1>11, Zenon DEF DeviceLines
<1>12. CASE UNCHANGED hartVars
  BY <1>12, Zenon DEF hartVars, reservationVars, ReservationInv
<1> QED
  BY <1>1, <1>2, <1>3, <1>4, <1>5, <1>6, <1>7, <1>8, <1>9, <1>10, <1>11, <1>12, Zenon DEF HartNext

\* An SC.W stores only to the word the last LR.W read, with no trap, return, new
\* translation, fence or device's write to it between, for every page table and every
\* device (step(), snoop_device_write()).
THEOREM ReservationStaysSound == HartSpec => ReservationSound
<1>1. HartInit => ReservationInv
  BY Zenon DEF HartInit, ReservationInv
<1>2. ReservationInv /\ [HartNext]_hartVars => ReservationInv' /\ [StoresReserved]_hartVars
  BY StepReserves, Zenon
<1> QED BY <1>1, <1>2, PTL DEF HartSpec, ReservationSound, StoresReserved

-----------------------------------------------------------------------------
(* Locked PMP entries *)

\* What LockedRegionFixed asks of a step.
RegionsFixed ==
    \A i \in 0..PmpEntries - 1 : pmpcfg[i].locked =>
        /\ pmpcfg'[i] = pmpcfg[i]
        /\ pmpaddr'[i] = pmpaddr[i]
        /\ (pmpcfg[i].a = "TOR" /\ i > 0) => pmpaddr'[i - 1] = pmpaddr[i - 1]

\* Most steps leave PMP alone.
LEMMA OthersFix ==
    ASSUME RegionInv, UNCHANGED pmpVars
    PROVE  RegionInv' /\ RegionsFixed
BY Zenon DEF RegionInv, RegionsFixed, pmpVars

\* Every step keeps the registers of the locked entries.
LEMMA StepFixes ==
    ASSUME RegionInv, [HartNext]_hartVars
    PROVE  RegionInv' /\ RegionsFixed
<1> USE OthersFix
<1> USE DEF Attempt, Privileged, Csr, SameState, trap
<1>1. CASE take_interrupt
  BY <1>1, Zenon DEF take_interrupt
<1>2. ASSUME NEW cause \in guest.causes, Raise(cause)
      PROVE  RegionInv' /\ RegionsFixed
  BY <1>2, Zenon DEF Raise
<1>3. CASE Mret \/ Sret \/ Wfi \/ SfenceVma \/ Branch \/ Compute
  BY <1>3, Zenon DEF Mret, Sret, Returns, Wfi, SfenceVma, Branch, Compute
<1>4. CASE WriteStatus \/ WriteDelegation \/ WriteEnables \/ WritePending \/ Counters \/ WriteSatp
  BY <1>4, Zenon DEF WriteStatus, WriteDelegation, WriteEnables, WritePending, Counters, WriteSatp
<1>5. CASE WritePmpcfg
  <2>1. ASSUME NEW g \in guest.groups, NEW v \in guest.cfgs, UNCHANGED pmpaddr,
               pmpcfg' = [i \in DOMAIN pmpcfg |->
                             IF i \div 4 # g \/ pmpcfg[i].locked THEN pmpcfg[i] ELSE Stored(v[i % 4])]
        PROVE  RegionInv' /\ RegionsFixed
    <3> DEFINE F(i) == IF i \div 4 # g \/ pmpcfg[i].locked THEN pmpcfg[i] ELSE Stored(v[i % 4])
    <3>1. pmpcfg' = [i \in 0..PmpEntries - 1 |-> F(i)]
      BY <2>1, Zenon DEF RegionInv
    <3>2. \A i \in 0..PmpEntries - 1 : pmpcfg[i].locked => F(i) = pmpcfg[i]
      BY Zenon
    <3> HIDE DEF F
    <3>3. RegionInv'
      BY <2>1, <3>1, Zenon DEF RegionInv
    <3>4. RegionsFixed
      BY <2>1, <3>1, <3>2, Zenon DEF RegionsFixed
    <3> QED BY <3>3, <3>4
  <2> QED BY <1>5, <2>1 DEF WritePmpcfg
<1>6. CASE WritePmpaddr
  <2>1. ASSUME NEW j \in guest.entries, NEW v \in guest.addrs, UNCHANGED pmpcfg,
               pmpaddr' = IF AddrLocked(j) THEN pmpaddr ELSE [pmpaddr EXCEPT ![j] = v]
        PROVE  RegionInv' /\ RegionsFixed
    <3>1. RegionInv'
      BY <2>1, ZenonT(30) DEF RegionInv
    <3>2. ASSUME NEW i \in 0..PmpEntries - 1, pmpcfg[i].locked, ~AddrLocked(j)
          PROVE  /\ i # j
                 /\ (pmpcfg[i].a = "TOR" /\ i > 0) => i - 1 # j
      BY <3>2, PmpAssumption DEF AddrLocked
    <3>3. RegionsFixed
      <4>1. CASE AddrLocked(j)
        BY <2>1, <4>1, Zenon DEF RegionsFixed
      <4>2. CASE ~AddrLocked(j)
        BY <2>1, <3>2, <4>2, PmpAssumption DEF RegionsFixed, RegionInv
      <4> QED BY <4>1, <4>2
    <3> QED BY <3>1, <3>3
  <2> QED BY <1>6, <2>1 DEF WritePmpaddr
<1>7. ASSUME NEW va \in guest.words, NEW kind \in {"load", "store"}, Touch(va, kind)
      PROVE  RegionInv' /\ RegionsFixed
  BY <1>7, Zenon DEF Touch
<1>8. ASSUME NEW va \in guest.words, Amo(va) \/ LoadReserved(va) \/ StoreConditional(va)
      PROVE  RegionInv' /\ RegionsFixed
  BY <1>8, Zenon DEF Amo, LoadReserved, StoreConditional
<1>9. CASE DeviceLines \/ (\E w \in guest.dma : DeviceWrite(w)) \/ UNCHANGED hartVars
  BY <1>9, Zenon DEF DeviceLines, DeviceWrite, hartVars
<1> QED
  BY <1>1, <1>2, <1>3, <1>4, <1>5, <1>6, <1>7, <1>8, <1>9, Zenon DEF HartNext

\* A locked PMP entry keeps its rights and its region until reset, the base of a TOR
\* region included, for any number of entries (csr_write()).
THEOREM LockedRegionStaysFixed == HartSpec => LockedRegionFixed
<1>1. HartInit => RegionInv
  BY Zenon DEF HartInit, RegionInv
<1>2. RegionInv /\ [HartNext]_hartVars => RegionInv' /\ RegionsFixed
  BY StepFixes, Zenon
<1> QED BY <1>1, <1>2, PTL DEF HartSpec, LockedRegionFixed, RegionsFixed

-----------------------------------------------------------------------------
(* The input path (Input). *)

Ring == 0 .. KeyBuffer - 1
Waiting == Buffered \o queue

\* Types, and that a slot of the ring in use holds an event.
InputType ==
    /\ queue \in Seq(Events)
    /\ held \in SUBSET Keys /\ seen \in SUBSET Keys
    /\ key_head \in Ring /\ key_count \in 0 .. KeyBuffer
    /\ keys \in [Ring -> Events \cup {NoEvent}]
    /\ \A i \in 0 .. key_count - 1 : keys[RingSlot(i)] \in Events
    /\ keys_dropped \in BOOLEAN

-----------------------------------------------------------------------------
(* The ring. *)

\* A position of the ring is found without a division.
LEMMA RingPosition ==
    ASSUME NEW K \in Nat \ {0}, NEW h \in 0 .. K - 1, NEW n \in 0 .. K
    PROVE  /\ (h + n) % K = IF h + n < K THEN h + n ELSE h + n - K
           /\ (h + n) % K \in 0 .. K - 1
OBVIOUS

\* Positions less than a turn apart are different.
LEMMA RingDistinct ==
    ASSUME NEW K \in Nat \ {0}, NEW h \in 0 .. K - 1, NEW m \in 0 .. K - 1, NEW n \in 0 .. K - 1,
           (h + m) % K = (h + n) % K
    PROVE  m = n
<1>1. (h + m) % K = IF h + m < K THEN h + m ELSE h + m - K
  BY RingPosition, m \in 0 .. K, Zenon
<1>2. (h + n) % K = IF h + n < K THEN h + n ELSE h + n - K
  BY RingPosition, n \in 0 .. K, Zenon
<1> QED
  BY <1>1, <1>2

\* What is buffered is a sequence of events.
WaitingShape ==
    /\ Buffered \in Seq(Events)
    /\ Len(Buffered) = key_count
    /\ \A i \in 1 .. key_count : Buffered[i] = keys[RingSlot(i - 1)]
    /\ Waiting \in Seq(Events)
    /\ Len(Waiting) = key_count + Len(queue)
    /\ \A i \in 1 .. key_count + Len(queue) :
         Waiting[i] = IF i <= key_count THEN keys[RingSlot(i - 1)] ELSE queue[i - key_count]

\* What waits is a sequence of events.
LEMMA BufferedType == InputType => WaitingShape
<1> SUFFICES ASSUME InputType PROVE WaitingShape
  BY Zenon
<1>1. \A i \in 1 .. key_count : keys[RingSlot(i - 1)] \in Events
  BY DEF InputType
<1>2. Buffered \in Seq(Events) /\ Len(Buffered) = key_count
  BY <1>1 DEF Buffered, InputType
<1>3. \A i \in 1 .. key_count : Buffered[i] = keys[RingSlot(i - 1)]
  BY Zenon DEF Buffered
<1> HIDE DEF Buffered
<1>4. queue \in Seq(Events) /\ key_count \in Nat
  BY DEF InputType
<1>5. Waiting \in Seq(Events) /\ Len(Waiting) = key_count + Len(queue)
  BY <1>2, <1>4 DEF Waiting
<1>6. \A i \in 1 .. key_count + Len(queue) :
         Waiting[i] = IF i <= key_count THEN Buffered[i] ELSE queue[i - key_count]
  BY <1>2, <1>4 DEF Waiting
<1> QED
  BY <1>2, <1>3, <1>4, <1>5, <1>6 DEF WaitingShape

\* Dropping the head of the second of two sequences removes one element of the whole.
LEMMA RemoveAfter ==
    ASSUME NEW V, NEW s \in Seq(V), NEW t \in Seq(V), Len(t) >= 1
    PROVE  s \o Tail(t) = Fifo!Without(s \o t, Len(s) + 1)
<1> DEFINE w == s \o t
           r == SubSeq(w, 1, Len(s))
           u == SubSeq(w, Len(s) + 2, Len(w))
<1>1. w \in Seq(V) /\ Len(w) = Len(s) + Len(t)
  OBVIOUS
<1>2. \A i \in 1 .. Len(w) : w[i] = IF i <= Len(s) THEN s[i] ELSE t[i - Len(s)]
  OBVIOUS
<1> HIDE DEF w
<1>3. Fifo!Without(w, Len(s) + 1) = r \o u
  <2>1. (Len(s) + 1) - 1 = Len(s) /\ (Len(s) + 1) + 1 = Len(s) + 2
    OBVIOUS
  <2> QED
    BY <2>1, Zenon DEF Fifo!Without
<1>4. r \in Seq(V) /\ Len(r) = Len(s) /\ \A i \in 1 .. Len(s) : r[i] = w[i]
  BY <1>1
<1>5. r = s
  BY <1>1, <1>2, <1>4, SeqEqual
<1>6. /\ u \in Seq(V) /\ Len(u) = Len(t) - 1
      /\ \A i \in 1 .. Len(t) - 1 : u[i] = w[Len(s) + 1 + i]
  <2>1. \A i \in Len(s) + 2 .. Len(w) : w[i] \in V
    BY <1>1
  <2>2. /\ Len(s) + 2 \in 1 .. Len(w) + 1 /\ Len(w) \in Nat
        /\ Len(w) - (Len(s) + 2) + 1 = Len(t) - 1
    BY <1>1
  <2>3. u \in Seq(V) /\ Len(u) = Len(t) - 1
    BY <1>1, <2>1, <2>2
  <2>4. \A i \in 1 .. Len(t) - 1 : u[i] = w[(Len(s) + 2) + i - 1]
    BY <1>1, <2>2
  <2>5. \A i \in 1 .. Len(t) - 1 : (Len(s) + 2) + i - 1 = Len(s) + 1 + i
    OBVIOUS
  <2> QED
    BY <2>3, <2>4, <2>5, Zenon
<1>7. u = Tail(t)
  <2>1. /\ Tail(t) \in Seq(V) /\ Len(Tail(t)) = Len(t) - 1
        /\ \A i \in 1 .. Len(t) - 1 : Tail(t)[i] = t[i + 1]
    OBVIOUS
  <2>2. \A i \in 1 .. Len(t) - 1 : u[i] = t[i + 1]
    BY <1>1, <1>2, <1>6
  <2> HIDE DEF u
  <2> QED
    BY <1>6, <2>1, <2>2, SeqEqual, Zenon
<1> QED
  BY <1>3, <1>5, <1>7, Zenon DEF w

-----------------------------------------------------------------------------
(* What each action does to the events that wait. *)

\* The host's push adds an event at the end or changes nothing.
LEMMA PushWaits ==
    ASSUME InputType, Push, UNCHANGED <<ringVars, seen>>
    PROVE  /\ InputType'
           /\ \/ Waiting' = Waiting /\ held' = held
              \/ \E e \in Events : Waiting' = Append(Waiting, e) /\ held' = Pressed(held, e)
<1>1. Buffered' = Buffered
  BY Zenon DEF Buffered, RingSlot, ringVars
<1>2. \A i : RingSlot(i)' = RingSlot(i)
  BY Zenon DEF RingSlot, ringVars
<1>3. CASE UNCHANGED deviceVars
  <2>1. Waiting' = Waiting
    BY <1>1, <1>3, Zenon DEF Waiting, deviceVars
  <2>2. InputType'
    BY <1>2, <1>3, Zenon DEF InputType, deviceVars, ringVars
  <2> QED
    BY <1>3, <2>1, <2>2, Zenon DEF deviceVars
<1>4. ASSUME NEW e \in Events, queue' = Append(queue, e), held' = Pressed(held, e)
      PROVE  InputType' /\ Waiting' = Append(Waiting, e)
  <2>1. e.key \in Keys
    BY Zenon DEF Events
  <2>2. InputType'
    BY <1>2, <1>4, <2>1 DEF InputType, ringVars, Pressed
  <2>3. Buffered \in Seq(Events) /\ queue \in Seq(Events)
    BY BufferedType, Zenon DEF InputType, WaitingShape
  <2>4. Buffered \o Append(queue, e) = Append(Buffered \o queue, e)
    BY <2>3
  <2> QED
    BY <1>1, <1>4, <2>2, <2>4, Zenon DEF Waiting
<1> QED
  BY <1>3, <1>4, Zenon DEF Push

\* A round of drain_input moves the oldest event of the device to the ring, or drops
\* the first one the ring has no room for.
LEMMA DrainWaits ==
    ASSUME InputType, Drain
    PROVE  /\ InputType'
           /\ \/ Waiting' = Waiting /\ keys_dropped' = keys_dropped
              \/ /\ KeyBuffer + 1 <= Len(Waiting)
                 /\ Waiting' = Fifo!Without(Waiting, KeyBuffer + 1)
                 /\ keys_dropped' = TRUE
<1> USE InputAssumption
<1>1. CASE queue = <<>>
  <2>1. UNCHANGED <<queue, ringVars, held, seen>>
    BY <1>1, Zenon DEF Drain
  <2> QED
    BY <2>1, Zenon DEF InputType, ringVars, Waiting, Buffered, RingSlot
<1>2. CASE queue # <<>> /\ BufferFull
  <2>1. /\ queue' = Tail(queue) /\ keys_dropped' = TRUE
        /\ UNCHANGED <<keys, key_count, key_head, held, seen>>
    BY <1>2, Zenon DEF Drain
  <2>2. InputType'
    BY <1>2, <2>1 DEF InputType, RingSlot
  <2>3. Buffered' = Buffered
    BY <2>1, Zenon DEF Buffered, RingSlot
  <2>4. /\ Buffered \in Seq(Events) /\ Len(Buffered) = KeyBuffer
        /\ queue \in Seq(Events) /\ Len(queue) >= 1
    BY <1>2, BufferedType DEF InputType, BufferFull, WaitingShape
  <2>5. Buffered \o Tail(queue) = Fifo!Without(Buffered \o queue, KeyBuffer + 1)
    BY <2>4, RemoveAfter, Zenon
  <2>6. KeyBuffer + 1 <= Len(Waiting)
    BY <2>4 DEF Waiting
  <2> QED
    BY <2>1, <2>2, <2>3, <2>5, <2>6, Zenon DEF Waiting
<1>3. CASE queue # <<>> /\ ~BufferFull
  <2>1. /\ queue' = Tail(queue) /\ keys' = [keys EXCEPT ![RingSlot(key_count)] = Head(queue)]
        /\ key_count' = key_count + 1
        /\ UNCHANGED <<keys_dropped, key_head, held, seen>>
    BY <1>3, Zenon DEF Drain
  <2>2. /\ key_count \in 0 .. KeyBuffer - 1 /\ key_head \in Ring
        /\ queue \in Seq(Events) /\ Len(queue) >= 1 /\ Head(queue) \in Events
        /\ Tail(queue) \in Seq(Events)
        /\ keys \in [Ring -> Events \cup {NoEvent}]
    BY <1>3 DEF InputType, BufferFull
  <2>3. \A i \in 0 .. KeyBuffer - 1 : RingSlot(i) \in Ring /\ RingSlot(i)' = RingSlot(i)
    <3>1. \A i \in 0 .. KeyBuffer - 1 : i \in 0 .. KeyBuffer
      OBVIOUS
    <3> QED
      BY <2>1, <2>2, <3>1, RingPosition, Zenon DEF RingSlot, Ring
  <2>4. \A i \in 0 .. key_count - 1 : RingSlot(i) # RingSlot(key_count)
    <3>1. \A i \in 0 .. key_count - 1 : i \in 0 .. KeyBuffer - 1 /\ i # key_count
      BY <2>2
    <3> QED
      BY <2>2, <3>1, RingDistinct, Zenon DEF RingSlot, Ring
  <2>5. /\ keys' \in [Ring -> Events \cup {NoEvent}]
        /\ \A i \in 0 .. key_count : keys'[RingSlot(i)] =
              IF i = key_count THEN Head(queue) ELSE keys[RingSlot(i)]
    BY <2>1, <2>2, <2>3, <2>4
  <2>6. \A i \in 0 .. key_count - 1 : keys[RingSlot(i)] \in Events
    BY Zenon DEF InputType
  <2>7. InputType'
    <3>1. \A i \in 0 .. key_count' - 1 : keys'[RingSlot(i)'] \in Events
      BY <2>1, <2>2, <2>3, <2>5, <2>6
    <3>2. key_count' \in 0 .. KeyBuffer /\ key_head' \in Ring
      BY <2>1, <2>2
    <3> QED
      BY <2>1, <2>2, <2>5, <3>1, <3>2, Zenon DEF InputType
  <2>8. Waiting' = Waiting
    <3>1. /\ Waiting \in Seq(Events) /\ Len(Waiting) = key_count + Len(queue)
          /\ \A i \in 1 .. key_count + Len(queue) :
                Waiting[i] = IF i <= key_count THEN keys[RingSlot(i - 1)] ELSE queue[i - key_count]
      BY BufferedType, Zenon DEF WaitingShape
    <3>2. /\ Waiting' \in Seq(Events) /\ Len(Waiting') = key_count' + Len(queue')
          /\ \A i \in 1 .. key_count' + Len(queue') :
                Waiting'[i] = IF i <= key_count' THEN keys'[RingSlot(i - 1)']
                              ELSE queue'[i - key_count']
      <4>1. WaitingShape'
        BY <2>7, BufferedType, PTL
      <4> QED
        BY <4>1, Zenon DEF WaitingShape
    <3>3. Len(queue') = Len(queue) - 1 /\ \A i \in 1 .. Len(queue) - 1 : queue'[i] = queue[i + 1]
      BY <2>1, <2>2
    <3>4. Len(Waiting') = Len(Waiting)
      BY <2>1, <2>2, <3>1, <3>2, <3>3
    <3>5. ASSUME NEW i \in 1 .. Len(Waiting) PROVE Waiting'[i] = Waiting[i]
      <4>1. CASE i <= key_count
        <5> DEFINE j == i - 1
        <5>1. /\ i \in 1 .. key_count + Len(queue) /\ i \in 1 .. key_count' + Len(queue') /\ i <= key_count'
              /\ j \in 0 .. KeyBuffer - 1 /\ j \in 0 .. key_count /\ j # key_count
          BY <2>1, <2>2, <3>1, <3>3, <4>1
        <5> HIDE DEF j
        <5>2. Waiting[i] = keys[RingSlot(j)] /\ Waiting'[i] = keys'[RingSlot(j)']
          BY <3>1, <3>2, <4>1, <5>1, Zenon DEF j
        <5>3. RingSlot(j)' = RingSlot(j) /\ keys'[RingSlot(j)] = keys[RingSlot(j)]
          BY <2>3, <2>5, <5>1, Zenon
        <5> QED
          BY <5>2, <5>3, Zenon
      <4>2. CASE i = key_count + 1
        <5>1. Waiting[i] = queue[1]
          BY <4>2, <2>2, <3>1
        <5>2. Waiting'[i] = keys'[RingSlot(key_count)]
          BY <4>2, <2>1, <2>2, <2>3, <3>2, <3>3
        <5>3. keys'[RingSlot(key_count)] = Head(queue) /\ Head(queue) = queue[1]
          BY <2>2, <2>5
        <5> QED
          BY <5>1, <5>2, <5>3, Zenon
      <4>3. CASE i > key_count + 1
        BY <4>3, <2>1, <2>2, <3>1, <3>2, <3>3
      <4> QED
        BY <4>1, <4>2, <4>3, <2>2, <3>1
    <3> QED
      BY <3>1, <3>2, <3>4, <3>5, SeqEqual, Zenon
  <2> QED
    BY <2>1, <2>7, <2>8, Zenon
<1> QED
  BY <1>1, <1>2, <1>3, Zenon

\* SYS_EVENT takes the oldest event that waits, or finds the ring empty.
LEMMA EventWaits ==
    ASSUME InputType, Event
    PROVE  /\ InputType'
           /\ held' = held /\ keys_dropped' = keys_dropped
           /\ \/ Waiting' = Waiting /\ got' = NoEvent /\ seen' = seen
              \/ /\ Waiting # <<>> /\ got' = Head(Waiting) /\ Waiting' = Tail(Waiting)
                 /\ seen' = Pressed(seen, Head(Waiting))
<1> USE InputAssumption
<1>0. UNCHANGED <<queue, held, keys, keys_dropped>>
  BY Zenon DEF Event, deviceVars
<1>1. CASE key_count = 0
  <2>1. got' = NoEvent /\ UNCHANGED <<key_head, key_count, seen>>
    BY <1>1, Zenon DEF Event
  <2> QED
    BY <1>0, <2>1, Zenon DEF InputType, Waiting, Buffered, RingSlot
<1>2. CASE key_count # 0
  <2>1. /\ got' = keys[key_head] /\ key_head' = (key_head + 1) % KeyBuffer
        /\ key_count' = key_count - 1 /\ seen' = Pressed(seen, keys[key_head])
    BY <1>2, Zenon DEF Event
  <2>2. /\ key_count \in 1 .. KeyBuffer /\ key_head \in 0 .. KeyBuffer - 1
        /\ queue \in Seq(Events)
    BY <1>2 DEF InputType, Ring
  <2>3. RingSlot(0) = key_head /\ keys[key_head] \in Events
    <3>1. (key_head + 0) % KeyBuffer = key_head
      BY <2>2
    <3>2. RingSlot(0) = key_head
      BY <3>1, Zenon DEF RingSlot
    <3> QED
      BY <2>2, <3>2 DEF InputType
  <2>4. key_head' \in 0 .. KeyBuffer - 1
    BY <2>1, <2>2, RingPosition, 1 \in 0 .. KeyBuffer, Zenon
  <2>5. ASSUME NEW i \in 0 .. key_count - 2 PROVE RingSlot(i)' = RingSlot(i + 1)
    <3>1. i \in 0 .. KeyBuffer /\ i + 1 \in 0 .. KeyBuffer
      BY <2>2
    <3>2. key_head' = IF key_head + 1 < KeyBuffer THEN key_head + 1 ELSE key_head + 1 - KeyBuffer
      BY <2>1, <2>2, RingPosition, 1 \in 0 .. KeyBuffer, Zenon
    <3>3. (key_head + (i + 1)) % KeyBuffer
            = IF key_head + (i + 1) < KeyBuffer THEN key_head + (i + 1)
              ELSE key_head + (i + 1) - KeyBuffer
      BY <2>2, <3>1, RingPosition, Zenon
    <3>4. (key_head' + i) % KeyBuffer
            = IF key_head' + i < KeyBuffer THEN key_head' + i ELSE key_head' + i - KeyBuffer
      BY <2>4, <3>1, RingPosition, Zenon
    <3>5. (key_head' + i) % KeyBuffer = (key_head + (i + 1)) % KeyBuffer
      BY <2>2, <3>2, <3>3, <3>4
    <3> QED
      BY <3>5, Zenon DEF RingSlot
  <2>6. InputType'
    <3>1. \A i \in 0 .. key_count' - 1 : keys'[RingSlot(i)'] \in Events
      BY <1>0, <2>1, <2>2, <2>5 DEF InputType
    <3>2. seen' \in SUBSET Keys
      BY <2>1, <2>3, Zenon DEF InputType, Pressed, Events
    <3> QED
      BY <1>0, <2>1, <2>2, <2>4, <3>1, <3>2 DEF InputType, Ring
  <2>7. /\ Waiting \in Seq(Events) /\ Len(Waiting) = key_count + Len(queue)
        /\ \A i \in 1 .. key_count + Len(queue) :
              Waiting[i] = IF i <= key_count THEN keys[RingSlot(i - 1)] ELSE queue[i - key_count]
    BY BufferedType, Zenon DEF WaitingShape
  <2>8. /\ Waiting' \in Seq(Events) /\ Len(Waiting') = key_count' + Len(queue)
        /\ \A i \in 1 .. key_count' + Len(queue) :
              Waiting'[i] = IF i <= key_count' THEN keys[RingSlot(i - 1)'] ELSE queue[i - key_count']
    <3>1. WaitingShape'
      BY <2>6, BufferedType, PTL
    <3> QED
      BY <1>0, <3>1, Zenon DEF WaitingShape
  <2>9. Waiting # <<>> /\ Head(Waiting) = keys[key_head]
    <3>1. Waiting[1] = keys[RingSlot(0)]
      BY <2>2, <2>7
    <3> QED
      BY <2>2, <2>3, <2>7, <3>1
  <2>10. Waiting' = Tail(Waiting)
    <3>1. /\ Tail(Waiting) \in Seq(Events) /\ Len(Tail(Waiting)) = Len(Waiting) - 1
          /\ \A i \in 1 .. Len(Waiting) - 1 : Tail(Waiting)[i] = Waiting[i + 1]
      BY <2>7, <2>9
    <3>2. Len(Waiting') = Len(Tail(Waiting))
      BY <2>1, <2>2, <2>7, <2>8, <3>1
    <3>3. ASSUME NEW i \in 1 .. Len(Waiting') PROVE Waiting'[i] = Waiting[i + 1]
      <4>1. CASE i <= key_count - 1
        <5>1. RingSlot(i - 1)' = RingSlot(i)
          BY <4>1, <2>2, <2>5, <2>8
        <5> QED
          BY <4>1, <5>1, <2>1, <2>2, <2>7, <2>8, SMTT(30)
      <4>2. CASE i > key_count - 1
        <5>1. i \in 1 .. key_count' + Len(queue) /\ i + 1 \in 1 .. key_count + Len(queue)
          BY <2>1, <2>2, <2>7, <2>8
        <5>2. ~(i <= key_count') /\ ~(i + 1 <= key_count) /\ i - key_count' = (i + 1) - key_count
          BY <4>2, <2>1, <2>2, <5>1
        <5>3. Waiting'[i] = queue[i - key_count']
          BY <2>8, <5>1, <5>2, Zenon
        <5>4. Waiting[i + 1] = queue[(i + 1) - key_count]
          BY <2>7, <5>1, <5>2, Zenon
        <5> QED
          BY <5>2, <5>3, <5>4, Zenon
      <4> QED
        BY <4>1, <4>2, <2>2, <2>8
    <3> QED
      BY <2>8, <3>1, <3>2, <3>3, SeqEqual, Zenon
  <2> QED
    BY <1>0, <2>1, <2>6, <2>9, <2>10, Zenon
<1> QED
  BY <1>1, <1>2, Zenon

-----------------------------------------------------------------------------
(* The refinement. *)

\* Every step keeps the types and is, on the events that wait, a push, a take, a drop
\* or a stutter.
LEMMA NextWaits ==
    ASSUME InputType, [Next]_vars
    PROVE  /\ InputType'
           /\ \/ /\ UNCHANGED <<Waiting, held, seen, got, keys_dropped>>
              \/ /\ \E e \in Events : Waiting' = Append(Waiting, e) /\ held' = Pressed(held, e)
                 /\ UNCHANGED <<seen, got, keys_dropped>>
              \/ /\ KeyBuffer + 1 <= Len(Waiting)
                 /\ Waiting' = Fifo!Without(Waiting, KeyBuffer + 1)
                 /\ keys_dropped' = TRUE /\ got' = got
              \/ /\ UNCHANGED <<Waiting, held, seen, keys_dropped>> /\ got' = NoEvent
              \/ /\ Waiting # <<>> /\ got' = Head(Waiting) /\ Waiting' = Tail(Waiting)
                 /\ seen' = Pressed(seen, Head(Waiting))
                 /\ UNCHANGED <<held, keys_dropped>>
<1>1. CASE Push /\ UNCHANGED <<ringVars, got, seen>>
  <2>1. UNCHANGED <<ringVars, seen>> /\ UNCHANGED <<seen, got, keys_dropped>>
    BY <1>1, Zenon DEF ringVars
  <2> QED
    BY <1>1, <2>1, PushWaits, Zenon
<1>2. CASE Drain
  <2>1. UNCHANGED <<held, seen, got>>
    BY <1>2, Zenon DEF Drain
  <2> QED
    BY <1>2, <2>1, DrainWaits, Zenon
<1>3. CASE Event
  BY <1>3, EventWaits, Zenon
<1>4. CASE UNCHANGED vars
  BY <1>4, Zenon DEF vars, deviceVars, ringVars, InputType, Waiting, Buffered, RingSlot
<1> QED
  BY <1>1, <1>2, <1>3, <1>4, Zenon DEF Next, Clock, Interrupt, Claim, Complete

\* Nothing waits at first.
LEMMA InitWaits == Init => InputType /\ Waiting = <<>>
<1> SUFFICES ASSUME Init PROVE InputType /\ Waiting = <<>>
  BY Zenon
<1>1. InputType
  <2>1. keys \in [Ring -> Events \cup {NoEvent}]
    BY Zenon DEF Init, Ring
  <2>2. \A i \in 0 .. key_count - 1 : keys[RingSlot(i)] \in Events
    BY DEF Init
  <2>3. held \in SUBSET Keys /\ seen \in SUBSET Keys /\ keys_dropped \in BOOLEAN
    BY Zenon DEF Init
  <2>4. queue \in Seq(Events) /\ key_head \in Ring /\ key_count \in 0 .. KeyBuffer
    BY InputAssumption DEF Init, Ring
  <2> QED
    BY <2>1, <2>2, <2>3, <2>4, Zenon DEF InputType
<1>2. Len(Waiting) = 0 /\ Waiting \in Seq(Events)
  BY <1>1, BufferedType DEF WaitingShape, Init
<1> QED
  BY <1>1, <1>2

\* Types hold.
LEMMA TypesHold == Spec => []InputType
<1>1. Init => InputType
  BY InitWaits, Zenon
<1>2. InputType /\ [Next]_vars => InputType'
  BY NextWaits, Zenon
<1> QED
  BY <1>1, <1>2, PTL DEF Spec

\* The device's queue and the kernel's ring together are one queue: every behaviour of
\* the input path is one of EventFifo's, with the events of both as what waits
\* (rv32_input.v, drain_input() and SYS_EVENT).
THEOREM EventsStayInOrder == Spec => EventsInOrder
<1>1. Init => Fifo!Init
  BY InitWaits, Zenon DEF Init, Fifo!Init, Waiting
<1>2. InputType /\ [Next]_vars => [Fifo!Next]_<<Buffered \o queue, keys_dropped, got>>
  <2> SUFFICES ASSUME InputType, [Next]_vars
               PROVE  [Fifo!Next]_<<Buffered \o queue, keys_dropped, got>>
    BY Zenon
  <2>1. Waiting \in Seq(Events) /\ KeyBuffer \in Nat
    BY BufferedType, InputAssumption, Zenon DEF WaitingShape
  <2>2. ASSUME KeyBuffer + 1 <= Len(Waiting), Waiting' = Fifo!Without(Waiting, KeyBuffer + 1),
               keys_dropped' = TRUE, got' = got
        PROVE  Fifo!Drop
    <3>1. KeyBuffer + 1 \in KeyBuffer + 1 .. Len(Waiting)
      BY <2>1, <2>2
    <3> QED
      BY <2>2, <3>1, Zenon DEF Fifo!Drop, Waiting
  <2> QED
    BY <2>2, NextWaits, Zenon DEF Waiting, Fifo!Next, Fifo!Accept, Fifo!Take
<1> QED
  BY <1>1, <1>2, TypesHold, PTL DEF Spec, EventsInOrder, Fifo!Spec

-----------------------------------------------------------------------------
(* The keys held. *)

\* While nothing was dropped, the last event of a key that waits says whether KEYS holds
\* it; of a key no event waits for, KEYS and the program's view agree.
KeysInv ==
    ~keys_dropped => \A k \in Keys :
        /\ (\A i \in 1 .. Len(Waiting) : Waiting[i].key # k) => (k \in held <=> k \in seen)
        /\ \A i \in 1 .. Len(Waiting) :
              /\ Waiting[i].key = k
              /\ \A j \in i + 1 .. Len(Waiting) : Waiting[j].key # k
              => (k \in held <=> Waiting[i].down)

\* Changing a set by an event decides its key and no other.
LEMMA PressedMember ==
    ASSUME NEW set, NEW e \in Events, NEW k
    PROVE  k \in Pressed(set, e) <=> IF k = e.key THEN e.down ELSE k \in set
BY Zenon DEF Pressed, Events

\* Every action keeps the keys in agreement.
LEMMA KeysInductive ==
    ASSUME InputType, KeysInv, [Next]_vars
    PROVE  KeysInv'
<1> SUFFICES ASSUME ~keys_dropped', NEW k \in Keys
             PROVE  /\ (\A i \in 1 .. Len(Waiting') : Waiting'[i].key # k)
                          => (k \in held' <=> k \in seen')
                    /\ \A i \in 1 .. Len(Waiting') :
                          /\ Waiting'[i].key = k
                          /\ \A j \in i + 1 .. Len(Waiting') : Waiting'[j].key # k
                          => (k \in held' <=> Waiting'[i].down)
  BY Zenon DEF KeysInv
<1>1. /\ Waiting \in Seq(Events)
      /\ \A i \in 1 .. Len(Waiting) : Waiting[i] \in Events
  BY BufferedType DEF WaitingShape
<1>2. CASE UNCHANGED <<Waiting, held, seen, keys_dropped>>
  BY <1>2, Zenon DEF KeysInv
<1>3. ASSUME NEW e \in Events, Waiting' = Append(Waiting, e), held' = Pressed(held, e),
             UNCHANGED <<seen, keys_dropped>>
      PROVE  /\ (\A i \in 1 .. Len(Waiting') : Waiting'[i].key # k)
                  => (k \in held' <=> k \in seen')
             /\ \A i \in 1 .. Len(Waiting') :
                  /\ Waiting'[i].key = k
                  /\ \A j \in i + 1 .. Len(Waiting') : Waiting'[j].key # k
                  => (k \in held' <=> Waiting'[i].down)
  <2>1. /\ Len(Waiting') = Len(Waiting) + 1 /\ Waiting'[Len(Waiting) + 1] = e
        /\ \A i \in 1 .. Len(Waiting) : Waiting'[i] = Waiting[i]
    BY <1>1, <1>3
  <2>2. k \in held' <=> IF k = e.key THEN e.down ELSE k \in held
    BY <1>3, PressedMember, Zenon
  <2>3. Len(Waiting) \in Nat
    BY <1>1
  <2>4. ASSUME \A i \in 1 .. Len(Waiting') : Waiting'[i].key # k
        PROVE  k \in held' <=> k \in seen'
    BY <1>3, <2>1, <2>2, <2>3, <2>4 DEF KeysInv
  <2>5. ASSUME NEW i \in 1 .. Len(Waiting'), Waiting'[i].key = k,
               \A j \in i + 1 .. Len(Waiting') : Waiting'[j].key # k
        PROVE  k \in held' <=> Waiting'[i].down
    <3>1. CASE i = Len(Waiting) + 1
      BY <2>1, <2>2, <2>5, <3>1, Zenon
    <3>2. CASE i \in 1 .. Len(Waiting)
      <4>1. e.key # k
        BY <2>1, <2>3, <2>5, <3>2
      <4>2. \A j \in i + 1 .. Len(Waiting) : Waiting[j].key # k
        BY <2>1, <2>3, <2>5, <3>2
      <4> QED
        BY <1>3, <2>1, <2>2, <2>5, <3>2, <4>1, <4>2, Zenon DEF KeysInv
    <3> QED
      BY <2>1, <2>3, <3>1, <3>2
  <2> QED
    BY <2>4, <2>5, Zenon
<1>4. ASSUME Waiting # <<>>, Waiting' = Tail(Waiting), seen' = Pressed(seen, Head(Waiting)),
             UNCHANGED <<held, keys_dropped>>
      PROVE  /\ (\A i \in 1 .. Len(Waiting') : Waiting'[i].key # k)
                  => (k \in held' <=> k \in seen')
             /\ \A i \in 1 .. Len(Waiting') :
                  /\ Waiting'[i].key = k
                  /\ \A j \in i + 1 .. Len(Waiting') : Waiting'[j].key # k
                  => (k \in held' <=> Waiting'[i].down)
  <2>1. /\ Len(Waiting) \in Nat \ {0} /\ Len(Waiting') = Len(Waiting) - 1
        /\ Head(Waiting) = Waiting[1]
        /\ \A i \in 1 .. Len(Waiting) - 1 : Waiting'[i] = Waiting[i + 1]
    BY <1>1, <1>4
  <2>2. k \in seen' <=> IF k = Waiting[1].key THEN Waiting[1].down ELSE k \in seen
    BY <1>1, <1>4, <2>1, PressedMember
  <2>3. ASSUME \A i \in 1 .. Len(Waiting') : Waiting'[i].key # k
        PROVE  k \in held' <=> k \in seen'
    <3>1. \A j \in 2 .. Len(Waiting) : Waiting[j].key # k
      <4> SUFFICES ASSUME NEW j \in 2 .. Len(Waiting) PROVE Waiting[j].key # k
        BY Zenon
      <4>1. j - 1 \in 1 .. Len(Waiting) - 1 /\ (j - 1) + 1 = j
        BY <2>1
      <4> QED
        BY <2>1, <2>3, <4>1, Zenon
    <3>2. CASE Waiting[1].key = k
      BY <1>4, <2>1, <2>2, <3>1, <3>2 DEF KeysInv
    <3>3. CASE Waiting[1].key # k
      BY <1>4, <2>1, <2>2, <3>1, <3>3 DEF KeysInv
    <3> QED
      BY <3>2, <3>3, Zenon
  <2>4. ASSUME NEW i \in 1 .. Len(Waiting'), Waiting'[i].key = k,
               \A j \in i + 1 .. Len(Waiting') : Waiting'[j].key # k
        PROVE  k \in held' <=> Waiting'[i].down
    <3>1. i + 1 \in 1 .. Len(Waiting) /\ Waiting'[i] = Waiting[i + 1]
      BY <2>1
    <3>2. ASSUME NEW j \in (i + 1) + 1 .. Len(Waiting) PROVE Waiting[j].key # k
      <4>1. /\ j - 1 \in 1 .. Len(Waiting) - 1 /\ j - 1 \in i + 1 .. Len(Waiting')
            /\ (j - 1) + 1 = j
        BY <2>1
      <4> QED
        BY <2>1, <2>4, <4>1, Zenon
    <3> QED
      BY <1>4, <2>4, <3>1, <3>2, Zenon DEF KeysInv
  <2> QED
    BY <2>3, <2>4, Zenon
<1> QED
  BY <1>2, <1>3, <1>4, NextWaits, Zenon

\* Once every event has been taken and none was dropped, the program's view of the keys
\* is the device's KEYS (SYS_EVENT and SYS_KEYS).
THEOREM KeysAlwaysAgree == Spec => []KeysAgree
<1>1. Init => KeysInv
  BY InitWaits DEF Init, KeysInv
<1>2. InputType /\ KeysInv /\ [Next]_vars => KeysInv'
  BY KeysInductive, Zenon
<1>3. InputType /\ KeysInv => KeysAgree
  <2> SUFFICES ASSUME InputType, KeysInv, queue = <<>>, key_count = 0, ~keys_dropped
               PROVE  seen = held
    BY Zenon DEF KeysAgree
  <2>1. Len(Waiting) = 0
    BY BufferedType DEF WaitingShape
  <2>2. ASSUME NEW k \in Keys PROVE k \in held <=> k \in seen
    <3>1. \A i \in 1 .. Len(Waiting) : Waiting[i].key # k
      BY <2>1
    <3> QED
      BY <3>1, Zenon DEF KeysInv
  <2> QED
    BY <2>2, Zenon DEF InputType
<1> QED
  BY <1>1, <1>2, <1>3, TypesHold, PTL DEF Spec

-----------------------------------------------------------------------------
(* Halves *)

\* A time is its two halves (clint_load()).
LEMMA Halves ==
    ASSUME NEW t \in Nat
    PROVE  /\ Hi(t) \in Nat
           /\ Lo(t) \in 0..Half - 1
           /\ t = Hi(t) * Half + Lo(t)
BY TimeAssumption DEF Hi, Lo

\* A high half in its place is a time.
LEMMA Placed ==
    ASSUME NEW q \in Nat
    PROVE  q * Half \in Nat
BY TimeAssumption

\* Two halves with their order make times with the same order.
LEMMA ScaledOrder ==
    ASSUME NEW a \in Nat, NEW b \in Nat, a < b
    PROVE  a * Half + Half <= b * Half
<1>1. PICK d \in Nat : b = a + 1 + d
  <2>1. b - a - 1 \in Nat /\ b = a + 1 + (b - a - 1)
    OBVIOUS
  <2> QED BY <2>1
<1>2. b * Half = a * Half + Half + d * Half
  BY <1>1, TimeAssumption
<1>3. d * Half \in Nat /\ a * Half \in Nat
  BY <1>1, TimeAssumption
<1> QED BY <1>2, <1>3, TimeAssumption

\* The high half never falls while time runs.
LEMMA HiMonotone ==
    ASSUME NEW s \in Nat, NEW t \in Nat, s <= t
    PROVE  Hi(s) <= Hi(t)
<1>1. SUFFICES ASSUME Hi(t) < Hi(s)
               PROVE  FALSE
  BY Halves
<1> DEFINE a == Hi(t) * Half
           b == Hi(s) * Half
<1>2. a + Half <= b
  BY <1>1, ScaledOrder, Halves, Zenon
<1>3. a \in Nat /\ b \in Nat
  BY Halves, Placed, Zenon
<1>4. t = a + Lo(t) /\ s = b + Lo(s) /\ Lo(t) \in 0..Half - 1 /\ Lo(s) \in 0..Half - 1
  BY Halves, Zenon
<1> HIDE DEF a, b
<1> QED BY <1>2, <1>3, <1>4, TimeAssumption

\* A store to the low half leaves it there (clint_store()).
LEMMA LoStored ==
    ASSUME NEW q \in Nat, NEW r \in 0..Half - 1
    PROVE  Lo(q * Half + r) = r
<1> DEFINE t == q * Half + r
<1>1. t \in Nat
  BY TimeAssumption
<1>2. t = Hi(t) * Half + Lo(t) /\ Hi(t) \in Nat /\ Lo(t) \in 0..Half - 1
  BY <1>1, Halves, Zenon
<1>3. q = Hi(t)
  <2>1. CASE q < Hi(t)
    <3> DEFINE b == Hi(t) * Half
               c == q * Half
    <3>1. c + Half <= b
      BY <2>1, <1>2, ScaledOrder, Zenon
    <3>2. b \in Nat /\ c \in Nat /\ c + r = b + Lo(t)
      BY <1>2, TimeAssumption
    <3> HIDE DEF b, c
    <3> QED BY <3>1, <3>2, <1>2, TimeAssumption
  <2>2. CASE Hi(t) < q
    <3> DEFINE b == Hi(t) * Half
               c == q * Half
    <3>1. b + Half <= c
      BY <2>2, <1>2, ScaledOrder, Zenon
    <3>2. b \in Nat /\ c \in Nat /\ c + r = b + Lo(t)
      BY <1>2, TimeAssumption
    <3> HIDE DEF b, c
    <3> QED BY <3>1, <3>2, <1>2, TimeAssumption
  <2> QED BY <2>1, <2>2, <1>2
<1>4. q * Half \in Nat
  BY TimeAssumption
<1> HIDE DEF t
<1>5. t = q * Half + r
  BY Zenon DEF t
<1>6. t = q * Half + Lo(t)
  BY <1>2, <1>3, Zenon
<1>7. Lo(t) = r
  BY <1>4, <1>5, <1>6, <1>2
<1> QED BY <1>7, <1>5

-----------------------------------------------------------------------------
(* The invariant *)

\* Every register and history variable holds a time.
TimerType ==
    /\ mtime \in Nat /\ mtimecmp \in Nat /\ when \in Nat
    /\ began \in Nat /\ result \in Nat /\ before \in Nat
    /\ read \in [hi : Nat, lo : Nat]

\* The high half read first is no later than the time the low half was read at, which
\* is after the call.
ReadInv ==
    /\ began <= mtime
    /\ access = "lo" => read.hi <= Hi(mtime)
    /\ access = "again" =>
          \E t \in Nat : began <= t /\ t <= mtime /\ read.lo = Lo(t) /\ read.hi <= Hi(t)
    /\ access = "returned" => began <= result /\ result <= mtime

\* mtimecmp is not below the old time until the new high half is in it, and not below
\* the new time from then on.
SetInv ==
    /\ access = "ones" => mtimecmp = before
    /\ access = "set_hi" => mtimecmp >= before /\ Lo(mtimecmp) = Half - 1
    /\ access = "set_lo" => mtimecmp >= when

TimerInv == TimerType /\ ReadInv /\ SetInv

\* Every step of a read keeps the invariant.
LEMMA ReadKeeps ==
    ASSUME TimerInv, Tick \/ ReadCall \/ ReadHi \/ ReadLo \/ ReadAgain \/ Return
    PROVE  TimerInv'
<1> USE DEF TimerInv, TimerType
<1>1. CASE Tick
  <2>1. Hi(mtime) <= Hi(mtime') /\ Hi(mtime) \in Nat /\ Hi(mtime') \in Nat
    BY <1>1, HiMonotone, Halves DEF Tick
  <2>2. ReadInv'
    BY <1>1, <2>1 DEF Tick, ReadInv
  <2>3. SetInv'
    BY <1>1, Zenon DEF Tick, SetInv
  <2> QED BY <1>1, <2>2, <2>3 DEF Tick
<1>2. CASE ReadCall
  BY <1>2 DEF ReadCall, ReadInv, SetInv
<1>3. CASE ReadHi
  <2>1. Hi(mtime) \in Nat
    BY Halves, Zenon
  <2> QED BY <1>3, <2>1 DEF ReadHi, ReadInv, SetInv
<1>4. CASE ReadLo
  <2>1. Lo(mtime) \in Nat
    BY Halves, TimeAssumption
  <2>2. read'.lo = Lo(mtime) /\ read'.hi = read.hi
    BY <1>4, Zenon DEF ReadLo
  <2>3. ReadInv'
    BY <1>4, <2>2 DEF ReadLo, ReadInv
  <2> QED BY <1>4, <2>1, <2>3 DEF ReadLo, SetInv
<1>5. CASE ReadAgain
  <2>1. CASE HiUnchanged
    <3>1. PICK t \in Nat : began <= t /\ t <= mtime /\ read.lo = Lo(t) /\ read.hi <= Hi(t)
      BY <1>5, Zenon DEF ReadAgain, ReadInv
    <3>2. Hi(t) <= Hi(mtime) /\ Hi(t) \in Nat
      BY <3>1, HiMonotone, Halves, Zenon
    <3>3. read.hi = Hi(t)
      BY <2>1, <3>1, <3>2 DEF HiUnchanged
    <3>4. result' = t
      BY <1>5, <2>1, <3>1, <3>3, Halves, Zenon DEF ReadAgain
    <3> QED BY <1>5, <2>1, <3>1, <3>4 DEF ReadAgain, ReadInv, SetInv
  <2>2. CASE ~HiUnchanged
    BY <1>5, <2>2, Zenon DEF ReadAgain, ReadInv, SetInv
  <2> QED BY <2>1, <2>2
<1>6. CASE Return
  BY <1>6 DEF Return, ReadInv, SetInv
<1> QED BY <1>1, <1>2, <1>3, <1>4, <1>5, <1>6

\* Every step of a write keeps the invariant.
LEMMA SetKeeps ==
    ASSUME TimerInv, (\E t \in 0..Never : SetCall(t)) \/ StoreOnes \/ StoreHi \/ StoreLo
    PROVE  TimerInv'
<1> USE DEF TimerInv, TimerType
<1>a. Half \in Nat /\ Half - 1 \in 0..Half - 1 /\ Half - 1 \in Nat
  BY TimeAssumption
<1>1. ASSUME NEW t \in 0..Never, SetCall(t)
      PROVE  TimerInv'
  <2>1. Never \in Int
    BY TimeAssumption DEF Never
  <2>2. t \in Nat
    BY <2>1
  <2> QED BY <1>1, <2>2 DEF SetCall, ReadInv, SetInv
<1>2. CASE StoreOnes
  <2> DEFINE high == Hi(mtimecmp) * Half
  <2>1. high \in Nat /\ mtimecmp = high + Lo(mtimecmp) /\ Lo(mtimecmp) \in 0..Half - 1
    BY Halves, Placed, Zenon
  <2>2. Lo(high + (Half - 1)) = Half - 1
    BY <1>a, Halves, LoStored, Zenon
  <2>3. mtimecmp' = high + (Half - 1)
    BY <1>2, Zenon DEF StoreOnes, WithLo, FirstStore
  <2> HIDE DEF high
  <2>4. mtimecmp' \in Nat /\ mtimecmp' >= mtimecmp /\ Lo(mtimecmp)' = Half - 1
    BY <2>1, <2>2, <2>3, <1>a DEF Lo
  <2> QED BY <1>2, <2>4 DEF StoreOnes, ReadInv, SetInv
<1>3. CASE StoreHi
  <2> DEFINE high == Hi(when) * Half
  <2>1. high \in Nat /\ when = high + Lo(when) /\ Lo(when) \in 0..Half - 1
    BY Halves, Placed, Zenon
  <2>2. mtimecmp' = high + (Half - 1)
    BY <1>3, Zenon DEF StoreHi, WithHi, SetInv
  <2> HIDE DEF high
  <2>3. mtimecmp' \in Nat /\ mtimecmp' >= when
    BY <2>1, <2>2, <1>a
  <2> QED BY <1>3, <2>3 DEF StoreHi, ReadInv, SetInv
<1>4. CASE StoreLo
  <2> DEFINE high == Hi(mtimecmp) * Half
  <2>1. high \in Nat /\ Lo(when) \in 0..Half - 1
    BY Halves, Placed, Zenon
  <2>2. mtimecmp' = high + Lo(when)
    BY <1>4, Zenon DEF StoreLo, WithLo
  <2> HIDE DEF high
  <2>3. mtimecmp' \in Nat
    BY <2>1, <2>2, <1>a
  <2> QED BY <1>4, <2>3 DEF StoreLo, ReadInv, SetInv
<1> QED BY <1>1, <1>2, <1>3, <1>4

\* mtime read in halves is a time of the call, and mtimecmp written in halves is due
\* no earlier than the old or the new time, for halves of any width (clint_mtime(),
\* clint_set_mtimecmp()).
THEOREM TimerStaysExact == TimerSpec => []TimerExact
<1>1. TimerInit => TimerInv
  <2>1. Never \in Nat
    <3>1. Half * Half \in Nat /\ Half * Half >= 1
      BY TimeAssumption
    <3> QED BY <3>1 DEF Never
  <2> QED BY <2>1 DEF TimerInit, TimerInv, TimerType, ReadInv, SetInv
<1>2. TimerInv /\ [TimerNext]_timerVars => TimerInv'
  <2> SUFFICES ASSUME TimerInv, [TimerNext]_timerVars
               PROVE  TimerInv'
    BY Zenon
  <2>1. CASE UNCHANGED timerVars
    BY <2>1, Zenon DEF timerVars, TimerInv, TimerType, ReadInv, SetInv, Hi, Lo
  <2>2. CASE TimerNext
    BY <2>2, ReadKeeps, SetKeeps, Zenon DEF TimerNext
  <2> QED BY <2>1, <2>2
<1>3. TimerInv => TimerExact
  BY DEF TimerInv, TimerType, ReadInv, SetInv, TimerExact, Setting, Due
<1> QED BY <1>1, <1>2, <1>3, PTL DEF TimerSpec

=============================================================================
