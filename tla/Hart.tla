-------------------------------- MODULE Hart --------------------------------
(***************************************************************************)
(* The emulated hart (tools/rv32emu_core.c): its privilege modes, traps    *)
(* and their delegation, interrupts, the CSRs that hold them, PMP's        *)
(* registers, and the reservation of LR.W and SC.W, over the walk of Sv32. *)
(*                                                                         *)
(* A status or interrupt register is the set of its bits.  Registers,      *)
(* memory contents and the program counter are left out: an instruction is *)
(* what it does to the state above.  A guest is the CSRs, bits, causes and *)
(* interrupts a program of the instance uses; it is chosen at reset and    *)
(* never changes.                                                          *)
(***************************************************************************)
EXTENDS Sv32, Sequences

CONSTANTS
    GuestPrograms,  \* what programs of the instance use
    Tables,         \* page -> the page table in it
    Roots,          \* the values satp is given
    Loads,          \* the words some window's load handler takes
    Stores,         \* the words some window's store handler takes
    NoReservation

Modes == {U, S, M}
StatusBits == {"SIE", "MIE", "SPIE", "MPIE", "SPP", "MPRV", "SUM", "MXR", "TVM", "TW", "TSR"}
SupervisorBits == {"SIE", "SPIE", "SPP", "SUM", "MXR"}
MachineInterrupts == {"MSI", "MTI", "MEI"}
SupervisorInterrupts == {"SSI", "STI", "SEI"}

\* medeleg holds every exception but those that cannot happen below machine mode.
Causes == {"fetch", "illegal", "breakpoint", "load", "store", "ecall_u", "ecall_s", "ecall_m"}
Delegable == Causes \ {"ecall_m"}

VARIABLES
    guest,
    priv, mpp, mstatus,
    medeleg, mideleg, mie, mip_soft,
    counteren,      \* which of mcounteren and scounteren let a counter be read
    lines,          \* the device lines into mip: MSIP, MTIP and MEIP
    satp, pmpcfg, pmpaddr,
    reservation,    \* NoReservation, or the word LR.W read, virtual and physical
    in_trap, halt,
    lr,             \* history: the word the last LR.W read, while no trap, return, new
                    \* translation, fence or device's write to it has come since
    sc              \* history: the physical word the last step's SC.W stored to

trapVars == <<priv, mpp, mstatus>>
delegationVars == <<medeleg, mideleg, mie, mip_soft, counteren>>
pmpVars == <<pmpcfg, pmpaddr>>
reservationVars == <<reservation, lr>>
hartVars == <<guest, trapVars, delegationVars, lines, satp, pmpVars, reservationVars, in_trap, halt, sc>>

NoWord == Space

\* The walk's view of the hart.
View == [on |-> satp.on, root |-> satp.root, sum |-> "SUM" \in mstatus, mxr |-> "MXR" \in mstatus,
         pmpcfg |-> pmpcfg, pmpaddr |-> pmpaddr, ram |-> Tables]

\* MPRV makes machine mode's loads and stores run at MPP's privilege.
data_priv == IF priv = M /\ "MPRV" \in mstatus THEN mpp ELSE priv

Pending == IF in_trap THEN {} ELSE (lines \cup mip_soft) \cap mie
MachineLevel == IF priv < M \/ "MIE" \in mstatus THEN Pending \ mideleg ELSE {}
SupervisorLevel ==
    IF priv = U \/ (priv = S /\ "SIE" \in mstatus) THEN Pending \cap mideleg ELSE {}
EnabledInterrupts == IF MachineLevel # {} THEN MachineLevel ELSE SupervisorLevel
Order == <<"MEI", "MSI", "MTI", "SEI", "SSI", "STI">>
Chosen == Order[Min({i \in DOMAIN Order : Order[i] \in EnabledInterrupts})]

If(condition, bit) == IF condition THEN {bit} ELSE {}

\* Bug: the reservation outlives a trap.
ReservationKept == reservation

\* Trap entry, the returns, a new translation and a fence end LR.W's reservation.
ReservationEnded == NoReservation

EndReservation == reservation' = ReservationEnded /\ lr' = NoWord

\* Trap entry: into supervisor mode when the cause is delegated and comes from below
\* machine mode.
enter_handler(delegated) ==
    /\ EndReservation
    /\ IF priv # M /\ delegated
       THEN /\ mstatus' = (mstatus \ {"SIE", "SPIE", "SPP"})
                            \cup If("SIE" \in mstatus, "SPIE") \cup If(priv = S, "SPP")
            /\ priv' = S
            /\ UNCHANGED mpp
       ELSE /\ mstatus' = (mstatus \ {"MIE", "MPIE"}) \cup If("MIE" \in mstatus, "MPIE")
            /\ mpp' = priv
            /\ priv' = M

trap(cause) ==
    /\ UNCHANGED <<guest, delegationVars, lines, satp, pmpVars>>
    /\ sc' = NoWord
    /\ IF in_trap
       THEN /\ halt' = TRUE
            /\ UNCHANGED <<trapVars, reservationVars, in_trap>>
       ELSE /\ in_trap' = TRUE
            /\ enter_handler(cause \in medeleg)
            /\ UNCHANGED halt

take_interrupt ==
    /\ ~halt /\ EnabledInterrupts # {}
    /\ in_trap' = TRUE
    /\ enter_handler(Chosen \in mideleg)
    /\ sc' = NoWord
    /\ UNCHANGED <<guest, delegationVars, lines, satp, pmpVars, halt>>

\* An instruction is executed when no interrupt is taken before it.
Executes == ~halt /\ EnabledInterrupts = {}

RetireStoring(w) ==
    /\ in_trap' = FALSE
    /\ sc' = w
    /\ UNCHANGED <<guest, lines, halt>>

retire == RetireStoring(NoWord)

\* ecall, ebreak, an illegal word, or a fetch that is refused.
Raise(cause) ==
    /\ Executes
    /\ cause = "ecall_u" => priv = U
    /\ cause = "ecall_s" => priv = S
    /\ cause = "ecall_m" => priv = M
    /\ trap(cause)

\* An instruction that is carried out under a condition, and else traps.
Attempt(allowed, cause, effect) == Executes /\ IF allowed THEN effect ELSE trap(cause)
Privileged(legal, effect) == Attempt(legal, "illegal", effect)

SameState == UNCHANGED <<trapVars, delegationVars, satp, pmpVars, reservationVars>>

supervisor_allows(bit) == priv = M \/ (priv = S /\ bit \notin mstatus)

Returns(mode, bits) ==
    /\ retire
    /\ priv' = mode
    /\ mstatus' = bits
    /\ EndReservation
    /\ UNCHANGED <<delegationVars, satp, pmpVars>>

\* Bug: MPRV outlives machine mode.
StatusKeepingMprv == (mstatus \ {"MIE"}) \cup {"MPIE"} \cup If("MPIE" \in mstatus, "MIE")

StatusAfterMret ==
    ((mstatus \ {"MIE"}) \cup {"MPIE"} \cup If("MPIE" \in mstatus, "MIE"))
      \ If(mpp # M, "MPRV")

Mret ==
    Privileged(priv = M, Returns(mpp, StatusAfterMret) /\ mpp' = U)

Sret ==
    Privileged(supervisor_allows("TSR"),
        /\ Returns(IF "SPP" \in mstatus THEN S ELSE U,
                   (mstatus \ {"SIE", "SPP", "MPRV"}) \cup {"SPIE"} \cup If("SPIE" \in mstatus, "SIE"))
        /\ UNCHANGED mpp)

Wfi ==
    Privileged(supervisor_allows("TW"),
        retire /\ SameState)

SfenceVma ==
    Privileged(supervisor_allows("TVM"),
        /\ retire
        /\ EndReservation
        /\ UNCHANGED <<trapVars, delegationVars, satp, pmpVars>>)

CsrMode(csr) ==
    IF csr \in {"sstatus", "sie", "sip", "satp", "scounteren"} THEN S
    ELSE IF csr = "time" THEN U ELSE M

csr_allowed(csr) ==
    \/ priv = M
    \/ /\ CsrMode(csr) <= priv
       /\ csr = "time" => "m" \in counteren /\ (priv = S \/ "s" \in counteren)
       /\ ~(csr = "satp" /\ "TVM" \in mstatus)

\* A CSR instruction, which writes any value the guest has a use for.
Csr(csr, effect) ==
    /\ csr \in guest.csrs
    /\ Privileged(csr_allowed(csr), retire /\ effect)

\* Bug: every written bit is stored.
SstatusUnmasked(v) == (mstatus \ SupervisorBits) \cup v

SstatusWritten(v) == (mstatus \ SupervisorBits) \cup (v \cap SupervisorBits)

WriteStatus ==
    /\ \/ \E v \in SUBSET guest.bits, mode \in 0..3 :
             Csr("mstatus", /\ mstatus' = v
                            /\ mpp' = IF mode = 2 THEN U ELSE mode
                            /\ UNCHANGED <<priv, delegationVars, satp, pmpVars, reservationVars>>)
       \/ \E v \in SUBSET guest.bits :
             Csr("sstatus", /\ mstatus' = SstatusWritten(v)
                            /\ UNCHANGED <<priv, mpp, delegationVars, satp, pmpVars, reservationVars>>)

WriteDelegation ==
    \/ \E v \in SUBSET guest.causes :
          Csr("medeleg", /\ medeleg' = v \cap Delegable
                         /\ UNCHANGED <<mideleg, mie, mip_soft, counteren, trapVars, satp, pmpVars,
                                        reservationVars>>)
    \/ \E v \in SUBSET guest.ints :
          Csr("mideleg", /\ mideleg' = v \cap SupervisorInterrupts
                         /\ UNCHANGED <<medeleg, mie, mip_soft, counteren, trapVars, satp, pmpVars,
                                        reservationVars>>)

SieWritten(v) == (mie \ mideleg) \cup (v \cap mideleg)

WriteEnables ==
    \E v \in SUBSET guest.ints, csr \in {"mie", "sie"} :
        Csr(csr, /\ mie' = IF csr = "mie" THEN v ELSE SieWritten(v)
                 /\ UNCHANGED <<medeleg, mideleg, mip_soft, counteren, trapVars, satp, pmpVars,
                                reservationVars>>)

\* Only SSIP is the supervisor's to write, and only when it is delegated.
SipWritten(v) ==
    LET ssip == mideleg \cap {"SSI"} IN (mip_soft \ ssip) \cup (v \cap ssip)

WritePending ==
    \E v \in SUBSET (guest.ints \cap SupervisorInterrupts), csr \in {"mip", "sip"} :
        Csr(csr, /\ mip_soft' = IF csr = "mip" THEN v ELSE SipWritten(v)
                 /\ UNCHANGED <<medeleg, mideleg, mie, counteren, trapVars, satp, pmpVars,
                                reservationVars>>)

Counters ==
    \/ \E csr \in {"mcounteren", "scounteren"}, on \in BOOLEAN :
          LET bit == IF csr = "mcounteren" THEN "m" ELSE "s" IN
          Csr(csr, /\ counteren' = IF on THEN counteren \cup {bit} ELSE counteren \ {bit}
                   /\ UNCHANGED <<medeleg, mideleg, mie, mip_soft, trapVars, satp, pmpVars,
                                  reservationVars>>)
    \/ Csr("time", SameState)

WriteSatp ==
    \E root \in Roots :
        Csr("satp", /\ satp' = root
                    /\ EndReservation
                    /\ UNCHANGED <<trapVars, delegationVars, pmpVars>>)

\* W without R is reserved and stored as neither.
Stored(cfg) == IF "R" \in cfg.rights THEN cfg ELSE [cfg EXCEPT !.rights = @ \ {"W"}]

WritePmpcfg ==
    \E g \in guest.groups, v \in guest.cfgs :
        Csr("pmpcfg", /\ pmpcfg' = [i \in DOMAIN pmpcfg |->
                              IF i \div 4 # g \/ pmpcfg[i].locked THEN pmpcfg[i] ELSE Stored(v[i % 4])]
                      /\ UNCHANGED <<pmpaddr, trapVars, delegationVars, satp, reservationVars>>)

\* Bug: the base of a locked TOR region stays writable.
AddrLockedAlone(i) == pmpcfg[i].locked

\* An address is locked with its entry, and as the base of a locked TOR entry.
AddrLocked(i) ==
    \/ pmpcfg[i].locked
    \/ /\ i + 1 < PmpEntries
       /\ pmpcfg[i + 1].locked /\ pmpcfg[i + 1].a = "TOR"

WritePmpaddr ==
    \E i \in guest.entries, v \in guest.addrs :
        Csr("pmpaddr", /\ pmpaddr' = IF AddrLocked(i) THEN pmpaddr ELSE [pmpaddr EXCEPT ![i] = v]
                       /\ UNCHANGED <<pmpcfg, trapVars, delegationVars, satp, reservationVars>>)

\* LUI to the branches; a target that is not aligned traps as a fetch does.
Branch ==
    \E aligned \in BOOLEAN :
        /\ aligned \/ "fetch" \in guest.causes
        /\ Attempt(aligned, "fetch", retire /\ SameState)

\* Arithmetic, integer and floating, and the fences.
Compute ==
    \E legal \in BOOLEAN :
        /\ legal \/ "illegal" \in guest.causes
        /\ Privileged(legal, retire /\ SameState)

\* A load or a store.
Touch(va, kind) ==
    LET t == Access(View, va, kind, data_priv)
        handled == IF kind = "load" THEN Loads ELSE Stores
    IN  Attempt(t.status = "ok" /\ t.pa \in handled, kind, retire /\ SameState)

\* An AMO walks as a store and asks PMP for both rights.
Amo(va) ==
    LET t == translate(View, va, "store", data_priv) IN
    Attempt(/\ t.status = "ok"
            /\ pmp_allows(View, data_priv, t.pa, {"R", "W"})
            /\ t.pa \in Loads \cap Stores, "store", retire /\ SameState)

LoadReserved(va) ==
    LET t == Access(View, va, "load", data_priv) IN
    Attempt(t.status = "ok" /\ t.pa \in Loads, "load",
            /\ retire
            /\ reservation' = [va |-> va, pa |-> t.pa]
            /\ lr' = t.pa
            /\ UNCHANGED <<trapVars, delegationVars, satp, pmpVars>>)

\* Without the reservation it fails with no access; the word it names now must also
\* be the one LR.W read.
StoreConditional(va) ==
    LET held == reservation # NoReservation /\ reservation.va = va
        t == Access(View, va, "store", data_priv)
        stores == held /\ t.pa = reservation.pa
    IN  Attempt(held => (t.status = "ok" /\ (stores => t.pa \in Stores)), "store",
            /\ RetireStoring(IF stores THEN t.pa ELSE NoWord)
            /\ reservation' = NoReservation
            /\ UNCHANGED <<lr, trapVars, delegationVars, satp, pmpVars>>)

\* A device writes a word between two instructions (snoop_device_write()).
DeviceWrite(w) ==
    /\ ~halt
    /\ reservation' = IF reservation # NoReservation /\ reservation.pa = w
                      THEN NoReservation ELSE reservation
    /\ lr' = IF lr = w THEN NoWord ELSE lr
    /\ sc' = NoWord
    /\ UNCHANGED <<guest, trapVars, delegationVars, lines, satp, pmpVars, in_trap, halt>>

DeviceLines ==
    /\ ~halt
    /\ lines' \in SUBSET (guest.ints \cap MachineInterrupts)
    /\ sc' = NoWord
    /\ UNCHANGED <<guest, trapVars, delegationVars, satp, pmpVars, reservationVars, in_trap, halt>>

Unprotected == [a |-> "OFF", rights |-> {}, locked |-> FALSE]

HartInit ==
    /\ guest \in GuestPrograms
    /\ priv = M /\ mpp = M /\ mstatus = {}
    /\ medeleg = {} /\ mideleg = {} /\ mie = {} /\ mip_soft = {} /\ counteren = {}
    /\ lines = {}
    /\ satp = [on |-> FALSE, root |-> 0]
    /\ pmpcfg = [i \in 0..PmpEntries - 1 |-> Unprotected]
    /\ pmpaddr = [i \in 0..PmpEntries - 1 |-> 0]
    /\ reservation = NoReservation
    /\ in_trap = FALSE /\ halt = FALSE
    /\ lr = NoWord /\ sc = NoWord

HartNext ==
    \/ take_interrupt
    \/ \E cause \in guest.causes : Raise(cause)
    \/ Mret \/ Sret \/ Wfi \/ SfenceVma \/ Branch \/ Compute
    \/ WriteStatus \/ WriteDelegation \/ WriteEnables \/ WritePending \/ Counters
    \/ WriteSatp \/ WritePmpcfg \/ WritePmpaddr
    \/ \E va \in guest.words : \/ \E kind \in {"load", "store"} : Touch(va, kind)
                               \/ Amo(va)
                               \/ LoadReserved(va)
                               \/ StoreConditional(va)
    \/ \E w \in guest.dma : DeviceWrite(w)
    \/ DeviceLines

HartSpec == HartInit /\ [][HartNext]_hartVars

-----------------------------------------------------------------------------

MachineState ==
    <<mpp, mstatus \ SupervisorBits, medeleg, mideleg, mie \ mideleg,
      mip_soft \ (mideleg \cap {"SSI"}), pmpVars, "m" \in counteren>>

\* Below machine mode nothing changes the machine's own state, and only a trap raises
\* the mode: whatever sstatus, sie, sip and satp are written with, and however traps
\* are delegated (csr_write(), csr_allowed(), enter_handler()).
SupervisorConfined ==
    [][priv # M =>
          \/ priv' = M /\ in_trap'
          \/ MachineState' = MachineState /\ (priv' > priv => in_trap')]_hartVars

\* MPRV is set only in machine mode: no mode below ever runs its loads and stores at
\* another's privilege, through any nesting of traps and returns (MRET, SRET).
MprvOnlyInMachine == "MPRV" \in mstatus => priv = M

\* An SC.W stores only to the word the last LR.W read, and only while no trap,
\* return, new translation, fence or device's write to it has come between, whatever
\* the translation of its address has become (step(), snoop_device_write()).
ReservationSound == [][sc' # NoWord => sc' = lr]_hartVars

\* A locked PMP entry keeps its rights and the words it covers until reset, the base
\* of a TOR region included (csr_write()).
LockedRegionFixed ==
    [][\A i \in 0..PmpEntries - 1 : pmpcfg[i].locked =>
          /\ pmpcfg'[i] = pmpcfg[i]
          /\ pmpaddr'[i] = pmpaddr[i]
          /\ (pmpcfg[i].a = "TOR" /\ i > 0) => pmpaddr'[i - 1] = pmpaddr[i - 1]]_hartVars

=============================================================================
