-------------------------------- MODULE Sv32 --------------------------------
(***************************************************************************)
(* What the emulated hart lets an access reach: the Sv32 page-table walk   *)
(* and physical memory protection of tools/rv32emu_core.c (translate() and *)
(* pmp_allows()).                                                          *)
(*                                                                         *)
(* An address counts words.  A page and a page table have Fan words (1024  *)
(* on the machine), so that the space has Fan^3 words (2^30).  c is what   *)
(* the walk reads: satp (on and root), SUM and MXR, the PMP registers and  *)
(* the words of RAM that are page-table entries (every other word of RAM   *)
(* is taken to be no valid entry).                                         *)
(***************************************************************************)
EXTENDS Naturals, FiniteSetsExt

CONSTANTS
    Fan,          \* words of a page, entries of a table
    RamPages,     \* the pages RAM takes
    PmpEntries,   \* PMP_ENTRIES
    NapotSizes    \* the sizes a NAPOT entry can have: powers of two from 2

ASSUME PmpAssumption == PmpEntries \in Nat

U == 0
S == 1
M == 3

Space == Fan * Fan * Fan
Kinds == {"fetch", "load", "store"}
Ok(pa) == [status |-> "ok", pa |-> pa]
Fault == [status |-> "fault", pa |-> 0]
PageFault == [status |-> "page_fault", pa |-> 0]

Invalid == [bits |-> {}, ppn |-> 0]

\* Entry i matches word w.
Matches(c, i, w) ==
    LET at == c.pmpaddr[i] IN
    \/ /\ c.pmpcfg[i].a = "TOR"
       /\ w >= IF i = 0 THEN 0 ELSE c.pmpaddr[i - 1]
       /\ w < at
    \/ /\ c.pmpcfg[i].a = "NA4"
       /\ w = at
    \/ /\ c.pmpcfg[i].a = "NAPOT"
       /\ \E s \in NapotSizes : (at % s) = (s \div 2) - 1 /\ w \div s = at \div s

\* The lowest entry that matches decides; machine mode is held only to locked ones.
pmp_allows(c, priv, w, need) ==
    LET hits == {i \in 0..PmpEntries - 1 : Matches(c, i, w)} IN
    IF hits = {} THEN priv = M
    ELSE \/ priv = M /\ ~c.pmpcfg[Min(hits)].locked
         \/ need \subseteq c.pmpcfg[Min(hits)].rights

\* The walker reads only RAM, as a supervisor's load.
Readable(c, table, i) == table \in RamPages /\ pmp_allows(c, S, table * Fan + i, {"R"})
Pte(c, table, i) == IF table \in DOMAIN c.ram THEN c.ram[table][i] ELSE Invalid

Malformed(pte) == "V" \notin pte.bits \/ ("R" \notin pte.bits /\ "W" \in pte.bits)
Pointer(pte) == {"R", "X"} \cap pte.bits = {}

\* What a leaf found at a level gives an access.
Leaf(c, pte, level, va, kind, priv) ==
    LET bits == pte.bits
        refused == IF priv = U THEN "U" \notin bits
                   ELSE "U" \in bits /\ (kind = "fetch" \/ ~c.sum)
        allowed == \/ kind = "fetch" /\ "X" \in bits
                   \/ kind = "store" /\ {"W", "D"} \subseteq bits
                   \/ kind = "load" /\ ("R" \in bits \/ (c.mxr /\ "X" \in bits))
        address == IF level = 1 THEN (pte.ppn \div Fan) * Fan * Fan + (va % (Fan * Fan))
                   ELSE pte.ppn * Fan + (va % Fan)
    IN  IF \/ level = 1 /\ pte.ppn % Fan # 0
           \/ refused
           \/ ~allowed
           \/ "A" \notin bits
        THEN PageFault
        ELSE IF address >= Space THEN Fault ELSE Ok(address)

\* The second step of the walk, in the table a pointer of the root names.
WalkLevel0(c, table, va, kind, priv) ==
    LET i == (va \div Fan) % Fan
        pte == Pte(c, table, i)
    IN  IF ~Readable(c, table, i) THEN Fault
        ELSE IF Malformed(pte) \/ Pointer(pte) THEN PageFault
        ELSE Leaf(c, pte, 0, va, kind, priv)

translate(c, va, kind, priv) ==
    LET i == (va \div (Fan * Fan)) % Fan
        pte == Pte(c, c.root, i)
    IN  IF ~c.on \/ priv = M THEN Ok(va)
        ELSE IF ~Readable(c, c.root, i) THEN Fault
        ELSE IF Malformed(pte) THEN PageFault
        ELSE IF ~Pointer(pte) THEN Leaf(c, pte, 1, va, kind, priv)
        ELSE IF {"D", "A", "U"} \cap pte.bits # {} THEN PageFault
        ELSE WalkLevel0(c, pte.ppn, va, kind, priv)

Need(kind) == CASE kind = "fetch" -> {"X"} [] kind = "load" -> {"R"} [] kind = "store" -> {"W"}

\* The walk and PMP of one access: load(), store() and the fetch of step().
Access(c, va, kind, priv) ==
    LET t == translate(c, va, kind, priv) IN
    IF \/ t.status # "ok"
       \/ /\ pmp_allows(c, priv, t.pa, Need(kind))
          /\ kind = "fetch" => t.pa \div Fan \in RamPages
    THEN t ELSE Fault

=============================================================================
