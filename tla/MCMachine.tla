------------------------------ MODULE MCMachine -----------------------------
(***************************************************************************)
(* The machine below the kernel: the hart on its own (Hart), the address   *)
(* spaces the kernel gives it (Paging), the timer (Timer) and the engines  *)
(* G2 and SIMD-4 with their drivers.  They share no state here, so a       *)
(* behaviour runs one of them, which it chooses first.                     *)
(***************************************************************************)
EXTENDS Paging, Hart, Timer, G2, Simd

VARIABLE part

vars == <<part, pagingVars, hartVars, timerVars, g2Vars, simdVars>>

MCTrees ==
    LET t(fb, windows, dma) == [fb |-> fb, fb_size |-> IF fb = 0 THEN 0 ELSE 12,
                                windows |-> windows, dma_engines |-> windows # <<>>, dma |-> dma]
        w(base, size) == [base |-> base, size |-> size]
    IN  {t(64, <<w(24, 8), w(17, 2)>>, w(32, 2)),
         t(64, <<w(24, 8), w(17, 2)>>, w(20, 2)),
         t(160, <<w(17, 2), w(64, 8)>>, w(136, 2)),
         t(0, <<>>, w(0, 0)),
         t(64, <<w(24, 8)>>, w(0, 0))}

Image(load, span, stack, memory, flags) ==
    [load |-> load, span |-> span, stack |-> stack, memory_size |-> memory,
     file_size |-> 8, flags |-> flags]

MCShell == Image(320, 32, 16, 10, {})
MCRamDisk == {MCShell, Image(352, 64, 24, 40, {"accelerators"})}
MCImages ==
    MCRamDisk \cup
    {Image(load, span, stack, memory, flags) :
        load \in {320, 324, 352, 416}, span \in {0, 32, 64, 160}, stack \in {8, 16, 20},
        memory \in {16, 17, 48}, flags \in {{}, {"accelerators"}, {"other"}}}

MCProbes == {0, 1, 7, 8, 16, 32, 33, 64, 319, 320, 335, 336, 343, 344, 351, 352, 415, 416, 480, 511}
MCRamPages == 24..63

Cfg(a, rights, locked) == [a |-> a, rights |-> rights, locked |-> locked]
Open == Cfg("NAPOT", {"R", "W", "X"}, FALSE)
Off == Cfg("OFF", {}, FALSE)

\* Programs that nest traps and returns, that delegate and raise interrupts, that
\* lock PMP entries, and that use LR.W and SC.W under changing translations.
MCGuestPrograms ==
    LET quiet == [csrs |-> {}, bits |-> {}, ints |-> {}, causes |-> {"illegal"}, groups |-> {},
                  cfgs |-> {}, entries |-> {}, addrs |-> {}, words |-> {}, dma |-> {}]
    IN  {[quiet EXCEPT !.csrs = {"mstatus", "sstatus", "medeleg"},
                       !.bits = {"SPP", "MPRV", "TSR"},
                       !.causes = {"ecall_s", "ecall_u"}],
         [quiet EXCEPT !.csrs = {"mstatus", "satp", "mcounteren", "scounteren", "time"},
                       !.bits = {"TVM", "TW"}],
         [quiet EXCEPT !.csrs = {"mideleg", "mie", "sie", "mip", "sip", "sstatus"},
                       !.bits = {"SIE"},
                       !.ints = {"MTI", "SSI", "STI"},
                       !.causes = {"ecall_m"}],
         [quiet EXCEPT !.csrs = {"pmpcfg", "pmpaddr"},
                       !.causes = {"fetch", "breakpoint"},
                       !.groups = {1},
                       !.cfgs = {v \in [0..3 -> {Off, Cfg("TOR", {"W"}, FALSE), Cfg("TOR", {"R"}, TRUE),
                                                 Cfg("NA4", {"R"}, TRUE)}] : v[0] = Off /\ v[1] = Off},
                       !.entries = {5, 6, 7},
                       !.addrs = {2, 3}],
         [quiet EXCEPT !.csrs = {"mstatus", "satp", "pmpcfg", "pmpaddr"},
                       !.bits = {"MPRV", "SUM"},
                       !.causes = {"load", "store"},
                       !.groups = {0},
                       !.cfgs = {[k \in 0..3 |-> IF k = 0 THEN Open ELSE Off]},
                       !.entries = {0},
                       !.addrs = {511},
                       !.words = {100, 101},
                       !.dma = {324, 356}]}

Leafs(entries) == [i \in 0..7 |-> IF i \in DOMAIN entries THEN entries[i] ELSE Invalid]
MCTables ==
    LET leaf(ppn, bits) == [bits |-> {"V", "R", "W", "A", "D"} \cup bits, ppn |-> ppn]
    IN  [page \in {25, 26, 27} |->
            CASE page = 25 -> Leafs([i \in {1} |-> [bits |-> {"V"}, ppn |-> 26]])
              [] page = 26 -> Leafs([i \in {4} |-> leaf(40, {})])
              [] page = 27 -> Leafs([i \in {1} |-> leaf(40, {"U"})])]
MCRoots == {[on |-> FALSE, root |-> 0], [on |-> TRUE, root |-> 25], [on |-> TRUE, root |-> 27]}
MCLoads == {100, 324, 325, 356}
MCStores == {324, 356, 100}

(***************************************************************************)
(* G2: a loop the lanes leave at different turns from inside two IFs, an   *)
(* IF with an ELSE, and a program for each way a shader can fault.         *)
(***************************************************************************)
Instr(o, a) == [op |-> o, arg |-> a]
Leaving ==
    <<Instr("in", 0), Instr("loop", 0), Instr("seq", 2), Instr("if", 8), Instr("seq", 2), Instr("if", 7),
      Instr("break", 0), Instr("endif", 0), Instr("endif", 0), Instr("seq", 3), Instr("if", 12),
      Instr("break", 0), Instr("endif", 0), Instr("addi", 1), Instr("endloop", 2), Instr("out", 0)>>
Choosing ==
    <<Instr("in", 0), Instr("seq", 1), Instr("if", 4), Instr("addi", 1), Instr("else", 6), Instr("id", 0),
      Instr("endif", 0), Instr("out", 0)>>
Faulting ==
    {<<Instr("loop", 0), Instr("addi", 1), Instr("endloop", 1)>>,
     [i \in 1 .. 4 |-> Instr("loop", 0)],
     <<Instr("addi", 1), Instr("endif", 0)>>,
     <<Instr("illegal", 0)>>,
     <<Instr("break", 0)>>,
     <<Instr("if", 1)>>,
     [i \in 1 .. 17 |-> Instr("addi", 1)]}
MCBanks ==
    LET both == <<<<0, 1, 2>>, <<2, 1, 0>>>>
        bank2(p, in, t) == [program |-> p, inputs |-> in, tris |-> t]
    IN  {bank2(Leaving, <<0, 1, 2>>, both), bank2(Leaving, <<2, 1, 2>>, <<<<0, 1, 3>>, <<0, 0, 0>>>>),
         bank2(Choosing, <<1, 2, 3>>, both), bank2(Choosing, <<1, 0, 1>>, both)}
        \cup {bank2(p, <<1, 2, 3>>, both) : p \in Faulting}
MCRaster ==
    [o \in [1 .. 3 -> 0 .. 3] |->
        [culled |-> o[1] > o[3], box |-> IF o[2] = 1 THEN <<>> ELSE <<0, 1>>,
         covered |-> IF o[1] = o[3] THEN {1} ELSE {0, 1}, z |-> o[2], color |-> o[1] + 1]]
MCJobs ==
    LET job(vertices, triangles, zbase, limit) ==
            [vcount |-> vertices, tcount |-> triangles, zbase |-> zbase, limit |-> limit]
    IN  {job(3, 2, "window", 60), job(1, 0, "window", 12), job(4, 1, "window", 60),
         job(3, 1, "ram", 60), job(3, 1, "none", 60)}

\* SIMD-4: two layers of two lanes, with weights of both signs.
MCWeights1 == <<<<<<2>>, <<-3>>>>, <<<<3>>, <<1>>>>, <<<<-2>>, <<3>>>>, <<<<1>>, <<-4>>>>>>
MCWeights2 == <<<<<<1, -2, 3, 1>>, <<-3, 2, 1, -4>>>>, <<<<2, 2, -1, 3>>, <<0, 0, 0, 0>>>>>>
MCBias1 == <<1, -1, 0, 2>>
MCBias2 == <<1, -1, 3>>
MCPictures == {<<3, 1>>, <<0, 7>>}

Init ==
    /\ part \in {"hart", "paging", "timer", "g2", "simd"}
    /\ PagingInit /\ TimerInit /\ G2Init /\ SimdInit
    /\ HartInit /\ (part # "hart" => guest = CHOOSE g \in GuestPrograms : TRUE)

Next ==
    /\ UNCHANGED part
    /\ \/ part = "hart" /\ HartNext /\ UNCHANGED <<pagingVars, timerVars, g2Vars, simdVars>>
       \/ part = "paging" /\ PagingNext /\ UNCHANGED <<hartVars, timerVars, g2Vars, simdVars>>
       \/ part = "timer" /\ TimerNext /\ UNCHANGED <<hartVars, pagingVars, g2Vars, simdVars>>
       \/ part = "g2" /\ G2Next /\ UNCHANGED <<hartVars, pagingVars, timerVars, simdVars>>
       \/ part = "simd" /\ SimdNext /\ UNCHANGED <<hartVars, pagingVars, timerVars, g2Vars>>

Spec == Init /\ [][Next]_vars

=============================================================================
