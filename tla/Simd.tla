-------------------------------- MODULE Simd --------------------------------
(* The four-lane SIMD4 engine of the emulator (tools/rv32_simd4.c), its guest *)
(* driver (programs/rv32/simd4.c), and the digit classifier that runs its two *)
(* dense layers on the engine (programs/rv32/digit_hw.c) and must agree with  *)
(* the CPU (digit_infer_cpu in programs/rv32/digit_model.c).  The engine      *)
(* executes one phase of an instruction per device tick while the driver      *)
(* polls.  Data slots hold Bits bits and accumulators twice that.             *)
EXTENDS Integers, Sequences, SequencesExt

CONSTANTS SimdLanes, Bits,
          Chunks, Groups, Depth1,  \* layer 1: input chunks, groups of neurons, inputs of a chunk
          Classes,
          Weights1, Weights2,      \* signed, in launch order: [launch][lane][input]
          Bias1, Bias2, Rounding, HiddenShift, HiddenMax,
          Pictures,                \* the inputs, Chunks * Depth1 numbers each
          PollBudget, MaxInfer     \* polls of one launch; bound on calls of digit_hw_infer

VARIABLES program, data,           \* the engine's memories
          exe,                     \* its execution state
          ready,                   \* digit_hw.c: the bank is loaded
          call4,                   \* the inference in progress
          left,                    \* polls left in simd4_wait
          calls

simdVars == <<program, data, exe, ready, call4, left, calls>>

HalfWord == 2 ^ Bits
Acc == HalfWord * HalfWord
Lane4 == 0 .. SimdLanes - 1
Hidden == Groups * SimdLanes
Launches1 == Chunks * Groups
Launches == Launches1 + ((Classes + SimdLanes - 1) \div SimdLanes)
Slots4 == 0 .. (Hidden * (1 + SimdLanes)) + (2 * SimdLanes) - 1
Signed(v, m) == IF v >= m \div 2 THEN v - m ELSE v

(***************************************************************************)
(* The bank digit_kernels.h holds: one dense kernel per layer, built by    *)
(* programs/simd4/dense4.py.  A lane sums weight * input over the depth    *)
(* and stores both halves of its accumulator.                              *)
(***************************************************************************)
slots(depth) == [x |-> 0, w |-> depth, lo |-> depth * (1 + SimdLanes),
                 hi |-> (depth * (1 + SimdLanes)) + SimdLanes]

I4(op, rd, ra, rb, imm) == [op |-> op, rd |-> rd, ra |-> ra, rb |-> rb, imm |-> imm]

kernel(depth, base) ==
    LET at == slots(depth)
    IN  << I4("lane", 3, 0, 0, 0), I4("ldi", 2, 0, 0, depth), I4("mul", 3, 3, 2, 0), I4("setloop", 0, 0, 0, depth),
           I4("load", 1, 0, 0, at.x), I4("add", 2, 0, 3, 0), I4("load", 2, 2, 0, at.w), I4("mac", 0, 1, 2, 0),
           I4("addi", 0, 0, 0, 1), I4("loop", 0, 0, 0, base + 4),
           I4("lane", 0, 0, 0, 0), I4("rda", 1, 0, 0, 0), I4("store", 1, 0, 0, at.lo),
           I4("rda", 1, 0, 0, Bits), I4("store", 1, 0, 0, at.hi), I4("hlt", 0, 0, 0, 0) >>

Depth(layer) == IF layer = 1 THEN Depth1 ELSE Hidden
Start4(layer) == IF layer = 1 THEN 0 ELSE 16
Bank == kernel(Depth1, 0) \o kernel(Hidden, 16)
Illegal4 == I4("illegal", 0, 0, 0, 0)

(***************************************************************************)
(* The engine                                                              *)
(***************************************************************************)
simd_reset ==
    [state |-> "idle", done |-> FALSE, fault |-> FALSE, tick |-> TRUE, pc |-> 0, lane |-> 0, loop |-> 0,
     r |-> [l \in Lane4 |-> [i \in 0 .. 3 |-> 0]], acc |-> [l \in Lane4 |-> 0],
     instructions |-> 0, transfers |-> 0]

Busy4 == exe.state # "idle"
Word4 == program[exe.pc]           \* the instruction fetched: pc is already past it

\* What an instruction writes to its register, and to the accumulator, of one lane.
RegAfter(w, r, acc, lane) ==
    CASE w.op = "ldi"  -> w.imm
      [] w.op = "lane" -> lane
      [] w.op = "add"  -> (r[w.ra] + r[w.rb]) % HalfWord
      [] w.op = "addi" -> (r[w.ra] + w.imm) % HalfWord
      [] w.op = "mul"  -> (r[w.ra] * r[w.rb]) % HalfWord
      [] w.op = "rda"  -> (Signed(acc, Acc) \div (2 ^ w.imm)) % HalfWord
      [] OTHER         -> r[w.rd]

AccAfter(w, r, acc) ==
    CASE w.op = "mac"  -> (acc + (Signed(r[w.ra], HalfWord) * Signed(r[w.rb], HalfWord))) % Acc
      [] w.op = "macu" -> (acc + (r[w.ra] * r[w.rb])) % Acc
      [] w.op = "clra" -> 0
      [] OTHER         -> acc

Retired(e, w) ==
    [e EXCEPT !.state = IF w.op = "hlt" THEN "idle" ELSE "fetch", !.done = w.op = "hlt",
              !.instructions = @ + 1]

Executed ==
    LET w == Word4
        again == w.op = "loop" /\ exe.loop > 1
    IN  IF w.op \in {"load", "store"} THEN [exe EXCEPT !.lane = 0, !.state = "memory"]
        ELSE IF w.op = "illegal" \/ (w.op = "setloop" /\ w.imm = 0) \/ (w.op = "loop" /\ exe.loop = 0)
        THEN [exe EXCEPT !.state = "idle", !.done = TRUE, !.fault = TRUE]
        ELSE Retired([exe EXCEPT
                 !.loop = IF w.op = "setloop" THEN w.imm ELSE IF w.op = "loop" THEN @ - 1 ELSE @,
                 !.pc = IF again THEN w.imm ELSE @,
                 !.r = [l \in Lane4 |-> [@[l] EXCEPT ![w.rd] = RegAfter(w, exe.r[l], exe.acc[l], l)]],
                 !.acc = [l \in Lane4 |-> AccAfter(w, exe.r[l], @[l])]], w)

\* One lane's transfer a tick; the instruction retires with the last lane.
SlotOf(lane) == (exe.r[lane][Word4.ra] + Word4.imm) % 256

Transferred ==
    LET e == [exe EXCEPT !.r[exe.lane][Word4.rd] = IF Word4.op = "load" THEN data[SlotOf(exe.lane)] ELSE @,
                         !.lane = (@ + 1) % SimdLanes, !.transfers = @ + 1]
    IN  IF e.lane # 0 THEN e ELSE Retired(e, Word4)

simd_tick ==
    /\ exe.tick \/ Busy4
    /\ LET phase == IF exe.tick THEN "command" ELSE exe.state
       IN  /\ exe' = CASE phase = "command" -> [exe EXCEPT !.tick = FALSE]
                       [] phase = "fetch"   -> [exe EXCEPT !.state = "execute", !.pc = @ + 1]
                       [] phase = "execute" -> Executed
                       [] phase = "memory"  -> Transferred
           /\ data' = IF phase = "memory" /\ Word4.op = "store"
                      THEN [data EXCEPT ![SlotOf(exe.lane)] = exe.r[exe.lane][Word4.rd]]
                      ELSE data
    /\ UNCHANGED <<program, ready, call4, left, calls>>

\* START keeps ENTRY and clears all other execution state.
Started(entry) == [simd_reset EXCEPT !.pc = entry, !.state = "fetch"]

(***************************************************************************)
(* The reference: the two layers as the CPU computes them                  *)
(***************************************************************************)
digit_requantize(acc) ==
    LET Clamped(t) == IF t >= Acc \div 2 THEN 0
                      ELSE IF t \div (2 ^ HiddenShift) > HiddenMax THEN HiddenMax ELSE t \div (2 ^ HiddenShift)
    IN  [n \in 1 .. Hidden |-> Clamped((acc[n] + Bias1[n] + Rounding) % Acc)]

Dot(w, x) == FoldLeft(LAMBDA s, k : s + (w[k] * x[k]), 0, [k \in DOMAIN x |-> k])
ChunkOf(x, c) == SubSeq(x, (c * Depth1) + 1, (c + 1) * Depth1)
Logit(acc, class) == Signed((acc + Bias2[class]) % Acc, Acc)

hidden_from_inputs(x) ==
    LET Sum(n) == LET Part(s, c) == s + Dot(Weights1[(c * Groups) + ((n - 1) \div SimdLanes) + 1]
                                                    [((n - 1) % SimdLanes) + 1], ChunkOf(x, c))
                  IN  FoldLeft(Part, 0, [c \in 1 .. Chunks |-> c - 1]) % Acc
    IN  digit_requantize([n \in 1 .. Hidden |-> Sum(n)])

digit_infer_cpu(x) ==
    [class \in 1 .. Classes |->
        Logit(Dot(Weights2[((class - 1) \div SimdLanes) + 1][((class - 1) % SimdLanes) + 1],
                  hidden_from_inputs(x)), class)]

(***************************************************************************)
(* The driver and the classifier                                           *)
(***************************************************************************)
Zeros4(n) == [i \in 1 .. n |-> 0]
NoInference == [pc |-> "idle", x |-> <<>>, launch |-> 0, acc |-> Zeros4(Hidden), hidden |-> Zeros4(Hidden),
                logits |-> Zeros4(Classes), answer |-> "none", complete |-> FALSE,
                launches |-> 0, instructions |-> 0, transfers |-> 0]

\* Bug: the bank is believed loaded after another program replaced it.
ForgetsNothing(loaded) == loaded

digit_hw_forget(loaded) == FALSE

\* Reset, then the whole bank and a blank data window, unless they are there already.
digit_hw_init ==
    IF ready THEN UNCHANGED <<program, data, exe, ready>>
    ELSE /\ exe' = simd_reset
         /\ program' = Bank
         /\ data' = [i \in Slots4 |-> 0]
         /\ ready' = TRUE

digit_hw_infer(x) ==
    /\ call4.pc = "idle" /\ calls < MaxInfer
    /\ digit_hw_init
    /\ call4' = [NoInference EXCEPT !.pc = "launch", !.x = x]
    /\ calls' = calls + 1
    /\ UNCHANGED left

LayerOf(n) == IF n < Launches1 THEN 1 ELSE 2

\* The data window for launch n: the weights each time, the inputs with the first
\* launch of a chunk or of layer 2.
Operands(n) ==
    LET depth == Depth(LayerOf(n))
        at == slots(depth)
        x == IF LayerOf(n) = 1 THEN ChunkOf(call4.x, n \div Groups) ELSE call4.hidden
        fresh == IF LayerOf(n) = 1 THEN n % Groups = 0 ELSE n = Launches1
        w == IF LayerOf(n) = 1 THEN Weights1[n + 1] ELSE Weights2[n - Launches1 + 1]
    IN  [i \in Slots4 |->
            IF fresh /\ i < at.w THEN x[i + 1]
            ELSE IF i \in at.w .. at.lo - 1
            THEN w[((i - at.w) \div depth) + 1][((i - at.w) % depth) + 1] % HalfWord
            ELSE data[i]]

\* simd4_write_bytes, simd4_write_signed and simd4_start refuse a busy engine.
Launch ==
    /\ call4.pc = "launch"
    /\ IF Busy4
       THEN call4' = [call4 EXCEPT !.pc = "idle", !.answer = "refused"] /\ UNCHANGED <<data, exe, left>>
       ELSE /\ data' = Operands(call4.launch)
            /\ exe' = Started(Start4(LayerOf(call4.launch)))
            /\ left' = PollBudget
            /\ call4' = [call4 EXCEPT !.pc = "wait"]
    /\ UNCHANGED <<program, ready, calls>>

\* A lane's accumulator, put together from its two halves.
LaneSum(lane) ==
    LET at == slots(Depth(LayerOf(call4.launch)))
    IN  data[at.lo + lane] + (data[at.hi + lane] * HalfWord)

\* The inference after a launch that finished: the sums of its group of neurons, or
\* its classes' logits (the last launch may have lanes to spare), and the counters.
Collected ==
    LET n == call4.launch
        group == IF LayerOf(n) = 1 THEN n % Groups ELSE n - Launches1
        Here(i) == (i - 1) \div SimdLanes = group
        Lane(i) == (i - 1) % SimdLanes
        acc == [i \in 1 .. Hidden |-> IF Here(i) THEN (call4.acc[i] + LaneSum(Lane(i))) % Acc ELSE call4.acc[i]]
        counted == [call4 EXCEPT !.launches = @ + 1, !.instructions = @ + exe.instructions,
                                 !.transfers = @ + exe.transfers, !.launch = n + 1, !.pc = "launch"]
    IN  IF LayerOf(n) = 1
        THEN [counted EXCEPT !.acc = acc, !.hidden = IF n + 1 = Launches1 THEN digit_requantize(acc) ELSE @]
        ELSE LET done == [counted EXCEPT !.logits =
                            [i \in 1 .. Classes |-> IF Here(i) THEN Logit(LaneSum(Lane(i)), i) ELSE @[i]]]
             IN  IF n + 1 < Launches THEN done
                 ELSE [done EXCEPT !.pc = "idle", !.answer = "ok", !.complete = TRUE]

\* One poll of the status.  A fault or a timeout, which resets the engine, means the
\* program is not what the driver thinks it is: the next call loads it again.
simd4_wait ==
    /\ call4.pc = "wait"
    /\ IF left > 0 /\ ~exe.done THEN left' = left - 1 /\ UNCHANGED <<exe, ready, call4>>
       ELSE IF left > 0 /\ ~exe.fault THEN call4' = Collected /\ UNCHANGED <<exe, ready, left>>
       ELSE /\ call4' = [call4 EXCEPT !.pc = "idle", !.answer = IF left > 0 THEN "fault" ELSE "timeout"]
            /\ exe' = IF left > 0 THEN exe ELSE simd_reset
            /\ ready' = FALSE
            /\ UNCHANGED left
    /\ UNCHANGED <<program, data, calls>>

\* Other code runs a program of its own on the engine, perhaps without waiting for
\* it, and says so, as the contract in digit_hw.h asks.
OtherUser ==
    /\ call4.pc = "idle" /\ ~Busy4
    /\ program' = [i \in 1 .. 32 |-> CASE i = 1 -> I4("lane", 1, 0, 0, 0)
                                        [] i = 2 -> I4("macu", 0, 1, 1, 0)
                                        [] i = 3 -> I4("clra", 0, 0, 0, 0)
                                        [] OTHER -> I4("hlt", 0, 0, 0, 0)]
    /\ exe' = Started(0)
    /\ ready' = digit_hw_forget(ready)
    /\ UNCHANGED <<data, call4, left, calls>>

\* The entry word of the bank is spoilt and the driver is left to find out
\* (the last case of programs/rv32/digitcheck.c).
Spoilt ==
    /\ call4.pc = "idle" /\ ~Busy4 /\ ready
    /\ program' = [program EXCEPT ![1] = Illegal4]
    /\ UNCHANGED <<data, exe, ready, call4, left, calls>>

\* The memories' contents at power-up are unspecified.
SimdInit ==
    /\ program = [i \in 1 .. 32 |-> Illegal4]
    /\ data = [i \in Slots4 |-> 1]
    /\ exe = simd_reset
    /\ ready = FALSE /\ call4 = NoInference /\ left = 0 /\ calls = 0

SimdNext ==
    \/ simd_tick \/ Launch \/ simd4_wait \/ OtherUser \/ Spoilt
    \/ \E x \in Pictures : digit_hw_infer(x)

(***************************************************************************)
(* Properties                                                              *)
(***************************************************************************)
\* Whatever ran on the engine before, and however a poll budget ran out, an inference
\* that answers DIGIT_OK has the logits digit_infer_cpu computes; the counters are
\* handed out as complete only then, with the counts the kernels promise
\* (expected_counts); and none is refused because the engine is busy (digit_hw_infer).
InferenceExact ==
    LET Total(one, two) == (Launches1 * one) + ((Launches - Launches1) * two)
    IN  /\ call4.answer = "ok" => call4.logits = digit_infer_cpu(call4.x)
        /\ call4.complete <=> call4.answer = "ok"
        /\ call4.complete => /\ call4.launches = Launches
                             /\ call4.instructions = Total((6 * Depth1) + 10, (6 * Hidden) + 10)
                             /\ call4.transfers = SimdLanes * Total((2 * Depth1) + 2, (2 * Hidden) + 2)
        /\ call4.answer # "refused"

=============================================================================
