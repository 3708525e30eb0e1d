--------------------------------- MODULE G2 ---------------------------------
(* The G2 3D engine of the emulator (tools/rv32_g3d.c), its guest driver      *)
(* (programs/rv32/g3d.c) and the software reference (programs/rv32/g3d_ref.c).*)
(* Vertices run through a shader in batches of LaneCount lanes under a mask   *)
(* stack; triangles are then drawn pixel by pixel with a depth test.  A lane  *)
(* has one register and one predicate bit, an output is one number, and what  *)
(* a triangle of three outputs covers, and how deep, is the constant Raster:  *)
(* the fixed-point arithmetic of projection and interpolation is left out.    *)
EXTENDS Integers, Sequences, SequencesExt

CONSTANTS LaneCount, VMax, TMax, ProgramWords, StackDepth, LimitMax, Word,
          Screen,          \* number of pixels
          ZMax,            \* the depth CLEAR_Z stores
          Raster,          \* triple of outputs -> [culled, box, covered, z, color]
          Banks,           \* contents [program, inputs, tris] programs load
          Jobs,            \* parameters [vcount, tcount, zbase, limit] of submitted jobs;
                           \* zbase tells where the depths are: in the DMA window
                           \* ("window"), in RAM but not there ("ram"), or not in RAM
          PollBudgets,
          MaxStarts        \* bound on submitted commands

VARIABLES d2,              \* the device's registers and engine state
          bank,            \* its program, vertex and triangle windows
          frame, depth,    \* framebuffer and depth buffer
          polls2, outcome2,   \* polls2 left in g3d_wait (-1 outside it); driver's answer
          ref,             \* what the reference says of the running job
          starts

g2Vars == <<d2, bank, frame, depth, polls2, outcome2, ref, starts>>

Lanes == 0 .. LaneCount - 1
Dots == 0 .. Screen - 1

(***************************************************************************)
(* The shader: one instruction of a batch, the same rules in both programs *)
(***************************************************************************)
BatchLanes(b, vcount) == {l \in Lanes : b * LaneCount + l < vcount}

BatchStart(mask) ==
    [pc |-> 0, count |-> 0, mask |-> mask, pred |-> {}, stack |-> <<>>, ended |-> FALSE,
     error |-> "none", regs |-> [l \in Lanes |-> 0], out |-> [l \in Lanes |-> 0]]

InnermostLoop(stack) ==
    IF \E i \in DOMAIN stack : stack[i].loop
    THEN CHOOSE i \in DOMAIN stack : stack[i].loop /\ \A k \in i + 1 .. Len(stack) : ~stack[k].loop
    ELSE 0

\* Bug: BREAK clears its lanes from the innermost IF entry only.
BreakInnermost(stack, mask) ==
    [i \in DOMAIN stack |->
        IF i = Len(stack) /\ ~stack[i].loop THEN [stack[i] EXCEPT !.parent = @ \ mask] ELSE stack[i]]

\* Active lanes leave the innermost loop: no IF above it may revive them.
break_lanes(stack, mask) ==
    [i \in DOMAIN stack |->
        IF i > InnermostLoop(stack) THEN [stack[i] EXCEPT !.parent = @ \ mask] ELSE stack[i]]

\* Every other instruction changes the active lanes' own register, bit or output.
Compute2(s, w, b, inputs) ==
    LET Set(l) == CASE w.op = "in"   -> inputs[b * LaneCount + l + 1]
                    [] w.op = "id"   -> b * LaneCount + l
                    [] w.op = "addi" -> (s.regs[l] + w.arg) % Word
                    [] OTHER         -> s.regs[l]
    IN  [s EXCEPT !.regs = [l \in Lanes |-> IF l \in s.mask THEN Set(l) ELSE @[l]],
                  !.out = [l \in Lanes |-> IF l \in s.mask /\ w.op = "out" THEN s.regs[l] ELSE @[l]],
                  !.pred = IF w.op = "seq"
                           THEN (@ \ s.mask) \cup {l \in s.mask : s.regs[l] = w.arg} ELSE @]

execute(s, limit, m, b) ==
    LET w == m.program[s.pc + 1]
        n == Len(s.stack)
        top == s.stack[n]
        Stop(e) == [s EXCEPT !.error = e]
        t == [s EXCEPT !.count = @ + 1, !.pc = @ + 1]
        Mismatch == [s EXCEPT !.error = "mismatch", !.count = @ + 1]
        Push(e, mask) == [t EXCEPT !.stack = Append(@, e), !.mask = mask]
        Pop == [t EXCEPT !.stack = Front(@), !.mask = top.parent]
        SkipIfNone(u) == IF u.mask = {} THEN [u EXCEPT !.pc = w.arg] ELSE u
    IN  IF s.count = limit THEN Stop("limit")
        ELSE IF s.pc >= ProgramWords THEN Stop("pc")
        ELSE IF w.op = "illegal" THEN Stop("illegal")
        ELSE CASE w.op = "end" ->
                    IF n > 0 THEN Mismatch ELSE [s EXCEPT !.count = @ + 1, !.ended = TRUE]
               [] w.op \in {"if", "loop"} /\ n = StackDepth ->
                    [s EXCEPT !.error = "overflow", !.count = @ + 1]
               [] w.op = "if" /\ n < StackDepth ->
                    SkipIfNone(Push([loop |-> FALSE, parent |-> s.mask, taken |-> s.mask \cap s.pred],
                                    s.mask \cap s.pred))
               [] w.op = "loop" /\ n < StackDepth ->
                    Push([loop |-> TRUE, parent |-> s.mask, taken |-> {}], s.mask)
               [] w.op \in {"else", "endif"} ->
                    IF n = 0 \/ (n > 0 /\ top.loop) THEN Mismatch
                    ELSE IF w.op = "endif" THEN Pop
                    ELSE SkipIfNone([t EXCEPT !.mask = top.parent \ top.taken])
               [] w.op = "endloop" ->
                    IF n = 0 \/ (n > 0 /\ ~top.loop) THEN Mismatch
                    ELSE IF s.mask = {} THEN Pop ELSE [t EXCEPT !.pc = w.arg]
               [] w.op = "break" ->
                    IF InnermostLoop(s.stack) = 0 THEN Mismatch
                    ELSE [t EXCEPT !.stack = break_lanes(@, s.mask), !.mask = {}]
               [] OTHER -> Compute2(t, w, b, m.inputs)

(***************************************************************************)
(* The reference                                                           *)
(***************************************************************************)
RECURSIVE RunBatch(_, _, _, _)
RunBatch(s, limit, m, b) ==
    IF s.ended \/ s.error # "none" THEN s ELSE RunBatch(execute(s, limit, m, b), limit, m, b)

\* All batches in order, stopping at the first fault.
run_shader(j, m) ==
    LET One(acc, b) ==
            IF acc.error # "none" THEN acc
            ELSE LET s == RunBatch(BatchStart(BatchLanes(b, j.vcount)), j.limit, m, b)
                 IN  [error |-> s.error,
                      faultpc |-> IF s.error = "none" THEN <<0, 0>> ELSE <<b, s.pc>>,
                      instructions |-> acc.instructions + s.count,
                      out |-> [v \in 0 .. VMax - 1 |-> IF v \div LaneCount = b
                                                       THEN s.out[v % LaneCount] ELSE acc.out[v]]]
    IN  FoldLeft(One, [error |-> "none", faultpc |-> <<0, 0>>, instructions |-> 0,
                       out |-> [v \in 0 .. VMax - 1 |-> 0]],
                 [b \in 1 .. (j.vcount + LaneCount - 1) \div LaneCount |-> b - 1])

\* A projected vertex survives the near and guard planes; output 0 lies outside.
ValidVertex(o) == o # 0

DrawDot(p, r) ==
    LET Dot(q, i) ==
            IF i \notin r.covered THEN q
            ELSE IF r.z < q.z[i]
            THEN [q EXCEPT !.z[i] = r.z, !.fb[i] = r.color, !.pixels = @ + 1]
            ELSE [q EXCEPT !.zfail = @ + 1]
    IN  FoldLeft(Dot, p, r.box)

draw(p, o) ==
    IF (\E k \in 1 .. 3 : ~ValidVertex(o[k])) THEN [p EXCEPT !.culled = @ + 1]
    ELSE IF Raster[o].culled THEN [p EXCEPT !.culled = @ + 1]
    ELSE DrawDot(p, Raster[o])

NoPicture(f, z) == [fb |-> f, z |-> z, pixels |-> 0, zfail |-> 0, culled |-> 0]

g3d_reference(j, m, f, z) ==
    LET s == run_shader(j, m)
        Fails(e, pc, n) == [error |-> e, faultpc |-> pc, instructions |-> n, pic |-> NoPicture(f, z)]
        Tri(p, t) == draw(p, [k \in 1 .. 3 |-> s.out[t[k]]])
    IN  IF j.zbase \notin {"window", "ram"} \/ j.vcount \notin 1 .. VMax \/ j.tcount > TMax \/ j.limit \notin 1 .. LimitMax
        THEN Fails("param", <<0, 0>>, 0)
        ELSE IF \E t \in 1 .. j.tcount : \E k \in 1 .. 3 : m.tris[t][k] >= j.vcount
        THEN Fails("index", <<0, 0>>, 0)
        ELSE IF s.error # "none" THEN Fails(s.error, s.faultpc, s.instructions)
        ELSE [error |-> "none", faultpc |-> <<0, 0>>, instructions |-> s.instructions,
              pic |-> FoldLeft(Tri, NoPicture(f, z), SubSeq(m.tris, 1, j.tcount))]

(***************************************************************************)
(* One lane on its own: the program as plain structured code, with no mask *)
(* and no stack.  IF goes to its else part or past ENDIF, BREAK to the     *)
(* instruction after the ENDLOOP that matches its loop.                    *)
(***************************************************************************)
AfterLoop(prog, i) ==
    LET Count(op, e) == Cardinality({k \in i + 1 .. e - 1 : prog[k].op = op})
        ends == {e \in i + 1 .. Len(prog) :
                    prog[e].op = "endloop" /\ Count("loop", e) = Count("endloop", e)}
    IN  Min(ends) + 1

RECURSIVE RunAlone(_, _, _, _, _)
RunAlone(m, v, i, r, st) ==
    LET w == m.program[i]
        Go(k) == RunAlone(m, v, k, r, st)
    IN  CASE w.op = "end"     -> st.out
          [] w.op = "in"      -> RunAlone(m, v, i + 1, m.inputs[v + 1], st)
          [] w.op = "id"      -> RunAlone(m, v, i + 1, v, st)
          [] w.op = "addi"    -> RunAlone(m, v, i + 1, (r + w.arg) % Word, st)
          [] w.op = "seq"     -> RunAlone(m, v, i + 1, r, [st EXCEPT !.pred = r = w.arg])
          [] w.op = "out"     -> RunAlone(m, v, i + 1, r, [st EXCEPT !.out = r])
          [] w.op = "if"      -> Go(IF st.pred THEN i + 1 ELSE w.arg + 2)
          [] w.op = "else"    -> Go(w.arg + 2)
          [] w.op = "endloop" -> Go(w.arg + 1)
          [] w.op = "break"   -> Go(AfterLoop(m.program, i))
          [] OTHER            -> Go(i + 1)

Alone(m, v) == RunAlone(m, v, 1, 0, [pred |-> FALSE, out |-> 0])

(***************************************************************************)
(* The device                                                              *)
(***************************************************************************)
NoJob == [vcount |-> 0, tcount |-> 0, zbase |-> "none", limit |-> 0]

\* The windows are CPU-owned memory: RESET leaves them.
g3d_device_reset ==
    [job |-> NoJob, status |-> "idle", error |-> "none", faultpc |-> <<0, 0>>, phase |-> "idle",
     clearing |-> FALSE, tick |-> FALSE, index |-> 0, batch |-> 0, lane |-> 0,
     sh |-> BatchStart({}), verts |-> [v \in 0 .. VMax - 1 |-> 0], v |-> <<0, 0, 0>>, k |-> 1,
     instructions |-> 0, pixels |-> 0, zfail |-> 0, culled |-> 0]

g3d_busy == d2.status = "busy"
J == d2.job

fault(d, e) == [d EXCEPT !.status = "fault", !.error = e, !.phase = "idle"]

next_triangle(d) ==
    [d EXCEPT !.index = @ + 1, !.phase = IF d.index + 1 < J.tcount THEN "fetch" ELSE "finish"]

next_vertex(d) ==
    IF d.lane + 1 < LaneCount /\ d.batch * LaneCount + d.lane + 1 < J.vcount
    THEN [d EXCEPT !.lane = @ + 1, !.phase = "vcheck"]
    ELSE IF (d.batch + 1) * LaneCount < J.vcount
    THEN [d EXCEPT !.lane = @ + 1, !.batch = @ + 1, !.phase = "batch"]
    ELSE [d EXCEPT !.lane = @ + 1, !.batch = @ + 1, !.index = 0,
                   !.phase = IF J.tcount > 0 THEN "fetch" ELSE "finish"]

next_pixel(d) ==
    IF d.k < Len(Raster[d.v].box) THEN [d EXCEPT !.k = @ + 1, !.phase = "test"]
    ELSE next_triangle(d)

Validate ==
    IF J.zbase # "window" THEN fault(d2, "param")
    ELSE IF d2.clearing THEN [d2 EXCEPT !.index = 0, !.phase = "clear"]
    ELSE IF J.vcount \notin 1 .. VMax \/ J.tcount > TMax \/ J.limit \notin 1 .. LimitMax
    THEN fault(d2, "param")
    ELSE [d2 EXCEPT !.index = 0, !.batch = 0, !.phase = IF J.tcount > 0 THEN "index" ELSE "batch"]

CheckIndex ==
    IF \E k \in 1 .. 3 : bank.tris[d2.index + 1][k] >= J.vcount THEN fault(d2, "index")
    ELSE [d2 EXCEPT !.index = @ + 1, !.phase = IF d2.index + 1 = J.tcount THEN "batch" ELSE "index"]

Exec2 ==
    LET s == execute(d2.sh, J.limit, bank, d2.batch)
        d == [d2 EXCEPT !.sh = s, !.instructions = @ + s.count - d2.sh.count]
    IN  IF s.error # "none" THEN [fault(d, s.error) EXCEPT !.faultpc = <<d2.batch, s.pc>>]
        ELSE IF s.ended THEN [d EXCEPT !.lane = 0, !.phase = "vcheck"] ELSE d

\* An accepted vertex goes through the divider before it is stored.
vertex_check ==
    LET o == d2.sh.out[d2.lane]
        d == [d2 EXCEPT !.verts[d2.batch * LaneCount + d2.lane] = o]
    IN  IF ValidVertex(o) THEN [d EXCEPT !.phase = "divide"] ELSE next_vertex(d)

Fetch ==
    LET o == [k \in 1 .. 3 |-> d2.verts[bank.tris[d2.index + 1][k]]]
    IN  IF \E k \in 1 .. 3 : ~ValidVertex(o[k])
        THEN next_triangle([d2 EXCEPT !.v = o, !.culled = @ + 1])
        ELSE [d2 EXCEPT !.v = o, !.phase = "area"]

\* Back faces are culled; an empty scan box draws nothing.
AreaTest ==
    IF Raster[d2.v].culled THEN next_triangle([d2 EXCEPT !.culled = @ + 1])
    ELSE IF Raster[d2.v].box = <<>> THEN next_triangle(d2)
    ELSE [d2 EXCEPT !.k = 1, !.phase = "test"]

ThisDot == Raster[d2.v].box[d2.k]

\* One tick of the engine; the tick of a command's own store only clears the mark.
g3d_tick ==
    /\ d2.tick \/ g3d_busy
    /\ LET ph == IF d2.tick THEN "store" ELSE d2.phase
           nearer == Raster[d2.v].z < depth[ThisDot]
       IN  /\ d2' = CASE ph = "store"    -> [d2 EXCEPT !.tick = FALSE]
                      [] ph = "validate" -> Validate
                      [] ph = "index"    -> CheckIndex
                      [] ph = "batch"    -> [d2 EXCEPT !.sh = BatchStart(BatchLanes(d2.batch, J.vcount)),
                                                       !.phase = "exec"]
                      [] ph = "exec"     -> Exec2
                      [] ph = "vcheck"   -> vertex_check
                      [] ph = "divide"   -> next_vertex(d2)
                      [] ph = "fetch"    -> Fetch
                      [] ph = "area"     -> AreaTest
                      [] ph = "test"     -> IF ThisDot \in Raster[d2.v].covered
                                            THEN [d2 EXCEPT !.phase = "zread"] ELSE next_pixel(d2)
                      [] ph = "zread"    -> IF nearer THEN [d2 EXCEPT !.phase = "zwrite"]
                                            ELSE next_pixel([d2 EXCEPT !.zfail = @ + 1])
                      [] ph = "zwrite"   -> [d2 EXCEPT !.phase = "pwrite"]
                      [] ph = "pwrite"   -> next_pixel([d2 EXCEPT !.pixels = @ + 1])
                      [] ph = "clear"    -> [d2 EXCEPT !.index = @ + 1,
                                                       !.phase = IF d2.index + 1 = Screen
                                                                 THEN "finish" ELSE "clear"]
                      [] ph = "finish"   -> [d2 EXCEPT !.status = "done", !.phase = "idle"]
           /\ frame' = IF ph = "pwrite" THEN [frame EXCEPT ![ThisDot] = Raster[d2.v].color] ELSE frame
           /\ depth' = CASE ph = "zwrite" -> [depth EXCEPT ![ThisDot] = Raster[d2.v].z]
                         [] ph = "clear"  -> [depth EXCEPT ![d2.index] = ZMax]
                         [] OTHER         -> depth
    /\ UNCHANGED <<bank, polls2, outcome2, ref, starts>>

(***************************************************************************)
(* The driver and the CPU                                                  *)
(***************************************************************************)
\* g3d_load_program fills the words the program does not use with END.
Padded(p) == [i \in 1 .. ProgramWords |-> IF i <= Len(p) THEN p[i] ELSE [op |-> "end", arg |-> 0]]

g3d_load(m) ==
    /\ polls2 = -1 /\ ~g3d_busy
    /\ bank' = [m EXCEPT !.program = Padded(@)]
    /\ UNCHANGED <<d2, frame, depth, polls2, outcome2, ref, starts>>

\* What a job is to do: nothing if the depths are not in the DMA window, of which the
\* reference knows nothing.
Promise(command, j) ==
    LET Plain(e, z) == [error |-> e, faultpc |-> <<0, 0>>, instructions |-> 0,
                        pic |-> NoPicture(frame, z), alone |-> <<>>]
        r == g3d_reference(j, bank, frame, depth)
    IN  IF j.zbase # "window" THEN Plain("param", depth)
        ELSE IF command = "clear" THEN Plain("none", [i \in Dots |-> ZMax])
        ELSE r @@ [alone |-> IF r.error # "none" THEN <<>>
                             ELSE [v \in 0 .. j.vcount - 1 |-> Alone(bank, v)]]

\* The parameters and the command stored.
g3d_access(command, j) ==
    [d2 EXCEPT !.job = j, !.status = "busy", !.phase = "validate", !.clearing = command = "clear",
               !.error = "none", !.faultpc = <<0, 0>>, !.instructions = 0, !.pixels = 0,
               !.zfail = 0, !.culled = 0, !.tick = TRUE]

\* Refused while busy.  While G1 runs the parameters are stored but START faults.
g3d_submit(command, j, other) ==
    /\ polls2 = -1 /\ starts < MaxStarts
    /\ starts' = starts + 1
    /\ IF g3d_busy THEN outcome2' = "refused" /\ UNCHANGED <<d2, ref>>
       ELSE IF other THEN outcome2' = "busfault" /\ d2' = [d2 EXCEPT !.job = j] /\ UNCHANGED ref
       ELSE outcome2' = "submitted" /\ d2' = g3d_access(command, j) /\ ref' = Promise(command, j)
    /\ UNCHANGED <<bank, frame, depth, polls2>>

g3d_wait(budget) ==
    /\ polls2 = -1 /\ outcome2 = "submitted"
    /\ polls2' = budget /\ outcome2' = "waiting"
    /\ UNCHANGED <<d2, bank, frame, depth, ref, starts>>

\* The last read of STATUS keeps a job that finished after the last poll.
Poll2 ==
    /\ polls2 >= 0 /\ outcome2 = "waiting"
    /\ IF ~g3d_busy THEN polls2' = -1 /\ outcome2' = d2.status
       ELSE IF polls2 > 0 THEN polls2' = polls2 - 1 /\ UNCHANGED outcome2
       ELSE outcome2' = "giveup" /\ UNCHANGED polls2
    /\ UNCHANGED <<d2, bank, frame, depth, ref, starts>>

\* The counters are read between that and the reset.
GiveUp ==
    /\ outcome2 = "giveup"
    /\ polls2' = -1 /\ outcome2' = "timeout"
    /\ d2' = [g3d_device_reset EXCEPT !.tick = TRUE]
    /\ UNCHANGED <<bank, frame, depth, ref, starts>>

\* A store of the CPU to the depth buffer: refused while the engine runs
\* (g3d_z_locked), and part of what a later job starts from.
z_store(i, z) ==
    /\ ~g3d_busy /\ depth[i] # z
    /\ depth' = [depth EXCEPT ![i] = z]
    /\ ref' = [ref EXCEPT !.pic.z[i] = z]
    /\ UNCHANGED <<d2, bank, frame, polls2, outcome2, starts>>

G2Init ==
    /\ d2 = g3d_device_reset
    /\ bank = [program |-> Padded(<<>>), inputs |-> [v \in 1 .. VMax |-> 0],
               tris |-> [t \in 1 .. TMax |-> <<0, 0, 0>>]]
    /\ frame = [i \in Dots |-> 0] /\ depth = [i \in Dots |-> 0]
    /\ polls2 = -1 /\ outcome2 = "none" /\ starts = 0
    /\ ref = [error |-> "none", faultpc |-> <<0, 0>>, instructions |-> 0,
              pic |-> NoPicture(frame, depth), alone |-> <<>>]

G2Next ==
    \/ g3d_tick \/ Poll2 \/ GiveUp
    \/ \E m \in Banks : g3d_load(m)
    \/ \E c \in {"start", "clear"}, j \in Jobs, other \in BOOLEAN : g3d_submit(c, j, other)
    \/ \E b \in PollBudgets : g3d_wait(b)
    \/ \E i \in Dots : z_store(i, 0)

(***************************************************************************)
(* Properties                                                              *)
(***************************************************************************)
\* A finished job left exactly the picture, depths, counters, error and fault
\* address g3d_reference gives (g3d_tick), or nothing but the error when its depths
\* are not in the DMA window, every vertex got what its lane computes
\* alone, whatever paths the other lanes of its batch took (execute), and once
\* g3d_wait has answered the engine is quiet.
ShadedExactly ==
    /\ d2.status \in {"done", "fault"} =>
        /\ d2.error = ref.error /\ d2.faultpc = ref.faultpc /\ d2.instructions = ref.instructions
        /\ NoPicture(frame, depth) = [ref.pic EXCEPT !.pixels = 0, !.zfail = 0, !.culled = 0]
        /\ d2.pixels = ref.pic.pixels /\ d2.zfail = ref.pic.zfail /\ d2.culled = ref.pic.culled
    /\ d2.status = "done" => \A v \in DOMAIN ref.alone : d2.verts[v] = ref.alone[v]
    /\ outcome2 \in {"done", "fault", "timeout"} => ~g3d_busy

=============================================================================
