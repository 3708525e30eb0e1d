--------------------------------- MODULE G1 ---------------------------------
(* The G1 drawing engine of the emulator (tools/rv32_gpu.c), the bus rules    *)
(* that keep the CPU off the memory a job uses (tools/rv32emu_core.c), its    *)
(* guest driver (programs/rv32/gpu.c) and the software rasteriser the         *)
(* programs compare it with (programs/rv32/gpu_ref.c).  The engine advances   *)
(* one phase per device tick; the driver polls in between, in any             *)
(* interleaving.  The screen is Width x Height pixels and the RAM RamSize     *)
(* pixels at address 0; a pixel's colour is a number.                         *)
EXTENDS Integers, Sequences, SequencesExt

CONSTANTS Width, Height, RamSize,
          CoordMax,        \* coordinates lie in -CoordMax .. CoordMax-1
          ColorMax,        \* largest colour (255)
          SizeMax,         \* largest width or height of a rectangle
          StrideMax,
          Commands,        \* the drawing commands programs submit
          Budgets,         \* poll budgets programs pass to gpu_wait
          Windows,         \* DMA windows <<start, end>> the kernel sets
          Ink, FbStores, RamStores,   \* the colour CPU stores write, and where
          MaxJobs          \* bound on submitted commands

VARIABLES g1,              \* the device
          fb, ram,         \* framebuffer and RAM pixels
          dma,             \* the DMA window
          waiting,         \* polls gpu_wait has left, -1 outside it
          outcome,         \* what the last driver call returned
          old, want,       \* framebuffer at SETUP, and as gpu_reference draws it
          jobs

g1Vars == <<g1, fb, ram, dma, waiting, outcome, old, want, jobs>>

FbBase == -1
Pixels == 0 .. Width * Height - 1
PixelAt(x, y) == y * Width + x
OnScreen(x, y) == x \in 0 .. Width - 1 /\ y \in 0 .. Height - 1

(***************************************************************************)
(* Geometry shared by the device and the reference.                        *)
(***************************************************************************)
\* A pixel centre on the inner side of an edge; ties go to top and left edges.
Inside(a, b, x, y) ==
    LET e == (b[1] - a[1]) * (2*y + 1 - 2*a[2]) - (b[2] - a[2]) * (2*x + 1 - 2*a[1])
    IN  e > 0 \/ (e = 0 /\ (b[2] < a[2] \/ (b[2] = a[2] /\ b[1] > a[1])))

Covered(a, b, c, x, y) == Inside(a, b, x, y) /\ Inside(b, c, x, y) /\ Inside(c, a, x, y)

Area(a, b, c) == (b[1] - a[1]) * (c[2] - a[2]) - (b[2] - a[2]) * (c[1] - a[1])

Corners(p) == << <<p.x0, p.y0>>, <<p.x1, p.y1>>, <<p.x2, p.y2>> >>

\* The end points of a line, left to right and top to bottom.
LineEnds(p) ==
    LET a == <<p.x0, p.y0>>  b == <<p.x1, p.y1>>
    IN  IF a[1] > b[1] \/ (a[1] = b[1] /\ a[2] > b[2]) THEN <<b, a>> ELSE <<a, b>>

\* One Bresenham step: both tests use the error before either correction.
LineStep(l) ==
    LET across == 2 * l.err >= -l.dy
        down   == 2 * l.err <= l.dx
    IN  [l EXCEPT !.x = IF across THEN @ + 1 ELSE @,
                  !.y = IF down THEN @ + l.sy ELSE @,
                  !.err = @ - (IF across THEN l.dy ELSE 0) + (IF down THEN l.dx ELSE 0)]

LineFrom(a, b) ==
    LET dx == b[1] - a[1]  dy == b[2] - a[2]
        steep == IF dy < 0 THEN -dy ELSE dy
    IN  [x |-> a[1], y |-> a[2], dx |-> dx, dy |-> steep,
         sy |-> IF dy < 0 THEN -1 ELSE 1, err |-> dx - steep]

source_end(p) == p.src + (IF p.sh > 0 THEN p.sh - 1 ELSE 0) * p.stride + p.sw

(***************************************************************************)
(* gpu_reference                                                           *)
(***************************************************************************)
gfx_fill_rect(f, p) ==
    [i \in Pixels |->
        IF i % Width >= p.x0 /\ i % Width < p.x0 + p.w /\
           i \div Width >= p.y0 /\ i \div Width < p.y0 + p.h
        THEN p.color ELSE f[i]]

RECURSIVE LineDots(_, _)
LineDots(l, b) ==
    {<<l.x, l.y>>} \cup (IF <<l.x, l.y>> = b THEN {} ELSE LineDots(LineStep(l), b))

RefLine(f, p) ==
    LET e == LineEnds(p)
        dots == LineDots(LineFrom(e[1], e[2]), e[2])
    IN  [i \in Pixels |-> IF <<i % Width, i \div Width>> \in dots THEN p.color ELSE f[i]]

RefTriangle(f, p) ==
    LET v == Corners(p)
        area == Area(v[1], v[2], v[3])
        b == IF area < 0 THEN v[3] ELSE v[2]
        c == IF area < 0 THEN v[2] ELSE v[3]
    IN  [i \in Pixels |->
            IF area # 0 /\ Covered(v[1], b, c, i % Width, i \div Width) THEN p.color ELSE f[i]]

\* The rectangle row by row, or backwards when it is copied onto later pixels of
\* the framebuffer it comes from; a pixel off the screen or the source is skipped.
RefBlit(f, r, p) ==
    LET back == p.src = FbBase /\ PixelAt(p.x0, p.y0) > PixelAt(p.sx, p.sy)
        Copy(g, n) ==
            LET k == IF back THEN p.w * p.h - n ELSE n - 1
                i == k % p.w   j == k \div p.w
                u == p.sx + i  v == p.sy + j
                x == p.x0 + i  y == p.y0 + j
            IN  IF OnScreen(x, y) /\ u >= 0 /\ v >= 0 /\ u < p.sw /\ v < p.sh
                THEN [g EXCEPT ![PixelAt(x, y)] = IF p.src = FbBase THEN g[v * p.stride + u]
                                             ELSE r[p.src + v * p.stride + u]]
                ELSE g
    IN  FoldLeft(Copy, f, [n \in 1 .. p.w * p.h |-> n])

gpu_reference(f, r, p) ==
    CASE p.op = "fill"     -> gfx_fill_rect(f, p)
      [] p.op = "line"     -> RefLine(f, p)
      [] p.op = "triangle" -> RefTriangle(f, p)
      [] OTHER             -> RefBlit(f, r, p)

(***************************************************************************)
(* The device                                                              *)
(***************************************************************************)
Clear == [op |-> "none", color |-> 0, x0 |-> 0, y0 |-> 0, x1 |-> 0, y1 |-> 0, x2 |-> 0, y2 |-> 0,
          w |-> 0, h |-> 0, src |-> 0, stride |-> 0, sw |-> 0, sh |-> 0, sx |-> 0, sy |-> 0]

gpu_device_reset ==
    [p |-> Clear, status |-> "idle", error |-> "none", phase |-> "idle", tick |-> FALSE,
     x |-> 0, y |-> 0, lo |-> 0, top |-> 0, hi |-> 0, bottom |-> 0, step |-> 0,
     dx |-> 0, dy |-> 0, sy |-> 0, err |-> 0,
     a |-> <<0, 0>>, b |-> <<0, 0>>, c |-> <<0, 0>>, pixel |-> 0]

gpu_busy == g1.status = "busy"
P == g1.p

\* The CPU may not store into the RAM a running blit reads.
gpu_source_locked(addr) ==
    gpu_busy /\ P.op = "blit" /\ P.src >= 0 /\ P.sh # 0 /\ addr >= P.src /\ addr < source_end(P)

Coord(v) == v \in -CoordMax .. CoordMax - 1

\* SETUP reads the DMA window once: a later change cannot affect the job.
SourceOk(p) ==
    IF p.src = FbBase THEN p.sw = Width /\ p.sh = Height /\ p.stride = Width
    ELSE source_end(p) <= RamSize /\ p.src >= dma[1] /\ source_end(p) <= dma[2]

Valid(p) ==
    /\ p.op \in {"fill", "blit", "line", "triangle"}
    /\ p.color <= ColorMax
    /\ Coord(p.x0) /\ Coord(p.y0)
    /\ p.op \in {"line", "triangle"} => Coord(p.x1) /\ Coord(p.y1)
    /\ p.op = "triangle" => Coord(p.x2) /\ Coord(p.y2)
    /\ p.op \in {"fill", "blit"} => p.w <= SizeMax /\ p.h <= SizeMax
    /\ p.op = "blit" => /\ Coord(p.sx) /\ Coord(p.sy)
                        /\ p.sw \in 1 .. SizeMax /\ p.sh \in 1 .. SizeMax
                        /\ p.stride \in p.sw .. StrideMax
                        /\ SourceOk(p)

Ended(status, error) == [g1 EXCEPT !.status = status, !.error = error, !.phase = "idle"]

\* Bug: a copy within the framebuffer always runs forwards.
Forwards(p) == 1

Direction(p) ==
    IF p.op = "blit" /\ p.src = FbBase /\ PixelAt(p.x0, p.y0) > PixelAt(p.sx, p.sy) THEN -1 ELSE 1

\* The pixels a rectangle can touch: on the screen and, for a blit, in the source.
RectBox(p) ==
    LET blit == p.op = "blit"
        Clip(n, s, extent) == IF blit THEN n + extent - s ELSE n + extent
    IN  [lo     |-> Max({0, p.x0} \cup (IF blit THEN {p.x0 - p.sx} ELSE {})),
         top    |-> Max({0, p.y0} \cup (IF blit THEN {p.y0 - p.sy} ELSE {})),
         hi     |-> Min({Width, p.x0 + p.w} \cup (IF blit THEN {p.x0 + p.sw - p.sx} ELSE {})),
         bottom |-> Min({Height, p.y0 + p.h} \cup (IF blit THEN {p.y0 + p.sh - p.sy} ELSE {}))]

TriangleBox(v) ==
    [lo     |-> Max({0, Min({v[k][1] : k \in 1 .. 3})}),
     top    |-> Max({0, Min({v[k][2] : k \in 1 .. 3})}),
     hi     |-> Min({Width, Max({v[k][1] : k \in 1 .. 3})}),
     bottom |-> Min({Height, Max({v[k][2] : k \in 1 .. 3})})]

Boxed(box) ==
    LET s == Direction(P)
    IN  IF box.lo >= box.hi \/ box.top >= box.bottom THEN Ended("done", "none")
        ELSE box @@ [step |-> s, phase |-> "scan",
                     x |-> IF s > 0 THEN box.lo ELSE box.hi - 1,
                     y |-> IF s > 0 THEN box.top ELSE box.bottom - 1] @@ g1

Setup ==
    LET v == Corners(P)
        area == Area(v[1], v[2], v[3])
        turned == IF area < 0 THEN <<v[1], v[3], v[2]>> ELSE v
    IN  CASE ~Valid(P) -> Ended("fault", "invalid")
          [] Valid(P) /\ P.op = "line" ->
                LET e == LineEnds(P)
                IN  LineFrom(e[1], e[2]) @@ [b |-> e[2], phase |-> "scan"] @@ g1
          [] Valid(P) /\ P.op = "triangle" ->
                IF area = 0 THEN Ended("done", "none")
                ELSE [a |-> turned[1], b |-> turned[2], c |-> turned[3]] @@ Boxed(TriangleBox(v))
          [] OTHER -> Boxed(RectBox(P))

Scan ==
    LET hit == /\ OnScreen(g1.x, g1.y)
               /\ P.op = "triangle" => Covered(g1.a, g1.b, g1.c, g1.x, g1.y)
    IN  [g1 EXCEPT !.pixel = P.color,
                   !.phase = IF hit THEN (IF P.op = "blit" THEN "read" ELSE "write") ELSE "advance"]

ReadPixel ==
    LET off == (P.sy + g1.y - P.y0) * P.stride + P.sx + g1.x - P.x0
    IN  [g1 EXCEPT !.pixel = IF P.src = FbBase THEN fb[off] ELSE ram[P.src + off],
                   !.phase = "write"]

Advance ==
    LET fwd  == g1.step > 0
        edge == g1.x = (IF fwd THEN g1.hi - 1 ELSE g1.lo)
        line == P.op = "line"
        done == IF line THEN <<g1.x, g1.y>> = g1.b
                ELSE edge /\ g1.y = (IF fwd THEN g1.bottom - 1 ELSE g1.top)
        moved == IF line THEN LineStep(g1)
                 ELSE IF edge THEN [g1 EXCEPT !.x = IF fwd THEN g1.lo ELSE g1.hi - 1, !.y = @ + g1.step]
                 ELSE [g1 EXCEPT !.x = @ + g1.step]
    IN  [moved EXCEPT !.status = IF done THEN "done" ELSE "busy",
                      !.phase = IF done THEN "idle" ELSE "scan"]

\* The tick of a command's own store only clears the mark.
gpu_tick ==
    /\ g1.tick \/ gpu_busy
    /\ g1' = CASE g1.tick                          -> [g1 EXCEPT !.tick = FALSE]
               [] ~g1.tick /\ g1.phase = "setup"   -> Setup
               [] ~g1.tick /\ g1.phase = "scan"    -> Scan
               [] ~g1.tick /\ g1.phase = "read"    -> ReadPixel
               [] ~g1.tick /\ g1.phase = "write"   -> [g1 EXCEPT !.phase = "advance"]
               [] ~g1.tick /\ g1.phase = "advance" -> Advance
    /\ fb' = IF ~g1.tick /\ g1.phase = "write"
             THEN [fb EXCEPT ![PixelAt(g1.x, g1.y)] = g1.pixel] ELSE fb
    /\ IF ~g1.tick /\ g1.phase = "setup"
       THEN old' = fb /\ want' = IF Valid(P) THEN gpu_reference(fb, ram, P) ELSE fb
       ELSE UNCHANGED <<old, want>>
    /\ UNCHANGED <<ram, dma, waiting, outcome, jobs>>

(***************************************************************************)
(* The driver and the CPU                                                  *)
(***************************************************************************)
\* The parameters and START stored; RESET and the reads are in Timeout and Poll1.
gpu_access(c) ==
    [g1 EXCEPT !.p = c, !.status = "busy", !.phase = "setup", !.error = "none", !.tick = TRUE]

\* A busy device is left alone.  While G2 runs the parameters are stored but START faults.
gpu_submit(c, other) ==
    /\ waiting = -1 /\ jobs < MaxJobs
    /\ jobs' = jobs + 1
    /\ IF gpu_busy THEN outcome' = "refused" /\ UNCHANGED g1
       ELSE IF other THEN outcome' = "busfault" /\ g1' = [g1 EXCEPT !.p = c]
       ELSE outcome' = "submitted" /\ g1' = gpu_access(c)
    /\ UNCHANGED <<fb, ram, dma, waiting, old, want>>

gpu_wait(budget) ==
    /\ waiting = -1 /\ outcome = "submitted"
    /\ waiting' = budget
    /\ outcome' = "waiting"
    /\ UNCHANGED <<g1, fb, ram, dma, old, want, jobs>>

Poll1 ==
    /\ waiting > 0
    /\ IF gpu_busy THEN waiting' = waiting - 1 /\ UNCHANGED outcome
       ELSE waiting' = -1 /\ outcome' = g1.status
    /\ UNCHANGED <<g1, fb, ram, dma, old, want, jobs>>

\* Out of polls: the counters are captured and the device reset, done or not.
Timeout ==
    /\ waiting = 0
    /\ waiting' = -1 /\ outcome' = "timeout"
    /\ g1' = [gpu_device_reset EXCEPT !.tick = TRUE]
    /\ UNCHANGED <<fb, ram, dma, old, want, jobs>>

\* Stores of the CPU: the framebuffer and a blit's source are locked while the engine runs.
fb_store(i) ==
    /\ ~gpu_busy /\ fb[i] # Ink
    /\ fb' = [fb EXCEPT ![i] = Ink]
    /\ old' = [old EXCEPT ![i] = Ink] /\ want' = [want EXCEPT ![i] = Ink]
    /\ UNCHANGED <<g1, ram, dma, waiting, outcome, jobs>>

ram_store(addr) ==
    /\ ~gpu_source_locked(addr)
    /\ ram' = [ram EXCEPT ![addr] = Ink]
    /\ UNCHANGED <<g1, fb, dma, waiting, outcome, old, want, jobs>>

dma_window_store(w) ==
    /\ dma' = w
    /\ UNCHANGED <<g1, fb, ram, waiting, outcome, old, want, jobs>>

G1Init ==
    /\ g1 = gpu_device_reset
    /\ fb = [i \in Pixels |-> i + 1] /\ ram = [i \in 0 .. RamSize - 1 |-> 20 + i]
    /\ dma = <<0, RamSize>>
    /\ waiting = -1 /\ outcome = "none"
    /\ old = fb /\ want = fb /\ jobs = 0

G1Next ==
    \/ gpu_tick \/ Poll1 \/ Timeout
    \/ \E c \in Commands, other \in BOOLEAN : gpu_submit(c, other)
    \/ \E b \in Budgets : gpu_wait(b)
    \/ \E i \in FbStores : fb_store(i)
    \/ \E addr \in RamStores : ram_store(addr)
    \/ \E w \in Windows : dma_window_store(w)

(***************************************************************************)
(* Properties                                                              *)
(***************************************************************************)
\* What a command means: every pixel of a copy comes from the framebuffer as it
\* was, however source and destination overlap (memmove, not memcpy).
Meant(f, r, p) ==
    [i \in Pixels |->
        LET u == p.sx + (i % Width) - p.x0
            v == p.sy + (i \div Width) - p.y0
        IN  IF p.op # "blit" THEN gpu_reference(f, r, p)[i]
            ELSE IF /\ i % Width >= p.x0 /\ i % Width < p.x0 + p.w
                    /\ i \div Width >= p.y0 /\ i \div Width < p.y0 + p.h
                    /\ u \in 0 .. p.sw - 1 /\ v \in 0 .. p.sh - 1
                 THEN IF p.src = FbBase THEN f[v * p.stride + u] ELSE r[p.src + v * p.stride + u]
                 ELSE f[i]]

\* A finished command has drawn exactly what gpu_reference draws (gpu_tick); an
\* overlapping copy means the picture as it was; a refused one has drawn nothing;
\* and however a job is cut short, each pixel is the old one or the wanted one
\* and once gpu_wait has answered the engine draws no more.
DrawnExactly ==
    /\ g1.status = "done" => fb = want
    /\ g1.status = "fault" => fb = old
    /\ \A i \in Pixels : fb[i] \in {old[i], want[i]}
    /\ gpu_busy /\ g1.phase # "setup" => want = Meant(old, ram, P)
    /\ outcome \in {"done", "fault", "timeout"} => ~gpu_busy

=============================================================================
