-------------------------------- MODULE Apps --------------------------------
(* The menu and the applications behind it (programs/rv32/runtime.c, run by   *)
(* programs/rv32/os/menu.c): Pong, Tetris, the digit screen and the two       *)
(* demos.  Each draws only what changed since its last frame.  One step of    *)
(* the model is one iteration of main's loop: the events that the last        *)
(* present delivered, one frame with the keys held, one drawing pass.         *)
(* Positions, sizes and delays are scaled down; all rules are kept.           *)
EXTENDS Integers, Sequences, FiniteSets

CONSTANTS ScreenW, ScreenH,               \* the surface, in pixels
          Shapes,                         \* Tetris: [piece][rotation] -> set of <<column, row>>
          TetrisW, TetrisH, SpawnX, SlowFall, FastFall, RepeatAt, RepeatTo,
          PongW, PongH, One, PaddleH, Win,  \* Pong: One is a pixel in fixed point
          Side, UiRepeat,                 \* the digit screen
          OverFrames,                     \* frames a finished game stays up
          Keys, Hands,                    \* the keys; the sets of keys a player uses
          BagOrders, Answers,             \* orders the bag is filled in, answers of the classifier
          MaxHeld, MaxEvents, MaxPlaced   \* bounds: keys down at once, key events, Tetris blocks

VARIABLES app,              \* struct runtime
          shown,            \* the surface
          keyboard, hand,   \* the keys down, and the keys this player uses
          events            \* key events so far

appsVars == <<app, shown, keyboard, hand, events>>

Entries == <<"pong", "tetris", "digit", "3d", "gpu">>
Points == <<0, 100, 300, 500, 800>>

(***************************************************************************)
(* The surface: pixels <<x, y>>, and fields of text <<n, -1>>              *)
(***************************************************************************)
Pixels2 == (0 .. ScreenW - 1) \X (0 .. ScreenH - 1)
Fields == (0 .. 7) \X {-1}
Blank2 == [p \in Pixels2 \cup Fields |-> 0]

gfx_fill(s, x, y, w, h, colour) ==
    [p \in DOMAIN s |-> IF p[1] \in x .. x + w - 1 /\ p[2] \in y .. y + h - 1 THEN colour ELSE s[p]]

gfx_text(s, n, value) == [s EXCEPT ![<<n, -1>>] = value]

(***************************************************************************)
(* Tetris                                                                  *)
(***************************************************************************)
Cells == (0 .. TetrisW - 1) \X (0 .. TetrisH - 1)
PieceAt(piece, x, y, rotation) == {<<x + c[1], y + c[2]>> : c \in Shapes[piece][rotation + 1]}

tetris_fits(t, x, y, rotation) ==
    \A c \in PieceAt(t.piece, x, y, rotation) : c \in Cells /\ t.board[c] = 0

\* The bag is refilled, in some order, when it is empty.
take_piece(bag, order) == IF bag = <<>> THEN order ELSE bag

spawn(t, order) ==
    LET bag == take_piece(t.bag, order)
        s == [t EXCEPT !.piece = t.next, !.next = Head(bag), !.bag = Tail(bag), !.rotation = 0,
                       !.x = SpawnX, !.y = 0, !.gravity = 0, !.repeat = 0, !.direction = 0]
    IN  IF tetris_fits(s, s.x, s.y, 0) THEN s ELSE [s EXCEPT !.phase = "over"]

tetris_init(order) ==
    spawn([board |-> [c \in Cells |-> 0], drawn |-> [c \in Cells |-> 0], bag |-> Tail(order),
           piece |-> Head(order), next |-> Head(order), rotation |-> 0, x |-> 0, y |-> 0,
           gravity |-> 0, repeat |-> 0, direction |-> 0, score |-> 0, lines |-> 0, phase |-> "play",
           dirty |-> TRUE, text |-> <<>>, placed |-> 0], order)

\* A piece's blocks, in each of four turns, and the bags it comes in; 0 is a free cell.
ASSUME TetrisAssumption ==
    /\ TetrisW \in Nat \ {0} /\ TetrisH \in Nat \ {0} /\ SpawnX \in Int
    /\ DOMAIN Shapes \subseteq Nat \ {0}
    /\ \A p \in DOMAIN Shapes, k \in 1 .. 4 :
          /\ Shapes[p][k] # {} /\ IsFiniteSet(Shapes[p][k])
          /\ \A c \in Shapes[p][k] : c \in Nat \X (0 .. 3)
    /\ BagOrders \subseteq Seq(DOMAIN Shapes) \ {<<>>}

\* Bug: of several full rows only the lowest is taken out.
SurvivorsButOne(board) ==
    LET full == {y \in 0 .. TetrisH - 1 : \A x \in 0 .. TetrisW - 1 : board[<<x, y>>] # 0}
    IN  {y \in 0 .. TetrisH - 1 : y \notin full \/ \E z \in full : z > y}

Survivors(board) == {y \in 0 .. TetrisH - 1 : \E x \in 0 .. TetrisW - 1 : board[<<x, y>>] = 0}

\* Where a surviving row goes: dest has come up one row for each survivor below it.
dest(rows, src) == TetrisH - 1 - Cardinality({y \in rows : y > src})

\* The score and the lines saturate in the code, beyond MaxPlaced.
lock_piece(t, order) ==
    LET filled == [c \in Cells |-> IF c \in PieceAt(t.piece, t.x, t.y, t.rotation) THEN t.piece ELSE t.board[c]]
        rows == Survivors(filled)
        cleared == TetrisH - Cardinality(rows)
        Src(y) == {src \in rows : dest(rows, src) = y}
    IN  spawn([t EXCEPT
            !.board = [c \in Cells |-> IF Src(c[2]) = {} THEN 0 ELSE filled[<<c[1], CHOOSE src \in Src(c[2]) : TRUE>>]],
            !.score = @ + Points[cleared + 1], !.lines = @ + cleared,
            !.placed = @ + Cardinality(Shapes[t.piece][t.rotation + 1])], order)

tetris_event(t, key, order) ==
    LET turned == (t.rotation + 1) % 4
        deep == {y \in t.y .. TetrisH : \A z \in t.y + 1 .. y : tetris_fits(t, t.x, z, t.rotation)}
    IN  CASE key = "r" -> tetris_init(order)
          [] key = "p" /\ t.phase # "over" -> [t EXCEPT !.phase = IF @ = "play" THEN "paused" ELSE "play"]
          [] key = "up" /\ t.phase = "play" /\ tetris_fits(t, t.x, t.y, turned) -> [t EXCEPT !.rotation = turned]
          [] key = "space" /\ t.phase = "play" ->
                lock_piece([t EXCEPT !.y = CHOOSE y \in deep : \A z \in deep : z <= y], order)
          [] OTHER -> t

tetris_frame(t, keys, order) ==
    LET On(k) == IF k \in keys THEN 1 ELSE 0
        dir == On("right") - On("left")
        again == dir = t.direction /\ dir # 0 /\ t.repeat + 1 = RepeatAt
        move == dir # t.direction \/ again
        side == IF move /\ dir # 0 /\ tetris_fits(t, t.x + dir, t.y, t.rotation) THEN t.x + dir ELSE t.x
        m == [t EXCEPT !.direction = dir, !.x = side,
                       !.repeat = IF dir # t.direction THEN 0 ELSE IF again THEN RepeatTo
                                  ELSE IF dir # 0 THEN @ + 1 ELSE @]
        falls == t.gravity + 1 >= (IF "down" \in keys THEN FastFall ELSE SlowFall)
    IN  IF t.phase # "play" THEN t
        ELSE IF ~falls THEN [m EXCEPT !.gravity = @ + 1]
        ELSE IF tetris_fits(m, m.x, m.y + 1, m.rotation) THEN [m EXCEPT !.gravity = 0, !.y = @ + 1]
        ELSE lock_piece([m EXCEPT !.gravity = 0], order)

\* A cell or a text is drawn when it differs from what was drawn last.
tetris_draw(t, s) ==
    LET Seen(c) == IF t.phase # "over" /\ c \in PieceAt(t.piece, t.x, t.y, t.rotation) THEN t.piece ELSE t.board[c]
        cells == [c \in Cells |-> Seen(c)]
        text == <<t.score, t.lines, t.next, CASE t.phase = "play" -> 1 [] t.phase = "paused" -> 2 [] OTHER -> 3>>
        base == IF t.dirty THEN gfx_text(Blank2, 0, 9) ELSE s
        Drawn(p) == CASE p \in Cells /\ (t.dirty \/ t.drawn[p] # cells[p]) -> cells[p]
                      [] p[2] = -1 /\ p[1] \in 1 .. 4 /\ (t.dirty \/ t.text[p[1]] # text[p[1]]) -> text[p[1]]
                      [] OTHER -> base[p]
    IN  <<[t EXCEPT !.drawn = cells, !.text = text, !.dirty = FALSE], [p \in DOMAIN s |-> Drawn(p)]>>

(***************************************************************************)
(* Pong: columns 0 and PongW - 1 are the paddles', a net runs through the  *)
(* middle and a score stands at the top of each half                       *)
(***************************************************************************)
NetX == PongW \div 2

\* Positions are whole numbers, and neither the net nor a score stands in a paddle's column.
ASSUME ScreenAssumption ==
    /\ PongW \in Nat /\ PongW >= 5 /\ PongH \in Nat /\ PaddleH \in Nat /\ One \in Nat \ {0}
    /\ Side \in Nat /\ ScreenW \in Nat /\ ScreenH \in Nat

ScoreX(left) == IF left THEN NetX - 1 ELSE NetX + 1

centre_ball(p) == [p EXCEPT !.x = ((PongW - 1) \div 2) * One, !.y = ((PongH - 1) \div 2) * One, !.vx = 0, !.vy = 0]

pong_init ==
    LET middle == ((PongH - PaddleH) \div 2) * One
    IN  centre_ball([x |-> 0, y |-> 0, vx |-> 0, vy |-> 0, left |-> middle, right |-> middle, scores |-> <<0, 0>>,
                     phase |-> "serve", serveRight |-> TRUE, odd |-> FALSE, full |-> TRUE,
                     drawn |-> [x |-> 0, y |-> 0, left |-> 0, right |-> 0, scores |-> <<0, 0>>]])

pong_event(p, key) ==
    CASE key = "space" /\ p.phase = "serve" ->
            [p EXCEPT !.vx = IF p.serveRight THEN One ELSE -One, !.vy = IF p.odd THEN -1 ELSE 1,
                      !.odd = ~@, !.phase = "play"]
      [] key = "p" /\ p.phase \in {"play", "paused"} -> [p EXCEPT !.phase = IF @ = "play" THEN "paused" ELSE "play"]
      [] key = "r" -> pong_init
      [] OTHER -> p

clamp_paddle(y) == IF y < 0 THEN 0 ELSE IF y > (PongH - PaddleH) * One THEN (PongH - PaddleH) * One ELSE y

\* Mirrored, and angled by where the ball struck.
bounce(p, paddle) == [p EXCEPT !.vx = -@, !.vy = (p.y + (One \div 2) - paddle - ((PaddleH * One) \div 2)) \div 2]

point(p, left) ==
    LET q == centre_ball([p EXCEPT !.scores[IF left THEN 1 ELSE 2] = @ + 1, !.serveRight = left])
    IN  [q EXCEPT !.phase = IF Win \in {q.scores[1], q.scores[2]} THEN "over" ELSE "serve"]

\* The ball after its move: the walls reflect, a paddle returns it, an edge scores.
BallMoved(p) ==
    LET low == (PongH - 1) * One
        y == p.y + p.vy
        q == [p EXCEPT !.x = @ + p.vx,
                       !.y = IF y < 0 THEN -y ELSE IF y > low THEN (2 * low) - y ELSE y,
                       !.vy = IF y < 0 \/ y > low THEN -@ ELSE @]
        Meets(paddle) == q.y + One > paddle /\ q.y < paddle + (PaddleH * One)
        r == CASE q.vx < 0 /\ q.x <= One /\ q.x + One >= 0 /\ Meets(q.left) ->
                     bounce([q EXCEPT !.x = One], q.left)
               [] q.vx > 0 /\ q.x + One >= (PongW - 1) * One /\ q.x <= PongW * One /\ Meets(q.right) ->
                     bounce([q EXCEPT !.x = (PongW - 2) * One], q.right)
               [] OTHER -> q
    IN  IF r.x + One < 0 THEN point(r, FALSE) ELSE IF r.x > PongW * One THEN point(r, TRUE) ELSE r

pong_frame(p, keys) ==
    LET Moved(y, up, down) ==
            LET u == IF up \in keys THEN clamp_paddle(y - One) ELSE y
            IN  IF down \in keys THEN clamp_paddle(u + One) ELSE u
        m == [p EXCEPT !.left = Moved(@, "w", "s"), !.right = Moved(@, "up", "down")]
    IN  CASE p.phase \in {"paused", "over"} -> p
          [] p.phase = "serve" -> m
          [] p.phase = "play" -> BallMoved(m)

pixels(v) == v \div One

draw_net(s, from, to) ==
    [q \in DOMAIN s |-> IF q[1] = NetX /\ q[2] >= 0 /\ q[2] < PongH /\ q[2] % 2 = 0 /\ q[2] + 1 > from /\ q[2] < to
                        THEN 2 ELSE s[q]]

draw_scores(p, s) == [s EXCEPT ![<<ScoreX(TRUE), 0>>] = 20 + p.scores[1], ![<<ScoreX(FALSE), 0>>] = 20 + p.scores[2]]

\* Erase what moved, restore the net and the scores where the ball's old place cut
\* them, then draw the paddles and the ball.
pong_draw(p, s) ==
    LET d == p.drawn
        now == [x |-> pixels(p.x), y |-> pixels(p.y), left |-> pixels(p.left), right |-> pixels(p.right),
                scores |-> p.scores]
        gone == d.x # now.x \/ d.y # now.y
        s1 == IF gone THEN gfx_fill(s, d.x, d.y, 1, 1, 0) ELSE s
        s2 == IF gone /\ d.x = NetX THEN draw_net(s1, d.y, d.y + 1) ELSE s1
        s3 == IF gone /\ d.y = 0 /\ d.x \in {ScoreX(TRUE), ScoreX(FALSE)} THEN draw_scores(p, s2) ELSE s2
        s4 == IF d.left # now.left THEN gfx_fill(s3, 0, d.left, 1, PaddleH, 0) ELSE s3
        s5 == IF d.right # now.right THEN gfx_fill(s4, PongW - 1, d.right, 1, PaddleH, 0) ELSE s4
        base == IF p.full THEN draw_scores(p, draw_net(Blank2, 0, PongH))
                ELSE IF d.scores # p.scores THEN draw_scores(p, s5) ELSE s5
        t1 == gfx_fill(base, 0, now.left, 1, PaddleH, 1)
        t2 == gfx_fill(t1, PongW - 1, now.right, 1, PaddleH, 1)
    IN  <<[p EXCEPT !.full = FALSE, !.drawn = now], gfx_fill(t2, now.x, now.y, 1, 1, 1)>>

(***************************************************************************)
(* The digit screen                                                        *)
(***************************************************************************)
Canvas == (0 .. Side - 1) \X (0 .. Side - 1)

digit_ui_clear ==
    [canvas |-> {}, x |-> Side \div 2, y |-> Side \div 2, drawnX |-> Side \div 2, drawnY |-> Side \div 2,
     repeat |-> 0, painting |-> FALSE, result |-> 0, dirty |-> TRUE]

Brush(u) == {c \in Canvas : c[1] - u.x \in 0 .. 1 /\ c[2] - u.y \in 0 .. 1}

\* ENTER classifies: a digit, or a device error (external to this screen).
digit_ui_event(u, key, answer) ==
    CASE key = "r" -> digit_ui_clear
      [] key = "enter" -> [u EXCEPT !.result = answer, !.dirty = TRUE]
      [] OTHER -> u

digit_ui_frame(u, keys) ==
    LET Step(v, less, more) ==
            LET w == IF less \in keys /\ v > 0 THEN v - 1 ELSE v
            IN  IF more \in keys /\ w + 1 < Side THEN w + 1 ELSE w
        m == IF keys \cap {"left", "right", "up", "down"} = {} THEN [u EXCEPT !.repeat = 0]
             ELSE IF u.repeat > 0 THEN [u EXCEPT !.repeat = @ - 1]
             ELSE [u EXCEPT !.x = Step(@, "left", "right"), !.y = Step(@, "up", "down"), !.repeat = UiRepeat]
    IN  [m EXCEPT !.painting = "space" \in keys, !.canvas = IF "space" \in keys THEN @ \cup Brush(m) ELSE @]

\* Only the cell the cursor left and those the brush touched are drawn again.
digit_ui_draw(u, s) ==
    LET Dot(c) == IF c \in u.canvas THEN 1 ELSE 0
        touched == ({<<u.drawnX, u.drawnY>>} \ {<<u.x, u.y>>}) \cup (IF u.painting THEN Brush(u) ELSE {})
        base == [p \in DOMAIN s |->
                   IF u.dirty THEN IF p \in Canvas THEN Dot(p) ELSE IF p = <<5, -1>> THEN 30 + u.result ELSE 0
                   ELSE IF p \in touched THEN Dot(p) ELSE s[p]]
    IN  <<[u EXCEPT !.dirty = FALSE, !.drawnX = u.x, !.drawnY = u.y],
          IF <<u.x, u.y>> \in u.canvas THEN base ELSE gfx_fill(base, u.x, u.y, 1, 1, 3)>>

(***************************************************************************)
(* The demos draw their whole frame every time                             *)
(***************************************************************************)
demo_init(screen) == [frame |-> 0, mode |-> IF screen = "gpu" THEN 1 ELSE 0, paused |-> FALSE]

\* SPACE: the next of three shaders, or the CPU in place of the accelerator and back.
demo_event(d, key, screen) ==
    CASE key = "space" -> [d EXCEPT !.mode = (@ + 1) % (IF screen = "gpu" THEN 2 ELSE 3)]
      [] key = "p" -> [d EXCEPT !.paused = ~@]
      [] key = "r" -> demo_init(screen)
      [] OTHER -> d

demo_draw(d, n) ==
    gfx_text(gfx_text(gfx_text(Blank2, n, 40 + d.frame), 6, d.mode), 7, IF d.paused THEN 1 ELSE 0)

(***************************************************************************)
(* The runtime                                                             *)
(***************************************************************************)
change_screen(r, screen, order) ==
    LET c == [r EXCEPT !.screen = screen, !.blocked = Keys, !.transition = TRUE, !.dirty = TRUE, !.over = 0]
    IN  CASE screen = "pong"   -> [c EXCEPT !.pong = pong_init]
          [] screen = "tetris" -> [c EXCEPT !.tetris = tetris_init(order)]
          [] screen = "digit"  -> [c EXCEPT !.digit = digit_ui_clear]
          [] screen \in {"3d", "gpu"} -> [c EXCEPT !.demo[screen] = demo_init(screen)]
          [] OTHER -> c

runtime_init(order) ==
    [screen |-> "menu", selected |-> 1, quit |-> FALSE, blocked |-> {}, transition |-> FALSE, dirty |-> TRUE,
     over |-> 0, pong |-> pong_init, tetris |-> tetris_init(order), digit |-> digit_ui_clear,
     demo |-> [s \in {"3d", "gpu"} |-> demo_init(s)], acted |-> {}, stale |-> {}]

\* Bug: Pong's own dirty rectangles are trusted to remove the overlay.
PongKeyOnly(p, key) == pong_event(p, key)

\* P also takes the PAUSED overlay off the screen.
PongKey(p, key) == [pong_event(p, key) EXCEPT !.full = @ \/ key = "p"]

\* A key pressed in a game or a demo, or in the menu.
Pressed(r, key, order, answer) ==
    LET q == [r EXCEPT !.over = IF key = "r" THEN 0 ELSE @]
        n == Len(Entries)
    IN  CASE r.screen = "pong"   -> [q EXCEPT !.pong = PongKey(@, key)]
          [] r.screen = "tetris" -> [q EXCEPT !.tetris = tetris_event(@, key, order)]
          [] r.screen = "digit"  -> [q EXCEPT !.digit = digit_ui_event(@, key, answer)]
          [] r.screen \in {"3d", "gpu"} -> [q EXCEPT !.demo[r.screen] = demo_event(@, key, r.screen)]
          [] r.screen = "menu" /\ key = "down" -> [r EXCEPT !.selected = IF @ = n THEN 1 ELSE @ + 1, !.dirty = TRUE]
          [] r.screen = "menu" /\ key = "up" -> [r EXCEPT !.selected = IF @ = 1 THEN n ELSE @ - 1, !.dirty = TRUE]
          [] OTHER -> r

runtime_event(r, e, order, answer) ==
    LET a == [r EXCEPT !.acted = @ \cup {e.key}]
    IN  IF ~e.press THEN [r EXCEPT !.blocked = @ \ {e.key}, !.stale = @ \ {e.key}]
        ELSE IF e.key = "q" THEN [r EXCEPT !.quit = TRUE]
        ELSE IF r.transition \/ e.key \in r.blocked \/ r.quit THEN r
        ELSE IF e.key = "esc" /\ r.screen # "menu" THEN change_screen([a EXCEPT !.acted = {}, !.stale = Keys], "menu", order)
        ELSE IF r.screen = "menu" /\ e.key = "enter"
        THEN change_screen([a EXCEPT !.acted = {}, !.stale = Keys], Entries[r.selected], order)
        ELSE Pressed(a, e.key, order, answer)

\* Whether the game on the screen is finished.
Over(r) == (r.screen = "pong" /\ r.pong.phase = "over") \/ (r.screen = "tetris" /\ r.tetris.phase = "over")

\* Bug: the frame forgets which keys were held when the screen changed.
NoneBlocked(blocked, keysHeld) == {}

\* A key held over from the last screen stays blocked until it is seen released.
StillBlocked(blocked, keysHeld) == blocked \cap keysHeld

runtime_frame(r, keysHeld, order) ==
    LET blocked == StillBlocked(r.blocked, keysHeld)
        keys == keysHeld \ blocked
        b == [r EXCEPT !.blocked = blocked, !.transition = FALSE, !.acted = @ \cup (keys \ {"q"}),
                       !.stale = @ \cap keysHeld]
        f == CASE r.screen = "pong"   -> [b EXCEPT !.pong = pong_frame(@, keys)]
               [] r.screen = "tetris" -> [b EXCEPT !.tetris = tetris_frame(@, keys, order)]
               [] r.screen = "digit"  -> [b EXCEPT !.digit = digit_ui_frame(@, keys)]
               [] r.screen \in {"3d", "gpu"} ->
                     [b EXCEPT !.demo[r.screen].frame = IF r.demo[r.screen].paused THEN @ ELSE (@ + 1) % 2]
               [] OTHER -> b
        o == [f EXCEPT !.over = IF Over(f) THEN @ + 1 ELSE 0]
    IN  IF o.over <= OverFrames THEN o
        ELSE [change_screen(o, "menu", order) EXCEPT !.blocked = keysHeld, !.transition = FALSE,
                                                    !.acted = {}, !.stale = keysHeld]

\* One drawing pass; the menu is drawn when it changed, an overlay on top of Pong.
runtime_draw(r, s) ==
    LET t == tetris_draw(r.tetris, s)
        p == pong_draw(r.pong, s)
        u == digit_ui_draw(r.digit, s)
        stopped == r.pong.phase \in {"over", "paused"}
        text == IF r.pong.phase = "over" THEN 51 ELSE 52
        c == [r EXCEPT !.dirty = FALSE]
    IN  CASE r.screen = "tetris" -> <<[c EXCEPT !.tetris = t[1]], t[2]>>
          [] r.screen = "pong"   -> <<[c EXCEPT !.pong = p[1]],
                                      IF stopped THEN gfx_fill(p[2], 1, 1, PongW - 2, 1, text) ELSE p[2]>>
          [] r.screen = "digit"  -> <<[c EXCEPT !.digit = u[1]], u[2]>>
          [] r.screen \in {"3d", "gpu"} -> <<c, demo_draw(r.demo[r.screen], IF r.screen = "3d" THEN 1 ELSE 2)>>
          [] r.screen = "menu" -> <<c, IF r.dirty THEN gfx_text(Blank2, r.selected, 60) ELSE s>>

\* The runtime after a batch of events.
Drained(r, batch, order, answer) ==
    LET after[n \in 0 .. Len(batch)] == IF n = 0 THEN r ELSE runtime_event(after[n - 1], batch[n], order, answer)
    IN  after[Len(batch)]

\* The keys held after a batch of events, which only toggle keys.
Toggled(keysHeld, batch) ==
    {k \in Keys : (k \in keysHeld) <=> (Cardinality({n \in DOMAIN batch : batch[n].key = k}) % 2 = 0)}

\* What a keyboard can produce between two presents: a key that is down goes up, one
\* that is up goes down, at most twice.
Toggle(keysHeld) == {[key |-> k, press |-> k \notin keysHeld] : k \in hand}

Batches ==
    {<<>>} \cup {<<e>> : e \in Toggle(keyboard)}
    \cup UNION {{<<e, f>> : f \in Toggle(Toggled(keyboard, <<e>>))} : e \in Toggle(keyboard)}

\* One iteration of main: drain the events, quit or advance a frame, draw, present.
Iteration(batch, order, answer) ==
    /\ ~app.quit /\ app.tetris.placed < MaxPlaced
    /\ Cardinality(Toggled(keyboard, batch)) <= MaxHeld
    /\ keyboard' = Toggled(keyboard, batch)
    /\ events + Len(batch) <= MaxEvents
    /\ events' = events + Len(batch)
    /\ UNCHANGED hand
    /\ LET r == Drained([app EXCEPT !.acted = {}], batch, order, answer)
           drawn == runtime_draw(runtime_frame(r, keyboard', order), shown)
       IN  IF r.quit THEN app' = r /\ UNCHANGED shown
           ELSE app' = drawn[1] /\ shown' = drawn[2]

\* The menu as main finds it, with the selection where earlier keys left it.
AppsInit ==
    /\ \E order \in BagOrders, n \in DOMAIN Entries : app = [runtime_init(order) EXCEPT !.selected = n]
    /\ hand \in Hands
    /\ shown = Blank2 /\ keyboard = {} /\ events = 0

AppsNext == \E batch \in Batches, order \in BagOrders, answer \in Answers : Iteration(batch, order, answer)

(***************************************************************************)
(* Properties                                                              *)
(***************************************************************************)
\* The screen as a drawing pass from nothing would leave it.
InFull(r) ==
    runtime_draw([r EXCEPT !.dirty = TRUE, !.tetris.dirty = TRUE, !.pong.full = TRUE, !.digit.dirty = TRUE], Blank2)[2]

\* Drawing only what changed never shows: after every frame the screen is the one a
\* complete drawing of the state gives, in every application and across every change
\* of screen, pause and restart (runtime_draw).
ScreenFresh == [][~app'.quit => shown' = InFull(app')]_appsVars

\* Tetris never loses a block: the falling piece lies on free cells, no full row
\* survives a lock, and blocks leave the board only in cleared rows (lock_piece).
TetrisSound ==
    LET t == app.tetris
    IN  /\ t.phase # "over" => tetris_fits(t, t.x, t.y, t.rotation)
        /\ \A y \in 0 .. TetrisH - 1 : \E x \in 0 .. TetrisW - 1 : t.board[<<x, y>>] = 0
        /\ Cardinality({c \in Cells : t.board[c] # 0}) = t.placed - (TetrisW * t.lines)

\* A key that was down when the screen changed does nothing on the new screen before
\* it is released: neither its press nor its being held reaches a game (runtime_event,
\* runtime_frame).
HeldKeysWait == [][app'.acted \cap app'.stale = {}]_appsVars

=============================================================================
