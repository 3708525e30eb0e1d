----------------------------- MODULE AppsProofs -----------------------------
(***************************************************************************)
(* What is proved of the menu and its applications, for every player,      *)
(* every board and set of pieces, every court and canvas: the screen is    *)
(* always the whole picture though only what changed is drawn, Tetris      *)
(* loses no block, and a key held over a change of screen waits.           *)
(***************************************************************************)
EXTENDS Apps, Induction, FiniteSetTheorems, TLAPS

-----------------------------------------------------------------------------
(* The runtime (Apps): events, frames and keys. *)

\* The runtime's fields, its screens, and a runtime on one of them.
Parts == {"screen", "selected", "quit", "blocked", "transition", "dirty", "over", "pong", "tetris", "digit",
          "demo", "acted", "stale"}

Screens == {"menu", "pong", "tetris", "digit", "3d", "gpu"}
Running(r) == DOMAIN r = Parts /\ r.screen \in Screens /\ r.selected \in 1 .. 5

\* Every key down when the screen changed is blocked, and no blocked key acted.
Calm(r) == Running(r) /\ r.stale \subseteq r.blocked /\ r.acted \cap r.stale = {}

\* The menu has five entries.
LEMMA EntriesAre == Len(Entries) = 5 /\ \A n \in 1 .. 5 : Entries[n] \in Screens
BY DEF Entries, Screens

\* A batch has at most two events.
LEMMA BatchIs ==
    ASSUME NEW batch \in Batches
    PROVE  \/ batch = <<>>
           \/ \E e : batch = <<e>>
           \/ \E e, f : batch = <<e, f>>
BY Zenon DEF Batches

\* A batch is drained event by event.
LEMMA DrainedIs ==
    ASSUME NEW r, NEW order, NEW answer, NEW batch \in Batches
    PROVE  \/ Drained(r, batch, order, answer) = r
           \/ \E e : Drained(r, batch, order, answer) = runtime_event(r, e, order, answer)
           \/ \E e, f : Drained(r, batch, order, answer) =
                 runtime_event(runtime_event(r, e, order, answer), f, order, answer)
<1> DEFINE Body(g, b) == [n \in 0 .. Len(b) |-> IF n = 0 THEN r ELSE runtime_event(g[n - 1], b[n], order, answer)]
           Run(b) == CHOOSE g : g = Body(g, b)
<1>1. \A b : Drained(r, b, order, answer) = Run(b)[Len(b)]
  BY Zenon DEF Drained
<1> HIDE DEF Run
<1>2. Drained(r, <<>>, order, answer) = r
  <2> DEFINE b == <<>>
             w == [n \in 0 .. 0 |-> r]
  <2>1. w = Body(w, b)
    OBVIOUS
  <2>2. Run(b) = Body(Run(b), b)
    BY <2>1, Zenon DEF Run
  <2>3. Run(b)[0] = r
    BY <2>2
  <2> QED
    BY <1>1, <2>3
<1>3. ASSUME NEW e PROVE Drained(r, <<e>>, order, answer) = runtime_event(r, e, order, answer)
  <2> DEFINE b == <<e>>
             w == [n \in 0 .. 1 |-> IF n = 0 THEN r ELSE runtime_event(r, e, order, answer)]
  <2>1. w = Body(w, b)
    OBVIOUS
  <2>2. Run(b) = Body(Run(b), b)
    BY <2>1, Zenon DEF Run
  <2>3. Run(b)[0] = r
    BY <2>2
  <2>4. Run(b)[1] = runtime_event(Run(b)[0], e, order, answer)
    BY <2>2
  <2>5. Drained(r, b, order, answer) = Run(b)[1]
    <3>1. Len(b) = 1
      BY Zenon
    <3> QED
      BY <1>1, <3>1, Zenon
  <2> QED
    BY <2>3, <2>4, <2>5, Zenon
<1>4. ASSUME NEW e, NEW f
      PROVE  Drained(r, <<e, f>>, order, answer) = runtime_event(runtime_event(r, e, order, answer), f, order, answer)
  <2> DEFINE b == <<e, f>>
             one == runtime_event(r, e, order, answer)
             two == runtime_event(one, f, order, answer)
             w == [n \in 0 .. 2 |-> IF n = 0 THEN r ELSE IF n = 1 THEN one ELSE two]
  <2>1. w = Body(w, b)
    OBVIOUS
  <2>2. Run(b) = Body(Run(b), b)
    BY <2>1, Zenon DEF Run
  <2>3. Run(b)[0] = r
    BY <2>2
  <2>4. Run(b)[1] = runtime_event(Run(b)[0], e, order, answer)
    BY <2>2
  <2>5. Run(b)[2] = runtime_event(Run(b)[1], f, order, answer)
    BY <2>2
  <2>6. Drained(r, b, order, answer) = Run(b)[2]
    <3>1. Len(b) = 2
      BY Zenon
    <3> QED
      BY <1>1, <3>1, Zenon
  <2> QED
    BY <2>3, <2>4, <2>5, <2>6, Zenon
<1>5. ASSUME NEW e, batch = <<e>> PROVE Drained(r, batch, order, answer) = runtime_event(r, e, order, answer)
  BY <1>3, <1>5, Zenon
<1>6. ASSUME NEW e, NEW f, batch = <<e, f>>
      PROVE  Drained(r, batch, order, answer) = runtime_event(runtime_event(r, e, order, answer), f, order, answer)
  BY <1>4, <1>6, Zenon
<1>7. CASE batch = <<>>
  BY <1>2, <1>7, Zenon
<1>8. CASE \E e : batch = <<e>>
  BY <1>5, <1>8, Zenon
<1>9. CASE \E e, f : batch = <<e, f>>
  BY <1>6, <1>9, Zenon
<1>10. batch = <<>> \/ (\E e : batch = <<e>>) \/ (\E e, f : batch = <<e, f>>)
  BY BatchIs, Zenon
<1> QED
  BY <1>7, <1>8, <1>9, <1>10, Zenon

\* change_screen() from r to c.
Changed(r, c, screen, order) ==
    /\ DOMAIN c = Parts /\ c.screen = screen /\ c.selected = r.selected /\ c.dirty = TRUE
    /\ c.blocked = Keys /\ c.stale = r.stale /\ c.acted = r.acted
    /\ c.pong = IF screen = "pong" THEN pong_init ELSE r.pong
    /\ c.tetris = IF screen = "tetris" THEN tetris_init(order) ELSE r.tetris
    /\ c.digit = IF screen = "digit" THEN digit_ui_clear ELSE r.digit

\* What change_screen() leaves alone, and what it starts afresh.
LEMMA ScreenIs ==
    ASSUME NEW r, DOMAIN r = Parts, NEW screen, NEW order
    PROVE  Changed(r, change_screen(r, screen, order), screen, order)
<1> DEFINE c == [r EXCEPT !.screen = screen, !.blocked = Keys, !.transition = TRUE, !.dirty = TRUE, !.over = 0]
           d == change_screen(r, screen, order)
<1>1. /\ DOMAIN c = Parts /\ c.screen = screen /\ c.selected = r.selected /\ c.dirty = TRUE
      /\ c.blocked = Keys /\ c.stale = r.stale /\ c.acted = r.acted
      /\ c.pong = r.pong /\ c.tetris = r.tetris /\ c.digit = r.digit
  BY Zenon DEF Parts
<1>2. \/ screen = "pong" /\ d = [c EXCEPT !.pong = pong_init]
      \/ screen = "tetris" /\ d = [c EXCEPT !.tetris = tetris_init(order)]
      \/ screen = "digit" /\ d = [c EXCEPT !.digit = digit_ui_clear]
      \/ screen \in {"3d", "gpu"} /\ \E m : d = [c EXCEPT !.demo[screen] = m]
      \/ screen \notin {"pong", "tetris", "digit", "3d", "gpu"} /\ d = c
  <2> HIDE DEF c
  <2> DEFINE ans == CASE screen = "pong"   -> [c EXCEPT !.pong = pong_init]
          [] screen = "tetris" -> [c EXCEPT !.tetris = tetris_init(order)]
          [] screen = "digit"  -> [c EXCEPT !.digit = digit_ui_clear]
          [] screen \in {"3d", "gpu"} -> [c EXCEPT !.demo[screen] = demo_init(screen)]
          [] OTHER -> c
  <2>1. d = ans
    BY Zenon DEF change_screen, c
  <2>2. \/ screen = "pong" /\ ans = [c EXCEPT !.pong = pong_init]
        \/ screen = "tetris" /\ ans = [c EXCEPT !.tetris = tetris_init(order)]
        \/ screen = "digit" /\ ans = [c EXCEPT !.digit = digit_ui_clear]
        \/ screen \in {"3d", "gpu"} /\ ans = [c EXCEPT !.demo[screen] = demo_init(screen)]
        \/ screen \notin {"pong", "tetris", "digit", "3d", "gpu"} /\ ans = c
    BY Zenon
  <2> HIDE DEF ans, d
  <2> QED
    BY <2>1, <2>2, Zenon
<1> HIDE DEF c, d
<1>3. Changed(r, d, screen, order)
  BY <1>1, <1>2 DEF Parts, Changed
<1> QED
  BY <1>3, Zenon DEF d

\* A step of the application on the screen, which leaves the others alone.
Acted(r, q, pong, tetris, digit) ==
    /\ DOMAIN q = Parts /\ q.screen = r.screen
    /\ q.blocked = r.blocked /\ q.stale = r.stale /\ q.acted = r.acted
    /\ q.pong = IF r.screen = "pong" THEN pong ELSE r.pong
    /\ q.tetris = IF r.screen = "tetris" THEN tetris ELSE r.tetris
    /\ q.digit = IF r.screen = "digit" THEN digit ELSE r.digit

\* The application on the screen gets a key; in the menu the selection may move.
Answered(r, q, key, order, answer) ==
    /\ Acted(r, q, PongKey(r.pong, key), tetris_event(r.tetris, key, order), digit_ui_event(r.digit, key, answer))
    /\ q.selected \in 1 .. 5 /\ (q.dirty = TRUE \/ (q.selected = r.selected /\ q.dirty = r.dirty))

\* A key reaches the application on the screen and no other.
LEMMA PressedIs ==
    ASSUME NEW r, Running(r), NEW key, NEW order, NEW answer, NEW ans, ans = Pressed(r, key, order, answer)
    PROVE  Answered(r, ans, key, order, answer)
<1> DEFINE q == [r EXCEPT !.over = IF key = "r" THEN 0 ELSE @]
           n == Len(Entries)
           p == PongKey(r.pong, key)
           t == tetris_event(r.tetris, key, order)
           d == digit_ui_event(r.digit, key, answer)
<1>1. /\ DOMAIN q = Parts /\ q.screen = r.screen /\ q.selected = r.selected /\ q.dirty = r.dirty
      /\ q.blocked = r.blocked /\ q.stale = r.stale /\ q.acted = r.acted
      /\ q.pong = r.pong /\ q.tetris = r.tetris /\ q.digit = r.digit
  BY Zenon DEF Running, Parts
<1>2. \/ r.screen = "pong" /\ ans = [q EXCEPT !.pong = p]
      \/ r.screen = "tetris" /\ ans = [q EXCEPT !.tetris = t]
      \/ r.screen = "digit" /\ ans = [q EXCEPT !.digit = d]
      \/ r.screen \in {"3d", "gpu"} /\ \E v : ans = [q EXCEPT !.demo[r.screen] = v]
      \/ r.screen = "menu" /\ \E v \in 1 .. 5 : ans = [r EXCEPT !.selected = v, !.dirty = TRUE]
      \/ r.screen = "menu" /\ ans = r
  <2> HIDE DEF q, n
  <2> DEFINE e == CASE r.screen = "pong"   -> [q EXCEPT !.pong = PongKey(@, key)]
          [] r.screen = "tetris" -> [q EXCEPT !.tetris = tetris_event(@, key, order)]
          [] r.screen = "digit"  -> [q EXCEPT !.digit = digit_ui_event(@, key, answer)]
          [] r.screen \in {"3d", "gpu"} -> [q EXCEPT !.demo[r.screen] = demo_event(@, key, r.screen)]
          [] r.screen = "menu" /\ key = "down" -> [r EXCEPT !.selected = IF @ = n THEN 1 ELSE @ + 1, !.dirty = TRUE]
          [] r.screen = "menu" /\ key = "up" -> [r EXCEPT !.selected = IF @ = 1 THEN n ELSE @ - 1, !.dirty = TRUE]
          [] OTHER -> r
  <2>1. ans = e
    BY Zenon DEF Pressed, q, n
  <2>2. \/ r.screen = "pong" /\ e = [q EXCEPT !.pong = PongKey(@, key)]
        \/ r.screen = "tetris" /\ e = [q EXCEPT !.tetris = tetris_event(@, key, order)]
        \/ r.screen = "digit" /\ e = [q EXCEPT !.digit = digit_ui_event(@, key, answer)]
        \/ r.screen \in {"3d", "gpu"} /\ e = [q EXCEPT !.demo[r.screen] = demo_event(@, key, r.screen)]
        \/ r.screen = "menu" /\ e = [r EXCEPT !.selected = IF @ = n THEN 1 ELSE @ + 1, !.dirty = TRUE]
        \/ r.screen = "menu" /\ e = [r EXCEPT !.selected = IF @ = 1 THEN n ELSE @ - 1, !.dirty = TRUE]
        \/ r.screen = "menu" /\ e = r
    BY Zenon DEF Running, Screens
  <2> HIDE DEF e
  <2>3. /\ (IF r.selected = n THEN 1 ELSE r.selected + 1) \in 1 .. 5
        /\ (IF r.selected = 1 THEN n ELSE r.selected - 1) \in 1 .. 5
    BY EntriesAre DEF n, Running
  <2>4. /\ [q EXCEPT !.pong = PongKey(@, key)] = [q EXCEPT !.pong = p]
        /\ [q EXCEPT !.tetris = tetris_event(@, key, order)] = [q EXCEPT !.tetris = t]
        /\ [q EXCEPT !.digit = digit_ui_event(@, key, answer)] = [q EXCEPT !.digit = d]
    BY <1>1, Zenon
  <2> HIDE DEF p, t, d
  <2> QED
    BY <2>1, <2>2, <2>3, <2>4, Zenon
<1> HIDE DEF q, p, t, d
<1>3. Acted(r, ans, p, t, d)
  BY <1>1, <1>2, ZenonT(30) DEF Acted, Parts, Running
<1>4. ans.selected \in 1 .. 5 /\ (ans.dirty = TRUE \/ (ans.selected = r.selected /\ ans.dirty = r.dirty))
  BY <1>1, <1>2, Zenon DEF Parts, Running
<1> QED
  BY <1>3, <1>4, Zenon DEF Answered, p, t, d

\* The runtime's bookkeeping of keys changes, no application does.
Kept(r, q) ==
    /\ DOMAIN q = Parts /\ q.screen = r.screen /\ q.selected = r.selected /\ q.dirty = r.dirty
    /\ q.pong = r.pong /\ q.tetris = r.tetris /\ q.digit = r.digit

\* An event the runtime only takes note of, one that changes the screen, and one that the
\* application gets.
Noted(r, e, q) ==
    /\ Kept(r, q) /\ q.acted = r.acted
    /\ \/ q.blocked = r.blocked /\ q.stale = r.stale
       \/ q.blocked = r.blocked \ {e.key} /\ q.stale = r.stale \ {e.key}
Turned(r, q, order) ==
    \E b : \E screen \in Screens :
        Kept(r, b) /\ b.acted = {} /\ b.stale = Keys /\ q = change_screen(b, screen, order)
Entered(r, e, q, order, answer) ==
    \E a : /\ Kept(r, a) /\ a.acted = r.acted \cup {e.key} /\ a.blocked = r.blocked /\ a.stale = r.stale
           /\ e.key \notin r.blocked /\ q = Pressed(a, e.key, order, answer)

\* What an event can do.
LEMMA EventIs ==
    ASSUME NEW r, Running(r), NEW e, NEW order, NEW answer, NEW q, q = runtime_event(r, e, order, answer)
    PROVE  Noted(r, e, q) \/ Turned(r, q, order) \/ Entered(r, e, q, order, answer)
<1> DEFINE a == [r EXCEPT !.acted = @ \cup {e.key}]
           b == [a EXCEPT !.acted = {}, !.stale = Keys]
           released == [r EXCEPT !.blocked = @ \ {e.key}, !.stale = @ \ {e.key}]
           quit == [r EXCEPT !.quit = TRUE]
<1>1. Kept(r, a) /\ a.blocked = r.blocked /\ a.stale = r.stale /\ a.acted = r.acted \cup {e.key}
  BY Zenon DEF Running, Parts, Kept
<1>2. Kept(r, b) /\ b.acted = {} /\ b.stale = Keys
  BY Zenon DEF Running, Parts, Kept
<1>3. /\ Kept(r, released) /\ released.acted = r.acted
      /\ released.blocked = r.blocked \ {e.key} /\ released.stale = r.stale \ {e.key}
  BY Zenon DEF Running, Parts, Kept
<1>4. Kept(r, quit) /\ quit.acted = r.acted /\ quit.blocked = r.blocked /\ quit.stale = r.stale
  BY Zenon DEF Running, Parts, Kept
<1>5. Kept(r, r)
  BY Zenon DEF Running, Kept
<1> HIDE DEF a, b, released, quit
<1>6. \/ q = released \/ q = quit \/ q = r
      \/ q = change_screen(b, "menu", order)
      \/ q = change_screen(b, Entries[r.selected], order)
      \/ e.key \notin r.blocked /\ q = Pressed(a, e.key, order, answer)
  BY Zenon DEF runtime_event, a, b, released, quit
<1>7. "menu" \in Screens /\ Entries[r.selected] \in Screens
  BY EntriesAre, Zenon DEF Screens, Running
<1> QED
  BY <1>1, <1>2, <1>3, <1>4, <1>5, <1>6, <1>7, Zenon DEF Noted, Turned, Entered

\* The application on the screen advances by a frame.
Advanced(r, o, keysHeld, order) ==
    LET keys == keysHeld \ StillBlocked(r.blocked, keysHeld)
    IN  /\ DOMAIN o = Parts /\ o.screen = r.screen /\ o.selected = r.selected /\ o.dirty = r.dirty
        /\ o.blocked = StillBlocked(r.blocked, keysHeld)
        /\ o.stale = r.stale \cap keysHeld /\ o.acted = r.acted \cup (keys \ {"q"})
        /\ o.pong = IF r.screen = "pong" THEN pong_frame(r.pong, keys) ELSE r.pong
        /\ o.tetris = IF r.screen = "tetris" THEN tetris_frame(r.tetris, keys, order) ELSE r.tetris
        /\ o.digit = IF r.screen = "digit" THEN digit_ui_frame(r.digit, keys) ELSE r.digit

\* A finished game gives way to the menu.
Left(o, q, keysHeld) ==
    /\ DOMAIN q = Parts /\ q.screen = "menu" /\ q.selected = o.selected /\ q.dirty = TRUE
    /\ q.blocked = keysHeld /\ q.stale = keysHeld /\ q.acted = {}
    /\ q.pong = o.pong /\ q.tetris = o.tetris /\ q.digit = o.digit

\* A frame advances the application on the screen, or leaves it.
LEMMA FrameIs ==
    ASSUME NEW r, Running(r), NEW keysHeld, NEW order, NEW q, q = runtime_frame(r, keysHeld, order)
    PROVE  \E o : Advanced(r, o, keysHeld, order) /\ (q = o \/ Left(o, q, keysHeld))
<1> DEFINE blocked == StillBlocked(r.blocked, keysHeld)
           keys == keysHeld \ blocked
           b == [r EXCEPT !.blocked = blocked, !.transition = FALSE, !.acted = @ \cup (keys \ {"q"}),
                          !.stale = @ \cap keysHeld]
           f == CASE r.screen = "pong"   -> [b EXCEPT !.pong = pong_frame(@, keys)]
               [] r.screen = "tetris" -> [b EXCEPT !.tetris = tetris_frame(@, keys, order)]
               [] r.screen = "digit"  -> [b EXCEPT !.digit = digit_ui_frame(@, keys)]
               [] r.screen \in {"3d", "gpu"} ->
                     [b EXCEPT !.demo[r.screen].frame = IF r.demo[r.screen].paused THEN @ ELSE (@ + 1) % 2]
               [] OTHER -> b
           o == [f EXCEPT !.over = IF Over(f) THEN @ + 1 ELSE 0]
           c == change_screen(o, "menu", order)
           d == [c EXCEPT !.blocked = keysHeld, !.transition = FALSE, !.acted = {}, !.stale = keysHeld]
           pong == pong_frame(r.pong, keys)
           tetris == tetris_frame(r.tetris, keys, order)
           digit == digit_ui_frame(r.digit, keys)
<1>1. q = IF o.over <= OverFrames THEN o ELSE d
  BY Zenon DEF runtime_frame
<1> HIDE DEF blocked
<1>2. /\ DOMAIN b = Parts /\ b.screen = r.screen /\ b.selected = r.selected /\ b.dirty = r.dirty
      /\ b.blocked = blocked /\ b.stale = r.stale \cap keysHeld /\ b.acted = r.acted \cup (keys \ {"q"})
      /\ b.pong = r.pong /\ b.tetris = r.tetris /\ b.digit = r.digit
  <2> HIDE DEF keys
  <2> QED
    BY Zenon DEF Running, Parts
<1> HIDE DEF b, keys
<1>3. \/ r.screen = "pong" /\ f = [b EXCEPT !.pong = pong]
      \/ r.screen = "tetris" /\ f = [b EXCEPT !.tetris = tetris]
      \/ r.screen = "digit" /\ f = [b EXCEPT !.digit = digit]
      \/ r.screen \in {"3d", "gpu"} /\ \E v : f = [b EXCEPT !.demo[r.screen].frame = v]
      \/ r.screen = "menu" /\ f = b
  <2>1. \/ r.screen = "pong" /\ f = [b EXCEPT !.pong = pong_frame(@, keys)]
        \/ r.screen = "tetris" /\ f = [b EXCEPT !.tetris = tetris_frame(@, keys, order)]
        \/ r.screen = "digit" /\ f = [b EXCEPT !.digit = digit_ui_frame(@, keys)]
        \/ /\ r.screen \in {"3d", "gpu"}
           /\ f = [b EXCEPT !.demo[r.screen].frame = IF r.demo[r.screen].paused THEN @ ELSE (@ + 1) % 2]
        \/ r.screen = "menu" /\ f = b
    BY Zenon DEF Running, Screens
  <2>2. /\ [b EXCEPT !.pong = pong_frame(@, keys)] = [b EXCEPT !.pong = pong]
        /\ [b EXCEPT !.tetris = tetris_frame(@, keys, order)] = [b EXCEPT !.tetris = tetris]
        /\ [b EXCEPT !.digit = digit_ui_frame(@, keys)] = [b EXCEPT !.digit = digit]
    BY <1>2, Zenon
  <2> HIDE DEF f, pong, tetris, digit
  <2> QED
    BY <2>1, <2>2, Zenon
<1> HIDE DEF f, pong, tetris, digit
<1>4. /\ DOMAIN f = Parts /\ f.screen = r.screen /\ f.selected = r.selected /\ f.dirty = r.dirty
      /\ f.blocked = blocked /\ f.stale = r.stale \cap keysHeld /\ f.acted = r.acted \cup (keys \ {"q"})
      /\ f.pong = (IF r.screen = "pong" THEN pong ELSE r.pong)
      /\ f.tetris = (IF r.screen = "tetris" THEN tetris ELSE r.tetris)
      /\ f.digit = (IF r.screen = "digit" THEN digit ELSE r.digit)
  BY <1>2, <1>3, Zenon DEF Parts
<1>5. /\ DOMAIN o = Parts /\ o.screen = f.screen /\ o.selected = f.selected /\ o.dirty = f.dirty
      /\ o.blocked = f.blocked /\ o.stale = f.stale /\ o.acted = f.acted
      /\ o.pong = f.pong /\ o.tetris = f.tetris /\ o.digit = f.digit
  BY <1>4, Zenon DEF Parts
<1> HIDE DEF o
<1>6. Advanced(r, o, keysHeld, order)
  BY <1>4, <1>5, Zenon DEF Advanced, blocked, keys, pong, tetris, digit
<1>7. Changed(o, c, "menu", order)
  BY <1>5, ScreenIs, Zenon
<1> HIDE DEF c
<1>8. Left(o, d, keysHeld)
  BY <1>7, Zenon DEF Changed, Left, Parts
<1> QED
  BY <1>1, <1>6, <1>8, Zenon

\* Drawing changes what an application remembers to have drawn.
LEMMA DrawIs ==
    ASSUME NEW r, Running(r), NEW s, NEW q, q = runtime_draw(r, s)[1]
    PROVE  /\ Acted(r, q, pong_draw(r.pong, s)[1], tetris_draw(r.tetris, s)[1], digit_ui_draw(r.digit, s)[1])
           /\ q.selected = r.selected /\ q.dirty = FALSE /\ q.demo = r.demo
<1> DEFINE c == [r EXCEPT !.dirty = FALSE]
           pong == pong_draw(r.pong, s)[1]
           tetris == tetris_draw(r.tetris, s)[1]
           digit == digit_ui_draw(r.digit, s)[1]
<1>1. /\ DOMAIN c = Parts /\ c.screen = r.screen /\ c.selected = r.selected /\ c.dirty = FALSE
      /\ c.blocked = r.blocked /\ c.stale = r.stale /\ c.acted = r.acted
      /\ c.pong = r.pong /\ c.tetris = r.tetris /\ c.digit = r.digit /\ c.demo = r.demo
  BY Zenon DEF Running, Parts
<1>2. \/ r.screen = "tetris" /\ q = [c EXCEPT !.tetris = tetris]
      \/ r.screen = "pong" /\ q = [c EXCEPT !.pong = pong]
      \/ r.screen = "digit" /\ q = [c EXCEPT !.digit = digit]
      \/ r.screen \in {"3d", "gpu", "menu"} /\ q = c
  <2>1. CASE r.screen = "tetris"
    BY <2>1, Zenon DEF runtime_draw
  <2>2. CASE r.screen = "pong"
    BY <2>2, Zenon DEF runtime_draw
  <2>3. CASE r.screen = "digit"
    BY <2>3, Zenon DEF runtime_draw
  <2>4. CASE r.screen \in {"3d", "gpu"}
    BY <2>4, Zenon DEF runtime_draw
  <2>5. CASE r.screen = "menu"
    BY <2>5, Zenon DEF runtime_draw
  <2> QED
    BY <2>1, <2>2, <2>3, <2>4, <2>5, Zenon DEF Running, Screens
<1> HIDE DEF c, pong, tetris, digit
<1>3. Acted(r, q, pong, tetris, digit) /\ q.selected = r.selected /\ q.dirty = FALSE /\ q.demo = r.demo
  BY <1>1, <1>2 DEF Acted, Parts
<1> QED
  BY <1>3, Zenon DEF pong, tetris, digit

\* A press of a blocked key is ignored, a change of screen blocks every key.
LEMMA EventCalm ==
    ASSUME NEW r, Calm(r), NEW e, NEW order, NEW answer
    PROVE  Calm(runtime_event(r, e, order, answer))
<1> DEFINE q == runtime_event(r, e, order, answer)
<1>1. Running(r) /\ q = runtime_event(r, e, order, answer)
  BY Zenon DEF Calm
<1> HIDE DEF q
<1>2. Noted(r, e, q) => Calm(q)
  BY Zenon DEF Noted, Calm, Running, Kept
<1>3. ASSUME Turned(r, q, order) PROVE Calm(q)
  <2>1. PICK b : \E screen \in Screens :
           Kept(r, b) /\ b.acted = {} /\ b.stale = Keys /\ q = change_screen(b, screen, order)
    BY <1>3, Zenon DEF Turned
  <2>2. PICK screen \in Screens : q = change_screen(b, screen, order)
    BY <2>1, Zenon
  <2>3. Changed(b, q, screen, order)
    BY <2>1, <2>2, ScreenIs, Zenon DEF Kept
  <2> QED
    BY <2>1, <2>2, <2>3, Zenon DEF Calm, Running, Kept, Changed
<1>4. ASSUME Entered(r, e, q, order, answer) PROVE Calm(q)
  <2>1. PICK a : /\ Kept(r, a) /\ a.acted = r.acted \cup {e.key} /\ a.blocked = r.blocked /\ a.stale = r.stale
                 /\ e.key \notin r.blocked /\ q = Pressed(a, e.key, order, answer)
    BY <1>4, Zenon DEF Entered
  <2>2. Running(a)
    BY <1>1, <2>1, Zenon DEF Running, Kept
  <2>3. Answered(a, q, e.key, order, answer)
    BY <2>1, <2>2, PressedIs, Zenon
  <2> QED
    BY <2>1, <2>2, <2>3, Zenon DEF Calm, Running, Answered, Acted
<1>5. Calm(q)
  BY <1>1, <1>2, <1>3, <1>4, EventIs, Zenon
<1> QED
  BY <1>5, Zenon DEF q

\* So does a batch of events.
LEMMA DrainedCalm ==
    ASSUME NEW r, Calm(r), NEW batch \in Batches, NEW order, NEW answer
    PROVE  Calm(Drained(r, batch, order, answer))
<1> DEFINE ans == Drained(r, batch, order, answer)
<1>1. \/ ans = r
      \/ \E e : ans = runtime_event(r, e, order, answer)
      \/ \E e, f : ans = runtime_event(runtime_event(r, e, order, answer), f, order, answer)
  BY DrainedIs, Zenon
<1>2. \A q, e : Calm(q) => Calm(runtime_event(q, e, order, answer))
  BY EventCalm, Zenon
<1> HIDE DEF ans
<1>3. Calm(ans)
  BY <1>1, <1>2, Zenon
<1> QED
  BY <1>3, Zenon DEF ans

\* A held key that is blocked stays blocked, and the game does not see it.
LEMMA FrameCalm ==
    ASSUME NEW r, Calm(r), NEW keysHeld, NEW order
    PROVE  Calm(runtime_frame(r, keysHeld, order))
<1> DEFINE q == runtime_frame(r, keysHeld, order)
<1>1. PICK o : Advanced(r, o, keysHeld, order) /\ (q = o \/ Left(o, q, keysHeld))
  BY FrameIs, Zenon DEF Calm
<1> HIDE DEF q
<1>2. o.selected = r.selected /\ r.selected \in 1 .. 5
  BY <1>1, Zenon DEF Advanced, Calm, Running
<1>3. Left(o, q, keysHeld) => Calm(q)
  BY <1>2, Zenon DEF Left, Calm, Running, Screens
<1>4. Calm(o)
  BY <1>1, Zenon DEF Advanced, Calm, Running, StillBlocked
<1>5. Calm(q)
  BY <1>1, <1>3, <1>4, Zenon
<1> QED
  BY <1>5, Zenon DEF q

\* No key is down at first.
LEMMA CalmInit == AppsInit => Calm(app)
BY DEF AppsInit, runtime_init, Calm, Running, Parts, Screens, Entries

\* Every iteration keeps blocked keys from acting.
LEMMA CalmStep == Calm(app) /\ [AppsNext]_appsVars => Calm(app)'
<1> SUFFICES ASSUME Calm(app), AppsNext PROVE Calm(app')
  BY Zenon DEF appsVars
<1>1. PICK batch \in Batches, order \in BagOrders, answer \in Answers : Iteration(batch, order, answer)
  BY Zenon DEF AppsNext
<1> DEFINE z == [app EXCEPT !.acted = {}]
           r == Drained(z, batch, order, answer)
           f == runtime_frame(r, keyboard', order)
           q == runtime_draw(f, shown)[1]
<1>2. IF r.quit THEN app' = r ELSE app' = q
  BY <1>1, Zenon DEF Iteration
<1>3. Calm(z)
  BY Zenon DEF Calm, Running, Parts
<1>4. Calm(r)
  BY <1>3, DrainedCalm, Zenon
<1>5. Calm(f)
  BY <1>4, FrameCalm, Zenon
<1>6. q = runtime_draw(f, shown)[1]
  BY Zenon
<1> HIDE DEF f, r, q
<1>7. /\ Acted(f, q, pong_draw(f.pong, shown)[1], tetris_draw(f.tetris, shown)[1], digit_ui_draw(f.digit, shown)[1])
      /\ q.selected = f.selected
  BY <1>5, <1>6, DrawIs, Zenon DEF Calm
<1> QED
  BY <1>2, <1>4, <1>5, <1>7, Zenon DEF Calm, Running, Acted

\* A key that was down when the screen changed does nothing before it is released: for
\* every set of keys and every player, since such a key stays blocked as long as it is
\* held, and a blocked key neither presses nor counts as held (runtime_event(),
\* runtime_frame()).
THEOREM HeldKeysDoWait == AppsInit /\ [][AppsNext]_appsVars => HeldKeysWait
<1>1. Calm(app) /\ Calm(app)' => (app'.acted \cap app'.stale = {})
  BY Zenon DEF Calm
<1> QED
  BY <1>1, CalmInit, CalmStep, PTL DEF HeldKeysWait

-----------------------------------------------------------------------------
(* Tetris (Apps): boards, pieces and locks. *)

\* Boards, their blocks, and the boards a lock leaves.
Pieces == DOMAIN Shapes
Boards == [Cells -> Nat]
Blocks(b) == {c \in Cells : b[c] # 0}
NoFullRow(b) == \A y \in 0 .. TetrisH - 1 : \E x \in 0 .. TetrisW - 1 : b[<<x, y>>] = 0

\* A board whose surviving rows have come down.
Source(rows, y) == {src \in rows : dest(rows, src) = y}
Packed(b) ==
    LET rows == Survivors(b)
    IN  [c \in Cells |-> IF Source(rows, c[2]) = {} THEN 0 ELSE b[<<c[1], CHOOSE src \in Source(rows, c[2]) : TRUE>>]]

\* What TetrisAssumption says of the board.
LEMMA Size == TetrisW \in Nat \ {0} /\ TetrisH \in Nat \ {0} /\ SpawnX \in Int
BY TetrisAssumption, Zenon

\* The board is finite.
LEMMA CellsFinite ==
    /\ IsFiniteSet(Cells)
    /\ \A Q \in SUBSET Cells : IsFiniteSet(Q) /\ Cardinality(Q) \in Nat
<1>1. TetrisW - 1 \in Int /\ TetrisH - 1 \in Int
  BY Size
<1>2. IsFiniteSet(0 .. TetrisW - 1) /\ IsFiniteSet(0 .. TetrisH - 1)
  BY <1>1, FS_Interval
<1>3. IsFiniteSet(Cells)
  BY <1>2, FS_Product, Zenon DEF Cells
<1> QED
  BY <1>3, FS_Subset, FS_CardinalityType, Zenon

\* Rows keep their order and stay on the board.
LEMMA DestIs ==
    ASSUME NEW rows \in SUBSET (0 .. TetrisH - 1)
    PROVE  /\ \A y \in rows : dest(rows, y) \in 0 .. TetrisH - 1
           /\ \A y, z \in rows : dest(rows, y) = dest(rows, z) => y = z
<1> DEFINE Above(y) == {z \in rows : z > y}
<1>1. IsFiniteSet(rows)
  <2>1. IsFiniteSet(0 .. TetrisH - 1)
    BY Size, FS_Interval
  <2> QED
    BY <2>1, FS_Subset, Zenon
<1>2. \A y \in rows : y \in Nat /\ y <= TetrisH - 1 /\ IsFiniteSet(Above(y)) /\ Cardinality(Above(y)) \in Nat
  BY <1>1, Size, FS_Subset, FS_CardinalityType
<1>3. ASSUME NEW y \in rows PROVE dest(rows, y) \in 0 .. TetrisH - 1
  <2>1. Above(y) \subseteq y + 1 .. TetrisH - 1
    <3> SUFFICES ASSUME NEW q \in rows, q > y PROVE q \in y + 1 .. TetrisH - 1
      BY Zenon
    <3>1. q \in Nat /\ q <= TetrisH - 1 /\ y \in Nat
      BY <1>2, Zenon
    <3> QED
      BY <3>1, Size
  <2>2. IsFiniteSet(y + 1 .. TetrisH - 1) /\ Cardinality(y + 1 .. TetrisH - 1) <= TetrisH - 1 - y
    <3>1. y + 1 \in Int /\ TetrisH - 1 \in Int
      BY <1>2, Size
    <3> QED
      <4> DEFINE a == y + 1
                 d == TetrisH - 1
      <4>1. IsFiniteSet(a .. d) /\ Cardinality(a .. d) = IF a > d THEN 0 ELSE d - a + 1
        <5> HIDE DEF a, d
        <5> QED
          BY <3>1, FS_Interval, Zenon DEF a, d
      <4>2. y \in Nat /\ y <= TetrisH - 1
        BY <1>2, Zenon
      <4> QED
        BY <4>1, <4>2, Size
  <2>3. Cardinality(Above(y)) <= Cardinality(y + 1 .. TetrisH - 1) /\ Cardinality(y + 1 .. TetrisH - 1) \in Nat
    BY <2>1, <2>2, FS_Subset, FS_CardinalityType, Zenon
  <2>4. Cardinality(Above(y)) <= TetrisH - 1 - y
    <3> HIDE DEF Above
    <3> QED
      BY <1>2, <2>2, <2>3, Size
  <2>5. dest(rows, y) = TetrisH - 1 - Cardinality(Above(y))
    BY Zenon DEF dest
  <2> HIDE DEF Above
  <2> QED
    BY <1>2, <2>4, <2>5, Size
<1>4. ASSUME NEW y \in rows, NEW z \in rows, y < z PROVE dest(rows, y) < dest(rows, z)
  <2>1. Above(z) \cup {z} \subseteq Above(y)
    <3>1. \A q \in rows : q > z => q > y
      BY <1>2, <1>4
    <3> QED
      BY <1>4, <3>1, Zenon
  <2>2. Cardinality(Above(z) \cup {z}) = Cardinality(Above(z)) + 1 /\ IsFiniteSet(Above(z) \cup {z})
    <3>1. z \notin Above(z)
      BY <1>2
    <3> QED
      BY <1>2, <3>1, FS_AddElement, Zenon
  <2>3. Cardinality(Above(z) \cup {z}) <= Cardinality(Above(y))
    BY <1>2, <2>1, FS_Subset, Zenon
  <2>4. dest(rows, y) = TetrisH - 1 - Cardinality(Above(y)) /\ dest(rows, z) = TetrisH - 1 - Cardinality(Above(z))
    BY Zenon DEF dest
  <2>5. Cardinality(Above(y)) \in Nat /\ Cardinality(Above(z)) \in Nat
    BY <1>2, Zenon
  <2> HIDE DEF Above
  <2> QED
    BY <2>2, <2>3, <2>4, <2>5, Size
<1>5. ASSUME NEW y \in rows, NEW z \in rows, dest(rows, y) = dest(rows, z) PROVE y = z
  <2>1. y \in Nat /\ z \in Nat /\ dest(rows, y) \in Int /\ dest(rows, z) \in Int
    BY <1>2, <1>3
  <2>2. ~(y < z) /\ ~(z < y)
    <3>1. y < z => dest(rows, y) < dest(rows, z)
      BY <1>4, Zenon
    <3>2. z < y => dest(rows, z) < dest(rows, y)
      BY <1>4, Zenon
    <3> QED
      BY <1>5, <2>1, <3>1, <3>2
  <2> QED
    BY <2>1, <2>2
<1> QED
  BY <1>3, <1>5, Zenon

\* A cell of a packed board.
LEMMA PackedAt ==
    ASSUME NEW b \in Boards
    PROVE  /\ Packed(b) \in Boards
           /\ \A x \in 0 .. TetrisW - 1, src \in Survivors(b) :
                 Packed(b)[<<x, dest(Survivors(b), src)>>] = b[<<x, src>>]
           /\ \A x \in 0 .. TetrisW - 1, y \in 0 .. TetrisH - 1 :
                 (\A src \in Survivors(b) : dest(Survivors(b), src) # y) => Packed(b)[<<x, y>>] = 0
<1> DEFINE rows == Survivors(b)
           Val(c) == IF Source(rows, c[2]) = {} THEN 0 ELSE b[<<c[1], CHOOSE src \in Source(rows, c[2]) : TRUE>>]
<1>1. Packed(b) = [c \in Cells |-> Val(c)]
  BY Zenon DEF Packed
<1>2. rows \in SUBSET (0 .. TetrisH - 1)
  BY Zenon DEF Survivors
<1>3. \A y : Source(rows, y) # {} => (CHOOSE src \in Source(rows, y) : TRUE) \in Source(rows, y)
  BY Zenon
<1>4. \A y : Source(rows, y) \subseteq rows
  BY Zenon DEF Source
<1>5. ASSUME NEW c \in Cells PROVE Val(c) \in Nat
  <2>1. CASE Source(rows, c[2]) = {}
    BY <2>1, Zenon
  <2>2. CASE Source(rows, c[2]) # {}
    <3> DEFINE k == CHOOSE src \in Source(rows, c[2]) : TRUE
    <3>1. k \in 0 .. TetrisH - 1 /\ c[1] \in 0 .. TetrisW - 1
      BY <1>2, <1>3, <1>4, <2>2, Zenon DEF Cells
    <3> HIDE DEF k
    <3>2. b[<<c[1], k>>] \in Nat
      BY <3>1, Zenon DEF Boards, Cells
    <3> QED
      BY <2>2, <3>2, Zenon DEF k
  <2> QED
    BY <2>1, <2>2, Zenon
<1>6. Packed(b) \in Boards
  BY <1>1, <1>5, Zenon DEF Boards
<1>7. ASSUME NEW x \in 0 .. TetrisW - 1, NEW src \in rows PROVE Packed(b)[<<x, dest(rows, src)>>] = b[<<x, src>>]
  <2> DEFINE c == <<x, dest(rows, src)>>
  <2>1. c \in Cells /\ c[1] = x /\ c[2] = dest(rows, src)
    BY <1>2, DestIs, Zenon DEF Cells
  <2>2. Source(rows, dest(rows, src)) = {src}
    <3>1. src \in Source(rows, dest(rows, src))
      BY Zenon DEF Source
    <3>2. ASSUME NEW z \in Source(rows, dest(rows, src)) PROVE z = src
      <4>1. z \in rows /\ dest(rows, z) = dest(rows, src)
        BY <3>2, Zenon DEF Source
      <4> HIDE DEF rows
      <4> QED
        BY <1>2, <4>1, DestIs, Zenon
    <3> HIDE DEF rows
    <3> QED
      BY <3>1, <3>2, Zenon
  <2>3. (CHOOSE s \in Source(rows, dest(rows, src)) : TRUE) = src
    BY <2>2, Zenon
  <2>4. Packed(b)[c] = Val(c)
    BY <1>1, <2>1, Zenon
  <2> HIDE DEF rows
  <2> QED
    BY <2>1, <2>2, <2>3, <2>4, Zenon
<1>8. ASSUME NEW x \in 0 .. TetrisW - 1, NEW y \in 0 .. TetrisH - 1, \A src \in rows : dest(rows, src) # y
      PROVE  Packed(b)[<<x, y>>] = 0
  <2>1. <<x, y>> \in Cells
    BY Zenon DEF Cells
  <2>2. Source(rows, y) = {}
    BY <1>8, Zenon DEF Source
  <2>3. Packed(b)[<<x, y>>] = Val(<<x, y>>)
    BY <1>1, <2>1, Zenon
  <2> HIDE DEF rows
  <2> QED
    BY <2>2, <2>3, Zenon
<1> QED
  BY <1>6, <1>7, <1>8, Zenon

\* A one-to-one image is as large.
LEMMA SameSize ==
    ASSUME NEW P, NEW Q, IsFiniteSet(P), NEW f \in [P -> Q],
           \A a, b \in P : f[a] = f[b] => a = b, \A q \in Q : \E a \in P : f[a] = q
    PROVE  IsFiniteSet(Q) /\ Cardinality(Q) = Cardinality(P)
<1>1. f \in Bijection(P, Q)
  BY Zenon DEF Bijection, Injection, Surjection, IsInjective
<1>2. ExistsBijection(P, Q)
  BY <1>1, Zenon DEF ExistsBijection
<1> QED
  BY <1>2, FS_Bijection, Zenon

\* No full row survives a lock.
LEMMA PackedRows ==
    ASSUME NEW b \in Boards
    PROVE  NoFullRow(Packed(b))
<1> SUFFICES ASSUME NEW y \in 0 .. TetrisH - 1 PROVE \E x \in 0 .. TetrisW - 1 : Packed(b)[<<x, y>>] = 0
  BY Zenon DEF NoFullRow
<1>1. ASSUME NEW src \in Survivors(b), dest(Survivors(b), src) = y
      PROVE  \E x \in 0 .. TetrisW - 1 : Packed(b)[<<x, y>>] = 0
  <2>1. PICK x \in 0 .. TetrisW - 1 : b[<<x, src>>] = 0
    BY Zenon DEF Survivors
  <2>2. Packed(b)[<<x, dest(Survivors(b), src)>>] = b[<<x, src>>]
    BY PackedAt, Zenon
  <2> QED
    BY <1>1, <2>1, <2>2, Zenon
<1>2. CASE \A src \in Survivors(b) : dest(Survivors(b), src) # y
  <2>1. 0 \in 0 .. TetrisW - 1
    BY Size
  <2> QED
    BY <1>2, <2>1, PackedAt, Zenon
<1> QED
  BY <1>1, <1>2, Zenon

\* Blocks leave the board in full rows only.
LEMMA PackedBlocks ==
    ASSUME NEW b \in Boards
    PROVE  /\ Cardinality(Survivors(b)) \in 0 .. TetrisH
           /\ Cardinality(Blocks(Packed(b))) =
                 Cardinality(Blocks(b)) - (TetrisW * (TetrisH - Cardinality(Survivors(b))))
<1> DEFINE rows == Survivors(b)
           all == 0 .. TetrisH - 1
           columns == 0 .. TetrisW - 1
           full == all \ rows
           kept == {c \in Blocks(b) : c[2] \in rows}
           gone == columns \X full
           new == Blocks(Packed(b))
           f == [c \in kept |-> <<c[1], dest(rows, c[2])>>]
<1>1. rows \in SUBSET all
  BY Zenon DEF Survivors
<1>2. /\ IsFiniteSet(all) /\ Cardinality(all) = TetrisH /\ IsFiniteSet(columns) /\ Cardinality(columns) = TetrisW
  <2>1. TetrisH - 1 \in Int /\ TetrisW - 1 \in Int
    BY Size
  <2>2. /\ IsFiniteSet(all) /\ Cardinality(all) = IF 0 > TetrisH - 1 THEN 0 ELSE (TetrisH - 1) - 0 + 1
        /\ IsFiniteSet(columns) /\ Cardinality(columns) = IF 0 > TetrisW - 1 THEN 0 ELSE (TetrisW - 1) - 0 + 1
    BY <2>1, FS_Interval
  <2> HIDE DEF all, columns
  <2> QED
    BY <2>2, Size
<1>3. /\ IsFiniteSet(rows) /\ Cardinality(rows) \in Nat /\ Cardinality(rows) <= TetrisH
      /\ IsFiniteSet(full) /\ Cardinality(full) = TetrisH - Cardinality(rows)
  <2> HIDE DEF all, rows
  <2>1. all \cap rows = rows
    BY <1>1, Zenon
  <2>2. IsFiniteSet(rows) /\ Cardinality(rows) \in Nat /\ Cardinality(rows) <= TetrisH
    BY <1>1, <1>2, FS_Subset, FS_CardinalityType, Zenon
  <2> QED
    <3>1. IsFiniteSet(all \ rows) /\ Cardinality(all \ rows) = Cardinality(all) - Cardinality(all \cap rows)
      BY <1>2, FS_Difference, Zenon
    <3> QED
      BY <1>2, <2>1, <2>2, <3>1, Zenon
<1>4. IsFiniteSet(gone) /\ Cardinality(gone) = TetrisW * (TetrisH - Cardinality(rows))
  <2> HIDE DEF columns, full
  <2>1. IsFiniteSet(gone) /\ Cardinality(gone) = Cardinality(columns) * Cardinality(full)
    BY <1>2, <1>3, FS_Product, Zenon
  <2> QED
    BY <1>2, <1>3, <2>1, Zenon
<1>5. Blocks(b) = kept \cup gone /\ kept \cap gone = {}
  <2>1. ASSUME NEW c \in Blocks(b) PROVE c \in kept \cup gone
    <3>1. c \in Cells /\ c = <<c[1], c[2]>> /\ c[1] \in columns /\ c[2] \in all
      BY DEF Blocks, Cells
    <3> QED
      BY <3>1, Zenon
  <2>2. ASSUME NEW x \in columns, NEW y \in full PROVE <<x, y>> \in Blocks(b) /\ <<x, y>> \notin kept
    <3>1. <<x, y>> \in Cells /\ y \notin rows /\ y \in all
      BY Zenon DEF Cells
    <3>2. b[<<x, y>>] # 0
      BY <3>1, Zenon DEF Survivors
    <3> QED
      BY <3>1, <3>2, Zenon DEF Blocks
  <2>3. gone \subseteq Blocks(b) /\ gone \cap kept = {}
    <3> HIDE DEF columns, full, kept
    <3> QED
      BY <2>2
  <2>4. kept \subseteq Blocks(b)
    BY Zenon
  <2> HIDE DEF kept, gone
  <2> QED
    BY <2>1, <2>3, <2>4, Zenon
<1>6. IsFiniteSet(kept) /\ Cardinality(kept) \in Nat
  <2>1. kept \in SUBSET Cells
    BY Zenon DEF Blocks
  <2> QED
    BY <2>1, CellsFinite, Zenon
<1>7. Cardinality(Blocks(b)) = Cardinality(kept) + (TetrisW * (TetrisH - Cardinality(rows)))
  <2> HIDE DEF kept, gone, rows
  <2>1. Cardinality(kept \cup gone) = Cardinality(kept) + Cardinality(gone) - Cardinality(kept \cap gone)
    BY <1>4, <1>6, FS_Union, Zenon
  <2>2. Cardinality(kept \cap gone) = 0
    BY <1>5, FS_EmptySet, Zenon
  <2>3. Cardinality(gone) \in Nat
    BY <1>4, FS_CardinalityType, Zenon
  <2> QED
    BY <1>4, <1>5, <1>6, <2>1, <2>2, <2>3, SMTT(30)
<1>8. \A c \in kept : c \in Cells /\ c = <<c[1], c[2]>> /\ c[1] \in columns /\ c[2] \in rows /\ b[c] # 0
  BY DEF Blocks, Cells
<1>9. f \in [kept -> new]
  <2> SUFFICES ASSUME NEW c \in kept PROVE <<c[1], dest(rows, c[2])>> \in new
    BY Zenon
  <2>1. c[1] \in columns /\ c[2] \in rows /\ b[<<c[1], c[2]>>] # 0
    BY <1>8, Zenon
  <2>2. <<c[1], dest(rows, c[2])>> \in Cells
    BY <1>1, <2>1, DestIs, Zenon DEF Cells
  <2>3. Packed(b)[<<c[1], dest(rows, c[2])>>] = b[<<c[1], c[2]>>]
    BY <2>1, PackedAt, Zenon
  <2> QED
    BY <2>1, <2>2, <2>3, Zenon DEF Blocks
<1>10. \A c, d \in kept : f[c] = f[d] => c = d
  <2> SUFFICES ASSUME NEW c \in kept, NEW d \in kept, f[c] = f[d] PROVE c = d
    BY Zenon
  <2>1. <<c[1], dest(rows, c[2])>> = <<d[1], dest(rows, d[2])>>
    BY Zenon
  <2>2. c[1] = d[1] /\ dest(rows, c[2]) = dest(rows, d[2])
    BY <2>1, Zenon
  <2>3. c[2] \in rows /\ d[2] \in rows /\ c = <<c[1], c[2]>> /\ d = <<d[1], d[2]>>
    BY <1>8, Zenon
  <2> HIDE DEF rows, kept, f
  <2>4. c[2] = d[2]
    BY <1>1, <2>2, <2>3, DestIs, Zenon DEF all
  <2> QED
    BY <2>2, <2>3, <2>4, Zenon
<1>11. \A q \in new : \E c \in kept : f[c] = q
  <2> SUFFICES ASSUME NEW q \in new PROVE \E c \in kept : f[c] = q
    BY Zenon
  <2>1. q \in Cells /\ Packed(b)[q] # 0 /\ q = <<q[1], q[2]>> /\ q[1] \in columns /\ q[2] \in all
    BY DEF Blocks, Cells
  <2>2. PICK src \in rows : dest(rows, src) = q[2]
    BY <2>1, PackedAt
  <2> DEFINE c == <<q[1], src>>
  <2>3. Packed(b)[<<q[1], dest(rows, src)>>] = b[c]
    BY <2>1, <2>2, PackedAt, Zenon
  <2>4. b[c] # 0
    BY <2>1, <2>2, <2>3, Zenon
  <2>5. c \in Cells
    BY <1>1, <2>1, Zenon DEF Cells
  <2>6. c \in kept
    BY <2>4, <2>5, Zenon DEF Blocks
  <2>7. f[c] = q
    <3>1. f[c] = <<c[1], dest(rows, c[2])>>
      BY <2>6, Zenon
    <3> HIDE DEF f
    <3> QED
      BY <2>1, <2>2, <3>1, Zenon
  <2> QED
    BY <2>6, <2>7, Zenon
<1>12. Cardinality(new) = Cardinality(kept)
  <2> HIDE DEF f, kept, new
  <2> QED
    BY <1>6, <1>9, <1>10, <1>11, SameSize, Zenon
<1>13. TetrisW * (TetrisH - Cardinality(rows)) \in Int
  <2> HIDE DEF rows
  <2> QED
    BY <1>3, Size
<1> HIDE DEF new, kept, rows
<1>14. Cardinality(new) = Cardinality(Blocks(b)) - (TetrisW * (TetrisH - Cardinality(rows)))
  BY <1>6, <1>7, <1>12, <1>13
<1>15. Cardinality(rows) \in 0 .. TetrisH
  BY <1>3, Size
<1> QED
  BY <1>14, <1>15, Zenon DEF new, rows

\* The fields of a game.
TetrisParts == {"board", "drawn", "bag", "piece", "next", "rotation", "x", "y", "gravity", "repeat", "direction",
                "score", "lines", "phase", "dirty", "text", "placed"}

\* A game, its board, and where its piece lies.
Game(t) ==
    /\ DOMAIN t = TetrisParts
    /\ t.board \in Boards /\ t.bag \in Seq(Pieces) /\ t.piece \in Pieces /\ t.next \in Pieces
    /\ t.rotation \in 0 .. 3 /\ t.x \in Int /\ t.y \in Int /\ t.lines \in Nat /\ t.placed \in Nat
Counted(t) ==
    /\ NoFullRow(t.board)
    /\ Cardinality(Blocks(t.board)) = t.placed - (TetrisW * t.lines)
Lies(t) == tetris_fits(t, t.x, t.y, t.rotation)
Sound(t) == Game(t) /\ Counted(t) /\ (t.phase # "over" => Lies(t))

\* The bag is never empty when a piece is taken.
LEMMA BagIs ==
    ASSUME NEW bag \in Seq(Pieces), NEW order \in BagOrders
    PROVE  Head(take_piece(bag, order)) \in Pieces /\ Tail(take_piece(bag, order)) \in Seq(Pieces)
<1>1. order \in Seq(Pieces) /\ order # <<>>
  BY TetrisAssumption, Zenon DEF Pieces
<1>2. take_piece(bag, order) \in Seq(Pieces) /\ take_piece(bag, order) # <<>>
  BY <1>1, Zenon DEF take_piece
<1> QED
  BY <1>2

\* Whether a piece fits depends on the piece and the board.
LEMMA SameFit ==
    ASSUME NEW t, NEW s, s.piece = t.piece, s.board = t.board, NEW x, NEW y, NEW rotation
    PROVE  tetris_fits(s, x, y, rotation) <=> tetris_fits(t, x, y, rotation)
BY Zenon DEF tetris_fits

\* A new piece lies on free cells, or the game is over.
LEMMA SpawnSound ==
    ASSUME NEW t, Game(t), Counted(t), NEW order \in BagOrders
    PROVE  Sound(spawn(t, order)) /\ spawn(t, order).placed = t.placed
<1> DEFINE bag == take_piece(t.bag, order)
           s == [t EXCEPT !.piece = t.next, !.next = Head(bag), !.bag = Tail(bag), !.rotation = 0,
                          !.x = SpawnX, !.y = 0, !.gravity = 0, !.repeat = 0, !.direction = 0]
           v == [s EXCEPT !.phase = "over"]
<1>1. Head(bag) \in Pieces /\ Tail(bag) \in Seq(Pieces) /\ SpawnX \in Int
  BY BagIs, Size, Zenon DEF Game
<1> HIDE DEF bag
<1>2. /\ Game(s) /\ s.board = t.board /\ s.placed = t.placed /\ s.lines = t.lines /\ s.rotation = 0
      /\ Game(v) /\ v.board = t.board /\ v.placed = t.placed /\ v.lines = t.lines /\ v.phase = "over"
  <2>1. /\ DOMAIN s = TetrisParts /\ s.board = t.board /\ s.placed = t.placed /\ s.lines = t.lines /\ s.rotation = 0
        /\ s.bag = Tail(bag) /\ s.piece = t.next /\ s.next = Head(bag) /\ s.x = SpawnX /\ s.y = 0
    BY Zenon DEF Game, TetrisParts
  <2> HIDE DEF s
  <2>2. Game(s)
    BY <1>1, <2>1 DEF Game
  <2>3. /\ DOMAIN v = TetrisParts /\ v.board = s.board /\ v.placed = s.placed /\ v.lines = s.lines
        /\ v.rotation = s.rotation /\ v.bag = s.bag /\ v.piece = s.piece /\ v.next = s.next /\ v.x = s.x /\ v.y = s.y
        /\ v.phase = "over"
    BY <2>1, Zenon DEF TetrisParts
  <2> HIDE DEF v
  <2>4. Game(v)
    BY <2>2, <2>3, Zenon DEF Game
  <2> QED
    BY <2>1, <2>2, <2>3, <2>4, Zenon
<1>3. spawn(t, order) = IF tetris_fits(s, s.x, s.y, 0) THEN s ELSE v
  BY Zenon DEF spawn, bag
<1> HIDE DEF s, v
<1>4. Counted(s) /\ Counted(v)
  BY <1>2, Zenon DEF Counted
<1>5. tetris_fits(s, s.x, s.y, 0) => Lies(s)
  BY <1>2, Zenon DEF Lies
<1>6. tetris_fits(s, s.x, s.y, 0) => Sound(s)
  BY <1>2, <1>4, <1>5, Zenon DEF Sound
<1>7. Sound(v)
  BY <1>2, <1>4, Zenon DEF Sound
<1> QED
  BY <1>2, <1>3, <1>6, <1>7, Zenon

\* A new game is sound.
LEMMA InitSound ==
    ASSUME NEW order \in BagOrders
    PROVE  Sound(tetris_init(order))
<1> DEFINE b == [c \in Cells |-> 0]
           t == [board |-> b, drawn |-> [c \in Cells |-> 0], bag |-> Tail(order),
                 piece |-> Head(order), next |-> Head(order), rotation |-> 0, x |-> 0, y |-> 0,
                 gravity |-> 0, repeat |-> 0, direction |-> 0, score |-> 0, lines |-> 0, phase |-> "play",
                 dirty |-> TRUE, text |-> <<>>, placed |-> 0]
<1>1. Head(order) \in Pieces /\ Tail(order) \in Seq(Pieces)
  BY TetrisAssumption DEF Pieces
<1>2. b \in Boards /\ Blocks(b) = {}
  BY Zenon DEF Boards, Blocks
<1>3. NoFullRow(b)
  <2>1. 0 \in 0 .. TetrisW - 1
    BY Size
  <2> QED
    BY <2>1, Zenon DEF NoFullRow, Cells
<1>4. Cardinality(Blocks(b)) = 0
  BY <1>2, FS_EmptySet, Zenon
<1>5. tetris_init(order) = spawn(t, order)
  BY Zenon DEF tetris_init
<1> HIDE DEF b
<1>6. Game(t)
  BY <1>1, <1>2 DEF Game, TetrisParts
<1>7. Counted(t)
  BY <1>3, <1>4, Size DEF Counted
<1> HIDE DEF t
<1> QED
  BY <1>5, <1>6, <1>7, SpawnSound, Zenon

\* The cells of a piece.
LEMMA PieceCells ==
    ASSUME NEW t, Game(t), NEW x \in Int, NEW y \in Int, NEW rotation \in 0 .. 3
    PROVE  LET shape == Shapes[t.piece][rotation + 1]
               cells == PieceAt(t.piece, x, y, rotation)
           IN  /\ shape # {} /\ IsFiniteSet(shape) /\ Cardinality(shape) \in Nat
               /\ IsFiniteSet(cells) /\ Cardinality(cells) = Cardinality(shape)
               /\ \A c \in cells : c[2] \in y .. y + 3
               /\ cells # {}
<1> DEFINE shape == Shapes[t.piece][rotation + 1]
           cells == PieceAt(t.piece, x, y, rotation)
           f == [c \in shape |-> <<x + c[1], y + c[2]>>]
<1>1. t.piece \in DOMAIN Shapes /\ rotation + 1 \in 1 .. 4
  BY DEF Game, Pieces
<1>2. shape # {} /\ IsFiniteSet(shape) /\ \A c \in shape : c \in Nat \X (0 .. 3)
  BY <1>1, TetrisAssumption, Zenon
<1>3. cells = {<<x + c[1], y + c[2]>> : c \in shape}
  BY Zenon DEF PieceAt
<1> HIDE DEF shape
<1>4. \A c \in shape : c[1] \in Int /\ c[2] \in 0 .. 3 /\ c = <<c[1], c[2]>>
  BY <1>2
<1> HIDE DEF cells
<1>5. f \in [shape -> cells] /\ \A q \in cells : \E c \in shape : f[c] = q
  BY <1>3, Zenon
<1>6. \A c, d \in shape : f[c] = f[d] => c = d
  <2> SUFFICES ASSUME NEW c \in shape, NEW d \in shape, f[c] = f[d] PROVE c = d
    BY Zenon
  <2>1. <<x + c[1], y + c[2]>> = <<x + d[1], y + d[2]>>
    BY Zenon
  <2>2. x + c[1] = x + d[1] /\ y + c[2] = y + d[2]
    BY <2>1, Zenon
  <2>3. c[1] = d[1] /\ c[2] = d[2]
    BY <1>4, <2>2
  <2> QED
    BY <1>4, <2>3, Zenon
<1> HIDE DEF f
<1>7. IsFiniteSet(cells) /\ Cardinality(cells) = Cardinality(shape) /\ Cardinality(shape) \in Nat
  BY <1>2, <1>5, <1>6, SameSize, FS_CardinalityType, Zenon
<1>8. \A c \in cells : c[2] \in y .. y + 3
  BY <1>3, <1>4
<1>9. cells # {}
  BY <1>2, <1>3, Zenon
<1> QED
  BY <1>2, <1>7, <1>8, <1>9, Zenon DEF shape, cells

\* The board with the piece put down.
Filled(t) == [c \in Cells |-> IF c \in PieceAt(t.piece, t.x, t.y, t.rotation) THEN t.piece ELSE t.board[c]]

\* A piece put down adds its blocks.
LEMMA FilledIs ==
    ASSUME NEW t, Game(t), Lies(t)
    PROVE  /\ Filled(t) \in Boards
           /\ Cardinality(Blocks(Filled(t))) =
                 Cardinality(Blocks(t.board)) + Cardinality(Shapes[t.piece][t.rotation + 1])
<1> DEFINE cells == PieceAt(t.piece, t.x, t.y, t.rotation)
           shape == Shapes[t.piece][t.rotation + 1]
           old == Blocks(t.board)
<1>1. t.x \in Int /\ t.y \in Int /\ t.rotation \in 0 .. 3 /\ t.board \in Boards /\ t.piece \in Nat /\ t.piece # 0
  BY TetrisAssumption, Zenon DEF Game, Pieces
<1>2. /\ IsFiniteSet(shape) /\ Cardinality(shape) \in Nat
      /\ IsFiniteSet(cells) /\ Cardinality(cells) = Cardinality(shape)
  BY <1>1, PieceCells, Zenon
<1>3. cells \subseteq Cells /\ \A c \in cells : t.board[c] = 0
  BY Zenon DEF Lies, tetris_fits
<1>4. old \in SUBSET Cells
  BY Zenon DEF Blocks
<1>5. IsFiniteSet(old) /\ Cardinality(old) \in Nat
  BY <1>4, CellsFinite, Zenon
<1> HIDE DEF cells, shape
<1>6. Filled(t) = [c \in Cells |-> IF c \in cells THEN t.piece ELSE t.board[c]]
  BY Zenon DEF Filled, cells
<1>7. Filled(t) \in Boards
  BY <1>1, <1>6, Zenon DEF Boards
<1>8. Blocks(Filled(t)) = old \cup cells
  BY <1>1, <1>3, <1>6, Zenon DEF Blocks
<1>9. old \cap cells = {}
  BY <1>3, Zenon DEF Blocks
<1> HIDE DEF old
<1>10. Cardinality(old \cup cells) = Cardinality(old) + Cardinality(cells) - Cardinality(old \cap cells)
  BY <1>2, <1>5, FS_Union, Zenon
<1>11. Cardinality(old \cap cells) = 0
  BY <1>9, FS_EmptySet, Zenon
<1>12. Cardinality(Blocks(Filled(t))) = Cardinality(old) + Cardinality(shape)
  BY <1>2, <1>5, <1>8, <1>10, <1>11, SMTT(30)
<1> QED
  BY <1>7, <1>12, Zenon DEF old, shape

\* A lock takes out full rows and nothing else.
LEMMA LockSound ==
    ASSUME NEW t, Game(t), Counted(t), Lies(t), NEW order \in BagOrders
    PROVE  Sound(lock_piece(t, order))
<1> DEFINE b == Filled(t)
           rows == Survivors(b)
           cleared == TetrisH - Cardinality(rows)
           shape == Shapes[t.piece][t.rotation + 1]
           u == [t EXCEPT !.board = Packed(b), !.score = @ + Points[cleared + 1], !.lines = @ + cleared,
                          !.placed = @ + Cardinality(shape)]
<1>1. lock_piece(t, order) = spawn(u, order)
  BY Zenon DEF lock_piece, Filled, Packed, Source
<1>2. /\ b \in Boards /\ Cardinality(Blocks(b)) = Cardinality(Blocks(t.board)) + Cardinality(shape)
  BY FilledIs, Zenon
<1>3. Cardinality(shape) \in Nat
  BY PieceCells, Zenon DEF Game
<1>4. /\ Packed(b) \in Boards /\ NoFullRow(Packed(b)) /\ Cardinality(rows) \in 0 .. TetrisH
      /\ Cardinality(Blocks(Packed(b))) = Cardinality(Blocks(b)) - (TetrisW * cleared)
  BY <1>2, PackedAt, PackedRows, PackedBlocks, Zenon
<1>5. cleared \in Nat
  <2> HIDE DEF rows
  <2> QED
    BY <1>4, Size
<1> HIDE DEF b, rows, cleared, shape
<1>6. /\ u.board = Packed(b) /\ u.lines = t.lines + cleared /\ u.placed = t.placed + Cardinality(shape)
      /\ DOMAIN u = TetrisParts /\ u.bag = t.bag /\ u.piece = t.piece /\ u.next = t.next
      /\ u.rotation = t.rotation /\ u.x = t.x /\ u.y = t.y
  BY Zenon DEF Game, TetrisParts
<1> HIDE DEF u
<1>7. Game(u)
  BY <1>3, <1>4, <1>5, <1>6 DEF Game
<1>8. Counted(u)
  <2>1. t.placed \in Nat /\ t.lines \in Nat /\ Cardinality(Blocks(t.board)) = t.placed - (TetrisW * t.lines)
    BY Zenon DEF Game, Counted
  <2>2. TetrisW * (t.lines + cleared) = (TetrisW * t.lines) + (TetrisW * cleared)
        /\ TetrisW * t.lines \in Int /\ TetrisW * cleared \in Int
    BY <1>5, <2>1, Size
  <2>3. Cardinality(Blocks(u.board)) = u.placed - (TetrisW * u.lines)
    BY <1>2, <1>3, <1>4, <1>6, <2>1, <2>2
  <2> QED
    BY <1>4, <1>6, <2>3, Zenon DEF Counted
<1> QED
  BY <1>1, <1>7, <1>8, SpawnSound, Zenon

\* A step that changes neither the board nor the piece, and moves it where it fits.
LEMMA MoveSound ==
    ASSUME NEW t, Sound(t), NEW u, DOMAIN u = TetrisParts,
           u.board = t.board, u.bag = t.bag, u.piece = t.piece, u.next = t.next,
           u.lines = t.lines, u.placed = t.placed,
           u.x \in Int, u.y \in Int, u.rotation \in 0 .. 3,
           u.phase # "over" => tetris_fits(t, u.x, u.y, u.rotation)
    PROVE  Sound(u)
<1>1. Game(u) /\ Counted(u)
  BY Zenon DEF Sound, Game, Counted
<1>2. u.phase # "over" => Lies(u)
  BY SameFit, Zenon DEF Lies
<1> QED
  BY <1>1, <1>2, Zenon DEF Sound

\* SPACE: the lowest row the piece falls to without a gap.
LEMMA Deepest ==
    ASSUME NEW t, Game(t), Lies(t)
    PROVE  LET deep == {y \in t.y .. TetrisH : \A z \in t.y + 1 .. y : tetris_fits(t, t.x, z, t.rotation)}
               y == CHOOSE d \in deep : \A z \in deep : z <= d
           IN  y \in Int /\ tetris_fits(t, t.x, y, t.rotation)
<1> DEFINE deep == {y \in t.y .. TetrisH : \A z \in t.y + 1 .. y : tetris_fits(t, t.x, z, t.rotation)}
           y == CHOOSE d \in deep : \A z \in deep : z <= d
           T == {n \in Nat : TetrisH - n \in deep}
<1>1. t.x \in Int /\ t.y \in Int /\ t.rotation \in 0 .. 3 /\ TetrisH \in Nat
  BY Size, Zenon DEF Game
<1>2. t.y <= TetrisH
  <2> DEFINE cells == PieceAt(t.piece, t.x, t.y, t.rotation)
  <2>1. cells # {} /\ \A c \in cells : c[2] \in t.y .. t.y + 3
    BY <1>1, PieceCells, Zenon
  <2>2. cells \subseteq Cells
    BY Zenon DEF Lies, tetris_fits
  <2>3. PICK c \in cells : TRUE
    BY <2>1, Zenon
  <2> HIDE DEF cells
  <2>4. c[2] \in t.y .. t.y + 3 /\ c[2] \in 0 .. TetrisH - 1
    BY <2>1, <2>2, <2>3, Zenon DEF Cells
  <2> QED
    BY <1>1, <2>4
<1>3. t.y \in deep
  BY <1>1, <1>2
<1>4. \A d \in deep : d \in Int /\ t.y <= d /\ d <= TetrisH
  BY <1>1
<1>5. \A d \in deep : d = t.y \/ d \in t.y + 1 .. d
  BY <1>1, <1>4
<1>6. \A d \in deep : tetris_fits(t, t.x, d, t.rotation)
  BY <1>5, Zenon DEF Lies
<1> HIDE DEF deep
<1>7. T \in SUBSET Nat /\ T # {}
  <2>1. TetrisH - t.y \in Nat /\ TetrisH - (TetrisH - t.y) = t.y
    BY <1>1, <1>2
  <2> QED
    BY <1>3, <2>1, Zenon
<1>8. PICK n \in T : \A m \in T : n <= m
  <2> HIDE DEF T
  <2> QED
    BY <1>7, LeastNat, Zenon
<1>9. TetrisH - n \in deep /\ \A z \in deep : z <= TetrisH - n
  <2>1. n \in Nat /\ TetrisH - n \in deep
    BY <1>8, Zenon
  <2>2. ASSUME NEW z \in deep PROVE z <= TetrisH - n
    <3>1. TetrisH - z \in Nat /\ TetrisH - (TetrisH - z) = z
      BY <1>1, <1>4
    <3>2. TetrisH - z \in T
      BY <3>1, Zenon
    <3>3. n <= TetrisH - z
      BY <1>8, <3>2, Zenon
    <3> QED
      BY <1>1, <1>4, <2>1, <3>3
  <2> QED
    BY <2>1, <2>2, Zenon
<1>10. y \in deep
  BY <1>9, Zenon
<1> HIDE DEF y
<1>11. y \in Int /\ tetris_fits(t, t.x, y, t.rotation)
  BY <1>4, <1>6, <1>10, Zenon
<1> QED
  BY <1>11, Zenon DEF y, deep

\* A key moves the piece where it fits, locks it, or starts again.
LEMMA EventSound ==
    ASSUME NEW t, Sound(t), NEW key, NEW order \in BagOrders
    PROVE  Sound(tetris_event(t, key, order))
<1> DEFINE turned == (t.rotation + 1) % 4
           deep == {y \in t.y .. TetrisH : \A z \in t.y + 1 .. y : tetris_fits(t, t.x, z, t.rotation)}
           y == CHOOSE d \in deep : \A z \in deep : z <= d
           paused == [t EXCEPT !.phase = IF @ = "play" THEN "paused" ELSE "play"]
           turn == [t EXCEPT !.rotation = turned]
           down == [t EXCEPT !.y = y]
           ans == tetris_event(t, key, order)
<1>1. /\ DOMAIN t = TetrisParts /\ t.x \in Int /\ t.y \in Int /\ t.rotation \in 0 .. 3 /\ turned \in 0 .. 3
      /\ t.phase # "over" => tetris_fits(t, t.x, t.y, t.rotation)
  BY DEF Sound, Game, Lies
<1>2. \/ ans = tetris_init(order)
      \/ t.phase # "over" /\ ans = paused
      \/ tetris_fits(t, t.x, t.y, turned) /\ ans = turn
      \/ t.phase = "play" /\ ans = lock_piece(down, order)
      \/ ans = t
  <2>1. CASE key = "r"
    BY <2>1, Zenon DEF tetris_event
  <2>2. CASE key = "p" /\ t.phase # "over"
    BY <2>2, Zenon DEF tetris_event
  <2>3. CASE key = "up" /\ t.phase = "play" /\ tetris_fits(t, t.x, t.y, turned)
    BY <2>3, Zenon DEF tetris_event
  <2>4. CASE key = "space" /\ t.phase = "play"
    BY <2>4, Zenon DEF tetris_event
  <2>5. CASE /\ ~(key = "r") /\ ~(key = "p" /\ t.phase # "over")
             /\ ~(key = "up" /\ t.phase = "play" /\ tetris_fits(t, t.x, t.y, turned))
             /\ ~(key = "space" /\ t.phase = "play")
    BY <2>5, Zenon DEF tetris_event
  <2> QED
    BY <2>1, <2>2, <2>3, <2>4, <2>5, Zenon
<1> HIDE DEF ans, turned
<1>3. ASSUME ans = tetris_init(order) PROVE Sound(ans)
  BY <1>3, InitSound, Zenon
<1>4. ASSUME t.phase # "over" /\ ans = paused PROVE Sound(ans)
  <2>1. /\ DOMAIN paused = TetrisParts /\ paused.board = t.board /\ paused.bag = t.bag /\ paused.piece = t.piece
        /\ paused.next = t.next /\ paused.lines = t.lines /\ paused.placed = t.placed
        /\ paused.x = t.x /\ paused.y = t.y /\ paused.rotation = t.rotation
    BY <1>1, Zenon DEF TetrisParts
  <2> HIDE DEF paused
  <2> QED
    BY <1>1, <1>4, <2>1, MoveSound, Zenon
<1>5. ASSUME tetris_fits(t, t.x, t.y, turned) /\ ans = turn PROVE Sound(ans)
  <2>1. /\ DOMAIN turn = TetrisParts /\ turn.board = t.board /\ turn.bag = t.bag /\ turn.piece = t.piece
        /\ turn.next = t.next /\ turn.lines = t.lines /\ turn.placed = t.placed
        /\ turn.x = t.x /\ turn.y = t.y /\ turn.rotation = turned
    BY <1>1, Zenon DEF TetrisParts
  <2> HIDE DEF turn
  <2> QED
    BY <1>1, <1>5, <2>1, MoveSound, Zenon
<1>6. ASSUME t.phase = "play" /\ ans = lock_piece(down, order) PROVE Sound(ans)
  <2>1. y \in Int /\ tetris_fits(t, t.x, y, t.rotation)
    <3>1. Game(t) /\ Lies(t)
      BY <1>6, Zenon DEF Sound
    <3> QED
      BY <3>1, Deepest, Zenon
  <2> HIDE DEF y
  <2>2. /\ DOMAIN down = TetrisParts /\ down.board = t.board /\ down.bag = t.bag /\ down.piece = t.piece
        /\ down.next = t.next /\ down.lines = t.lines /\ down.placed = t.placed
        /\ down.x = t.x /\ down.y = y /\ down.rotation = t.rotation /\ down.phase = t.phase
    BY <1>1, Zenon DEF TetrisParts
  <2> HIDE DEF down
  <2>3. Sound(down)
    BY <1>1, <2>1, <2>2, MoveSound, Zenon
  <2>4. Game(down) /\ Counted(down) /\ Lies(down)
    BY <1>6, <2>2, <2>3, Zenon DEF Sound
  <2> QED
    BY <1>6, <2>4, LockSound, Zenon
<1>7. Sound(ans)
  BY <1>2, <1>3, <1>4, <1>5, <1>6, Zenon
<1> QED
  BY <1>7, Zenon DEF ans

\* So does a frame.
LEMMA FrameSound ==
    ASSUME NEW t, Sound(t), NEW keys, NEW order \in BagOrders
    PROVE  Sound(tetris_frame(t, keys, order))
<1> DEFINE On(k) == IF k \in keys THEN 1 ELSE 0
           dir == On("right") - On("left")
           again == dir = t.direction /\ dir # 0 /\ t.repeat + 1 = RepeatAt
           move == dir # t.direction \/ again
           side == IF move /\ dir # 0 /\ tetris_fits(t, t.x + dir, t.y, t.rotation) THEN t.x + dir ELSE t.x
           m == [t EXCEPT !.direction = dir, !.x = side,
                          !.repeat = IF dir # t.direction THEN 0 ELSE IF again THEN RepeatTo
                                     ELSE IF dir # 0 THEN @ + 1 ELSE @]
           falls == t.gravity + 1 >= (IF "down" \in keys THEN FastFall ELSE SlowFall)
           stay == [m EXCEPT !.gravity = @ + 1]
           fall == [m EXCEPT !.gravity = 0, !.y = @ + 1]
           land == [m EXCEPT !.gravity = 0]
           ans == tetris_frame(t, keys, order)
<1>1. ans = IF t.phase # "play" THEN t
            ELSE IF ~falls THEN stay
            ELSE IF tetris_fits(m, m.x, m.y + 1, m.rotation) THEN fall
            ELSE lock_piece(land, order)
  BY Zenon DEF tetris_frame
<1> HIDE DEF ans, falls
<1>2. CASE t.phase # "play"
  <2>1. ans = t
    BY <1>1, <1>2, Zenon
  <2> QED
    BY <2>1, Zenon DEF ans
<1>3. CASE t.phase = "play"
  <2>1. /\ DOMAIN t = TetrisParts /\ t.x \in Int /\ t.y \in Int /\ t.rotation \in 0 .. 3
        /\ tetris_fits(t, t.x, t.y, t.rotation)
    BY <1>3, Zenon DEF Sound, Game, Lies
  <2>2. dir \in Int
    OBVIOUS
  <2> HIDE DEF dir
  <2>3. side \in Int /\ tetris_fits(t, side, t.y, t.rotation)
    <3> HIDE DEF move
    <3> QED
      BY <2>1, <2>2
  <2> HIDE DEF side, again
  <2>4. /\ DOMAIN m = TetrisParts /\ m.board = t.board /\ m.bag = t.bag /\ m.piece = t.piece
        /\ m.next = t.next /\ m.lines = t.lines /\ m.placed = t.placed
        /\ m.x = side /\ m.y = t.y /\ m.rotation = t.rotation /\ m.phase = t.phase
    BY <2>1, Zenon DEF TetrisParts
  <2> HIDE DEF m
  <2>5. Sound(m)
    BY <2>1, <2>3, <2>4, MoveSound, Zenon
  <2>6. /\ m.x \in Int /\ m.y \in Int /\ m.rotation \in 0 .. 3 /\ tetris_fits(m, m.x, m.y, m.rotation)
    BY <1>3, <2>4, <2>5, Zenon DEF Sound, Game, Lies
  <2>7. Sound(stay)
    <3>1. /\ DOMAIN stay = TetrisParts /\ stay.board = m.board /\ stay.bag = m.bag /\ stay.piece = m.piece
          /\ stay.next = m.next /\ stay.lines = m.lines /\ stay.placed = m.placed
          /\ stay.x = m.x /\ stay.y = m.y /\ stay.rotation = m.rotation
      BY <2>4, Zenon DEF TetrisParts
    <3> HIDE DEF stay
    <3> QED
      BY <2>5, <2>6, <3>1, MoveSound, Zenon
  <2>8. tetris_fits(m, m.x, m.y + 1, m.rotation) => Sound(fall)
    <3>1. /\ DOMAIN fall = TetrisParts /\ fall.board = m.board /\ fall.bag = m.bag /\ fall.piece = m.piece
          /\ fall.next = m.next /\ fall.lines = m.lines /\ fall.placed = m.placed
          /\ fall.x = m.x /\ fall.y = m.y + 1 /\ fall.rotation = m.rotation
      BY <2>4, Zenon DEF TetrisParts
    <3>2. m.y + 1 \in Int
      BY <2>6
    <3> HIDE DEF fall
    <3> QED
      BY <2>5, <2>6, <3>1, <3>2, MoveSound, Zenon
  <2>9. Sound(lock_piece(land, order))
    <3>1. /\ DOMAIN land = TetrisParts /\ land.board = m.board /\ land.bag = m.bag /\ land.piece = m.piece
          /\ land.next = m.next /\ land.lines = m.lines /\ land.placed = m.placed
          /\ land.x = m.x /\ land.y = m.y /\ land.rotation = m.rotation /\ land.phase = m.phase
      BY <2>4, Zenon DEF TetrisParts
    <3> HIDE DEF land
    <3>2. Sound(land)
      BY <2>5, <2>6, <3>1, MoveSound, Zenon
    <3>3. Game(land) /\ Counted(land) /\ Lies(land)
      BY <1>3, <2>4, <3>1, <3>2, Zenon DEF Sound
    <3> QED
      BY <3>3, LockSound, Zenon
  <2>10. ans = stay \/ (tetris_fits(m, m.x, m.y + 1, m.rotation) /\ ans = fall) \/ ans = lock_piece(land, order)
    BY <1>1, <1>3, Zenon
  <2> HIDE DEF stay, fall, land
  <2>11. Sound(ans)
    BY <2>7, <2>8, <2>9, <2>10, Zenon
  <2> QED
    BY <2>11, Zenon DEF ans
<1> QED
  BY <1>2, <1>3, Zenon

\* Drawing changes no game.
LEMMA DrawSound ==
    ASSUME NEW t, Sound(t), NEW s
    PROVE  Sound(tetris_draw(t, s)[1])
<1> DEFINE ans == tetris_draw(t, s)[1]
<1>1. \E cells, text : ans = [t EXCEPT !.drawn = cells, !.text = text, !.dirty = FALSE]
  BY Zenon DEF tetris_draw
<1> HIDE DEF ans
<1>2. DOMAIN t = TetrisParts
  BY Zenon DEF Sound, Game
<1>3. /\ DOMAIN ans = TetrisParts /\ ans.board = t.board /\ ans.bag = t.bag /\ ans.piece = t.piece
      /\ ans.next = t.next /\ ans.lines = t.lines /\ ans.placed = t.placed
      /\ ans.x = t.x /\ ans.y = t.y /\ ans.rotation = t.rotation /\ ans.phase = t.phase
  BY <1>1, <1>2, Zenon DEF TetrisParts
<1>4. /\ t.x \in Int /\ t.y \in Int /\ t.rotation \in 0 .. 3
      /\ t.phase # "over" => tetris_fits(t, t.x, t.y, t.rotation)
  BY Zenon DEF Sound, Game, Lies
<1>5. Sound(ans)
  BY <1>3, <1>4, MoveSound, Zenon
<1> QED
  BY <1>5, Zenon DEF ans

-----------------------------------------------------------------------------
(* Tetris in the runtime. *)

\* The runtime with a sound game of Tetris, on the screen or not.
Whole(r) == Running(r) /\ Sound(r.tetris)

\* Only Tetris changes its game.
LEMMA EventWhole ==
    ASSUME NEW r, Whole(r), NEW e, NEW order \in BagOrders, NEW answer
    PROVE  Whole(runtime_event(r, e, order, answer))
<1> DEFINE q == runtime_event(r, e, order, answer)
<1>1. Running(r) /\ Sound(r.tetris) /\ q = runtime_event(r, e, order, answer)
  BY Zenon DEF Whole
<1> HIDE DEF q
<1>2. Noted(r, e, q) => Whole(q)
  BY <1>1, Zenon DEF Noted, Whole, Running, Kept
<1>3. ASSUME Turned(r, q, order) PROVE Whole(q)
  <2>1. PICK b : \E screen \in Screens :
           Kept(r, b) /\ b.acted = {} /\ b.stale = Keys /\ q = change_screen(b, screen, order)
    BY <1>3, Zenon DEF Turned
  <2>2. PICK screen \in Screens : q = change_screen(b, screen, order)
    BY <2>1, Zenon
  <2>3. Changed(b, q, screen, order)
    BY <2>1, <2>2, ScreenIs, Zenon DEF Kept
  <2>4. Sound(tetris_init(order))
    BY InitSound, Zenon
  <2> QED
    BY <1>1, <2>1, <2>3, <2>4, Zenon DEF Whole, Running, Kept, Changed
<1>4. ASSUME Entered(r, e, q, order, answer) PROVE Whole(q)
  <2>1. PICK a : Kept(r, a) /\ q = Pressed(a, e.key, order, answer)
    BY <1>4, Zenon DEF Entered
  <2>2. Running(a)
    BY <1>1, <2>1, Zenon DEF Running, Kept
  <2>3. Answered(a, q, e.key, order, answer)
    BY <2>1, <2>2, PressedIs, Zenon
  <2>4. Sound(a.tetris) /\ Sound(tetris_event(a.tetris, e.key, order))
    BY <1>1, <2>1, EventSound, Zenon DEF Kept
  <2> QED
    BY <2>2, <2>3, <2>4, Zenon DEF Whole, Running, Answered, Acted
<1>5. Whole(q)
  BY <1>1, <1>2, <1>3, <1>4, EventIs, Zenon
<1> QED
  BY <1>5, Zenon DEF q

\* A batch of events keeps the game sound.
LEMMA DrainedWhole ==
    ASSUME NEW r, Whole(r), NEW batch \in Batches, NEW order \in BagOrders, NEW answer
    PROVE  Whole(Drained(r, batch, order, answer))
<1> DEFINE ans == Drained(r, batch, order, answer)
<1>1. \/ ans = r
      \/ \E e : ans = runtime_event(r, e, order, answer)
      \/ \E e, f : ans = runtime_event(runtime_event(r, e, order, answer), f, order, answer)
  BY DrainedIs, Zenon
<1>2. \A q, e : Whole(q) => Whole(runtime_event(q, e, order, answer))
  BY EventWhole, Zenon
<1> HIDE DEF ans
<1>3. Whole(ans)
  BY <1>1, <1>2, Zenon
<1> QED
  BY <1>3, Zenon DEF ans

\* A frame keeps the game sound.
LEMMA FrameWhole ==
    ASSUME NEW r, Whole(r), NEW keysHeld, NEW order \in BagOrders
    PROVE  Whole(runtime_frame(r, keysHeld, order))
<1> DEFINE q == runtime_frame(r, keysHeld, order)
           keys == keysHeld \ StillBlocked(r.blocked, keysHeld)
<1>1. PICK o : Advanced(r, o, keysHeld, order) /\ (q = o \/ Left(o, q, keysHeld))
  BY FrameIs, Zenon DEF Whole
<1> HIDE DEF q
<1>2. Sound(r.tetris) /\ Sound(tetris_frame(r.tetris, keys, order))
  BY FrameSound, Zenon DEF Whole
<1>3. Whole(o)
  BY <1>1, <1>2, Zenon DEF Advanced, Whole, Running
<1>4. Left(o, q, keysHeld) => Whole(q)
  BY <1>3, Zenon DEF Left, Whole, Running, Screens
<1>5. Whole(q)
  BY <1>1, <1>3, <1>4, Zenon
<1> QED
  BY <1>5, Zenon DEF q

\* The first game is sound.
LEMMA WholeInit == AppsInit => Whole(app)
<1> SUFFICES ASSUME AppsInit PROVE Whole(app)
  BY Zenon
<1>1. PICK order \in BagOrders, n \in DOMAIN Entries : app = [runtime_init(order) EXCEPT !.selected = n]
  BY Zenon DEF AppsInit
<1>2. Running(app) /\ app.tetris = tetris_init(order)
  BY <1>1 DEF runtime_init, Running, Parts, Screens, Entries
<1>3. Sound(tetris_init(order))
  BY InitSound, Zenon
<1> QED
  BY <1>2, <1>3, Zenon DEF Whole

\* Every iteration keeps the game sound.
LEMMA WholeStep == Whole(app) /\ [AppsNext]_appsVars => Whole(app)'
<1> SUFFICES ASSUME Whole(app), AppsNext PROVE Whole(app')
  BY Zenon DEF appsVars
<1>1. PICK batch \in Batches, order \in BagOrders, answer \in Answers : Iteration(batch, order, answer)
  BY Zenon DEF AppsNext
<1> DEFINE z == [app EXCEPT !.acted = {}]
           r == Drained(z, batch, order, answer)
           f == runtime_frame(r, keyboard', order)
           q == runtime_draw(f, shown)[1]
<1>2. IF r.quit THEN app' = r ELSE app' = q
  BY <1>1, Zenon DEF Iteration
<1>3. Whole(z)
  BY Zenon DEF Whole, Running, Parts
<1>4. Whole(r)
  BY <1>3, DrainedWhole, Zenon
<1>5. Whole(f)
  BY <1>4, FrameWhole, Zenon
<1>6. q = runtime_draw(f, shown)[1]
  BY Zenon
<1> HIDE DEF f, r, q
<1>7. /\ Acted(f, q, pong_draw(f.pong, shown)[1], tetris_draw(f.tetris, shown)[1], digit_ui_draw(f.digit, shown)[1])
      /\ q.selected = f.selected
  BY <1>5, <1>6, DrawIs, Zenon DEF Whole
<1>8. Sound(f.tetris) /\ Sound(tetris_draw(f.tetris, shown)[1])
  BY <1>5, DrawSound, Zenon DEF Whole
<1> QED
  BY <1>2, <1>4, <1>5, <1>7, <1>8, Zenon DEF Whole, Running, Acted

\* Tetris is sound for every board, every set of pieces and every order of the bag: the
\* falling piece lies on free cells, no full row survives a lock, and the board holds
\* the blocks placed less those of the rows cleared (lock_piece(), spawn()).
THEOREM TetrisIsSound == AppsInit /\ [][AppsNext]_appsVars => []TetrisSound
<1>1. Whole(app) => TetrisSound
  <2>1. ASSUME Whole(app) PROVE TetrisSound
    <3>1. Counted(app.tetris) /\ (app.tetris.phase # "over" => Lies(app.tetris))
      BY <2>1, Zenon DEF Whole, Sound
    <3> QED
      BY <3>1, Zenon DEF TetrisSound, Counted, Lies, NoFullRow, Blocks
  <2> QED
    BY <2>1, Zenon
<1> QED
  BY <1>1, WholeInit, WholeStep, PTL

\* A lock takes out at most four rows, so the score it adds is in the table: the rows it
\* fills are among the four of the piece, since no row was full before (lock_piece()).
THEOREM ClearsAtMostFour ==
    ASSUME NEW t, Sound(t), Lies(t)
    PROVE  TetrisH - Cardinality(Survivors(Filled(t))) + 1 \in DOMAIN Points
<1> DEFINE rows == Survivors(Filled(t))
           lines == 0 .. TetrisH - 1
           full == lines \ rows
           cells == PieceAt(t.piece, t.x, t.y, t.rotation)
<1>1. t.x \in Int /\ t.y \in Int /\ t.rotation \in 0 .. 3 /\ t.board \in Boards /\ Game(t) /\ NoFullRow(t.board)
  BY Zenon DEF Sound, Game, Counted
<1>2. \A c \in cells : c[2] \in t.y .. t.y + 3
  BY <1>1, PieceCells, Zenon
<1>3. full \subseteq t.y .. t.y + 3
  <2> SUFFICES ASSUME NEW y \in full PROVE y \in t.y .. t.y + 3
    BY Zenon
  <2>1. PICK x \in 0 .. TetrisW - 1 : t.board[<<x, y>>] = 0
    BY <1>1, Zenon DEF NoFullRow
  <2>2. Filled(t)[<<x, y>>] # 0
    BY Zenon DEF Survivors
  <2>3. <<x, y>> \in cells
    BY <2>1, <2>2, Zenon DEF Filled, Cells
  <2> HIDE DEF cells, full
  <2>4. <<x, y>>[2] \in t.y .. t.y + 3
    BY <1>2, <2>3, Zenon
  <2> QED
    BY <2>4, Zenon
<1>4. /\ IsFiniteSet(t.y .. t.y + 3) /\ Cardinality(t.y .. t.y + 3) = 4
      /\ IsFiniteSet(lines) /\ Cardinality(lines) = TetrisH
  <2>1. t.y + 3 \in Int /\ TetrisH - 1 \in Int /\ 0 \in Int
    BY <1>1, Size
  <2>2. /\ IsFiniteSet(t.y .. t.y + 3) /\ IsFiniteSet(lines)
        /\ Cardinality(t.y .. t.y + 3) = (IF t.y > t.y + 3 THEN 0 ELSE (t.y + 3) - t.y + 1)
        /\ Cardinality(lines) = (IF 0 > TetrisH - 1 THEN 0 ELSE (TetrisH - 1) - 0 + 1)
    BY <1>1, <2>1, FS_Interval, Zenon
  <2> QED
    BY <1>1, <2>2, Size
<1>5. Cardinality(full) <= 4 /\ Cardinality(full) \in Nat
  <2> HIDE DEF full
  <2> QED
    BY <1>3, <1>4, FS_Subset, FS_CardinalityType, Zenon
<1>6. rows \subseteq lines
  BY Zenon DEF Survivors
<1> HIDE DEF rows, lines, full
<1>7. Cardinality(full) = Cardinality(lines) - Cardinality(lines \cap rows)
  BY <1>4, FS_Difference, Zenon DEF full
<1>8. lines \cap rows = rows
  BY <1>6, Zenon
<1>9. IsFiniteSet(rows) /\ Cardinality(rows) \in Nat
  BY <1>4, <1>6, FS_Subset, FS_CardinalityType, Zenon
<1>10. TetrisH - Cardinality(rows) \in 0 .. 4
  <2>1. Cardinality(full) = TetrisH - Cardinality(rows)
    BY <1>4, <1>7, <1>8, Zenon
  <2> HIDE DEF full
  <2> QED
    BY <1>5, <2>1
<1>11. DOMAIN Points = 1 .. 5
  BY DEF Points
<1> QED
  BY <1>10, <1>11 DEF rows

-----------------------------------------------------------------------------
(* What Tetris draws. *)

\* The surface.
Surface == Pixels2 \cup Fields

\* What Tetris shows of a game: its cells and its texts, under the title.
TetrisCells(t) ==
    [c \in Cells |-> IF t.phase # "over" /\ c \in PieceAt(t.piece, t.x, t.y, t.rotation) THEN t.piece ELSE t.board[c]]
TetrisText(t) ==
    <<t.score, t.lines, t.next, CASE t.phase = "play" -> 1 [] t.phase = "paused" -> 2 [] OTHER -> 3>>
TetrisPicture(cells, text) ==
    [p \in Surface |-> IF p \in Cells THEN cells[p]
                       ELSE IF p[2] = -1 /\ p[1] \in 1 .. 4 THEN text[p[1]]
                       ELSE gfx_text(Blank2, 0, 9)[p]]
Tiles(t) == DOMAIN t = TetrisParts /\ t.dirty \in BOOLEAN
TetrisShows(t, s) == t.dirty \/ s = TetrisPicture(t.drawn, t.text)

\* A change that will be drawn, or what was drawn last.
TetrisKept(t, q) == q.dirty = TRUE \/ (q.dirty = t.dirty /\ q.drawn = t.drawn /\ q.text = t.text)

\* The surface has a field.
LEMMA HasField == <<0, -1>> \in Surface
BY DEF Surface, Fields

\* The same game, to be drawn in full.
SameGame(t, q) ==
    /\ Tiles(q) /\ q.dirty = TRUE /\ q.phase = t.phase /\ q.piece = t.piece /\ q.x = t.x /\ q.y = t.y
    /\ q.rotation = t.rotation /\ q.board = t.board /\ q.score = t.score /\ q.lines = t.lines /\ q.next = t.next

\* A game marked to be drawn in full.
LEMMA MarkedTiles ==
    ASSUME NEW t, Tiles(t), NEW q, q = [t EXCEPT !.dirty = TRUE]
    PROVE  SameGame(t, q)
BY Zenon DEF Tiles, TetrisParts, SameGame

\* A new piece draws nothing.
LEMMA SpawnTiles ==
    ASSUME NEW t, Tiles(t), NEW order
    PROVE  Tiles(spawn(t, order)) /\ TetrisKept(t, spawn(t, order)) /\ spawn(t, order).dirty = t.dirty
BY Zenon DEF spawn, Tiles, TetrisParts, TetrisKept

\* A new game is drawn in full.
LEMMA InitTiles ==
    ASSUME NEW order
    PROVE  Tiles(tetris_init(order)) /\ tetris_init(order).dirty = TRUE
<1> DEFINE t == [board |-> [c \in Cells |-> 0], drawn |-> [c \in Cells |-> 0], bag |-> Tail(order),
                 piece |-> Head(order), next |-> Head(order), rotation |-> 0, x |-> 0, y |-> 0,
                 gravity |-> 0, repeat |-> 0, direction |-> 0, score |-> 0, lines |-> 0, phase |-> "play",
                 dirty |-> TRUE, text |-> <<>>, placed |-> 0]
<1>1. tetris_init(order) = spawn(t, order)
  BY Zenon DEF tetris_init
<1>2. Tiles(t) /\ t.dirty = TRUE
  BY Zenon DEF Tiles, TetrisParts
<1> HIDE DEF t
<1> QED
  BY <1>1, <1>2, SpawnTiles, Zenon

\* A lock draws nothing.
LEMMA LockTiles ==
    ASSUME NEW t, Tiles(t), NEW order
    PROVE  Tiles(lock_piece(t, order)) /\ TetrisKept(t, lock_piece(t, order))
<1> DEFINE ans == lock_piece(t, order)
<1>1. \E b, n, m, k : ans = spawn([t EXCEPT !.board = b, !.score = n, !.lines = m, !.placed = k], order)
  BY Zenon DEF lock_piece
<1>2. PICK b, n, m, k : ans = spawn([t EXCEPT !.board = b, !.score = n, !.lines = m, !.placed = k], order)
  BY <1>1, Zenon
<1> DEFINE u == [t EXCEPT !.board = b, !.score = n, !.lines = m, !.placed = k]
<1>3. Tiles(u) /\ u.dirty = t.dirty /\ u.drawn = t.drawn /\ u.text = t.text
  BY Zenon DEF Tiles, TetrisParts
<1>4. ans = spawn(u, order)
  BY <1>2, Zenon
<1> HIDE DEF u, ans
<1>5. Tiles(ans) /\ TetrisKept(u, ans)
  BY <1>3, <1>4, SpawnTiles, Zenon
<1>6. Tiles(ans) /\ TetrisKept(t, ans)
  BY <1>3, <1>5, Zenon DEF TetrisKept
<1> QED
  BY <1>6, Zenon DEF ans

\* A key draws nothing.
LEMMA EventTiles ==
    ASSUME NEW t, Tiles(t), NEW key, NEW order
    PROVE  Tiles(tetris_event(t, key, order)) /\ TetrisKept(t, tetris_event(t, key, order))
<1> DEFINE ans == tetris_event(t, key, order)
<1>1. \/ ans = tetris_init(order)
      \/ \E v : ans = [t EXCEPT !.phase = v]
      \/ \E v : ans = [t EXCEPT !.rotation = v]
      \/ \E v : ans = lock_piece([t EXCEPT !.y = v], order)
      \/ ans = t
  <2> DEFINE turned == (t.rotation + 1) % 4
  <2>1. CASE key = "r"
    BY <2>1, Zenon DEF tetris_event
  <2>2. CASE key = "p" /\ t.phase # "over"
    BY <2>2, Zenon DEF tetris_event
  <2>3. CASE key = "up" /\ t.phase = "play" /\ tetris_fits(t, t.x, t.y, turned)
    BY <2>3, Zenon DEF tetris_event
  <2>4. CASE key = "space" /\ t.phase = "play"
    BY <2>4, Zenon DEF tetris_event
  <2>5. CASE /\ ~(key = "r") /\ ~(key = "p" /\ t.phase # "over")
             /\ ~(key = "up" /\ t.phase = "play" /\ tetris_fits(t, t.x, t.y, turned))
             /\ ~(key = "space" /\ t.phase = "play")
    BY <2>5, Zenon DEF tetris_event
  <2> QED
    BY <2>1, <2>2, <2>3, <2>4, <2>5, Zenon
<1> HIDE DEF ans
<1>2. ASSUME ans = tetris_init(order) PROVE Tiles(ans) /\ TetrisKept(t, ans)
  BY <1>2, InitTiles, Zenon DEF TetrisKept
<1>3. ASSUME NEW v, ans = [t EXCEPT !.phase = v] \/ ans = [t EXCEPT !.rotation = v]
      PROVE  Tiles(ans) /\ TetrisKept(t, ans)
  BY <1>3, Zenon DEF Tiles, TetrisParts, TetrisKept
<1>4. ASSUME NEW v, ans = lock_piece([t EXCEPT !.y = v], order) PROVE Tiles(ans) /\ TetrisKept(t, ans)
  <2> DEFINE u == [t EXCEPT !.y = v]
  <2>1. Tiles(u) /\ u.dirty = t.dirty /\ u.drawn = t.drawn /\ u.text = t.text
    BY Zenon DEF Tiles, TetrisParts
  <2>2. ans = lock_piece(u, order)
    BY <1>4, Zenon
  <2> HIDE DEF u
  <2>3. Tiles(ans) /\ TetrisKept(u, ans)
    BY <2>1, <2>2, LockTiles, Zenon
  <2> QED
    BY <2>1, <2>3, Zenon DEF TetrisKept
<1>5. ASSUME ans = t PROVE Tiles(ans) /\ TetrisKept(t, ans)
  BY <1>5, Zenon DEF TetrisKept
<1>6. Tiles(ans) /\ TetrisKept(t, ans)
  BY <1>1, <1>2, <1>3, <1>4, <1>5, Zenon
<1> QED
  BY <1>6, Zenon DEF ans

\* A frame draws nothing.
LEMMA FrameTiles ==
    ASSUME NEW t, Tiles(t), NEW keys, NEW order
    PROVE  Tiles(tetris_frame(t, keys, order)) /\ TetrisKept(t, tetris_frame(t, keys, order))
<1> DEFINE On(k) == IF k \in keys THEN 1 ELSE 0
           dir == On("right") - On("left")
           again == dir = t.direction /\ dir # 0 /\ t.repeat + 1 = RepeatAt
           move == dir # t.direction \/ again
           side == IF move /\ dir # 0 /\ tetris_fits(t, t.x + dir, t.y, t.rotation) THEN t.x + dir ELSE t.x
           m == [t EXCEPT !.direction = dir, !.x = side,
                          !.repeat = IF dir # t.direction THEN 0 ELSE IF again THEN RepeatTo
                                     ELSE IF dir # 0 THEN @ + 1 ELSE @]
           falls == t.gravity + 1 >= (IF "down" \in keys THEN FastFall ELSE SlowFall)
           stay == [m EXCEPT !.gravity = @ + 1]
           fall == [m EXCEPT !.gravity = 0, !.y = @ + 1]
           land == [m EXCEPT !.gravity = 0]
           ans == tetris_frame(t, keys, order)
           Same(u) == Tiles(u) /\ u.dirty = t.dirty /\ u.drawn = t.drawn /\ u.text = t.text
<1>1. ans = IF t.phase # "play" THEN t
            ELSE IF ~falls THEN stay
            ELSE IF tetris_fits(m, m.x, m.y + 1, m.rotation) THEN fall
            ELSE lock_piece(land, order)
  BY Zenon DEF tetris_frame
<1> HIDE DEF ans, falls, dir, side, again
<1>2. Same(m)
  BY Zenon DEF Tiles, TetrisParts
<1> HIDE DEF m
<1>3. Same(t) /\ Same(stay) /\ Same(fall) /\ Same(land)
  BY <1>2, Zenon DEF Tiles, TetrisParts
<1> HIDE DEF stay, fall, land
<1>4. Tiles(lock_piece(land, order)) /\ TetrisKept(land, lock_piece(land, order))
  BY <1>3, LockTiles, Zenon
<1>5. Tiles(ans) /\ TetrisKept(t, ans)
  <2>1. ans = t \/ ans = stay \/ ans = fall \/ ans = lock_piece(land, order)
    BY <1>1, Zenon
  <2> QED
    BY <1>3, <1>4, <2>1, Zenon DEF TetrisKept
<1> QED
  BY <1>5, Zenon DEF ans

\* Drawing what differs gives the whole picture.
LEMMA TetrisDraws ==
    ASSUME NEW t, Tiles(t), NEW s, DOMAIN s = Surface, TetrisShows(t, s)
    PROVE  /\ tetris_draw(t, s)[2] = TetrisPicture(TetrisCells(t), TetrisText(t))
           /\ tetris_draw(t, s)[1] = [t EXCEPT !.drawn = TetrisCells(t), !.text = TetrisText(t), !.dirty = FALSE]
<1> DEFINE cells == TetrisCells(t)
           text == TetrisText(t)
           title == gfx_text(Blank2, 0, 9)
           base == IF t.dirty THEN title ELSE s
           Drawn(p) == CASE p \in Cells /\ (t.dirty \/ t.drawn[p] # cells[p]) -> cells[p]
                      [] p[2] = -1 /\ p[1] \in 1 .. 4 /\ (t.dirty \/ t.text[p[1]] # text[p[1]]) -> text[p[1]]
                      [] OTHER -> base[p]
<1>1. tetris_draw(t, s) =
        <<[t EXCEPT !.drawn = cells, !.text = text, !.dirty = FALSE], [p \in DOMAIN s |-> Drawn(p)]>>
  BY Zenon DEF tetris_draw, TetrisCells, TetrisText
<1>2. \A p \in Cells : ~(p[2] = -1)
  BY Size DEF Cells
<1> HIDE DEF cells, text, title
<1>3. ASSUME NEW p \in Surface PROVE Drawn(p) = TetrisPicture(cells, text)[p]
  <2>1. TetrisPicture(cells, text)[p] = IF p \in Cells THEN cells[p]
            ELSE IF p[2] = -1 /\ p[1] \in 1 .. 4 THEN text[p[1]] ELSE title[p]
    BY Zenon DEF TetrisPicture, title
  <2>2. CASE t.dirty
    BY <1>2, <2>1, <2>2, Zenon
  <2>3. CASE ~t.dirty
    <3>1. s[p] = IF p \in Cells THEN t.drawn[p]
            ELSE IF p[2] = -1 /\ p[1] \in 1 .. 4 THEN t.text[p[1]] ELSE title[p]
      BY <2>3, Zenon DEF TetrisPicture, TetrisShows, title
    <3>2. base[p] = s[p]
      BY <2>3, Zenon
    <3> HIDE DEF base
    <3> QED
      BY <1>2, <2>1, <2>3, <3>1, <3>2, Zenon
  <2> QED
    BY <2>2, <2>3, Zenon
<1> HIDE DEF Drawn
<1>4. [p \in DOMAIN s |-> Drawn(p)] = TetrisPicture(cells, text)
  <2>1. TetrisPicture(cells, text) = [p \in Surface |-> TetrisPicture(cells, text)[p]]
    BY Zenon DEF TetrisPicture
  <2> QED
    BY <1>3, <2>1, Zenon
<1> QED
  BY <1>1, <1>4 DEF cells, text

-----------------------------------------------------------------------------
(* What the digit screen draws. *)

\* The fields of the digit screen.
DigitParts == {"canvas", "x", "y", "drawnX", "drawnY", "repeat", "painting", "result", "dirty"}
Sketch(u) ==
    /\ DOMAIN u = DigitParts /\ u.canvas \subseteq Canvas
    /\ u.x \in Nat /\ u.y \in Nat /\ u.drawnX \in Nat /\ u.drawnY \in Nat
    /\ u.painting \in BOOLEAN /\ u.dirty \in BOOLEAN

\* The canvas, the answer, and the cursor where nothing is painted.
DigitPicture(canvas, result, x, y) ==
    [p \in Surface |-> IF p[1] = x /\ p[2] = y /\ <<x, y>> \notin canvas THEN 3
                       ELSE IF p \in Canvas THEN IF p \in canvas THEN 1 ELSE 0
                       ELSE IF p = <<5, -1>> THEN 30 + result ELSE 0]

\* What is shown lacks at most what the brush has just painted.
DigitShows(u, s) == u.dirty \/ s = DigitPicture(u.canvas, u.result, u.drawnX, u.drawnY)
DigitLags(u, s) ==
    \/ u.dirty
    \/ \E k \in SUBSET Canvas :
          /\ s = DigitPicture(k, u.result, u.drawnX, u.drawnY)
          /\ u.canvas = k \cup (IF u.painting THEN Brush(u) ELSE {})

\* A cleared canvas is drawn in full.
LEMMA ClearSketch == Sketch(digit_ui_clear) /\ digit_ui_clear.dirty = TRUE
<1>1. Side \div 2 \in Nat
  BY ScreenAssumption
<1> QED
  BY <1>1, Zenon DEF digit_ui_clear, Sketch, DigitParts

\* An answer is drawn in full.
LEMMA DigitEvent ==
    ASSUME NEW u, Sketch(u), NEW key, NEW answer
    PROVE  /\ Sketch(digit_ui_event(u, key, answer))
           /\ digit_ui_event(u, key, answer).dirty = TRUE \/ digit_ui_event(u, key, answer) = u
<1>1. \/ digit_ui_event(u, key, answer) = digit_ui_clear
      \/ digit_ui_event(u, key, answer) = [u EXCEPT !.result = answer, !.dirty = TRUE]
      \/ digit_ui_event(u, key, answer) = u
  BY Zenon DEF digit_ui_event
<1>2. /\ Sketch([u EXCEPT !.result = answer, !.dirty = TRUE])
      /\ [u EXCEPT !.result = answer, !.dirty = TRUE].dirty = TRUE
  BY Zenon DEF Sketch, DigitParts
<1> QED
  BY <1>1, <1>2, ClearSketch, Zenon

\* A frame moves the cursor and paints with the brush.
LEMMA DigitFrame ==
    ASSUME NEW u, Sketch(u), NEW keys, NEW s, DigitShows(u, s)
    PROVE  Sketch(digit_ui_frame(u, keys)) /\ DigitLags(digit_ui_frame(u, keys), s)
<1> DEFINE Step(v, less, more) ==
               LET w == IF less \in keys /\ v > 0 THEN v - 1 ELSE v
               IN  IF more \in keys /\ w + 1 < Side THEN w + 1 ELSE w
           x == Step(u.x, "left", "right")
           y == Step(u.y, "up", "down")
           m0 == [u EXCEPT !.repeat = 0]
           m1 == [u EXCEPT !.repeat = @ - 1]
           m2 == [u EXCEPT !.x = x, !.y = y, !.repeat = UiRepeat]
           m == IF keys \cap {"left", "right", "up", "down"} = {} THEN m0
                ELSE IF u.repeat > 0 THEN m1
                ELSE [u EXCEPT !.x = Step(@, "left", "right"), !.y = Step(@, "up", "down"), !.repeat = UiRepeat]
           on == "space" \in keys
           q == [m EXCEPT !.painting = on, !.canvas = IF on THEN @ \cup Brush(m) ELSE @]
           Same(v) == /\ DOMAIN v = DigitParts /\ v.canvas = u.canvas /\ v.x \in Nat /\ v.y \in Nat
                      /\ v.drawnX = u.drawnX /\ v.drawnY = u.drawnY /\ v.dirty = u.dirty /\ v.result = u.result
<1>1. digit_ui_frame(u, keys) = q
  BY Zenon DEF digit_ui_frame
<1>2. x \in Nat /\ y \in Nat
  BY DEF Sketch
<1>3. [u EXCEPT !.x = Step(@, "left", "right"), !.y = Step(@, "up", "down"), !.repeat = UiRepeat] = m2
  BY Zenon
<1> HIDE DEF x, y, Step
<1>4. Same(m0) /\ Same(m1) /\ Same(m2)
  BY <1>2, Zenon DEF Sketch, DigitParts
<1>5. m = m0 \/ m = m1 \/ m = m2
  BY <1>3, Zenon
<1> HIDE DEF m, m0, m1, m2
<1>6. Same(m)
  BY <1>4, <1>5, Zenon
<1>7. Brush(m) \subseteq Canvas
  BY Zenon DEF Brush
<1>8. /\ DOMAIN q = DigitParts /\ q.x = m.x /\ q.y = m.y /\ q.drawnX = u.drawnX /\ q.drawnY = u.drawnY
      /\ q.dirty = u.dirty /\ q.result = u.result /\ q.painting = on
      /\ q.canvas = u.canvas \cup (IF on THEN Brush(m) ELSE {})
  BY <1>6, Zenon DEF DigitParts
<1>9. on \in BOOLEAN
  OBVIOUS
<1> HIDE DEF q, on
<1>10. Sketch(q)
  BY <1>6, <1>7, <1>8, <1>9, Zenon DEF Sketch
<1>11. Brush(q) = Brush(m)
  BY <1>8, Zenon DEF Brush
<1>12. DigitLags(q, s)
  BY <1>8, <1>11, Zenon DEF DigitLags, DigitShows, Sketch
<1> QED
  BY <1>1, <1>10, <1>12, Zenon

\* Drawing what the cursor left and the brush touched gives the whole picture.
LEMMA DigitDraws ==
    ASSUME NEW u, Sketch(u), NEW s, DOMAIN s = Surface, DigitLags(u, s)
    PROVE  /\ digit_ui_draw(u, s)[2] = DigitPicture(u.canvas, u.result, u.x, u.y)
           /\ digit_ui_draw(u, s)[1] = [u EXCEPT !.dirty = FALSE, !.drawnX = u.x, !.drawnY = u.y]
<1> DEFINE Dot(c) == IF c \in u.canvas THEN 1 ELSE 0
           touched == ({<<u.drawnX, u.drawnY>>} \ {<<u.x, u.y>>}) \cup (IF u.painting THEN Brush(u) ELSE {})
           base == [p \in DOMAIN s |->
                      IF u.dirty THEN IF p \in Canvas THEN Dot(p) ELSE IF p = <<5, -1>> THEN 30 + u.result ELSE 0
                      ELSE IF p \in touched THEN Dot(p) ELSE s[p]]
           pic == IF <<u.x, u.y>> \in u.canvas THEN base ELSE gfx_fill(base, u.x, u.y, 1, 1, 3)
           Plain(p) == IF p \in Canvas THEN Dot(p) ELSE IF p = <<5, -1>> THEN 30 + u.result ELSE 0
<1>1. digit_ui_draw(u, s) = <<[u EXCEPT !.dirty = FALSE, !.drawnX = u.x, !.drawnY = u.y], pic>>
  BY Zenon DEF digit_ui_draw
<1>2. ASSUME NEW p \in Surface, p # <<u.x, u.y>> \/ <<u.x, u.y>> \in u.canvas PROVE base[p] = Plain(p)
  <2>1. CASE u.dirty
    BY <2>1, Zenon
  <2>2. CASE ~u.dirty
    <3>1. PICK k \in SUBSET Canvas :
             /\ s = DigitPicture(k, u.result, u.drawnX, u.drawnY)
             /\ u.canvas = k \cup (IF u.painting THEN Brush(u) ELSE {})
      BY <2>2, Zenon DEF DigitLags
    <3>2. Brush(u) \subseteq Canvas /\ u.canvas \subseteq Canvas /\ u.drawnX \in Nat /\ u.drawnY \in Nat
      BY Zenon DEF Brush, Sketch
    <3>3. base[p] = IF p \in touched THEN Dot(p) ELSE s[p]
      BY <2>2, Zenon
    <3>4. <<5, -1>> \notin Canvas /\ <<u.drawnX, u.drawnY>> # <<5, -1>>
      BY <3>2 DEF Canvas
    <3>5. CASE p \in touched
      BY <3>2, <3>3, <3>4, <3>5, Zenon
    <3>6. CASE p \notin touched
      <4>1. (p # <<u.drawnX, u.drawnY>> \/ <<u.drawnX, u.drawnY>> \in k) /\ (p \in u.canvas <=> p \in k)
        BY <1>2, <3>1, <3>6, Zenon
      <4>2. \E a, b : p = <<a, b>>
        BY DEF Surface, Pixels2, Fields
      <4>3. ~(p[1] = u.drawnX /\ p[2] = u.drawnY /\ <<u.drawnX, u.drawnY>> \notin k)
        BY <4>1, <4>2
      <4>4. s[p] = IF p \in Canvas THEN IF p \in k THEN 1 ELSE 0 ELSE IF p = <<5, -1>> THEN 30 + u.result ELSE 0
        BY <3>1, <4>3, Zenon DEF DigitPicture
      <4> QED
        BY <3>3, <3>6, <4>1, <4>4, Zenon
    <3> QED
      BY <3>5, <3>6, Zenon
  <2> QED
    BY <2>1, <2>2, Zenon
<1>3. DOMAIN base = Surface
  BY Zenon
<1> HIDE DEF base
<1>4. ASSUME NEW p \in Surface PROVE pic[p] = DigitPicture(u.canvas, u.result, u.x, u.y)[p]
  <2>1. u.x \in Nat /\ u.y \in Nat
    BY Zenon DEF Sketch
  <2>2. u.x .. u.x + 1 - 1 = {u.x} /\ u.y .. u.y + 1 - 1 = {u.y}
    BY <2>1
  <2>3. pic[p] = IF p[1] = u.x /\ p[2] = u.y /\ <<u.x, u.y>> \notin u.canvas THEN 3 ELSE base[p]
    BY <1>3, <2>2, Zenon DEF gfx_fill
  <2>4. \E a, b : p = <<a, b>>
    BY DEF Surface, Pixels2, Fields
  <2>5. p = <<u.x, u.y>> <=> p[1] = u.x /\ p[2] = u.y
    BY <2>4
  <2> QED
    BY <1>2, <2>3, <2>5, Zenon DEF DigitPicture
<1>5. DOMAIN pic = Surface /\ pic = [p \in Surface |-> pic[p]]
  BY <1>3, Zenon DEF gfx_fill, base
<1> HIDE DEF pic
<1>6. pic = DigitPicture(u.canvas, u.result, u.x, u.y)
  <2> DEFINE d == DigitPicture(u.canvas, u.result, u.x, u.y)
  <2>1. d = [p \in Surface |-> d[p]]
    BY Zenon DEF DigitPicture
  <2> HIDE DEF d
  <2> QED
    BY <1>4, <1>5, <2>1, Zenon DEF d
<1> QED
  BY <1>1, <1>6

-----------------------------------------------------------------------------
(* What Pong draws. *)

\* The fields of a rally.
PongParts == {"x", "y", "vx", "vy", "left", "right", "scores", "phase", "serveRight", "odd", "full", "drawn"}
Phases == {"serve", "play", "paused", "over"}
Rally(p) ==
    /\ DOMAIN p = PongParts
    /\ p.x \in Int /\ p.y \in Int /\ p.vx \in Int /\ p.vy \in Int /\ p.left \in Int /\ p.right \in Int
    /\ p.phase \in Phases /\ p.full \in BOOLEAN
    /\ p.drawn.x \in Int /\ p.drawn.y \in Int /\ p.drawn.left \in Int /\ p.drawn.right \in Int
Stopped(p) == p.phase \in {"over", "paused"}

\* A full drawing comes, or what was drawn last stays, and so does an overlay.
PongKept(p, q) == q.full = TRUE \/ (q.full = p.full /\ q.drawn = p.drawn /\ (Stopped(p) => Stopped(q)))

\* What ScreenAssumption says of the court.
LEMMA Court ==
    /\ PongW \in Nat /\ PongH \in Nat /\ PaddleH \in Nat /\ One \in Nat \ {0}
    /\ NetX \in Nat /\ NetX > 1 /\ NetX < PongW - 2
    /\ ScoreX(TRUE) = NetX - 1 /\ ScoreX(FALSE) = NetX + 1
BY ScreenAssumption DEF NetX, ScoreX

\* The ball in the middle, and where it can go.
LEMMA CentreRally ==
    ASSUME NEW p, Rally(p)
    PROVE  /\ Rally(centre_ball(p)) /\ centre_ball(p).full = p.full /\ centre_ball(p).drawn = p.drawn
           /\ centre_ball(p).scores = p.scores
<1> DEFINE a == ((PongW - 1) \div 2) * One
           b == ((PongH - 1) \div 2) * One
           q == [p EXCEPT !.x = a, !.y = b, !.vx = 0, !.vy = 0]
<1>1. a \in Int /\ b \in Int
  BY Court
<1>2. centre_ball(p) = q
  BY Zenon DEF centre_ball
<1> HIDE DEF a, b
<1>3. /\ DOMAIN q = PongParts /\ q.x = a /\ q.y = b /\ q.vx = 0 /\ q.vy = 0 /\ q.left = p.left /\ q.right = p.right
      /\ q.phase = p.phase /\ q.full = p.full /\ q.drawn = p.drawn /\ q.scores = p.scores
  BY Zenon DEF Rally, PongParts
<1> HIDE DEF q
<1>4. Rally(q)
  BY <1>1, <1>3 DEF Rally
<1> QED
  BY <1>2, <1>3, <1>4, Zenon

\* A new rally is drawn in full.
LEMMA InitRally == Rally(pong_init) /\ pong_init.full = TRUE
<1> DEFINE middle == ((PongH - PaddleH) \div 2) * One
           p == [x |-> 0, y |-> 0, vx |-> 0, vy |-> 0, left |-> middle, right |-> middle, scores |-> <<0, 0>>,
                     phase |-> "serve", serveRight |-> TRUE, odd |-> FALSE, full |-> TRUE,
                     drawn |-> [x |-> 0, y |-> 0, left |-> 0, right |-> 0, scores |-> <<0, 0>>]]
<1>1. middle \in Int
  BY Court
<1>2. pong_init = centre_ball(p)
  BY Zenon DEF pong_init
<1> HIDE DEF middle
<1>3. Rally(p) /\ p.full = TRUE
  BY <1>1 DEF Rally, PongParts, Phases
<1> HIDE DEF p
<1> QED
  BY <1>2, <1>3, CentreRally, Zenon

\* P and R have Pong drawn in full; no other key takes an overlay away.
LEMMA PongEvent ==
    ASSUME NEW p, Rally(p), NEW key
    PROVE  Rally(PongKey(p, key)) /\ PongKept(p, PongKey(p, key))
<1> DEFINE e == pong_event(p, key)
           q == PongKey(p, key)
           vx == IF p.serveRight THEN One ELSE -One
           vy == IF p.odd THEN -1 ELSE 1
           serve == [p EXCEPT !.vx = vx, !.vy = vy, !.odd = ~@, !.phase = "play"]
           pause == [p EXCEPT !.phase = IF @ = "play" THEN "paused" ELSE "play"]
<1>1. \/ p.phase = "serve" /\ e = serve
      \/ key = "p" /\ e = pause
      \/ e = pong_init
      \/ e = p
  BY Zenon DEF pong_event
<1>2. vx \in Int /\ vy \in Int
  BY Court
<1> HIDE DEF e, vx, vy
<1>3. /\ Rally(serve) /\ serve.full = p.full /\ serve.drawn = p.drawn
      /\ Rally(pause) /\ pause.full = p.full /\ pause.drawn = p.drawn
  BY <1>2, Zenon DEF Rally, PongParts, Phases
<1> HIDE DEF serve, pause
<1>4. /\ Rally(e)
      /\ key = "p" \/ e.full = TRUE \/ (e.full = p.full /\ e.drawn = p.drawn /\ (Stopped(p) => e = p))
  BY <1>1, <1>3, InitRally, Zenon DEF Stopped
<1>5. q = [e EXCEPT !.full = @ \/ key = "p"]
  BY Zenon DEF PongKey, e
<1> HIDE DEF q
<1>6. Rally(q) /\ q.full = (e.full \/ key = "p") /\ q.drawn = e.drawn /\ q.phase = e.phase
  BY <1>4, <1>5, Zenon DEF Rally, PongParts
<1>7. e.full \in BOOLEAN /\ p.full \in BOOLEAN
  BY <1>4, Zenon DEF Rally
<1>8. Rally(q) /\ PongKept(p, q)
  BY <1>4, <1>6, <1>7, Zenon DEF PongKept, Stopped
<1> QED
  BY <1>8, Zenon DEF q

\* What a frame keeps.
Plays(p, q) == Rally(q) /\ q.full = p.full /\ q.drawn = p.drawn

\* A point draws nothing.
LEMMA PointPlays ==
    ASSUME NEW p, Rally(p), NEW left
    PROVE  Plays(p, point(p, left))
<1> DEFINE a == [p EXCEPT !.scores[IF left THEN 1 ELSE 2] = @ + 1, !.serveRight = left]
           q == centre_ball(a)
           phase == IF Win \in {q.scores[1], q.scores[2]} THEN "over" ELSE "serve"
           r == [q EXCEPT !.phase = phase]
<1>1. point(p, left) = r
  BY Zenon DEF point
<1>2. Plays(p, a)
  BY Zenon DEF Plays, Rally, PongParts
<1> HIDE DEF a
<1>3. Plays(p, q)
  BY <1>2, CentreRally, Zenon DEF Plays
<1>4. phase \in Phases
  BY Zenon DEF Phases
<1> HIDE DEF q, phase
<1>5. Plays(p, r)
  BY <1>3, <1>4, Zenon DEF Plays, Rally, PongParts
<1> QED
  BY <1>1, <1>5, Zenon

\* Nor does a paddle's return.
LEMMA BouncePlays ==
    ASSUME NEW p, Rally(p), NEW paddle \in Int, NEW x \in Int
    PROVE  Plays(p, bounce([p EXCEPT !.x = x], paddle))
<1> DEFINE a == [p EXCEPT !.x = x]
           vy == (a.y + (One \div 2) - paddle - ((PaddleH * One) \div 2)) \div 2
           q == [a EXCEPT !.vx = -@, !.vy = vy]
<1>1. bounce(a, paddle) = q
  BY Zenon DEF bounce
<1>2. Plays(p, a)
  BY Zenon DEF Plays, Rally, PongParts
<1> HIDE DEF a
<1>3. vy \in Int
  <2>1. One \div 2 \in Int /\ (PaddleH * One) \div 2 \in Int /\ a.y \in Int
    BY <1>2, Court DEF Plays, Rally
  <2> QED
    BY <2>1
<1> HIDE DEF vy
<1>4. Plays(p, q)
  BY <1>2, <1>3 DEF Plays, Rally, PongParts
<1> QED
  BY <1>1, <1>4, Zenon DEF a

\* Nor does a move of the ball.
LEMMA BallPlays ==
    ASSUME NEW p, Rally(p)
    PROVE  Plays(p, BallMoved(p))
<1> DEFINE low == (PongH - 1) * One
           y == p.y + p.vy
           b == IF y < 0 THEN -y ELSE IF y > low THEN (2 * low) - y ELSE y
           c == IF y < 0 \/ y > low THEN -p.vy ELSE p.vy
           q == [p EXCEPT !.x = @ + p.vx,
                       !.y = IF y < 0 THEN -y ELSE IF y > low THEN (2 * low) - y ELSE y,
                       !.vy = IF y < 0 \/ y > low THEN -@ ELSE @]
           Meets(paddle) == q.y + One > paddle /\ q.y < paddle + (PaddleH * One)
           r1 == bounce([q EXCEPT !.x = One], q.left)
           r2 == bounce([q EXCEPT !.x = (PongW - 2) * One], q.right)
           r == CASE q.vx < 0 /\ q.x <= One /\ q.x + One >= 0 /\ Meets(q.left) -> r1
                  [] q.vx > 0 /\ q.x + One >= (PongW - 1) * One /\ q.x <= PongW * One /\ Meets(q.right) -> r2
                  [] OTHER -> q
<1>1. BallMoved(p) = IF r.x + One < 0 THEN point(r, FALSE) ELSE IF r.x > PongW * One THEN point(r, TRUE) ELSE r
  BY Zenon DEF BallMoved
<1>2. /\ low \in Int /\ y \in Int /\ b \in Int /\ c \in Int /\ p.x + p.vx \in Int
      /\ One \in Int /\ (PongW - 2) * One \in Int
  <2>1. low \in Int
    BY Court
  <2> HIDE DEF low
  <2> QED
    BY <2>1, Court DEF Rally
<1>3. q = [p EXCEPT !.x = p.x + p.vx, !.y = b, !.vy = c]
  BY Zenon
<1> HIDE DEF low, y, b, c
<1>4. Plays(p, q)
  BY <1>2, <1>3 DEF Plays, Rally, PongParts
<1> HIDE DEF q
<1>5. Rally(q) /\ q.left \in Int /\ q.right \in Int
  BY <1>4, Zenon DEF Plays, Rally
<1>6. Plays(q, r1) /\ Plays(q, r2)
  BY <1>2, <1>5, BouncePlays, Zenon
<1>7. r = r1 \/ r = r2 \/ r = q
  <2> HIDE DEF r1, r2, Meets
  <2> QED
    OBVIOUS
<1> HIDE DEF r, r1, r2
<1>8. Plays(p, r)
  BY <1>4, <1>6, <1>7, Zenon DEF Plays
<1>9. Plays(r, point(r, FALSE)) /\ Plays(r, point(r, TRUE))
  BY <1>8, PointPlays, Zenon DEF Plays
<1>10. BallMoved(p) = point(r, FALSE) \/ BallMoved(p) = point(r, TRUE) \/ BallMoved(p) = r
  BY <1>1, Zenon
<1> QED
  BY <1>8, <1>9, <1>10, Zenon DEF Plays

\* A frame draws nothing, and a stopped game stays stopped.
LEMMA PongFrame ==
    ASSUME NEW p, Rally(p), NEW keys
    PROVE  Rally(pong_frame(p, keys)) /\ PongKept(p, pong_frame(p, keys))
<1> DEFINE Moved(y, up, down) ==
               LET u == IF up \in keys THEN clamp_paddle(y - One) ELSE y
               IN  IF down \in keys THEN clamp_paddle(u + One) ELSE u
           m == [p EXCEPT !.left = Moved(@, "w", "s"), !.right = Moved(@, "up", "down")]
           a == Moved(p.left, "w", "s")
           b == Moved(p.right, "up", "down")
           ans == pong_frame(p, keys)
<1>1. \/ Stopped(p) /\ ans = p
      \/ ~Stopped(p) /\ ans = m
      \/ ~Stopped(p) /\ ans = BallMoved(m)
  BY Zenon DEF pong_frame, Stopped, Rally, Phases
<1>2. m = [p EXCEPT !.left = a, !.right = b]
  BY Zenon
<1>3. \A y \in Int : clamp_paddle(y) \in Int /\ y - One \in Int /\ y + One \in Int
  BY Court DEF clamp_paddle
<1>4. \A up, down : \A y \in Int : Moved(y, up, down) \in Int
  BY <1>3, Zenon
<1>5. a \in Int /\ b \in Int
  BY <1>4, Zenon DEF Rally
<1> HIDE DEF Moved, m, a, b, ans
<1>6. Plays(p, m)
  BY <1>2, <1>5, Zenon DEF Plays, Rally, PongParts
<1>7. Plays(m, BallMoved(m))
  BY <1>6, BallPlays, Zenon DEF Plays
<1>8. Rally(ans) /\ PongKept(p, ans)
  BY <1>1, <1>6, <1>7, Zenon DEF Plays, PongKept, Stopped
<1> QED
  BY <1>8, Zenon DEF ans

\* Pong's picture, in pixels: the ball and the paddles in front of the scores and the net.
IsNet(q) == q[1] = NetX /\ q[2] >= 0 /\ q[2] < PongH /\ q[2] % 2 = 0
IsLeft(q, y) == q[1] = 0 /\ q[2] \in y .. y + PaddleH - 1
IsRight(q, y) == q[1] = PongW - 1 /\ q[2] \in y .. y + PaddleH - 1
IsBall(q, d) == q[1] = d.x /\ q[2] = d.y
InFront(q, d) == IsBall(q, d) \/ IsLeft(q, d.left) \/ IsRight(q, d.right)
Scored(q, scores, under) ==
    IF q[1] = NetX - 1 /\ q[2] = 0 THEN 20 + scores[1]
    ELSE IF q[1] = NetX + 1 /\ q[2] = 0 THEN 20 + scores[2] ELSE under
Behind(q, scores) ==
    Scored(q, scores, IF IsNet(q) THEN 2 ELSE 0)
PongPicture(d) == [q \in Surface |-> IF InFront(q, d) THEN 1 ELSE Behind(q, d.scores)]
PongNow(p) == [x |-> pixels(p.x), y |-> pixels(p.y), left |-> pixels(p.left), right |-> pixels(p.right),
               scores |-> p.scores]

\* A pixel is a pair of numbers.
LEMMA PixelIs ==
    ASSUME NEW q \in Surface
    PROVE  q[1] \in Int /\ q[2] \in Int /\ q = <<q[1], q[2]>>
BY ScreenAssumption DEF Surface, Pixels2, Fields

\* So is a position on the court.
LEMMA NowIs ==
    ASSUME NEW p, Rally(p)
    PROVE  /\ PongNow(p).x \in Int /\ PongNow(p).y \in Int /\ PongNow(p).left \in Int /\ PongNow(p).right \in Int
           /\ PongNow(p).scores = p.scores
BY Court DEF PongNow, pixels, Rally

\* What the drawing routines do to a pixel.
LEMMA FillAt ==
    ASSUME NEW s, DOMAIN s = Surface, NEW x \in Int, NEW y \in Int, NEW h \in Int, NEW c, NEW q \in Surface
    PROVE  /\ DOMAIN gfx_fill(s, x, y, 1, h, c) = Surface
           /\ gfx_fill(s, x, y, 1, h, c)[q] = IF q[1] = x /\ q[2] \in y .. y + h - 1 THEN c ELSE s[q]
<1>1. x .. x + 1 - 1 = {x}
  OBVIOUS
<1> QED
  BY <1>1, Zenon DEF gfx_fill

\* The same for the ball.
LEMMA DotAt ==
    ASSUME NEW s, DOMAIN s = Surface, NEW d, d.x \in Int, d.y \in Int, NEW c, NEW q \in Surface
    PROVE  /\ DOMAIN gfx_fill(s, d.x, d.y, 1, 1, c) = Surface
           /\ gfx_fill(s, d.x, d.y, 1, 1, c)[q] = IF IsBall(q, d) THEN c ELSE s[q]
<1>1. d.x .. d.x + 1 - 1 = {d.x} /\ d.y .. d.y + 1 - 1 = {d.y}
  OBVIOUS
<1> QED
  BY <1>1, Zenon DEF gfx_fill, IsBall

\* The same for a part of the net.
LEMMA NetAt ==
    ASSUME NEW s, DOMAIN s = Surface, NEW from, NEW to, NEW q \in Surface
    PROVE  /\ DOMAIN draw_net(s, from, to) = Surface
           /\ draw_net(s, from, to)[q] = IF IsNet(q) /\ q[2] + 1 > from /\ q[2] < to THEN 2 ELSE s[q]
BY Zenon DEF draw_net, IsNet

\* The same for the scores.
LEMMA ScoresAt ==
    ASSUME NEW s, DOMAIN s = Surface, NEW p, NEW q \in Surface
    PROVE  DOMAIN draw_scores(p, s) = Surface /\ draw_scores(p, s)[q] = Scored(q, p.scores, s[q])
<1> DEFINE l == <<NetX - 1, 0>>
           r == <<NetX + 1, 0>>
           a == 20 + p.scores[1]
           b == 20 + p.scores[2]
<1>1. draw_scores(p, s) = [s EXCEPT ![l] = a, ![r] = b]
  BY Court, Zenon DEF draw_scores
<1>2. (q = l <=> q[1] = NetX - 1 /\ q[2] = 0) /\ (q = r <=> q[1] = NetX + 1 /\ q[2] = 0)
  BY PixelIs, Court, Zenon
<1>3. l # r
  BY Court
<1> HIDE DEF l, r, a, b
<1>4. /\ DOMAIN draw_scores(p, s) = Surface
      /\ draw_scores(p, s)[q] = IF q = l THEN a ELSE IF q = r THEN b ELSE s[q]
  BY <1>1, <1>3, Zenon
<1> QED
  BY <1>2, <1>4, Zenon DEF a, b, Scored

\* A full drawing.
LEMMA FullCourt ==
    ASSUME NEW p, NEW q \in Surface
    PROVE  /\ DOMAIN draw_scores(p, draw_net(Blank2, 0, PongH)) = Surface
           /\ draw_scores(p, draw_net(Blank2, 0, PongH))[q] = Behind(q, p.scores)
<1> DEFINE n == draw_net(Blank2, 0, PongH)
<1>1. DOMAIN Blank2 = Surface /\ Blank2[q] = 0
  BY Zenon DEF Blank2, Surface
<1>2. DOMAIN n = Surface /\ n[q] = IF IsNet(q) /\ q[2] + 1 > 0 /\ q[2] < PongH THEN 2 ELSE Blank2[q]
  BY <1>1, NetAt
<1> HIDE DEF n
<1>3. n[q] = IF IsNet(q) THEN 2 ELSE 0
  BY <1>1, <1>2, PixelIs, Court DEF IsNet
<1>4. DOMAIN draw_scores(p, n) = Surface /\ draw_scores(p, n)[q] = Scored(q, p.scores, n[q])
  BY <1>2, ScoresAt, Zenon
<1> QED
  BY <1>3, <1>4, Zenon DEF Behind, n

\* The surface with what moved erased, and what it covered restored: the scores and the net.
Restored(p, s, d, now) ==
    LET gone == d.x # now.x \/ d.y # now.y
        s1 == IF gone THEN gfx_fill(s, d.x, d.y, 1, 1, 0) ELSE s
        s2 == IF gone /\ d.x = NetX THEN draw_net(s1, d.y, d.y + 1) ELSE s1
        s3 == IF gone /\ d.y = 0 /\ d.x \in {ScoreX(TRUE), ScoreX(FALSE)} THEN draw_scores(p, s2) ELSE s2
        s4 == IF d.left # now.left THEN gfx_fill(s3, 0, d.left, 1, PaddleH, 0) ELSE s3
        s5 == IF d.right # now.right THEN gfx_fill(s4, PongW - 1, d.right, 1, PaddleH, 0) ELSE s4
    IN  IF d.scores # p.scores THEN draw_scores(p, s5) ELSE s5

\* Where no ball or paddle is now, nothing is left of the last ones.
LEMMA CourtRestored ==
    ASSUME NEW p, Rally(p), NEW s, DOMAIN s = Surface, NEW d, d = p.drawn, NEW now, now = PongNow(p),
           NEW q \in Surface, s[q] = PongPicture(d)[q], ~InFront(q, now)
    PROVE  Restored(p, s, d, now)[q] = Behind(q, p.scores)
<1> DEFINE gone == d.x # now.x \/ d.y # now.y
           s1 == IF gone THEN gfx_fill(s, d.x, d.y, 1, 1, 0) ELSE s
           s2 == IF gone /\ d.x = NetX THEN draw_net(s1, d.y, d.y + 1) ELSE s1
           cut == gone /\ d.y = 0 /\ d.x \in {ScoreX(TRUE), ScoreX(FALSE)}
           s3 == IF cut THEN draw_scores(p, s2) ELSE s2
           s4 == IF d.left # now.left THEN gfx_fill(s3, 0, d.left, 1, PaddleH, 0) ELSE s3
           s5 == IF d.right # now.right THEN gfx_fill(s4, PongW - 1, d.right, 1, PaddleH, 0) ELSE s4
           base == IF d.scores # p.scores THEN draw_scores(p, s5) ELSE s5
           Score1 == q[1] = NetX - 1 /\ q[2] = 0
           Score2 == q[1] = NetX + 1 /\ q[2] = 0
<1>1. /\ d.x \in Int /\ d.y \in Int /\ d.left \in Int /\ d.right \in Int
      /\ PaddleH \in Int /\ PongW - 1 \in Int /\ q[1] \in Int /\ q[2] \in Int
  BY PixelIs, Court DEF Rally
<1>2. DOMAIN s1 = Surface /\ s1[q] = IF gone /\ IsBall(q, d) THEN 0 ELSE s[q]
  <2> HIDE DEF gone
  <2> QED
    BY <1>1, DotAt
<1> HIDE DEF s1
<1>3. /\ DOMAIN s2 = Surface
      /\ s2[q] = IF gone /\ d.x = NetX /\ IsNet(q) /\ q[2] + 1 > d.y /\ q[2] < d.y + 1 THEN 2 ELSE s1[q]
  <2> HIDE DEF gone
  <2> QED
    BY <1>2, NetAt
<1> HIDE DEF s2
<1>4. /\ DOMAIN s3 = Surface
      /\ s3[q] = IF cut THEN Scored(q, p.scores, s2[q]) ELSE s2[q]
  <2> HIDE DEF cut
  <2> QED
    BY <1>3, ScoresAt, Zenon
<1> HIDE DEF s3
<1>5. DOMAIN s4 = Surface /\ s4[q] = IF d.left # now.left /\ IsLeft(q, d.left) THEN 0 ELSE s3[q]
  <2>1. /\ DOMAIN gfx_fill(s3, 0, d.left, 1, PaddleH, 0) = Surface
        /\ gfx_fill(s3, 0, d.left, 1, PaddleH, 0)[q] =
              IF q[1] = 0 /\ q[2] \in d.left .. d.left + PaddleH - 1 THEN 0 ELSE s3[q]
    <3>1. DOMAIN s3 = Surface /\ 0 .. 0 + 1 - 1 = {0}
      BY <1>4
    <3> QED
      BY <3>1, Zenon DEF gfx_fill
  <2> QED
    BY <1>4, <2>1, Zenon DEF IsLeft
<1> HIDE DEF s4
<1>6. DOMAIN s5 = Surface /\ s5[q] = IF d.right # now.right /\ IsRight(q, d.right) THEN 0 ELSE s4[q]
  BY <1>1, <1>5, FillAt DEF IsRight
<1> HIDE DEF s5
<1>7. base[q] = IF d.scores # p.scores THEN Scored(q, p.scores, s5[q]) ELSE s5[q]
  BY <1>6, ScoresAt, Zenon
<1> HIDE DEF base
<1>8. /\ IsBall(q, d) => gone
      /\ IsLeft(q, d.left) => d.left # now.left
      /\ IsRight(q, d.right) => d.right # now.right
  BY Zenon DEF InFront, IsBall
<1>9. s[q] = IF InFront(q, d) THEN 1 ELSE Behind(q, d.scores)
  BY Zenon DEF PongPicture
<1>10. NetX \in Int /\ NetX > 1 /\ NetX < PongW - 2 /\ PongW \in Int
  BY Court
<1>11. ASSUME Score1 \/ Score2 PROVE base[q] = Behind(q, p.scores)
  <2>1. ~IsNet(q) /\ (\A y : ~IsLeft(q, y) /\ ~IsRight(q, y))
    BY <1>1, <1>10, <1>11 DEF IsNet, IsLeft, IsRight
  <2>2. s5[q] = s3[q] /\ s2[q] = s1[q]
    BY <1>3, <1>5, <1>6, <2>1, Zenon
  <2>3. IsBall(q, d) => cut
    BY <1>8, <1>11, Zenon DEF IsBall, ScoreX
  <2>4. Score1 => ~Score2
    BY <1>1, <1>10
  <2>5. Behind(q, p.scores) = IF Score1 THEN 20 + p.scores[1] ELSE 20 + p.scores[2]
    BY <1>11, Zenon DEF Behind, Scored
  <2>6. Behind(q, d.scores) = IF Score1 THEN 20 + d.scores[1] ELSE 20 + d.scores[2]
    BY <1>11, Zenon DEF Behind, Scored
  <2>7. cut => s3[q] = Behind(q, p.scores)
    <3> HIDE DEF cut, Score1, Score2
    <3> QED
      BY <1>4, <1>11, <2>5, Zenon DEF Scored, Score1, Score2
  <2>8. ~cut => s3[q] = Behind(q, d.scores)
    <3>1. ~cut => ~InFront(q, d)
      BY <2>1, <2>3, Zenon DEF InFront
    <3>2. ~cut => s1[q] = s[q]
      <4> HIDE DEF cut, gone
      <4> QED
        BY <1>2, <2>3, Zenon
    <3> HIDE DEF cut
    <3> QED
      BY <1>4, <1>9, <2>2, <3>1, <3>2, Zenon
  <2> HIDE DEF cut, Score1, Score2
  <2> QED
    BY <1>7, <1>11, <2>2, <2>5, <2>6, <2>7, <2>8, ZenonT(30) DEF Scored, Score1, Score2
<1>12. ASSUME ~(Score1 \/ Score2) /\ IsNet(q) PROVE base[q] = Behind(q, p.scores)
  <2>1. \A y : ~IsLeft(q, y) /\ ~IsRight(q, y)
    BY <1>1, <1>10, <1>12, SMTT(30) DEF IsNet, IsLeft, IsRight
  <2>2. base[q] = s2[q]
    <3> HIDE DEF cut, Score1, Score2
    <3> QED
      BY <1>4, <1>5, <1>6, <1>7, <1>12, <2>1, Zenon DEF Scored, Score1, Score2
  <2>3. Behind(q, p.scores) = 2 /\ Behind(q, d.scores) = 2
    BY <1>12, Zenon DEF Behind, Scored
  <2>4. IsBall(q, d) => gone /\ d.x = NetX /\ q[2] + 1 > d.y /\ q[2] < d.y + 1
    BY <1>1, <1>8, <1>12 DEF IsBall, IsNet
  <2>5. IsBall(q, d) => s2[q] = 2
    <3> HIDE DEF gone
    <3> QED
      BY <1>3, <1>12, <2>4, Zenon
  <2>6. ~IsBall(q, d) => s2[q] = 2
    BY <1>2, <1>3, <1>9, <2>1, <2>3, Zenon DEF InFront
  <2> QED
    BY <2>2, <2>3, <2>5, <2>6, Zenon
<1>13. ASSUME ~(Score1 \/ Score2) /\ ~IsNet(q) PROVE base[q] = Behind(q, p.scores)
  <2>1. Behind(q, p.scores) = 0 /\ Behind(q, d.scores) = 0
    BY <1>13, Zenon DEF Behind, Scored
  <2>2. base[q] = s5[q] /\ s3[q] = s1[q]
    <3> HIDE DEF cut, Score1, Score2, gone
    <3> QED
      BY <1>3, <1>4, <1>7, <1>13, Zenon DEF Scored, Score1, Score2
  <2>3. s5[q] = 0
    <3> HIDE DEF gone
    <3> QED
      BY <1>2, <1>5, <1>6, <1>8, <1>9, <2>1, <2>2, Zenon DEF InFront
  <2> QED
    BY <2>1, <2>2, <2>3, Zenon
<1>14. base[q] = Behind(q, p.scores)
  BY <1>11, <1>12, <1>13, Zenon
<1> QED
  BY <1>14, Zenon DEF Restored, base, s5, s4, s3, s2, s1, gone, cut

\* The pixels an overlay covers.
Covered(p) == {q \in Surface : Stopped(p) /\ q[1] \in 1 .. PongW - 2 /\ q[2] = 1}
PongShows(p, s) == p.full \/ \A q \in Surface \ Covered(p) : s[q] = PongPicture(p.drawn)[q]

\* Drawing what moved gives the whole picture, an overlay's pixels aside.
LEMMA PongDraws ==
    ASSUME NEW p, Rally(p), NEW s, DOMAIN s = Surface, PongShows(p, s)
    PROVE  /\ pong_draw(p, s)[2] = [q \in Surface |-> pong_draw(p, s)[2][q]]
           /\ \A q \in Surface \ Covered(p) : pong_draw(p, s)[2][q] = PongPicture(PongNow(p))[q]
           /\ pong_draw(p, s)[1] = [p EXCEPT !.full = FALSE, !.drawn = PongNow(p)]
<1> DEFINE d == p.drawn
           now == PongNow(p)
           full == draw_scores(p, draw_net(Blank2, 0, PongH))
           part == Restored(p, s, d, now)
           base == IF p.full THEN full ELSE part
           t1 == gfx_fill(base, 0, now.left, 1, PaddleH, 1)
           t2 == gfx_fill(t1, PongW - 1, now.right, 1, PaddleH, 1)
           t3 == gfx_fill(t2, now.x, now.y, 1, 1, 1)
<1>1. pong_draw(p, s) = <<[p EXCEPT !.full = FALSE, !.drawn = now], t3>>
  BY Zenon DEF pong_draw, PongNow, Restored
<1>2. now.x \in Int /\ now.y \in Int /\ now.left \in Int /\ now.right \in Int /\ now.scores = p.scores
  BY NowIs, Zenon
<1>3. now = PongNow(p) /\ d = p.drawn
  BY Zenon
<1>4. DOMAIN part = Surface
  BY Zenon DEF Restored, gfx_fill, draw_net, draw_scores
<1>5. ASSUME NEW q \in Surface, s[q] = PongPicture(d)[q], ~InFront(q, now) PROVE part[q] = Behind(q, p.scores)
  <2> HIDE DEF now, d
  <2> QED
    BY <1>3, <1>5, CourtRestored, ZenonT(30)
<1> HIDE DEF now, d, part
<1>6. DOMAIN full = Surface /\ \A q \in Surface : full[q] = Behind(q, p.scores)
  <2>1. \A q \in Surface : DOMAIN full = Surface /\ full[q] = Behind(q, p.scores)
    BY FullCourt, Zenon
  <2> HIDE DEF full
  <2> QED
    BY <2>1, HasField, Zenon
<1> HIDE DEF full
<1>7. DOMAIN base = Surface
  BY <1>4, <1>6, Zenon
<1>8. ASSUME NEW q \in Surface \ Covered(p), ~InFront(q, now) PROVE base[q] = Behind(q, p.scores)
  <2>1. CASE p.full
    BY <1>6, <2>1, Zenon
  <2>2. CASE ~p.full
    <3>1. s[q] = PongPicture(d)[q]
      BY <2>2, Zenon DEF PongShows, d
    <3> QED
      BY <1>5, <1>8, <2>2, <3>1, Zenon
  <2> QED
    BY <2>1, <2>2, Zenon
<1> HIDE DEF base
<1>9. PongW - 1 \in Int /\ PaddleH \in Int
  BY Court
<1>10. \A q \in Surface : DOMAIN t1 = Surface /\ t1[q] = IF IsLeft(q, now.left) THEN 1 ELSE base[q]
  <2> SUFFICES ASSUME NEW q \in Surface
      PROVE  DOMAIN t1 = Surface /\ t1[q] = IF IsLeft(q, now.left) THEN 1 ELSE base[q]
    BY Zenon
  <2>1. /\ DOMAIN t1 = Surface
        /\ t1[q] = IF q[1] = 0 /\ q[2] \in now.left .. now.left + PaddleH - 1 THEN 1 ELSE base[q]
    BY <1>2, <1>7, <1>9, FillAt, SMTT(30)
  <2> HIDE DEF t1
  <2> QED
    BY <2>1, Zenon DEF IsLeft
<1> HIDE DEF t1
<1>11. \A q \in Surface : DOMAIN t2 = Surface /\ t2[q] = IF IsRight(q, now.right) THEN 1 ELSE t1[q]
  <2> SUFFICES ASSUME NEW q \in Surface
      PROVE  DOMAIN t2 = Surface /\ t2[q] = IF IsRight(q, now.right) THEN 1 ELSE t1[q]
    BY Zenon
  <2>1. /\ DOMAIN t2 = Surface
        /\ t2[q] = IF q[1] = PongW - 1 /\ q[2] \in now.right .. now.right + PaddleH - 1 THEN 1 ELSE t1[q]
    BY <1>2, <1>9, <1>10, FillAt, SMTT(30)
  <2> HIDE DEF t2
  <2> QED
    BY <2>1, Zenon DEF IsRight
<1> HIDE DEF t2
<1>12. \A q \in Surface : DOMAIN t3 = Surface /\ t3[q] = IF IsBall(q, now) THEN 1 ELSE t2[q]
  <2> SUFFICES ASSUME NEW q \in Surface
      PROVE  DOMAIN t3 = Surface /\ t3[q] = IF IsBall(q, now) THEN 1 ELSE t2[q]
    BY Zenon
  <2>1. DOMAIN t2 = Surface
    BY <1>11, HasField, Zenon
  <2> QED
    BY <1>2, <2>1, DotAt, SMTT(30)
<1>13. t3 = [q \in Surface |-> t3[q]]
  <2>1. DOMAIN t2 = Surface
    BY <1>11, HasField, Zenon
  <2> QED
    BY <2>1, Zenon DEF gfx_fill
<1> HIDE DEF t3
<1>14. ASSUME NEW q \in Surface \ Covered(p) PROVE t3[q] = PongPicture(now)[q]
  <2>1. PongPicture(now)[q] = IF InFront(q, now) THEN 1 ELSE Behind(q, p.scores)
    BY <1>2, Zenon DEF PongPicture
  <2> QED
    BY <1>8, <1>10, <1>11, <1>12, <2>1, Zenon DEF InFront
<1>15. pong_draw(p, s)[2] = t3 /\ pong_draw(p, s)[1] = [p EXCEPT !.full = FALSE, !.drawn = now]
  BY <1>1
<1> QED
  BY <1>13, <1>14, <1>15, <1>3, Zenon

-----------------------------------------------------------------------------
(* What the runtime draws. *)

\* The runtime and a surface that lacks only what is marked to be drawn.
Clean(r) == Running(r) /\ r.dirty \in BOOLEAN /\ Tiles(r.tetris) /\ Rally(r.pong) /\ Sketch(r.digit)
Shows(r, s) ==
    /\ Clean(r) /\ DOMAIN s = Surface
    /\ r.screen = "menu" => r.dirty \/ s = gfx_text(Blank2, r.selected, 60)
    /\ r.screen = "tetris" => TetrisShows(r.tetris, s)
    /\ r.screen = "pong" => PongShows(r.pong, s)
Fresh(r, s) == Shows(r, s) /\ (r.screen = "digit" => DigitShows(r.digit, s))
Ready(r, s) == Shows(r, s) /\ (r.screen = "digit" => DigitLags(r.digit, s))

\* What is marked stays marked, and what was drawn last is remembered.
LEMMA StillShown ==
    ASSUME NEW s
    PROVE  /\ \A t, q : TetrisShows(t, s) /\ TetrisKept(t, q) => TetrisShows(q, s)
           /\ \A p, q : PongShows(p, s) /\ PongKept(p, q) => PongShows(q, s)
<1>1. ASSUME NEW t, NEW q, TetrisShows(t, s), TetrisKept(t, q) PROVE TetrisShows(q, s)
  BY <1>1, Zenon DEF TetrisShows, TetrisKept
<1>2. ASSUME NEW p, NEW q, PongShows(p, s), PongKept(p, q) PROVE PongShows(q, s)
  <2>1. CASE q.full = TRUE
    BY <2>1, Zenon DEF PongShows
  <2>2. CASE q.full = p.full /\ q.drawn = p.drawn /\ (Stopped(p) => Stopped(q))
    <3>1. Covered(p) \subseteq Covered(q)
      BY <2>2, Zenon DEF Covered
    <3> QED
      BY <1>2, <2>2, <3>1, Zenon DEF PongShows
  <2> QED
    BY <1>2, <2>1, <2>2, Zenon DEF PongKept
<1> QED
  BY <1>1, <1>2, Zenon

\* An event marks what it changes.
LEMMA EventFresh ==
    ASSUME NEW r, NEW s, Fresh(r, s), NEW e, NEW order, NEW answer
    PROVE  Fresh(runtime_event(r, e, order, answer), s)
<1> DEFINE q == runtime_event(r, e, order, answer)
<1>1. Running(r) /\ q = runtime_event(r, e, order, answer)
  BY Zenon DEF Fresh, Shows, Clean
<1>2. Clean(r) /\ DOMAIN s = Surface
  BY Zenon DEF Fresh, Shows
<1> HIDE DEF q
<1>3. ASSUME NEW a, Kept(r, a) PROVE Fresh(a, s)
  BY <1>3, Zenon DEF Fresh, Shows, Clean, Running, Kept
<1>4. ASSUME Turned(r, q, order) PROVE Fresh(q, s)
  <2>1. PICK b : \E screen \in Screens :
           Kept(r, b) /\ b.acted = {} /\ b.stale = Keys /\ q = change_screen(b, screen, order)
    BY <1>4, Zenon DEF Turned
  <2>2. PICK screen \in Screens : q = change_screen(b, screen, order)
    BY <2>1, Zenon
  <2>3. Changed(b, q, screen, order)
    BY <2>1, <2>2, ScreenIs, Zenon DEF Kept
  <2>4. Clean(b)
    BY <1>3, <2>1, Zenon DEF Fresh, Shows
  <2>5. /\ Tiles(tetris_init(order)) /\ tetris_init(order).dirty = TRUE
        /\ Rally(pong_init) /\ pong_init.full = TRUE /\ Sketch(digit_ui_clear) /\ digit_ui_clear.dirty = TRUE
    BY InitTiles, InitRally, ClearSketch, Zenon
  <2>6. Clean(q) /\ q.screen = screen /\ q.dirty = TRUE
    BY <2>3, <2>4, <2>5, Zenon DEF Changed, Clean, Running
  <2>7. /\ screen = "tetris" => q.tetris.dirty = TRUE
        /\ screen = "pong" => q.pong.full = TRUE
        /\ screen = "digit" => q.digit.dirty = TRUE
    BY <2>3, <2>5, Zenon DEF Changed
  <2> QED
    BY <1>2, <2>6, <2>7, Zenon DEF Fresh, Shows, TetrisShows, PongShows, DigitShows
<1>5. ASSUME Entered(r, e, q, order, answer) PROVE Fresh(q, s)
  <2>1. PICK a : Kept(r, a) /\ q = Pressed(a, e.key, order, answer)
    BY <1>5, Zenon DEF Entered
  <2>2. Fresh(a, s)
    BY <1>3, <2>1, Zenon
  <2>3. Clean(a) /\ Running(a) /\ Tiles(a.tetris) /\ Rally(a.pong) /\ Sketch(a.digit)
    BY <2>2, Zenon DEF Fresh, Shows, Clean
  <2>4. Answered(a, q, e.key, order, answer)
    BY <2>1, <2>3, PressedIs, Zenon
  <2> DEFINE t == tetris_event(a.tetris, e.key, order)
             p == PongKey(a.pong, e.key)
             u == digit_ui_event(a.digit, e.key, answer)
  <2>5. Tiles(t) /\ TetrisKept(a.tetris, t)
    BY <2>3, EventTiles, Zenon
  <2>6. Rally(p) /\ PongKept(a.pong, p)
    BY <2>3, PongEvent, Zenon
  <2>7. Sketch(u) /\ (u.dirty = TRUE \/ u = a.digit)
    BY <2>3, DigitEvent, Zenon
  <2>8. /\ Acted(a, q, p, t, u) /\ q.selected \in 1 .. 5
        /\ q.dirty = TRUE \/ (q.selected = a.selected /\ q.dirty = a.dirty)
    BY <2>4, Zenon DEF Answered
  <2> HIDE DEF p, t, u
  <2>9. Clean(q) /\ q.screen = a.screen
    BY <2>3, <2>5, <2>6, <2>7, <2>8, Zenon DEF Acted, Clean, Running
  <2>10. q.screen = "menu" => q.dirty \/ s = gfx_text(Blank2, q.selected, 60)
    BY <2>2, <2>8, <2>9, Zenon DEF Fresh, Shows
  <2>11. q.screen = "tetris" => TetrisShows(q.tetris, s)
    BY <2>2, <2>5, <2>8, StillShown, Zenon DEF Fresh, Shows, Acted
  <2>12. q.screen = "pong" => PongShows(q.pong, s)
    BY <2>2, <2>6, <2>8, StillShown, Zenon DEF Fresh, Shows, Acted
  <2>13. q.screen = "digit" => DigitShows(q.digit, s)
    BY <2>2, <2>7, <2>8, Zenon DEF Fresh, Acted, DigitShows
  <2> QED
    BY <1>2, <2>9, <2>10, <2>11, <2>12, <2>13, Zenon DEF Fresh, Shows
<1>6. Noted(r, e, q) => Fresh(q, s)
  BY <1>3, Zenon DEF Noted
<1>7. Fresh(q, s)
  BY <1>1, <1>4, <1>5, <1>6, EventIs, SMTT(30)
<1> QED
  BY <1>7, Zenon DEF q

\* So does a batch of events.
LEMMA DrainedFresh ==
    ASSUME NEW r, NEW s, Fresh(r, s), NEW batch \in Batches, NEW order, NEW answer
    PROVE  Fresh(Drained(r, batch, order, answer), s)
<1> DEFINE ans == Drained(r, batch, order, answer)
<1>1. \/ ans = r
      \/ \E e : ans = runtime_event(r, e, order, answer)
      \/ \E e, f : ans = runtime_event(runtime_event(r, e, order, answer), f, order, answer)
  BY DrainedIs, Zenon
<1>2. \A q, e : Fresh(q, s) => Fresh(runtime_event(q, e, order, answer), s)
  BY EventFresh, Zenon
<1> HIDE DEF ans
<1>3. Fresh(ans, s)
  BY <1>1, <1>2, Zenon
<1> QED
  BY <1>3, Zenon DEF ans

\* A frame marks what it changes, the brush's cells aside.
LEMMA FrameReady ==
    ASSUME NEW r, NEW s, Fresh(r, s), NEW keysHeld, NEW order
    PROVE  Ready(runtime_frame(r, keysHeld, order), s)
<1> DEFINE q == runtime_frame(r, keysHeld, order)
           keys == keysHeld \ StillBlocked(r.blocked, keysHeld)
           t == tetris_frame(r.tetris, keys, order)
           p == pong_frame(r.pong, keys)
           u == digit_ui_frame(r.digit, keys)
<1>1. Clean(r) /\ Running(r) /\ Tiles(r.tetris) /\ Rally(r.pong) /\ Sketch(r.digit) /\ DOMAIN s = Surface
  BY Zenon DEF Fresh, Shows, Clean
<1>2. PICK o : Advanced(r, o, keysHeld, order) /\ (q = o \/ Left(o, q, keysHeld))
  BY <1>1, FrameIs, Zenon
<1>3. Tiles(t) /\ TetrisKept(r.tetris, t)
  BY <1>1, FrameTiles, Zenon
<1>4. Rally(p) /\ PongKept(r.pong, p)
  BY <1>1, PongFrame, Zenon
<1>5. r.screen = "digit" => Sketch(u) /\ DigitLags(u, s)
  BY <1>1, DigitFrame, Zenon DEF Fresh
<1>6. /\ DOMAIN o = Parts /\ o.screen = r.screen /\ o.selected = r.selected /\ o.dirty = r.dirty
      /\ o.pong = (IF r.screen = "pong" THEN p ELSE r.pong)
      /\ o.tetris = (IF r.screen = "tetris" THEN t ELSE r.tetris)
      /\ o.digit = (IF r.screen = "digit" THEN u ELSE r.digit)
  BY <1>2, Zenon DEF Advanced
<1> HIDE DEF q, keys, t, p, u
<1>7. Clean(o)
  BY <1>1, <1>3, <1>4, <1>5, <1>6, Zenon DEF Clean, Running
<1>8. Ready(o, s)
  <2>1. o.screen = "menu" => o.dirty \/ s = gfx_text(Blank2, o.selected, 60)
    BY <1>6, Zenon DEF Fresh, Shows
  <2>2. o.screen = "tetris" => TetrisShows(o.tetris, s)
    BY <1>3, <1>6, StillShown, Zenon DEF Fresh, Shows
  <2>3. o.screen = "pong" => PongShows(o.pong, s)
    BY <1>4, <1>6, StillShown, Zenon DEF Fresh, Shows
  <2>4. o.screen = "digit" => DigitLags(o.digit, s)
    BY <1>5, <1>6, Zenon
  <2> QED
    BY <1>1, <1>7, <2>1, <2>2, <2>3, <2>4, Zenon DEF Ready, Shows
<1>9. Left(o, q, keysHeld) => Ready(q, s)
  <2>1. Left(o, q, keysHeld) => Clean(q) /\ q.screen = "menu" /\ q.dirty = TRUE
    BY <1>7, Zenon DEF Left, Clean, Running, Screens
  <2> QED
    BY <1>1, <2>1, Zenon DEF Ready, Shows
<1>10. Ready(q, s)
  BY <1>2, <1>8, <1>9, Zenon
<1> QED
  BY <1>10, Zenon DEF q

\* The whole picture of the state.
Overlaid(p, s) == IF Stopped(p) THEN gfx_fill(s, 1, 1, PongW - 2, 1, IF p.phase = "over" THEN 51 ELSE 52) ELSE s
PongScreen(p) == Overlaid(p, PongPicture(PongNow(p)))
IsPicture(r, s) ==
    /\ r.screen = "menu" => s = gfx_text(Blank2, r.selected, 60)
    /\ r.screen = "tetris" => s = TetrisPicture(TetrisCells(r.tetris), TetrisText(r.tetris))
    /\ r.screen = "pong" => s = PongScreen(r.pong)
    /\ r.screen = "digit" => s = DigitPicture(r.digit.canvas, r.digit.result, r.digit.x, r.digit.y)
    /\ r.screen \in {"3d", "gpu"} => s = demo_draw(r.demo[r.screen], IF r.screen = "3d" THEN 1 ELSE 2)

\* The pictures cover the surface.
LEMMA PictureSize ==
    /\ \A n, v : DOMAIN gfx_text(Blank2, n, v) = Surface
    /\ \A d, n : DOMAIN demo_draw(d, n) = Surface
    /\ \A cells, text : DOMAIN TetrisPicture(cells, text) = Surface
    /\ \A k, v, x, y : DOMAIN DigitPicture(k, v, x, y) = Surface
    /\ \A p : DOMAIN PongScreen(p) = Surface
<1>1. DOMAIN Blank2 = Surface
  BY Zenon DEF Blank2, Surface
<1>2. \A s, n, v : DOMAIN gfx_text(s, n, v) = DOMAIN s
  BY Zenon DEF gfx_text
<1>3. \A d, n : DOMAIN demo_draw(d, n) = Surface
  BY <1>1, <1>2 DEF demo_draw
<1>4. \A p : DOMAIN PongScreen(p) = Surface
  BY Zenon DEF PongScreen, Overlaid, PongPicture, gfx_fill
<1> QED
  BY <1>1, <1>2, <1>3, <1>4, Zenon DEF TetrisPicture, DigitPicture

\* The overlay hides what is under it.
LEMMA OverlayIs ==
    ASSUME NEW p, NEW s, s = [q \in Surface |-> s[q]],
           \A q \in Surface \ Covered(p) : s[q] = PongPicture(PongNow(p))[q]
    PROVE  /\ Overlaid(p, s) = PongScreen(p)
           /\ \A q \in Surface \ Covered(p) : PongScreen(p)[q] = PongPicture(PongNow(p))[q]
<1> DEFINE text == IF p.phase = "over" THEN 51 ELSE 52
           pic == PongPicture(PongNow(p))
           Fill(f) == [q \in Surface |-> IF q \in Covered(p) THEN text ELSE f[q]]
<1>1. DOMAIN pic = Surface
  BY Zenon DEF PongPicture
<1>2. pic = [q \in Surface |-> pic[q]]
  BY Zenon DEF PongPicture
<1> HIDE DEF pic, text
<1>3. CASE Stopped(p)
  <2>1. 1 .. 1 + (PongW - 2) - 1 = 1 .. PongW - 2 /\ 1 .. 1 + 1 - 1 = {1}
    BY Court
  <2>2. \A q \in Surface : q \in Covered(p) <=> (q[1] \in 1 .. 1 + (PongW - 2) - 1 /\ q[2] \in 1 .. 1 + 1 - 1)
    BY <1>3, <2>1, Zenon DEF Covered
  <2>3. \A f : DOMAIN f = Surface => gfx_fill(f, 1, 1, PongW - 2, 1, text) = Fill(f)
    BY <2>2, Zenon DEF gfx_fill
  <2>4. Fill(s) = Fill(pic)
    BY Zenon DEF pic
  <2>5. PongScreen(p) = gfx_fill(pic, 1, 1, PongW - 2, 1, text)
    BY <1>3, Zenon DEF PongScreen, Overlaid, pic, text
  <2>6. gfx_fill(s, 1, 1, PongW - 2, 1, text) = Fill(s) /\ PongScreen(p) = Fill(pic)
    BY <1>1, <2>3, <2>5, Zenon
  <2> QED
    BY <1>3, <2>4, <2>6, Zenon DEF Overlaid, pic, text
<1>4. CASE ~Stopped(p)
  <2>1. Covered(p) = {}
    BY <1>4, Zenon DEF Covered
  <2>2. PongScreen(p) = pic
    BY <1>4, Zenon DEF PongScreen, Overlaid, pic
  <2>3. \A q \in Surface : s[q] = pic[q]
    BY <2>1, Zenon DEF pic
  <2> QED
    BY <1>2, <1>4, <2>1, <2>2, <2>3, Zenon DEF Overlaid, pic
<1> QED
  BY <1>3, <1>4, Zenon

\* A drawing pass completes the picture.
LEMMA DrawPicture ==
    ASSUME NEW r, NEW s, Ready(r, s), NEW ans, ans = runtime_draw(r, s)
    PROVE  IsPicture(r, ans[2]) /\ IsPicture(ans[1], ans[2]) /\ Fresh(ans[1], ans[2])
<1> DEFINE q == ans[1]
           v == ans[2]
           t == tetris_draw(r.tetris, s)
           p == pong_draw(r.pong, s)
           u == digit_ui_draw(r.digit, s)
<1>1. Clean(r) /\ Running(r) /\ Tiles(r.tetris) /\ Rally(r.pong) /\ Sketch(r.digit) /\ DOMAIN s = Surface
  BY Zenon DEF Ready, Shows, Clean
<1>2. Acted(r, q, p[1], t[1], u[1]) /\ q.selected = r.selected /\ q.dirty = FALSE /\ q.demo = r.demo
  BY <1>1, DrawIs, ZenonT(30)
<1>3. /\ r.screen = "menu" => v = IF r.dirty THEN gfx_text(Blank2, r.selected, 60) ELSE s
      /\ r.screen = "tetris" => v = t[2]
      /\ r.screen = "pong" => v = Overlaid(r.pong, p[2])
      /\ r.screen = "digit" => v = u[2]
      /\ r.screen \in {"3d", "gpu"} => v = demo_draw(r.demo[r.screen], IF r.screen = "3d" THEN 1 ELSE 2)
  <2> HIDE DEF t, p, u
  <2>1. CASE r.screen = "tetris"
    BY <2>1, Zenon DEF runtime_draw, t
  <2>2. CASE r.screen = "pong"
    BY <2>2, Zenon DEF runtime_draw, p, Overlaid, Stopped
  <2>3. CASE r.screen = "digit"
    BY <2>3, Zenon DEF runtime_draw, u
  <2>4. CASE r.screen \in {"3d", "gpu"}
    BY <2>4, Zenon DEF runtime_draw
  <2>5. CASE r.screen = "menu"
    BY <2>5, Zenon DEF runtime_draw
  <2> QED
    BY <1>1, <2>1, <2>2, <2>3, <2>4, <2>5, Zenon DEF Running, Screens
<1> HIDE DEF q, v
<1>4. CASE r.screen = "tetris"
  <2> DEFINE cells == TetrisCells(r.tetris)
             text == TetrisText(r.tetris)
  <2>1. t[2] = TetrisPicture(cells, text) /\ t[1] = [r.tetris EXCEPT !.drawn = cells, !.text = text, !.dirty = FALSE]
    BY <1>1, <1>4, TetrisDraws, Zenon DEF Ready, Shows
  <2>2. v = t[2] /\ q.tetris = t[1] /\ q.screen = "tetris" /\ q.pong = r.pong /\ q.digit = r.digit /\ DOMAIN q = Parts
    BY <1>2, <1>3, <1>4, Zenon DEF Acted
  <2> HIDE DEF t, cells, text
  <2>3. /\ Tiles(t[1]) /\ t[1].drawn = cells /\ t[1].text = text /\ t[1].dirty = FALSE
        /\ t[1].phase = r.tetris.phase /\ t[1].piece = r.tetris.piece /\ t[1].x = r.tetris.x /\ t[1].y = r.tetris.y
        /\ t[1].rotation = r.tetris.rotation /\ t[1].board = r.tetris.board
        /\ t[1].score = r.tetris.score /\ t[1].lines = r.tetris.lines /\ t[1].next = r.tetris.next
    BY <1>1, <2>1 DEF Tiles, TetrisParts
  <2>4. TetrisCells(t[1]) = cells /\ TetrisText(t[1]) = text
    BY <2>3, Zenon DEF cells, text, TetrisCells, TetrisText
  <2>5. IsPicture(r, v) /\ IsPicture(q, v)
    BY <1>4, <2>1, <2>2, <2>4, Zenon DEF IsPicture, cells, text
  <2>6. Clean(q) /\ DOMAIN v = Surface
    <3>1. DOMAIN v = Surface
      BY <2>1, <2>2, PictureSize
    <3>2. Clean(q)
      BY <1>1, <1>2, <2>1, <2>2, <2>3, Zenon DEF Clean, Running, Screens
    <3> QED
      BY <3>1, <3>2, Zenon
  <2>7. TetrisShows(q.tetris, v)
    BY <2>1, <2>2, <2>3, Zenon DEF TetrisShows
  <2> QED
    BY <2>2, <2>5, <2>6, <2>7, Zenon DEF Fresh, Shows, q, v
<1>5. CASE r.screen = "pong"
  <2> DEFINE now == PongNow(r.pong)
  <2>1. /\ p[2] = [x \in Surface |-> p[2][x]]
        /\ \A x \in Surface \ Covered(r.pong) : p[2][x] = PongPicture(now)[x]
        /\ p[1] = [r.pong EXCEPT !.full = FALSE, !.drawn = now]
    BY <1>1, <1>5, PongDraws, Zenon DEF Ready, Shows
  <2>2. /\ v = PongScreen(r.pong)
        /\ \A x \in Surface \ Covered(r.pong) : PongScreen(r.pong)[x] = PongPicture(now)[x]
    <3>1. v = Overlaid(r.pong, p[2])
      BY <1>3, <1>5, Zenon
    <3> HIDE DEF p
    <3> QED
      BY <2>1, <3>1, OverlayIs, ZenonT(30)
  <2>3. q.pong = p[1] /\ q.screen = "pong" /\ q.tetris = r.tetris /\ q.digit = r.digit /\ DOMAIN q = Parts
    BY <1>2, <1>5, Zenon DEF Acted
  <2>4. now.x \in Int /\ now.y \in Int /\ now.left \in Int /\ now.right \in Int
    BY <1>1, NowIs, Zenon
  <2> HIDE DEF p, now
  <2>5. /\ DOMAIN p[1] = PongParts /\ p[1].full = FALSE /\ p[1].drawn = now /\ p[1].phase = r.pong.phase
        /\ p[1].x = r.pong.x /\ p[1].y = r.pong.y /\ p[1].vx = r.pong.vx /\ p[1].vy = r.pong.vy
        /\ p[1].left = r.pong.left /\ p[1].right = r.pong.right /\ p[1].scores = r.pong.scores
    BY <1>1, <2>1 DEF Rally, PongParts
  <2>6. Rally(p[1])
    BY <1>1, <2>4, <2>5, Zenon DEF Rally
  <2>7. PongNow(p[1]) = now /\ Covered(p[1]) = Covered(r.pong) /\ (Stopped(p[1]) <=> Stopped(r.pong))
    BY <2>5, Zenon DEF now, PongNow, Covered, Stopped
  <2>8. PongScreen(p[1]) = PongScreen(r.pong)
    BY <2>5, <2>7, Zenon DEF PongScreen, Overlaid, now
  <2>9. IsPicture(r, v) /\ IsPicture(q, v)
    BY <1>5, <2>2, <2>3, <2>8, Zenon DEF IsPicture
  <2>10. Clean(q) /\ DOMAIN v = Surface
    BY <1>1, <1>2, <2>2, <2>3, <2>6, PictureSize, Zenon DEF Clean, Running, Screens
  <2>11. PongShows(q.pong, v)
    BY <2>2, <2>3, <2>5, <2>7, Zenon DEF PongShows
  <2> QED
    BY <2>3, <2>9, <2>10, <2>11 DEF Fresh, Shows, q, v
<1>6. CASE r.screen = "digit"
  <2>1. /\ u[2] = DigitPicture(r.digit.canvas, r.digit.result, r.digit.x, r.digit.y)
        /\ u[1] = [r.digit EXCEPT !.dirty = FALSE, !.drawnX = r.digit.x, !.drawnY = r.digit.y]
    BY <1>1, <1>6, DigitDraws, Zenon DEF Ready, Shows
  <2>2. v = u[2] /\ q.digit = u[1] /\ q.screen = "digit" /\ q.pong = r.pong /\ q.tetris = r.tetris /\ DOMAIN q = Parts
    BY <1>2, <1>3, <1>6, Zenon DEF Acted
  <2> HIDE DEF u
  <2>3. /\ DOMAIN u[1] = DigitParts /\ u[1].dirty = FALSE /\ u[1].drawnX = r.digit.x /\ u[1].drawnY = r.digit.y
        /\ u[1].x = r.digit.x /\ u[1].y = r.digit.y /\ u[1].canvas = r.digit.canvas /\ u[1].result = r.digit.result
        /\ u[1].painting = r.digit.painting
    BY <1>1, <2>1, Zenon DEF Sketch, DigitParts
  <2>4. Sketch(u[1])
    BY <1>1, <2>3, Zenon DEF Sketch
  <2>5. IsPicture(r, v) /\ IsPicture(q, v)
    BY <1>6, <2>1, <2>2, <2>3, ZenonT(30) DEF IsPicture
  <2>6. Clean(q) /\ DOMAIN v = Surface
    <3>1. DOMAIN v = Surface
      BY <2>1, <2>2, PictureSize
    <3>2. Clean(q)
      BY <1>1, <1>2, <2>1, <2>2, <2>4, Zenon DEF Clean, Running, Screens
    <3> QED
      BY <3>1, <3>2, Zenon
  <2>7. DigitShows(q.digit, v)
    BY <2>1, <2>2, <2>3, Zenon DEF DigitShows
  <2> QED
    BY <2>2, <2>5, <2>6, <2>7, Zenon DEF Fresh, Shows, q, v
<1>7. CASE r.screen \in {"menu", "3d", "gpu"}
  <2>1. /\ q.screen = r.screen /\ q.pong = r.pong /\ q.tetris = r.tetris /\ q.digit = r.digit /\ DOMAIN q = Parts
    BY <1>2, <1>7, Zenon DEF Acted
  <2>2. r.screen = "menu" => v = gfx_text(Blank2, r.selected, 60)
    BY <1>3, Zenon DEF Ready, Shows
  <2>3. IsPicture(r, v) /\ IsPicture(q, v)
    BY <1>2, <1>3, <1>7, <2>1, <2>2, ZenonT(30) DEF IsPicture
  <2>4. Clean(q) /\ DOMAIN v = Surface
    <3>1. DOMAIN v = Surface
      <4>1. CASE r.screen = "menu"
        BY <2>2, <4>1, PictureSize, ZenonT(30)
      <4>2. CASE r.screen \in {"3d", "gpu"}
        BY <1>3, <4>2, PictureSize, Zenon
      <4> QED
        BY <1>7, <4>1, <4>2, Zenon
    <3>2. Clean(q)
      BY <1>1, <1>2, <1>3, <1>7, <2>1, <2>2, Zenon DEF Clean, Running, Screens
    <3> QED
      BY <3>1, <3>2, Zenon
  <2> QED
    BY <1>2, <1>7, <2>1, <2>2, <2>3, <2>4, Zenon DEF Fresh, Shows, q, v
<1> QED
  BY <1>1, <1>4, <1>5, <1>6, <1>7, Zenon DEF Running, Screens

\* A drawing from nothing gives the whole picture.
LEMMA FullPicture ==
    ASSUME NEW r, Clean(r), NEW s, IsPicture(r, s)
    PROVE  s = InFull(r)
<1> DEFINE g == [r EXCEPT !.dirty = TRUE, !.tetris.dirty = TRUE, !.pong.full = TRUE, !.digit.dirty = TRUE]
           v == runtime_draw(g, Blank2)[2]
<1>1. /\ DOMAIN g = Parts /\ g.screen = r.screen /\ g.selected = r.selected /\ g.dirty = TRUE /\ g.demo = r.demo
      /\ g.tetris = [r.tetris EXCEPT !.dirty = TRUE] /\ g.pong = [r.pong EXCEPT !.full = TRUE]
      /\ g.digit = [r.digit EXCEPT !.dirty = TRUE]
  BY Zenon DEF Clean, Running, Parts
<1>2. InFull(r) = v
  BY Zenon DEF InFull
<1> HIDE DEF g
<1>3. /\ Tiles(g.tetris) /\ g.tetris.dirty = TRUE /\ TetrisCells(g.tetris) = TetrisCells(r.tetris)
      /\ TetrisText(g.tetris) = TetrisText(r.tetris)
  <2>1. /\ Tiles(g.tetris) /\ g.tetris.dirty = TRUE
        /\ g.tetris.phase = r.tetris.phase /\ g.tetris.piece = r.tetris.piece /\ g.tetris.x = r.tetris.x
        /\ g.tetris.y = r.tetris.y /\ g.tetris.rotation = r.tetris.rotation /\ g.tetris.board = r.tetris.board
        /\ g.tetris.score = r.tetris.score /\ g.tetris.lines = r.tetris.lines /\ g.tetris.next = r.tetris.next
    <3>1. Tiles(r.tetris)
      BY Zenon DEF Clean
    <3>2. g.tetris = [r.tetris EXCEPT !.dirty = TRUE]
      BY <1>1, Zenon
    <3>3. SameGame(r.tetris, g.tetris)
      BY <3>1, <3>2, MarkedTiles, Zenon
    <3> QED
      BY <3>3, Zenon DEF SameGame
  <2> QED
    BY <2>1, Zenon DEF TetrisCells, TetrisText
<1>4. Rally(g.pong) /\ g.pong.full = TRUE /\ PongScreen(g.pong) = PongScreen(r.pong)
  <2>1. /\ Rally(g.pong) /\ g.pong.full = TRUE /\ g.pong.phase = r.pong.phase
        /\ g.pong.x = r.pong.x /\ g.pong.y = r.pong.y /\ g.pong.left = r.pong.left /\ g.pong.right = r.pong.right
        /\ g.pong.scores = r.pong.scores
    BY <1>1 DEF Clean, Rally, PongParts
  <2> QED
    BY <2>1, Zenon DEF PongScreen, Overlaid, PongNow, Stopped
<1>5. /\ Sketch(g.digit) /\ g.digit.dirty = TRUE /\ g.digit.canvas = r.digit.canvas /\ g.digit.result = r.digit.result
      /\ g.digit.x = r.digit.x /\ g.digit.y = r.digit.y
  BY <1>1 DEF Clean, Sketch, DigitParts
<1>6. DOMAIN Blank2 = Surface
  BY Zenon DEF Blank2, Surface
<1>7. Ready(g, Blank2)
  BY <1>1, <1>3, <1>4, <1>5, <1>6, Zenon DEF Ready, Shows, Clean, Running, TetrisShows, PongShows, DigitLags
<1>8. IsPicture(g, v)
  BY <1>7, DrawPicture, Zenon
<1> HIDE DEF v
<1>9. v = s
  BY <1>1, <1>3, <1>4, <1>5, <1>8 DEF IsPicture, Clean, Running, Screens
<1> QED
  BY <1>2, <1>9, Zenon

\* The menu is to be drawn at first.
LEMMA FreshInit == AppsInit => Fresh(app, shown)
<1> SUFFICES ASSUME AppsInit PROVE Fresh(app, shown)
  BY Zenon
<1>1. PICK order \in BagOrders, n \in DOMAIN Entries : app = [runtime_init(order) EXCEPT !.selected = n]
  BY Zenon DEF AppsInit
<1>2. /\ Running(app) /\ app.tetris = tetris_init(order) /\ app.pong = pong_init /\ app.digit = digit_ui_clear
      /\ app.screen = "menu" /\ app.dirty = TRUE
  BY <1>1 DEF runtime_init, Running, Parts, Screens, Entries
<1>3. DOMAIN shown = Surface
  BY Zenon DEF AppsInit, Blank2, Surface
<1>4. Tiles(tetris_init(order)) /\ Rally(pong_init) /\ Sketch(digit_ui_clear)
  BY InitTiles, InitRally, ClearSketch, Zenon
<1> QED
  BY <1>2, <1>3, <1>4, Zenon DEF Fresh, Shows, Clean

\* Every iteration ends with the whole picture.
LEMMA FreshStep ==
    Fresh(app, shown) /\ [AppsNext]_appsVars =>
        Fresh(app, shown)' /\ (appsVars' = appsVars \/ (~app'.quit => shown' = InFull(app')))
<1> SUFFICES ASSUME Fresh(app, shown), AppsNext
    PROVE  Fresh(app', shown') /\ (~app'.quit => shown' = InFull(app'))
  BY Zenon DEF appsVars
<1>1. PICK batch \in Batches, order \in BagOrders, answer \in Answers : Iteration(batch, order, answer)
  BY Zenon DEF AppsNext
<1> DEFINE z == [app EXCEPT !.acted = {}]
           r == Drained(z, batch, order, answer)
           f == runtime_frame(r, keyboard', order)
           ans == runtime_draw(f, shown)
<1>2. IF r.quit THEN app' = r /\ shown' = shown ELSE app' = ans[1] /\ shown' = ans[2]
  BY <1>1, Zenon DEF Iteration
<1>3. Fresh(z, shown)
  <2>1. Kept(app, z)
    BY Zenon DEF Kept, Fresh, Shows, Clean, Running, Parts
  <2> HIDE DEF z
  <2> QED
    BY <2>1, Zenon DEF Kept, Fresh, Shows, Clean, Running
<1>4. Fresh(r, shown)
  BY <1>3, DrainedFresh, Zenon
<1>5. Ready(f, shown)
  BY <1>4, FrameReady, Zenon
<1>6. IsPicture(ans[1], ans[2]) /\ Fresh(ans[1], ans[2])
  BY <1>5, DrawPicture, Zenon
<1>7. ans[2] = InFull(ans[1])
  <2>1. Clean(ans[1])
    BY <1>6, Zenon DEF Fresh, Shows
  <2> HIDE DEF ans
  <2> QED
    BY <1>6, <2>1, FullPicture, Zenon
<1> HIDE DEF r, ans
<1> QED
  BY <1>2, <1>4, <1>6, <1>7, Zenon

\* Drawing only what changed never shows, on a screen of any game, for every board, every
\* court, every brush and every player: what an application remembers to have drawn is
\* what stands on the surface, unless a full drawing is marked (runtime_draw()).
THEOREM ScreenIsFresh == AppsInit /\ [][AppsNext]_appsVars => ScreenFresh
<1>1. Fresh(app, shown) /\ [AppsNext]_appsVars => [~app'.quit => shown' = InFull(app')]_appsVars
  BY FreshStep, Zenon
<1> QED
  BY <1>1, FreshInit, FreshStep, PTL DEF ScreenFresh

=============================================================================
