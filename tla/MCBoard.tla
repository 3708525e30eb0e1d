------------------------------- MODULE MCBoard -------------------------------
(***************************************************************************)
(* The board around the hart and what drives it: the disk (Virtio) and the *)
(* file system on it (Tfs), the drawing engine G1 with its driver, the     *)
(* console with the shell behind it, and the graphical programs.  They     *)
(* share no state here, so a behaviour runs one of them, which it chooses  *)
(* first.                                                                  *)
(***************************************************************************)
EXTENDS Virtio, Tfs, G1, Console, Apps

VARIABLE part

vars == <<part, virtioVars, tfsVars, g1Vars, consoleVars, appsVars>>

(***************************************************************************)
(* A directory of an earlier boot: one sound entry, one fs_mount refuses,  *)
(* or the refused one in front of the sound one.                           *)
(***************************************************************************)
MCFormats ==
    LET blank == [name |-> "", first |-> 0, capacity |-> 0, size |-> 0]
        sound == [name |-> "a", first |-> 2, capacity |-> 2, size |-> 3]
        bad   == [name |-> "b", first |-> 4, capacity |-> 1, size |-> 9]
    IN  {<<sound, blank, blank>>, <<bad, blank, blank>>, <<bad, sound, blank>>}
MCTexts == {<<1>>, <<1, 2, 3>>}

(***************************************************************************)
(* G1: figures that cross every edge, flat and turned triangles, blits     *)
(* that overlap in both directions, and the commands it refuses.           *)
(***************************************************************************)
MCCommands ==
    LET ink == [Clear EXCEPT !.color = 9]
        screen == [ink EXCEPT !.op = "blit", !.src = FbBase, !.stride = 3, !.sw = 3, !.sh = 3, !.w = 2]
        memory == [ink EXCEPT !.op = "blit", !.sw = 2, !.sh = 2, !.h = 2]
    IN  {[ink EXCEPT !.op = "fill", !.x0 = -1, !.y0 = 1, !.w = 3, !.h = 4],
         [ink EXCEPT !.op = "fill", !.x0 = 3, !.w = 1, !.h = 1],
         [ink EXCEPT !.op = "line", !.x0 = 2, !.x1 = -1, !.y1 = 2],
         [ink EXCEPT !.op = "line", !.x0 = 1, !.y0 = 2, !.x1 = 1],
         [ink EXCEPT !.op = "triangle", !.x1 = 3, !.y2 = 3],
         [ink EXCEPT !.op = "triangle", !.x0 = 3, !.y0 = 3, !.y1 = 3, !.x2 = 3, !.y2 = -1],
         [ink EXCEPT !.op = "triangle", !.x1 = 1, !.x2 = 2],
         [screen EXCEPT !.h = 2, !.x0 = 1, !.y0 = 1],
         [screen EXCEPT !.h = 3, !.sx = 1, !.sy = -1],
         [memory EXCEPT !.stride = 3, !.w = 3, !.x0 = -1, !.y0 = 2],
         [memory EXCEPT !.src = 1, !.stride = 2, !.w = 2, !.x0 = 1],
         [memory EXCEPT !.src = FbBase, !.stride = 2, !.w = 2],
         [ink EXCEPT !.op = "line", !.x1 = 9],
         [ink EXCEPT !.op = "fill", !.color = ColorMax + 1, !.w = 1, !.h = 1],
         [ink EXCEPT !.op = "none"]}
MCWindows == {<<2, 6>>}

\* The console: more jobs than the shell holds, both line ends, an escape sequence,
\* a line longer than the buffer, and a prompt typed back.
MCTyped ==
    {<<"j", "&", "nl", "j", " ", "&", "nl", "j", "&", "nl", "w", "nl">>,
     <<"j", "cr", "nl", "j", "&", "nl", "h", "nl">>,
     <<"esc", "[", "1", "A", "h", "tab", "1", "1", "del", "nl">>,
     <<"j", "1", "1", "1", "^u", "h", "esc", "^u", "nl">>,
     <<"$", " ", "nl", "h", " ", "j", "cr", "h", "nl">>}
MCPrompt == <<"$", " ">>

\* Two dominoes, which turn into each other.
MCShapes ==
    LET flat == {<<0, 0>>, <<1, 0>>}
        tall == {<<0, 0>>, <<0, 1>>}
    IN  <<<<flat, tall, flat, tall>>, <<tall, flat, tall, flat>>>>
MCBagOrders == {<<1, 2>>, <<2, 1>>}
MCHands ==
    {{"enter", "space", "p"}, {"enter", "up", "right"}, {"enter", "left", "space"},
     {"enter", "esc", "down"}, {"enter", "r", "space"}, {"up", "down", "q"}}

Init ==
    /\ part \in {"virtio", "tfs", "g1", "console", "apps"}
    /\ VirtioInit /\ (part # "virtio" => backend = "emulator")
    /\ TfsInit /\ (part # "tfs" => ondisk = CHOOSE f \in Formats : TRUE)
    /\ G1Init
    /\ ConsoleInit
    /\ part # "console" => guest = "shell" /\ con.gated /\ log.typed = CHOOSE t \in Typed : TRUE
    /\ AppsInit
    /\ part # "apps" => /\ app = runtime_init(CHOOSE o \in BagOrders : TRUE)
                        /\ hand = CHOOSE h \in Hands : TRUE

Next ==
    /\ UNCHANGED part
    /\ \/ /\ part = "virtio" /\ VirtioNext
          /\ UNCHANGED <<tfsVars, g1Vars, consoleVars, appsVars>>
       \/ /\ part = "tfs" /\ TfsNext
          /\ UNCHANGED <<virtioVars, g1Vars, consoleVars, appsVars>>
       \/ /\ part = "g1" /\ G1Next
          /\ UNCHANGED <<virtioVars, tfsVars, consoleVars, appsVars>>
       \/ /\ part = "console" /\ ConsoleNext
          /\ UNCHANGED <<virtioVars, tfsVars, g1Vars, appsVars>>
       \/ /\ part = "apps" /\ AppsNext
          /\ UNCHANGED <<virtioVars, tfsVars, g1Vars, consoleVars>>

Spec == Init /\ [][Next]_vars

=============================================================================
