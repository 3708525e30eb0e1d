------------------------------- MODULE MCHost -------------------------------
(***************************************************************************)
(* Instances of what surrounds the machine on the host.  The three parts   *)
(* do not interact: a behaviour is one of the debugger's, of the window's  *)
(* or of the start-up's.                                                   *)
(***************************************************************************)
EXTENDS Gdb, Window, Startup

VARIABLE part

\* One instruction, then a loop of two, the first of which presents a frame.
MCFlow == (0 :> 1) @@ (1 :> 2) @@ (2 :> 1)

\* A run nobody bounds, one that the limit ends, one that the guest ends.
MCGuests ==
    {[limit |-> NoLimit, exits |-> {}], [limit |-> 2, exits |-> {}], [limit |-> 3, exits |-> {2}]}

MCPoints ==
    {[at |-> 0, kind |-> "sw"], [at |-> 1, kind |-> "sw"], [at |-> 1, kind |-> "hw"]}

\* Either Ctrl is one key.
MCKeyOf == ("lctrl" :> "ctrl") @@ ("rctrl" :> "ctrl") @@ ("left" :> "left")

Scripted(f, press, code) == [frame |-> f, e |-> Event(press, code)]

MCScripts ==
    {<<>>,
     <<Scripted(0, TRUE, "left"), Scripted(1, FALSE, "left"), Scripted(1, TRUE, "ctrl")>>,
     <<Scripted(1, TRUE, "left"), Scripted(2, FALSE, "left")>>}

\* Two spellings of a file that exists and of one that does not, a hard link, a link to
\* each, another file, a file in the frames directory, and a name that a volume which
\* ignores case takes for the new file's.
MCCanon ==
    ("a" :> "a") @@ ("./a" :> "a") @@ ("hard" :> "hard") @@ ("link" :> "link") @@ ("b" :> "b")
    @@ ("new" :> "new") @@ ("./new" :> "new") @@ ("newlink" :> "newlink") @@ ("d/f" :> "d/f")
    @@ ("New" :> "New")
MCInode ==
    [n \in DOMAIN MCCanon |->
        IF n \in {"a", "./a", "hard", "link"} THEN "A" ELSE IF n = "b" THEN "B" ELSE NoFile]
MCTarget ==
    [n \in DOMAIN MCCanon |-> IF n \in {"new", "./new", "newlink", "New"} THEN "N" ELSE n]
MCCommandLines ==
    LET some == {"a", "./a", "hard", "link", "new", "./new", "newlink", "New", "d/f", NoPath}
    IN  [image : {"a", "new"}, input : {NoPath, "b"}, disk : {NoPath, "b", "hard"},
         record : some, trace : some, checkpoints : {NoPath, "new"}, state : some,
         frames : {NoPath, "d"}]

vars == <<part, gdbVars, winVars, startVars>>

Still(f) ==
    /\ part = f
    /\ f # "gdb" => /\ GdbInit
                    /\ guest = [limit |-> 2, exits |-> {}]
    /\ f # "window" => WindowInit /\ script = <<>> /\ ~allow_lost_events
    /\ f # "startup" => /\ StartInit
                        /\ front = "rv32win"
                        /\ path = [r \in Roles |-> IF r = "image" THEN "a" ELSE NoPath]

Init ==
    \/ Still("gdb") /\ GdbInit
    \/ Still("window") /\ WindowInit
    \/ Still("startup") /\ StartInit

Next ==
    \/ part = "gdb" /\ GdbNext /\ UNCHANGED <<part, winVars, startVars>>
    \/ part = "window" /\ WindowNext /\ UNCHANGED <<part, gdbVars, startVars>>
    \/ part = "startup" /\ StartNext /\ UNCHANGED <<part, gdbVars, winVars>>

\* The debugger's fairness, the only one the properties need.
Debugger(A) == part = "gdb" /\ A /\ UNCHANGED <<part, winVars, startVars>>

Spec ==
    /\ Init /\ [][Next]_vars
    /\ WF_vars(Debugger(Stub)) /\ WF_vars(Debugger(ClientReads))

=============================================================================
