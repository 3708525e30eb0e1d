-------------------------------- MODULE Gdb --------------------------------
(***************************************************************************)
(* The GDB stub of tools/rv32_gdb.c between a client and the run loop of   *)
(* tools/rv32emu_core.c: packets and acknowledgements over a byte stream,  *)
(* the breakpoint table, step, continue, Ctrl-C, detach, kill, hang-up,    *)
(* and the end of the run in tools/rv32emu.c.                              *)
(*                                                                         *)
(* A packet is one token, its payload reduced to a command and an address. *)
(* The guest is a flow of program counters; one step is one action, so the *)
(* client acts between any two.  Step counts are kept as what is left of   *)
(* the budgets they are compared with.                                     *)
(***************************************************************************)
EXTENDS Naturals, Sequences, SequencesExt

CONSTANTS
    NoLimit,       \* --max-instructions of a run nobody bounds
    Flow,          \* pc -> the pc after its instruction
    Presents,      \* the pcs whose instruction presents a frame
    Guests,        \* [limit |-> --max-instructions, exits |-> the pcs whose
                   \*  instruction writes the done register]
    PollInterval,  \* POLL_INTERVAL
    MaxBreakpoints,\* MAX_BREAKPOINTS
    MaxAttempts,   \* how often a reply is sent (16)
    Points,        \* the breakpoints the client uses, [at, kind]
    Jumps          \* the addresses it moves the pc to

ASSUME GdbAssumption ==
    /\ PollInterval \in Nat \ {0}
    /\ NoLimit \notin Nat
    /\ \A g \in Guests : g.limit \in Nat \cup {NoLimit}

Pcs == DOMAIN Flow

VARIABLES
    guest,         \* one of Guests
    pc, halt,      \* the machine
    left,          \* limit - steps, or NoLimit
    phase,         \* where gdb_serve and main are
    ack, gone,     \* gdb_state
    broke,         \* {break_pc} while at_break, else {}
    bp,            \* bp[0 .. bps-1]
    out,           \* the reply in g->out
    attempt,       \* how often it has been sent
    run,           \* resume()'s locals
    end,           \* gdb_end
    rx, tx,        \* bytes on their way to and from the stub
    asked,         \* client: the packet it waits for an answer to
    acked,         \* client: that packet is acknowledged
    client,        \* client: "open" or "closed"
    pressed,       \* client: Ctrl-C sent since the request
    touched,       \* history: the client moved the pc of a bounded run
    stopped,       \* history: the pc, if the last stop reported is a breakpoint
    fresh,         \* history: no step since the resume
    wanted,        \* history: the breakpoints the client was told are set
    status         \* the exit status, or "none"

machineVars == <<guest, pc, halt, left>>
stubVars == <<phase, ack, gone, broke, bp, out, attempt, run, end, status>>
clientVars == <<asked, acked, client, pressed>>
histVars == <<touched, stopped, fresh, wanted>>
gdbVars == <<machineVars, stubVars, rx, tx, clientVars, histVars>>

Queries == {"query", "write", "insert", "remove", "noack"}
Resumes == {"cont", "step", "contat"}
Commands == Queries \cup Resumes \cup {"detach", "kill", "vkill"}

\* Commands with an address name a breakpoint or a pc, the others nothing.
Token(cmd, arg, good) == [cmd |-> cmd, arg |-> arg, good |-> good]
Byte(c) == Token(c, {}, TRUE)

Args(cmd) ==
    CASE cmd \in {"insert", "remove"} -> {{p} : p \in Points}
      [] cmd \in {"write", "contat"} -> {{at} : at \in Jumps}
      [] OTHER -> {{}}

Arg(t) == CHOOSE a \in t.arg : TRUE

-----------------------------------------------------------------------------
(* The connection. *)

\* send_all: once the client has closed its end a send may fail.
Send(what) ==
    IF client = "open"
    THEN tx' = tx \o what /\ UNCHANGED gone
    ELSE gone' \in {gone, TRUE} /\ UNCHANGED tx

\* next_byte on a closed and drained connection.
Lost == client = "closed" /\ rx = <<>>

\* reply(): the reply that send_reply sends next.
Reply(what) == out' = what /\ attempt' = 0 /\ phase' = "send"

SameReply == UNCHANGED <<out, attempt>>

-----------------------------------------------------------------------------
(* resume *)

FindBreakpoint(at) == \E i \in DOMAIN bp : bp[i].at = at

Idle == [stepping |-> FALSE, poll |-> 0, budget |-> 0, shown |-> FALSE]

\* emu_run_until(m, budget) is entered with the frame count as it is.
Enter(stepping, poll) ==
    run' = [stepping |-> stepping, poll |-> poll, shown |-> FALSE,
            budget |-> IF stepping \/ bp # <<>> THEN 1 ELSE PollInterval]

\* A stop other than a halt: the reply and what the next continue starts from.
Stop(what) ==
    /\ broke' = IF what = "T05break" THEN {pc'} ELSE {}
    /\ stopped' = IF what = "T05break" THEN {pc'} ELSE {}
    /\ Reply(what)
    /\ run' = Idle
    /\ UNCHANGED end

\* The head of resume()'s loop: the pc is compared before it executes.
Loop(check, poll) ==
    IF check /\ FindBreakpoint(pc')
    THEN Stop("T05break")
    ELSE /\ Enter(FALSE, poll)
         /\ phase' = "run"
         /\ SameReply
         /\ UNCHANGED <<broke, stopped, end>>

\* Bug: the first pc of a continue is never compared.
FromBreakAlways(at) == TRUE

\* Only a continue from the breakpoint that caused the last stop steps over it.
FromBreak(at) == at \in broke

\* emu_run_until's loop: the limit is tested before the budget, and a present
\* returns at once.
Halts == halt # "running" \/ left = 0

Steps == halt = "running" /\ ~run.shown /\ left # 0 /\ run.budget > 0

\* Bug: single steps are not counted against the limit.
LeftUnlessStepping(l) == IF l = NoLimit \/ run.stepping THEN l ELSE l - 1

LeftAfter(l) == IF l = NoLimit THEN l ELSE l - 1

StepMachine ==
    /\ pc' = Flow[pc]
    /\ halt' = IF pc \in guest.exits THEN "done" ELSE halt
    /\ left' = LeftAfter(left)
    /\ UNCHANGED guest

\* One step of the guest inside emu_run_until.
GuestStep ==
    /\ phase = "run"
    /\ Steps
    /\ StepMachine
    /\ run' = [run EXCEPT !.budget = @ - 1,
                          !.poll = IF @ = 0 THEN 0 ELSE @ - 1,
                          !.shown = pc \in Presents]
    /\ fresh' = FALSE
    /\ UNCHANGED <<phase, ack, gone, broke, bp, out, attempt, end, status,
                   rx, tx, clientVars, touched, stopped, wanted>>

\* The guest halted: gdb_serve returns with the socket open.
RunHalted ==
    /\ phase = "run"
    /\ ~run.shown
    /\ Halts
    /\ halt' = IF halt = "running" THEN "limit" ELSE halt
    /\ end' = "HALTED"
    /\ phase' = "finish"
    /\ broke' = {}
    /\ run' = Idle
    /\ UNCHANGED <<guest, pc, left, ack, gone, bp, out, attempt, status, rx, tx,
                   clientVars, histVars>>

Returned == phase = "run" /\ halt = "running" /\ ~Steps /\ (run.shown \/ left # 0)

StepReturned ==
    /\ Returned
    /\ run.stepping
    /\ UNCHANGED machineVars
    /\ Stop("T05")
    /\ UNCHANGED <<ack, gone, bp, status, rx, tx, clientVars, touched, fresh, wanted>>

\* Bug: a run with breakpoints is never polled.
PollsUnlessBreakpoints == run.poll = 0 /\ bp = <<>>

Polls == run.poll = 0

ContinueReturned ==
    /\ Returned
    /\ ~run.stepping
    /\ ~Polls
    /\ UNCHANGED machineVars
    /\ Loop(TRUE, run.poll)
    /\ UNCHANGED <<ack, gone, bp, status, rx, tx, clientVars, touched, fresh, wanted>>

\* interrupted(): everything that arrived is drained.
ContinuePolls ==
    LET hit == \E i \in DOMAIN rx : rx[i].cmd = "^C"
    IN  /\ Returned
        /\ ~run.stepping
        /\ Polls
        /\ rx' = <<>>
        /\ gone' = (gone \/ client = "closed")
        /\ UNCHANGED machineVars
        /\ \/ hit /\ Stop("T02")
           \/ /\ ~hit /\ gone'
              /\ end' = "KILLED"
              /\ phase' = "over"
              /\ broke' = {}
              /\ run' = Idle
              /\ UNCHANGED <<stopped, out, attempt>>
           \/ ~hit /\ ~gone' /\ Loop(TRUE, PollInterval)
        /\ UNCHANGED <<ack, bp, status, tx, clientVars, touched, fresh, wanted>>

-----------------------------------------------------------------------------
(* gdb_serve: one packet. *)

\* Bug: the checksum is verified in no-ack mode too, and nobody retransmits.
RejectsAlways(t) == ~t.good

\* In acknowledgement mode a bad packet is answered with "-" and dropped.
Rejects(t) == ack /\ ~t.good

Reading == phase = "read" /\ ~gone

\* Bytes outside a packet, and packets read_packet drops.
Skip ==
    /\ Reading
    /\ rx # <<>>
    /\ \/ Head(rx).cmd \notin Commands /\ UNCHANGED <<tx, gone>>
       \/ Head(rx).cmd \in Commands /\ Rejects(Head(rx)) /\ Send(IF ack THEN <<"-">> ELSE <<>>)
    /\ rx' = Tail(rx)
    /\ UNCHANGED <<machineVars, phase, ack, broke, bp, out, attempt, run, end,
                   status, clientVars, histVars>>

\* The packet is taken and, in acknowledgement mode, acknowledged.
Takes(cmd) ==
    /\ Reading
    /\ rx # <<>>
    /\ Head(rx).cmd = cmd
    /\ ~Rejects(Head(rx))
    /\ rx' = Tail(rx)
    /\ tx' = IF ack /\ client = "open" THEN Append(tx, "+") ELSE tx
    /\ UNCHANGED gone

Kept == UNCHANGED <<ack, run, end, status, clientVars>>

\* ?, g, p, m, H, T, q..., and every request answered E01 or with nothing.
Query ==
    /\ Takes("query")
    /\ Reply("data")
    /\ Kept
    /\ UNCHANGED <<machineVars, broke, bp, histVars>>

\* P or G of the pc.
WriteRegister ==
    /\ Takes("write")
    /\ pc' = Arg(Head(rx))
    /\ touched' = (left # NoLimit)
    /\ Reply("OK")
    /\ Kept
    /\ UNCHANGED <<guest, halt, left, broke, bp, stopped, fresh, wanted>>

Inserted(p) == IF Contains(bp, p) \/ Len(bp) = MaxBreakpoints THEN bp ELSE Append(bp, p)

\* The last entry takes the removed one's place.
WithoutEntry(s, i) == Front([s EXCEPT ![i] = Last(s)])

Removed(p) ==
    IF Contains(bp, p) THEN WithoutEntry(bp, SelectInSeq(bp, LAMBDA b : b = p)) ELSE bp

HandleBreakpoint ==
    /\ \/ /\ Takes("insert")
          /\ bp' = Inserted(Arg(Head(rx)))
          /\ Reply(IF Contains(bp', Arg(Head(rx))) THEN "OK" ELSE "E01")
          /\ wanted' = IF out' = "OK" THEN wanted \cup Head(rx).arg ELSE wanted
       \/ /\ Takes("remove")
          /\ bp' = Removed(Arg(Head(rx)))
          /\ Reply(IF Contains(bp, Arg(Head(rx))) THEN "OK" ELSE "E01")
          /\ wanted' = wanted \ Head(rx).arg
    /\ Kept
    /\ UNCHANGED <<machineVars, broke, touched, stopped, fresh>>

\* c and s, with or without an address.
HandleResume ==
    /\ \E cmd \in Resumes : Takes(cmd)
    /\ LET t == Head(rx)
       IN  /\ pc' = IF t.cmd = "contat" THEN Arg(t) ELSE pc
           /\ touched' = (touched \/ (t.cmd = "contat" /\ left # NoLimit))
           /\ fresh' = TRUE
           /\ IF t.cmd = "step"
              THEN /\ Enter(TRUE, 0)
                   /\ phase' = "run"
                   /\ SameReply
                   /\ UNCHANGED <<broke, stopped, end>>
              ELSE Loop(~FromBreak(pc'), PollInterval)
    /\ UNCHANGED <<guest, halt, left, ack, bp, status, clientVars, wanted>>

\* QStartNoAckMode's own reply is still acknowledged.
StartNoAckMode ==
    /\ Takes("noack")
    /\ Reply("OKnoack")
    /\ Kept
    /\ UNCHANGED <<machineVars, broke, bp, histVars>>

\* D and vKill are answered, k is not.
EndSession ==
    /\ \E cmd \in {"detach", "kill", "vkill"} :
       /\ Takes(cmd)
       /\ end' = IF cmd = "detach" THEN "DETACHED" ELSE "KILLED"
       /\ IF cmd = "kill" THEN phase' = "over" /\ SameReply ELSE Reply("OKend")
    /\ UNCHANGED <<machineVars, ack, broke, bp, run, status, clientVars, histVars>>

\* The connection is gone while a packet is awaited, or a packet is dropped because its
\* acknowledgement cannot be sent.
ReadFails ==
    /\ phase = "read"
    /\ \/ (gone \/ Lost) /\ UNCHANGED rx
       \/ /\ Reading /\ rx # <<>> /\ client = "closed"
          /\ Head(rx).cmd \in Commands /\ ack /\ ~Rejects(Head(rx))
          /\ rx' = Tail(rx)
    /\ gone' = TRUE
    /\ phase' = "over"
    /\ UNCHANGED <<machineVars, ack, broke, bp, out, attempt, run, end, status,
                   tx, clientVars, histVars>>

-----------------------------------------------------------------------------
(* send_reply *)

AfterReply(o) == IF o = "OKend" THEN "over" ELSE IF o = "W" THEN "exit" ELSE "read"

\* No-ack mode begins once the reply to QStartNoAckMode is out.
AckAfter(o) == ack /\ o # "OKnoack"

SendReply ==
    /\ phase = "send"
    /\ IF gone THEN UNCHANGED <<tx, gone>> ELSE Send(<<out>>)
    /\ attempt' = IF ack THEN attempt + 1 ELSE 0
    /\ IF gone' \/ ~ack
       THEN phase' = AfterReply(out) /\ ack' = AckAfter(out) /\ out' = "none"
       ELSE phase' = "ack" /\ UNCHANGED <<ack, out>>
    /\ UNCHANGED <<machineVars, broke, bp, run, end, status, rx, clientVars,
                   histVars>>

\* "+" ends the exchange, "-" sends again, anything else is ignored; a client that
\* rejects every attempt is given up.
AwaitAck ==
    /\ phase = "ack"
    /\ \/ rx # <<>> /\ rx' = Tail(rx)
       \/ Lost /\ UNCHANGED rx
    /\ LET c == IF rx = <<>> THEN "lost" ELSE Head(rx).cmd
           spent == c = "-" /\ attempt = MaxAttempts
           done == c \in {"+", "lost"} \/ spent
       IN  /\ gone' = (gone \/ c = "lost" \/ spent)
           /\ phase' = IF done THEN AfterReply(out) ELSE IF c = "-" THEN "send" ELSE "ack"
           /\ ack' = IF done THEN AckAfter(out) ELSE ack
           /\ out' = IF done THEN "none" ELSE out
           /\ attempt' = IF done THEN 0 ELSE attempt
    /\ UNCHANGED <<machineVars, broke, bp, run, end, status, tx,
                   clientVars, histVars>>

-----------------------------------------------------------------------------
(* The end of the session and of the run (main). *)

\* Killed or lost: the machine is stopped.  Detached: it runs on alone.
CloseSession ==
    /\ phase = "over"
    /\ halt' = IF end = "KILLED" THEN "stopped" ELSE halt
    /\ phase' = IF end = "KILLED" THEN "finish" ELSE "alone"
    /\ UNCHANGED <<guest, pc, left, ack, gone, broke, bp, out, attempt, run, end, status,
                   rx, tx, clientVars, histVars>>

RunAlone ==
    /\ phase = "alone"
    /\ IF Halts
       THEN /\ halt' = IF halt = "running" THEN "limit" ELSE halt
            /\ phase' = "finish"
            /\ UNCHANGED <<guest, pc, left>>
       ELSE StepMachine /\ UNCHANGED phase
    /\ UNCHANGED <<ack, gone, broke, bp, out, attempt, run, end, status, rx, tx,
                   clientVars, histVars>>

\* emu_report_halt: the guest's word, or the emulator's error.
HaltStatus(h) == IF h = "done" THEN "pass" ELSE "error"

\* gdb_report_exit: only a client that is still connected is told.
Finish ==
    /\ phase = "finish"
    /\ status' = HaltStatus(halt)
    /\ IF end = "HALTED"
       THEN Reply("W")
       ELSE phase' = "exit" /\ SameReply
    /\ UNCHANGED <<machineVars, ack, gone, broke, bp, run, end, rx, tx, clientVars,
                   histVars>>

Exited == phase = "exit" /\ UNCHANGED gdbVars

-----------------------------------------------------------------------------
(* The client (external): one request at a time, acknowledged as the       *)
(* protocol asks; Ctrl-C and hang-up at any moment.                        *)

ClientOpen == client = "open" /\ phase # "exit"

Nothing == Byte("none")

Ask ==
    /\ ClientOpen
    /\ asked = Nothing
    /\ tx = <<>>
    /\ \E cmd \in Commands, good \in BOOLEAN : \E arg \in Args(cmd) :
       /\ cmd = "noack" => ack
       /\ rx' = Append(rx, Token(cmd, arg, good))
       /\ asked' = Token(cmd, arg, TRUE)
    /\ pressed' = FALSE
    /\ acked' = ~AckAfter(out)
    /\ UNCHANGED <<machineVars, stubVars, tx, client, histVars>>

\* What the stub has sent is read; a reply is acknowledged or rejected.
ClientReads ==
    /\ client = "open"
    /\ tx # <<>>
    /\ tx' = Tail(tx)
    /\ \/ /\ Head(tx) = "+"
          /\ acked' = TRUE
          /\ UNCHANGED <<rx, asked, client, pressed>>
       \/ /\ Head(tx) = "-"
          /\ rx' = Append(rx, asked)
          /\ UNCHANGED <<asked, acked, client, pressed>>
       \/ /\ Head(tx) \notin {"+", "-"}
          /\ \/ /\ rx' = IF ack THEN Append(rx, Byte("+")) ELSE rx
                /\ asked' = Nothing
                /\ acked' = FALSE
                /\ pressed' = FALSE
             \/ ack /\ rx' = Append(rx, Byte("-")) /\ UNCHANGED <<asked, acked, pressed>>
          /\ client' = IF Head(tx) \in {"OKend", "W"} /\ asked' = Nothing THEN "closed" ELSE client
    /\ UNCHANGED <<machineVars, stubVars, histVars>>

\* Ctrl-C follows a resume the stub has acknowledged.
CtrlC ==
    /\ ClientOpen
    /\ asked.cmd \in Resumes
    /\ acked
    /\ ~pressed
    /\ pressed' = TRUE
    /\ rx' = Append(rx, Byte("^C"))
    /\ UNCHANGED <<machineVars, stubVars, tx, asked, acked, client, histVars>>

HangUp ==
    /\ ClientOpen
    /\ client' = "closed"
    /\ tx' = <<>>
    /\ UNCHANGED <<machineVars, stubVars, rx, asked, acked, pressed, histVars>>

-----------------------------------------------------------------------------

\* gdb_accept: one client is connected and the machine is at its reset pc.
GdbInit ==
    /\ pc = 0 /\ halt = "running"
    /\ guest \in Guests
    /\ left = guest.limit
    /\ phase = "read"
    /\ ack = TRUE /\ gone = FALSE
    /\ broke = {}
    /\ bp = <<>>
    /\ out = "none" /\ attempt = 0
    /\ run = Idle
    /\ end = "KILLED"
    /\ rx = <<>> /\ tx = <<>>
    /\ asked = Nothing /\ acked = FALSE /\ client = "open" /\ pressed = FALSE
    /\ touched = FALSE /\ stopped = {} /\ fresh = FALSE /\ wanted = {}
    /\ status = "none"

Stub ==
    \/ Skip \/ Query \/ WriteRegister \/ HandleBreakpoint \/ HandleResume \/ StartNoAckMode
    \/ EndSession \/ ReadFails \/ SendReply \/ AwaitAck \/ CloseSession \/ Finish
    \/ GuestStep \/ RunHalted \/ StepReturned \/ ContinueReturned \/ ContinuePolls \/ RunAlone

GdbNext == Stub \/ Ask \/ ClientReads \/ CtrlC \/ HangUp \/ Exited

\* The stub's process runs, and the client reads what it is sent.
GdbFairness == WF_gdbVars(Stub) /\ WF_gdbVars(ClientReads)

GdbSpec == GdbInit /\ [][GdbNext]_gdbVars /\ GdbFairness

-----------------------------------------------------------------------------
(* Properties *)

\* The run without a debugger: the machine after n steps.
PlainStep(m) ==
    IF m.halt = "done" THEN m
    ELSE [pc |-> Flow[m.pc], halt |-> IF m.pc \in guest.exits THEN "done" ELSE "running"]

PlainRun ==
    LET at[n \in 0 .. guest.limit] ==
            IF n = 0 THEN [pc |-> 0, halt |-> "running"] ELSE PlainStep(at[n - 1])
    IN  at

PlainHalt == IF PlainRun[guest.limit].halt = "done" THEN "done" ELSE "limit"

\* A client that only looks, sets breakpoints, steps, continues, interrupts or
\* detaches does not change the run: after any number of steps the machine is where
\* the run without a debugger is, and the exit status is that run's unless the
\* client killed it (docs/rv32-gdb.md; rv32_gdb.c resume over emu_run_until).
SameRun ==
    (left # NoLimit /\ ~touched) =>
        /\ pc = PlainRun[guest.limit - left].pc
        /\ (halt = "running") => (PlainRun[guest.limit - left].halt = "running")
        /\ (halt \in {"done", "limit"}) => (halt = PlainHalt)
        /\ (status # "none" /\ end # "KILLED") => (status = HaltStatus(PlainHalt))

\* A continue never executes an instruction that the client has a breakpoint at, except
\* as its first one when the last stop told the client of that very breakpoint; and a
\* breakpoint stop is only ever reported where the client has one, however often it
\* inserted or removed it (rv32_gdb.c resume, handle_resume, handle_breakpoint).
BreakpointsHonoured ==
    [][/\ (GuestStep /\ ~run.stepping /\ \E p \in wanted : p.at = pc)
            => (fresh /\ pc \in stopped)
       /\ (out' = "T05break" /\ out # "T05break") => \E p \in wanted : p.at = pc']_gdbVars

Over == client = "closed" \/ gone

\* Every request but a resume is answered while the connection lasts, whatever the
\* checksum and the acknowledgement mode (rv32_gdb.c read_packet, send_reply).
RequestAnswered == (asked.cmd \in Queries) ~> (asked = Nothing \/ Over)

\* Ctrl-C gets a running guest stopped and the client its stop reply, also when it
\* races a breakpoint, the end of the run or a hang-up (rv32_gdb.c interrupted).
InterruptStops == (asked.cmd \in Resumes /\ pressed) ~> (asked = Nothing \/ Over)

=============================================================================
