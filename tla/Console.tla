------------------------------- MODULE Console -------------------------------
(* The console from the host's input to the shell's commands: the emulator's  *)
(* 16550 subset with its input buffer and prompt gate                          *)
(* (tools/rv32emu_core.c), the line editor (programs/rv32/os/line.c) and the   *)
(* shell with its background jobs (programs/rv32/os/sh.c).  A byte is a name   *)
(* from a small set.  The guest is the shell, or a driver that also programs   *)
(* the divisor latch.                                                          *)
EXTENDS Integers, Sequences, SequencesExt

CONSTANTS Typed,         \* the host inputs to try, sequences of bytes
          Prompt,        \* --console-prompt
          Chunk,         \* most bytes one read of stdin returns
          Room,          \* LINE - 1
          Background,    \* places in the shell's job table
          MaxAccesses    \* bound on the accesses of the driver guest

VARIABLES con,           \* the device
          host,          \* what the host has not read yet (stdin)
          guest,         \* "shell" or "driver"
          ed,            \* the shell: where it is, and the line editor's state
          jobs4,         \* the shell's job table, pids; 0 is free
          log            \* history: the input, bytes delivered and sent, lines, jobs

consoleVars == <<con, host, guest, ed, jobs4, log>>

Finals == {"j", "w", "h", "A", "O"}                     \* letters: these end an escape sequence
Letters == Finals \cup {"1", "&", " ", "$", "["}

(***************************************************************************)
(* The device                                                              *)
(***************************************************************************)
\* Bug: stdin is read into the buffer although unread bytes are still in it.
PollsAlways(c) == c.stdin

\* Whether console_poll_stdin looks at stdin at all.
PollsStdin(c) == c.stdin /\ c.next >= Len(c.in)

\* The device and the host's input after the poll: nothing is there, the first n
\* bytes replace the used-up buffer, or the input has ended.
console_poll_stdin(c, h) ==
    IF ~PollsStdin(c) THEN {<<c, h>>}
    ELSE {<<c, h>>} \cup
         IF h = <<>> THEN {<<[c EXCEPT !.stdin = FALSE], h>>}
         ELSE {<<[c EXCEPT !.in = SubSeq(h, 1, n), !.next = 0], SubSeq(h, n + 1, Len(h))>> :
               n \in 1 .. (IF Len(h) < Chunk THEN Len(h) ELSE Chunk)}

console_rx_waiting(c) ==
    c.next < Len(c.in) /\ (c.gated => c.linesTaken < c.promptsSeen)

\* Each byte sent shifts into the tail; every match releases one more line.
console_watch_prompt(c, byte) ==
    LET all == Append(c.tail, byte)
        tail == IF Len(all) > Len(Prompt) THEN Tail(all) ELSE all
    IN  IF ~c.gated THEN c
        ELSE [c EXCEPT !.tail = tail, !.promptsSeen = IF tail = Prompt THEN @ + 1 ELSE @]

\* A read of RBR when a byte waits: that byte.
Taken(c) == [c EXCEPT !.next = @ + 1, !.linesTaken = IF c.in[c.next + 1] = "nl" THEN @ + 1 ELSE @]

\* A read of RBR: <<device, host, bytes taken>>.  With DLAB set it is the divisor's.
LoadRbr(c, h) ==
    IF c.dlab THEN {<<[c EXCEPT !.latched = @ + 1], h, <<>>>>}
    ELSE {IF console_rx_waiting(p[1]) THEN <<Taken(p[1]), p[2], <<p[1].in[p[1].next + 1]>>>>
          ELSE <<p[1], p[2], <<>>>> : p \in console_poll_stdin(c, h)}

Sent(c, bytes) ==
    IF c.dlab THEN [c EXCEPT !.latched = @ + Len(bytes)] ELSE FoldLeft(console_watch_prompt, c, bytes)

\* Setting DLAB counts the accesses to the latch afresh.
StoreLcr(c, dlab) == [c EXCEPT !.dlab = dlab, !.latched = IF dlab /\ ~c.dlab THEN 0 ELSE @]

(***************************************************************************)
(* The driver guest: any accesses, in any order                            *)
(***************************************************************************)
Driver ==
    /\ guest = "driver" /\ log.accesses < MaxAccesses
    /\ \/ \E r \in LoadRbr(con, host) :
            /\ con' = r[1] /\ host' = r[2]
            /\ log' = [log EXCEPT !.accesses = @ + 1, !.got = @ \o r[3]]
       \/ \E p \in console_poll_stdin(con, host) :              \* LSR, or IIR with RDI enabled
            /\ con' = p[1] /\ host' = p[2]
            /\ log' = [log EXCEPT !.accesses = @ + 1]
       \/ \E byte \in Range(Prompt) :
            /\ con' = Sent(con, <<byte>>)
            /\ log' = [log EXCEPT !.accesses = @ + 1, !.out = IF con.dlab THEN @ ELSE Append(@, byte)]
            /\ UNCHANGED host
       \/ \E dlab \in BOOLEAN :
            /\ con' = StoreLcr(con, dlab)
            /\ log' = [log EXCEPT !.accesses = @ + 1]
            /\ UNCHANGED host
    /\ UNCHANGED <<guest, ed, jobs4>>

(***************************************************************************)
(* The line editor                                                         *)
(***************************************************************************)
Begun(previous) == [pc |-> "read", escape |-> "text", line |-> <<>>, fits |-> TRUE, previous |-> previous, ended |-> FALSE]

AfterEscape(e, c) ==
    CASE e.escape = "after" -> IF c \in {"[", "O"} THEN "sequence" ELSE IF c = "esc" THEN "after" ELSE "text"
      [] e.escape = "sequence" -> IF c \in Finals THEN "text" ELSE "sequence"

\* One key of ordinary text.
Edited(e, c) ==
    CASE c = "del" -> [e EXCEPT !.line = IF @ = <<>> THEN @ ELSE Front(@)]
      [] c = "^u"  -> [e EXCEPT !.line = <<>>, !.fits = TRUE]
      [] c = "esc" -> [e EXCEPT !.escape = "after"]
      [] c \in Letters -> IF Len(e.line) < Room THEN [e EXCEPT !.line = Append(@, c)]
                          ELSE [e EXCEPT !.fits = FALSE]
      [] OTHER -> e

\* One byte read by line_edit; \r\n is one Enter.
line_edit(e, c) ==
    LET f == [e EXCEPT !.previous = c]
    IN  IF c = "nl" /\ e.previous = "cr" THEN f
        ELSE IF c \in {"cr", "nl"} THEN [f EXCEPT !.ended = TRUE]
        ELSE IF e.escape # "text" THEN [f EXCEPT !.escape = AfterEscape(e, c)]
        ELSE Edited(f, IF c = "tab" THEN " " ELSE c)

\* What the editor echoes for the byte; "x" stands for a bell or a rub-out.
Echo(e, f, c) ==
    IF f.ended THEN <<"nl">>
    ELSE IF Len(f.line) > Len(e.line) THEN <<Last(f.line)>>
    ELSE IF Len(f.line) < Len(e.line) THEN [i \in 1 .. Len(e.line) - Len(f.line) |-> "x"]
    ELSE IF e.escape = "text" /\ c \notin {"esc", "nl", "del", "^u"} THEN <<"x">> ELSE <<>>

\* The bytes a shell step sends, through the device and into the history.
SendAnd(bytes, c, l) ==
    /\ con' = Sent(c, bytes)
    /\ log' = [l EXCEPT !.out = @ \o bytes]

(***************************************************************************)
(* The shell                                                               *)
(***************************************************************************)
ShellAt(pc) == guest = "shell" /\ ed.pc = pc

PromptSent ==
    /\ ShellAt("prompt")
    /\ SendAnd(<<"$", " ">>, con, log)
    /\ ed' = Begun(ed.previous)
    /\ UNCHANGED <<host, guest, jobs4>>

\* The kernel's console read takes a byte when the status says one waits.
ReadByte ==
    /\ ShellAt("read")
    /\ \E p \in console_poll_stdin(con, host) :
         /\ host' = p[2]
         /\ IF console_rx_waiting(p[1])
            THEN LET c == p[1].in[p[1].next + 1]
                     f == line_edit(ed, c)
                     l == [log EXCEPT !.got = Append(@, c)]
                 IN  /\ SendAnd(Echo(ed, f, c), Taken(p[1]),
                                IF f.ended THEN [l EXCEPT !.lines = Append(@, [fits |-> f.fits, text |-> f.line])] ELSE l)
                     /\ ed' = IF f.ended THEN [f EXCEPT !.pc = IF f.fits THEN "run" ELSE "prompt"] ELSE f
            ELSE con' = p[1] /\ UNCHANGED <<ed, log>>
    /\ UNCHANGED <<guest, jobs4>>

TrimEnd(s) == LET keep == {i \in DOMAIN s : s[i] # " "}
              IN  IF keep = {} THEN <<>> ELSE SubSeq(s, 1, CHOOSE i \in keep : \A j \in keep : j <= i)

TrimStart(s) == Reverse(TrimEnd(Reverse(s)))

\* A line taken apart: spaces off, a final & off, the command and its arguments.
Command(line) ==
    LET s == TrimEnd(TrimStart(line))
        back == s # <<>> /\ Last(s) = "&"
        t == IF back THEN TrimEnd(Front(s)) ELSE s
        word == {i \in DOMAIN t : \A j \in 1 .. i : t[j] # " "}
        n == IF word = {} THEN 0 ELSE CHOOSE i \in word : \A j \in word : j <= i
    IN  [name |-> SubSeq(t, 1, n), args |-> TrimStart(SubSeq(t, n + 1, Len(t))), back |-> back]

Running(l) == l.spawned \ Range(l.waited)

\* wait_all: every job of the table is waited for, in the table's order.
WaitedAll(l) == [l EXCEPT !.waited = @ \o SelectSeq(jobs4, LAMBDA pid : pid # 0)]
NoJobs == [i \in 1 .. Background |-> 0]

\* Run the command; a program that cannot be run is only reported.
run ==
    LET c == Command(ed.line)
        pid == log.pid
        free == {i \in DOMAIN jobs4 : jobs4[i] = 0}
        first == CHOOSE i \in free : \A j \in free : i <= j
        started == [log EXCEPT !.pid = @ + 1, !.spawned = @ \cup {pid}]
        waited == [started EXCEPT !.waited = Append(@, pid)]
    IN  /\ c.name \notin {<<>>, <<"w">>, <<"h">>}
        /\ \/ UNCHANGED <<log, jobs4>>
           \/ ~c.back /\ log' = waited /\ UNCHANGED jobs4
           \/ c.back /\ free # {} /\ log' = started /\ jobs4' = [jobs4 EXCEPT ![first] = pid]
           \/ c.back /\ free = {} /\ log' = waited /\ UNCHANGED jobs4
        /\ ed' = [ed EXCEPT !.pc = "prompt"]

wait_all ==
    /\ Command(ed.line).name = <<"w">>
    /\ log' = WaitedAll(log) /\ jobs4' = NoJobs
    /\ ed' = [ed EXCEPT !.pc = "prompt"]

\* halt CODE waits for the jobs and stops the machine through the done register.
Halt4 ==
    /\ Command(ed.line).name = <<"h">>
    /\ IF \A i \in DOMAIN Command(ed.line).args : Command(ed.line).args[i] = "1"
       THEN log' = WaitedAll(log) /\ jobs4' = NoJobs /\ ed' = [ed EXCEPT !.pc = "halted"]
       ELSE ed' = [ed EXCEPT !.pc = "prompt"] /\ UNCHANGED <<log, jobs4>>

Nothing4 ==
    /\ Command(ed.line).name = <<>>
    /\ ed' = [ed EXCEPT !.pc = "prompt"]
    /\ UNCHANGED <<log, jobs4>>

Shell == ShellAt("run") /\ (run \/ wait_all \/ Halt4 \/ Nothing4) /\ UNCHANGED <<con, host, guest>>

\* A background job writes to the console while the shell reads a line.
JobWrites ==
    /\ ShellAt("read") /\ Running(log) # {} /\ log.accesses < MaxAccesses
    /\ SendAnd(<<"x">>, con, [log EXCEPT !.accesses = @ + 1])
    /\ UNCHANGED <<host, guest, ed, jobs4>>

\* emu_read_console_input and emu_set_console_prompt: stdin as it arrives, or a file
\* that is all there at the start, gated or not; a gate needs a file.
ConsoleInit ==
    /\ guest \in {"shell", "driver"}
    /\ \E typed \in Typed, source \in {"stdin", "file", "gated"} :
         /\ con = [stdin |-> source = "stdin", in |-> IF source = "stdin" THEN <<>> ELSE typed, next |-> 0,
                   gated |-> source = "gated", linesTaken |-> 0, promptsSeen |-> 0, tail |-> <<>>,
                   dlab |-> FALSE, latched |-> 0]
         /\ host = IF source = "stdin" THEN typed ELSE <<>>
         /\ log = [typed |-> typed, got |-> <<>>, out |-> <<>>, lines |-> <<>>, accesses |-> 0,
                   pid |-> 2, spawned |-> {}, waited |-> <<>>]
    /\ ed = [Begun("none") EXCEPT !.pc = "prompt"]
    /\ jobs4 = NoJobs

ConsoleNext == Driver \/ PromptSent \/ ReadByte \/ Shell \/ JobWrites

(***************************************************************************)
(* Properties                                                              *)
(***************************************************************************)
\* The reference for the editor: escape sequences taken out, then an editor whose
\* line has no end.
RECURSIVE Plain(_)
Plain(s) ==
    IF s = <<>> THEN <<>>
    ELSE IF Head(s) # "esc" THEN <<Head(s)>> \o Plain(Tail(s))
    ELSE IF Len(s) = 1 THEN <<>>
    ELSE IF s[2] = "esc" THEN Plain(Tail(s))
    ELSE IF s[2] \notin {"[", "O"} THEN Plain(SubSeq(s, 3, Len(s)))
    ELSE LET ends == {i \in 3 .. Len(s) : s[i] \in Finals}
         IN  IF ends = {} THEN <<>> ELSE Plain(SubSeq(s, (CHOOSE i \in ends : \A k \in ends : i <= k) + 1, Len(s)))

Endless(s) ==
    FoldLeft(LAMBDA t, c : IF c = "del" THEN IF t = <<>> THEN t ELSE Front(t)
                           ELSE IF c = "tab" THEN Append(t, " ")
                           ELSE IF c \in Letters THEN Append(t, c) ELSE t, <<>>, s)

AfterKill(s) == LET kills == {i \in DOMAIN s : s[i] = "^u"}
                IN  IF kills = {} THEN s ELSE SubSeq(s, (CHOOSE i \in kills : \A k \in kills : k <= i) + 1, Len(s))

RefLine4(bytes) ==
    LET s == AfterKill(Plain(bytes))
    IN  [fits |-> \A n \in 0 .. Len(s) : Len(Endless(SubSeq(s, 1, n))) <= Room, text |-> Endless(s)]

\* The lines of an input: what stands between one Enter and the next.
RefLines(bytes) ==
    LET half == {i \in DOMAIN bytes : bytes[i] = "nl" /\ i > 1 /\ bytes[i - 1] = "cr"}
        ends == {i \in DOMAIN bytes : bytes[i] \in {"cr", "nl"}} \ half
        at == SetToSortSeq(ends, <)
        From(k) == IF k = 1 THEN 1 ELSE at[k - 1] + (IF at[k - 1] + 1 \in half THEN 2 ELSE 1)
    IN  [k \in 1 .. Len(at) |-> RefLine4(SubSeq(bytes, From(k), at[k] - 1))]

PromptsIn(s) == {i \in DOMAIN s : i >= Len(Prompt) /\ SubSeq(s, i - Len(Prompt) + 1, i) = Prompt}
Newlines(s) == {i \in DOMAIN s : s[i] = "nl"}

\* From keyboard to command: no byte of the host's input is lost, doubled or out of
\* order, whatever pieces stdin returns it in; with --console-prompt no byte of a line
\* arrives before as many prompts were sent as lines were begun; the lines the shell
\* acts on are those typed, edited as if a line had no end, and one that would have
\* been cut is refused; no job is waited for twice and none is left at a halt.
SessionExact ==
    /\ IsPrefix(log.got, log.typed)
    /\ (con.gated /\ log.got # <<>>) =>
          Cardinality(Newlines(Front(log.got))) < Cardinality(PromptsIn(log.out))
    /\ LET ref == RefLines(log.got)
       IN  /\ Len(log.lines) = (IF guest = "shell" THEN Len(ref) ELSE 0)
           /\ \A k \in DOMAIN log.lines :
                 log.lines[k].fits = ref[k].fits /\ (ref[k].fits => log.lines[k].text = ref[k].text)
    /\ IsInjective(log.waited)
    /\ ed.pc = "halted" => Running(log) = {}

=============================================================================
