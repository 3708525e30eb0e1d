----------------------------- MODULE HostProofs -----------------------------
(***************************************************************************)
(* What is proved of the programs on the host.  For every command line,    *)
(* every set of links between files and every volume, one that ignores     *)
(* case included: no output file of a run is one of its inputs, and        *)
(* outputs share no file but where the volume takes two names for one.     *)
(* For every program and every conversation the debugger honours its       *)
(* breakpoints and leaves the run as it is without a debugger.             *)
(***************************************************************************)
EXTENDS Startup, Gdb, Induction, TLAPS

-----------------------------------------------------------------------------
(* The files of a run (Startup). *)

Streamed == {"record", "trace", "checkpoints", "state"}

\* The outputs main has dealt with when it reaches a stage.
Before(s) ==
    CASE s \in {"check", "inputs", "refused", "record"} -> {}
      [] s = "trace" -> {"record"}
      [] s = "checkpoints" -> {"record", "trace"}
      [] s \in {"compare", "run"} -> {"record", "trace", "checkpoints"}
      [] OTHER -> Streamed

Stages == {"check", "inputs", "refused", "record", "trace", "checkpoints", "compare", "run",
           "failed", "done"}

\* The file an output ends up in.
Lands(n) == IF Inode[n] # NoFile THEN Inode[n] ELSE Target[n]

StartType ==
    /\ front \in {"rv32emu", "rv32win"}
    /\ \A r \in Roles \ {"frames"} : path[r] \in Names \cup {NoPath}
    /\ front = "rv32win" => path["trace"] = NoPath /\ path["state"] = NoPath
    /\ stage \in Stages
    /\ written \in Seq(Streamed \X {Lands(n) : n \in Names})

\* The open streams are different files: only the state file can be one of them.
StreamsApart ==
    \A i, j \in 1 .. Len(written) :
       i # j /\ written[i][2] = written[j][2] => written[i][1] = "state" \/ written[j][1] = "state"

\* Every file written is where an output of its own landed, one that is no link and was
\* compared with every other name, and is this run's if it was not there before.
StartInv ==
    /\ StartType
    /\ stage \notin {"check", "refused"} => ~Aliased
    /\ \A i \in 1 .. Len(written) :
          /\ written[i][1] \in Before(stage)
          /\ path[written[i][1]] \in Names \ Links
          /\ path[written[i][1]] # NoPath
          /\ written[i][2] = Lands(path[written[i][1]])
          /\ Inode[path[written[i][1]]] = NoFile => written[i][2] \in made
    /\ \A i, j \in 1 .. Len(written) : written[i][1] = written[j][1] => i = j
    /\ stage \in {"run", "done"} => StreamsApart

\* Two outputs that are not the same file land in one only if neither is there yet, and
\* none lands in a file that is there under a name it was compared with.
LEMMA LandsApart ==
    ASSUME NEW a \in Names, NEW b \in Names, a # NoPath, b # NoPath,
           ~same_file(a, b) \/ ~same_file(b, a)
    PROVE  /\ Lands(a) # Inode[b]
           /\ Lands(a) = Lands(b) => Inode[a] = NoFile /\ Canon[a] # Canon[b]
<1>1. a # b /\ Canon[a] # Canon[b] /\ ~(Inode[a] = Inode[b] /\ Inode[a] # NoFile)
  BY Zenon DEF same_file
<1>2. Lands(a) # Inode[b]
  BY <1>1, StartupAssumption, Zenon DEF Lands
<1>3. ASSUME Lands(a) = Lands(b) PROVE Inode[a] = NoFile
  BY <1>1, <1>3, StartupAssumption, Zenon DEF Lands
<1> QED
  BY <1>1, <1>2, <1>3, Zenon

\* The comparisons cover every pair of an output and an input or another output.
LEMMA AllCompared ==
    ASSUME StartType, ~Aliased, NEW r \in Streamed, path[r] # NoPath
    PROVE  /\ \A q \in {"image", "input", "disk"} :
                 ~same_file(path[r], path[q]) \/ ~same_file(path[q], path[r])
           /\ \A q \in Streamed \ {r} : path[q] # NoPath =>
                 ~same_file(path[r], path[q]) \/ ~same_file(path[q], path[r])
<1>1. CASE front = "rv32emu"
  <2>1. /\ Outputs = <<"record", "trace", "checkpoints", "state">>
        /\ Inputs = {"image", "input", "disk"}
    BY <1>1, Zenon DEF Outputs, Inputs
  <2>2. PICK i \in 1 .. 4 : Outputs[i] = r
    BY <2>1 DEF Streamed
  <2>3. \A q \in {"image", "input", "disk"} : ~same_file(path[r], path[q])
    BY <2>1, <2>2 DEF Aliased
  <2>4. ASSUME NEW q \in Streamed \ {r}
        PROVE  ~same_file(path[r], path[q]) \/ ~same_file(path[q], path[r])
    <3>1. PICK j \in 1 .. 4 : Outputs[j] = q
      BY <2>1 DEF Streamed
    <3>2. i # j
      BY <2>2, <3>1, Zenon
    <3>3. CASE j < i
      BY <2>1, <2>2, <3>1, <3>3 DEF Aliased
    <3>4. CASE i < j
      BY <2>1, <2>2, <3>1, <3>4 DEF Aliased
    <3> QED
      BY <3>2, <3>3, <3>4
  <2> QED
    BY <2>3, <2>4, Zenon
<1>2. CASE front = "rv32win"
  <2>1. /\ Outputs = <<"record", "checkpoints", "disk">>
        /\ Inputs = {"image", "input"}
        /\ DOMAIN Outputs = 1 .. 3
    BY <1>2 DEF Outputs, Inputs
  <2>2. r \in {"record", "checkpoints"}
    BY <1>2, Zenon DEF StartType, Streamed
  <2>3. PICK i \in 1 .. 2 : Outputs[i] = r
    BY <2>1, <2>2
  <2>4. \A q \in {"image", "input"} : ~same_file(path[r], path[q])
    BY <2>1, <2>3 DEF Aliased
  <2>5. ~same_file(path["disk"], path[r])
    <3>1. 3 \in DOMAIN Outputs /\ i \in 1 .. 3 - 1 /\ Outputs[3] = "disk"
      BY <2>1
    <3> QED
      BY <2>3, <3>1, Zenon DEF Aliased
  <2>6. ~same_file(path["checkpoints"], path["record"])
    <3>1. 2 \in DOMAIN Outputs /\ 1 \in 1 .. 2 - 1 /\ Outputs[2] = "checkpoints" /\ Outputs[1] = "record"
      BY <2>1
    <3> QED
      BY <3>1, Zenon DEF Aliased
  <2>7. ASSUME NEW q \in Streamed \ {r}, path[q] # NoPath
        PROVE  ~same_file(path[r], path[q]) \/ ~same_file(path[q], path[r])
    <3>1. q \in {"record", "checkpoints"}
      BY <1>2, <2>7, Zenon DEF StartType, Streamed
    <3> QED
      BY <2>2, <2>6, <3>1
  <2> QED
    BY <2>4, <2>5, <2>7, Zenon
<1> QED
  BY <1>1, <1>2, Zenon DEF StartType

\* The invariant gives the property.
LEMMA StartInvSound == StartInv => NothingOverwritten
<1> SUFFICES ASSUME StartInv PROVE NothingOverwritten
  BY Zenon
<1>1. written \in Seq(Streamed \X {Lands(n) : n \in Names}) /\ DOMAIN written = 1 .. Len(written)
  BY DEF StartInv, StartType
<1>2. ASSUME NEW i \in 1 .. Len(written) PROVE written[i][1] \in Streamed
  BY <1>1
<1>3. ASSUME NEW i \in 1 .. Len(written) PROVE ~Aliased /\ stage # "refused"
  BY Zenon DEF StartInv, Before
<1>4. ASSUME NEW i \in 1 .. Len(written), NEW r \in {"image", "input", "disk"}, path[r] # NoPath
      PROVE  Inode[path[r]] # written[i][2]
  <2> DEFINE o == written[i][1]
  <2>1. /\ o \in Streamed /\ path[o] \in Names \ Links /\ path[o] # NoPath
        /\ written[i][2] = Lands(path[o])
    BY <1>2, Zenon DEF StartInv
  <2>2. path[r] \in Names
    BY <1>4, Zenon DEF StartInv, StartType, Roles
  <2>3. ~same_file(path[o], path[r]) \/ ~same_file(path[r], path[o])
    BY <1>3, <2>1, AllCompared, Zenon DEF StartInv
  <2> HIDE DEF o
  <2> QED
    BY <1>4, <2>1, <2>2, <2>3, LandsApart
<1>5. ASSUME NEW i \in 1 .. Len(written), NEW j \in 1 .. Len(written), i # j, written[i][2] = written[j][2]
      PROVE  LET a == written[i][1]  b == written[j][1]
             IN  /\ written[i][2] \in made
                 /\ Canon[path[a]] # Canon[path[b]] /\ path[a] \notin Links /\ path[b] \notin Links
                 /\ stage \in {"run", "done"} => "state" \in {a, b}
  <2> DEFINE o == written[i][1]
             q == written[j][1]
  <2>1. /\ o \in Streamed /\ path[o] \in Names \ Links /\ path[o] # NoPath
        /\ written[i][2] = Lands(path[o]) /\ (Inode[path[o]] = NoFile => written[i][2] \in made)
    BY <1>2, Zenon DEF StartInv
  <2>2. /\ q \in Streamed /\ path[q] \in Names \ Links /\ path[q] # NoPath
        /\ written[j][2] = Lands(path[q])
    BY <1>2, Zenon DEF StartInv
  <2>3. o # q
    BY <1>5, Zenon DEF StartInv
  <2>4. ~same_file(path[o], path[q]) \/ ~same_file(path[q], path[o])
    BY <1>3, <2>1, <2>2, <2>3, AllCompared DEF StartInv
  <2>5. stage \in {"run", "done"} => "state" \in {o, q}
    BY <1>5, Zenon DEF StartInv, StreamsApart
  <2> HIDE DEF o, q
  <2>6. Inode[path[o]] = NoFile /\ Canon[path[o]] # Canon[path[q]]
    BY <1>5, <2>1, <2>2, <2>4, LandsApart, Zenon
  <2> QED
    BY <2>1, <2>2, <2>5, <2>6 DEF o, q
<1>6. stage = "refused" => written = <<>>
  BY <1>1, <1>3
<1> QED
  BY <1>1, <1>4, <1>5, <1>6 DEF NothingOverwritten

\* Opening an output that main has not dealt with keeps the invariant.
LEMMA OpenKeeps ==
    ASSUME StartInv, NEW r \in Streamed, NEW next \in Stages, stage \notin {"check", "refused"},
           path[r] # NoPath, next \notin {"check", "refused"}, r \notin Before(stage),
           Before(stage) \cup {r} \subseteq Before(next), OpenOutput(r, next),
           next \in {"run", "done"} => r = "state" /\ stage = "run"
    PROVE  StartInv'
<1> DEFINE a == path[r]
<1>1. a \in Names
  BY Zenon DEF StartInv, StartType, Streamed, Roles
<1>2. CASE ~Opens(a)
  <2>1. stage' = "failed" /\ UNCHANGED <<front, path, made, written>>
    BY <1>2, Zenon DEF OpenOutput
  <2>2. Before(stage) \subseteq Before("failed")
    BY Zenon DEF Before, Streamed
  <2> QED
    BY <2>1, <2>2, Zenon DEF StartInv, StartType, Stages, Aliased, Outputs, Inputs, StreamsApart
<1>3. CASE Opens(a)
  <2>1. (IF FileOf(a) = NoFile THEN Target[a] ELSE FileOf(a)) = Lands(a)
    BY <1>1, StartupAssumption, Zenon DEF FileOf, Lands
  <2>2. /\ written' = Append(written, <<r, Lands(a)>>)
        /\ stage' = next /\ UNCHANGED <<front, path>>
    BY <1>3, <2>1, Zenon DEF OpenOutput
  <2>b. made \subseteq made' /\ (Inode[a] = NoFile => Lands(a) \in made')
    <3>1. made' = IF FileOf(a) = NoFile THEN made \cup {Lands(a)} ELSE made
      BY <1>3, <2>1, Zenon DEF OpenOutput
    <3>2. Inode[a] = NoFile /\ FileOf(a) # NoFile => Lands(a) \in made
      BY Zenon DEF FileOf, Lands
    <3> QED
      BY <3>1, <3>2, Zenon
  <2>3. /\ written \in Seq(Streamed \X {Lands(n) : n \in Names})
        /\ <<r, Lands(a)>> \in Streamed \X {Lands(n) : n \in Names}
    BY <1>1, Zenon DEF StartInv, StartType
  <2>4. /\ written' \in Seq(Streamed \X {Lands(n) : n \in Names})
        /\ Len(written') = Len(written) + 1
        /\ \A i \in 1 .. Len(written) : written'[i] = written[i]
        /\ written'[Len(written) + 1] = <<r, Lands(a)>>
    BY <2>2, <2>3
  <2>5. StartType'
    BY <2>2, <2>4, Zenon DEF StartInv, StartType
  <2>6. ~Aliased'
    BY <2>2, Zenon DEF StartInv, Aliased, Outputs, Inputs
  <2>7. a \in Names \ Links
    BY <1>1, <1>3, Zenon DEF Opens
  <2>8. Len(written) \in Nat
    BY <2>3
  <2>9. ASSUME NEW i \in 1 .. Len(written')
        PROVE  /\ written'[i][1] \in Before(stage')
               /\ path'[written'[i][1]] \in Names \ Links
               /\ path'[written'[i][1]] # NoPath
               /\ written'[i][2] = Lands(path'[written'[i][1]])
               /\ Inode[path'[written'[i][1]]] = NoFile => written'[i][2] \in made'
    <3>1. CASE i \in 1 .. Len(written)
      BY <2>2, <2>4, <2>b, <3>1, SMTT(30) DEF StartInv
    <3>2. CASE i = Len(written) + 1
      BY <2>2, <2>4, <2>7, <2>b, <3>2
    <3> QED
      BY <2>4, <2>8, <3>1, <3>2, SMTT(30)
  <2>10. ASSUME NEW i \in 1 .. Len(written'), NEW j \in 1 .. Len(written'),
                written'[i][1] = written'[j][1]
         PROVE  i = j
    <3>1. \A k \in 1 .. Len(written) : written[k][1] # r
      BY Zenon DEF StartInv
    <3>2. \A k, l \in 1 .. Len(written) : written[k][1] = written[l][1] => k = l
      BY Zenon DEF StartInv
    <3>3. written'[Len(written) + 1][1] = r
      BY <2>4
    <3>4. \A k \in 1 .. Len(written') : k \in 1 .. Len(written) \/ k = Len(written) + 1
      BY <2>4, <2>8
    <3>5. CASE i \in 1 .. Len(written) /\ j \in 1 .. Len(written)
      BY <2>4, <2>10, <3>2, <3>5
    <3>6. CASE i = Len(written) + 1 /\ j \in 1 .. Len(written)
      BY <2>4, <2>10, <3>1, <3>3, <3>6, SMTT(30)
    <3>7. CASE i \in 1 .. Len(written) /\ j = Len(written) + 1
      BY <2>4, <2>10, <3>1, <3>3, <3>7, SMTT(30)
    <3> QED
      BY <3>4, <3>5, <3>6, <3>7
  <2>11. ASSUME stage' \in {"run", "done"} PROVE StreamsApart'
    <3>1. r = "state" /\ StreamsApart
      BY <2>2, <2>11, Zenon DEF StartInv
    <3>2. \A k \in 1 .. Len(written') : k \in 1 .. Len(written) \/ k = Len(written) + 1
      BY <2>4, <2>8
    <3>3. written'[Len(written) + 1][1] = "state"
      BY <2>4, <3>1
    <3> QED
      BY <2>4, <3>1, <3>2, <3>3 DEF StreamsApart
  <2> QED
    BY <2>5, <2>6, <2>9, <2>10, <2>11 DEF StartInv
<1> QED
  BY <1>2, <1>3, Zenon

LEMMA StartInductive ==
    ASSUME StartInv, [StartNext]_startVars
    PROVE  StartInv'
<1>1. CASE UNCHANGED <<front, path, made, written>> /\ Before(stage) \subseteq Before(stage') /\ stage' \in Stages
           /\ (stage' \notin {"check", "refused"} => ~Aliased)
           /\ (stage' \in {"run", "done"} => StreamsApart)
  <2>1. StartType' /\ (Aliased' <=> Aliased)
    BY <1>1, Zenon DEF StartInv, StartType, Aliased, Outputs, Inputs
  <2> QED
    BY <1>1, <2>1 DEF StartInv, StreamsApart
<1>2. CASE CheckPaths
  BY <1>1, <1>2, Zenon DEF CheckPaths, Refuse, Before, Stages
<1>3. CASE ReadInputs
  BY <1>1, <1>3, Zenon DEF ReadInputs, Refuse, Before, Stages, StartInv
<1>4. CASE OpenStream
  <2>1. stage \in {"record", "trace", "checkpoints"}
    BY <1>4, Zenon DEF OpenStream, After
  <2>2. /\ After[stage] \in Stages \ {"check", "refused"} /\ stage \in Streamed
        /\ stage \notin Before(stage) /\ Before(stage) \cup {stage} \subseteq Before(After[stage])
        /\ After[stage] \notin {"run", "done"}
    BY <2>1 DEF After, Stages, Streamed, Before
  <2>3. CASE path[stage] # NoPath
    BY <1>4, <2>1, <2>2, <2>3, OpenKeeps, SMTT(30) DEF OpenStream
  <2>4. CASE path[stage] = NoPath
    BY <1>1, <1>4, <2>1, <2>2, <2>4 DEF OpenStream, StartInv
  <2> QED
    BY <2>3, <2>4, Zenon
<1>5. CASE CompareStreams
  <2>1. stage' = "run" => StreamsApart
    <3>1. DOMAIN written = 1 .. Len(written)
      BY DEF StartInv, StartType
    <3> QED
      BY <1>5, <3>1, Zenon DEF CompareStreams, StreamsApart
  <2> QED
    BY <1>1, <1>5, <2>1, Zenon DEF CompareStreams, Before, Stages, StartInv, Streamed
<1>6. CASE WriteState
  <2>1. CASE front = "rv32emu" /\ path["state"] # NoPath
    BY <1>6, <2>1, OpenKeeps DEF WriteState, Before, Stages, Streamed
  <2>2. CASE ~(front = "rv32emu" /\ path["state"] # NoPath)
    BY <1>1, <1>6, <2>2, SMTT(30) DEF WriteState, Before, Stages, StartInv, Streamed
  <2> QED
    BY <2>1, <2>2, Zenon
<1>7. CASE UNCHANGED startVars
  BY <1>1, <1>7 DEF startVars, StartInv, StartType
<1> QED
  BY <1>2, <1>3, <1>4, <1>5, <1>6, <1>7, SMTT(30) DEF StartNext, Ended

\* However the file names alias each other, and on volumes that take two names for one,
\* no run truncates a file it reads, and no run goes ahead with two of its outputs in one
\* file unless one is the state file and the volume takes their names for one; a refused
\* run truncates nothing (rv32emu.c and rv32win.c main, same_file, emu_open_output,
\* emu_require_distinct_streams).
THEOREM NothingIsOverwritten == StartInit /\ [][StartNext]_startVars => []NothingOverwritten
<1>1. StartInit => StartInv
  BY StartupAssumption DEF StartInit, StartInv, StartType, Stages
<1>2. StartInv /\ [StartNext]_startVars => StartInv'
  BY StartInductive, Zenon
<1> QED
  BY <1>1, <1>2, StartInvSound, PTL

-----------------------------------------------------------------------------
(* The debugger's breakpoints (Gdb). *)

\* What the client may send: an insert or a remove names one breakpoint.
Requests ==
    {t \in [cmd : Commands \cup {"+", "-", "^C", "none"}, arg : SUBSET (Points \cup Jumps), good : BOOLEAN] :
        t.cmd \in {"insert", "remove"} => \E p \in Points : t.arg = {p}}

RequestsInv == rx \in Seq(Requests) /\ asked \in Requests

\* The table holds what the client was told it holds, each breakpoint once.
TableInv ==
    /\ bp \in Seq(Points)
    /\ \A i, j \in 1 .. Len(bp) : bp[i] = bp[j] => i = j
    /\ wanted = {bp[i] : i \in 1 .. Len(bp)}

\* With breakpoints set a run is one instruction long, and it is not entered at one
\* unless the client was stopped there and has not moved since.
ResumeInv ==
    /\ broke \subseteq stopped
    /\ run \in [stepping : BOOLEAN, poll : Nat, budget : Nat, shown : BOOLEAN]
    /\ phase = "run" /\ bp # <<>> => run.budget <= 1
    /\ phase = "run" /\ ~run.stepping /\ run.budget > 0 /\ FindBreakpoint(pc)
          => fresh /\ pc \in stopped

\* Looking an address up in the table finds the breakpoints the client set.
LEMMA TableFinds ==
    ASSUME TableInv, NEW at
    PROVE  FindBreakpoint(at) <=> \E p \in wanted : p.at = at
<1>1. DOMAIN bp = 1 .. Len(bp)
  BY DEF TableInv
<1> QED
  BY <1>1, Zenon DEF TableInv, FindBreakpoint

LEMMA ArgOf ==
    ASSUME NEW t \in Requests, t.cmd \in {"insert", "remove"}
    PROVE  Arg(t) \in Points /\ t.arg = {Arg(t)}
<1>1. PICK p \in Points : t.arg = {p}
  BY Zenon DEF Requests
<1> QED
  BY <1>1, Zenon DEF Arg

\* Removing by moving the last entry into the hole takes out that breakpoint only.
LEMMA HoleFilled ==
    ASSUME NEW n \in Nat \ {0}, NEW s, NEW r, NEW k \in 1 .. n,
           \A i, j \in 1 .. n : s[i] = s[j] => i = j,
           \A i \in 1 .. n - 1 : r[i] = IF i = k THEN s[n] ELSE s[i]
    PROVE  /\ \A i, j \in 1 .. n - 1 : r[i] = r[j] => i = j
           /\ {r[i] : i \in 1 .. n - 1} = {s[i] : i \in 1 .. n} \ {s[k]}
<1>0. \A i \in 1 .. n - 1 : i \in 1 .. n /\ i # n
  OBVIOUS
<1>1. \A i, j \in 1 .. n - 1 : r[i] = r[j] => i = j
  BY <1>0
<1>2. \A i \in 1 .. n - 1 : \E m \in 1 .. n : r[i] = s[m] /\ m # k
  BY <1>0
<1>3. \A m \in 1 .. n : m # k => \E i \in 1 .. n - 1 : r[i] = s[m]
  <2> SUFFICES ASSUME NEW m \in 1 .. n, m # k
               PROVE  \E i \in 1 .. n - 1 : r[i] = s[m]
    BY Zenon
  <2>1. CASE m = n
    <3>1. k \in 1 .. n - 1
      BY <2>1
    <3> QED
      BY <2>1, <3>1, Zenon
  <2>2. CASE m # n
    <3>1. m \in 1 .. n - 1
      BY <2>2
    <3> QED
      BY <3>1, Zenon
  <2> QED
    BY <2>1, <2>2, Zenon
<1>4. ASSUME NEW x PROVE x \in {r[i] : i \in 1 .. n - 1} <=> x \in {s[i] : i \in 1 .. n} \ {s[k]}
  <2>1. ASSUME NEW i \in 1 .. n - 1, x = r[i] PROVE x \in {s[m] : m \in 1 .. n} \ {s[k]}
    BY <1>2, <2>1
  <2>2. ASSUME NEW m \in 1 .. n, x = s[m], x # s[k] PROVE x \in {r[i] : i \in 1 .. n - 1}
    BY <1>3, <2>2, Zenon
  <2> QED
    BY <2>1, <2>2, Zenon
<1> QED
  BY <1>1, <1>4, Zenon

LEMMA EntryRemoved ==
    ASSUME NEW S, NEW s \in Seq(S), Len(s) > 0, NEW k \in 1 .. Len(s)
    PROVE  /\ WithoutEntry(s, k) \in Seq(S)
           /\ Len(WithoutEntry(s, k)) = Len(s) - 1
           /\ \A i \in 1 .. Len(s) - 1 :
                WithoutEntry(s, k)[i] = IF i = k THEN s[Len(s)] ELSE s[i]
<1> DEFINE t == [s EXCEPT ![k] = s[Len(s)]]
<1>1. s \in [1 .. Len(s) -> S] /\ Len(s) \in Nat \ {0}
  OBVIOUS
<1>2. t \in [1 .. Len(s) -> S] /\ \A i \in 1 .. Len(s) : t[i] = IF i = k THEN s[Len(s)] ELSE s[i]
  BY <1>1
<1>3. t \in Seq(S) /\ Len(t) = Len(s)
  BY <1>1, <1>2
<1>4. WithoutEntry(s, k) = SubSeq(t, 1, Len(s) - 1)
  BY <1>3, Zenon DEF WithoutEntry, Front, Last
<1> HIDE DEF t
<1>5. /\ SubSeq(t, 1, Len(s) - 1) \in Seq(S) /\ Len(SubSeq(t, 1, Len(s) - 1)) = Len(s) - 1
      /\ \A i \in 1 .. Len(s) - 1 : SubSeq(t, 1, Len(s) - 1)[i] = t[i]
  BY <1>1, <1>3
<1>6. \A i \in 1 .. Len(s) - 1 : i \in 1 .. Len(s)
  BY <1>1
<1>7. \A i \in 1 .. Len(s) - 1 : SubSeq(t, 1, Len(s) - 1)[i] = IF i = k THEN s[Len(s)] ELSE s[i]
  BY <1>2, <1>5, <1>6, Zenon
<1> QED
  BY <1>4, <1>5, <1>7, Zenon

\* Inserting and removing keep the table and the client's view of it together.
LEMMA InsertedTable ==
    ASSUME TableInv, NEW p \in Points, bp' = Inserted(p),
           wanted' = IF Contains(bp', p) THEN wanted \cup {p} ELSE wanted
    PROVE  TableInv'
<1>0. bp \in Seq(Points) /\ Len(bp) \in Nat
  BY DEF TableInv
<1>1. CASE Contains(bp, p)
  <2>1. bp' = bp /\ wanted' = wanted \cup {p}
    BY <1>1, Zenon DEF Inserted
  <2>2. p \in wanted
    BY <1>1, Zenon DEF Contains, TableInv
  <2> QED
    BY <2>1, <2>2, Zenon DEF TableInv
<1>2. CASE ~Contains(bp, p) /\ Len(bp) = MaxBreakpoints
  BY <1>2, Zenon DEF Inserted, TableInv
<1>3. CASE ~Contains(bp, p) /\ Len(bp) # MaxBreakpoints
  <2>1. bp' = Append(bp, p)
    BY <1>3, Zenon DEF Inserted
  <2>2. /\ bp' \in Seq(Points) /\ Len(bp') = Len(bp) + 1 /\ bp'[Len(bp) + 1] = p
        /\ \A i \in 1 .. Len(bp) : bp'[i] = bp[i]
    BY <1>0, <2>1
  <2>3. Contains(bp', p) /\ wanted' = wanted \cup {p}
    BY <1>0, <2>2 DEF Contains
  <2>4. \A i \in 1 .. Len(bp) : bp[i] # p
    BY <1>3, Zenon DEF Contains
  <2>5. \A i, j \in 1 .. Len(bp') : bp'[i] = bp'[j] => i = j
    BY <1>0, <2>2, <2>4 DEF TableInv
  <2>6. \A x : x \in {bp'[i] : i \in 1 .. Len(bp')} <=> x = p \/ x \in {bp[i] : i \in 1 .. Len(bp)}
    BY <1>0, <2>2
  <2> QED
    BY <2>2, <2>3, <2>5, <2>6 DEF TableInv
<1> QED
  BY <1>1, <1>2, <1>3

LEMMA RemovedTable ==
    ASSUME TableInv, NEW p \in Points, bp' = Removed(p), wanted' = wanted \ {p}
    PROVE  TableInv'
<1>0. bp \in Seq(Points) /\ Len(bp) \in Nat /\ wanted = {bp[i] : i \in 1 .. Len(bp)}
  BY DEF TableInv
<1>1. CASE ~Contains(bp, p)
  <2>1. bp' = bp /\ p \notin wanted
    BY <1>1, Zenon DEF Removed, Contains, TableInv
  <2> QED
    BY <2>1, Zenon DEF TableInv
<1>2. CASE Contains(bp, p)
  <2>1. PICK k \in 1 .. Len(bp) : bp[k] = p
    BY <1>2, Zenon DEF Contains
  <2>2. SelectInSeq(bp, LAMBDA b : b = p) = k
    <3>1. {i \in 1 .. Len(bp) : bp[i] = p} = {k}
      BY <2>1, Zenon DEF TableInv
    <3> QED
      BY <3>1, <1>0 DEF SelectInSeq, Min
  <2>3. bp' = WithoutEntry(bp, k)
    BY <1>2, <2>2, Zenon DEF Removed
  <2>4. /\ bp' \in Seq(Points) /\ Len(bp') = Len(bp) - 1 /\ Len(bp) > 0
        /\ \A i \in 1 .. Len(bp) - 1 : bp'[i] = IF i = k THEN bp[Len(bp)] ELSE bp[i]
    <3>1. Len(bp) > 0
      BY <1>0
    <3>2. bp' \in Seq(Points) /\ Len(bp') = Len(bp) - 1
      BY <1>0, <2>3, <3>1, EntryRemoved
    <3>3. \A i \in 1 .. Len(bp) - 1 :
             WithoutEntry(bp, k)[i] = IF i = k THEN bp[Len(bp)] ELSE bp[i]
      BY <1>0, <3>1, EntryRemoved, Zenon
    <3> QED
      BY <2>3, <3>1, <3>2, <3>3, Zenon
  <2>5. /\ \A i, j \in 1 .. Len(bp) - 1 : bp'[i] = bp'[j] => i = j
        /\ {bp'[i] : i \in 1 .. Len(bp) - 1} = {bp[i] : i \in 1 .. Len(bp)} \ {bp[k]}
    <3>1. Len(bp) \in Nat \ {0}
      BY <1>0, <2>4
    <3>2. \A i, j \in 1 .. Len(bp) : bp[i] = bp[j] => i = j
      BY Zenon DEF TableInv
    <3> QED
      BY <2>4, <3>1, <3>2, HoleFilled, SMTT(30)
  <2> QED
    BY <1>0, <2>1, <2>4, <2>5 DEF TableInv
<1> QED
  BY <1>1, <1>2

LEMMA BytesAreRequests == ASSUME NEW c \in {"+", "-", "^C", "none"} PROVE Byte(c) \in Requests
BY Zenon DEF Byte, Token, Requests

LEMMA RequestsInductive ==
    ASSUME RequestsInv, [GdbNext]_gdbVars
    PROVE  RequestsInv'
<1>0. rx \in Seq(Requests) /\ asked \in Requests
  BY Zenon DEF RequestsInv
<1>1. CASE UNCHANGED <<rx, asked>>
  BY <1>1, Zenon DEF RequestsInv
<1>2. CASE rx # <<>> /\ rx' = Tail(rx) /\ UNCHANGED asked
  BY <1>0, <1>2 DEF RequestsInv
<1>3. CASE rx' = <<>> /\ UNCHANGED asked
  BY <1>0, <1>3 DEF RequestsInv
<1>4. CASE Skip
  BY <1>2, <1>4, Zenon DEF Skip, clientVars
<1>5. CASE Query
  BY <1>2, <1>5, Zenon DEF Query, Takes, Kept, clientVars
<1>6. CASE WriteRegister
  BY <1>2, <1>6, Zenon DEF WriteRegister, Takes, Kept, clientVars
<1>7. CASE HandleBreakpoint
  BY <1>2, <1>7, Zenon DEF HandleBreakpoint, Takes, Kept, clientVars
<1>8. CASE HandleResume
  BY <1>2, <1>8, Zenon DEF HandleResume, Takes, clientVars
<1>9. CASE StartNoAckMode
  BY <1>2, <1>9, Zenon DEF StartNoAckMode, Takes, Kept, clientVars
<1>10. CASE EndSession
  BY <1>2, <1>10, Zenon DEF EndSession, Takes, clientVars
<1>11. CASE AwaitAck
  BY <1>1, <1>2, <1>11, Zenon DEF AwaitAck, clientVars
<1>12. CASE ReadFails \/ CloseSession \/ RunAlone \/ Finish \/ SendReply
  BY <1>1, <1>2, <1>12, Zenon DEF ReadFails, CloseSession, RunAlone, Finish, SendReply, clientVars
<1>13. CASE GuestStep \/ RunHalted \/ StepReturned \/ ContinueReturned \/ HangUp \/ Exited
  BY <1>1, <1>13, Zenon DEF GuestStep, RunHalted, StepReturned, ContinueReturned, HangUp,
     Exited, gdbVars, clientVars
<1>14. CASE ContinuePolls
  BY <1>3, <1>14, Zenon DEF ContinuePolls, clientVars
<1>15. CASE Ask
  <2>0. PICK cmd \in Commands, good \in BOOLEAN : \E arg \in Args(cmd) :
           rx' = Append(rx, Token(cmd, arg, good)) /\ asked' = Token(cmd, arg, TRUE)
    BY <1>15, Zenon DEF Ask
  <2>1. PICK arg \in Args(cmd) :
           rx' = Append(rx, Token(cmd, arg, good)) /\ asked' = Token(cmd, arg, TRUE)
    BY <2>0, Zenon
  <2>3. cmd \in {"insert", "remove"} => \E p \in Points : arg = {p}
    BY Zenon DEF Args
  <2>4. arg \in SUBSET (Points \cup Jumps)
    BY Zenon DEF Args
  <2>5. Token(cmd, arg, good) \in Requests /\ Token(cmd, arg, TRUE) \in Requests
    BY <2>3, <2>4, Zenon DEF Token, Requests
  <2>6. \A t \in Requests : Append(rx, t) \in Seq(Requests)
    BY <1>0
  <2> QED
    BY <2>1, <2>5, <2>6, Zenon DEF RequestsInv
<1>16. CASE ClientReads
  <2>1. Byte("+") \in Requests /\ Byte("-") \in Requests /\ Nothing \in Requests
    BY BytesAreRequests, Zenon DEF Nothing
  <2>2. asked' \in {asked, Nothing}
    BY <1>16, Zenon DEF ClientReads
  <2>3. rx' = rx \/ \E t \in Requests : rx' = Append(rx, t)
    BY <1>0, <1>16, <2>1, Zenon DEF ClientReads
  <2> QED
    BY <1>0, <2>1, <2>2, <2>3 DEF RequestsInv
<1>17. CASE CtrlC
  <2>1. Byte("^C") \in Requests
    BY BytesAreRequests, Zenon
  <2> QED
    BY <1>0, <1>17, <2>1 DEF CtrlC, RequestsInv
<1>18. CASE UNCHANGED gdbVars
  BY <1>1, <1>18, Zenon DEF gdbVars, clientVars
<1> QED
  BY <1>4, <1>5, <1>6, <1>7, <1>8, <1>9, <1>10, <1>11, <1>12, <1>13, <1>14, <1>15, <1>16, <1>17,
     <1>18, SMTT(30) DEF GdbNext, Stub

LEMMA TableInductive ==
    ASSUME RequestsInv, TableInv, [GdbNext]_gdbVars
    PROVE  TableInv'
<1>1. CASE UNCHANGED <<bp, wanted>>
  BY <1>1, Zenon DEF TableInv
<1>2. CASE HandleBreakpoint
  <2>1. CASE Takes("insert")
    <3>1. Head(rx) \in Requests /\ Head(rx).cmd \in {"insert", "remove"}
      BY <2>1 DEF Takes, RequestsInv
    <3>2. Arg(Head(rx)) \in Points /\ Head(rx).arg = {Arg(Head(rx))}
      BY <3>1, ArgOf, Zenon
    <3>3. /\ bp' = Inserted(Arg(Head(rx)))
          /\ wanted' = IF Contains(bp', Arg(Head(rx))) THEN wanted \cup {Arg(Head(rx))} ELSE wanted
      BY <1>2, <2>1, <3>2, Zenon DEF HandleBreakpoint, Reply, Takes
    <3> QED
      BY <3>2, <3>3, InsertedTable, Zenon
  <2>2. CASE Takes("remove")
    <3>1. Head(rx) \in Requests /\ Head(rx).cmd \in {"insert", "remove"}
      BY <2>2 DEF Takes, RequestsInv
    <3>2. Arg(Head(rx)) \in Points /\ Head(rx).arg = {Arg(Head(rx))}
      BY <3>1, ArgOf, Zenon
    <3>3. bp' = Removed(Arg(Head(rx))) /\ wanted' = wanted \ {Arg(Head(rx))}
      BY <1>2, <2>2, <3>2, Zenon DEF HandleBreakpoint, Takes
    <3> QED
      BY <3>2, <3>3, RemovedTable, Zenon
  <2> QED
    BY <1>2, <2>1, <2>2, Zenon DEF HandleBreakpoint
<1>3. CASE Skip \/ Query \/ WriteRegister \/ HandleResume \/ StartNoAckMode \/ EndSession
  BY <1>1, <1>3, Zenon DEF Skip, Query, WriteRegister, HandleResume, StartNoAckMode, EndSession,
     histVars
<1>4. CASE ReadFails \/ SendReply \/ AwaitAck \/ CloseSession \/ Finish \/ GuestStep \/ RunHalted
  BY <1>1, <1>4, Zenon DEF ReadFails, SendReply, AwaitAck, CloseSession, Finish, GuestStep, RunHalted,
                    histVars
<1>5. CASE StepReturned \/ ContinueReturned \/ ContinuePolls \/ RunAlone
  BY <1>1, <1>5, Zenon DEF StepReturned, ContinueReturned, ContinuePolls, RunAlone, histVars
<1>6. CASE Ask \/ ClientReads \/ CtrlC \/ HangUp \/ Exited \/ UNCHANGED gdbVars
  BY <1>1, <1>6, Zenon DEF Ask, ClientReads, CtrlC, HangUp, Exited, gdbVars, stubVars, histVars
<1> QED
  BY <1>2, <1>3, <1>4, <1>5, <1>6, SMTT(30) DEF GdbNext, Stub

\* The head of the loop: the run stops at a breakpoint, or is entered where none is
\* unless the comparison was skipped.
LEMMA LoopResumes ==
    ASSUME TableInv, NEW STATE check, NEW STATE poll, poll \in Nat, Loop(check, poll),
           bp' = bp, wanted' = wanted, check \/ (fresh' /\ pc' \in stopped), broke \subseteq stopped
    PROVE  /\ ResumeInv'
           /\ out' = "T05break" /\ out # "T05break" => \E p \in wanted : p.at = pc'
<1>1. CASE check /\ FindBreakpoint(pc')
  <2>1. Stop("T05break")
    BY <1>1, Zenon DEF Loop
  <2>2. /\ broke' = {pc'} /\ stopped' = {pc'} /\ phase' = "send" /\ run' = Idle
    BY <2>1, Zenon DEF Stop, Reply
  <2>3. run' \in [stepping : BOOLEAN, poll : Nat, budget : Nat, shown : BOOLEAN]
    BY <2>2, Zenon DEF Idle
  <2>4. \E p \in wanted : p.at = pc'
    BY <1>1, TableFinds, Zenon
  <2> QED
    BY <2>2, <2>3, <2>4, Zenon DEF ResumeInv
<1>2. CASE ~(check /\ FindBreakpoint(pc'))
  <2>1. /\ run' = [stepping |-> FALSE, poll |-> poll, shown |-> FALSE,
                   budget |-> IF FALSE \/ bp # <<>> THEN 1 ELSE PollInterval]
        /\ UNCHANGED <<broke, stopped, out>>
    BY <1>2, Zenon DEF Loop, Enter, SameReply
  <2>2. run' \in [stepping : BOOLEAN, poll : Nat, budget : Nat, shown : BOOLEAN]
    BY <2>1, GdbAssumption, Zenon
  <2>3. bp' # <<>> => run'.budget <= 1
    BY <2>1
  <2>4. FindBreakpoint(pc)' => fresh' /\ pc' \in stopped'
    BY <1>2, <2>1, Zenon DEF FindBreakpoint
  <2> QED
    BY <2>1, <2>2, <2>3, <2>4 DEF ResumeInv
<1> QED
  BY <1>1, <1>2, Zenon

LEMMA ResumeInductive ==
    ASSUME RequestsInv, TableInv, ResumeInv, [GdbNext]_gdbVars
    PROVE  /\ ResumeInv'
           /\ out' = "T05break" /\ out # "T05break" => \E p \in wanted : p.at = pc'
<1> DEFINE Goal == /\ ResumeInv'
                   /\ out' = "T05break" /\ out # "T05break" => \E p \in wanted : p.at = pc'
<1>0. /\ broke \subseteq stopped
      /\ run \in [stepping : BOOLEAN, poll : Nat, budget : Nat, shown : BOOLEAN]
  BY Zenon DEF ResumeInv
<1>1. CASE phase' # "run" /\ UNCHANGED <<run, broke, stopped>> /\ out' # "T05break"
  BY <1>1, Zenon DEF ResumeInv
<1>2. CASE phase' # "run" /\ UNCHANGED <<run, broke, stopped>> /\ out' = out
  BY <1>2, Zenon DEF ResumeInv
<1>3. CASE UNCHANGED <<run, broke, stopped, out, phase, pc, bp, fresh>>
  BY <1>3, Zenon DEF ResumeInv, FindBreakpoint
<1>4. CASE Skip
  BY <1>3, <1>4, Zenon DEF Skip, machineVars, histVars
<1>5. CASE Query \/ StartNoAckMode \/ HandleBreakpoint \/ WriteRegister
  BY <1>1, <1>5, Zenon DEF Query, StartNoAckMode, HandleBreakpoint, WriteRegister, Kept, Reply, histVars
<1>6. CASE EndSession
  BY <1>1, <1>2, <1>6, Zenon DEF EndSession, Reply, SameReply, histVars
<1>7. CASE ReadFails \/ CloseSession
  BY <1>2, <1>7, Zenon DEF ReadFails, CloseSession, histVars
<1>8. CASE SendReply \/ AwaitAck
  BY <1>1, <1>2, <1>8 DEF SendReply, AwaitAck, AfterReply, histVars
<1>9. CASE Finish
  BY <1>1, <1>2, <1>9, Zenon DEF Finish, Reply, SameReply, histVars
<1>10. CASE RunAlone
  BY <1>2, <1>10, Zenon DEF RunAlone, histVars
<1>11. CASE Ask \/ ClientReads \/ CtrlC \/ HangUp \/ Exited \/ UNCHANGED gdbVars
  BY <1>3, <1>11, Zenon DEF Ask, ClientReads, CtrlC, HangUp, Exited, gdbVars, machineVars,
     stubVars, histVars
<1>12. CASE GuestStep
  <2>1. /\ run' = [run EXCEPT !.budget = run.budget - 1,
                              !.poll = IF run.poll = 0 THEN 0 ELSE run.poll - 1,
                              !.shown = pc \in Presents]
        /\ run.budget > 0 /\ phase = "run"
        /\ UNCHANGED <<phase, bp, out, broke, stopped, wanted>>
    BY <1>12, Zenon DEF GuestStep, Steps
  <2>2. /\ run' \in [stepping : BOOLEAN, poll : Nat, budget : Nat, shown : BOOLEAN]
        /\ run'.budget = run.budget - 1
    <3>1. run.budget \in Nat /\ run.poll \in Nat /\ run.stepping \in BOOLEAN
      BY <1>0, Zenon
    <3>2. run.budget - 1 \in Nat /\ (IF run.poll = 0 THEN 0 ELSE run.poll - 1) \in Nat
      BY <2>1, <3>1
    <3>3. (pc \in Presents) \in BOOLEAN
      OBVIOUS
    <3> HIDE <3>1
    <3> QED
      BY <1>0, <2>1, <3>2, <3>3, Zenon
  <2>3. bp # <<>> => run'.budget <= 0
    BY <1>0, <2>1, <2>2 DEF ResumeInv
  <2>4. FindBreakpoint(pc)' => bp # <<>>
    BY <2>1 DEF FindBreakpoint
  <2> QED
    BY <1>0, <2>1, <2>2, <2>3, <2>4, SMTT(30) DEF ResumeInv
<1>13. CASE RunHalted
  <2>1. run' = Idle /\ phase' = "finish" /\ broke' = {} /\ UNCHANGED <<out, stopped>>
    BY <1>13, Zenon DEF RunHalted, histVars
  <2>2. run' \in [stepping : BOOLEAN, poll : Nat, budget : Nat, shown : BOOLEAN]
    BY <2>1, Zenon DEF Idle
  <2> QED
    BY <2>1, <2>2, Zenon DEF ResumeInv
<1>14. ASSUME NEW what \in {"T05", "T02"}, Stop(what) PROVE Goal
  <2>1. run' = Idle /\ phase' = "send" /\ broke' = {} /\ out' # "T05break"
    BY <1>14, Zenon DEF Stop, Reply
  <2>2. run' \in [stepping : BOOLEAN, poll : Nat, budget : Nat, shown : BOOLEAN]
    BY <2>1, Zenon DEF Idle
  <2> QED
    BY <2>1, <2>2, Zenon DEF ResumeInv
<1>15. CASE StepReturned
  BY <1>14, <1>15, Zenon DEF StepReturned
<1>16. CASE ContinueReturned
  <2>1. Loop(TRUE, run.poll) /\ UNCHANGED <<bp, wanted>>
    BY <1>16, Zenon DEF ContinueReturned
  <2>2. run.poll \in Nat
    BY <1>0, Zenon
  <2> QED
    BY <1>0, <2>1, <2>2, LoopResumes, Zenon
<1>17. CASE ContinuePolls
  <2>1. CASE Stop("T02")
    BY <1>14, <2>1, Zenon
  <2>2. CASE phase' = "over" /\ broke' = {} /\ run' = Idle /\ UNCHANGED <<stopped, out>>
    <3>1. run' \in [stepping : BOOLEAN, poll : Nat, budget : Nat, shown : BOOLEAN]
      BY <2>2, Zenon DEF Idle
    <3> QED
      BY <2>2, <3>1, Zenon DEF ResumeInv
  <2>3. CASE Loop(TRUE, PollInterval)
    <3>1. UNCHANGED <<bp, wanted>> /\ PollInterval \in Nat
      BY <1>17, GdbAssumption, Zenon DEF ContinuePolls
    <3> QED
      BY <1>0, <2>3, <3>1, LoopResumes, Zenon
  <2> QED
    BY <1>17, <2>1, <2>2, <2>3, Zenon DEF ContinuePolls
<1>18. CASE HandleResume
  <2>1. fresh' = TRUE /\ UNCHANGED <<bp, wanted>>
    BY <1>18, Zenon DEF HandleResume
  <2>2. CASE Head(rx).cmd = "step"
    <3>1. /\ run' = [stepping |-> TRUE, poll |-> 0, shown |-> FALSE, budget |-> 1]
          /\ UNCHANGED <<broke, stopped, out>>
      BY <1>18, <2>2, Zenon DEF HandleResume, Enter, SameReply
    <3>2. run' \in [stepping : BOOLEAN, poll : Nat, budget : Nat, shown : BOOLEAN]
      BY <3>1, Zenon
    <3> QED
      BY <1>0, <3>1, <3>2 DEF ResumeInv
  <2>3. CASE Head(rx).cmd # "step"
    <3>1. Loop(~FromBreak(pc'), PollInterval)
      BY <1>18, <2>3, Zenon DEF HandleResume
    <3>2. ~FromBreak(pc') \/ (fresh' /\ pc' \in stopped)
      BY <1>0, <2>1, Zenon DEF FromBreak
    <3>3. CASE FromBreak(pc')
      <4>1. Loop(FALSE, PollInterval)
        BY <3>1, <3>3, Zenon DEF Loop
      <4> QED
        BY <1>0, <2>1, <3>2, <3>3, <4>1, LoopResumes, GdbAssumption, ZenonT(30)
    <3>4. CASE ~FromBreak(pc')
      <4>1. Loop(TRUE, PollInterval)
        BY <3>1, <3>4, Zenon DEF Loop
      <4> QED
        BY <1>0, <2>1, <4>1, LoopResumes, GdbAssumption, ZenonT(30)
    <3> QED
      BY <3>3, <3>4, Zenon
  <2> QED
    BY <2>2, <2>3, Zenon
<1> QED
  BY <1>4, <1>5, <1>6, <1>7, <1>8, <1>9, <1>10, <1>11, <1>12, <1>13, <1>15, <1>16, <1>17, <1>18, SMTT(30)
     DEF GdbNext, Stub

\* The debugger never runs over a breakpoint and never reports one that is not set, for
\* every guest and every client (rv32_gdb.c resume, handle_resume, handle_breakpoint).
THEOREM BreakpointsAreHonoured == GdbInit /\ [][GdbNext]_gdbVars => BreakpointsHonoured
<1> DEFINE Inv == RequestsInv /\ TableInv /\ ResumeInv
           Honours == /\ (GuestStep /\ ~run.stepping /\ \E p \in wanted : p.at = pc)
                            => (fresh /\ pc \in stopped)
                      /\ (out' = "T05break" /\ out # "T05break") => \E p \in wanted : p.at = pc'
<1>1. GdbInit => Inv
  <2> SUFFICES ASSUME GdbInit PROVE Inv
    BY Zenon
  <2>1. RequestsInv
    BY BytesAreRequests DEF GdbInit, RequestsInv, Nothing
  <2>2. TableInv
    BY DEF GdbInit, TableInv
  <2>3. ResumeInv
    BY Zenon DEF GdbInit, ResumeInv, Idle
  <2> QED
    BY <2>1, <2>2, <2>3, Zenon
<1>2. Inv /\ [GdbNext]_gdbVars => Inv'
  BY RequestsInductive, TableInductive, ResumeInductive, Zenon
<1>3. Inv /\ [GdbNext]_gdbVars => [Honours]_gdbVars
  <2> SUFFICES ASSUME Inv, [GdbNext]_gdbVars PROVE Honours
    BY Zenon
  <2>1. ASSUME GuestStep, ~run.stepping, \E p \in wanted : p.at = pc
        PROVE  fresh /\ pc \in stopped
    <3>1. FindBreakpoint(pc)
      BY <2>1, TableFinds, Zenon
    <3> QED
      BY <2>1, <3>1, Zenon DEF ResumeInv, GuestStep, Steps
  <2> QED
    BY <2>1, ResumeInductive, Zenon
<1> QED
  BY <1>1, <1>2, <1>3, PTL DEF BreakpointsHonoured

-----------------------------------------------------------------------------
(* The run without a debugger. *)

Plain(f, n) == IF n = 0 THEN [pc |-> 0, halt |-> "running"] ELSE PlainStep(f[n - 1])

\* The recursive definition has a solution on every interval.
LEMMA PlainExists ==
    ASSUME NEW N \in Nat
    PROVE  \E f : f = [n \in 0 .. N |-> Plain(f, n)]
<1> DEFINE T == {k \in Nat : \E f : f = [n \in 0 .. k |-> Plain(f, n)]}
<1>1. 0 \in T
  <2> DEFINE f == [n \in 0 .. 0 |-> [pc |-> 0, halt |-> "running"]]
  <2>1. f = [n \in 0 .. 0 |-> Plain(f, n)]
    BY DEF Plain
  <2> QED
    BY <2>1, Zenon
<1>2. ASSUME NEW k \in Nat, k \in T PROVE k + 1 \in T
  <2>1. PICK f : f = [n \in 0 .. k |-> Plain(f, n)]
    BY <1>2, Zenon
  <2> DEFINE g == [n \in 0 .. k + 1 |-> IF n = k + 1 THEN PlainStep(f[k]) ELSE f[n]]
  <2>2. ASSUME NEW n \in 0 .. k + 1 PROVE g[n] = Plain(g, n)
    <3>1. CASE n = k + 1
      <4>1. g[n] = PlainStep(f[k])
        BY <3>1, Zenon
      <4>2. n - 1 = k /\ k \in 0 .. k + 1 /\ k # k + 1 /\ n # 0
        BY <3>1
      <4>3. g[k] = f[k]
        BY <4>2, Zenon
      <4> HIDE DEF g
      <4> QED
        BY <4>1, <4>2, <4>3, Zenon DEF Plain
    <3>2. CASE n # k + 1 /\ n # 0
      <4>1. n \in 0 .. k /\ n - 1 \in 0 .. k + 1 /\ n - 1 # k + 1
        BY <3>2
      <4>2. g[n] = f[n] /\ g[n - 1] = f[n - 1]
        BY <3>2, <4>1, Zenon
      <4>3. f[n] = Plain(f, n)
        BY <2>1, <4>1, Zenon
      <4> HIDE DEF g
      <4> QED
        BY <3>2, <4>2, <4>3, Zenon DEF Plain
    <3>3. CASE n = 0
      <4>1. 0 \in 0 .. k /\ g[0] = f[0]
        OBVIOUS
      <4>2. f[0] = Plain(f, 0)
        BY <2>1, <4>1, Zenon
      <4> HIDE DEF g
      <4> QED
        BY <3>3, <4>1, <4>2, Zenon DEF Plain
    <3> QED
      BY <3>1, <3>2, <3>3, Zenon
  <2>3. g = [n \in 0 .. k + 1 |-> g[n]]
    BY Zenon
  <2> HIDE DEF g
  <2>4. g = [n \in 0 .. k + 1 |-> Plain(g, n)]
    BY <2>2, <2>3, Zenon
  <2> QED
    BY <2>4
<1> HIDE DEF T
<1>3. N \in T
  BY <1>1, <1>2, InductiveSet, Zenon
<1> QED
  BY <1>3, Zenon DEF T

\* Its equations.
LEMMA PlainEquations ==
    ASSUME guest.limit \in Nat
    PROVE  /\ PlainRun[0] = [pc |-> 0, halt |-> "running"]
           /\ \A n \in 0 .. guest.limit - 1 : PlainRun[n + 1] = PlainStep(PlainRun[n])
<1>1. PlainRun = CHOOSE f : f = [n \in 0 .. guest.limit |-> Plain(f, n)]
  BY Zenon DEF PlainRun, Plain
<1>2. PlainRun = [n \in 0 .. guest.limit |-> Plain(PlainRun, n)]
  BY <1>1, PlainExists, Zenon
<1>3. \A n \in 0 .. guest.limit : PlainRun[n] = Plain(PlainRun, n)
  BY <1>2, Zenon
<1>4. PlainRun[0] = Plain(PlainRun, 0)
  BY <1>3
<1>5. ASSUME NEW n \in 0 .. guest.limit - 1 PROVE PlainRun[n + 1] = PlainStep(PlainRun[n])
  <2>1. n + 1 \in 0 .. guest.limit /\ n + 1 # 0 /\ (n + 1) - 1 = n
    OBVIOUS
  <2> QED
    BY <1>3, <2>1, Zenon DEF Plain
<1> QED
  BY <1>4, <1>5, Zenon DEF Plain

\* Once done, the run stays done.
LEMMA PlainStaysDone ==
    ASSUME guest.limit \in Nat, NEW n \in 0 .. guest.limit, PlainRun[n].halt = "done"
    PROVE  PlainRun[guest.limit].halt = "done"
<1> DEFINE T == {d \in Nat : n + d <= guest.limit => PlainRun[n + d].halt = "done"}
<1>1. 0 \in T
  OBVIOUS
<1>2. ASSUME NEW d \in Nat, d \in T PROVE d + 1 \in T
  <2> SUFFICES ASSUME n + (d + 1) <= guest.limit PROVE PlainRun[n + (d + 1)].halt = "done"
    OBVIOUS
  <2>1. n + d \in 0 .. guest.limit - 1 /\ n + (d + 1) = (n + d) + 1 /\ PlainRun[n + d].halt = "done"
    BY <1>2
  <2>2. PlainRun[(n + d) + 1] = PlainStep(PlainRun[n + d])
    BY <2>1, PlainEquations, Zenon
  <2> QED
    BY <2>1, <2>2, Zenon DEF PlainStep
<1> HIDE DEF T
<1>3. guest.limit - n \in Nat
  OBVIOUS
<1>4. guest.limit - n \in T
  BY <1>1, <1>2, <1>3, InductiveSet, Zenon
<1> QED
  BY <1>4 DEF T

-----------------------------------------------------------------------------
(* The same run under a debugger. *)

\* What is left of a bounded run, and what the halt says of it.
BoundInv ==
    /\ guest.limit = NoLimit <=> left = NoLimit
    /\ left # NoLimit => guest.limit \in Nat /\ left \in 0 .. guest.limit
    /\ halt = "limit" => left = 0
    /\ halt = "stopped" => end = "KILLED" /\ phase \in {"finish", "exit"}
    /\ halt \in {"running", "done", "limit", "stopped"}

\* Once the status is known only the farewell is left to send.
StatusInv ==
    /\ phase = "finish" => halt # "running"
    /\ status # "none" => /\ halt # "running"
                          /\ status = HaltStatus(halt)
                          /\ phase = "exit" \/ (phase \in {"send", "ack"} /\ out = "W")

\* The machine is where the plain run is after as many steps.
PlaceInv ==
    (left # NoLimit /\ ~touched) =>
        /\ pc = PlainRun[guest.limit - left].pc
        /\ halt \in {"running", "limit"} => PlainRun[guest.limit - left].halt = "running"
        /\ halt = "done" => PlainRun[guest.limit - left].halt = "done"

LEMMA BoundInductive ==
    ASSUME BoundInv, StatusInv, [GdbNext]_gdbVars
    PROVE  BoundInv' /\ StatusInv'
<1>1. CASE UNCHANGED <<machineVars, end, phase, out, status>>
  BY <1>1, Zenon DEF machineVars, BoundInv, StatusInv, HaltStatus
<1>2. CASE UNCHANGED <<guest, halt, left, end, status>> /\ phase \in {"read", "run", "over"} /\ phase' # "finish"
  BY <1>2, Zenon DEF BoundInv, StatusInv
<1>3. CASE Skip
  BY <1>1, <1>3, Zenon DEF Skip
<1>4. CASE Query \/ StartNoAckMode \/ HandleBreakpoint \/ WriteRegister
  BY <1>2, <1>4, Zenon DEF Query, StartNoAckMode, HandleBreakpoint, WriteRegister, Takes, Reading, Kept,
                    Reply, machineVars
<1>5. CASE HandleResume
  BY <1>2, <1>5, Zenon DEF HandleResume, Takes, Reading, Loop, Stop, Reply, machineVars
<1>6. CASE EndSession
  <2>1. UNCHANGED <<guest, halt, left, status>> /\ phase = "read" /\ phase' # "finish"
    BY <1>6, Zenon DEF EndSession, Takes, Reading, Reply, machineVars
  <2> QED
    BY <2>1, Zenon DEF BoundInv, StatusInv
<1>7. CASE ReadFails
  BY <1>2, <1>7, Zenon DEF ReadFails, machineVars
<1>8. CASE SendReply \/ AwaitAck
  <2>1. /\ UNCHANGED <<guest, halt, left, end, status>> /\ phase \in {"send", "ack"}
        /\ \/ phase' = AfterReply(out)
           \/ phase' \in {"send", "ack"} /\ out' = out
    BY <1>8, Zenon DEF SendReply, AwaitAck, machineVars
  <2>2. phase' # "finish" /\ (out = "W" => phase' = "exit" \/ (phase' \in {"send", "ack"} /\ out' = "W"))
    BY <2>1, Zenon DEF AfterReply
  <2> QED
    BY <2>1, <2>2, Zenon DEF BoundInv, StatusInv, HaltStatus
<1>9. CASE CloseSession
  <2>1. /\ phase = "over" /\ UNCHANGED <<guest, left, end, status>>
        /\ IF end = "KILLED" THEN halt' = "stopped" /\ phase' = "finish"
                             ELSE halt' = halt /\ phase' = "alone"
    BY <1>9, Zenon DEF CloseSession
  <2> QED
    BY <2>1, Zenon DEF BoundInv, StatusInv
<1>10. CASE Finish
  <2>1. /\ phase = "finish" /\ UNCHANGED <<guest, left, halt, end>> /\ status' = HaltStatus(halt)
        /\ \/ end = "HALTED" /\ phase' = "send" /\ out' = "W"
           \/ phase' = "exit"
    BY <1>10, Zenon DEF Finish, Reply, machineVars
  <2> QED
    BY <2>1, Zenon DEF BoundInv, StatusInv, HaltStatus
<1>11. CASE RunHalted
  <2>1. /\ phase = "run" /\ Halts /\ UNCHANGED <<guest, left, status>> /\ phase' = "finish"
        /\ halt' = IF halt = "running" THEN "limit" ELSE halt
    BY <1>11, Zenon DEF RunHalted
  <2> QED
    BY <2>1, Zenon DEF BoundInv, StatusInv, Halts
<1>12. ASSUME StepMachine, halt = "running", left # 0, phase \in {"run", "alone"},
              UNCHANGED <<phase, end, status, out>>
       PROVE  BoundInv' /\ StatusInv'
  <2>1. /\ guest' = guest /\ left' = (IF left = NoLimit THEN left ELSE left - 1)
        /\ halt' \in {"running", "done"}
    BY <1>12, Zenon DEF StepMachine, LeftAfter
  <2>2. left # NoLimit => left - 1 \in 0 .. guest.limit
    BY <1>12 DEF BoundInv
  <2>3. left' = NoLimit <=> left = NoLimit
    BY <2>1, <2>2, GdbAssumption
  <2> QED
    BY <1>12, <2>1, <2>2, <2>3, SMTT(30) DEF BoundInv, StatusInv
<1>13. CASE GuestStep
  BY <1>12, <1>13, Zenon DEF GuestStep, Steps
<1>14. CASE RunAlone
  <2>1. CASE Halts
    <3>1. /\ phase = "alone" /\ UNCHANGED <<guest, left, end, status>> /\ phase' = "finish"
          /\ halt' = IF halt = "running" THEN "limit" ELSE halt
      BY <1>14, <2>1, Zenon DEF RunAlone
    <3> QED
      BY <2>1, <3>1, Zenon DEF BoundInv, StatusInv, Halts
  <2>2. CASE ~Halts
    BY <1>12, <1>14, <2>2 DEF RunAlone, Halts
  <2> QED
    BY <2>1, <2>2, Zenon
<1>15. CASE StepReturned
  BY <1>2, <1>15, Zenon DEF StepReturned, Returned, Stop, Reply, machineVars
<1>16. CASE ContinueReturned
  BY <1>2, <1>16, Zenon DEF ContinueReturned, Returned, Loop, Stop, Reply, machineVars
<1>17. CASE ContinuePolls
  <2>1. /\ UNCHANGED <<guest, halt, left, status>> /\ phase = "run" /\ phase' # "finish"
    BY <1>17, Zenon DEF ContinuePolls, Returned, Loop, Stop, Reply, machineVars
  <2> QED
    BY <2>1, Zenon DEF BoundInv, StatusInv
<1>18. CASE Ask \/ ClientReads \/ CtrlC \/ HangUp \/ Exited \/ UNCHANGED gdbVars
  BY <1>1, <1>18, ZenonT(30) DEF Ask, ClientReads, CtrlC, HangUp, Exited, gdbVars, stubVars
<1> QED
  BY <1>3, <1>4, <1>5, <1>6, <1>7, <1>8, <1>9, <1>10, <1>11, <1>13, <1>14, <1>15, <1>16, <1>17,
     <1>18 DEF GdbNext, Stub

\* One step of the machine is one step of the plain run.
LEMMA StepKeepsPlace ==
    ASSUME BoundInv, PlaceInv, StepMachine, halt = "running", left # 0, touched' = touched
    PROVE  PlaceInv'
<1> SUFFICES ASSUME left' # NoLimit, ~touched
             PROVE  /\ pc' = PlainRun'[guest'.limit - left'].pc
                    /\ halt' \in {"running", "limit"} => PlainRun'[guest'.limit - left'].halt = "running"
                    /\ halt' = "done" => PlainRun'[guest'.limit - left'].halt = "done"
  BY Zenon DEF PlaceInv
<1>1. guest' = guest /\ left # NoLimit /\ left' = left - 1 /\ left \in 1 .. guest.limit
      /\ guest.limit \in Nat
  BY DEF StepMachine, LeftAfter, BoundInv
<1>2. PlainRun' = PlainRun
  BY <1>1 DEF PlainRun, PlainStep
<1> DEFINE n == guest.limit - left
<1>3. n \in 0 .. guest.limit - 1 /\ guest.limit - left' = n + 1
  BY <1>1
<1>4. PlainRun[n].pc = pc /\ PlainRun[n].halt = "running"
  BY <1>1, Zenon DEF PlaceInv
<1> HIDE DEF n
<1>5. PlainRun[n + 1] = PlainStep(PlainRun[n])
  BY <1>1, <1>3, PlainEquations, Zenon
<1>6. PlainStep(PlainRun[n]) = [pc |-> Flow[pc], halt |-> IF pc \in guest.exits THEN "done" ELSE "running"]
  BY <1>4, Zenon DEF PlainStep
<1>7. pc' = Flow[pc] /\ halt' = IF pc \in guest.exits THEN "done" ELSE "running"
  BY Zenon DEF StepMachine
<1> QED
  BY <1>1, <1>2, <1>3, <1>5, <1>6, <1>7, SMTT(30)

LEMMA PlaceInductive ==
    ASSUME BoundInv, StatusInv, PlaceInv, [GdbNext]_gdbVars
    PROVE  PlaceInv'
<1>1. CASE UNCHANGED <<machineVars, touched>>
  BY <1>1, SMTT(30) DEF machineVars, PlaceInv, PlainRun, PlainStep
<1>2. CASE UNCHANGED <<guest, left, pc, touched>> /\ halt' \in {halt, "stopped"}
  BY <1>2, SMTT(30) DEF PlaceInv, PlainRun, PlainStep
<1>3. CASE UNCHANGED <<guest, left, pc, touched>> /\ Halts
           /\ halt' = IF halt = "running" THEN "limit" ELSE halt
  BY <1>3 DEF PlaceInv, PlainRun, PlainStep
<1>4. CASE left' # NoLimit => touched'
  BY <1>4, Zenon DEF PlaceInv
<1>5. CASE Skip \/ Query \/ HandleBreakpoint \/ StartNoAckMode \/ EndSession
  BY <1>1, <1>5, Zenon DEF Skip, Query, HandleBreakpoint, StartNoAckMode, EndSession, histVars
<1>6. CASE WriteRegister
  BY <1>4, <1>6, Zenon DEF WriteRegister
<1>7. CASE HandleResume
  <2>1. CASE Head(rx).cmd = "contat"
    BY <1>4, <1>7, <2>1, ZenonT(30) DEF HandleResume
  <2>2. CASE Head(rx).cmd # "contat"
    <3>1. UNCHANGED <<guest, left, pc, halt>> /\ (touched => touched')
      BY <1>7, <2>2, Zenon DEF HandleResume
    <3> QED
      BY <3>1 DEF PlaceInv, PlainRun, PlainStep
  <2> QED
    BY <2>1, <2>2, Zenon
<1>8. CASE ReadFails \/ SendReply \/ AwaitAck \/ Finish
  BY <1>1, <1>8, Zenon DEF ReadFails, SendReply, AwaitAck, Finish, histVars
<1>9. CASE CloseSession
  BY <1>2, <1>9, Zenon DEF CloseSession, histVars
<1>10. CASE GuestStep
  BY <1>10, StepKeepsPlace, Zenon DEF GuestStep, Steps
<1>11. CASE RunHalted
  BY <1>3, <1>11, Zenon DEF RunHalted, histVars
<1>12. CASE RunAlone
  <2>1. CASE Halts
    BY <1>3, <1>12, <2>1 DEF RunAlone, histVars
  <2>2. CASE ~Halts
    BY <1>12, <2>2, StepKeepsPlace, Zenon DEF RunAlone, Halts, histVars
  <2> QED
    BY <2>1, <2>2, Zenon
<1>13. CASE StepReturned \/ ContinueReturned \/ ContinuePolls
  BY <1>1, <1>13, Zenon DEF StepReturned, ContinueReturned, ContinuePolls
<1>14. CASE Ask \/ ClientReads \/ CtrlC \/ HangUp \/ Exited \/ UNCHANGED gdbVars
  BY <1>1, <1>14, Zenon DEF Ask, ClientReads, CtrlC, HangUp, Exited, gdbVars, histVars
<1> QED
  BY <1>5, <1>6, <1>7, <1>8, <1>9, <1>10, <1>11, <1>12, <1>13, <1>14, SMTT(30) DEF GdbNext, Stub

\* The invariants give the property: where the run stands, how it ended and what the
\* process answers.
LEMMA PlaceSound == BoundInv /\ StatusInv /\ PlaceInv => SameRun
<1> SUFFICES ASSUME BoundInv, StatusInv, PlaceInv, left # NoLimit, ~touched
             PROVE  /\ pc = PlainRun[guest.limit - left].pc
                    /\ halt = "running" => PlainRun[guest.limit - left].halt = "running"
                    /\ halt \in {"done", "limit"} => halt = PlainHalt
                    /\ status # "none" /\ end # "KILLED" => status = HaltStatus(PlainHalt)
  BY Zenon DEF SameRun
<1>1. guest.limit \in Nat /\ left \in 0 .. guest.limit
  BY Zenon DEF BoundInv
<1>2. halt = "done" => PlainHalt = "done"
  <2>1. ASSUME halt = "done" PROVE PlainRun[guest.limit].halt = "done"
    <3>1. PlainRun[guest.limit - left].halt = "done" /\ guest.limit - left \in 0 .. guest.limit
      BY <1>1, <2>1 DEF PlaceInv
    <3> QED
      BY <1>1, <3>1, PlainStaysDone, Zenon
  <2> QED
    BY <2>1, Zenon DEF PlainHalt
<1>3. halt = "limit" => PlainHalt = "limit"
  <2>1. ASSUME halt = "limit" PROVE PlainRun[guest.limit].halt = "running"
    <3>1. left = 0 /\ guest.limit - left = guest.limit
      BY <1>1, <2>1 DEF BoundInv
    <3> QED
      BY <2>1, <3>1, Zenon DEF PlaceInv
  <2> QED
    BY <2>1, Zenon DEF PlainHalt
<1>4. status # "none" /\ end # "KILLED" => halt \in {"done", "limit"} /\ status = HaltStatus(halt)
  BY Zenon DEF BoundInv, StatusInv
<1> QED
  BY <1>2, <1>3, <1>4, Zenon DEF PlaceInv

\* A debugger that does not write the pc changes nothing about a bounded run, whatever
\* the guest, the limit and the packets (rv32_gdb.c resume over emu_run_until).
THEOREM RunIsTheSame == GdbInit /\ [][GdbNext]_gdbVars => []SameRun
<1> DEFINE Inv == BoundInv /\ StatusInv /\ PlaceInv
<1>1. GdbInit => Inv
  <2> SUFFICES ASSUME GdbInit PROVE Inv
    BY Zenon
  <2>1. BoundInv /\ StatusInv
    BY GdbAssumption DEF GdbInit, BoundInv, StatusInv
  <2>2. ASSUME left # NoLimit
        PROVE  pc = PlainRun[guest.limit - left].pc /\ PlainRun[guest.limit - left].halt = "running"
    <3>1. guest.limit \in Nat /\ guest.limit - left = 0
      BY <2>2, GdbAssumption DEF GdbInit
    <3>2. PlainRun[0] = [pc |-> 0, halt |-> "running"]
      BY <3>1, PlainEquations, Zenon
    <3> QED
      BY <3>1, <3>2 DEF GdbInit
  <2> QED
    BY <2>1, <2>2, Zenon DEF PlaceInv, GdbInit
<1>2. Inv /\ [GdbNext]_gdbVars => Inv'
  BY BoundInductive, PlaceInductive, Zenon
<1>3. Inv => SameRun
  BY PlaceSound, Zenon
<1> QED
  BY <1>1, <1>2, <1>3, PTL

=============================================================================
