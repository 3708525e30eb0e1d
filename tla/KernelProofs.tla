---------------------------- MODULE KernelProofs ----------------------------
(***************************************************************************)
(* Theorems about Kernel, for every table size, set of programs, files and *)
(* slots.  A handler changes the table to some ps and ends in schedule(),  *)
(* which changes states only: it wakes blocked processes and picks the one *)
(* to run.  So each invariant is shown to hold of ps, and to be kept by a  *)
(* step that changes states as schedule() does.  Here are the types, the   *)
(* FPU and the files; KernelSafetyProofs has what processes share.         *)
(***************************************************************************)
EXTENDS Kernel, TLAPS

\* A process table in which every live entry has a program.
Table(ps) ==
    /\ ps \in [Entries -> Proc]
    /\ \A i \in Entries : Alive(ps, i) => ps[i].prog \in Programs

HartOK ==
    /\ hart \in [satp : Entries, pmp : SUBSET (SlotIds \cup {Engines}), window : SUBSET SlotIds]
    /\ tlb \subseteq SlotIds \cup {Engines}
    /\ protected_pid \in Pids

\* qs is ps but for blocked processes made ready and ready ones running.
Rescheduled(ps, qs) ==
    \A i \in Entries :
        /\ qs[i] = [ps[i] EXCEPT !.state = qs[i].state]
        /\ \/ qs[i].state = ps[i].state
           \/ /\ ps[i].state \in {"READY", "BLOCKED_READ", "BLOCKED_SLEEP"}
              /\ qs[i].state \in {"READY", "RUNNING"}

\* A call keeps the processes: who is alive, with what program, pid, parent and FS.
\* Only those in W may have begun to wait, only those in F opened or closed files.
Kept(ps, qs, W, F) ==
    \A i \in Entries :
        /\ qs[i].pid = ps[i].pid /\ qs[i].parent = ps[i].parent
        /\ qs[i].prog = ps[i].prog /\ qs[i].fs = ps[i].fs
        /\ Alive(qs, i) <=> Alive(ps, i)
        /\ ps[i].state = "FREE" => qs[i].state = "FREE"
        /\ i \notin W /\ qs[i].state = "BLOCKED_WAIT" =>
              ps[i].state = "BLOCKED_WAIT" /\ qs[i].wait_pid = ps[i].wait_pid
        /\ i \notin F => qs[i].files = ps[i].files

\* wake_blocked() leaves a table, and only makes blocked processes ready.
LEMMA WakeBlockedTable ==
    ASSUME NEW ps, Table(ps), NEW bytes
    PROVE  /\ Table(WakeBlocked(ps, bytes))
           /\ Rescheduled(ps, WakeBlocked(ps, bytes))
<1> DEFINE woken == WakeBlocked(ps, bytes)
<1>1. ASSUME NEW i \in Entries
      PROVE  /\ woken[i] \in Proc
             /\ woken[i] = [ps[i] EXCEPT !.state = woken[i].state]
             /\ \/ woken[i].state = ps[i].state
                \/ /\ ps[i].state \in {"BLOCKED_READ", "BLOCKED_SLEEP"}
                   /\ woken[i].state = "READY"
  <2>1. ps[i] \in Proc
    BY Zenon DEF Table
  <2>2. CASE woken[i] = ps[i]
    BY <2>1, <2>2, Zenon DEF Proc
  <2>3. CASE /\ woken[i] = [ps[i] EXCEPT !.state = "READY"]
             /\ ps[i].state \in {"BLOCKED_READ", "BLOCKED_SLEEP"}
    BY <2>1, <2>3, Zenon DEF Proc, States
  <2> QED
    BY <2>2, <2>3, Zenon DEF WakeBlocked
<1>2. woken \in [Entries -> Proc]
  BY <1>1, Zenon DEF WakeBlocked
<1>3. ASSUME NEW i \in Entries, Alive(woken, i)
      PROVE  woken[i].prog \in Programs
  <2>1. ps[i] \in Proc
    BY Zenon DEF Table
  <2>2. woken[i].prog = ps[i].prog /\ Alive(ps, i)
    BY <1>1, <1>3, <2>1, Zenon DEF Alive, Proc
  <2> QED
    BY <2>2, Zenon DEF Table
<1> QED
  BY <1>1, <1>2, <1>3, Zenon DEF Table, Rescheduled

\* schedule() leaves a table that differs from the handler's in states only, runs
\* the entry it says it runs, and sets the hart up with values of their types.
LEMMA ScheduleTable ==
    ASSUME NEW ps, Table(ps), NEW cur \in Entries \cup {None}, NEW used \in BOOLEAN,
           NEW j, NEW bytes, HartOK, Schedule(ps, cur, used, j, bytes)
    PROVE  /\ Table(procs')
           /\ Rescheduled(ps, procs')
           /\ current' \in Entries \cup {None}
           /\ current' # None => procs'[current'].state = "RUNNING"
           /\ engines_used' \in BOOLEAN
           /\ HartOK'
<1> DEFINE woken == WakeBlocked(ps, bytes)
<1>1. Table(woken) /\ Rescheduled(ps, woken)
  BY WakeBlockedTable, Zenon
<1>2. \A n \in Entries : Alive(woken, n) /\ Protect(woken, n) => HartOK'
  <2> SUFFICES ASSUME NEW n \in Entries, Alive(woken, n), Protect(woken, n)
               PROVE  HartOK'
    BY Zenon
  <2>1. woken[n].prog \in Programs /\ woken[n].pid \in Pids
    BY <1>1, Zenon DEF Table, Proc
  <2>2. /\ Slots[woken[n].prog] \in SUBSET SlotIds
        /\ Regions(woken[n].prog) \in SUBSET (SlotIds \cup {Engines})
    BY <2>1, KernelAssumption, Zenon DEF Regions
  <2> QED
    BY <2>1, <2>2 DEF Protect, HartOK, hartVars
<1>3. CASE cur # None /\ woken[cur].state = "RUNNING"
  <2>1. /\ procs' = woken /\ current' = cur
        /\ engines_used' = UsedOnceRun(woken, cur, used)
        /\ Protect(woken, cur)
    BY <1>3, Zenon DEF Schedule
  <2>2. Alive(woken, cur)
    BY <1>3, Zenon DEF Alive
  <2> QED
    BY <1>1, <1>2, <1>3, <2>1, <2>2, Zenon DEF UsedOnceRun, Flagged
<1>4. CASE /\ procs' = woken /\ current' = None
           /\ engines_used' = UsedAfterNext(woken, cur, used, j)
           /\ UNCHANGED hartVars
  BY <1>1, <1>4, Zenon DEF UsedAfterNext, UsedAfterLook, HartOK, hartVars
<1>5. ASSUME NEW n \in Entries, woken[n].state = "READY",
             procs' = [woken EXCEPT ![n].state = "RUNNING"], current' = n,
             engines_used' = UsedOnceRun(woken, n, UsedAfterNext(woken, cur, used, j)),
             Protect(woken, n)
      PROVE  /\ Table(procs')
             /\ Rescheduled(ps, procs')
             /\ procs'[n].state = "RUNNING"
             /\ engines_used' \in BOOLEAN
             /\ HartOK'
  <2>1. Alive(woken, n)
    BY <1>5, Zenon DEF Alive
  <2>2. /\ woken \in [Entries -> Proc] /\ woken[n].prog \in Programs
        /\ procs' = [i \in Entries |-> IF i = n THEN [woken[n] EXCEPT !.state = "RUNNING"]
                                       ELSE woken[i]]
    BY <1>1, <1>5, <2>1, Zenon DEF Table
  <2>3. /\ [woken[n] EXCEPT !.state = "RUNNING"] \in Proc
        /\ [woken[n] EXCEPT !.state = "RUNNING"].state = "RUNNING"
        /\ [woken[n] EXCEPT !.state = "RUNNING"].prog = woken[n].prog
    BY <2>2, Zenon DEF Proc, States
  <2>4. Table(procs') /\ procs'[n].state = "RUNNING"
    BY <1>1, <2>2, <2>3, Zenon DEF Table, Alive
  <2>5. Rescheduled(ps, procs')
    <3> SUFFICES ASSUME NEW i \in Entries
                 PROVE  /\ procs'[i] = [ps[i] EXCEPT !.state = procs'[i].state]
                        /\ \/ procs'[i].state = ps[i].state
                           \/ /\ ps[i].state \in {"READY", "BLOCKED_READ", "BLOCKED_SLEEP"}
                              /\ procs'[i].state \in {"READY", "RUNNING"}
      BY Zenon DEF Rescheduled
    <3>1. CASE i # n
      BY <1>1, <2>2, <3>1, Zenon DEF Rescheduled
    <3>2. CASE i = n
      <4>1. /\ woken[n] = [ps[n] EXCEPT !.state = "READY"]
            /\ ps[n].state \in {"READY", "BLOCKED_READ", "BLOCKED_SLEEP"}
        BY <1>1, <1>5, Zenon DEF Rescheduled
      <4>2. ps[n] \in Proc
        BY Zenon DEF Table
      <4> QED
        BY <2>2, <2>4, <3>2, <4>1, <4>2, Zenon DEF Proc
    <3> QED
      BY <3>1, <3>2, Zenon
  <2>6. engines_used' \in BOOLEAN
    BY <1>5, Zenon DEF UsedOnceRun, UsedAfterNext, UsedAfterLook, Flagged
  <2> QED
    BY <1>2, <1>5, <2>1, <2>4, <2>5, <2>6, Zenon
<1>6. \A n \in First(Eligible(woken, EnginesBusy(used, j)), cur) :
          n \in Entries /\ woken[n].state = "READY"
  BY Zenon DEF First, Eligible, Ready
<1> QED
  BY <1>3, <1>4, <1>5, <1>6, Zenon DEF Schedule

-----------------------------------------------------------------------------
(* Types. *)

\* The part of TypeOK that schedule() leaves alone.
RestOK ==
    /\ next_pid \in 2 .. MaxPid + 1
    /\ fpu_owner \in Entries \cup {None}
    /\ fpu \in FpValues
    /\ saved \in [Entries -> FpValues]
    /\ job \in [owner : Pids, mem : SUBSET SlotIds] \cup {None}
    /\ space \in [Entries -> Programs \cup {None}]
    /\ leaves \in [Entries -> SUBSET (SlotIds \cup {Engines})]
    /\ palette \in {"boot", "custom"}
    /\ palette_writer \in Pids
    /\ rx \in 0 .. MaxBytes
    /\ dir \in [Files -> {None} \cup (0 .. MaxSize)]
    /\ diskdir \in [Files -> {None} \cup (0 .. MaxSize)]
    /\ halted \in {"no", "halt", "panic", "fault"}
    /\ want \in [Entries -> FpValues]
    /\ lost \in BOOLEAN

\* The running entry is in state RUNNING until the machine stops.
CurrentRuns == halted = "no" /\ current # None => procs[current].state = "RUNNING"

\* TypeOK is not inductive: the live entries must have programs for protect() to
\* find their slots.
TypeInv == TypeOK /\ Table(procs) /\ CurrentRuns

\* What schedule() adds to a call keeps the processes too.
LEMMA KeptRescheduled ==
    ASSUME NEW ps, NEW qs, NEW rs, NEW W, NEW F, Table(qs),
           Kept(ps, qs, W, F), Rescheduled(qs, rs)
    PROVE  Kept(ps, rs, W, F)
<1> SUFFICES ASSUME NEW i \in Entries
             PROVE  /\ rs[i].pid = ps[i].pid /\ rs[i].parent = ps[i].parent
                    /\ rs[i].prog = ps[i].prog /\ rs[i].fs = ps[i].fs
                    /\ Alive(rs, i) <=> Alive(ps, i)
                    /\ ps[i].state = "FREE" => rs[i].state = "FREE"
                    /\ i \notin W /\ rs[i].state = "BLOCKED_WAIT" =>
                          ps[i].state = "BLOCKED_WAIT" /\ rs[i].wait_pid = ps[i].wait_pid
                    /\ i \notin F => rs[i].files = ps[i].files
  BY Zenon DEF Kept
<1>1. qs[i] \in Proc /\ rs[i] = [qs[i] EXCEPT !.state = rs[i].state]
  BY Zenon DEF Table, Rescheduled
<1>2. /\ rs[i].pid = qs[i].pid /\ rs[i].parent = qs[i].parent
      /\ rs[i].prog = qs[i].prog /\ rs[i].fs = qs[i].fs
      /\ rs[i].wait_pid = qs[i].wait_pid /\ rs[i].files = qs[i].files
  BY <1>1, Zenon DEF Proc
<1>3. /\ Alive(rs, i) <=> Alive(qs, i)
      /\ qs[i].state = "FREE" => rs[i].state = "FREE"
      /\ rs[i].state = "BLOCKED_WAIT" => qs[i].state = "BLOCKED_WAIT"
  BY Zenon DEF Rescheduled, Alive
<1> QED
  BY <1>2, <1>3, Zenon DEF Kept

\* A handler that leaves a table, and whose other variables keep their types, leaves
\* the type invariant once schedule() has run, and the processes it has kept.
LEMMA ScheduledStep ==
    ASSUME TypeInv, NEW ps, Table(ps), NEW cur \in Entries \cup {None},
           NEW used \in BOOLEAN, NEW j, NEW bytes, Schedule(ps, cur, used, j, bytes),
           RestOK'
    PROVE  /\ TypeInv'
           /\ Rescheduled(ps, procs')
           /\ \A W, F : Kept(procs, ps, W, F) => Kept(procs, procs', W, F)
<1>1. HartOK
  BY Zenon DEF TypeInv, TypeOK, HartOK
<1>2. /\ Table(procs') /\ HartOK' /\ Rescheduled(ps, procs')
      /\ current' \in Entries \cup {None}
      /\ current' # None => procs'[current'].state = "RUNNING"
      /\ engines_used' \in BOOLEAN
  BY <1>1, ScheduleTable, Zenon
<1>3. TypeInv'
  BY <1>2, Zenon DEF TypeInv, TypeOK, HartOK, RestOK, Table, CurrentRuns
<1> QED
  BY <1>2, <1>3, KeptRescheduled, Zenon

\* The parts of the invariant, for the steps that leave some of them alone.
LEMMA TypeParts ==
    ASSUME TypeInv
    PROVE  /\ Table(procs) /\ HartOK /\ RestOK /\ CurrentRuns
           /\ current \in Entries \cup {None}
           /\ engines_used \in BOOLEAN
BY Zenon DEF TypeInv, TypeOK, HartOK, RestOK

\* A step that schedules nothing keeps the invariant if it keeps the other types.
LEMMA UnscheduledStep ==
    ASSUME TypeInv, UNCHANGED <<procs, current, engines_used>>, halted' \in {halted, "fault"},
           HartOK', RestOK'
    PROVE  TypeInv'
<1>1. Table(procs') /\ CurrentRuns' /\ current' \in Entries \cup {None} /\ engines_used' \in BOOLEAN
  BY TypeParts, Zenon DEF CurrentRuns
<1> QED
  BY <1>1, Zenon DEF TypeInv, TypeOK, HartOK, RestOK, Table

\* A table stays one when a record of a live process with a program replaces an
\* entry, or one of an entry not alive.
LEMMA TableEdit ==
    ASSUME NEW ps, Table(ps), NEW p \in Entries, NEW r \in Proc,
           r.state \notin {"FREE", "ZOMBIE"} => r.prog \in Programs
    PROVE  Table([ps EXCEPT ![p] = r])
BY Zenon DEF Table, Alive

\* A call that changes its caller's entry only.
LEMMA CallerEdit ==
    ASSUME NEW ps, Table(ps), NEW p \in Entries, NEW r \in Proc, NEW W, NEW F,
           Alive(ps, p), r.state \notin {"FREE", "ZOMBIE"},
           r.pid = ps[p].pid, r.parent = ps[p].parent, r.prog = ps[p].prog, r.fs = ps[p].fs,
           r.state = "BLOCKED_WAIT" => p \in W, r.files # ps[p].files => p \in F
    PROVE  /\ Table([ps EXCEPT ![p] = r])
           /\ Kept(ps, [ps EXCEPT ![p] = r], W, F)
<1>1. Table([ps EXCEPT ![p] = r])
  BY TableEdit, Zenon DEF Table
<1>2. ASSUME NEW i \in Entries
      PROVE  [ps EXCEPT ![p] = r][i] = IF i = p THEN r ELSE ps[i]
  BY Zenon DEF Table
<1> QED
  BY <1>1, <1>2, Zenon DEF Kept, Alive

\* The caller's pc moving past its call.
LEMMA TableReturn ==
    ASSUME NEW ps, Table(ps), NEW qs, Table(qs), NEW p \in Entries, NEW W, NEW F,
           Kept(ps, qs, W, F)
    PROVE  /\ Table([qs EXCEPT ![p].retry = "none"])
           /\ Kept(ps, [qs EXCEPT ![p].retry = "none"], W, F)
<1> DEFINE r == [qs[p] EXCEPT !.retry = "none"]
           rs == [qs EXCEPT ![p].retry = "none"]
<1>1. qs[p] \in Proc /\ (qs[p].state \notin {"FREE", "ZOMBIE"} => qs[p].prog \in Programs)
  BY Zenon DEF Table, Alive
<1>2. /\ r \in Proc /\ r.state = qs[p].state /\ r.prog = qs[p].prog /\ r.pid = qs[p].pid
      /\ r.parent = qs[p].parent /\ r.fs = qs[p].fs /\ r.wait_pid = qs[p].wait_pid
      /\ r.files = qs[p].files
  BY <1>1, Zenon DEF Proc
<1>3. rs = [qs EXCEPT ![p] = r]
  BY Zenon DEF Table
<1>4. \A i \in Entries : rs[i] = IF i = p THEN r ELSE qs[i]
  BY <1>3, Zenon DEF Table
<1>5. Table(rs)
  BY <1>1, <1>2, <1>3, TableEdit, Zenon
<1>6. Kept(ps, rs, W, F)
  BY <1>2, <1>4 DEF Kept, Alive
<1> QED
  BY <1>5, <1>6, Zenon

\* A call that returns.
LEMMA ReturnStep ==
    ASSUME TypeInv, NEW ps, Table(ps), NEW p \in Entries, NEW W, NEW F,
           Kept(procs, ps, W, F), Return(ps, p), RestOK'
    PROVE  TypeInv' /\ Kept(procs, procs', W, F)
<1>1. engines_used \in BOOLEAN /\ Table(procs)
  BY Zenon DEF TypeInv, TypeOK
<1> QED
  BY <1>1, TableReturn, ScheduledStep DEF Return

\* The process that takes a step is alive and has a program.
LEMMA DoesAlive ==
    ASSUME TypeInv, NEW p \in Entries, NEW c, Does(p, c)
    PROVE  /\ procs[p] \in Proc /\ procs[p].state = "RUNNING" /\ procs[p].prog \in Programs
           /\ Alive(procs, p) /\ halted = "no" /\ current = p /\ p # None
<1>1. p # None
  BY KernelAssumption DEF Entries
<1> QED
  BY <1>1, Zenon DEF TypeInv, TypeOK, Table, CurrentRuns, Does, Alive

\* Calls that leave the table alone, but for the pc.
LEMMA PlainCallStep ==
    ASSUME TypeInv, NEW p \in Entries,
           OtherCall(p) \/ WritePalette(p) \/ SpawnRefused(p)
    PROVE  TypeInv' /\ Kept(procs, procs', {}, {})
<1>1. Return(procs, p)
  BY Zenon DEF OtherCall, WritePalette, SpawnRefused
<1>2. procs[p].pid \in Pids
  BY Zenon DEF TypeInv, TypeOK, Proc
<1>3. RestOK'
  BY <1>1, <1>2, Zenon DEF OtherCall, WritePalette, SpawnRefused, Return, TypeInv, TypeOK, RestOK,
     fpuVars, spaceVars, paletteVars, fileVars
<1>4. Table(procs) /\ Kept(procs, procs, {}, {})
  BY Zenon DEF TypeInv, Kept
<1> QED
  BY <1>1, <1>3, <1>4, ReturnStep, Zenon

\* SYS_READ of the console blocks its caller or takes bytes.
LEMMA ReadConsoleStep ==
    ASSUME TypeInv, NEW p \in Entries, ReadConsole(p)
    PROVE  TypeInv' /\ Kept(procs, procs', {}, {})
<1>1. /\ Table(procs) /\ engines_used \in BOOLEAN
      /\ procs[p] \in Proc /\ procs[p].prog \in Programs /\ Alive(procs, p)
  BY DoesAlive, Zenon DEF ReadConsole, TypeInv, TypeOK
<1>2. RestOK'
  <2>1. rx' \in 0 .. MaxBytes
    BY KernelAssumption DEF ReadConsole, TypeInv, TypeOK
  <2> QED
    BY <2>1, Zenon DEF ReadConsole, TypeInv, TypeOK, RestOK, fpuVars, spaceVars, paletteVars, fileVars
<1> DEFINE r == [procs[p] EXCEPT !.state = "BLOCKED_READ", !.retry = "read"]
           ps == [procs EXCEPT ![p].state = "BLOCKED_READ", ![p].retry = "read"]
           qs == [procs EXCEPT ![p].retry = "none"]
<1>3. Table(ps) /\ Kept(procs, ps, {}, {})
  <2>1. /\ r \in Proc /\ r.state = "BLOCKED_READ" /\ r.pid = procs[p].pid
        /\ r.parent = procs[p].parent /\ r.prog = procs[p].prog /\ r.fs = procs[p].fs
        /\ r.files = procs[p].files
    BY <1>1, Zenon DEF Proc, States
  <2>2. ps = [procs EXCEPT ![p] = r]
    BY <1>1, Zenon DEF Table
  <2> HIDE DEF r
  <2> QED
    BY <1>1, <2>1, <2>2, CallerEdit, Zenon
<1>4. Table(qs) /\ Kept(procs, qs, {}, {})
  <2>1. Kept(procs, procs, {}, {})
    BY Zenon DEF Kept
  <2> QED
    BY <1>1, <2>1, TableReturn, Zenon
<1> HIDE DEF ps, qs
<1>5. CASE Schedule(ps, p, engines_used, job, rx)
  BY <1>1, <1>2, <1>3, <1>5, ScheduledStep, Zenon
<1>6. CASE \E n \in 1 .. rx : Schedule(qs, p, engines_used, job, rx - n)
  BY <1>1, <1>2, <1>4, <1>6, ScheduledStep, Zenon
<1> QED
  BY <1>5, <1>6, Zenon DEF ReadConsole, ps, qs

\* SYS_PRESENT returns, or runs again.
LEMMA PresentStep ==
    ASSUME TypeInv, NEW p \in Entries, Present(p)
    PROVE  TypeInv' /\ Kept(procs, procs', {}, {})
<1>1. Table(procs) /\ procs[p] \in Proc /\ procs[p].state = "RUNNING" /\ Alive(procs, p)
  BY DoesAlive, Zenon DEF Present, TypeInv
<1>2. RestOK'
  BY Zenon DEF Present, TypeInv, TypeOK, RestOK, fpuVars, spaceVars, paletteVars, fileVars
<1> DEFINE retry == IF EnginesBusy(engines_used, job) THEN "present" ELSE "none"
           r == [procs[p] EXCEPT !.retry = retry]
           ps == [procs EXCEPT ![p].retry = retry]
<1>3. Table(ps) /\ Kept(procs, ps, {}, {})
  <2>1. /\ r \in Proc /\ r.state = "RUNNING" /\ r.pid = procs[p].pid
        /\ r.parent = procs[p].parent /\ r.prog = procs[p].prog /\ r.fs = procs[p].fs
        /\ r.files = procs[p].files
    BY <1>1, Zenon DEF Proc
  <2>2. ps = [procs EXCEPT ![p] = r]
    BY <1>1, Zenon DEF Table
  <2> HIDE DEF r
  <2> QED
    BY <1>1, <2>1, <2>2, CallerEdit, Zenon
<1>4. UsedAfterLook(procs, engines_used, job) \in BOOLEAN
  BY Zenon DEF UsedAfterLook, TypeInv, TypeOK
<1>5. Schedule(ps, p, UsedAfterLook(procs, engines_used, job), job, rx)
  BY Zenon DEF Present
<1> HIDE DEF ps
<1> QED
  BY <1>2, <1>3, <1>4, <1>5, ScheduledStep, Zenon

\* SYS_YIELD makes its caller ready, SYS_SLEEP puts it to sleep.
LEMMA YieldSleepStep ==
    ASSUME TypeInv, NEW p \in Entries, Yield(p) \/ Sleep(p)
    PROVE  TypeInv' /\ Kept(procs, procs', {}, {})
<1>1. Table(procs) /\ procs[p] \in Proc /\ Alive(procs, p)
  BY DoesAlive, Zenon DEF Yield, Sleep, TypeInv
<1>2. RestOK'
  BY Zenon DEF Yield, Sleep, Return, TypeInv, TypeOK, RestOK, fpuVars, spaceVars, paletteVars,
     fileVars
<1>3. CASE Yield(p)
  <2> DEFINE r == [procs[p] EXCEPT !.state = "READY"]
             ps == [procs EXCEPT ![p].state = "READY"]
  <2>1. /\ r \in Proc /\ r.state = "READY" /\ r.pid = procs[p].pid
        /\ r.parent = procs[p].parent /\ r.prog = procs[p].prog /\ r.fs = procs[p].fs
        /\ r.files = procs[p].files
    BY <1>1, Zenon DEF Proc, States
  <2>2. ps = [procs EXCEPT ![p] = r]
    BY <1>1, Zenon DEF Table
  <2>3. Table(ps) /\ Kept(procs, ps, {}, {})
    <3> HIDE DEF r
    <3> QED
      BY <1>1, <2>1, <2>2, CallerEdit, Zenon
  <2>4. Return(ps, p)
    BY <1>3, Zenon DEF Yield
  <2> HIDE DEF ps
  <2> QED
    BY <1>2, <2>3, <2>4, ReturnStep, Zenon
<1>4. ASSUME NEW d \in 0 .. MaxSleep,
             Return([procs EXCEPT ![p].state = "BLOCKED_SLEEP", ![p].wake = d], p)
      PROVE  TypeInv' /\ Kept(procs, procs', {}, {})
  <2> DEFINE r == [procs[p] EXCEPT !.state = "BLOCKED_SLEEP", !.wake = d]
             ps == [procs EXCEPT ![p].state = "BLOCKED_SLEEP", ![p].wake = d]
  <2>1. /\ r \in Proc /\ r.state = "BLOCKED_SLEEP" /\ r.pid = procs[p].pid
        /\ r.parent = procs[p].parent /\ r.prog = procs[p].prog /\ r.fs = procs[p].fs
        /\ r.files = procs[p].files
    BY <1>1, Zenon DEF Proc, States
  <2>2. ps = [procs EXCEPT ![p] = r]
    BY <1>1, Zenon DEF Table
  <2>3. Table(ps) /\ Kept(procs, ps, {}, {})
    <3> HIDE DEF r
    <3> QED
      BY <1>1, <2>1, <2>2, CallerEdit, Zenon
  <2> HIDE DEF ps
  <2>4. Return(ps, p)
    BY <1>4, Zenon DEF ps
  <2> QED
    BY <1>2, <2>3, <2>4, ReturnStep, Zenon
<1> QED
  BY <1>3, <1>4, Zenon DEF Sleep

\* SYS_WAIT frees the child it waited for, or blocks its caller.
LEMMA WaitStep ==
    ASSUME TypeInv, NEW p \in Entries, Wait(p)
    PROVE  TypeInv' /\ Kept(procs, procs', {p}, {})
<1>1. /\ Table(procs) /\ engines_used \in BOOLEAN
      /\ procs[p] \in Proc /\ Alive(procs, p)
  BY DoesAlive, Zenon DEF Wait, TypeInv, TypeOK
<1>2. RestOK'
  BY Zenon DEF Wait, Return, TypeInv, TypeOK, RestOK, fpuVars, spaceVars, paletteVars, fileVars
<1>3. PICK pid \in Pids :
        LET children == Children(procs, p, pid)
        IN  \/ /\ \A i \in children : procs[i].state = "ZOMBIE"
               /\ Return([i \in Entries |-> IF i \in children
                                            THEN [procs[i] EXCEPT !.state = "FREE"]
                                            ELSE procs[i]], p)
            \/ Schedule([procs EXCEPT ![p].state = "BLOCKED_WAIT", ![p].wait_pid = pid,
                                      ![p].retry = "wait"], p, engines_used, job, rx)
  <2>1. procs[p].wait_pid \in Pids
    BY <1>1, Zenon DEF Proc
  <2> QED
    BY <2>1, Zenon DEF Wait
<1> DEFINE children == Children(procs, p, pid)
           freed == [i \in Entries |-> IF i \in children
                                       THEN [procs[i] EXCEPT !.state = "FREE"]
                                       ELSE procs[i]]
           r == [procs[p] EXCEPT !.state = "BLOCKED_WAIT", !.wait_pid = pid, !.retry = "wait"]
           ps == [procs EXCEPT ![p].state = "BLOCKED_WAIT", ![p].wait_pid = pid,
                               ![p].retry = "wait"]
<1>4. ASSUME \A i \in children : procs[i].state = "ZOMBIE"
      PROVE  Table(freed) /\ Kept(procs, freed, {p}, {})
  <2>1. ASSUME NEW i \in Entries
        PROVE  LET q == [procs[i] EXCEPT !.state = "FREE"]
               IN  /\ q \in Proc /\ q.state = "FREE" /\ q.pid = procs[i].pid
                   /\ q.parent = procs[i].parent /\ q.prog = procs[i].prog
                   /\ q.fs = procs[i].fs /\ q.files = procs[i].files
    <3>1. procs[i] \in Proc
      BY <1>1, Zenon DEF Table
    <3> QED
      BY <3>1, Zenon DEF Proc, States
  <2>2. Table(freed)
    BY <1>1, <2>1, Zenon DEF Table, Alive
  <2>3. Kept(procs, freed, {p}, {})
    BY <1>4, <2>1, Zenon DEF Kept, Alive
  <2> QED
    BY <2>2, <2>3, Zenon
<1>5. Table(ps) /\ Kept(procs, ps, {p}, {})
  <2>1. /\ r \in Proc /\ r.state = "BLOCKED_WAIT" /\ r.pid = procs[p].pid
        /\ r.parent = procs[p].parent /\ r.prog = procs[p].prog /\ r.fs = procs[p].fs
        /\ r.files = procs[p].files
    BY <1>1, Zenon DEF Proc, States
  <2>2. ps = [procs EXCEPT ![p] = r]
    BY <1>1, Zenon DEF Table
  <2> HIDE DEF r
  <2> QED
    BY <1>1, <2>1, <2>2, CallerEdit, Zenon
<1> HIDE DEF freed, ps
<1>6. CASE (\A i \in children : procs[i].state = "ZOMBIE") /\ Return(freed, p)
  BY <1>2, <1>4, <1>6, ReturnStep, Zenon
<1>7. CASE Schedule(ps, p, engines_used, job, rx)
  BY <1>1, <1>2, <1>5, <1>7, ScheduledStep, Zenon
<1> QED
  BY <1>3, <1>6, <1>7, Zenon DEF freed, ps

\* A directory written back, or not, keeps its type.
LEMMA FlushType ==
    ASSUME TypeInv, NEW needed, NEW d \in [Files -> {None} \cup (0 .. MaxSize)],
           FlushIf(needed, d)
    PROVE  /\ dir' \in [Files -> {None} \cup (0 .. MaxSize)]
           /\ diskdir' \in [Files -> {None} \cup (0 .. MaxSize)]
           /\ lost' \in BOOLEAN
BY Zenon DEF FlushIf, TypeInv, TypeOK

\* halt() leaves types as they were.
LEMMA StopType ==
    ASSUME TypeInv, NEW ps, Table(ps), NEW how \in {"halt", "panic"}, NEW closing,
           Stop(ps, how, closing), RestOK'
    PROVE  TypeInv'
BY Zenon DEF Stop, TypeInv, TypeOK, RestOK, CurrentRuns, Table, hartVars

\* finish() leaves a table.
LEMMA FinishedTable ==
    ASSUME NEW ps, Table(ps), NEW p \in Entries
    PROVE  Table(Reaped(ps, p)) /\ Table(Finished(ps, p))
<1> DEFINE reaped == Reaped(ps, p)
<1>1. ASSUME NEW i \in Entries
      PROVE  /\ reaped[i] \in Proc
             /\ Alive(reaped, i) => reaped[i].prog \in Programs
  <2>1. ps[i] \in Proc /\ (Alive(ps, i) => ps[i].prog \in Programs)
    BY Zenon DEF Table
  <2>2. NoFiles \in [Fds -> OpenFile]
    BY Zenon DEF NoFiles, OpenFile
  <2>3. /\ [ps[i] EXCEPT !.files = NoFiles] \in Proc
        /\ [ps[i] EXCEPT !.files = NoFiles].state = ps[i].state
        /\ [ps[i] EXCEPT !.files = NoFiles].prog = ps[i].prog
    BY <2>1, <2>2, Zenon DEF Proc
  <2>4. /\ [ps[i] EXCEPT !.state = "FREE"] \in Proc
        /\ [ps[i] EXCEPT !.state = "FREE"].state = "FREE"
    BY <2>1, Zenon DEF Proc, States
  <2> QED
    BY <2>1, <2>3, <2>4, Zenon DEF Reaped, Alive
<1>2. Table(reaped)
  BY <1>1, Zenon DEF Table, Reaped
<1>3. ASSUME NEW i \in Entries
      PROVE  /\ Finished(ps, p)[i] \in Proc
             /\ Alive(Finished(ps, p), i) => Finished(ps, p)[i].prog \in Programs
  <2>1. ASSUME NEW st \in States
        PROVE  /\ [reaped[i] EXCEPT !.state = st] \in Proc
               /\ [reaped[i] EXCEPT !.state = st].state = st
               /\ [reaped[i] EXCEPT !.state = st].prog = reaped[i].prog
    BY <1>1, Zenon DEF Proc
  <2>2. CASE i = p
    BY <2>1, <2>2, Zenon DEF Finished, States, Alive
  <2>3. CASE i # p
    BY <1>1, <2>1, <2>3, Zenon DEF Finished, States, Alive, Parents
  <2> QED
    BY <2>2, <2>3, Zenon
<1>4. Table(Finished(ps, p))
  BY <1>3, ZenonT(30) DEF Table, Finished
<1> QED
  BY <1>2, <1>4, Zenon

\* The end of a process stops the machine, or leaves finish()'s table.
LEMMA FinishStep ==
    ASSUME TypeInv, NEW p \in Entries, Finish(p)
    PROVE  /\ TypeInv'
           /\ \/ halted' = "halt"
              \/ halted' = halted /\ Rescheduled(Finished(procs, p), procs')
<1>1. /\ Table(Reaped(procs, p)) /\ Table(Finished(procs, p))
      /\ engines_used \in BOOLEAN
  BY FinishedTable, Zenon DEF TypeInv, TypeOK
<1> DEFINE closing == Writes(procs, p)
<1>2. RestOK'
  <2>1. job' \in [owner : Pids, mem : SUBSET SlotIds] \cup {None}
    BY Zenon DEF Finish, JobAfter, TypeInv, TypeOK
  <2>2. palette' \in {"boot", "custom"} /\ palette_writer' \in Pids
    BY KernelAssumption DEF Finish, RestorePalette, TypeInv, TypeOK, paletteVars, Pids
  <2>3. fpu_owner' \in Entries \cup {None}
    BY Zenon DEF Finish, TypeInv, TypeOK
  <2>4. /\ \E needed : FlushIf(needed, dir)
        /\ halted' \in {"no", "halt", "panic", "fault"}
    BY Zenon DEF Finish, Stop, TypeInv, TypeOK
  <2>5. /\ dir' \in [Files -> {None} \cup (0 .. MaxSize)]
        /\ diskdir' \in [Files -> {None} \cup (0 .. MaxSize)]
        /\ lost' \in BOOLEAN
    BY <2>4, FlushType, Zenon DEF TypeInv, TypeOK
  <2> QED
    BY <2>1, <2>2, <2>3, <2>4, <2>5, Zenon DEF Finish, TypeInv, TypeOK, RestOK, spaceVars
<1>3. CASE Stop(Reaped(procs, p), "halt", closing)
  BY <1>1, <1>2, <1>3, StopType, Zenon DEF Stop
<1>4. CASE /\ Schedule(Finished(procs, p), p, engines_used, JobAfter(procs, p), rx)
           /\ UNCHANGED halted
  BY <1>1, <1>2, <1>4, ScheduledStep, Zenon
<1> QED
  BY <1>3, <1>4, Zenon DEF Finish

\* SYS_HALT.
LEMMA HaltType ==
    ASSUME TypeInv, NEW p \in Entries, Halt(p)
    PROVE  TypeInv'
<1>1. Stop(procs, "halt", FALSE)
  BY ZenonT(30) DEF Halt
<1>2. /\ dir' \in [Files -> {None} \cup (0 .. MaxSize)]
      /\ diskdir' \in [Files -> {None} \cup (0 .. MaxSize)]
      /\ lost' \in BOOLEAN
  BY <1>1, FlushType, Zenon DEF Stop, TypeInv, TypeOK
<1>3. RestOK'
  BY <1>1, <1>2, Zenon DEF Halt, Stop, TypeInv, TypeOK, RestOK, fpuVars, spaceVars, paletteVars
<1> QED
  BY <1>1, <1>3, StopType, Zenon DEF TypeInv

\* The entry spawn() fills in.
LEMMA NewProcType ==
    ASSUME TypeInv, NEW p \in Entries, NEW g \in Programs, next_pid <= MaxPid
    PROVE  /\ NewProc(g, next_pid, procs[p].pid) \in Proc
           /\ NewProc(g, next_pid, procs[p].pid).prog = g
<1>1. next_pid \in Pids /\ procs[p].pid \in Pids /\ 0 \in Pids
  BY KernelAssumption DEF TypeInv, TypeOK, Proc, Pids
<1>2. NoFiles \in [Fds -> OpenFile] /\ 0 \in 0 .. MaxSleep
  BY KernelAssumption DEF NoFiles, OpenFile
<1> QED
  BY <1>1, <1>2, Zenon DEF NewProc, Proc, States

\* SYS_SPAWN starts a process in a free entry whose slots nobody uses.
LEMMA SpawnStep ==
    ASSUME TypeInv, NEW p \in Entries, Spawn(p)
    PROVE  /\ TypeInv'
           /\ \E g \in Programs, e \in FreeEntries(procs) :
                 /\ ~SlotsInUse(procs, g)
                 /\ MapProcess(e, g)
                 /\ saved' = [saved EXCEPT ![e] = FpZero]
                 /\ want' = [want EXCEPT ![e] = FpZero]
                 /\ Rescheduled([procs EXCEPT ![e] = NewProc(g, next_pid, procs[p].pid)], procs')
<1>1. PICK g \in Programs, e \in FreeEntries(procs) :
          /\ ~SlotsInUse(procs, g)
          /\ MapProcess(e, g)
          /\ saved' = [saved EXCEPT ![e] = FpZero]
          /\ want' = [want EXCEPT ![e] = FpZero]
          /\ Schedule([procs EXCEPT ![e] = NewProc(g, next_pid, procs[p].pid)],
                      p, engines_used, job, rx)
  BY Zenon DEF Spawn
<1>2. e \in Entries
  BY Zenon DEF FreeEntries
<1>3. /\ NewProc(g, next_pid, procs[p].pid) \in Proc
      /\ NewProc(g, next_pid, procs[p].pid).prog = g
  BY NewProcType, Zenon DEF Spawn
<1>4. Table([procs EXCEPT ![e] = NewProc(g, next_pid, procs[p].pid)])
  BY <1>2, <1>3, TableEdit, Zenon DEF TypeInv
<1>5. RestOK'
  <2>1. next_pid' \in 2 .. MaxPid + 1
    BY KernelAssumption DEF Spawn, TypeInv, TypeOK
  <2>2. Regions(g) \in SUBSET (SlotIds \cup {Engines})
    BY KernelAssumption, Zenon DEF Regions
  <2>3. /\ space' \in [Entries -> Programs \cup {None}]
        /\ leaves' \in [Entries -> SUBSET (SlotIds \cup {Engines})]
    BY <1>1, <1>2, <2>2, Zenon DEF MapProcess, TypeInv, TypeOK
  <2>4. saved' \in [Entries -> FpValues] /\ want' \in [Entries -> FpValues]
    BY <1>1, <1>2, KernelAssumption, Zenon DEF TypeInv, TypeOK
  <2> QED
    BY <2>1, <2>3, <2>4, Zenon DEF Spawn, TypeInv, TypeOK, RestOK, paletteVars, fileVars
<1> DEFINE ps == [procs EXCEPT ![e] = NewProc(g, next_pid, procs[p].pid)]
<1>6. TypeInv' /\ Rescheduled(ps, procs')
  <2> HIDE DEF ps
  <2>1. Table(ps) /\ Schedule(ps, p, engines_used, job, rx)
    BY <1>1, <1>4, Zenon DEF ps
  <2> QED
    BY <1>5, <2>1, TypeParts, ScheduledStep, Zenon
<1> QED
  BY <1>1, <1>6, Zenon

\* A call that opens or closes a descriptor of its caller.
LEMMA DescriptorEdit ==
    ASSUME NEW ps, Table(ps), NEW p \in Entries, Alive(ps, p), NEW k \in Fds, NEW o \in OpenFile
    PROVE  /\ Table([ps EXCEPT ![p].files[k] = o])
           /\ ps[p].state # "BLOCKED_WAIT" => Kept(ps, [ps EXCEPT ![p].files[k] = o], {}, {p})
<1> DEFINE r == [ps[p] EXCEPT !.files[k] = o]
<1>1. ps[p] \in Proc /\ ps[p].prog \in Programs /\ ps[p].state \notin {"FREE", "ZOMBIE"}
  BY Zenon DEF Table, Alive
<1>2. [ps[p].files EXCEPT ![k] = o] \in [Fds -> OpenFile]
  BY <1>1, Zenon DEF Proc
<1>3. /\ r \in Proc /\ r.state = ps[p].state /\ r.pid = ps[p].pid /\ r.parent = ps[p].parent
      /\ r.prog = ps[p].prog /\ r.fs = ps[p].fs
  BY <1>1, <1>2, Zenon DEF Proc
<1>4. [ps EXCEPT ![p].files[k] = o] = [ps EXCEPT ![p] = r]
  BY Zenon DEF Table
<1> HIDE DEF r
<1>5. Table([ps EXCEPT ![p] = r])
  BY <1>1, <1>3, TableEdit, Zenon
<1>6. ps[p].state # "BLOCKED_WAIT" => Kept(ps, [ps EXCEPT ![p] = r], {}, {p})
  BY <1>1, <1>3, CallerEdit, Zenon
<1> QED
  BY <1>4, <1>5, <1>6, Zenon

\* SYS_OPEN, of a file that exists or a new one.
LEMMA OpenStep ==
    ASSUME TypeInv, NEW p \in Entries, Open(p) \/ Create(p)
    PROVE  TypeInv' /\ Kept(procs, procs', {}, {p})
<1>1. PICK f \in Files, mode \in {"read", "write"}, k \in FirstClosed(procs, p) :
          /\ \E needed : \/ FlushIf(needed, dir)
                         \/ FlushIf(needed, [dir EXCEPT ![f] = 0])
          /\ \/ Return(procs, p)
             \/ Return(Opened(procs, p, f, mode, k), p)
  BY Zenon DEF Open, Create
<1>2. k \in Fds /\ [mode |-> mode, file |-> f] \in OpenFile
  BY Zenon DEF FirstClosed, OpenFile
<1>3. Table(procs) /\ Alive(procs, p) /\ procs[p].state = "RUNNING"
  BY DoesAlive, Zenon DEF Open, Create, TypeInv
<1>4. /\ Table(Opened(procs, p, f, mode, k))
      /\ Kept(procs, Opened(procs, p, f, mode, k), {}, {p})
      /\ Kept(procs, procs, {}, {p})
  <2>1. Kept(procs, procs, {}, {p})
    BY Zenon DEF Kept
  <2> QED
    BY <1>2, <1>3, <2>1, DescriptorEdit, Zenon DEF Opened
<1>5. /\ dir' \in [Files -> {None} \cup (0 .. MaxSize)]
      /\ diskdir' \in [Files -> {None} \cup (0 .. MaxSize)]
      /\ lost' \in BOOLEAN
  <2>1. /\ dir \in [Files -> {None} \cup (0 .. MaxSize)]
        /\ [dir EXCEPT ![f] = 0] \in [Files -> {None} \cup (0 .. MaxSize)]
    BY KernelAssumption DEF TypeInv, TypeOK
  <2> QED
    BY <1>1, <2>1, FlushType, Zenon
<1>6. RestOK'
  BY <1>5, Zenon DEF Open, Create, Return, TypeInv, TypeOK, RestOK, fpuVars, spaceVars,
     paletteVars
<1> QED
  BY <1>1, <1>3, <1>4, <1>6, ReturnStep, Zenon

\* SYS_WRITE to a file.
LEMMA WriteFileStep ==
    ASSUME TypeInv, NEW p \in Entries, WriteFile(p)
    PROVE  TypeInv' /\ Kept(procs, procs', {}, {})
<1>1. PICK k \in Fds, n \in 0 .. MaxSize :
          /\ procs[p].files[k].mode = "write"
          /\ FlushIf(FALSE, [dir EXCEPT ![procs[p].files[k].file] = n])
  BY Zenon DEF WriteFile
<1>2. [dir EXCEPT ![procs[p].files[k].file] = n] \in [Files -> {None} \cup (0 .. MaxSize)]
  BY Zenon DEF TypeInv, TypeOK
<1>3. /\ dir' \in [Files -> {None} \cup (0 .. MaxSize)]
      /\ diskdir' \in [Files -> {None} \cup (0 .. MaxSize)]
      /\ lost' \in BOOLEAN
  BY <1>1, <1>2, FlushType, Zenon
<1>4. RestOK'
  BY <1>3, Zenon DEF WriteFile, Return, TypeInv, TypeOK, RestOK, fpuVars, spaceVars, paletteVars
<1>5. Table(procs) /\ Kept(procs, procs, {}, {}) /\ Return(procs, p)
  BY Zenon DEF WriteFile, TypeInv, Kept
<1> QED
  BY <1>4, <1>5, ReturnStep, Zenon

\* SYS_CLOSE.
LEMMA CloseStep ==
    ASSUME TypeInv, NEW p \in Entries, Close(p)
    PROVE  TypeInv' /\ Kept(procs, procs', {}, {p})
<1>1. PICK k \in Fds : /\ \E needed : FlushIf(needed, dir)
                       /\ Return([procs EXCEPT ![p].files[k] = Closed], p)
  BY Zenon DEF Close
<1> DEFINE ps == [procs EXCEPT ![p].files[k] = Closed]
<1>2. Table(ps) /\ Kept(procs, ps, {}, {p})
  <2>1. Closed \in OpenFile
    BY Zenon DEF OpenFile
  <2>2. Table(procs) /\ Alive(procs, p) /\ procs[p].state = "RUNNING"
    BY DoesAlive, Zenon DEF Close, TypeInv
  <2> QED
    BY <2>1, <2>2, DescriptorEdit, Zenon
<1>3. /\ dir' \in [Files -> {None} \cup (0 .. MaxSize)]
      /\ diskdir' \in [Files -> {None} \cup (0 .. MaxSize)]
      /\ lost' \in BOOLEAN
  BY <1>1, FlushType, Zenon DEF TypeInv, TypeOK
<1>4. RestOK'
  BY <1>3, Zenon DEF Close, Return, TypeInv, TypeOK, RestOK, fpuVars, spaceVars, paletteVars
<1> HIDE DEF ps
<1>5. Return(ps, p)
  BY <1>1, Zenon DEF ps
<1> QED
  BY <1>2, <1>4, <1>5, ReturnStep, Zenon

\* The hand-over leaves a table.
LEMMA HandedOverTable ==
    ASSUME TypeInv, NEW p \in Entries
    PROVE  Table(HandedOver(p))
<1>1. ASSUME NEW i \in Entries, NEW fs \in {"Off", "Clean"}
      PROVE  /\ [procs[i] EXCEPT !.fs = fs] \in Proc
             /\ [procs[i] EXCEPT !.fs = fs].state = procs[i].state
             /\ [procs[i] EXCEPT !.fs = fs].prog = procs[i].prog
  <2>1. procs[i] \in Proc
    BY Zenon DEF TypeInv, TypeOK
  <2> QED
    BY <2>1, Zenon DEF Proc
<1>2. \A i \in Entries : /\ HandedOver(p)[i] \in Proc
                         /\ HandedOver(p)[i].state = procs[i].state
                         /\ HandedOver(p)[i].prog = procs[i].prog
  BY <1>1, Zenon DEF HandedOver, TypeInv, TypeOK
<1>3. HandedOver(p) \in [Entries -> Proc]
  BY <1>2, Zenon DEF HandedOver
<1> QED
  BY <1>2, <1>3, Zenon DEF Table, Alive, TypeInv

\* claim_fpu() panics, or hands the FPU over.
LEMMA ClaimFpuStep ==
    ASSUME TypeInv, NEW p \in Entries, ClaimFpu(p)
    PROVE  /\ TypeInv'
           /\ \/ \E i \in Entries \ {p} : Alive(HandedOver(p), i) /\ HandedOver(p)[i].fs # "Off"
              \/ halted' = halted /\ Rescheduled(HandedOver(p), procs')
<1>1. Table(HandedOver(p))
  BY HandedOverTable, Zenon
<1>2. RestOK'
  <2>1. SavedIfDirty \in [Entries -> FpValues]
    BY Zenon DEF SavedIfDirty, TypeInv, TypeOK
  <2>2. \/ UNCHANGED <<halted, fileVars>>
        \/ halted' = "panic" /\ \E needed : FlushIf(needed, dir)
    BY ZenonT(30) DEF ClaimFpu, Stop
  <2>3. /\ dir' \in [Files -> {None} \cup (0 .. MaxSize)]
        /\ diskdir' \in [Files -> {None} \cup (0 .. MaxSize)]
        /\ lost' \in BOOLEAN
        /\ halted' \in {"no", "halt", "panic", "fault"}
    BY <2>2, FlushType, Zenon DEF fileVars, TypeInv, TypeOK
  <2> QED
    BY <2>1, <2>3, Zenon DEF ClaimFpu, TypeInv, TypeOK, RestOK, spaceVars, paletteVars
<1>3. CASE /\ Stop(HandedOver(p), "panic", FALSE)
           /\ \E i \in Entries \ {p} : Alive(HandedOver(p), i) /\ HandedOver(p)[i].fs # "Off"
  BY <1>1, <1>2, <1>3, StopType, Zenon
<1>4. CASE /\ Schedule(HandedOver(p), p, engines_used, job, rx)
           /\ UNCHANGED <<halted, fileVars>>
  BY <1>1, <1>2, <1>4, TypeParts, ScheduledStep, Zenon
<1> QED
  BY <1>3, <1>4, ZenonT(30) DEF ClaimFpu

\* An F instruction that writes.
LEMMA FloatWriteType ==
    ASSUME TypeInv, NEW p \in Entries, FloatWrite(p)
    PROVE  TypeInv'
<1> DEFINE r == [procs[p] EXCEPT !.fs = "Dirty"]
<1>1. procs[p] \in Proc /\ procs[p].prog \in Programs /\ current = p
  BY DoesAlive, Zenon DEF FloatWrite
<1>2. r \in Proc /\ r.prog = procs[p].prog /\ r.state = procs[p].state
  BY <1>1, Zenon DEF Proc
<1>3. procs' = [procs EXCEPT ![p] = r]
  BY Zenon DEF FloatWrite, TypeInv, Table
<1>4. Table(procs')
  BY <1>1, <1>2, <1>3, TableEdit, Zenon DEF TypeInv
<1>5. procs'[p].state = procs[p].state
  BY <1>2, <1>3, Zenon DEF TypeInv, Table
<1>6. CurrentRuns'
  BY <1>1, <1>5, Zenon DEF FloatWrite, CurrentRuns, TypeInv
<1> QED
  BY <1>4, <1>6, ZenonT(30) DEF FloatWrite, TypeInv, TypeOK, Table, engineVars, spaceVars,
     hartVars, paletteVars, fileVars

\* Steps of the machine that leave the process table and its types alone.
LEMMA MachineType ==
    ASSUME TypeInv,
           \/ \E p \in Entries : StartJob(p) \/ SpawnFaults(p) \/ Access(p)
           \/ JobDone \/ ConsoleInput \/ Halted
    PROVE  TypeInv'
<1>1. ASSUME NEW p \in Entries, StartJob(p) PROVE TypeInv'
  <2>1. procs[p].pid \in Pids
    BY Zenon DEF TypeInv, TypeOK, Proc
  <2>2. job' \in [owner : Pids, mem : SUBSET SlotIds]
    <3>1. PICK mem \in SUBSET SlotIds : job' = [owner |-> procs[p].pid, mem |-> mem]
      BY <1>1, ZenonT(30) DEF StartJob
    <3> QED
      BY <2>1, <3>1, Zenon
  <2>3. RestOK'
    BY <1>1, <2>2, TypeParts, Zenon DEF StartJob, RestOK, procVars, fpuVars, spaceVars, paletteVars,
       fileVars
  <2> QED
    BY <1>1, <2>3, TypeParts, UnscheduledStep, Zenon DEF StartJob, HartOK, procVars, hartVars
<1>2. ASSUME NEW p \in Entries, SpawnFaults(p) PROVE TypeInv'
  <2>1. RestOK'
    BY <1>2, TypeParts, ZenonT(30) DEF SpawnFaults, StoreFaults, RestOK, procVars, fpuVars,
       engineVars, spaceVars, paletteVars, fileVars
  <2> QED
    BY <1>2, <2>1, TypeParts, UnscheduledStep, ZenonT(30) DEF SpawnFaults, StoreFaults, HartOK,
       procVars, engineVars, hartVars
<1>3. ASSUME NEW p \in Entries, Access(p) PROVE TypeInv'
  <2>1. tlb' \subseteq SlotIds \cup {Engines}
    BY <1>3, Zenon DEF Access, TypeInv, TypeOK
  <2>2. RestOK'
    BY <1>3, TypeParts, Zenon DEF Access, RestOK, procVars, fpuVars, engineVars, spaceVars,
       paletteVars, fileVars
  <2> QED
    BY <1>3, <2>1, <2>2, TypeParts, UnscheduledStep, ZenonT(30) DEF Access, HartOK, procVars,
       engineVars
<1>4. CASE JobDone
  <2>1. RestOK'
    BY <1>4, TypeParts, Zenon DEF JobDone, RestOK, procVars, fpuVars, spaceVars, paletteVars, fileVars
  <2> QED
    BY <1>4, <2>1, TypeParts, UnscheduledStep, Zenon DEF JobDone, HartOK, procVars, hartVars
<1>5. CASE ConsoleInput
  <2>1. rx' \in 0 .. MaxBytes
    BY <1>5, KernelAssumption DEF ConsoleInput, TypeInv, TypeOK
  <2>2. RestOK'
    BY <1>5, <2>1, TypeParts, Zenon DEF ConsoleInput, RestOK, procVars, fpuVars, engineVars, spaceVars,
       paletteVars, fileVars
  <2> QED
    BY <1>5, <2>2, TypeParts, UnscheduledStep, Zenon DEF ConsoleInput, HartOK, procVars, engineVars,
       hartVars
<1>6. CASE Halted
  <2>1. RestOK'
    BY <1>6, TypeParts, Zenon DEF Halted, vars, RestOK, procVars, fpuVars, engineVars, spaceVars,
       paletteVars, fileVars
  <2> QED
    BY <1>6, <2>1, TypeParts, UnscheduledStep, Zenon DEF Halted, vars, HartOK, procVars, engineVars,
       hartVars
<1> QED
  BY <1>1, <1>2, <1>3, <1>4, <1>5, <1>6, Zenon

\* A call that stores into its caller's memory.
LEMMA CopyOutStep ==
    ASSUME TypeInv, NEW p \in Entries, CopyOut(p)
    PROVE  TypeInv' /\ Kept(procs, procs', {}, {})
<1>1. CASE StoreFaults(p, Slots[procs[p].prog])
  <2>1. RestOK'
    BY <1>1, TypeParts, Zenon DEF StoreFaults, RestOK, procVars, fpuVars, engineVars, spaceVars,
       paletteVars, fileVars
  <2>2. TypeInv'
    BY <1>1, <2>1, TypeParts, UnscheduledStep, Zenon DEF StoreFaults, HartOK, procVars, engineVars,
       hartVars
  <2> QED
    BY <1>1, <2>2, Zenon DEF StoreFaults, Kept, procVars
<1>2. CASE /\ Return(procs, p)
           /\ UNCHANGED <<fpuVars, spaceVars, paletteVars, rx, fileVars>>
  <2>1. RestOK'
    BY <1>2, Zenon DEF Return, TypeInv, TypeOK, RestOK, fpuVars, spaceVars, paletteVars, fileVars
  <2>2. Table(procs) /\ Kept(procs, procs, {}, {})
    BY Zenon DEF TypeInv, Kept
  <2> QED
    BY <1>2, <2>1, <2>2, ReturnStep, Zenon
<1> QED
  BY <1>1, <1>2, Zenon DEF CopyOut

\* The running process, preempted, leaves a table.
LEMMA PreemptedTable ==
    ASSUME TypeInv, halted = "no", current # None
    PROVE  /\ Table([procs EXCEPT ![current].state = "READY"])
           /\ Kept(procs, [procs EXCEPT ![current].state = "READY"], {}, {})
<1> DEFINE r == [procs[current] EXCEPT !.state = "READY"]
<1>1. /\ current \in Entries /\ procs[current] \in Proc /\ Alive(procs, current)
  BY Zenon DEF TypeInv, TypeOK, CurrentRuns, Table, Alive
<1>2. /\ r \in Proc /\ r.state = "READY" /\ r.pid = procs[current].pid
      /\ r.parent = procs[current].parent /\ r.prog = procs[current].prog
      /\ r.fs = procs[current].fs /\ r.files = procs[current].files
  BY <1>1, Zenon DEF Proc, States
<1>3. [procs EXCEPT ![current].state = "READY"] = [procs EXCEPT ![current] = r]
  BY Zenon DEF TypeInv, Table
<1> HIDE DEF r
<1> QED
  BY <1>1, <1>2, <1>3, CallerEdit, Zenon DEF TypeInv

\* An interrupt, with or without a preemption.
LEMMA InterruptStep ==
    ASSUME TypeInv, TimerInterrupt \/ ExternalInterrupt
    PROVE  TypeInv' /\ Kept(procs, procs', {}, {})
<1>1. /\ Table(procs) /\ current \in Entries \cup {None} /\ engines_used \in BOOLEAN
      /\ job \in [owner : Pids, mem : SUBSET SlotIds] \cup {None}
      /\ Kept(procs, procs, {}, {})
  BY Zenon DEF TypeInv, TypeOK, Kept
<1>2. CASE TimerInterrupt
  <2> DEFINE used == IF current = None
                     THEN engines_used
                     ELSE UsedAfterNext(procs, current, engines_used, job)
  <2>1. used \in BOOLEAN
    BY <1>1, Zenon DEF UsedAfterNext, UsedAfterLook
  <2>2. PICK j \in {job, None} :
          /\ job' = j
          /\ \/ Schedule(procs, current, used, j, rx)
             \/ /\ current # None
                /\ Schedule([procs EXCEPT ![current].state = "READY"], current, used, j, rx)
    BY <1>2, Zenon DEF TimerInterrupt
  <2>3. RestOK'
    BY <1>1, <1>2, <2>2, Zenon DEF TimerInterrupt, TypeInv, TypeOK, RestOK, fpuVars, spaceVars,
       paletteVars, fileVars
  <2>4. halted = "no"
    BY <1>2, Zenon DEF TimerInterrupt
  <2> HIDE DEF used
  <2> DEFINE ps == [procs EXCEPT ![current].state = "READY"]
  <2>5. CASE Schedule(procs, current, used, j, rx)
    BY <1>1, <2>1, <2>3, <2>5, ScheduledStep, Zenon
  <2>6. CASE current # None /\ Schedule(ps, current, used, j, rx)
    <3>1. Table(ps) /\ Kept(procs, ps, {}, {})
      BY <2>4, <2>6, PreemptedTable, Zenon
    <3> HIDE DEF ps
    <3> QED
      BY <1>1, <2>1, <2>3, <2>6, <3>1, ScheduledStep, Zenon
  <2> QED
    BY <2>2, <2>5, <2>6, Zenon
<1>3. CASE ExternalInterrupt
  <2>1. RestOK'
    BY <1>3, Zenon DEF ExternalInterrupt, TypeInv, TypeOK, RestOK, fpuVars, spaceVars, paletteVars,
       fileVars
  <2> QED
    BY <1>1, <1>3, <2>1, ScheduledStep, Zenon DEF ExternalInterrupt
<1> QED
  BY <1>2, <1>3, Zenon

\* Device time advances.
LEMMA TimePassesStep ==
    ASSUME TypeInv, TimePasses
    PROVE  TypeInv' /\ Kept(procs, procs', {}, {})
<1>1. ASSUME NEW i \in Entries
      PROVE  /\ procs'[i] \in Proc
             /\ procs'[i].state = procs[i].state /\ procs'[i].pid = procs[i].pid
             /\ procs'[i].prog = procs[i].prog /\ procs'[i].parent = procs[i].parent
             /\ procs'[i].fs = procs[i].fs /\ procs'[i].files = procs[i].files
             /\ procs'[i].wait_pid = procs[i].wait_pid
  <2>1. procs[i] \in Proc
    BY Zenon DEF TypeInv, TypeOK
  <2>2. CASE procs'[i] = procs[i]
    BY <2>1, <2>2, Zenon
  <2>3. CASE procs[i].wake > 0 /\ procs'[i] = [procs[i] EXCEPT !.wake = @ - 1]
    <3>1. procs[i].wake - 1 \in 0 .. MaxSleep
      BY <2>1, <2>3, KernelAssumption DEF Proc
    <3> QED
      BY <2>1, <2>3, <3>1, Zenon DEF Proc
  <2> QED
    BY <2>2, <2>3, Zenon DEF TimePasses
<1>2. procs' \in [Entries -> Proc]
  BY <1>1, Zenon DEF TimePasses
<1>3. Table(procs')
  BY <1>1, <1>2, Zenon DEF Table, Alive, TypeInv
<1>4. CurrentRuns'
  BY <1>1, Zenon DEF TimePasses, CurrentRuns, TypeInv, TypeOK
<1>5. Kept(procs, procs', {}, {})
  BY <1>1, Zenon DEF Kept, Alive
<1> QED
  BY <1>2, <1>3, <1>4, <1>5, Zenon DEF TimePasses, TypeInv, TypeOK, fpuVars, engineVars, spaceVars,
     hartVars, paletteVars, fileVars

\* kernel_main() leaves the types.
LEMMA TypeInit == Init => TypeInv
<1> SUFFICES ASSUME Init PROVE TypeInv
  BY Zenon
<1> DEFINE first == [NewProc(Shell, 1, 0) EXCEPT !.state = "RUNNING"]
<1>1. /\ 0 \in Entries /\ 0 \in Pids /\ 1 \in Pids /\ 2 \in 2 .. MaxPid + 1
      /\ 0 \in 0 .. MaxSleep /\ 0 \in 0 .. MaxBytes
  BY KernelAssumption DEF Entries, Pids
<1>2. NoFiles \in [Fds -> OpenFile]
  BY Zenon DEF NoFiles, OpenFile
<1>3. NewProc(Shell, 1, 0) \in Proc /\ NewProc(None, 0, 0) \in Proc
  BY <1>1, <1>2, KernelAssumption, Zenon DEF NewProc, Proc, States
<1>4. /\ first \in Proc /\ first.state = "RUNNING" /\ first.prog = Shell
      /\ FreeProc \in Proc /\ FreeProc.state = "FREE"
  BY <1>3, Zenon DEF NewProc, Proc, States, FreeProc
<1>5. /\ procs \in [Entries -> Proc]
      /\ procs[0].state = "RUNNING" /\ procs[0].prog = Shell
      /\ \A i \in Entries : i # 0 => procs[i].state = "FREE"
  BY <1>1, <1>4, Zenon DEF Init
<1>6. Table(procs) /\ CurrentRuns
  BY <1>1, <1>5, KernelAssumption, Zenon DEF Table, Alive, CurrentRuns, Init
<1>7. /\ Slots[Shell] \in SUBSET SlotIds
      /\ Regions(Shell) \in SUBSET (SlotIds \cup {Engines})
  BY KernelAssumption, Zenon DEF Regions
<1>8. TypeOK
  BY <1>1, <1>5, <1>7, KernelAssumption, Zenon DEF TypeOK, Init
<1> QED
  BY <1>6, <1>8, Zenon DEF TypeInv

\* Every step keeps the types.
LEMMA TypeNext == TypeInv /\ [Next]_vars => TypeInv'
<1> SUFFICES ASSUME TypeInv, [Next]_vars PROVE TypeInv'
  BY Zenon
<1>1. ASSUME NEW p \in Entries, Exit(p) \/ Fault(p) \/ EngineFault(p) PROVE TypeInv'
  BY <1>1, FinishStep, Zenon DEF Exit, Fault, EngineFault
<1>2. ASSUME NEW p \in Entries, OtherCall(p) \/ WritePalette(p) \/ SpawnRefused(p) PROVE TypeInv'
  BY <1>2, PlainCallStep, Zenon
<1>3. ASSUME NEW p \in Entries, ReadConsole(p) PROVE TypeInv'
  BY <1>3, ReadConsoleStep, Zenon
<1>4. ASSUME NEW p \in Entries, Present(p) PROVE TypeInv'
  BY <1>4, PresentStep, Zenon
<1>5. ASSUME NEW p \in Entries, Yield(p) \/ Sleep(p) PROVE TypeInv'
  BY <1>5, YieldSleepStep, Zenon
<1>7. ASSUME NEW p \in Entries, Wait(p) PROVE TypeInv'
  BY <1>7, WaitStep, Zenon
<1>8. ASSUME NEW p \in Entries, Halt(p) PROVE TypeInv'
  BY <1>8, HaltType, Zenon
<1>9. ASSUME NEW p \in Entries, Spawn(p) PROVE TypeInv'
  BY <1>9, SpawnStep, Zenon
<1>10. ASSUME NEW p \in Entries, Open(p) \/ Create(p) PROVE TypeInv'
  BY <1>10, OpenStep, Zenon
<1>11. ASSUME NEW p \in Entries, WriteFile(p) PROVE TypeInv'
  BY <1>11, WriteFileStep, Zenon
<1>12. ASSUME NEW p \in Entries, Close(p) PROVE TypeInv'
  BY <1>12, CloseStep, Zenon
<1>13. ASSUME NEW p \in Entries, ClaimFpu(p) PROVE TypeInv'
  BY <1>13, ClaimFpuStep, Zenon
<1>14. ASSUME NEW p \in Entries, FloatWrite(p) PROVE TypeInv'
  BY <1>14, FloatWriteType, Zenon
<1>15. ASSUME NEW p \in Entries, CopyOut(p) PROVE TypeInv'
  BY <1>15, CopyOutStep, Zenon
<1>16. ASSUME \/ \E p \in Entries : StartJob(p) \/ SpawnFaults(p) \/ Access(p)
              \/ JobDone \/ ConsoleInput \/ Halted
       PROVE  TypeInv'
  BY <1>16, MachineType, Zenon
<1>17. CASE TimerInterrupt \/ ExternalInterrupt
  BY <1>17, InterruptStep, Zenon
<1>18. CASE TimePasses
  BY <1>18, TimePassesStep, Zenon
<1>19. CASE UNCHANGED vars
  BY <1>19, Zenon DEF vars, TypeInv, TypeOK, Table, CurrentRuns, Alive, procVars, fpuVars, engineVars,
     spaceVars, hartVars, paletteVars, fileVars
<1> QED
  BY <1>1, <1>2, <1>3, <1>4, <1>5, <1>7, <1>8, <1>9, <1>10, <1>11, <1>12, <1>13, <1>14,
     <1>15, <1>16, <1>17, <1>18, <1>19 DEF Next

\* Every variable keeps its type and every live process has a program.
THEOREM TypeInvariant == Spec => []TypeInv
BY TypeInit, TypeNext, PTL DEF Spec

\* The process table, the kernel's globals and the devices' registers keep their
\* types, for any table size, programs, slots and files (TypeOK).
THEOREM TypeCorrect == Spec => []TypeOK
<1>1. TypeInv => TypeOK
  BY Zenon DEF TypeInv
<1> QED
  BY <1>1, TypeInvariant, PTL

-----------------------------------------------------------------------------
(* The steps that keep the processes and the FPU. *)

QuietCall(p) ==
    \/ OtherCall(p) \/ ReadConsole(p) \/ Present(p) \/ Yield(p) \/ Sleep(p) \/ Wait(p)
    \/ Halt(p) \/ WritePalette(p) \/ SpawnRefused(p) \/ SpawnFaults(p)
    \/ Open(p) \/ Create(p) \/ WriteFile(p) \/ Close(p)
    \/ StartJob(p) \/ CopyOut(p) \/ Access(p)

Quiet ==
    \/ \E p \in Entries : QuietCall(p)
    \/ JobDone \/ TimerInterrupt \/ ExternalInterrupt \/ ConsoleInput \/ TimePasses
    \/ Halted \/ UNCHANGED vars

\* What a process can do besides: end, start another, take or use the FPU.
LEMMA NextCases ==
    ASSUME [Next]_vars
    PROVE  \/ Quiet
           \/ \E p \in Entries : Finish(p) /\ \E c \in {"exit", "fault", "draw"} : Does(p, c)
           \/ \E p \in Entries : Spawn(p) \/ ClaimFpu(p) \/ FloatWrite(p)
BY Zenon DEF Next, Quiet, QuietCall, Exit, Fault, EngineFault

\* Those steps keep the processes.
LEMMA QuietKeeps ==
    ASSUME TypeInv, Quiet
    PROVE  \E W, F : Kept(procs, procs', W, F)
<1>1. ASSUME procs' = procs
      PROVE  Kept(procs, procs', {}, {})
  BY <1>1, Zenon DEF Kept, Alive
<1>2. ASSUME NEW p \in Entries, OtherCall(p) \/ WritePalette(p) \/ SpawnRefused(p)
      PROVE  \E W, F : Kept(procs, procs', W, F)
  BY <1>2, PlainCallStep, Zenon
<1>3. ASSUME NEW p \in Entries, ReadConsole(p) \/ Present(p) \/ Yield(p) \/ Sleep(p)
      PROVE  \E W, F : Kept(procs, procs', W, F)
  BY <1>3, ReadConsoleStep, PresentStep, YieldSleepStep, Zenon
<1>4. ASSUME NEW p \in Entries, Wait(p)
      PROVE  \E W, F : Kept(procs, procs', W, F)
  BY <1>4, WaitStep, Zenon
<1>5. ASSUME NEW p \in Entries, Open(p) \/ Create(p) \/ Close(p)
      PROVE  \E W, F : Kept(procs, procs', W, F)
  BY <1>5, OpenStep, CloseStep, ZenonT(30)
<1>6. ASSUME NEW p \in Entries, WriteFile(p) \/ CopyOut(p)
      PROVE  \E W, F : Kept(procs, procs', W, F)
  BY <1>6, WriteFileStep, CopyOutStep, Zenon
<1>7. ASSUME \/ \E p \in Entries : Halt(p) \/ SpawnFaults(p) \/ StartJob(p) \/ Access(p)
             \/ JobDone \/ ConsoleInput \/ Halted \/ UNCHANGED vars
      PROVE  procs' = procs
  BY <1>7, Zenon DEF Halt, Stop, SpawnFaults, StoreFaults, StartJob, Access, JobDone, ConsoleInput,
     Halted, vars, procVars
<1>8. CASE TimerInterrupt \/ ExternalInterrupt
  BY <1>8, InterruptStep, Zenon
<1>9. CASE TimePasses
  BY <1>9, TimePassesStep, Zenon
<1> QED
  BY <1>1, <1>2, <1>3, <1>4, <1>5, <1>6, <1>7, <1>8, <1>9, Zenon DEF Quiet, QuietCall

\* They leave the FPU and the saved floating states alone, and do not panic.
LEMMA QuietFpu ==
    ASSUME Quiet
    PROVE  UNCHANGED fpuVars /\ (halted' = halted \/ halted' \in {"halt", "fault"})
<1>1. ASSUME NEW p \in Entries,
             \/ OtherCall(p) \/ ReadConsole(p) \/ Present(p) \/ Yield(p) \/ Sleep(p) \/ Wait(p)
             \/ WritePalette(p) \/ SpawnRefused(p)
             \/ Open(p) \/ Create(p) \/ WriteFile(p) \/ Close(p)
      PROVE  UNCHANGED <<fpuVars, halted>>
  BY <1>1, Zenon DEF OtherCall, ReadConsole, Present, Yield, Sleep, Wait, WritePalette,
     SpawnRefused, Open, Create, WriteFile, Close, Return
<1>2. ASSUME NEW p \in Entries,
             Halt(p) \/ SpawnFaults(p) \/ StartJob(p) \/ CopyOut(p) \/ Access(p)
      PROVE  UNCHANGED fpuVars /\ (halted' = halted \/ halted' \in {"halt", "fault"})
  BY <1>2, Zenon DEF Halt, Stop, SpawnFaults, StoreFaults, StartJob, CopyOut, Access, Return
<1>3. ASSUME \/ JobDone \/ TimerInterrupt \/ ExternalInterrupt \/ ConsoleInput \/ TimePasses
             \/ Halted \/ UNCHANGED vars
      PROVE  UNCHANGED <<fpuVars, halted>>
  BY <1>3, Zenon DEF JobDone, TimerInterrupt, ExternalInterrupt, ConsoleInput, TimePasses, Halted, vars
<1> QED
  BY <1>1, <1>2, <1>3, Zenon DEF Quiet, QuietCall

-----------------------------------------------------------------------------
(* The lazy FPU switch: every live process finds the floating state it last *)
(* computed, and claim_fpu()'s check never fires.                           *)

\* Only the owner has FS on, and then the FPU holds its state; a Clean owner's saved
\* copy is current too, which is why claim_fpu() need not save it.
FpuTable(ps, owner, regs, copies, values) ==
    \A i \in Entries : Alive(ps, i) =>
        IF ps[i].fs = "Off"
        THEN copies[i] = values[i]
        ELSE /\ owner = i
             /\ regs = values[i]
             /\ ps[i].fs = "Clean" => copies[i] = values[i]

FpuInv ==
    /\ halted = "no" => FpuTable(procs, fpu_owner, fpu, saved, want)
    /\ halted # "panic"

\* schedule() neither starts nor ends a process, nor changes FS.
LEMMA FpuRescheduled ==
    ASSUME NEW ps, NEW qs, Table(ps), Rescheduled(ps, qs),
           NEW owner, NEW regs, NEW copies, NEW values,
           FpuTable(ps, owner, regs, copies, values)
    PROVE  FpuTable(qs, owner, regs, copies, values)
<1> SUFFICES ASSUME NEW i \in Entries
             PROVE  qs[i].fs = ps[i].fs /\ (Alive(qs, i) => Alive(ps, i))
  BY Zenon DEF FpuTable
<1>1. ps[i] \in Proc /\ qs[i] = [ps[i] EXCEPT !.state = qs[i].state]
  BY Zenon DEF Table, Rescheduled
<1>2. qs[i].fs = ps[i].fs
  BY <1>1, Zenon DEF Proc
<1> QED
  BY <1>2, Zenon DEF Rescheduled, Alive

\* A process's floating state goes with it.
LEMMA FpuFinish ==
    ASSUME TypeInv, FpuInv, NEW p \in Entries, Finish(p), halted = "no"
    PROVE  FpuInv'
<1>1. Table(procs) /\ FpuTable(procs, fpu_owner, fpu, saved, want)
  BY Zenon DEF TypeInv, FpuInv
<1>2. ASSUME NEW i \in Entries, Alive(Finished(procs, p), i)
      PROVE  i # p /\ Alive(procs, i) /\ Finished(procs, p)[i].fs = procs[i].fs
  <2>1. procs[i] \in Proc
    BY <1>1, Zenon DEF Table
  <2>2. i # p
    <3> DEFINE r == [procs[p] EXCEPT !.files = NoFiles]
    <3>1. ASSUME NEW st \in {"FREE", "ZOMBIE"}
          PROVE  [r EXCEPT !.state = st].state = st
      <4>1. procs[p] \in Proc
        BY <1>1, Zenon DEF Table
      <4> QED
        BY <4>1, Zenon DEF Proc
    <3>2. Reaped(procs, p)[p] = r
      BY Zenon DEF Reaped
    <3> HIDE DEF r
    <3> QED
      BY <1>2, <3>1, <3>2, Zenon DEF Finished, Alive
  <2>3. Reaped(procs, p)[i] = procs[i]
    <3>1. [procs[i] EXCEPT !.state = "FREE"].state = "FREE"
      BY <2>1, Zenon DEF Proc
    <3> QED
      BY <1>2, <2>2, <3>1, Zenon DEF Finished, Reaped, Parents, Alive
  <2>4. \/ Finished(procs, p)[i] = procs[i]
        \/ /\ Finished(procs, p)[i] = [procs[i] EXCEPT !.state = "READY"]
           /\ procs[i].state = "BLOCKED_WAIT"
    BY <2>2, <2>3, Zenon DEF Finished
  <2> QED
    BY <1>2, <2>1, <2>2, <2>4, Zenon DEF Proc, Alive
<1>3. UNCHANGED <<fpu, saved, want>> /\ fpu_owner' = (IF fpu_owner = p THEN None ELSE fpu_owner)
  BY Zenon DEF Finish
<1>4. FpuTable(Finished(procs, p), fpu_owner', fpu, saved, want)
  BY <1>1, <1>2, <1>3, Zenon DEF FpuTable
<1>5. Table(Finished(procs, p))
  BY <1>1, FinishedTable, Zenon
<1>6. \/ halted' = "halt"
      \/ halted' = halted /\ Rescheduled(Finished(procs, p), procs')
  BY FinishStep, Zenon
<1> QED
  BY <1>3, <1>4, <1>5, <1>6, FpuRescheduled, Zenon DEF FpuInv

\* A new process starts with FS Off and the reset values saved for it.
LEMMA FpuSpawn ==
    ASSUME TypeInv, FpuInv, NEW p \in Entries, Spawn(p)
    PROVE  FpuInv'
<1>1. Table(procs) /\ FpuTable(procs, fpu_owner, fpu, saved, want) /\ halted = "no"
  BY DoesAlive, Zenon DEF TypeInv, FpuInv, Spawn
<1>2. PICK g \in Programs, e \in FreeEntries(procs) :
          /\ saved' = [saved EXCEPT ![e] = FpZero]
          /\ want' = [want EXCEPT ![e] = FpZero]
          /\ Rescheduled([procs EXCEPT ![e] = NewProc(g, next_pid, procs[p].pid)], procs')
  BY SpawnStep, Zenon
<1> DEFINE n == NewProc(g, next_pid, procs[p].pid)
           ps == [procs EXCEPT ![e] = n]
<1>3. e \in Entries /\ UNCHANGED <<fpu_owner, fpu, halted>>
  BY Zenon DEF FreeEntries, Spawn
<1>4. n.fs = "Off" /\ n \in Proc /\ n.prog \in Programs
  BY NewProcType, Zenon DEF Spawn, NewProc
<1>5. Table(ps)
  BY <1>1, <1>3, <1>4, TableEdit, Zenon
<1>6. FpuTable(ps, fpu_owner, fpu, saved', want')
  <2> SUFFICES ASSUME NEW i \in Entries, Alive(ps, i)
               PROVE  IF ps[i].fs = "Off"
                      THEN saved'[i] = want'[i]
                      ELSE /\ fpu_owner = i
                           /\ fpu = want'[i]
                           /\ ps[i].fs = "Clean" => saved'[i] = want'[i]
    BY Zenon DEF FpuTable
  <2>1. saved \in [Entries -> FpValues] /\ want \in [Entries -> FpValues]
    BY Zenon DEF TypeInv, TypeOK
  <2> HIDE DEF n
  <2>2. CASE i = e
    BY <1>1, <1>2, <1>3, <1>4, <2>1, <2>2, Zenon DEF Table
  <2>3. CASE i # e
    BY <1>1, <1>2, <1>3, <2>1, <2>3, Zenon DEF Table, FpuTable, Alive
  <2> QED
    BY <2>2, <2>3, Zenon
<1> HIDE DEF ps
<1>7. FpuTable(procs', fpu_owner, fpu, saved', want')
  BY <1>2, <1>5, <1>6, FpuRescheduled, Zenon DEF ps
<1> QED
  BY <1>1, <1>3, <1>7, Zenon DEF FpuInv

\* claim_fpu() saves what a Dirty owner wrote, turns its FS off and loads the new
\* owner's copy; nobody else can have had FS on.
LEMMA FpuClaim ==
    ASSUME TypeInv, FpuInv, NEW p \in Entries, ClaimFpu(p)
    PROVE  FpuInv'
<1>1. /\ Table(procs) /\ FpuTable(procs, fpu_owner, fpu, saved, want)
      /\ halted = "no" /\ Alive(procs, p) /\ procs[p].fs = "Off"
  BY DoesAlive, Zenon DEF TypeInv, FpuInv, ClaimFpu
<1>2. /\ saved' = SavedIfDirty /\ fpu' = saved'[p] /\ fpu_owner' = p /\ want' = want
  BY Zenon DEF ClaimFpu
<1>3. saved \in [Entries -> FpValues] /\ fpu_owner \in Entries \cup {None}
  BY Zenon DEF TypeInv, TypeOK
<1>4. ASSUME NEW i \in Entries
      PROVE  /\ Alive(HandedOver(p), i) <=> Alive(procs, i)
             /\ HandedOver(p)[i].fs = IF i = p THEN "Clean"
                                      ELSE IF i = fpu_owner THEN "Off" ELSE procs[i].fs
  <2>1. procs[i] \in Proc
    BY <1>1, Zenon DEF Table
  <2> QED
    BY <2>1, Zenon DEF HandedOver, Alive, Proc
<1>5. ASSUME NEW i \in Entries, Alive(procs, i)
      PROVE  saved'[i] = want[i]
  <2>1. CASE i = fpu_owner /\ procs[i].fs = "Dirty"
    <3>1. fpu = want[i]
      BY <1>1, <1>5, <2>1, Zenon DEF FpuTable
    <3>2. fpu_owner # None
      BY <2>1, KernelAssumption DEF Entries
    <3> QED
      BY <1>2, <1>3, <2>1, <3>1, <3>2, Zenon DEF SavedIfDirty
  <2>2. CASE ~(i = fpu_owner /\ procs[i].fs = "Dirty")
    <3>1. saved[i] = want[i]
      <4>1. procs[i].fs \in {"Off", "Clean", "Dirty"}
        BY <1>1, Zenon DEF Table, Proc
      <4> QED
        BY <1>1, <1>5, <2>2, <4>1, Zenon DEF FpuTable
    <3> QED
      BY <1>2, <1>3, <2>2, <3>1, Zenon DEF SavedIfDirty
  <2> QED
    BY <2>1, <2>2, Zenon
<1>6. ASSUME NEW i \in Entries \ {p}, Alive(HandedOver(p), i)
      PROVE  HandedOver(p)[i].fs = "Off"
  BY <1>1, <1>4, <1>6, Zenon DEF FpuTable
<1>7. halted' = halted /\ Rescheduled(HandedOver(p), procs')
  BY <1>6, ClaimFpuStep, Zenon
<1>8. FpuTable(HandedOver(p), p, fpu', saved', want)
  BY <1>1, <1>2, <1>4, <1>5, <1>6, Zenon DEF FpuTable
<1>9. Table(HandedOver(p))
  BY HandedOverTable, Zenon
<1>10. FpuTable(procs', p, fpu', saved', want)
  BY <1>7, <1>8, <1>9, FpuRescheduled, Zenon
<1> QED
  BY <1>1, <1>2, <1>7, <1>10, Zenon DEF FpuInv

\* An F instruction of the owner: the FPU is what it computed, and Dirty.
LEMMA FpuFloatWrite ==
    ASSUME TypeInv, FpuInv, NEW p \in Entries, FloatWrite(p)
    PROVE  FpuInv'
<1>1. /\ Table(procs) /\ FpuTable(procs, fpu_owner, fpu, saved, want)
      /\ halted = "no" /\ Alive(procs, p) /\ procs[p].fs # "Off"
  BY DoesAlive, Zenon DEF TypeInv, FpuInv, FloatWrite
<1>2. UNCHANGED <<fpu_owner, saved, halted>> /\ want \in [Entries -> FpValues]
  BY Zenon DEF FloatWrite, TypeInv, TypeOK
<1>3. PICK v \in FpValues : fpu' = v /\ want' = [want EXCEPT ![p] = v]
  BY Zenon DEF FloatWrite
<1>4. procs' = [procs EXCEPT ![p].fs = "Dirty"]
  BY Zenon DEF FloatWrite
<1>5. fpu_owner = p
  BY <1>1, Zenon DEF FpuTable
<1>6. ASSUME NEW i \in Entries
      PROVE  IF i = p THEN procs'[i].fs = "Dirty" ELSE procs'[i] = procs[i]
  <2>1. procs[i] \in Proc
    BY <1>1, Zenon DEF Table
  <2> QED
    BY <1>1, <1>4, <2>1, Zenon DEF Table, Proc
<1>7. FpuTable(procs', fpu_owner, fpu', saved, want')
  <2> SUFFICES ASSUME NEW i \in Entries, Alive(procs', i)
               PROVE  IF procs'[i].fs = "Off"
                      THEN saved[i] = want'[i]
                      ELSE /\ fpu_owner = i
                           /\ fpu' = want'[i]
                           /\ procs'[i].fs = "Clean" => saved[i] = want'[i]
    BY Zenon DEF FpuTable
  <2>1. CASE i = p
    BY <1>2, <1>3, <1>5, <1>6, <2>1, Zenon
  <2>2. CASE i # p
    BY <1>1, <1>2, <1>3, <1>5, <1>6, <2>2, Zenon DEF FpuTable, Alive
  <2> QED
    BY <2>1, <2>2, Zenon
<1> QED
  BY <1>1, <1>2, <1>7, Zenon DEF FpuInv

\* FpuInv is inductive, given the types.
LEMMA FpuNext ==
    ASSUME TypeInv, FpuInv, [Next]_vars
    PROVE  FpuInv'
<1>1. CASE Quiet
  <2>1. UNCHANGED fpuVars /\ (halted' = halted \/ halted' \in {"halt", "fault"})
    BY <1>1, QuietFpu, Zenon
  <2>2. ASSUME NEW i \in Entries
        PROVE  procs'[i].fs = procs[i].fs /\ (Alive(procs', i) <=> Alive(procs, i))
    BY <1>1, QuietKeeps, Zenon DEF Kept
  <2>3. ASSUME FpuTable(procs, fpu_owner, fpu, saved, want)
        PROVE  FpuTable(procs', fpu_owner, fpu, saved, want)
    BY <2>2, <2>3, Zenon DEF FpuTable
  <2> QED
    BY <2>1, <2>3, Zenon DEF FpuInv, fpuVars
<1>2. ASSUME NEW p \in Entries, Finish(p), NEW c, Does(p, c)
      PROVE  FpuInv'
  BY <1>2, FpuFinish, Zenon DEF Does
<1>3. ASSUME NEW p \in Entries, Spawn(p) \/ ClaimFpu(p) \/ FloatWrite(p)
      PROVE  FpuInv'
  BY <1>3, FpuSpawn, FpuClaim, FpuFloatWrite, Zenon
<1> QED
  BY <1>1, <1>2, <1>3, NextCases, Zenon

\* FpuInv holds throughout.
LEMMA FpuInvariant == Spec => []FpuInv
<1>1. Init => FpuInv
  <2> SUFFICES ASSUME Init
               PROVE  \A i \in Entries : procs[i].fs = "Off" /\ saved[i] = want[i]
    BY Zenon DEF Init, FpuInv, FpuTable
  <2> QED
    BY Zenon DEF Init, NewProc, FreeProc
<1> QED
  BY <1>1, FpuNext, TypeInvariant, PTL DEF Spec

\* Every live process finds the floating state it last computed, whichever processes
\* start, end and use the FPU in between (claim_fpu(), finish(), spawn()).
THEOREM FpuIsolation == Spec => []FpuIsolated
<1>1. FpuInv => FpuIsolated
  BY Zenon DEF FpuInv, FpuTable, FpuIsolated
<1> QED
  BY <1>1, FpuInvariant, PTL

\* claim_fpu()'s check for a second process with FS on never fires.
THEOREM ClaimNeverPanics == Spec => []NoPanic
<1>1. FpuInv => NoPanic
  BY Zenon DEF FpuInv, NoPanic
<1> QED
  BY <1>1, FpuInvariant, PTL

-----------------------------------------------------------------------------
(* Open files: a file that is written has no other descriptor. *)

\* Two descriptors of ps are never on one file if one of them writes.
ExclusiveIn(ps) ==
    \A i, j \in Entries : \A k, l \in Fds :
        /\ ps[i].state # "FREE" /\ ps[i].files[k].mode = "write"
        /\ ps[j].state # "FREE" /\ ps[j].files[l].file = ps[i].files[k].file
        => i = j /\ k = l

\* Every open file of ps is in the directory d.
ListedIn(ps, d) ==
    \A i \in Entries, k \in Fds :
        ps[i].state # "FREE" /\ ps[i].files[k].mode # "closed" => d[ps[i].files[k].file] # None

\* SYS_OPEN makes a file only if the directory has none of its name, and then nobody
\* is asked: WriterExclusive is inductive only with ListedIn.
FilesInv == ExclusiveIn(procs) /\ ListedIn(procs, dir)

\* Nothing is opened from ps to qs.
Narrower(ps, qs) ==
    \A i \in Entries, k \in Fds :
        \/ qs[i].state = "FREE"
        \/ qs[i].files[k] = Closed
        \/ ps[i].state # "FREE" /\ qs[i].files[k] = ps[i].files[k]

\* No file leaves the directory.
DirectoryKept == \A f \in Files : dir[f] # None => dir'[f] # None

\* A descriptor is closed, or is on a file.
LEMMA Descriptor ==
    ASSUME NEW ps, Table(ps), NEW i \in Entries, NEW k \in Fds
    PROVE  ps[i].files[k] \in OpenFile
<1>1. ps[i] \in Proc
  BY Zenon DEF Table
<1> QED
  BY <1>1, Zenon DEF Proc

\* Closing files keeps the invariant.
LEMMA NarrowerKeeps ==
    ASSUME NEW ps, NEW qs, Table(qs), ExclusiveIn(ps), Narrower(ps, qs)
    PROVE  ExclusiveIn(qs)
<1> SUFFICES ASSUME NEW i \in Entries, NEW j \in Entries, NEW k \in Fds, NEW l \in Fds,
                    qs[i].state # "FREE", qs[i].files[k].mode = "write",
                    qs[j].state # "FREE", qs[j].files[l].file = qs[i].files[k].file
             PROVE  i = j /\ k = l
  BY DEF ExclusiveIn
<1>1. qs[i].files[k] # Closed
  BY DEF Closed
<1>2. qs[i].files[k].file \in Files
  BY <1>1, Descriptor, Zenon DEF OpenFile
<1>3. qs[j].files[l] # Closed
  BY <1>2, KernelAssumption DEF Closed
<1>4. /\ ps[i].state # "FREE" /\ qs[i].files[k] = ps[i].files[k]
      /\ ps[j].state # "FREE" /\ qs[j].files[l] = ps[j].files[l]
  BY <1>1, <1>3, Zenon DEF Narrower
<1> QED
  BY <1>4, Zenon DEF ExclusiveIn

\* So does it keep open files listed, in any directory.
LEMMA NarrowerOnly ==
    ASSUME NEW d, NEW ps, NEW qs, Table(qs), ListedIn(ps, d), Narrower(ps, qs)
    PROVE  ListedIn(qs, d)
<1> SUFFICES ASSUME NEW i \in Entries, NEW k \in Fds,
                    qs[i].state # "FREE", qs[i].files[k].mode # "closed"
             PROVE  d[qs[i].files[k].file] # None
  BY Zenon DEF ListedIn
<1>1. qs[i].files[k] # Closed
  BY DEF Closed
<1>2. ps[i].state # "FREE" /\ qs[i].files[k] = ps[i].files[k]
  BY <1>1, Zenon DEF Narrower
<1> QED
  BY <1>2, Zenon DEF ListedIn

\* A directory that keeps its files keeps them listed.
LEMMA ListedKept ==
    ASSUME NEW ps, Table(ps), ListedIn(ps, dir), DirectoryKept
    PROVE  ListedIn(ps, dir')
<1> SUFFICES ASSUME NEW i \in Entries, NEW k \in Fds,
                    ps[i].state # "FREE", ps[i].files[k].mode # "closed"
             PROVE  dir'[ps[i].files[k].file] # None
  BY Zenon DEF ListedIn
<1>1. ps[i].files[k].file \in Files
  BY Descriptor DEF OpenFile, Closed
<1> QED
  BY <1>1, Zenon DEF ListedIn, DirectoryKept

\* schedule() opens nothing.
LEMMA RescheduledFiles ==
    ASSUME NEW ps, NEW qs, Table(ps), Rescheduled(ps, qs)
    PROVE  Narrower(ps, qs) /\ \A i \in Entries : qs[i].files = ps[i].files
<1> SUFFICES ASSUME NEW i \in Entries
             PROVE  qs[i].files = ps[i].files /\ (ps[i].state = "FREE" => qs[i].state = "FREE")
  BY Zenon DEF Narrower
<1>1. ps[i] \in Proc /\ qs[i] = [ps[i] EXCEPT !.state = qs[i].state]
  BY Zenon DEF Table, Rescheduled
<1>2. qs[i].files = ps[i].files
  BY <1>1, Zenon DEF Proc
<1> QED
  BY <1>2, Zenon DEF Rescheduled

\* Neither do two steps of which none does.
LEMMA NarrowerTransitive ==
    ASSUME NEW ps, NEW qs, NEW rs, Narrower(ps, qs), Narrower(qs, rs)
    PROVE  Narrower(ps, rs)
BY DEF Narrower

\* Nor does a call that leaves the descriptors alone.
LEMMA KeptFiles ==
    ASSUME NEW W, Kept(procs, procs', W, {})
    PROVE  Narrower(procs, procs')
BY Zenon DEF Kept, Narrower

\* A call that returns opens nothing besides.
LEMMA ReturnFiles ==
    ASSUME TypeInv, NEW ps, Table(ps), NEW p \in Entries, Return(ps, p)
    PROVE  Table(procs') /\ Narrower(ps, procs')
<1> DEFINE rs == [ps EXCEPT ![p].retry = "none"]
<1>1. Table(rs)
  <2>1. Kept(ps, ps, {}, {})
    BY Zenon DEF Kept
  <2> QED
    BY <2>1, TableReturn, Zenon
<1>2. Narrower(ps, rs)
  <2> SUFFICES ASSUME NEW i \in Entries
               PROVE  rs[i].files = ps[i].files /\ rs[i].state = ps[i].state
    BY Zenon DEF Narrower
  <2>1. ps[i] \in Proc
    BY Zenon DEF Table
  <2> QED
    BY <2>1, Zenon DEF Table, Proc
<1>3. Schedule(rs, p, engines_used, job, rx)
  BY Zenon DEF Return
<1> HIDE DEF rs
<1>4. Table(procs') /\ Rescheduled(rs, procs')
  BY <1>1, <1>3, TypeParts, ScheduleTable, Zenon
<1> QED
  BY <1>1, <1>2, <1>4, RescheduledFiles, NarrowerTransitive, Zenon

\* A descriptor that may_open() allows keeps the invariant.
LEMMA OpenedKeeps ==
    ASSUME TypeInv, FilesInv, NEW p \in Entries, Alive(procs, p), NEW f \in Files,
           NEW mode \in {"read", "write"}, NEW k \in Fds, MayOpen(procs, f, mode),
           DirectoryKept, dir'[f] # None
    PROVE  /\ Table(Opened(procs, p, f, mode, k))
           /\ ExclusiveIn(Opened(procs, p, f, mode, k))
           /\ ListedIn(Opened(procs, p, f, mode, k), dir')
<1> DEFINE o == [mode |-> mode, file |-> f]
           ps == Opened(procs, p, f, mode, k)
<1>1. Table(procs) /\ o \in OpenFile
  BY TypeParts, Zenon DEF OpenFile
<1>2. Table(ps)
  BY <1>1, DescriptorEdit, Zenon DEF Opened
<1>3. ASSUME NEW i \in Entries, NEW l \in Fds
      PROVE  /\ ps[i].state = procs[i].state
             /\ ps[i].files[l] = IF i = p /\ l = k THEN o ELSE procs[i].files[l]
             /\ procs[i].files[l] \in OpenFile
  <2>1. procs[i] \in Proc
    BY <1>1, Zenon DEF Table
  <2> QED
    BY <1>1, <2>1, Zenon DEF Opened, Table, Proc
<1> HIDE DEF ps
<1>4. ExclusiveIn(ps)
  <2> SUFFICES ASSUME NEW i \in Entries, NEW j \in Entries, NEW a \in Fds, NEW b \in Fds,
                      ps[i].state # "FREE", ps[i].files[a].mode = "write",
                      ps[j].state # "FREE", ps[j].files[b].file = ps[i].files[a].file
               PROVE  i = j /\ a = b
    BY DEF ExclusiveIn
  <2>1. CASE i = p /\ a = k /\ ~(j = p /\ b = k)
    <3>1. mode = "write" /\ procs[j].state # "FREE" /\ procs[j].files[b].file = f
      BY <1>3, <2>1
    <3>2. procs[j].files[b].mode = "closed"
      BY <3>1, Zenon DEF MayOpen
    <3>3. procs[j].files[b].file = None
      BY <1>3, <3>2 DEF OpenFile, Closed
    <3> QED
      BY <3>1, <3>3, KernelAssumption, Zenon
  <2>2. CASE j = p /\ b = k /\ ~(i = p /\ a = k)
    BY <1>3, <2>2 DEF MayOpen
  <2>3. CASE ~(i = p /\ a = k) /\ ~(j = p /\ b = k)
    BY <1>3, <2>3, SMTT(30) DEF FilesInv, ExclusiveIn
  <2> QED
    BY <2>1, <2>2, <2>3, Zenon
<1>5. ListedIn(ps, dir')
  <2> SUFFICES ASSUME NEW i \in Entries, NEW l \in Fds,
                      ps[i].state # "FREE", ps[i].files[l].mode # "closed"
               PROVE  dir'[ps[i].files[l].file] # None
    BY Zenon DEF ListedIn
  <2>1. CASE i = p /\ l = k
    BY <1>3, <2>1
  <2>2. CASE ~(i = p /\ l = k)
    <3>1. procs[i].files[l] # Closed /\ ps[i].files[l] = procs[i].files[l]
      BY <1>3, <2>2 DEF Closed
    <3>2. procs[i].files[l].file \in Files
      BY <1>3, <3>1, Zenon DEF OpenFile
    <3> QED
      BY <1>3, <3>1, <3>2 DEF FilesInv, ListedIn, DirectoryKept
  <2> QED
    BY <2>1, <2>2, Zenon
<1> QED
  BY <1>2, <1>4, <1>5, Zenon DEF ps

\* The directory written or not, it has the files it had and those in d.
LEMMA FlushKeeps ==
    ASSUME TypeInv, NEW needed, NEW f \in Files, NEW n \in 0 .. MaxSize,
           FlushIf(needed, dir) \/ FlushIf(needed, [dir EXCEPT ![f] = n])
    PROVE  DirectoryKept
<1>1. n # None
  BY KernelAssumption
<1>2. dir \in [Files -> {None} \cup (0 .. MaxSize)]
  BY Zenon DEF TypeInv, TypeOK
<1> QED
  BY <1>1, <1>2, Zenon DEF FlushIf, DirectoryKept

\* SYS_OPEN of a file that exists.
LEMMA OpenKeeps ==
    ASSUME TypeInv, FilesInv, NEW p \in Entries, Open(p)
    PROVE  FilesInv'
<1>1. PICK f \in Files, mode \in {"read", "write"}, k \in FirstClosed(procs, p) :
          /\ dir[f] # None
          /\ MayOpen(procs, f, mode)
          /\ FlushIf(FALSE, IF mode = "write" THEN [dir EXCEPT ![f] = 0] ELSE dir)
          /\ Return(Opened(procs, p, f, mode, k), p)
  BY Zenon DEF Open
<1>2. 0 \in 0 .. MaxSize /\ k \in Fds /\ Alive(procs, p)
  <2>1. 0 \in 0 .. MaxSize
    BY KernelAssumption, SMT
  <2>2. k \in Fds
    BY Zenon DEF FirstClosed
  <2>3. Alive(procs, p)
    BY DoesAlive, Zenon DEF Open
  <2> QED
    BY <2>1, <2>2, <2>3, Zenon
<1>3. DirectoryKept
  BY <1>1, <1>2, FlushKeeps, Zenon
<1>4. dir'[f] # None
  BY <1>1, <1>3, Zenon DEF DirectoryKept
<1> DEFINE ps == Opened(procs, p, f, mode, k)
<1>5. Table(ps) /\ ExclusiveIn(ps) /\ ListedIn(ps, dir')
  BY <1>1, <1>2, <1>3, <1>4, OpenedKeeps, Zenon
<1>6. Return(ps, p)
  BY <1>1, Zenon
<1> HIDE DEF ps
<1>7. Table(procs') /\ Narrower(ps, procs')
  BY <1>5, <1>6, ReturnFiles, Zenon
<1>8. ExclusiveIn(procs')
  BY <1>5, <1>7, NarrowerKeeps, Zenon
<1>9. ListedIn(procs', dir')
  BY <1>5, <1>7, NarrowerOnly, Zenon
<1> QED
  BY <1>8, <1>9, Zenon DEF FilesInv

\* SYS_OPEN of a new file: nobody has one open that the directory does not list.
LEMMA CreateKeeps ==
    ASSUME TypeInv, FilesInv, NEW p \in Entries, Create(p)
    PROVE  FilesInv'
<1>1. PICK f \in Files, k \in FirstClosed(procs, p) :
          /\ dir[f] = None
          /\ FlushIf(TRUE, [dir EXCEPT ![f] = 0])
          /\ Return(IF lost' THEN procs ELSE Opened(procs, p, f, "write", k), p)
  BY Zenon DEF Create
<1>2. 0 \in 0 .. MaxSize /\ k \in Fds /\ Alive(procs, p) /\ Table(procs)
  BY KernelAssumption, DoesAlive, TypeParts DEF FirstClosed, Create
<1>3. DirectoryKept
  BY <1>1, <1>2, FlushKeeps, Zenon
<1>4. dir'[f] # None
  <2>1. dir' = [dir EXCEPT ![f] = 0] /\ dir \in [Files -> {None} \cup (0 .. MaxSize)]
    BY <1>1, Zenon DEF FlushIf, TypeInv, TypeOK
  <2> QED
    BY <2>1, KernelAssumption
<1>5. MayOpen(procs, f, "write")
  BY <1>1, Zenon DEF MayOpen, FilesInv, ListedIn
<1> DEFINE qs == Opened(procs, p, f, "write", k)
<1>6. Table(qs) /\ ExclusiveIn(qs) /\ ListedIn(qs, dir')
  BY <1>2, <1>3, <1>4, <1>5, OpenedKeeps, Zenon
<1>7. ExclusiveIn(procs) /\ ListedIn(procs, dir')
  BY <1>2, <1>3, ListedKept, Zenon DEF FilesInv
<1> HIDE DEF qs
<1>8. PICK ps \in {procs, qs} : Return(ps, p)
  BY <1>1, Zenon DEF qs
<1>9. Table(ps) /\ ExclusiveIn(ps) /\ ListedIn(ps, dir')
  BY <1>2, <1>6, <1>7, <1>8, Zenon
<1>10. Table(procs') /\ Narrower(ps, procs')
  BY <1>8, <1>9, ReturnFiles, Zenon
<1>11. ExclusiveIn(procs')
  BY <1>9, <1>10, NarrowerKeeps, Zenon
<1>12. ListedIn(procs', dir')
  BY <1>9, <1>10, NarrowerOnly, Zenon
<1> QED
  BY <1>11, <1>12, Zenon DEF FilesInv

\* SYS_CLOSE.
LEMMA CloseNarrower ==
    ASSUME TypeInv, NEW p \in Entries, Close(p)
    PROVE  Narrower(procs, procs')
<1>1. PICK k \in Fds : Return([procs EXCEPT ![p].files[k] = Closed], p)
  BY Zenon DEF Close
<1> DEFINE ps == [procs EXCEPT ![p].files[k] = Closed]
<1>2. Table(procs) /\ Alive(procs, p) /\ Closed \in OpenFile
  BY TypeParts, DoesAlive, Zenon DEF Close, OpenFile
<1>3. Table(ps)
  BY <1>2, DescriptorEdit, Zenon
<1>4. Narrower(procs, ps)
  <2> SUFFICES ASSUME NEW i \in Entries, NEW l \in Fds
               PROVE  /\ ps[i].state = procs[i].state
                      /\ ps[i].files[l] \in {Closed, procs[i].files[l]}
    BY Zenon DEF Narrower
  <2>1. procs[i] \in Proc
    BY <1>2, Zenon DEF Table
  <2> QED
    BY <1>2, <2>1, Zenon DEF Table, Proc
<1>5. Return(ps, p)
  BY <1>1, Zenon
<1> HIDE DEF ps
<1>6. Narrower(ps, procs')
  BY <1>3, <1>5, ReturnFiles, Zenon
<1> QED
  BY <1>4, <1>6, NarrowerTransitive, Zenon

\* finish() closes the process's files and opens none.
LEMMA FinishNarrower ==
    ASSUME TypeInv, NEW p \in Entries, Finish(p), halted = "no"
    PROVE  Narrower(procs, procs')
<1>1. Table(procs) /\ Table(Reaped(procs, p)) /\ Table(Finished(procs, p))
  BY TypeParts, FinishedTable, Zenon
<1>2. ASSUME NEW i \in Entries, NEW k \in Fds
      PROVE  /\ \/ Reaped(procs, p)[i].files[k] = Closed
                \/ Reaped(procs, p)[i].files = procs[i].files
             /\ Reaped(procs, p)[i].state # "FREE" => procs[i].state # "FREE"
  <2>1. procs[i] \in Proc
    BY <1>1, Zenon DEF Table
  <2> QED
    BY <2>1, Zenon DEF Reaped, Proc, NoFiles
<1>3. Narrower(procs, Reaped(procs, p))
  BY <1>2, Zenon DEF Narrower
<1>4. ASSUME NEW i \in Entries
      PROVE  /\ Finished(procs, p)[i].files = Reaped(procs, p)[i].files
             /\ \/ i = p
                \/ Finished(procs, p)[i].state = "FREE"
                \/ Reaped(procs, p)[i].state # "FREE"
  <2> DEFINE r == Reaped(procs, p)[i]
  <2>1. r \in Proc
    BY <1>1, Zenon DEF Table
  <2>2. \/ Finished(procs, p)[i] = r
        \/ Finished(procs, p)[i] = [r EXCEPT !.state = "READY"] /\ r.state = "BLOCKED_WAIT"
        \/ i = p /\ \E st \in {"FREE", "ZOMBIE"} : Finished(procs, p)[i] = [r EXCEPT !.state = st]
    BY Zenon DEF Finished
  <2> HIDE DEF r
  <2>3. /\ Finished(procs, p)[i].files = r.files
        /\ i = p \/ Finished(procs, p)[i].state = "FREE" \/ r.state # "FREE"
    BY <2>1, <2>2, Zenon DEF Proc
  <2> QED
    BY <2>3, Zenon DEF r
<1>5. ASSUME NEW k \in Fds
      PROVE  Reaped(procs, p)[p].files[k] = Closed
  <2>1. procs[p] \in Proc
    BY <1>1, Zenon DEF Table
  <2> QED
    BY <2>1, Zenon DEF Reaped, Proc, NoFiles
<1>6. Narrower(procs, Finished(procs, p))
  BY <1>3, <1>4, <1>5, Zenon DEF Narrower
<1>7. procs' = Reaped(procs, p) \/ Rescheduled(Finished(procs, p), procs')
  <2>1. procs' = Reaped(procs, p) \/ halted' = halted
    BY Zenon DEF Finish, Stop
  <2> QED
    BY <2>1, FinishStep, Zenon
<1> QED
  BY <1>1, <1>3, <1>6, <1>7, RescheduledFiles, NarrowerTransitive, Zenon

\* spawn() starts a process with nothing open.
LEMMA SpawnNarrower ==
    ASSUME TypeInv, NEW p \in Entries, Spawn(p)
    PROVE  Narrower(procs, procs')
<1>1. PICK g \in Programs, e \in FreeEntries(procs) :
          Rescheduled([procs EXCEPT ![e] = NewProc(g, next_pid, procs[p].pid)], procs')
  BY SpawnStep, Zenon
<1> DEFINE n == NewProc(g, next_pid, procs[p].pid)
           ps == [procs EXCEPT ![e] = n]
<1>2. /\ Table(procs) /\ e \in Entries /\ n \in Proc /\ n.prog = g
      /\ \A k \in Fds : n.files[k] = Closed
  BY TypeParts, NewProcType, Zenon DEF FreeEntries, Spawn, NewProc, NoFiles
<1> HIDE DEF n
<1>3. Table(ps)
  BY <1>2, TableEdit, Zenon
<1>4. Narrower(procs, ps)
  BY <1>2, Zenon DEF Table, Narrower
<1>5. Rescheduled(ps, procs')
  BY <1>1, Zenon DEF n
<1> HIDE DEF ps
<1> QED
  BY <1>3, <1>4, <1>5, RescheduledFiles, NarrowerTransitive, Zenon

\* The FPU's steps leave files alone.
LEMMA FloatNarrower ==
    ASSUME TypeInv, NEW p \in Entries, ClaimFpu(p) \/ FloatWrite(p)
    PROVE  Narrower(procs, procs')
<1>1. ASSUME NEW i \in Entries, NEW fs
      PROVE  /\ [procs[i] EXCEPT !.fs = fs].files = procs[i].files
             /\ [procs[i] EXCEPT !.fs = fs].state = procs[i].state
  <2>1. procs[i] \in Proc
    BY TypeParts, Zenon DEF Table
  <2> QED
    BY <2>1, Zenon DEF Proc
<1>2. CASE ClaimFpu(p)
  <2>1. procs' = HandedOver(p) \/ Rescheduled(HandedOver(p), procs')
    BY <1>2, ClaimFpuStep, Zenon DEF ClaimFpu, Stop
  <2>2. Narrower(procs, HandedOver(p))
    BY <1>1, Zenon DEF HandedOver, Narrower
  <2> QED
    BY <2>1, <2>2, HandedOverTable, RescheduledFiles, NarrowerTransitive, Zenon
<1>3. CASE FloatWrite(p)
  <2>1. procs' = [procs EXCEPT ![p].fs = "Dirty"] /\ Table(procs)
    BY <1>3, TypeParts, Zenon DEF FloatWrite
  <2> QED
    BY <1>1, <2>1, Zenon DEF Table, Narrower
<1> QED
  BY <1>2, <1>3, Zenon

\* Only SYS_OPEN opens a file.
LEMMA OnlyOpenOpens ==
    ASSUME TypeInv, [Next]_vars, ~\E p \in Entries : Open(p) \/ Create(p)
    PROVE  Narrower(procs, procs')
<1>1. ASSUME procs' = procs
      PROVE  Narrower(procs, procs')
  BY <1>1, Zenon DEF Narrower
<1>2. ASSUME NEW p \in Entries,
             \/ OtherCall(p) \/ WritePalette(p) \/ SpawnRefused(p) \/ ReadConsole(p)
             \/ Present(p) \/ Yield(p) \/ Sleep(p) \/ Wait(p) \/ WriteFile(p) \/ CopyOut(p)
      PROVE  Narrower(procs, procs')
  BY <1>2, PlainCallStep, ReadConsoleStep, PresentStep, YieldSleepStep, WaitStep, WriteFileStep,
     CopyOutStep, KeptFiles, Zenon
<1>3. ASSUME \/ \E p \in Entries : Halt(p) \/ SpawnFaults(p) \/ StartJob(p) \/ Access(p)
             \/ JobDone \/ ConsoleInput \/ Halted \/ UNCHANGED vars
      PROVE  procs' = procs
  BY <1>3, Zenon DEF Halt, Stop, SpawnFaults, StoreFaults, StartJob, Access, JobDone,
     ConsoleInput, Halted, vars, procVars
<1>4. CASE TimerInterrupt \/ ExternalInterrupt \/ TimePasses
  BY <1>4, InterruptStep, TimePassesStep, KeptFiles, Zenon
<1>5. ASSUME NEW p \in Entries, Exit(p) \/ Fault(p) \/ EngineFault(p)
      PROVE  Narrower(procs, procs')
  BY <1>5, FinishNarrower, Zenon DEF Exit, Fault, EngineFault, Does
<1>6. ASSUME NEW p \in Entries, Close(p) \/ Spawn(p) \/ ClaimFpu(p) \/ FloatWrite(p)
      PROVE  Narrower(procs, procs')
  BY <1>6, CloseNarrower, SpawnNarrower, FloatNarrower, Zenon
<1> QED
  BY <1>1, <1>2, <1>3, <1>4, <1>5, <1>6, Zenon DEF Next

\* No step takes a file out of the directory.
LEMMA DirectoryGrows ==
    ASSUME TypeInv, [Next]_vars, ~\E p \in Entries : Open(p) \/ Create(p)
    PROVE  DirectoryKept
<1>1. ASSUME dir' = dir
      PROVE  DirectoryKept
  BY <1>1, Zenon DEF DirectoryKept
<1>2. ASSUME NEW p \in Entries, WriteFile(p)
      PROVE  DirectoryKept
  <2>1. PICK k \in Fds, n \in 0 .. MaxSize :
            /\ procs[p].files[k].mode = "write"
            /\ FlushIf(FALSE, [dir EXCEPT ![procs[p].files[k].file] = n])
    BY <1>2, Zenon DEF WriteFile
  <2>2. procs[p].files[k].file \in Files
    BY <2>1, TypeParts, Descriptor DEF OpenFile, Closed
  <2> QED
    BY <2>1, <2>2, FlushKeeps, Zenon
<1>3. ASSUME NEW p \in Entries,
             \/ Exit(p) \/ Fault(p) \/ EngineFault(p) \/ Halt(p) \/ Close(p) \/ ClaimFpu(p)
      PROVE  dir' = dir
  BY <1>3, Zenon DEF Exit, Fault, EngineFault, Finish, Halt, Close, ClaimFpu, Stop, FlushIf,
     fileVars
<1>4. ASSUME NEW p \in Entries,
             \/ OtherCall(p) \/ ReadConsole(p) \/ Present(p) \/ Yield(p) \/ Sleep(p) \/ Wait(p)
             \/ WritePalette(p) \/ Spawn(p) \/ SpawnRefused(p) \/ SpawnFaults(p)
             \/ FloatWrite(p) \/ StartJob(p) \/ CopyOut(p) \/ Access(p)
      PROVE  dir' = dir
  BY <1>4, Zenon DEF OtherCall, ReadConsole, Present, Yield, Sleep, Wait, WritePalette, Spawn,
     SpawnRefused, SpawnFaults, StoreFaults, FloatWrite, StartJob, CopyOut, Access, fileVars
<1>5. ASSUME \/ JobDone \/ TimerInterrupt \/ ExternalInterrupt \/ ConsoleInput \/ TimePasses
             \/ Halted \/ UNCHANGED vars
      PROVE  dir' = dir
  BY <1>5, Zenon DEF JobDone, TimerInterrupt, ExternalInterrupt, ConsoleInput, TimePasses, Halted,
     vars, fileVars
<1> QED
  BY <1>1, <1>2, <1>3, <1>4, <1>5, Zenon DEF Next

\* One writer at a time and no reader beside it, for any number of processes,
\* descriptors and files and over every open, close, exit and kill (may_open()).
THEOREM WriterStaysExclusive == Spec => []WriterExclusive
<1>1. Init => FilesInv
  <2> SUFFICES ASSUME Init PROVE FilesInv
    BY Zenon
  <2>1. ASSUME NEW i \in Entries, NEW k \in Fds
        PROVE  procs[i].state = "FREE" \/ procs[i].files[k] = Closed
    BY <2>1, Zenon DEF Init, FreeProc, NewProc, NoFiles
  <2> QED
    BY <2>1 DEF FilesInv, ExclusiveIn, ListedIn, Closed
<1>2. ASSUME TypeInv, TypeInv', FilesInv, [Next]_vars
      PROVE  FilesInv'
  <2>1. CASE \E p \in Entries : Open(p) \/ Create(p)
    BY <1>2, <2>1, OpenKeeps, CreateKeeps, Zenon
  <2>2. CASE ~\E p \in Entries : Open(p) \/ Create(p)
    <3>1. Narrower(procs, procs') /\ DirectoryKept
      BY <1>2, <2>2, OnlyOpenOpens, DirectoryGrows, Zenon
    <3>2. Table(procs) /\ Table(procs')
      BY <1>2, Zenon DEF TypeInv
    <3>3. ExclusiveIn(procs')
      BY <1>2, <3>1, <3>2, NarrowerKeeps, Zenon DEF FilesInv
    <3>4. ListedIn(procs, dir')
      BY <1>2, <3>1, <3>2, ListedKept, Zenon DEF FilesInv
    <3>5. ListedIn(procs', dir')
      BY <3>1, <3>2, <3>4, NarrowerOnly, Zenon
    <3> QED
      BY <3>3, <3>5, Zenon DEF FilesInv
  <2> QED
    BY <2>1, <2>2, Zenon
<1>3. FilesInv => WriterExclusive
  BY Zenon DEF FilesInv, ExclusiveIn, WriterExclusive
<1> QED
  BY <1>1, <1>2, <1>3, TypeInvariant, PTL DEF Spec

-----------------------------------------------------------------------------
(* The directory on the disk. *)

WritersLive(ps) == \A i \in Entries : Writes(ps, i) => Alive(ps, i)

\* DirectoryWrittenBack is not inductive: a machine that stops writes the directory back
\* only for files of entries in use, so whoever has one open for writing must be alive.
DirInv ==
    /\ WritersLive(procs)
    /\ \/ lost \/ halted = "fault" \/ diskdir = dir
       \/ halted = "no" /\ \E i \in Entries : Writes(procs, i)

\* Descriptors stay as they are, and nobody ends.
SameFiles(ps, qs) ==
    \A i \in Entries : qs[i].files = ps[i].files /\ (Alive(ps, i) => Alive(qs, i))

\* A call that leaves the descriptors alone.
LEMMA KeptSameFiles ==
    ASSUME NEW ps, NEW qs, NEW W, Kept(ps, qs, W, {})
    PROVE  SameFiles(ps, qs)
BY Zenon DEF Kept, SameFiles

\* A call that returns.
LEMMA ReturnSameFiles ==
    ASSUME TypeInv, NEW ps, Table(ps), NEW p \in Entries, Return(ps, p)
    PROVE  SameFiles(ps, procs')
<1> DEFINE rs == [ps EXCEPT ![p].retry = "none"]
<1>1. Kept(ps, ps, {}, {})
  BY Zenon DEF Kept
<1>2. Table(rs) /\ Kept(ps, rs, {}, {})
  BY <1>1, TableReturn, Zenon
<1>3. Schedule(rs, p, engines_used, job, rx)
  BY Zenon DEF Return
<1> HIDE DEF rs
<1>4. Rescheduled(rs, procs')
  BY <1>2, <1>3, TypeParts, ScheduleTable, Zenon
<1> QED
  BY <1>2, <1>4, KeptRescheduled, KeptSameFiles, Zenon

\* schedule().
LEMMA RescheduledSameFiles ==
    ASSUME NEW ps, NEW qs, Table(ps), Rescheduled(ps, qs)
    PROVE  SameFiles(ps, qs)
<1>1. Kept(ps, ps, {}, {})
  BY Zenon DEF Kept
<1> QED
  BY <1>1, KeptRescheduled, KeptSameFiles, Zenon

\* Such a step keeps the writers.
LEMMA SameWriters ==
    ASSUME NEW ps, NEW qs, SameFiles(ps, qs)
    PROVE  /\ WritersLive(ps) => WritersLive(qs)
           /\ \A i \in Entries : Writes(ps, i) <=> Writes(qs, i)
<1>1. \A i \in Entries : Writes(ps, i) <=> Writes(qs, i)
  BY Zenon DEF SameFiles, Writes
<1> QED
  BY <1>1, Zenon DEF WritersLive, SameFiles

\* A step that touches neither the directory nor the descriptors.
LEMMA FilesAlone ==
    ASSUME DirInv, SameFiles(procs, procs'), UNCHANGED fileVars, halted' \in {halted, "fault"}
    PROVE  DirInv'
<1>1. /\ WritersLive(procs')
      /\ (\E i \in Entries : Writes(procs, i)) => \E i \in Entries : Writes(procs', i)
  BY SameWriters, Zenon DEF DirInv
<1> QED
  BY <1>1, Zenon DEF DirInv, fileVars

\* halt() and panic() write the directory back for whoever still writes.
LEMMA StopWrites ==
    ASSUME NEW ps, NEW how \in {"halt", "panic"}, NEW closing \in BOOLEAN,
           Stop(ps, how, closing), WritersLive(ps),
           lost \/ diskdir = dir \/ closing \/ \E i \in Entries : Writes(ps, i)
    PROVE  DirInv'
<1>1. (\E i \in Entries : Writes(ps, i)) => HaltWrites(ps)
  BY Zenon DEF WritersLive, HaltWrites, Alive
<1>2. procs' = ps /\ dir' = dir /\ FlushIf(closing \/ HaltWrites(ps), dir)
  BY Zenon DEF Stop, FlushIf
<1>3. lost' \/ diskdir' = dir'
  BY <1>1, <1>2, Zenon DEF FlushIf
<1> QED
  BY <1>2, <1>3, Zenon DEF DirInv

\* A descriptor of p changed to o.
LEMMA EditedWriters ==
    ASSUME TypeInv, DirInv, NEW p \in Entries, Alive(procs, p), NEW k \in Fds, NEW o \in OpenFile
    PROVE  LET ps == [procs EXCEPT ![p].files[k] = o]
           IN  /\ Table(ps)
               /\ WritersLive(ps)
               /\ o.mode = "write" => Writes(ps, p)
               /\ \A i \in Entries : Writes(procs, i) /\ procs[p].files[k].mode # "write" =>
                      Writes(ps, i)
<1> DEFINE ps == [procs EXCEPT ![p].files[k] = o]
<1>1. Table(procs) /\ Table(ps)
  BY TypeParts, DescriptorEdit, Zenon
<1>2. ASSUME NEW i \in Entries, NEW l \in Fds
      PROVE  /\ ps[i].state = procs[i].state
             /\ ps[i].files[l] = IF i = p /\ l = k THEN o ELSE procs[i].files[l]
  <2>1. procs[i] \in Proc
    BY <1>1, Zenon DEF Table
  <2> QED
    BY <1>1, <2>1, Zenon DEF Table, Proc
<1> HIDE DEF ps
<1>3. WritersLive(ps)
  <2> SUFFICES ASSUME NEW i \in Entries, Writes(ps, i) PROVE Alive(ps, i)
    BY Zenon DEF WritersLive
  <2>1. PICK l \in Fds : ps[i].files[l].mode = "write"
    BY Zenon DEF Writes
  <2>2. i # p => Alive(procs, i)
    BY <1>2, <2>1 DEF DirInv, WritersLive, Writes
  <2>3. ps[i].state = procs[i].state
    BY <1>2, <2>1, Zenon
  <2> QED
    BY <2>2, <2>3, Zenon DEF Alive
<1>4. o.mode = "write" => Writes(ps, p)
  BY <1>2, Zenon DEF Writes
<1>5. ASSUME NEW i \in Entries, Writes(procs, i), procs[p].files[k].mode # "write"
      PROVE  Writes(ps, i)
  BY <1>2, <1>5, Zenon DEF Writes
<1> QED
  BY <1>1, <1>3, <1>4, <1>5, Zenon DEF ps

\* SYS_OPEN: a file opened for writing is emptied in memory only, and is then open; a
\* new one is written back at once.
LEMMA OpenDir ==
    ASSUME TypeInv, DirInv, NEW p \in Entries, Open(p) \/ Create(p)
    PROVE  DirInv'
<1>1. Alive(procs, p) /\ halted = "no" /\ Table(procs) /\ WritersLive(procs)
  BY DoesAlive, TypeParts, Zenon DEF Open, Create, DirInv
<1>2. CASE Open(p)
  <2>1. PICK f \in Files, mode \in {"read", "write"}, k \in FirstClosed(procs, p) :
            /\ FlushIf(FALSE, IF mode = "write" THEN [dir EXCEPT ![f] = 0] ELSE dir)
            /\ Return(Opened(procs, p, f, mode, k), p)
    BY <1>2, Zenon DEF Open
  <2> DEFINE o == [mode |-> mode, file |-> f]
             ps == [procs EXCEPT ![p].files[k] = o]
  <2>2. k \in Fds /\ procs[p].files[k].mode # "write" /\ o \in OpenFile /\ o.mode = mode
    BY Zenon DEF FirstClosed, OpenFile
  <2>3. Return(ps, p) /\ halted' = "no"
    BY <1>1, <2>1, Zenon DEF Opened, Return
  <2> HIDE DEF o
  <2>4. /\ Table(ps) /\ WritersLive(ps) /\ (mode = "write" => Writes(ps, p))
        /\ \A i \in Entries : Writes(procs, i) => Writes(ps, i)
    BY <1>1, <2>2, EditedWriters, Zenon
  <2> HIDE DEF ps
  <2>5. /\ WritersLive(procs') /\ (mode = "write" => Writes(procs', p))
        /\ \A i \in Entries : Writes(procs, i) => Writes(procs', i)
    BY <2>3, <2>4, ReturnSameFiles, SameWriters, Zenon
  <2>6. mode = "read" => UNCHANGED <<dir, diskdir, lost>>
    BY <2>1, Zenon DEF FlushIf
  <2> QED
    BY <1>1, <2>3, <2>5, <2>6, Zenon DEF DirInv
<1>3. CASE Create(p)
  <2>1. PICK f \in Files, k \in FirstClosed(procs, p) :
            /\ FlushIf(TRUE, [dir EXCEPT ![f] = 0])
            /\ Return(IF lost' THEN procs ELSE Opened(procs, p, f, "write", k), p)
    BY <1>3, Zenon DEF Create
  <2> DEFINE o == [mode |-> "write", file |-> f]
             ps == [procs EXCEPT ![p].files[k] = o]
  <2>2. k \in Fds /\ o \in OpenFile
    BY Zenon DEF FirstClosed, OpenFile
  <2>3. Table(ps) /\ WritersLive(ps)
    BY <1>1, <2>2, EditedWriters, Zenon
  <2>4. Return(procs, p) \/ Return(ps, p)
    BY <2>1, Zenon DEF Opened
  <2> HIDE DEF ps
  <2>5. WritersLive(procs')
    BY <1>1, <2>3, <2>4, ReturnSameFiles, SameWriters, Zenon
  <2>6. lost' \/ diskdir' = dir'
    BY <2>1, Zenon DEF FlushIf
  <2> QED
    BY <2>5, <2>6, Zenon DEF DirInv
<1> QED
  BY <1>2, <1>3, Zenon

\* SYS_CLOSE writes the directory back if the file was written.
LEMMA CloseDir ==
    ASSUME TypeInv, DirInv, NEW p \in Entries, Close(p)
    PROVE  DirInv'
<1>1. PICK k \in Fds : /\ FlushIf(procs[p].files[k].mode = "write", dir)
                       /\ Return([procs EXCEPT ![p].files[k] = Closed], p)
  BY Zenon DEF Close
<1> DEFINE ps == [procs EXCEPT ![p].files[k] = Closed]
<1>2. Alive(procs, p) /\ halted = "no" /\ Table(procs) /\ Closed \in OpenFile
  BY DoesAlive, TypeParts, Zenon DEF Close, OpenFile
<1>3. /\ Table(ps) /\ WritersLive(ps)
      /\ \A i \in Entries : Writes(procs, i) /\ procs[p].files[k].mode # "write" => Writes(ps, i)
  BY <1>2, EditedWriters, Zenon
<1>4. Return(ps, p) /\ halted' = "no"
  BY <1>1, <1>2, Zenon DEF Return
<1> HIDE DEF ps
<1>5. /\ WritersLive(procs')
      /\ procs[p].files[k].mode # "write" =>
            \A i \in Entries : Writes(procs, i) => Writes(procs', i)
  BY <1>3, <1>4, ReturnSameFiles, SameWriters, Zenon
<1>6. IF procs[p].files[k].mode = "write"
      THEN lost' \/ diskdir' = dir'
      ELSE UNCHANGED <<dir, diskdir, lost>>
  BY <1>1, Zenon DEF FlushIf
<1> QED
  BY <1>2, <1>4, <1>5, <1>6, Zenon DEF DirInv

\* SYS_WRITE: the caller has the file open for writing.
LEMMA WriteDir ==
    ASSUME TypeInv, DirInv, NEW p \in Entries, WriteFile(p)
    PROVE  DirInv'
<1>1. Writes(procs, p) /\ halted = "no" /\ halted' = "no"
  BY Zenon DEF WriteFile, Does, Writes, Return
<1>2. SameFiles(procs, procs')
  BY WriteFileStep, KeptSameFiles, Zenon
<1>3. WritersLive(procs') /\ Writes(procs', p)
  BY <1>1, <1>2, SameWriters, Zenon DEF DirInv
<1> QED
  BY <1>1, <1>3, Zenon DEF DirInv

\* finish() closes p's files, and writes the directory back if one was written.
LEMMA FinishDir ==
    ASSUME TypeInv, DirInv, NEW p \in Entries, NEW c, Does(p, c), Finish(p)
    PROVE  DirInv'
<1>1. Table(procs) /\ Alive(procs, p) /\ halted = "no"
  BY DoesAlive, TypeParts, Zenon
<1>2. ASSUME NEW i \in Entries
      PROVE  /\ i = p => ~Writes(Reaped(procs, p), i) /\ ~Writes(Finished(procs, p), i)
             /\ i # p => /\ Reaped(procs, p)[i].files = procs[i].files
                         /\ Finished(procs, p)[i].files = procs[i].files
                         /\ Alive(procs, i) => /\ Alive(Reaped(procs, p), i)
                                               /\ Alive(Finished(procs, p), i)
  <2>1. procs[i] \in Proc /\ Reaped(procs, p)[i] \in Proc
    BY <1>1, FinishedTable, Zenon DEF Table
  <2> DEFINE r == Reaped(procs, p)[i]
  <2>2. \/ Finished(procs, p)[i] = r
        \/ Finished(procs, p)[i] = [r EXCEPT !.state = "READY"]
        \/ i = p /\ \E st \in {"FREE", "ZOMBIE"} : Finished(procs, p)[i] = [r EXCEPT !.state = st]
    BY Zenon DEF Finished
  <2>3. /\ i = p => r.files = NoFiles
        /\ i # p => r.files = procs[i].files /\ (Alive(procs, i) => r = procs[i])
    BY <2>1, Zenon DEF Reaped, Proc, Alive
  <2> HIDE DEF r
  <2>4. /\ Finished(procs, p)[i].files = r.files
        /\ i # p /\ r.state \notin {"FREE", "ZOMBIE"} =>
              Finished(procs, p)[i].state \notin {"FREE", "ZOMBIE"}
    BY <2>1, <2>2, Zenon DEF Proc, r
  <2>5. CASE i = p
    <3>1. Reaped(procs, p)[i].files = NoFiles /\ Finished(procs, p)[i].files = NoFiles
      BY <2>3, <2>4, <2>5, Zenon DEF r
    <3>2. \A k \in Fds : NoFiles[k].mode # "write"
      BY Zenon DEF NoFiles, Closed
    <3> QED
      BY <2>5, <3>1, <3>2, Zenon DEF Writes
  <2>6. CASE i # p
    BY <2>3, <2>4, <2>6, Zenon DEF Alive, r
  <2> QED
    BY <2>5, <2>6, Zenon
<1>3. /\ WritersLive(Reaped(procs, p)) /\ WritersLive(Finished(procs, p))
      /\ \A i \in Entries \ {p} :
            Writes(procs, i) => Writes(Reaped(procs, p), i) /\ Writes(Finished(procs, p), i)
  BY <1>2, Zenon DEF DirInv, WritersLive, Writes
<1>4. lost \/ diskdir = dir \/ \E i \in Entries : Writes(procs, i)
  BY <1>1, Zenon DEF DirInv
<1>5. CASE Stop(Reaped(procs, p), "halt", Writes(procs, p))
  <2>1. lost \/ diskdir = dir \/ Writes(procs, p) \/ \E i \in Entries : Writes(Reaped(procs, p), i)
    BY <1>3, <1>4, Zenon
  <2>2. Writes(procs, p) \in BOOLEAN
    BY Zenon DEF Writes
  <2> QED
    BY <1>3, <1>5, <2>1, <2>2, StopWrites, Zenon
<1>6. CASE FlushIf(Writes(procs, p), dir) /\ Rescheduled(Finished(procs, p), procs')
           /\ halted' = halted
  <2>1. SameFiles(Finished(procs, p), procs')
    BY <1>1, <1>6, FinishedTable, RescheduledSameFiles, Zenon
  <2>2. /\ WritersLive(procs')
        /\ \A i \in Entries \ {p} : Writes(procs, i) => Writes(procs', i)
    BY <1>3, <2>1, SameWriters, Zenon
  <2>3. IF Writes(procs, p) THEN lost' \/ diskdir' = dir'
                            ELSE UNCHANGED <<dir, diskdir, lost>>
    BY <1>6, Zenon DEF FlushIf
  <2> QED
    BY <1>1, <1>4, <1>6, <2>2, <2>3, Zenon DEF DirInv
<1>7. \/ Stop(Reaped(procs, p), "halt", Writes(procs, p))
      \/ FlushIf(Writes(procs, p), dir) /\ halted' = halted
  BY Zenon DEF Finish
<1> QED
  BY <1>1, <1>5, <1>6, <1>7, FinishStep, Zenon

\* spawn() takes an entry that has nothing open.
LEMMA SpawnDir ==
    ASSUME TypeInv, DirInv, NEW p \in Entries, Spawn(p)
    PROVE  DirInv'
<1>1. PICK g \in Programs, e \in FreeEntries(procs) :
          Rescheduled([procs EXCEPT ![e] = NewProc(g, next_pid, procs[p].pid)], procs')
  BY SpawnStep, Zenon
<1> DEFINE n == NewProc(g, next_pid, procs[p].pid)
           ps == [procs EXCEPT ![e] = n]
<1>2. /\ Table(procs) /\ e \in Entries /\ procs[e].state = "FREE" /\ n \in Proc /\ n.prog = g
      /\ \A k \in Fds : n.files[k] = Closed
  BY TypeParts, NewProcType, Zenon DEF FreeEntries, Spawn, NewProc, NoFiles
<1> HIDE DEF n
<1>3. Table(ps) /\ \A i \in Entries : ps[i] = IF i = e THEN n ELSE procs[i]
  BY <1>2, TableEdit, Zenon DEF Table
<1>4. Rescheduled(ps, procs')
  BY <1>1, Zenon DEF n
<1> HIDE DEF ps
<1>5. ~Writes(ps, e) /\ ~Writes(procs, e)
  <2>1. ps[e] = n /\ \A k \in Fds : n.files[k].mode # "write"
    BY <1>2, <1>3 DEF Closed
  <2>2. ~Writes(ps, e)
    BY <2>1, Zenon DEF Writes
  <2>3. ~Writes(procs, e)
    BY <1>2, Zenon DEF DirInv, WritersLive, Alive
  <2> QED
    BY <2>2, <2>3, Zenon
<1>6. \A i \in Entries : /\ Writes(ps, i) <=> Writes(procs, i)
                         /\ Alive(procs, i) => Alive(ps, i)
  BY <1>2, <1>3, <1>5, Zenon DEF Writes, Alive
<1>7. /\ WritersLive(procs')
      /\ \A i \in Entries : Writes(procs, i) => Writes(procs', i)
  BY <1>3, <1>4, <1>6, RescheduledSameFiles, SameWriters, Zenon DEF DirInv, WritersLive
<1>8. UNCHANGED fileVars /\ halted' = halted
  BY Zenon DEF Spawn
<1> QED
  BY <1>7, <1>8, Zenon DEF DirInv, fileVars

\* The FPU's steps touch no file, and a panic writes the directory back.
LEMMA FloatDir ==
    ASSUME TypeInv, DirInv, NEW p \in Entries, ClaimFpu(p) \/ FloatWrite(p)
    PROVE  DirInv'
<1>1. ASSUME NEW i \in Entries, NEW fs
      PROVE  /\ [procs[i] EXCEPT !.fs = fs].files = procs[i].files
             /\ [procs[i] EXCEPT !.fs = fs].state = procs[i].state
  <2>1. procs[i] \in Proc
    BY TypeParts, Zenon DEF Table
  <2> QED
    BY <2>1, Zenon DEF Proc
<1>2. CASE ClaimFpu(p)
  <2>1. SameFiles(procs, HandedOver(p))
    BY <1>1, Zenon DEF HandedOver, SameFiles, Alive
  <2>2. CASE Stop(HandedOver(p), "panic", FALSE)
    <3>1. halted = "no"
      BY <1>2, Zenon DEF ClaimFpu, Does
    <3>2. /\ WritersLive(HandedOver(p))
          /\ lost \/ diskdir = dir \/ FALSE \/ \E i \in Entries : Writes(HandedOver(p), i)
      BY <2>1, <3>1, SameWriters, Zenon DEF DirInv
    <3> QED
      BY <2>2, <3>2, StopWrites, Zenon
  <2>3. CASE UNCHANGED fileVars /\ halted' = halted /\ Rescheduled(HandedOver(p), procs')
    <3>1. SameFiles(procs, procs')
      BY <2>1, <2>3, HandedOverTable, RescheduledSameFiles, Zenon DEF SameFiles
    <3> QED
      BY <2>3, <3>1, FilesAlone, Zenon
  <2> QED
    BY <1>2, <2>2, <2>3, ClaimFpuStep, Zenon DEF ClaimFpu
<1>3. CASE FloatWrite(p)
  <2>1. /\ procs' = [procs EXCEPT ![p].fs = "Dirty"] /\ Table(procs)
        /\ UNCHANGED fileVars /\ halted' = halted
    BY <1>3, TypeParts, Zenon DEF FloatWrite
  <2>2. SameFiles(procs, procs')
    BY <1>1, <2>1, Zenon DEF Table, SameFiles, Alive
  <2> QED
    BY <2>1, <2>2, FilesAlone, Zenon
<1> QED
  BY <1>2, <1>3, Zenon

\* Every step keeps DirInv.
LEMMA DirNext ==
    ASSUME TypeInv, DirInv, [Next]_vars
    PROVE  DirInv'
<1>1. ASSUME NEW p \in Entries, Open(p) \/ Create(p) \/ Close(p) \/ WriteFile(p)
      PROVE  DirInv'
  BY <1>1, OpenDir, CloseDir, WriteDir, Zenon
<1>2. ASSUME NEW p \in Entries, Exit(p) \/ Fault(p) \/ EngineFault(p)
      PROVE  DirInv'
  BY <1>2, FinishDir, Zenon DEF Exit, Fault, EngineFault
<1>3. ASSUME NEW p \in Entries, Spawn(p) \/ ClaimFpu(p) \/ FloatWrite(p)
      PROVE  DirInv'
  BY <1>3, SpawnDir, FloatDir, Zenon
<1>4. ASSUME NEW p \in Entries, Halt(p)
      PROVE  DirInv'
  <2>1. Stop(procs, "halt", FALSE) /\ halted = "no"
    BY <1>4, Zenon DEF Halt, Does
  <2>2. WritersLive(procs) /\ (lost \/ diskdir = dir \/ FALSE \/ \E i \in Entries : Writes(procs, i))
    BY <2>1, Zenon DEF DirInv
  <2> QED
    BY <2>1, <2>2, StopWrites, Zenon
<1>5. ASSUME NEW p \in Entries,
             \/ OtherCall(p) \/ ReadConsole(p) \/ Present(p) \/ Yield(p) \/ Sleep(p) \/ Wait(p)
             \/ WritePalette(p) \/ SpawnRefused(p)
      PROVE  DirInv'
  <2>1. SameFiles(procs, procs')
    BY <1>5, PlainCallStep, ReadConsoleStep, PresentStep, YieldSleepStep, WaitStep,
       KeptSameFiles, Zenon
  <2>2. UNCHANGED fileVars /\ halted' = halted
    BY <1>5, Zenon DEF OtherCall, ReadConsole, Present, Yield, Sleep, Wait, WritePalette,
       SpawnRefused, Return
  <2> QED
    BY <2>1, <2>2, FilesAlone, Zenon
<1>6. ASSUME NEW p \in Entries, CopyOut(p)
      PROVE  DirInv'
  <2>1. SameFiles(procs, procs')
    BY <1>6, CopyOutStep, KeptSameFiles, Zenon
  <2>2. UNCHANGED fileVars /\ halted' \in {halted, "fault"}
    BY <1>6, Zenon DEF CopyOut, StoreFaults, Return
  <2> QED
    BY <2>1, <2>2, FilesAlone, Zenon
<1>7. ASSUME \/ \E p \in Entries : SpawnFaults(p) \/ StartJob(p) \/ Access(p)
             \/ JobDone \/ ConsoleInput \/ Halted \/ UNCHANGED vars
      PROVE  DirInv'
  <2>1. UNCHANGED <<procs, fileVars>> /\ halted' \in {halted, "fault"}
    BY <1>7, Zenon DEF SpawnFaults, StoreFaults, StartJob, Access, JobDone, ConsoleInput, Halted, vars,
       procVars
  <2>2. SameFiles(procs, procs')
    BY <2>1, Zenon DEF SameFiles, Alive
  <2> QED
    BY <2>1, <2>2, FilesAlone, Zenon
<1>8. CASE TimerInterrupt \/ ExternalInterrupt \/ TimePasses
  <2>1. SameFiles(procs, procs')
    BY <1>8, InterruptStep, TimePassesStep, KeptSameFiles, Zenon
  <2>2. UNCHANGED fileVars /\ halted' = halted
    BY <1>8, Zenon DEF TimerInterrupt, ExternalInterrupt, TimePasses
  <2> QED
    BY <2>1, <2>2, FilesAlone, Zenon
<1> QED
  BY <1>1, <1>2, <1>3, <1>4, <1>5, <1>6, <1>7, <1>8, Zenon DEF Next

\* With nothing open for writing, and once the machine has stopped by itself, the
\* directory on the disk is the one in memory unless the last write of it failed
\* (close_file(), finish(), halt()).
THEOREM DirectoryStaysWrittenBack == Spec => []DirectoryWrittenBack
<1>1. Init => DirInv
  <2> SUFFICES ASSUME Init PROVE DirInv
    BY Zenon
  <2>1. ASSUME NEW i \in Entries, NEW k \in Fds
        PROVE  procs[i].files[k] = Closed
    BY <2>1, Zenon DEF Init, FreeProc, NewProc, NoFiles
  <2>2. diskdir = dir
    BY Zenon DEF Init
  <2> QED
    BY <2>1, <2>2 DEF DirInv, WritersLive, Writes, Closed
<1>2. TypeInv /\ DirInv /\ [Next]_vars => DirInv'
  BY DirNext, Zenon
<1>3. DirInv => DirectoryWrittenBack
  BY Zenon DEF DirInv, DirectoryWrittenBack
<1> QED
  BY <1>1, <1>2, <1>3, TypeInvariant, PTL DEF Spec

-----------------------------------------------------------------------------
(* Memory: two live processes never share a slot. *)

\* Nobody starts from ps to qs, and whoever lives on keeps its program and pid.
Fewer(ps, qs) ==
    \A i \in Entries : Alive(qs, i) =>
        Alive(ps, i) /\ qs[i].prog = ps[i].prog /\ qs[i].pid = ps[i].pid

\* The slots of ps's live processes are disjoint.
DisjointIn(ps) ==
    \A i, j \in Entries :
        Alive(ps, i) /\ Alive(ps, j) /\ i # j => Slots[ps[i].prog] \cap Slots[ps[j].prog] = {}

\* schedule() starts nobody.
LEMMA RescheduledFewer ==
    ASSUME NEW ps, NEW qs, Table(ps), Rescheduled(ps, qs)
    PROVE  Fewer(ps, qs)
<1> SUFFICES ASSUME NEW i \in Entries
             PROVE  /\ Alive(qs, i) => Alive(ps, i)
                    /\ qs[i].prog = ps[i].prog /\ qs[i].pid = ps[i].pid
  BY Zenon DEF Fewer
<1>1. ps[i] \in Proc /\ qs[i] = [ps[i] EXCEPT !.state = qs[i].state]
  BY Zenon DEF Table, Rescheduled
<1>2. qs[i].prog = ps[i].prog /\ qs[i].pid = ps[i].pid
  BY <1>1, Zenon DEF Proc
<1> QED
  BY <1>2, Zenon DEF Rescheduled, Alive

\* Neither does finish(), whether it stops the machine or not.
LEMMA FinishedFewer ==
    ASSUME NEW ps, Table(ps), NEW p \in Entries
    PROVE  Fewer(ps, Reaped(ps, p)) /\ Fewer(ps, Finished(ps, p))
<1>1. ASSUME NEW i \in Entries
      PROVE  /\ Reaped(ps, p)[i].prog = ps[i].prog /\ Reaped(ps, p)[i].pid = ps[i].pid
             /\ Reaped(ps, p)[i].state \in {ps[i].state, "FREE"}
             /\ Reaped(ps, p)[i] \in Proc
  <2>1. ps[i] \in Proc /\ ps[p] \in Proc
    BY Zenon DEF Table
  <2>2. Reaped(ps, p)[i] \in Proc
    BY FinishedTable, Zenon DEF Table
  <2> QED
    BY <2>1, <2>2, Zenon DEF Reaped, Proc
<1>2. ASSUME NEW i \in Entries, Alive(Finished(ps, p), i)
      PROVE  /\ Reaped(ps, p)[i].state \notin {"FREE", "ZOMBIE"}
             /\ Finished(ps, p)[i].prog = Reaped(ps, p)[i].prog
             /\ Finished(ps, p)[i].pid = Reaped(ps, p)[i].pid
  <2> DEFINE r == Reaped(ps, p)[i]
  <2>1. \/ Finished(ps, p)[i] = r
        \/ Finished(ps, p)[i] = [r EXCEPT !.state = "READY"] /\ r.state = "BLOCKED_WAIT"
        \/ \E st \in {"FREE", "ZOMBIE"} : Finished(ps, p)[i] = [r EXCEPT !.state = st]
    BY Zenon DEF Finished
  <2>2. r \in Proc
    BY <1>1, Zenon
  <2> HIDE DEF r
  <2>3. /\ r.state \notin {"FREE", "ZOMBIE"}
        /\ Finished(ps, p)[i].prog = r.prog
        /\ Finished(ps, p)[i].pid = r.pid
    BY <1>2, <2>1, <2>2, Zenon DEF Proc, Alive
  <2> QED
    BY <2>3, Zenon DEF r
<1> QED
  BY <1>1, <1>2, Zenon DEF Fewer, Alive

\* Two such steps are one.
LEMMA FewerTransitive ==
    ASSUME NEW ps, NEW qs, NEW rs, Fewer(ps, qs), Fewer(qs, rs)
    PROVE  Fewer(ps, rs)
BY Zenon DEF Fewer

\* Only spawn() starts a process.
LEMMA OnlySpawnStarts ==
    ASSUME TypeInv, [Next]_vars, ~\E p \in Entries : Spawn(p)
    PROVE  Fewer(procs, procs')
<1>1. Table(procs)
  BY Zenon DEF TypeInv
<1>2. CASE Quiet
  BY <1>2, QuietKeeps, Zenon DEF Kept, Fewer
<1>3. ASSUME NEW p \in Entries, Finish(p), halted = "no"
      PROVE  Fewer(procs, procs')
  <2>1. procs' = Reaped(procs, p) \/ Rescheduled(Finished(procs, p), procs')
    <3>1. procs' = Reaped(procs, p) \/ halted' = halted
      BY <1>3, Zenon DEF Finish, Stop
    <3> QED
      BY <1>3, <3>1, FinishStep, Zenon
  <2> QED
    BY <1>1, <2>1, FinishedTable, FinishedFewer, RescheduledFewer, FewerTransitive
<1>4. ASSUME NEW p \in Entries, ClaimFpu(p)
      PROVE  Fewer(procs, procs')
  <2>1. procs' = HandedOver(p) \/ Rescheduled(HandedOver(p), procs')
    BY <1>4, ClaimFpuStep, Zenon DEF ClaimFpu, Stop
  <2>2. Fewer(procs, HandedOver(p))
    <3> SUFFICES ASSUME NEW i \in Entries
                 PROVE  /\ HandedOver(p)[i].state = procs[i].state
                        /\ HandedOver(p)[i].prog = procs[i].prog
                        /\ HandedOver(p)[i].pid = procs[i].pid
      BY Zenon DEF Fewer, Alive
    <3>1. procs[i] \in Proc
      BY <1>1, Zenon DEF Table
    <3> QED
      BY <3>1, Zenon DEF HandedOver, Proc
  <2> QED
    BY <2>1, <2>2, HandedOverTable, RescheduledFewer, FewerTransitive
<1>5. ASSUME NEW p \in Entries, FloatWrite(p)
      PROVE  Fewer(procs, procs')
  <2>1. procs' = [procs EXCEPT ![p].fs = "Dirty"]
    BY <1>5, Zenon DEF FloatWrite
  <2> SUFFICES ASSUME NEW i \in Entries
               PROVE  /\ procs'[i].state = procs[i].state
                      /\ procs'[i].prog = procs[i].prog
                      /\ procs'[i].pid = procs[i].pid
    BY Zenon DEF Fewer, Alive
  <2>2. procs[i] \in Proc
    BY <1>1, Zenon DEF Table
  <2> QED
    BY <1>1, <2>1, <2>2, Zenon DEF Table, Proc
<1> QED
  BY <1>2, <1>3, <1>4, <1>5, NextCases, Zenon DEF Does

\* spawn() takes slots no live process has.
LEMMA SpawnDisjoint ==
    ASSUME TypeInv, DisjointIn(procs), NEW p \in Entries, Spawn(p)
    PROVE  DisjointIn(procs')
<1>1. PICK g \in Programs, e \in FreeEntries(procs) :
          /\ ~SlotsInUse(procs, g)
          /\ Rescheduled([procs EXCEPT ![e] = NewProc(g, next_pid, procs[p].pid)], procs')
  BY SpawnStep, Zenon
<1> DEFINE n == NewProc(g, next_pid, procs[p].pid)
           ps == [procs EXCEPT ![e] = n]
<1>2. Table(procs) /\ e \in Entries /\ n \in Proc /\ n.prog = g
  BY NewProcType, Zenon DEF TypeInv, FreeEntries, Spawn
<1> HIDE DEF n
<1>3. Table(ps)
  BY <1>2, TableEdit, Zenon
<1>4. ASSUME NEW i \in Entries
      PROVE  ps[i] = IF i = e THEN n ELSE procs[i]
  BY <1>2, Zenon DEF Table
<1> HIDE DEF ps
<1>5. DisjointIn(ps)
  BY <1>1, <1>2, <1>4, Zenon DEF DisjointIn, SlotsInUse, Alive
<1>6. Fewer(ps, procs')
  BY <1>1, <1>3, RescheduledFewer, Zenon DEF ps, n
<1> QED
  BY <1>5, <1>6, Zenon DEF DisjointIn, Fewer

\* Two live processes never share a slot, however many start and end in whatever
\* order (spawn()'s check and finish()).
THEOREM SlotsStayDisjoint == Spec => []SlotsDisjoint
<1>1. Init => SlotsDisjoint
  BY DEF Init, SlotsDisjoint, Alive, FreeProc, NewProc
<1>2. ASSUME TypeInv, SlotsDisjoint, [Next]_vars
      PROVE  SlotsDisjoint'
  <2>1. DisjointIn(procs)
    BY <1>2, Zenon DEF SlotsDisjoint, DisjointIn
  <2>2. DisjointIn(procs')
    <3>1. CASE \E p \in Entries : Spawn(p)
      BY <1>2, <2>1, <3>1, SpawnDisjoint, Zenon
    <3>2. CASE ~\E p \in Entries : Spawn(p)
      BY <1>2, <2>1, <3>2, OnlySpawnStarts, Zenon DEF DisjointIn, Fewer
    <3> QED
      BY <3>1, <3>2, Zenon
  <2> QED
    BY <2>2, Zenon DEF SlotsDisjoint, DisjointIn
<1> QED
  BY <1>1, <1>2, TypeInvariant, PTL DEF Spec

-----------------------------------------------------------------------------
(* What the hart is set up for. *)

\* A step through schedule().
Scheduled == \E ps, cur, used, j, bytes : Schedule(ps, cur, used, j, bytes)

\* The process that runs next is the one the hart was set up for, or is now.
Protected ==
    /\ current' # None => procs'[current'].state = "RUNNING"
    /\ \/ /\ UNCHANGED hartVars
          /\ current' # None => procs'[current'].pid = protected_pid
       \/ /\ current' \in Entries
          /\ procs'[current'].state = "RUNNING"
          /\ protected_pid' = procs'[current'].pid
          /\ hart' = [satp |-> current', pmp |-> Regions(procs'[current'].prog),
                      window |-> Slots[procs'[current'].prog]]
          /\ tlb' = {}

\* A process made running is the same process.
LEMMA MadeRunning ==
    ASSUME NEW r \in Proc, NEW w, r = [w EXCEPT !.state = "RUNNING"]
    PROVE  r.state = "RUNNING" /\ r.pid = w.pid /\ r.prog = w.prog
BY Zenon DEF Proc

\* schedule() ends in protect().
LEMMA ScheduleProtects ==
    ASSUME TypeInv', Scheduled
    PROVE  Protected
<1>1. PICK ps, cur, used, j, bytes : Schedule(ps, cur, used, j, bytes)
  BY Zenon DEF Scheduled
<1>2. procs' \in [Entries -> Proc] /\ current' \in Entries \cup {None}
  BY Zenon DEF TypeInv, TypeOK
<1> DEFINE woken == WakeBlocked(ps, bytes)
<1>3. CASE /\ cur # None /\ woken[cur].state = "RUNNING" /\ procs' = woken
           /\ current' = cur /\ Protect(woken, cur)
  BY <1>2, <1>3, Zenon DEF Protect, Protected
<1>4. CASE procs' = woken /\ current' = None /\ UNCHANGED hartVars
  BY <1>4, Zenon DEF Protected
<1>5. ASSUME NEW n \in Entries, procs' = [woken EXCEPT ![n].state = "RUNNING"],
             current' = n, Protect(woken, n)
      PROVE  Protected
  <2>1. DOMAIN woken = Entries
    BY Zenon DEF WakeBlocked
  <2>2. procs'[n] = [woken[n] EXCEPT !.state = "RUNNING"]
    BY <1>5, <2>1, Zenon
  <2>3. procs'[n] \in Proc
    BY <1>2, Zenon
  <2>4. /\ procs'[n].state = "RUNNING" /\ procs'[n].pid = woken[n].pid
        /\ procs'[n].prog = woken[n].prog
    BY <2>2, <2>3, MadeRunning, Zenon
  <2> HIDE DEF woken
  <2> QED
    BY <1>5, <2>4, Zenon DEF Protect, Protected
<1> QED
  BY <1>1, <1>3, <1>4, <1>5, Zenon DEF Schedule, First, Eligible, Ready

\* Every step goes through schedule(), leaves the hart as it is or fills the TLB; only
\* spawn() gives out a pid and builds page tables.
LEMMA StepKinds ==
    ASSUME [Next]_vars
    PROVE  /\ (\E p \in Entries : Spawn(p)) \/ UNCHANGED <<next_pid, spaceVars>>
           /\ \/ Scheduled
              \/ UNCHANGED <<current, hartVars>> /\ (halted' = "no" => halted = "no")
              \/ \E p \in Entries : Access(p)
<1>1. ASSUME NEW ps, NEW p, Return(ps, p)
      PROVE  Scheduled /\ UNCHANGED next_pid
  BY <1>1, Zenon DEF Return, Scheduled
<1> DEFINE Kind == /\ UNCHANGED <<next_pid, spaceVars>>
                   /\ \/ Scheduled
                      \/ UNCHANGED <<current, hartVars>> /\ (halted' = "no" => halted = "no")
<1>2. ASSUME NEW p \in Entries, Exit(p) \/ Fault(p) \/ EngineFault(p)
      PROVE  Kind
  <2>1. Finish(p) /\ halted = "no"
    BY <1>2, Zenon DEF Exit, Fault, EngineFault, Does
  <2> QED
    BY <2>1, Zenon DEF Finish, Stop, Scheduled
<1>3. ASSUME NEW p \in Entries, OtherCall(p) \/ Yield(p) \/ WritePalette(p) \/ SpawnRefused(p)
      PROVE  Kind
  BY <1>1, <1>3, Zenon DEF OtherCall, Yield, WritePalette, SpawnRefused
<1>4. ASSUME NEW p \in Entries, Sleep(p) \/ Open(p) \/ Create(p) \/ WriteFile(p) \/ Close(p)
      PROVE  Kind
  BY <1>1, <1>4, Zenon DEF Sleep, Open, Create, WriteFile, Close
<1>5. ASSUME NEW p \in Entries, ReadConsole(p) \/ Present(p)
      PROVE  Kind
  BY <1>5, Zenon DEF ReadConsole, Present, Scheduled
<1>6. ASSUME NEW p \in Entries, Wait(p)
      PROVE  Kind
  <2>1. UNCHANGED spaceVars
    BY <1>6, Zenon DEF Wait
  <2>2. Scheduled /\ UNCHANGED next_pid
    BY <1>1, <1>6, Zenon DEF Wait, Scheduled
  <2> QED
    BY <2>1, <2>2, Zenon
<1>7. ASSUME NEW p \in Entries, ClaimFpu(p) \/ Halt(p)
      PROVE  Kind
  BY <1>7, Zenon DEF ClaimFpu, Halt, Stop, Does, Scheduled
<1>8. ASSUME NEW p \in Entries, FloatWrite(p) \/ StartJob(p) \/ SpawnFaults(p)
      PROVE  Kind
  BY <1>8, Zenon DEF FloatWrite, StartJob, SpawnFaults, StoreFaults, Does, procVars
<1>9. ASSUME NEW p \in Entries, CopyOut(p)
      PROVE  Kind
  BY <1>1, <1>9, Zenon DEF CopyOut, StoreFaults, Does, procVars
<1>10. CASE TimerInterrupt \/ ExternalInterrupt
  <2>1. Kind
    BY <1>10, Zenon DEF TimerInterrupt, ExternalInterrupt, Scheduled
  <2> QED
    BY <2>1, Zenon
<1>11. CASE JobDone \/ ConsoleInput \/ TimePasses \/ Halted \/ UNCHANGED vars
  <2>1. Kind
    BY <1>11, Zenon DEF JobDone, ConsoleInput, TimePasses, Halted, vars, procVars
  <2> QED
    BY <2>1, Zenon
<1>12. ASSUME NEW p \in Entries, Access(p)
       PROVE  UNCHANGED <<next_pid, spaceVars>>
  BY <1>12, Zenon DEF Access, procVars
<1>13. ASSUME NEW p \in Entries, Spawn(p)
       PROVE  Scheduled
  BY <1>13, Zenon DEF Spawn, Scheduled
<1> HIDE DEF Kind
<1>14. \/ Kind
       \/ \E p \in Entries : Access(p)
       \/ \E p \in Entries : Spawn(p)
  BY <1>2, <1>3, <1>4, <1>5, <1>6, <1>7, <1>8, <1>9, <1>10, <1>11, Zenon DEF Next, Kind
<1> QED
  BY <1>12, <1>13, <1>14, Zenon DEF Kind

-----------------------------------------------------------------------------
(* Isolation. *)

\* The live processes' pids have been given out, and differ.
PidsIn(ps, next) ==
    \A i \in Entries : Alive(ps, i) =>
        /\ ps[i].pid < next
        /\ \A j \in Entries : Alive(ps, j) /\ ps[j].pid = ps[i].pid => i = j

\* An entry's page tables map what its last program had.
Mapped ==
    /\ \A i \in Entries : leaves[i] = IF space[i] = None THEN {} ELSE Regions(space[i])
    /\ \A i \in Entries : Alive(procs, i) => space[i] = procs[i].prog

\* The hart is set up for entry i.
SetUpFor(i) ==
    /\ hart.satp = i
    /\ hart.pmp = Regions(procs[i].prog)
    /\ hart.window = Slots[procs[i].prog]
    /\ tlb \subseteq Regions(procs[i].prog)

\* RunningIsolated is not inductive: protect() skips its work for the pid it did it for
\* last, so that process, if it lives, must be the one the hart is set up for even
\* while it does not run, and no other may ever have its pid.
SpaceInv ==
    /\ PidsIn(procs, next_pid)
    /\ protected_pid < next_pid
    /\ Mapped
    /\ \A i \in Entries : Alive(procs, i) /\ procs[i].pid = protected_pid => SetUpFor(i)
    /\ Running => procs[current].pid = protected_pid

\* Who is alive after spawn(): the new process and some of those before.
LEMMA SpawnStarts ==
    ASSUME TypeInv, NEW p \in Entries, Spawn(p)
    PROVE  \E g \in Programs, e \in Entries :
               /\ MapProcess(e, g)
               /\ \A i \in Entries : Alive(procs', i) =>
                      IF i = e
                      THEN procs'[i].pid = next_pid /\ procs'[i].prog = g
                      ELSE /\ Alive(procs, i) /\ procs'[i].pid = procs[i].pid
                           /\ procs'[i].prog = procs[i].prog
<1>1. PICK g \in Programs, e \in FreeEntries(procs) :
          /\ MapProcess(e, g)
          /\ Rescheduled([procs EXCEPT ![e] = NewProc(g, next_pid, procs[p].pid)], procs')
  BY SpawnStep, Zenon
<1> DEFINE n == NewProc(g, next_pid, procs[p].pid)
           ps == [procs EXCEPT ![e] = n]
<1>2. Table(procs) /\ e \in Entries /\ n \in Proc /\ n.prog = g
  BY NewProcType, Zenon DEF TypeInv, FreeEntries, Spawn
<1>3. n.pid = next_pid
  BY Zenon DEF NewProc
<1> HIDE DEF n
<1>4. Table(ps)
  BY <1>2, TableEdit, Zenon
<1>5. ASSUME NEW i \in Entries
      PROVE  ps[i] = IF i = e THEN n ELSE procs[i]
  BY <1>2, Zenon DEF Table
<1> HIDE DEF ps
<1>6. Fewer(ps, procs')
  BY <1>1, <1>4, RescheduledFewer, Zenon DEF ps, n
<1> QED
  BY <1>1, <1>2, <1>3, <1>5, <1>6 DEF Fewer, Alive

\* Pids stay different and below next_pid.
LEMMA PidsNext ==
    ASSUME TypeInv, TypeInv', SpaceInv, [Next]_vars
    PROVE  PidsIn(procs', next_pid') /\ next_pid' >= next_pid
<1>1. next_pid \in Nat /\ \A i \in Entries : procs[i].pid \in Nat /\ procs'[i].pid \in Nat
  BY KernelAssumption DEF TypeInv, TypeOK, Proc, Pids
<1>2. PidsIn(procs, next_pid)
  BY Zenon DEF SpaceInv
<1>3. CASE \E p \in Entries : Spawn(p)
  <2>1. PICK p \in Entries : Spawn(p)
    BY <1>3, Zenon
  <2>2. next_pid' = next_pid + 1
    BY <2>1, Zenon DEF Spawn
  <2>3. PICK e \in Entries :
          \A i \in Entries : Alive(procs', i) =>
             IF i = e THEN procs'[i].pid = next_pid
             ELSE Alive(procs, i) /\ procs'[i].pid = procs[i].pid
    BY <2>1, SpawnStarts, Zenon
  <2> QED
    BY <1>1, <1>2, <2>2, <2>3 DEF PidsIn
<1>4. CASE ~\E p \in Entries : Spawn(p)
  BY <1>1, <1>2, <1>4, OnlySpawnStarts, StepKinds DEF PidsIn, Fewer
<1> QED
  BY <1>3, <1>4, Zenon

\* Page tables are rebuilt for the program that gets the entry.
LEMMA MappedNext ==
    ASSUME TypeInv, SpaceInv, [Next]_vars
    PROVE  Mapped'
<1>1. /\ leaves \in [Entries -> SUBSET (SlotIds \cup {Engines})]
      /\ space \in [Entries -> Programs \cup {None}] /\ Mapped
  BY Zenon DEF TypeInv, TypeOK, SpaceInv
<1>2. CASE \E p \in Entries : Spawn(p)
  <2>1. PICK g \in Programs, e \in Entries :
          /\ MapProcess(e, g)
          /\ \A i \in Entries : Alive(procs', i) =>
                IF i = e THEN procs'[i].prog = g
                ELSE Alive(procs, i) /\ procs'[i].prog = procs[i].prog
    BY <1>2, SpawnStarts, Zenon
  <2>2. ASSUME NEW i \in Entries
        PROVE  /\ space'[i] = IF i = e THEN g ELSE space[i]
               /\ i # e => leaves'[i] = leaves[i]
    BY <1>1, <2>1, Zenon DEF MapProcess
  <2>3. leaves'[e] = Regions(g)
    <3>1. leaves'[e] = (IF space[e] = None THEN {} ELSE leaves[e] \ Regions(space[e]))
                          \cup Regions(g)
      BY <1>1, <2>1, Zenon DEF MapProcess
    <3>2. space[e] # None => leaves[e] = Regions(space[e])
      BY <1>1, Zenon DEF Mapped
    <3> QED
      BY <3>1, <3>2, Zenon
  <2>4. g # None
    BY KernelAssumption, Zenon
  <2> QED
    BY <1>1, <2>1, <2>2, <2>3, <2>4, Zenon DEF Mapped
<1>3. CASE ~\E p \in Entries : Spawn(p)
  BY <1>1, <1>3, OnlySpawnStarts, StepKinds, Zenon DEF Mapped, Fewer, spaceVars
<1> QED
  BY <1>2, <1>3, Zenon

\* Whoever has the pid the hart was set up for before a step had it, and its program,
\* before the step too: a new process has a new pid.
LEMMA SamePidSameProcess ==
    ASSUME TypeInv, SpaceInv, [Next]_vars, NEW i \in Entries,
           Alive(procs', i), procs'[i].pid = protected_pid
    PROVE  Alive(procs, i) /\ procs[i].pid = protected_pid /\ procs'[i].prog = procs[i].prog
<1>1. next_pid \in Nat /\ protected_pid \in Nat /\ protected_pid < next_pid
  BY KernelAssumption DEF TypeInv, TypeOK, Pids, SpaceInv
<1>2. CASE \E p \in Entries : Spawn(p)
  BY <1>1, <1>2, SpawnStarts
<1>3. CASE ~\E p \in Entries : Spawn(p)
  BY <1>3, OnlySpawnStarts, Zenon DEF Fewer
<1> QED
  BY <1>2, <1>3, Zenon

\* The hart stays set up for the live process with the pid protect() noted.
LEMMA SetUpNext ==
    ASSUME TypeInv, TypeInv', SpaceInv, [Next]_vars
    PROVE  /\ protected_pid' < next_pid'
           /\ \A i \in Entries :
                 Alive(procs', i) /\ procs'[i].pid = protected_pid' => SetUpFor(i)'
           /\ Running' => procs'[current'].pid = protected_pid'
<1>1. /\ next_pid \in Nat /\ next_pid' \in Nat /\ protected_pid \in Nat
      /\ protected_pid < next_pid
  BY KernelAssumption DEF TypeInv, TypeOK, Pids, SpaceInv
<1>2. PidsIn(procs', next_pid') /\ next_pid' >= next_pid
  BY PidsNext, Zenon
<1>3. ASSUME UNCHANGED hartVars
      PROVE  /\ protected_pid' < next_pid'
             /\ \A i \in Entries :
                   Alive(procs', i) /\ procs'[i].pid = protected_pid' => SetUpFor(i)'
  BY <1>1, <1>2, <1>3, SamePidSameProcess DEF hartVars, SpaceInv, SetUpFor
<1>4. CASE Scheduled
  <2>1. Protected
    BY <1>4, ScheduleProtects, Zenon
  <2>2. CASE UNCHANGED hartVars /\ (current' # None => procs'[current'].pid = protected_pid)
    BY <1>3, <2>2, Zenon DEF hartVars, Running
  <2>3. CASE /\ current' \in Entries
             /\ procs'[current'].state = "RUNNING"
             /\ protected_pid' = procs'[current'].pid
             /\ hart' = [satp |-> current', pmp |-> Regions(procs'[current'].prog),
                         window |-> Slots[procs'[current'].prog]]
             /\ tlb' = {}
    <3>1. Alive(procs', current')
      BY <2>3, Zenon DEF Alive
    <3>2. protected_pid' < next_pid'
      BY <1>2, <2>3, <3>1, Zenon DEF PidsIn
    <3>3. ASSUME NEW i \in Entries, Alive(procs', i), procs'[i].pid = protected_pid'
          PROVE  SetUpFor(i)'
      <4>1. i = current'
        BY <1>2, <2>3, <3>1, <3>3, Zenon DEF PidsIn
      <4> QED
        BY <2>3, <4>1, Zenon DEF SetUpFor
    <3> QED
      BY <2>3, <3>2, <3>3, Zenon DEF Running
  <2> QED
    BY <2>1, <2>2, <2>3, Zenon DEF Protected
<1>5. CASE /\ ~Scheduled /\ UNCHANGED <<current, hartVars>>
           /\ halted' = "no" => halted = "no"
  <2>1. ASSUME Running'
        PROVE  procs'[current'].pid = protected_pid'
    <3>1. /\ current \in Entries /\ Running /\ procs'[current].state = "RUNNING"
      BY <1>5, <2>1, Zenon DEF Running, TypeInv, TypeOK, CurrentRuns
    <3>2. procs'[current].pid = procs[current].pid
      <4>1. ~\E p \in Entries : Spawn(p)
        BY <1>5, Zenon DEF Spawn, Scheduled
      <4> QED
        BY <3>1, <4>1, OnlySpawnStarts, Zenon DEF Fewer, Alive
    <3> QED
      BY <1>5, <3>1, <3>2, Zenon DEF SpaceInv, hartVars
  <2> QED
    BY <1>3, <1>5, <2>1, Zenon
<1>6. ASSUME NEW p \in Entries, Access(p)
      PROVE  /\ protected_pid' < next_pid'
             /\ \A i \in Entries :
                   Alive(procs', i) /\ procs'[i].pid = protected_pid' => SetUpFor(i)'
             /\ Running' => procs'[current'].pid = protected_pid'
  <2>1. /\ UNCHANGED <<procs, current, next_pid, hart, protected_pid, halted>>
        /\ tlb' = tlb \cup leaves[hart.satp]
    BY <1>6, Zenon DEF Access, procVars
  <2>2. ASSUME NEW i \in Entries, Alive(procs, i), procs[i].pid = protected_pid
        PROVE  SetUpFor(i) /\ leaves[i] = Regions(procs[i].prog)
    <3>1. procs[i].prog # None
      BY <2>2, KernelAssumption, Zenon DEF TypeInv, Table
    <3> QED
      BY <2>2, <3>1, Zenon DEF SpaceInv, Mapped
  <2>3. ASSUME NEW i \in Entries, Alive(procs', i), procs'[i].pid = protected_pid'
        PROVE  SetUpFor(i)'
    BY <2>1, <2>2, <2>3, Zenon DEF SetUpFor
  <2> QED
    BY <1>1, <2>1, <2>3, Zenon DEF SpaceInv, Running
<1> QED
  BY <1>4, <1>5, <1>6, StepKinds, Zenon

\* SpaceInv holds throughout.
LEMMA SpaceInvariant == Spec => []SpaceInv
<1>1. Init => SpaceInv
  <2> SUFFICES ASSUME Init
               PROVE  SpaceInv
    BY Zenon
  <2>1. 0 \in Entries /\ next_pid = 2 /\ protected_pid = 1 /\ current = 0
    BY KernelAssumption DEF Init, Entries
  <2>2. ASSUME NEW i \in Entries, Alive(procs, i)
        PROVE  i = 0
    BY <2>2, Zenon DEF Init, Alive, FreeProc, NewProc
  <2>3. procs[0].pid = 1 /\ procs[0].prog = Shell
    BY <2>1, Zenon DEF Init, NewProc
  <2>4. Mapped
    BY <2>1, <2>2, <2>3, KernelAssumption, Zenon DEF Init, Mapped
  <2>5. SetUpFor(0)
    BY <2>3, Zenon DEF Init, SetUpFor
  <2> QED
    BY <2>1, <2>2, <2>3, <2>4, <2>5 DEF SpaceInv, PidsIn
<1>2. TypeInv /\ TypeInv' /\ SpaceInv /\ [Next]_vars => SpaceInv'
  BY PidsNext, MappedNext, SetUpNext, Zenon DEF SpaceInv
<1> QED
  BY <1>1, <1>2, TypeInvariant, PTL DEF Spec

\* While a program runs, its page tables, PMP, the DMA window and the TLB give it its
\* own slots and the engines exactly if it is flagged, although protect() does nothing
\* for the pid it was last called for and entries are used again.
THEOREM RunningStaysIsolated == Spec => []RunningIsolated
<1>1. TypeInv /\ SpaceInv => RunningIsolated
  <2> SUFFICES ASSUME TypeInv, SpaceInv, Running
               PROVE  /\ leaves[hart.satp] = Regions(procs[current].prog)
                      /\ SetUpFor(current)
    BY Zenon DEF RunningIsolated, SetUpFor
  <2>1. current \in Entries /\ Alive(procs, current)
    BY Zenon DEF Running, TypeInv, TypeOK, CurrentRuns, Alive
  <2>2. SetUpFor(current)
    BY <2>1, Zenon DEF SpaceInv
  <2>3. procs[current].prog # None
    BY <2>1, KernelAssumption, Zenon DEF TypeInv, Table
  <2> QED
    BY <2>1, <2>2, <2>3, Zenon DEF SpaceInv, Mapped, SetUpFor
<1> QED
  BY <1>1, SpaceInvariant, TypeInvariant, PTL

-----------------------------------------------------------------------------
(* The graphics engines: a job keeps every program that does not drive them *)
(* from running, and never outlives the programs that do.                   *)

\* EnginesOwnFramebuffer and JobAccounted are not inductive: the kernel asks the engines
\* only while engines_used is set, so it must be set whenever a program that can start a
\* job runs; and no process that starts later may get the pid of a job's owner.
EngineInv ==
    /\ EnginesOwnFramebuffer
    /\ JobAccounted
    /\ Running /\ Flagged(procs, current) => engines_used
    /\ job # None => job.owner < next_pid

\* Everybody in ps lives on in qs.
Survive(ps, qs) ==
    \A i \in Entries : Alive(ps, i) => Alive(qs, i) /\ qs[i].prog = ps[i].prog

\* A step through schedule() with the job it leaves.  The engines have been asked
\* before only if they were idle.
ScheduledWithJob ==
    /\ halted = "no"
    /\ job' \in {job, None}
    /\ \E ps, used, bytes : /\ Schedule(ps, current, used, job', bytes)
                            /\ used \in BOOLEAN
                            /\ job # None => used = engines_used

\* A step that schedules nobody and starts no job.
Unscheduled ==
    /\ job' \in {job, None}
    /\ UNCHANGED <<current, engines_used>>
    /\ halted' = "no" => halted = "no"

\* schedule() keeps the running process, or picks one that may run beside the job, and
\* notes that one that drives the engines has run.
LEMMA ScheduleEngines ==
    ASSUME TypeInv', NEW ps, NEW cur, NEW used \in BOOLEAN, NEW j, NEW bytes,
           Schedule(ps, cur, used, j, bytes), j # None => used
    PROVE  /\ j # None => engines_used'
           /\ current' # None /\ Flagged(procs', current') => engines_used'
           /\ current' # None /\ j # None => Flagged(procs', current') \/ current' = cur
<1>1. procs' \in [Entries -> Proc] /\ current' \in Entries \cup {None}
  BY Zenon DEF TypeInv, TypeOK
<1> DEFINE woken == WakeBlocked(ps, bytes)
           used1 == UsedAfterNext(woken, cur, used, j)
<1>2. j # None => used1
  BY Zenon DEF UsedAfterNext, UsedAfterLook
<1>3. CASE /\ procs' = woken /\ current' = cur
           /\ engines_used' = UsedOnceRun(woken, cur, used)
  BY <1>3, Zenon DEF UsedOnceRun
<1>4. CASE current' = None /\ engines_used' = used1
  BY <1>2, <1>4, Zenon
<1>5. ASSUME NEW n \in Eligible(woken, EnginesBusy(used, j)),
             procs' = [woken EXCEPT ![n].state = "RUNNING"], current' = n,
             engines_used' = UsedOnceRun(woken, n, used1)
      PROVE  /\ j # None => engines_used'
             /\ Flagged(procs', n) => engines_used'
             /\ j # None => Flagged(procs', n)
  <2>1. n \in Entries /\ (Flagged(woken, n) \/ ~EnginesBusy(used, j))
    BY <1>5, Zenon DEF Eligible, Ready
  <2>2. DOMAIN woken = Entries
    BY Zenon DEF WakeBlocked
  <2>3. procs'[n] = [woken[n] EXCEPT !.state = "RUNNING"]
    BY <1>5, <2>1, <2>2, Zenon
  <2>4. procs'[n].prog = woken[n].prog
    BY <1>1, <2>1, <2>3, MadeRunning, Zenon
  <2> HIDE DEF woken, used1
  <2> QED
    BY <1>2, <1>5, <2>1, <2>4, Zenon DEF UsedOnceRun, Flagged, EnginesBusy
<1>6. \/ /\ procs' = woken /\ current' = cur
         /\ engines_used' = UsedOnceRun(woken, cur, used)
      \/ current' = None /\ engines_used' = used1
      \/ \E n \in Eligible(woken, EnginesBusy(used, j)) :
            /\ procs' = [woken EXCEPT ![n].state = "RUNNING"]
            /\ current' = n
            /\ engines_used' = UsedOnceRun(woken, n, used1)
  BY Zenon DEF Schedule, First
<1> HIDE DEF woken, used1
<1> QED
  BY <1>3, <1>4, <1>5, <1>6, Zenon

\* What a step does to the engines.
LEMMA EngineSteps ==
    ASSUME TypeInv, [Next]_vars
    PROVE  ScheduledWithJob \/ Unscheduled \/ \E p \in Entries : StartJob(p)
<1>0. engines_used \in BOOLEAN
  BY TypeParts, Zenon
<1>1. ASSUME NEW ps, NEW p, Return(ps, p), current = p, halted = "no"
      PROVE  ScheduledWithJob
  BY <1>0, <1>1, Zenon DEF Return, ScheduledWithJob
<1>2. ASSUME NEW ps, NEW bytes, Schedule(ps, current, engines_used, job', bytes),
             job' \in {job, None}, halted = "no"
      PROVE  ScheduledWithJob
  BY <1>0, <1>2, Zenon DEF ScheduledWithJob
<1>3. ASSUME NEW p \in Entries, Exit(p) \/ Fault(p) \/ EngineFault(p)
      PROVE  ScheduledWithJob \/ Unscheduled
  <2>1. Finish(p) /\ halted = "no" /\ current = p
    BY <1>3, Zenon DEF Exit, Fault, EngineFault, Does
  <2>2. job' \in {job, None}
    BY <2>1, Zenon DEF Finish, JobAfter
  <2>3. CASE Stop(Reaped(procs, p), "halt", Writes(procs, p))
    BY <2>2, <2>3, Zenon DEF Stop, Unscheduled
  <2>4. CASE Schedule(Finished(procs, p), p, engines_used, job', rx)
    BY <1>2, <2>1, <2>2, <2>4, Zenon
  <2> QED
    BY <2>1, <2>3, <2>4, Zenon DEF Finish
<1>4. ASSUME NEW p \in Entries,
             \/ OtherCall(p) \/ Yield(p) \/ WritePalette(p) \/ SpawnRefused(p)
             \/ Sleep(p) \/ Open(p) \/ Create(p) \/ WriteFile(p) \/ Close(p)
      PROVE  ScheduledWithJob
  BY <1>1, <1>4, Zenon DEF OtherCall, Yield, WritePalette, SpawnRefused, Sleep, Open, Create,
     WriteFile, Close, Does
<1>5. ASSUME NEW p \in Entries, ReadConsole(p)
      PROVE  ScheduledWithJob
  <2>1. current = p /\ job' = job /\ halted = "no"
    BY <1>5, Zenon DEF ReadConsole, Does
  <2>2. \E ps, bytes : Schedule(ps, p, engines_used, job, bytes)
    BY <1>5, Zenon DEF ReadConsole
  <2> QED
    BY <1>2, <2>1, <2>2, Zenon
<1>6. ASSUME NEW p \in Entries, Present(p)
      PROVE  ScheduledWithJob
  <2> DEFINE used == UsedAfterLook(procs, engines_used, job)
  <2>1. used \in BOOLEAN /\ (job # None => used = engines_used)
    BY <1>0, Zenon DEF UsedAfterLook
  <2>2. /\ current = p /\ job' = job /\ halted = "no"
        /\ \E ps : Schedule(ps, p, used, job, rx)
    BY <1>6, Zenon DEF Present, Does
  <2> HIDE DEF used
  <2> QED
    BY <2>1, <2>2, Zenon DEF ScheduledWithJob
<1>7. ASSUME NEW p \in Entries, Wait(p)
      PROVE  ScheduledWithJob
  <2>1. current = p /\ halted = "no"
    BY <1>7, Zenon DEF Wait, Does
  <2>2. \E ps : Return(ps, p) \/ (Schedule(ps, p, engines_used, job, rx) /\ UNCHANGED job)
    BY <1>7, Zenon DEF Wait
  <2> QED
    BY <1>1, <1>2, <2>1, <2>2, Zenon
<1>8. ASSUME NEW p \in Entries, Spawn(p)
      PROVE  ScheduledWithJob
  <2>1. /\ current = p /\ job' = job /\ halted = "no"
        /\ \E ps : Schedule(ps, p, engines_used, job, rx)
    BY <1>8, Zenon DEF Spawn, Does
  <2> QED
    BY <1>2, <2>1, Zenon
<1>9. ASSUME NEW p \in Entries, ClaimFpu(p) \/ Halt(p)
      PROVE  ScheduledWithJob \/ Unscheduled
  <2>1. /\ current = p /\ job' = job /\ halted = "no"
        /\ \/ Schedule(HandedOver(p), p, engines_used, job, rx)
           \/ \E ps, how, closing : Stop(ps, how, closing)
    BY <1>9, Zenon DEF ClaimFpu, Halt, Does
  <2> QED
    BY <1>2, <2>1, Zenon DEF Stop, Unscheduled
<1>10. ASSUME NEW p \in Entries, CopyOut(p)
       PROVE  ScheduledWithJob \/ Unscheduled
  BY <1>1, <1>10, Zenon DEF CopyOut, StoreFaults, Does, procVars, engineVars, Unscheduled
<1>11. ASSUME NEW p \in Entries, FloatWrite(p) \/ SpawnFaults(p) \/ Access(p)
       PROVE  Unscheduled
  BY <1>11, Zenon DEF FloatWrite, SpawnFaults, StoreFaults, Access, Does, procVars, engineVars,
     Unscheduled
<1>12. CASE JobDone \/ ConsoleInput \/ TimePasses \/ Halted \/ UNCHANGED vars
  BY <1>12, Zenon DEF JobDone, ConsoleInput, TimePasses, Halted, vars, procVars, engineVars,
     Unscheduled
<1>13. CASE ExternalInterrupt
  BY <1>2, <1>13, Zenon DEF ExternalInterrupt
<1>14. CASE TimerInterrupt
  <2> DEFINE used == IF current = None THEN engines_used
                     ELSE UsedAfterNext(procs, current, engines_used, job)
  <2>1. used \in BOOLEAN /\ (job # None => used = engines_used)
    BY <1>0, Zenon DEF UsedAfterNext, UsedAfterLook
  <2>2. /\ job' \in {job, None} /\ halted = "no"
        /\ \E ps : Schedule(ps, current, used, job', rx)
    BY <1>14, Zenon DEF TimerInterrupt
  <2> HIDE DEF used
  <2> QED
    BY <2>1, <2>2, Zenon DEF ScheduledWithJob
<1> QED
  BY <1>3, <1>4, <1>5, <1>6, <1>7, <1>8, <1>9, <1>10, <1>11, <1>12, <1>13, <1>14 DEF Next

\* schedule() ends nobody.
LEMMA RescheduledSurvive ==
    ASSUME NEW ps, NEW qs, Table(ps), Rescheduled(ps, qs)
    PROVE  Survive(ps, qs)
<1> SUFFICES ASSUME NEW i \in Entries, Alive(ps, i)
             PROVE  Alive(qs, i) /\ qs[i].prog = ps[i].prog
  BY Zenon DEF Survive
<1>1. ps[i] \in Proc /\ qs[i] = [ps[i] EXCEPT !.state = qs[i].state]
  BY Zenon DEF Table, Rescheduled
<1>2. qs[i].prog = ps[i].prog
  BY <1>1, Zenon DEF Proc
<1> QED
  BY <1>2, Zenon DEF Rescheduled, Alive

\* Only finish() ends a process.
LEMMA OnlyFinishEnds ==
    ASSUME TypeInv, [Next]_vars, halted' = "no",
           ~\E p \in Entries : Finish(p) /\ current = p /\ halted = "no"
    PROVE  Survive(procs, procs')
<1>1. CASE Quiet
  BY <1>1, QuietKeeps, Zenon DEF Kept, Survive
<1>2. ASSUME NEW p \in Entries, Spawn(p)
      PROVE  Survive(procs, procs')
  <2>1. PICK g \in Programs, e \in FreeEntries(procs) :
            Rescheduled([procs EXCEPT ![e] = NewProc(g, next_pid, procs[p].pid)], procs')
    BY <1>2, SpawnStep, Zenon
  <2> DEFINE n == NewProc(g, next_pid, procs[p].pid)
             ps == [procs EXCEPT ![e] = n]
  <2>2. Table(procs) /\ e \in Entries /\ n \in Proc /\ n.prog = g
    BY <1>2, TypeParts, NewProcType, Zenon DEF FreeEntries, Spawn
  <2> HIDE DEF n
  <2>3. Table(ps)
    BY <2>2, TableEdit, Zenon
  <2>4. Survive(procs, ps)
    BY <2>2, Zenon DEF Table, Survive, FreeEntries, Alive
  <2>5. Rescheduled(ps, procs')
    BY <2>1, Zenon DEF n
  <2> HIDE DEF ps
  <2> QED
    BY <2>3, <2>4, <2>5, RescheduledSurvive DEF Survive
<1>3. ASSUME NEW i \in Entries, NEW fs
      PROVE  /\ [procs[i] EXCEPT !.fs = fs].prog = procs[i].prog
             /\ [procs[i] EXCEPT !.fs = fs].state = procs[i].state
  <2>1. procs[i] \in Proc
    BY TypeParts, Zenon DEF Table
  <2> QED
    BY <2>1, Zenon DEF Proc
<1>4. ASSUME NEW p \in Entries, ClaimFpu(p)
      PROVE  Survive(procs, procs')
  <2>1. Rescheduled(HandedOver(p), procs')
    BY <1>4, ClaimFpuStep, Zenon DEF ClaimFpu, Stop
  <2>2. Survive(procs, HandedOver(p))
    BY <1>3, Zenon DEF HandedOver, Survive, Alive
  <2> QED
    BY <2>1, <2>2, HandedOverTable, RescheduledSurvive DEF Survive
<1>5. ASSUME NEW p \in Entries, FloatWrite(p)
      PROVE  Survive(procs, procs')
  <2>1. procs' = [procs EXCEPT ![p].fs = "Dirty"] /\ Table(procs)
    BY <1>5, TypeParts, Zenon DEF FloatWrite
  <2> QED
    BY <1>3, <2>1, Zenon DEF Table, Survive, Alive
<1> QED
  BY <1>1, <1>2, <1>4, <1>5, NextCases, Zenon DEF Does

\* finish() ends p and nobody else.
LEMMA FinishEndsOne ==
    ASSUME TypeInv, NEW p \in Entries, Finish(p), halted = "no", halted' = "no",
           NEW i \in Entries \ {p}, Alive(procs, i)
    PROVE  Alive(procs', i) /\ procs'[i].prog = procs[i].prog
<1>1. Table(procs) /\ Table(Finished(procs, p)) /\ Rescheduled(Finished(procs, p), procs')
  BY TypeParts, FinishedTable, FinishStep, Zenon
<1>2. procs[i] \in Proc /\ Reaped(procs, p)[i] = procs[i]
  BY <1>1, Zenon DEF Table, Reaped, Alive
<1>3. \/ Finished(procs, p)[i] = procs[i]
      \/ Finished(procs, p)[i] = [procs[i] EXCEPT !.state = "READY"]
  BY <1>2, Zenon DEF Finished
<1>4. Alive(Finished(procs, p), i) /\ Finished(procs, p)[i].prog = procs[i].prog
  BY <1>2, <1>3, Zenon DEF Alive, Proc
<1> QED
  BY <1>1, <1>4, RescheduledSurvive DEF Survive

\* A job that is left after a step still has a program that drives the engines.
LEMMA JobNotOrphaned ==
    ASSUME TypeInv, EngineInv, [Next]_vars, halted = "no", halted' = "no",
           job' = job, job # None
    PROVE  \E i \in Entries : Alive(procs', i) /\ Flagged(procs', i)
<1>1. PICK i \in Entries : Alive(procs, i) /\ Flagged(procs, i)
  BY Zenon DEF EngineInv, JobAccounted
<1>2. ASSUME NEW p \in Entries, Finish(p)
      PROVE  \E k \in Entries : Alive(procs', k) /\ Flagged(procs', k)
  <2>1. JobAfter(procs, p) # None
    BY <1>2, Zenon DEF Finish
  <2>2. PICK k \in Entries \ {p} : Alive(procs, k) /\ Flagged(procs, k)
    BY <1>1, <2>1, Zenon DEF JobAfter
  <2> QED
    BY <1>2, <2>2, FinishEndsOne, Zenon DEF Flagged
<1>3. CASE ~\E p \in Entries : Finish(p)
  BY <1>1, <1>3, OnlyFinishEnds, Zenon DEF Survive, Flagged
<1> QED
  BY <1>2, <1>3, Zenon

\* Whoever has the pid of a job's owner after a step had it before.
LEMMA OwnerKept ==
    ASSUME TypeInv, EngineInv, [Next]_vars, job # None, NEW i \in Entries,
           Alive(procs', i), procs'[i].pid = job.owner
    PROVE  Alive(procs, i) /\ procs[i].pid = job.owner /\ procs'[i].prog = procs[i].prog
<1>1. next_pid \in Nat /\ job.owner < next_pid /\ job.owner \in Nat
  BY KernelAssumption DEF TypeInv, TypeOK, EngineInv, Pids
<1>2. CASE \E p \in Entries : Spawn(p)
  BY <1>1, <1>2, SpawnStarts
<1>3. CASE ~\E p \in Entries : Spawn(p)
  BY <1>3, OnlySpawnStarts, Zenon DEF Fewer
<1> QED
  BY <1>2, <1>3, Zenon

\* The process that goes on running has the program it had.
LEMMA CurrentKept ==
    ASSUME TypeInv, TypeInv', [Next]_vars, halted = "no", halted' = "no",
           current # None, current' = current
    PROVE  current \in Entries /\ procs'[current].prog = procs[current].prog
<1>1. /\ current \in Entries
      /\ procs[current].state = "RUNNING" /\ procs'[current].state = "RUNNING"
  BY Zenon DEF TypeInv, TypeOK, CurrentRuns
<1>2. CASE \E p \in Entries : Spawn(p)
  <2>1. next_pid \in Nat
    BY KernelAssumption, SMT DEF TypeInv, TypeOK
  <2>2. next_pid' = next_pid + 1
    BY <1>2, Zenon DEF Spawn
  <2>3. ASSUME NEW p \in Entries, Finish(p) PROVE FALSE
    <3>1. next_pid' = next_pid
      BY <2>3, Zenon DEF Finish
    <3> QED
      BY <2>1, <2>2, <3>1
  <2> QED
    BY <1>1, <2>3, OnlyFinishEnds, Zenon DEF Survive, Alive
<1>3. CASE ~\E p \in Entries : Spawn(p)
  BY <1>1, <1>3, OnlySpawnStarts, Zenon DEF Fewer, Alive
<1> QED
  BY <1>1, <1>2, <1>3, Zenon

\* A program that starts a job drives the engines and gives it its own memory: the hart
\* is set up for it.
LEMMA StartJobKeeps ==
    ASSUME TypeInv, SpaceInv, EngineInv, NEW p \in Entries, StartJob(p)
    PROVE  EngineInv'
<1>1. /\ UNCHANGED <<procs, current, next_pid, engines_used, halted>>
      /\ Running /\ current = p /\ Alive(procs, p)
  BY DoesAlive, Zenon DEF StartJob, procVars, Running
<1>2. /\ hart.pmp = Regions(procs[p].prog) /\ hart.window = Slots[procs[p].prog]
      /\ \A i \in Entries : Alive(procs, i) /\ procs[i].pid = procs[p].pid => i = p
      /\ procs[p].pid < next_pid
  BY <1>1, Zenon DEF SpaceInv, SetUpFor, PidsIn
<1>3. PICK mem \in SUBSET SlotIds :
          mem \subseteq hart.window /\ job' = [owner |-> procs[p].pid, mem |-> mem]
  BY Zenon DEF StartJob
<1>4. Flagged(procs, p)
  <2>1. procs[p].prog \in Programs
    BY <1>1, TypeParts, Zenon DEF Table
  <2> QED
    BY <1>2, <2>1, KernelAssumption, Zenon DEF StartJob, Regions, Flagged
<1>5. engines_used
  BY <1>1, <1>4, Zenon DEF EngineInv
<1>6. job'.owner = procs[p].pid /\ job'.mem \subseteq Slots[procs[p].prog]
  BY <1>2, <1>3, Zenon
<1>7. EnginesOwnFramebuffer'
  BY <1>1, <1>4, Zenon DEF EnginesOwnFramebuffer, Flagged
<1>8. JobAccounted'
  BY <1>1, <1>2, <1>4, <1>5, <1>6, Zenon DEF JobAccounted, Alive, Flagged
<1> QED
  BY <1>1, <1>2, <1>5, <1>6, <1>7, <1>8, Zenon DEF EngineInv

\* No other step starts a job.
LEMMA JobKeptOrGone ==
    ASSUME TypeInv, TypeInv', SpaceInv, EngineInv, [Next]_vars,
           ScheduledWithJob \/ Unscheduled
    PROVE  EngineInv'
<1>1. job' \in {job, None} /\ (halted' = "no" => halted = "no")
  BY Zenon DEF ScheduledWithJob, Unscheduled
<1>2. ASSUME halted' = "no"
      PROVE  /\ job' # None => engines_used'
             /\ current' # None /\ Flagged(procs', current') => engines_used'
             /\ current' # None /\ job' # None => Flagged(procs', current')
  <2>1. ASSUME current # None, current' = current
        PROVE  Flagged(procs', current') <=> Flagged(procs, current)
    BY <1>1, <1>2, <2>1, CurrentKept, Zenon DEF Flagged
  <2>2. /\ job' # None => engines_used /\ job # None
        /\ current # None /\ Flagged(procs, current) => engines_used
        /\ current # None /\ job' # None => Flagged(procs, current)
    BY <1>1, <1>2, Zenon DEF EngineInv, JobAccounted, EnginesOwnFramebuffer, Running
  <2>3. CASE ScheduledWithJob
    <3>1. PICK ps, used, bytes : /\ Schedule(ps, current, used, job', bytes)
                                 /\ used \in BOOLEAN
                                 /\ job # None => used = engines_used
      BY <2>3, Zenon DEF ScheduledWithJob
    <3>2. /\ job' # None => engines_used'
          /\ current' # None /\ Flagged(procs', current') => engines_used'
          /\ current' # None /\ job' # None => Flagged(procs', current') \/ current' = current
      BY <2>2, <3>1, ScheduleEngines
    <3> QED
      BY <2>1, <2>2, <3>2, Zenon
  <2>4. CASE Unscheduled
    BY <2>1, <2>2, <2>4, Zenon DEF Unscheduled
  <2> QED
    BY <2>3, <2>4, Zenon
<1>3. EnginesOwnFramebuffer' /\ (Running /\ Flagged(procs, current) => engines_used)'
  BY <1>2, Zenon DEF EnginesOwnFramebuffer, Running
<1>4. JobAccounted'
  <2> SUFFICES ASSUME halted' = "no", job' # None
               PROVE  /\ engines_used'
                      /\ \E i \in Entries : Alive(procs', i) /\ Flagged(procs', i)
                      /\ \A i \in Entries : Alive(procs', i) /\ procs'[i].pid = job'.owner =>
                            job'.mem \subseteq Slots[procs'[i].prog]
    BY Zenon DEF JobAccounted
  <2>1. job' = job /\ job # None /\ halted = "no"
    BY <1>1, Zenon
  <2>2. ASSUME NEW i \in Entries, Alive(procs', i), procs'[i].pid = job.owner
        PROVE  job.mem \subseteq Slots[procs'[i].prog]
    BY <2>1, <2>2, OwnerKept, Zenon DEF EngineInv, JobAccounted
  <2> QED
    BY <1>2, <2>1, <2>2, JobNotOrphaned, Zenon
<1>5. job' # None => job'.owner < next_pid'
  <2>1. next_pid \in Nat /\ next_pid' \in Nat /\ (job # None => job.owner \in Nat)
    BY KernelAssumption DEF TypeInv, TypeOK, Pids
  <2> QED
    BY <1>1, <2>1, PidsNext DEF EngineInv
<1> QED
  BY <1>3, <1>4, <1>5, Zenon DEF EngineInv

\* EngineInv holds throughout.
LEMMA EngineInvariant == Spec => []EngineInv
<1>1. Init => EngineInv
  <2> SUFFICES ASSUME Init PROVE EngineInv
    BY Zenon
  <2>1. job = None /\ current = 0 /\ procs[0].prog = Shell
    BY KernelAssumption DEF Init, NewProc, Entries
  <2> QED
    BY <2>1, KernelAssumption, Zenon DEF EngineInv, EnginesOwnFramebuffer, JobAccounted, Flagged
<1>2. TypeInv /\ TypeInv' /\ SpaceInv /\ EngineInv /\ [Next]_vars => EngineInv'
  BY EngineSteps, StartJobKeeps, JobKeptOrGone, Zenon
<1> QED
  BY <1>1, <1>2, TypeInvariant, SpaceInvariant, PTL DEF Spec

\* While a job owns the framebuffer no program runs that does not drive the engines,
\* though the kernel asks them only when it thinks they may be in use (next_ready(),
\* engines_busy()).
THEOREM EnginesStayAlone == Spec => []EnginesOwnFramebuffer
<1>1. EngineInv => EnginesOwnFramebuffer
  BY Zenon DEF EngineInv
<1> QED
  BY <1>1, EngineInvariant, PTL

\* A job never outlives the programs that drive the engines, never reaches past its
\* owner's slots, and is always one the kernel looks for (stop_orphaned_engines(),
\* protect(), engines_busy()).
THEOREM JobStaysAccounted == Spec => []JobAccounted
<1>1. EngineInv => JobAccounted
  BY Zenon DEF EngineInv
<1> QED
  BY <1>1, EngineInvariant, PTL

-----------------------------------------------------------------------------
(* The end of a process: who waits is woken, whom nobody waits for is freed, *)
(* and its colours go with it.                                               *)

\* i waits for a child that is alive.
Waits(ps, i) ==
    \E c \in Entries : /\ Alive(ps, c)
                       /\ ps[c].pid = ps[i].wait_pid
                       /\ ps[c].parent = ps[i].pid

Awaited(ps) == \A i \in Entries : ps[i].state = "BLOCKED_WAIT" => Waits(ps, i)

Claimed(ps) == \A i \in Entries : ps[i].state = "ZOMBIE" => Parents(ps, i) # {}

PaletteOwned ==
    palette = "custom" => \E i \in Entries : Alive(procs, i) /\ procs[i].pid = palette_writer

\* Nobody is its own parent.
NotOwnParent(ps) == \A i \in Entries : Alive(ps, i) => ps[i].parent # ps[i].pid

\* finish() looks for the parent while the process that ends is still alive, and would
\* leave a zombie for good if it found the process itself: EndsSettled is inductive only
\* with NotOwnParent.
EndsInv ==
    /\ Awaited(procs)
    /\ NotOwnParent(procs)
    /\ halted = "no" => Claimed(procs) /\ PaletteOwned

\* The processes of qs are those of ps, and only those in W may have begun to wait.
Same(ps, qs, W) ==
    \A i \in Entries :
        /\ qs[i].pid = ps[i].pid /\ qs[i].parent = ps[i].parent
        /\ Alive(qs, i) <=> Alive(ps, i)
        /\ ps[i].state = "FREE" => qs[i].state = "FREE"
        /\ i \notin W /\ qs[i].state = "BLOCKED_WAIT" =>
              ps[i].state = "BLOCKED_WAIT" /\ qs[i].wait_pid = ps[i].wait_pid

\* A call that keeps the processes is such a step.
LEMMA KeptSame ==
    ASSUME NEW ps, NEW qs, NEW W, NEW F, Kept(ps, qs, W, F)
    PROVE  Same(ps, qs, W)
BY Zenon DEF Kept, Same

\* So is schedule().
LEMMA RescheduledSame ==
    ASSUME NEW ps, NEW qs, Table(ps), Rescheduled(ps, qs)
    PROVE  Same(ps, qs, {})
<1>1. Kept(ps, ps, {}, {})
  BY Zenon DEF Kept
<1> QED
  BY <1>1, KeptRescheduled, KeptSame, Zenon

\* What such a step keeps.
LEMMA SameKeeps ==
    ASSUME NEW ps, NEW qs, NEW W, Same(ps, qs, W), Awaited(ps), NotOwnParent(ps),
           \A i \in W : qs[i].state = "BLOCKED_WAIT" => Waits(qs, i)
    PROVE  /\ Awaited(qs)
           /\ NotOwnParent(qs)
           /\ Claimed(ps) => Claimed(qs)
<1>1. Awaited(qs)
  <2> SUFFICES ASSUME NEW i \in Entries \ W, qs[i].state = "BLOCKED_WAIT"
               PROVE  Waits(qs, i)
    BY Zenon DEF Awaited
  <2> QED
    BY DEF Same, Awaited, Waits
<1>2. NotOwnParent(qs)
  BY Zenon DEF Same, NotOwnParent
<1>3. ASSUME Claimed(ps) PROVE Claimed(qs)
  <2> SUFFICES ASSUME NEW i \in Entries, qs[i].state = "ZOMBIE"
               PROVE  Parents(qs, i) # {}
    BY Zenon DEF Claimed
  <2>1. ps[i].state = "ZOMBIE"
    BY Zenon DEF Same, Alive
  <2>2. PICK k \in Entries : Alive(ps, k) /\ ps[k].pid = ps[i].parent
    BY <1>3, <2>1, Zenon DEF Claimed, Parents
  <2> QED
    BY <2>2, Zenon DEF Same, Parents
<1> QED
  BY <1>1, <1>2, <1>3, Zenon

\* SYS_WAIT blocks for a child that is alive.
LEMMA WaitKeeps ==
    ASSUME TypeInv, EndsInv, NEW p \in Entries, Wait(p)
    PROVE  /\ Awaited(procs') /\ NotOwnParent(procs')
           /\ Claimed(procs) => Claimed(procs')
<1>1. /\ Table(procs) /\ procs[p] \in Proc /\ procs[p].state = "RUNNING" /\ HartOK
      /\ engines_used \in BOOLEAN
  BY DoesAlive, TypeParts, Zenon DEF Wait
<1>2. Same(procs, procs', {p})
  BY WaitStep, KeptSame, Zenon
<1>3. ASSUME procs'[p].state = "BLOCKED_WAIT"
      PROVE  Waits(procs', p)
  <2>1. PICK pid \in Pids :
          LET children == Children(procs, p, pid)
          IN  \/ /\ \A i \in children : procs[i].state = "ZOMBIE"
                 /\ Return([i \in Entries |-> IF i \in children
                                              THEN [procs[i] EXCEPT !.state = "FREE"]
                                              ELSE procs[i]], p)
              \/ /\ \E i \in children : procs[i].state # "ZOMBIE"
                 /\ Schedule([procs EXCEPT ![p].state = "BLOCKED_WAIT", ![p].wait_pid = pid,
                                           ![p].retry = "wait"], p, engines_used, job, rx)
    <3>1. procs[p].wait_pid \in Pids
      BY <1>1, Zenon DEF Proc
    <3> QED
      BY <3>1, Zenon DEF Wait
  <2> DEFINE children == Children(procs, p, pid)
             freed == [i \in Entries |-> IF i \in children
                                         THEN [procs[i] EXCEPT !.state = "FREE"]
                                         ELSE procs[i]]
             r == [procs[p] EXCEPT !.state = "BLOCKED_WAIT", !.wait_pid = pid, !.retry = "wait"]
             ps == [procs EXCEPT ![p].state = "BLOCKED_WAIT", ![p].wait_pid = pid,
                                 ![p].retry = "wait"]
  <2>2. CASE (\A i \in children : procs[i].state = "ZOMBIE") /\ Return(freed, p)
    <3>1. Kept(procs, freed, {}, {}) /\ Table(freed)
      <4>1. ASSUME NEW i \in Entries
            PROVE  LET q == [procs[i] EXCEPT !.state = "FREE"]
                   IN  /\ q \in Proc /\ q.state = "FREE" /\ q.pid = procs[i].pid
                       /\ q.parent = procs[i].parent /\ q.prog = procs[i].prog
                       /\ q.fs = procs[i].fs /\ q.files = procs[i].files
        <5>1. procs[i] \in Proc
          BY <1>1, Zenon DEF Table
        <5> QED
          BY <5>1, Zenon DEF Proc, States
      <4>2. Table(freed)
        BY <1>1, <4>1, Zenon DEF Table, Alive
      <4>3. Kept(procs, freed, {}, {})
        BY <2>2, <4>1, Zenon DEF Kept, Alive
      <4> QED
        BY <4>2, <4>3, Zenon
    <3> DEFINE rs == [freed EXCEPT ![p].retry = "none"]
    <3>2. Table(rs) /\ Kept(procs, rs, {}, {})
      BY <1>1, <3>1, TableReturn, Zenon
    <3>3. Schedule(rs, p, engines_used, job, rx)
      BY <2>2, Zenon DEF Return
    <3> HIDE DEF rs
    <3>4. Rescheduled(rs, procs')
      BY <1>1, <3>2, <3>3, ScheduleTable, Zenon
    <3>5. Kept(procs, procs', {}, {})
      BY <3>2, <3>4, KeptRescheduled, Zenon
    <3> QED
      BY <1>1, <1>3, <3>5, Zenon DEF Kept
  <2>3. CASE /\ \E i \in children : procs[i].state # "ZOMBIE"
             /\ Schedule(ps, p, engines_used, job, rx)
    <3>1. r \in Proc /\ r.wait_pid = pid /\ r.prog = procs[p].prog
      BY <1>1, Zenon DEF Proc, States
    <3>2. ps = [procs EXCEPT ![p] = r]
      BY <1>1, Zenon DEF Table
    <3> HIDE DEF r
    <3>3. Table(ps) /\ ps[p] = r
      <4>1. procs[p].prog \in Programs
        BY <1>1, Zenon DEF Table, Alive
      <4> QED
        BY <1>1, <3>1, <3>2, <4>1, TableEdit, ZenonT(30) DEF Table
    <3> HIDE DEF ps
    <3>4. Rescheduled(ps, procs')
      BY <1>1, <2>3, <3>3, ScheduleTable, Zenon
    <3>5. procs'[p].wait_pid = pid
      BY <3>1, <3>3, <3>4, Zenon DEF Rescheduled, Proc
    <3>6. PICK c \in Entries : /\ Alive(procs, c) /\ procs[c].pid = pid
                               /\ procs[c].parent = procs[p].pid
      BY <2>3, Zenon DEF Children, Alive
    <3> QED
      BY <1>2, <3>5, <3>6, Zenon DEF Same, Waits
  <2> QED
    BY <2>1, <2>2, <2>3, Zenon
<1> QED
  BY <1>2, <1>3, SameKeeps DEF EndsInv

\* Every other step but a start and an end keeps the processes and begins no wait.
LEMMA OthersSame ==
    ASSUME TypeInv, [Next]_vars,
           ~\E p \in Entries : Wait(p) \/ Spawn(p) \/ Exit(p) \/ Fault(p) \/ EngineFault(p)
    PROVE  Same(procs, procs', {})
<1>1. ASSUME procs' = procs
      PROVE  Same(procs, procs', {})
  BY <1>1, Zenon DEF Same, Alive
<1>2. ASSUME NEW p \in Entries,
             \/ OtherCall(p) \/ WritePalette(p) \/ SpawnRefused(p) \/ ReadConsole(p)
             \/ Present(p) \/ Yield(p) \/ Sleep(p) \/ WriteFile(p) \/ CopyOut(p)
      PROVE  Same(procs, procs', {})
  BY <1>2, PlainCallStep, ReadConsoleStep, PresentStep, YieldSleepStep, WriteFileStep,
     CopyOutStep, KeptSame, Zenon
<1>3. ASSUME NEW p \in Entries, Open(p) \/ Create(p) \/ Close(p)
      PROVE  Same(procs, procs', {})
  BY <1>3, OpenStep, CloseStep, KeptSame, Zenon
<1>4. ASSUME \/ \E p \in Entries : Halt(p) \/ SpawnFaults(p) \/ StartJob(p) \/ Access(p)
             \/ JobDone \/ ConsoleInput \/ Halted \/ UNCHANGED vars
      PROVE  procs' = procs
  BY <1>4, Zenon DEF Halt, Stop, SpawnFaults, StoreFaults, StartJob, Access, JobDone, ConsoleInput,
     Halted, vars, procVars
<1>5. CASE TimerInterrupt \/ ExternalInterrupt \/ TimePasses
  BY <1>5, InterruptStep, TimePassesStep, KeptSame, Zenon
<1>6. ASSUME NEW i \in Entries, NEW fs
      PROVE  LET q == [procs[i] EXCEPT !.fs = fs]
             IN  /\ q.pid = procs[i].pid /\ q.parent = procs[i].parent
                 /\ q.state = procs[i].state /\ q.wait_pid = procs[i].wait_pid
  <2>1. procs[i] \in Proc
    BY TypeParts, Zenon DEF Table
  <2> QED
    BY <2>1, Zenon DEF Proc
<1>7. ASSUME NEW p \in Entries, ClaimFpu(p)
      PROVE  Same(procs, procs', {})
  <2>1. procs' = HandedOver(p) \/ Rescheduled(HandedOver(p), procs')
    BY <1>7, ClaimFpuStep, Zenon DEF ClaimFpu, Stop
  <2>2. Same(procs, HandedOver(p), {})
    BY <1>6, Zenon DEF HandedOver, Same, Alive
  <2>3. procs' = HandedOver(p) \/ Same(HandedOver(p), procs', {})
    BY <2>1, HandedOverTable, RescheduledSame, Zenon
  <2> QED
    BY <2>2, <2>3, Zenon DEF Same
<1>8. ASSUME NEW p \in Entries, FloatWrite(p)
      PROVE  Same(procs, procs', {})
  <2>1. procs' = [procs EXCEPT ![p].fs = "Dirty"] /\ Table(procs)
    BY <1>8, TypeParts, Zenon DEF FloatWrite
  <2> QED
    BY <1>6, <2>1 DEF Table, Same, Alive
<1> QED
  BY <1>1, <1>2, <1>3, <1>4, <1>5, <1>7, <1>8, Zenon DEF Next

\* A new process has a parent with another pid, and disturbs nobody.
LEMMA SpawnKeeps ==
    ASSUME TypeInv, SpaceInv, EndsInv, NEW p \in Entries, Spawn(p)
    PROVE  /\ Awaited(procs') /\ NotOwnParent(procs')
           /\ Claimed(procs) => Claimed(procs')
           /\ \A i \in Entries : Alive(procs, i) =>
                 Alive(procs', i) /\ procs'[i].pid = procs[i].pid
<1>1. PICK g \in Programs, e \in FreeEntries(procs) :
          Rescheduled([procs EXCEPT ![e] = NewProc(g, next_pid, procs[p].pid)], procs')
  BY SpawnStep, Zenon
<1> DEFINE n == NewProc(g, next_pid, procs[p].pid)
           ps == [procs EXCEPT ![e] = n]
<1>2. /\ Table(procs) /\ e \in Entries /\ procs[e].state = "FREE"
      /\ n \in Proc /\ n.prog = g
  BY TypeParts, NewProcType, Zenon DEF FreeEntries, Spawn
<1>3. n.pid = next_pid /\ n.parent = procs[p].pid /\ n.state = "READY"
  BY Zenon DEF NewProc
<1>4. procs[p].pid # next_pid
  <2>1. Alive(procs, p) /\ next_pid \in Nat
    <3>1. Alive(procs, p)
      BY DoesAlive, Zenon DEF Spawn
    <3>2. next_pid \in Nat
      BY KernelAssumption, SMT DEF TypeInv, TypeOK
    <3> QED
      BY <3>1, <3>2, Zenon
  <2> QED
    BY <2>1 DEF SpaceInv, PidsIn
<1> HIDE DEF n
<1>5. Table(ps) /\ Rescheduled(ps, procs')
  BY <1>1, <1>2, TableEdit, Zenon DEF n
<1>6. \A i \in Entries : ps[i] = IF i = e THEN n ELSE procs[i]
  BY <1>2, Zenon DEF Table
<1> HIDE DEF ps
<1>7. Awaited(ps)
  <2> SUFFICES ASSUME NEW i \in Entries, ps[i].state = "BLOCKED_WAIT"
               PROVE  Waits(ps, i)
    BY Zenon DEF Awaited
  <2>1. i # e /\ ps[i] = procs[i]
    BY <1>3, <1>6, Zenon
  <2>2. PICK c \in Entries : /\ Alive(procs, c) /\ procs[c].pid = procs[i].wait_pid
                             /\ procs[c].parent = procs[i].pid
    BY <2>1, Zenon DEF EndsInv, Awaited, Waits
  <2> QED
    BY <1>2, <1>6, <2>1, <2>2, Zenon DEF Waits, Alive
<1>8. NotOwnParent(ps)
  BY <1>3, <1>4, <1>6, Zenon DEF EndsInv, NotOwnParent, Alive
<1>9. ASSUME Claimed(procs) PROVE Claimed(ps)
  <2> SUFFICES ASSUME NEW i \in Entries, ps[i].state = "ZOMBIE"
               PROVE  Parents(ps, i) # {}
    BY Zenon DEF Claimed
  <2>1. i # e /\ procs[i].state = "ZOMBIE"
    BY <1>3, <1>6, Zenon
  <2>2. PICK k \in Entries : Alive(procs, k) /\ procs[k].pid = procs[i].parent
    BY <1>9, <2>1, Zenon DEF Claimed, Parents
  <2> QED
    BY <1>2, <1>6, <2>1, <2>2, Zenon DEF Parents, Alive
<1>10. Same(ps, procs', {})
  BY <1>5, RescheduledSame, Zenon
<1>11. /\ Awaited(procs') /\ NotOwnParent(procs')
       /\ Claimed(ps) => Claimed(procs')
  BY <1>7, <1>8, <1>10, SameKeeps
<1>12. \A i \in Entries : Alive(procs, i) => Alive(procs', i) /\ procs'[i].pid = procs[i].pid
  BY <1>2, <1>6, <1>10, Zenon DEF Same, Alive
<1> QED
  BY <1>9, <1>11, <1>12, Zenon

\* finish() frees p's zombie children only.
LEMMA ReapedKeeps ==
    ASSUME NEW ps, Table(ps), Awaited(ps), NotOwnParent(ps), NEW p \in Entries, Alive(ps, p)
    PROVE  /\ Same(ps, Reaped(ps, p), {})
           /\ \A i \in Entries : Reaped(ps, p)[i].state = "ZOMBIE" =>
                 ps[i].state = "ZOMBIE" /\ ps[i].parent # ps[p].pid
<1>1. ASSUME NEW i \in Entries
      PROVE  LET q == Reaped(ps, p)[i]
             IN  /\ q.pid = ps[i].pid /\ q.parent = ps[i].parent /\ q.wait_pid = ps[i].wait_pid
                 /\ \/ q.state = ps[i].state
                    \/ q.state = "FREE" /\ ps[i].state = "ZOMBIE"
                 /\ q.state = "ZOMBIE" => ps[i].state = "ZOMBIE" /\ ps[i].parent # ps[p].pid
  <2>1. ps[i] \in Proc /\ ps[p] \in Proc /\ ps[p].state # "ZOMBIE"
    BY Zenon DEF Table, Alive
  <2>2. CASE i = p
    BY <2>1, <2>2, Zenon DEF Reaped, Proc
  <2>3. CASE i # p /\ ps[i].state = "ZOMBIE" /\ ps[i].parent = ps[p].pid
    BY <2>1, <2>3, Zenon DEF Reaped, Proc
  <2>4. CASE i # p /\ ~(ps[i].state = "ZOMBIE" /\ ps[i].parent = ps[p].pid)
    BY <2>1, <2>4, Zenon DEF Reaped
  <2> QED
    BY <2>2, <2>3, <2>4, Zenon
<1> QED
  BY <1>1, Zenon DEF Same, Alive

\* finish() wakes the parent that waits for p, and leaves p a zombie only for a parent
\* that lives on.
LEMMA FinishedKeeps ==
    ASSUME NEW ps, Table(ps), Awaited(ps), NotOwnParent(ps), Claimed(ps),
           NEW p \in Entries, ps[p].state = "RUNNING"
    PROVE  LET qs == Finished(ps, p)
           IN  /\ Awaited(qs) /\ NotOwnParent(qs) /\ Claimed(qs)
               /\ \A i \in Entries \ {p} : Alive(ps, i) => Alive(qs, i) /\ qs[i].pid = ps[i].pid
<1> DEFINE rs == Reaped(ps, p)
           qs == Finished(ps, p)
           parents == Parents(rs, p)
<1>1. Same(ps, rs, {}) /\ \A i \in Entries : rs[i].state = "ZOMBIE" =>
                              ps[i].state = "ZOMBIE" /\ ps[i].parent # ps[p].pid
  BY ReapedKeeps, Zenon DEF Alive
<1>2. rs \in [Entries -> Proc] /\ rs[p].state = "RUNNING" /\ rs[p].pid = ps[p].pid
  <2>1. rs \in [Entries -> Proc] /\ ps[p] \in Proc
    BY FinishedTable, Zenon DEF Table
  <2> QED
    BY <2>1, Zenon DEF Reaped, Proc
<1>3. Awaited(rs) /\ NotOwnParent(rs)
  BY <1>1, SameKeeps
<1>4. ASSUME NEW i \in Entries
      PROVE  /\ qs[i].pid = rs[i].pid /\ qs[i].parent = rs[i].parent
             /\ qs[i].wait_pid = rs[i].wait_pid
             /\ qs[i].state = IF i = p
                              THEN IF parents = {} THEN "FREE" ELSE "ZOMBIE"
                              ELSE IF /\ i \in parents
                                      /\ rs[i].state = "BLOCKED_WAIT"
                                      /\ rs[i].wait_pid = ps[p].pid
                              THEN "READY"
                              ELSE rs[i].state
  <2>1. rs[i] \in Proc
    BY <1>2, Zenon
  <2>2. qs[i] = [rs[i] EXCEPT !.state = qs[i].state]
    BY <1>2, <2>1, Zenon DEF Finished, Proc
  <2>3. qs[i].state = IF i = p
                      THEN IF parents = {} THEN "FREE" ELSE "ZOMBIE"
                      ELSE IF /\ i \in parents
                              /\ rs[i].state = "BLOCKED_WAIT"
                              /\ rs[i].wait_pid = ps[p].pid
                      THEN "READY"
                      ELSE rs[i].state
    BY <1>2, <2>1, Zenon DEF Finished, Proc
  <2> HIDE DEF rs, qs, parents
  <2> QED
    BY <2>1, <2>2, <2>3, Zenon DEF Proc
<1> HIDE DEF rs, qs
<1>5. \A i \in Entries : Alive(qs, i) <=> i # p /\ Alive(rs, i)
  BY <1>4, Zenon DEF Alive
<1>6. Awaited(qs)
  <2> SUFFICES ASSUME NEW i \in Entries, qs[i].state = "BLOCKED_WAIT"
               PROVE  Waits(qs, i)
    BY Zenon DEF Awaited
  <2>1. /\ i # p /\ rs[i].state = "BLOCKED_WAIT"
        /\ ~(i \in parents /\ rs[i].wait_pid = ps[p].pid)
    BY <1>4, Zenon
  <2>2. PICK c \in Entries : /\ Alive(rs, c) /\ rs[c].pid = rs[i].wait_pid
                             /\ rs[c].parent = rs[i].pid
    BY <1>3, <2>1, Zenon DEF Awaited, Waits
  <2>3. c # p
    BY <1>2, <2>1, <2>2, Zenon DEF Parents, Alive
  <2> QED
    BY <1>4, <1>5, <2>2, <2>3, Zenon DEF Waits
<1>7. NotOwnParent(qs)
  BY <1>3, <1>4, <1>5, Zenon DEF NotOwnParent
<1>8. Claimed(qs)
  <2> SUFFICES ASSUME NEW i \in Entries, qs[i].state = "ZOMBIE"
               PROVE  Parents(qs, i) # {}
    BY Zenon DEF Claimed
  <2>1. CASE i = p
    <3>1. PICK k \in Entries : Alive(rs, k) /\ rs[k].pid = rs[p].parent
      BY <1>4, <2>1, Zenon DEF Parents
    <3>2. k # p
      BY <1>2, <1>3, <3>1, Zenon DEF NotOwnParent
    <3> QED
      BY <1>4, <1>5, <2>1, <3>1, <3>2, Zenon DEF Parents
  <2>2. CASE i # p
    <3>1. rs[i].state = "ZOMBIE"
      BY <1>4, <2>2, Zenon
    <3>2. PICK k \in Entries : Alive(ps, k) /\ ps[k].pid = ps[i].parent
      BY <1>1, <3>1, Zenon DEF Claimed, Parents
    <3>3. k # p
      BY <1>1, <3>1, <3>2, Zenon
    <3> QED
      BY <1>1, <1>4, <1>5, <3>2, <3>3 DEF Parents, Same
  <2> QED
    BY <2>1, <2>2, Zenon
<1>9. \A i \in Entries \ {p} : Alive(ps, i) => Alive(qs, i) /\ qs[i].pid = ps[i].pid
  BY <1>1, <1>4, <1>5, Zenon DEF Same
<1> QED
  BY <1>6, <1>7, <1>8, <1>9, Zenon DEF qs

\* finish() ends p, and its colours with it.
LEMMA FinishKeeps ==
    ASSUME TypeInv, EndsInv, NEW p \in Entries, NEW c, Does(p, c), Finish(p)
    PROVE  EndsInv'
<1>1. /\ Table(procs) /\ procs[p].state = "RUNNING" /\ Alive(procs, p) /\ halted = "no"
      /\ Awaited(procs) /\ NotOwnParent(procs) /\ Claimed(procs) /\ PaletteOwned
  BY DoesAlive, TypeParts, Zenon DEF EndsInv
<1>2. CASE procs' = Reaped(procs, p) /\ halted' = "halt"
  <2>1. Same(procs, Reaped(procs, p), {})
    BY <1>1, ReapedKeeps, Zenon
  <2>2. Awaited(procs') /\ NotOwnParent(procs')
    BY <1>1, <1>2, <2>1, SameKeeps
  <2> QED
    BY <1>2, <2>2, Zenon DEF EndsInv
<1>3. CASE Rescheduled(Finished(procs, p), procs')
  <2> DEFINE qs == Finished(procs, p)
  <2>1. /\ Awaited(qs) /\ NotOwnParent(qs) /\ Claimed(qs)
        /\ \A i \in Entries \ {p} : Alive(procs, i) => Alive(qs, i) /\ qs[i].pid = procs[i].pid
    BY <1>1, FinishedKeeps, Zenon
  <2>2. Table(qs)
    BY <1>1, FinishedTable, Zenon
  <2> HIDE DEF qs
  <2>3. Same(qs, procs', {})
    BY <1>3, <2>2, RescheduledSame, Zenon DEF qs
  <2>4. Awaited(procs') /\ NotOwnParent(procs') /\ Claimed(procs')
    BY <2>1, <2>3, SameKeeps
  <2>5. PaletteOwned'
    <3> SUFFICES ASSUME palette' = "custom"
                 PROVE  \E i \in Entries : Alive(procs', i) /\ procs'[i].pid = palette_writer'
      BY Zenon DEF PaletteOwned
    <3>1. UNCHANGED paletteVars /\ palette_writer # procs[p].pid
      BY Zenon DEF Finish, RestorePalette
    <3>2. PICK i \in Entries : Alive(procs, i) /\ procs[i].pid = palette_writer
      BY <1>1, <3>1, Zenon DEF PaletteOwned, paletteVars
    <3> QED
      BY <2>1, <2>3, <3>1, <3>2, Zenon DEF Same, paletteVars
  <2> QED
    BY <2>4, <2>5, Zenon DEF EndsInv
<1>4. (procs' = Reaped(procs, p) /\ halted' = "halt") \/ halted' = halted
  BY Zenon DEF Finish, Stop
<1> QED
  BY <1>1, <1>2, <1>3, <1>4, FinishStep, Zenon

\* Only SYS_PALETTE and finish() change the colours.
LEMMA ColoursKept ==
    ASSUME [Next]_vars,
           ~\E p \in Entries : WritePalette(p) \/ Exit(p) \/ Fault(p) \/ EngineFault(p)
    PROVE  UNCHANGED paletteVars
<1>1. ASSUME NEW p \in Entries,
             \/ OtherCall(p) \/ ReadConsole(p) \/ Present(p) \/ Yield(p) \/ Sleep(p) \/ Wait(p)
             \/ Halt(p) \/ Spawn(p) \/ SpawnRefused(p)
      PROVE  UNCHANGED paletteVars
  BY <1>1, Zenon DEF OtherCall, ReadConsole, Present, Yield, Sleep, Wait, Halt, Spawn,
     SpawnRefused
<1>2. ASSUME NEW p \in Entries,
             \/ SpawnFaults(p) \/ Open(p) \/ Create(p) \/ WriteFile(p) \/ Close(p)
             \/ ClaimFpu(p) \/ FloatWrite(p) \/ StartJob(p) \/ CopyOut(p) \/ Access(p)
      PROVE  UNCHANGED paletteVars
  BY <1>2, Zenon DEF SpawnFaults, StoreFaults, Open, Create, WriteFile, Close, ClaimFpu,
     FloatWrite, StartJob, CopyOut, Access
<1>3. ASSUME \/ JobDone \/ TimerInterrupt \/ ExternalInterrupt \/ ConsoleInput \/ TimePasses
             \/ Halted \/ UNCHANGED vars
      PROVE  UNCHANGED paletteVars
  BY <1>3, Zenon DEF JobDone, TimerInterrupt, ExternalInterrupt, ConsoleInput, TimePasses,
     Halted, vars
<1> QED
  BY <1>1, <1>2, <1>3, Zenon DEF Next

\* The machine does not start again.
LEMMA StaysHalted ==
    ASSUME [Next]_vars, halted' = "no"
    PROVE  halted = "no"
<1>1. CASE Quiet
  BY <1>1, QuietFpu, Zenon
<1>2. CASE ~Quiet
  BY <1>2, NextCases, Zenon DEF Does, Spawn, ClaimFpu, FloatWrite
<1> QED
  BY <1>1, <1>2, Zenon

\* EndsInv holds after every step.
LEMMA EndsNext ==
    ASSUME TypeInv, SpaceInv, EndsInv, [Next]_vars
    PROVE  EndsInv'
<1>1. ASSUME /\ Awaited(procs') /\ NotOwnParent(procs')
             /\ Claimed(procs) => Claimed(procs'),
             \A i \in Entries : Alive(procs, i) =>
                 Alive(procs', i) /\ procs'[i].pid = procs[i].pid,
             \/ UNCHANGED paletteVars
             \/ \E p \in Entries : Alive(procs, p) /\ palette_writer' = procs[p].pid
      PROVE  EndsInv'
  <2> SUFFICES ASSUME halted' = "no" PROVE Claimed(procs') /\ PaletteOwned'
    BY <1>1, Zenon DEF EndsInv
  <2>1. Claimed(procs) /\ PaletteOwned
    BY StaysHalted, Zenon DEF EndsInv
  <2>2. PaletteOwned'
    BY <1>1, <2>1, Zenon DEF PaletteOwned, paletteVars
  <2> QED
    BY <1>1, <2>1, <2>2, Zenon
<1>2. CASE \E p \in Entries : Exit(p) \/ Fault(p) \/ EngineFault(p)
  BY <1>2, FinishKeeps, Zenon DEF Exit, Fault, EngineFault
<1>3. CASE ~\E p \in Entries : Exit(p) \/ Fault(p) \/ EngineFault(p)
  <2>1. \/ UNCHANGED paletteVars
        \/ \E p \in Entries : Alive(procs, p) /\ palette_writer' = procs[p].pid
    <3>1. ASSUME NEW p \in Entries, WritePalette(p)
          PROVE  Alive(procs, p) /\ palette_writer' = procs[p].pid
      BY <3>1, DoesAlive, Zenon DEF WritePalette
    <3> QED
      BY <1>3, <3>1, ColoursKept, Zenon
  <2>2. ASSUME NEW p \in Entries, Wait(p)
        PROVE  /\ Awaited(procs') /\ NotOwnParent(procs')
               /\ Claimed(procs) => Claimed(procs')
               /\ \A i \in Entries : Alive(procs, i) =>
                     Alive(procs', i) /\ procs'[i].pid = procs[i].pid
    <3>1. Kept(procs, procs', {p}, {})
      BY <2>2, WaitStep, Zenon
    <3> QED
      BY <2>2, <3>1, WaitKeeps, Zenon DEF Kept
  <2>3. CASE ~\E p \in Entries : Wait(p) \/ Spawn(p)
    <3>1. Same(procs, procs', {})
      BY <1>3, <2>3, OthersSame, Zenon
    <3>2. /\ Awaited(procs') /\ NotOwnParent(procs')
          /\ Claimed(procs) => Claimed(procs')
      BY <3>1, SameKeeps DEF EndsInv
    <3>3. \A i \in Entries : Alive(procs, i) =>
              Alive(procs', i) /\ procs'[i].pid = procs[i].pid
      BY <3>1, Zenon DEF Same
    <3> QED
      BY <1>1, <2>1, <3>2, <3>3, Zenon
  <2>4. ASSUME NEW p \in Entries, Spawn(p)
        PROVE  EndsInv'
    BY <1>1, <2>1, <2>4, SpawnKeeps, Zenon
  <2> QED
    BY <1>1, <2>1, <2>2, <2>3, <2>4, Zenon
<1> QED
  BY <1>2, <1>3, Zenon

\* However processes end and in whatever order, one that waits waits for a child that is
\* alive, a zombie has a live parent to wait for it, and custom colours are a live
\* process's (SYS_WAIT, SYS_PALETTE, finish()).
THEOREM EndsStaySettled == Spec => []EndsSettled
<1>1. Init => EndsInv
  <2> SUFFICES ASSUME Init PROVE EndsInv
    BY Zenon
  <2>1. ASSUME NEW i \in Entries
        PROVE  IF i = 0
               THEN procs[i].state = "RUNNING" /\ procs[i].pid = 1 /\ procs[i].parent = 0
               ELSE procs[i].state = "FREE"
    BY Zenon DEF Init, FreeProc, NewProc
  <2>2. palette = "boot"
    BY Zenon DEF Init
  <2> QED
    BY <2>1, <2>2 DEF EndsInv, Awaited, NotOwnParent, Claimed, PaletteOwned, Alive
<1>2. TypeInv /\ SpaceInv /\ EndsInv /\ [Next]_vars => EndsInv'
  BY EndsNext, Zenon
<1>3. EndsInv => EndsSettled
  BY Zenon DEF EndsInv, EndsSettled, Awaited, Waits, Claimed, PaletteOwned
<1> QED
  BY <1>1, <1>2, <1>3, TypeInvariant, SpaceInvariant, PTL DEF Spec

=============================================================================
