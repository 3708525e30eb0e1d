---------------------------- MODULE PagingProofs ----------------------------
(***************************************************************************)
(* The address spaces the kernel sets up, for every number of pages,       *)
(* tables and slots and for every device tree the kernel accepts: a range  *)
(* a program may name lies in its own pages, the page tables never run     *)
(* out, and user mode reaches what its process is given and nothing else.  *)
(***************************************************************************)
EXTENDS Paging, Induction, FiniteSetTheorems, TLAPS

-----------------------------------------------------------------------------
(* The slots: heap, guard page and user_range(). *)

\* The table's entries.
Processes == [state : {"FREE", "READY", "RUNNING", "ZOMBIE"}, pid : Nat, base : Nat, span : Nat,
              flags : SUBSET {"accelerators"}, brk : Nat]

\* A process p whose guard page is at g: the heap ends below the guard page, the guard
\* page inside the slots, and the slots before the end of the space.
LaidOut(p, g) ==
    /\ g \in Nat
    /\ p.base <= p.brk /\ p.brk <= g
    /\ g + Fan <= p.base + p.span
    /\ p.base + p.span < Space

\* Every live process is laid out around its guard page, and every program was accepted.
PagingInv ==
    /\ procs \in [Entries -> Processes]
    /\ DOMAIN spaces = Entries
    /\ next_pid \in Nat
    /\ tree.found => \A m \in RamDisk : entry_ok(m)
    /\ \A e \in Entries : procs[e].state # "FREE" => LaidOut(procs[e], spaces[e].guard)

\* Division by a positive number.
LEMMA Quotient ==
    ASSUME NEW x \in Nat, NEW a \in Nat \ {0}
    PROVE  /\ x \div a \in Nat
           /\ x % a \in 0 .. a - 1
           /\ x = (x \div a) * a + (x % a)
  OBVIOUS

\* A value rounded up stays below every multiple that is above it.
LEMMA RoundedUp ==
    ASSUME NEW x \in Nat, NEW a \in Nat \ {0}, NEW k \in Int, x <= k * a
    PROVE  /\ ((x + a - 1) \div a) * a \in Nat
           /\ x <= ((x + a - 1) \div a) * a /\ ((x + a - 1) \div a) * a <= k * a
<1> DEFINE y == x + a - 1
           q == y \div a
           r == y % a
<1>1. y \in Nat /\ y < x + a
  OBVIOUS
<1>2. q \in Nat /\ y = q * a + r /\ r \in 0 .. a - 1
  BY <1>1, Quotient, Zenon
<1>3. x = q * a + r - a + 1
  <2> HIDE DEF q, r
  <2> QED
    BY <1>2
<1> HIDE DEF q, r, y
<1>4. q * a \in Nat /\ k * a \in Int
  BY <1>2
<1>5. x <= q * a
  BY <1>2, <1>3, <1>4
<1>6. CASE q <= k
  <2>1. PICK d \in Nat : k = q + d
    BY <1>2, <1>6
  <2>2. k * a = q * a + d * a /\ d * a \in Nat
    BY <1>2, <2>1
  <2> QED
    BY <1>4, <1>5, <2>2 DEF q, y
<1>7. CASE q > k
  <2>1. PICK d \in Nat : q = k + 1 + d
    <3>1. q - k - 1 \in Nat /\ q = k + 1 + (q - k - 1)
      BY <1>2, <1>7
    <3> QED
      BY <3>1, Zenon
  <2>2. q * a = k * a + a + d * a /\ d * a \in Nat
    BY <1>2, <2>1
  <2>3. FALSE
    BY <1>2, <1>3, <1>4, <2>2
  <2> QED
    BY <2>3, Zenon
<1> QED
  BY <1>2, <1>6, <1>7

\* A multiple is a product.
LEMMA Multiple ==
    ASSUME NEW x \in Nat, NEW a \in Nat \ {0}, x % a = 0
    PROVE  \E k \in Nat : x = k * a
<1>1. x \div a \in Nat /\ x = (x \div a) * a
  BY Quotient
<1> QED
  BY <1>1, Zenon

\* A multiple of b is one of a when b is.
LEMMA Through ==
    ASSUME NEW x \in Nat, NEW b \in Nat \ {0}, NEW a \in Nat \ {0}, x % b = 0, b % a = 0
    PROVE  \E k \in Nat : x = k * a
<1>1. PICK i \in Nat : x = i * b
  BY Multiple, Zenon
<1>2. PICK j \in Nat : b = j * a
  BY Multiple, Zenon
<1>3. x = (i * j) * a /\ i * j \in Nat
  BY <1>1, <1>2
<1> QED
  BY <1>3, Zenon

\* What PagingAssumption says of the layout of memory.
LEMMA Constants ==
    /\ Fan \in Nat \ {0} /\ Align \in Nat \ {0} /\ SlotSize \in Nat \ {0} /\ SlotBase \in Nat
    /\ Slots * SlotSize \in Nat /\ Space \in Nat /\ Fan <= Space
    /\ Fan % Align = 0 /\ SlotBase % Fan = 0 /\ SlotSize % Fan = 0
    /\ SlotBase + Slots * SlotSize < Space
<1>1. /\ Fan \in Nat \ {0} /\ Align \in Nat \ {0} /\ SlotSize \in Nat \ {0} /\ SlotBase \in Nat /\ Slots \in Nat
      /\ Fan % Align = 0 /\ SlotBase % Fan = 0 /\ SlotSize % Fan = 0
      /\ SlotBase + Slots * SlotSize < Space
  BY PagingAssumption
<1>2. Slots * SlotSize \in Nat
  BY <1>1
<1>3. Space \in Nat /\ Fan <= Space
  <2>1. Fan * Fan \in Nat /\ Fan * Fan >= 1
    BY <1>1
  <2>2. (Fan * Fan) * Fan \in Nat /\ (Fan * Fan) * Fan >= Fan
    BY <1>1, <2>1
  <2> QED
    BY <2>2, Zenon DEF Space
<1> QED
  BY <1>1, <1>2, <1>3, Zenon

\* The break and the guard page of a program whose header was accepted (entry_ok()).
LEMMA ImageLaidOut ==
    ASSUME NEW m \in RamDisk \cup Images, entry_ok(m)
    PROVE  LET g == m.load + m.span - m.stack
               brk == ((m.load + m.memory_size + Align - 1) \div Align) * Align
           IN  /\ m.load \in Nat /\ m.span \in Nat /\ g \in Nat /\ brk \in Nat
               /\ m.load <= brk /\ brk <= g
               /\ g + Fan <= m.load + m.span
               /\ m.load + m.span < Space
<1> DEFINE l == m.load
           s == m.span
           t == m.stack
           z == m.memory_size
           w == Slots * SlotSize
           o == l - SlotBase
<1>1. l \in Nat /\ s \in Nat /\ t \in Nat /\ z \in Nat
  BY PagingAssumption, Zenon
<1>2. /\ s % SlotSize = 0 /\ s <= w /\ l >= SlotBase /\ o % SlotSize = 0 /\ l <= SlotBase + w - s
      /\ t % Fan = 0 /\ t >= 2 * Fan /\ t < s /\ z <= s - t
  BY Zenon DEF entry_ok
<1> HIDE DEF l, s, t, z, w
<1>3. w \in Nat /\ SlotBase + w < Space /\ Space \in Nat
  BY Constants, Zenon DEF w
<1>4. o \in Nat
  BY <1>1, <1>2, Constants
<1>5. PICK a \in Nat : SlotBase = a * Align
  BY Constants, Through, Zenon
<1>6. PICK b \in Nat : SlotSize = b * Align
  BY Constants, Through, ZenonT(30)
<1>7. PICK c \in Nat : o = c * Align
  <2>1. PICK i \in Nat : o = i * SlotSize
    BY <1>2, <1>4, Constants, Multiple, Zenon
  <2>2. o = (i * b) * Align /\ i * b \in Nat
    BY <1>6, <2>1, Constants
  <2> QED
    BY <2>2, Zenon
<1>8. PICK d \in Nat : s = d * Align
  <2>1. PICK i \in Nat : s = i * SlotSize
    BY <1>1, <1>2, Constants, Multiple, Zenon
  <2>2. s = (i * b) * Align /\ i * b \in Nat
    BY <1>6, <2>1, Constants
  <2> QED
    BY <2>2, Zenon
<1>9. PICK e \in Nat : t = e * Align
  BY <1>1, <1>2, Constants, Through, ZenonT(30)
<1> HIDE DEF o
<1>10. l + s - t = (a + c + d - e) * Align /\ a + c + d - e \in Int
  <2>1. l = SlotBase + o
    BY <1>1, Constants DEF o
  <2> QED
    BY <1>5, <1>7, <1>8, <1>9, <2>1, Constants
<1>11. l + z \in Nat /\ l + z <= l + s - t /\ l + s - t \in Nat /\ l + s - t + Fan <= l + s /\ l + s < Space
  BY <1>1, <1>2, <1>3, Constants
<1> DEFINE r == ((l + z + Align - 1) \div Align) * Align
<1>12. r \in Nat /\ l + z <= r /\ r <= l + s - t
  <2>1. l + z <= (a + c + d - e) * Align
    BY <1>10, <1>11, Zenon
  <2>2. r \in Nat /\ l + z <= r /\ r <= (a + c + d - e) * Align
    BY <1>10, <1>11, <2>1, RoundedUp, Constants, Zenon
  <2> QED
    BY <1>10, <2>2, Zenon
<1> HIDE DEF r
<1>13. l <= r
  BY <1>1, <1>12
<1> QED
  BY <1>1, <1>11, <1>12, <1>13, Zenon DEF r, l, s, t, z

\* The entry spawn() takes.
LEMMA FreeOne ==
    ASSUME FreeEntry # {}
    PROVE  Min(FreeEntry) \in Entries /\ procs[Min(FreeEntry)].state = "FREE"
<1>1. FreeEntry \subseteq Nat
  BY DEF FreeEntry, Entries
<1>2. \E n \in FreeEntry : \A k \in FreeEntry : n <= k
  BY <1>1, LeastNat, Zenon
<1>3. Min(FreeEntry) \in FreeEntry
  BY <1>2, Zenon DEF Min
<1> QED
  BY <1>3, Zenon DEF FreeEntry

\* A program that starts: only its entry changes, and it is laid out.
LEMMA StartsKeeps ==
    ASSUME PagingInv, NEW m \in RamDisk \cup Images, tree.found, Starts(m), UNCHANGED tree
    PROVE  PagingInv'
<1> DEFINE e == Min(FreeEntry)
           g == m.load + m.span - m.stack
           b == ((m.load + m.memory_size + Align - 1) \div Align) * Align
           p == [state |-> "READY", pid |-> next_pid, base |-> m.load, span |-> m.span,
                 flags |-> m.flags, brk |-> b]
<1>1. entry_ok(m)
  BY Zenon DEF Starts, PagingInv
<1>2. e \in Entries
  BY FreeOne, Zenon DEF Starts
<1>3. /\ procs' = [procs EXCEPT ![e] = p] /\ next_pid' = next_pid + 1
  BY Zenon DEF Starts, spawn
<1>4. /\ DOMAIN spaces' = Entries /\ spaces'[e].guard = g
      /\ \A i \in Entries : i # e => spaces'[i] = spaces[i]
  <2> DEFINE sp == [tables |-> spaces[e].tables, base |-> m.load, span |-> m.span, guard |-> g,
                    drives_engines |-> "accelerators" \in m.flags]
             n == map_process(e, sp).tables
  <2>1. spaces' = [spaces EXCEPT ![e] = [sp EXCEPT !.tables = n]]
    BY Zenon DEF Starts, spawn
  <2> HIDE DEF n
  <2>2. [sp EXCEPT !.tables = n].guard = g
    BY Zenon
  <2> HIDE DEF sp
  <2> QED
    BY <1>2, <2>1, <2>2, Zenon DEF PagingInv
<1>5. /\ m.load \in Nat /\ m.span \in Nat /\ g \in Nat /\ b \in Nat
      /\ m.load <= b /\ b <= g /\ g + Fan <= m.load + m.span /\ m.load + m.span < Space
  BY <1>1, ImageLaidOut, Zenon
<1>6. m.flags \in SUBSET {"accelerators"}
  BY <1>1, Zenon DEF entry_ok
<1> HIDE DEF g, b, e
<1>7. p \in Processes /\ LaidOut(p, g)
  BY <1>5, <1>6, Zenon DEF Processes, LaidOut, PagingInv
<1> HIDE DEF p
<1>8. procs' \in [Entries -> Processes] /\ procs'[e] = p /\ \A i \in Entries : i # e => procs'[i] = procs[i]
  BY <1>2, <1>3, <1>7, Zenon DEF PagingInv
<1>9. next_pid' \in Nat
  BY <1>3 DEF PagingInv
<1>10. ASSUME NEW i \in Entries, procs'[i].state # "FREE" PROVE LaidOut(procs'[i], spaces'[i].guard)
  <2>1. CASE i = e
    BY <1>4, <1>7, <1>8, <2>1, Zenon
  <2>2. CASE i # e
    BY <1>4, <1>8, <1>10, <2>2, Zenon DEF PagingInv
  <2> QED
    BY <2>1, <2>2, Zenon
<1>11. (tree.found => \A k \in RamDisk : entry_ok(k))'
  BY Zenon DEF PagingInv, entry_ok
<1>12. (\A i \in Entries : procs[i].state # "FREE" => LaidOut(procs[i], spaces[i].guard))'
  BY <1>10, Zenon DEF LaidOut
<1> QED
  BY <1>4, <1>8, <1>9, <1>11, <1>12, Zenon DEF PagingInv

\* A step that changes of the entries only their states and frees some.
LEMMA StatesKeep ==
    ASSUME PagingInv, procs' \in [Entries -> Processes],
           \A i \in Entries : procs'[i].state # "FREE" =>
              /\ procs[i].state # "FREE"
              /\ procs'[i].base = procs[i].base /\ procs'[i].span = procs[i].span /\ procs'[i].brk = procs[i].brk,
           UNCHANGED <<tree, spaces, next_pid>>
    PROVE  PagingInv'
<1>1. ASSUME NEW i \in Entries, procs'[i].state # "FREE" PROVE LaidOut(procs'[i], spaces'[i].guard)
  BY <1>1, Zenon DEF PagingInv, LaidOut
<1>2. (tree.found => \A k \in RamDisk : entry_ok(k))'
  BY Zenon DEF PagingInv, entry_ok
<1>3. (\A i \in Entries : procs[i].state # "FREE" => LaidOut(procs[i], spaces[i].guard))'
  BY <1>1, Zenon DEF LaidOut
<1> QED
  BY <1>2, <1>3, Zenon DEF PagingInv

\* Wrapping a value that is small, or once too large.
LEMMA ModSmall ==
    ASSUME NEW s \in Nat \ {0}, NEW y \in 0 .. s - 1
    PROVE  y % s = y /\ (y + s) % s = y
  OBVIOUS

\* SYS_SBRK: the room below the guard page is not wrapped.
LEMMA SbrkKeeps ==
    ASSUME PagingInv, NEW e \in Entries, NEW n \in Increments, Sbrk(e, n)
    PROVE  PagingInv'
<1> DEFINE b == procs[e].brk
           g == spaces[e].guard
           c == (b + n) % Space
<1>1. /\ procs[e].state # "FREE" /\ procs[e] \in Processes /\ LaidOut(procs[e], g)
  BY Zenon DEF Sbrk, Calls, PagingInv
<1>2. /\ procs[e].base \in Nat /\ procs[e].span \in Nat /\ b \in Nat /\ g \in Nat
      /\ procs[e].base <= b /\ b <= g /\ g + Fan <= procs[e].base + procs[e].span
      /\ procs[e].base + procs[e].span < Space
  BY <1>1, Zenon DEF Processes, LaidOut
<1>3. n \in Nat /\ n <= (g + Space - b) % Space /\ procs' = [procs EXCEPT ![e].brk = c]
      /\ UNCHANGED <<tree, spaces, next_pid>>
  BY PagingAssumption, Constants DEF Sbrk, guard_of
<1> HIDE DEF b, g
<1>4. Space \in Nat \ {0} /\ g - b \in 0 .. Space - 1 /\ g + Space - b = (g - b) + Space
  BY <1>2, Constants
<1>5. n <= g - b
  <2>1. (g + Space - b) % Space = g - b
    BY <1>4, ModSmall, Zenon
  <2> QED
    BY <1>3, <2>1, Zenon
<1>6. c = b + n /\ c \in Nat /\ procs[e].base <= c /\ c <= g
  <2>1. b + n \in 0 .. Space - 1
    BY <1>2, <1>3, <1>5, Constants
  <2>2. (b + n) % Space = b + n
    BY <1>4, <2>1, ModSmall, Zenon
  <2> QED
    BY <1>2, <1>3, <1>5, <2>2
<1> HIDE DEF c
<1> DEFINE q == [procs[e] EXCEPT !.brk = c]
<1>7. /\ q \in Processes /\ q.brk = c /\ q.base = procs[e].base /\ q.span = procs[e].span
  BY <1>1, <1>6, Zenon DEF Processes
<1>8. LaidOut(q, g)
  BY <1>2, <1>6, <1>7, Zenon DEF LaidOut
<1> HIDE DEF q
<1>9. procs' \in [Entries -> Processes] /\ procs'[e] = q /\ \A i \in Entries : i # e => procs'[i] = procs[i]
  BY <1>3, <1>7, Zenon DEF PagingInv, q
<1>10. ASSUME NEW i \in Entries, procs'[i].state # "FREE" PROVE LaidOut(procs'[i], spaces'[i].guard)
  <2>1. CASE i = e
    BY <1>3, <1>8, <1>9, <2>1, Zenon DEF g
  <2>2. CASE i # e
    BY <1>3, <1>9, <1>10, <2>2, Zenon DEF PagingInv
  <2> QED
    BY <2>1, <2>2, Zenon
<1>11. (tree.found => \A k \in RamDisk : entry_ok(k))'
  BY <1>3, Zenon DEF PagingInv, entry_ok
<1>12. (\A i \in Entries : procs[i].state # "FREE" => LaidOut(procs[i], spaces[i].guard))'
  BY <1>10, Zenon DEF LaidOut
<1> QED
  BY <1>3, <1>9, <1>11, <1>12, Zenon DEF PagingInv

\* A reaped entry.
LEMMA NobodyIs == Nobody \in Processes /\ Nobody.state = "FREE"
BY Zenon DEF Nobody, Processes

\* A program that ends leaves a zombie, and a reaped entry is nobody's.
LEMMA EndKeeps ==
    ASSUME PagingInv, NEW e \in Entries, Finish(e) \/ Reap(e)
    PROVE  PagingInv'
<1> DEFINE z == [procs[e] EXCEPT !.state = "ZOMBIE"]
<1>1. procs[e] \in Processes /\ procs[e].state # "FREE" /\ UNCHANGED <<tree, spaces, next_pid>>
  BY Zenon DEF PagingInv, Finish, Reap, Calls
<1>2. procs' = [procs EXCEPT ![e] = z] \/ procs' = [procs EXCEPT ![e] = Nobody]
  BY Zenon DEF Finish, Reap
<1>3. z \in Processes /\ z.base = procs[e].base /\ z.span = procs[e].span /\ z.brk = procs[e].brk
  BY <1>1, Zenon DEF Processes
<1> HIDE DEF z
<1>4. /\ procs' \in [Entries -> Processes] /\ (procs'[e] = z \/ procs'[e] = Nobody)
      /\ \A i \in Entries : i # e => procs'[i] = procs[i]
  BY <1>2, <1>3, NobodyIs, Zenon DEF PagingInv
<1> QED
  BY <1>1, <1>3, <1>4, NobodyIs, StatesKeep, Zenon

\* schedule() and protect() change states and registers only.
LEMMA ScheduleKeeps ==
    ASSUME PagingInv, NEW e \in Entries, Schedule(e)
    PROVE  PagingInv'
<1>1. UNCHANGED <<tree, spaces, next_pid>> /\ procs[e].state = "READY"
  BY Zenon DEF Schedule
<1>2. ASSUME NEW i \in Entries
      PROVE  /\ procs'[i] \in Processes
             /\ procs'[i].state # "FREE" => procs[i].state # "FREE"
             /\ procs'[i].base = procs[i].base /\ procs'[i].span = procs[i].span /\ procs'[i].brk = procs[i].brk
  <2> DEFINE r == [procs[i] EXCEPT !.state = "RUNNING"]
             q == [procs[i] EXCEPT !.state = "READY"]
  <2>1. procs[i] \in Processes
    BY Zenon DEF PagingInv
  <2>2. /\ r \in Processes /\ r.base = procs[i].base /\ r.span = procs[i].span /\ r.brk = procs[i].brk
        /\ q \in Processes /\ q.base = procs[i].base /\ q.span = procs[i].span /\ q.brk = procs[i].brk
    BY <2>1, Zenon DEF Processes
  <2> HIDE DEF r, q
  <2>3. \/ procs'[i] = r /\ i = e
        \/ procs'[i] = q /\ procs[i].state = "RUNNING"
        \/ procs'[i] = procs[i]
    BY Zenon DEF Schedule, r, q
  <2> QED
    BY <1>1, <2>1, <2>2, <2>3, Zenon
<1>3. procs' \in [Entries -> Processes]
  <2>1. DOMAIN procs' = Entries /\ procs' = [i \in Entries |-> procs'[i]]
    BY Zenon DEF Schedule
  <2> QED
    BY <1>2, <2>1, Zenon
<1> QED
  BY <1>1, <1>2, <1>3, StatesKeep, Zenon

\* At power-on the table is empty.
LEMMA PagingInitInv ==
    ASSUME PagingInit
    PROVE  PagingInv
<1>1. procs \in [Entries -> Processes] /\ \A e \in Entries : procs[e].state = "FREE"
  BY NobodyIs, Zenon DEF PagingInit
<1>2. DOMAIN spaces = Entries /\ next_pid \in Nat /\ ~tree.found
  BY Zenon DEF PagingInit
<1> QED
  BY <1>1, <1>2, Zenon DEF PagingInv

\* Boot() goes on only with programs that pass.
LEMMA BootKeeps ==
    ASSUME PagingInv, Boot
    PROVE  PagingInv'
<1>1. UNCHANGED <<procs, spaces, next_pid>>
  BY Zenon DEF Boot
<1>2. (tree.found => \A m \in RamDisk : entry_ok(m))'
  <2>1. ~tree.found /\ (tree' = tree \/ \A m \in RamDisk : entry_ok(m))
    BY Zenon DEF Boot
  <2> QED
    BY <2>1, Zenon DEF entry_ok
<1>3. (\A i \in Entries : procs[i].state # "FREE" => LaidOut(procs[i], spaces[i].guard))'
  BY <1>1, Zenon DEF PagingInv, LaidOut
<1> QED
  BY <1>1, <1>2, <1>3, Zenon DEF PagingInv

\* Every step of the kernel keeps the layout.
LEMMA PagingStep ==
    ASSUME PagingInv, [PagingNext]_pagingVars
    PROVE  PagingInv'
<1>1. CASE Boot
  BY <1>1, BootKeeps, Zenon
<1>2. CASE StartShell
  <2>1. Shell \in RamDisk \cup Images /\ tree.found /\ Starts(Shell) /\ UNCHANGED tree
    BY <1>2, PagingAssumption, Zenon DEF StartShell, Up
  <2> QED
    BY <2>1, StartsKeeps, Zenon
<1>3. ASSUME NEW e \in Entries, Schedule(e) PROVE PagingInv'
  BY <1>3, ScheduleKeeps, Zenon
<1>4. ASSUME NEW e \in Entries, NEW m \in Images, Spawn(e, m) PROVE PagingInv'
  <2>1. m \in RamDisk \cup Images /\ tree.found /\ Starts(m) /\ UNCHANGED tree
    BY <1>4, Zenon DEF Spawn, Calls, Up
  <2> QED
    BY <2>1, StartsKeeps, Zenon
<1>5. ASSUME NEW e \in Entries, NEW n \in Increments, Sbrk(e, n) PROVE PagingInv'
  BY <1>5, SbrkKeeps, Zenon
<1>6. ASSUME NEW e \in Entries, Finish(e) \/ Reap(e) PROVE PagingInv'
  BY <1>6, EndKeeps, Zenon
<1>7. CASE UNCHANGED pagingVars
  <2>1. UNCHANGED <<tree, procs, spaces, next_pid>>
    BY <1>7, Zenon DEF pagingVars
  <2> QED
    BY <2>1, Zenon DEF PagingInv, LaidOut, entry_ok
<1> QED
  BY <1>1, <1>2, <1>3, <1>4, <1>5, <1>6, <1>7, Zenon DEF PagingNext

\* user_range() in a process that is laid out.
LEMMA RangeIsOwn ==
    ASSUME NEW e \in Entries, procs[e] \in Processes, LaidOut(procs[e], spaces[e].guard),
           NEW a \in 0 .. Space - 1, NEW n \in (0 .. Space - 1) \ {0}
    PROVE  user_range(e, a, n) <=> (a .. (a + n - 1)) \subseteq Own(e)
<1> DEFINE b == procs[e].base
           s == procs[e].span
           g == spaces[e].guard
           top == a + n
<1>1. /\ b \in Nat /\ s \in Nat /\ g \in Nat /\ b <= g /\ g + Fan <= b + s /\ b + s < Space
      /\ a \in Nat /\ n \in Nat /\ n > 0 /\ Space \in Nat \ {0} /\ Fan \in Nat \ {0}
      /\ top \in Nat /\ top = a + n /\ a + n - 1 = top - 1
  BY Constants DEF Processes, LaidOut
<1>2. user_range(e, a, n) <=> /\ a >= b /\ n <= s /\ a - b <= s - n
                              /\ ~(n > 0 /\ a < g + Fan /\ top % Space > g)
  BY Zenon DEF user_range, guard_of
<1>3. Own(e) = (b .. (b + s - 1)) \ (g .. (g + Fan - 1))
  BY Zenon DEF Own, guard_of
<1> HIDE DEF b, s, g, top
<1>4. ASSUME top <= b + s PROVE top % Space = top
  <2>1. top \in 0 .. Space - 1
    BY <1>1, <1>4
  <2> QED
    BY <1>1, <2>1, ModSmall, Zenon
<1>5. ASSUME user_range(e, a, n) PROVE (a .. (top - 1)) \subseteq Own(e)
  <2>1. a >= b /\ top <= b + s
    BY <1>1, <1>2, <1>5
  <2>2. a >= g + Fan \/ top <= g
    BY <1>1, <1>2, <1>4, <1>5, <2>1
  <2> QED
    BY <1>1, <1>3, <2>1, <2>2
<1>6. ASSUME (a .. (top - 1)) \subseteq Own(e) PROVE user_range(e, a, n)
  <2>1. a \in Own(e) /\ top - 1 \in Own(e)
    BY <1>1, <1>6
  <2>2. a >= b /\ top <= b + s
    BY <1>1, <1>3, <2>1
  <2>3. ASSUME a < g + Fan, top > g PROVE FALSE
    <3>1. CASE a >= g
      BY <1>1, <1>3, <2>1, <2>3, <3>1
    <3>2. CASE a < g
      <4>1. g \in a .. (top - 1)
        BY <1>1, <2>3, <3>2
      <4>2. g \notin Own(e)
        BY <1>1, <1>3
      <4> QED
        BY <1>6, <4>1, <4>2, Zenon
    <3> QED
      BY <1>1, <3>1, <3>2
  <2> QED
    BY <1>1, <1>2, <1>4, <2>2, <2>3
<1> QED
  BY <1>1, <1>5, <1>6, Zenon

\* The kernel accepts a program's buffer exactly when every word of it is one the
\* program itself may touch, and the heap never reaches the guard page: for every slot
\* layout, every image and every pointer, length and increment a program passes
\* (user_range(), SYS_SBRK, entry_ok()).
THEOREM UserMemoryIsBounded ==
    PagingInit /\ [][PagingNext]_pagingVars => []UserMemoryBounded
<1>1. ASSUME PagingInv PROVE UserMemoryBounded
  <2> SUFFICES ASSUME NEW e \in Entries, procs[e].state # "FREE"
               PROVE  /\ procs[e].brk \in procs[e].base .. guard_of(e)
                      /\ \A a \in Probes, n \in Probes \ {0} :
                            user_range(e, a, n) <=> (a .. (a + n - 1)) \subseteq Own(e)
    BY Zenon DEF UserMemoryBounded
  <2>1. procs[e] \in Processes /\ LaidOut(procs[e], spaces[e].guard)
    BY <1>1, Zenon DEF PagingInv
  <2>2. procs[e].brk \in procs[e].base .. guard_of(e)
    BY <2>1 DEF LaidOut, Processes, guard_of
  <2>3. Probes \subseteq 0 .. Space - 1
    BY PagingAssumption, Zenon
  <2> QED
    BY <2>1, <2>2, <2>3, RangeIsOwn, Zenon
<1> QED
  BY <1>1, PagingInitInv, PagingStep, PTL

-----------------------------------------------------------------------------
(* Quotients and pages. *)

\* A quotient is the only one with a remainder below the divisor.
LEMMA DivUnique ==
    ASSUME NEW a \in Nat \ {0}, NEW x \in Nat, NEW q \in Int, NEW r \in 0 .. a - 1, x = q * a + r
    PROVE  x \div a = q /\ x % a = r
<1> DEFINE p == x \div a
           s == x % a
<1>1. p \in Nat /\ s \in 0 .. a - 1 /\ x = p * a + s
  BY Quotient, Zenon
<1> HIDE DEF p, s
<1>2. CASE p > q
  <2>1. PICK d \in Nat : p = q + 1 + d
    <3>1. p - q - 1 \in Nat /\ p = q + 1 + (p - q - 1)
      BY <1>1, <1>2
    <3> QED
      BY <3>1, Zenon
  <2>2. p * a = q * a + a + d * a /\ d * a \in Nat /\ q * a \in Int
    BY <1>1, <2>1
  <2>3. FALSE
    BY <1>1, <2>2
  <2> QED
    BY <2>3, Zenon
<1>3. CASE p < q
  <2>1. PICK d \in Nat : q = p + 1 + d
    <3>1. q - p - 1 \in Nat /\ q = p + 1 + (q - p - 1)
      BY <1>1, <1>3
    <3> QED
      BY <3>1, Zenon
  <2>2. q * a = p * a + a + d * a /\ d * a \in Nat /\ p * a \in Int
    BY <1>1, <2>1
  <2>3. FALSE
    BY <1>1, <2>2
  <2> QED
    BY <2>3, Zenon
<1>4. CASE p = q
  <2>1. s = r
    BY <1>1, <1>4
  <2> QED
    BY <1>4, <2>1, Zenon DEF p, s
<1> QED
  BY <1>1, <1>2, <1>3, <1>4

\* Products keep the order.
LEMMA ProductOrder ==
    ASSUME NEW a \in Nat, NEW x \in Int, NEW y \in Int, x <= y
    PROVE  x * a <= y * a /\ x * a \in Int /\ y * a \in Int
<1>1. PICK d \in Nat : y = x + d
  <2>1. y - x \in Nat /\ y = x + (y - x)
    OBVIOUS
  <2> QED
    BY <2>1, Zenon
<1>2. y * a = x * a + d * a /\ d * a \in Nat /\ x * a \in Int
  BY <1>1
<1> QED
  BY <1>2

\* Quotients keep the order.
LEMMA DivOrder ==
    ASSUME NEW a \in Nat \ {0}, NEW x \in Nat, NEW y \in Nat, x <= y
    PROVE  x \div a <= y \div a
<1> DEFINE p == x \div a
           q == y \div a
<1>1. /\ p \in Nat /\ x % a \in 0 .. a - 1 /\ x = p * a + (x % a)
      /\ q \in Nat /\ y % a \in 0 .. a - 1 /\ y = q * a + (y % a)
  BY Quotient, Zenon
<1> HIDE DEF p, q
<1>2. CASE q + 1 <= p
  <2>1. (q + 1) * a <= p * a /\ (q + 1) * a = q * a + a /\ q * a \in Int /\ p * a \in Int
    BY <1>1, <1>2, ProductOrder
  <2> QED
    BY <1>1, <2>1
<1> QED
  BY <1>1, <1>2 DEF p, q

\* A word below b pages is on one of them.
LEMMA DivBelow ==
    ASSUME NEW a \in Nat \ {0}, NEW b \in Nat, NEW x \in Nat, x < b * a
    PROVE  x \div a \in 0 .. b - 1
<1> DEFINE p == x \div a
<1>1. p \in Nat /\ x % a \in 0 .. a - 1 /\ x = p * a + (x % a)
  BY Quotient, Zenon
<1> HIDE DEF p
<1>2. CASE b <= p
  <2>1. b * a <= p * a /\ b * a \in Int /\ p * a \in Int
    BY <1>1, <1>2, ProductOrder
  <2> QED
    BY <1>1, <2>1
<1> QED
  BY <1>1, <1>2 DEF p

\* The region of an address is the region of its page.
LEMMA DivTwice ==
    ASSUME NEW a \in Nat \ {0}, NEW x \in Nat
    PROVE  (x \div a) \div a = x \div (a * a)
<1> DEFINE p == x \div a
           q == p \div a
           r == p % a
           s == x % a
<1>1. p \in Nat /\ s \in 0 .. a - 1 /\ x = p * a + s
  BY Quotient, Zenon
<1> HIDE DEF p, s
<1>2. q \in Nat /\ r \in 0 .. a - 1 /\ p = q * a + r
  BY <1>1, Quotient, Zenon
<1> HIDE DEF q, r
<1>3. x = q * (a * a) + (r * a + s)
  BY <1>1, <1>2
<1>4. a * a \in Nat \ {0} /\ r * a + s \in 0 .. (a * a) - 1
  <2>1. r * a <= (a - 1) * a /\ r * a \in Int
    BY <1>2, ProductOrder
  <2>2. (a - 1) * a = a * a - a /\ a * a \in Nat \ {0} /\ 0 <= r * a
    BY <1>2
  <2> QED
    BY <1>1, <2>1, <2>2
<1>5. x \div (a * a) = q
  BY <1>2, <1>3, <1>4, DivUnique
<1> QED
  BY <1>5, Zenon DEF p, q

\* The pages of [start, end) are those from start's that begin below end.
LEMMA PagesOfIs ==
    ASSUME NEW start \in Nat, NEW end \in Nat
    PROVE  /\ PageCount(start, end) \in Nat
           /\ PagesOf(start, end) = {p \in Nat : start \div Fan <= p /\ p * Fan < end}
<1> DEFINE f == start \div Fan
           l == (end - 1) \div Fan
           c == PageCount(start, end)
<1>1. Fan \in Nat \ {0} /\ f \in Nat /\ f * Fan \in Nat
  <2>1. Fan \in Nat \ {0} /\ f \in Nat
    BY Constants, Quotient, Zenon
  <2> QED
    BY <2>1
<1>2. CASE end <= f * Fan
  <2>1. c = 0
    BY <1>2, Zenon DEF PageCount
  <2>2. ASSUME NEW p \in Nat, f <= p, p * Fan < end PROVE FALSE
    <3>1. f * Fan <= p * Fan /\ p * Fan \in Int
      BY <1>1, <2>2, ProductOrder
    <3> QED
      BY <1>1, <1>2, <2>2, <3>1
  <2>3. PagesOf(start, end) = {}
    BY <1>1, <2>1 DEF PagesOf
  <2> QED
    BY <2>1, <2>2, <2>3
<1>3. CASE ~(end <= f * Fan)
  <2>1. c = l - f + 1 /\ end - 1 \in Nat /\ f * Fan <= end - 1
    BY <1>1, <1>3 DEF PageCount
  <2>2. l \in Nat /\ (end - 1) % Fan \in 0 .. Fan - 1 /\ end - 1 = l * Fan + ((end - 1) % Fan) /\ l * Fan \in Nat
    <3>1. l \in Nat /\ (end - 1) % Fan \in 0 .. Fan - 1 /\ end - 1 = l * Fan + ((end - 1) % Fan)
      <4> DEFINE y == end - 1
      <4>1. y \in Nat
        BY <2>1, Zenon
      <4> HIDE DEF y
      <4>2. y \div Fan \in Nat /\ y % Fan \in 0 .. Fan - 1 /\ y = (y \div Fan) * Fan + (y % Fan)
        BY <1>1, <4>1, Quotient, Zenon
      <4> QED
        BY <4>2, Zenon DEF y
    <3> HIDE DEF l
    <3> QED
      BY <1>1, <3>1
  <2> HIDE DEF l, f, c
  <2>3. \A p \in Nat : p <= l <=> p * Fan < end
    <3> SUFFICES ASSUME NEW p \in Nat PROVE p <= l <=> p * Fan < end
      BY Zenon
    <3>1. CASE p <= l
      <4>1. p * Fan <= l * Fan /\ p * Fan \in Int
        BY <1>1, <2>2, <3>1, ProductOrder
      <4> QED
        BY <1>1, <2>1, <2>2, <3>1, <4>1
    <3>2. CASE l + 1 <= p
      <4>1. (l + 1) * Fan <= p * Fan /\ p * Fan \in Int /\ (l + 1) * Fan = l * Fan + Fan
        BY <1>1, <2>2, <3>2, ProductOrder
      <4> QED
        BY <1>1, <2>1, <2>2, <3>2, <4>1
    <3> QED
      BY <2>2, <3>1, <3>2
  <2>4. f <= l
    <3>1. f <= l <=> f * Fan < end
      BY <1>1, <2>3, Zenon
    <3> QED
      BY <1>1, <1>3, <3>1
  <2>5. c \in Nat /\ f + (c - 1) = l
    BY <1>1, <2>1, <2>2, <2>4
  <2>6. PagesOf(start, end) = f .. l
    BY <2>5, Zenon DEF PagesOf, c, f
  <2>7. f .. l = {p \in Nat : f <= p /\ p <= l}
    BY <1>1, <2>2
  <2>8. f .. l = {p \in Nat : f <= p /\ p * Fan < end}
    BY <2>3, <2>7, Zenon
  <2> QED
    BY <2>5, <2>6, <2>8, Zenon DEF f, c
<1> QED
  BY <1>2, <1>3, Zenon

\* A word of a range of whole pages is a word of one of its pages.
LEMMA Aligned ==
    ASSUME NEW start \in Nat, NEW end \in Nat, start % Fan = 0, end % Fan = 0, NEW w \in Nat
    PROVE  w \div Fan \in PagesOf(start, end) <=> start <= w /\ w < end
<1> DEFINE p == w \div Fan
<1>1. /\ Fan \in Nat \ {0} /\ p \in Nat /\ w % Fan \in 0 .. Fan - 1 /\ w = p * Fan + (w % Fan)
      /\ start \div Fan \in Nat /\ start = (start \div Fan) * Fan
      /\ end \div Fan \in Nat /\ end = (end \div Fan) * Fan
  <2>1. Fan \in Nat \ {0}
    BY Constants, Zenon
  <2>2. p \in Nat /\ w % Fan \in 0 .. Fan - 1 /\ w = p * Fan + (w % Fan)
    BY <2>1, Quotient, Zenon
  <2>3. start \div Fan \in Nat /\ start = (start \div Fan) * Fan + (start % Fan)
    BY <2>1, Quotient, Zenon
  <2>4. end \div Fan \in Nat /\ end = (end \div Fan) * Fan + (end % Fan)
    BY <2>1, Quotient, Zenon
  <2> HIDE DEF p
  <2>5. start = (start \div Fan) * Fan
    BY <2>1, <2>3
  <2>6. end = (end \div Fan) * Fan
    BY <2>1, <2>4
  <2> QED
    BY <2>1, <2>2, <2>3, <2>4, <2>5, <2>6, Zenon
<1> DEFINE f == start \div Fan
           l == end \div Fan
<1>2. p \in PagesOf(start, end) <=> f <= p /\ p * Fan < end
  BY <1>1, PagesOfIs, ZenonT(30)
<1> HIDE DEF p, f, l
<1>3. p * Fan \in Nat /\ f * Fan \in Nat
  BY <1>1 DEF f
<1>4. f <= p => start <= w
  <2> SUFFICES ASSUME f <= p PROVE start <= w
    BY Zenon
  <2>1. f * Fan <= p * Fan
    BY <1>1, ProductOrder DEF f
  <2> QED
    BY <1>1, <1>3, <2>1 DEF f
<1>5. start <= w => f <= p
  BY <1>1, DivOrder, Zenon DEF f, p
<1>6. p * Fan < end => w < end
  <2> SUFFICES ASSUME p * Fan < end PROVE w < end
    BY Zenon
  <2>1. CASE l <= p
    <3>1. l * Fan <= p * Fan
      BY <1>1, <2>1, ProductOrder DEF l
    <3> QED
      BY <1>1, <1>3, <3>1 DEF l
  <2>2. CASE p + 1 <= l
    <3>1. (p + 1) * Fan <= l * Fan /\ (p + 1) * Fan = p * Fan + Fan
      BY <1>1, <2>2, ProductOrder DEF l
    <3> QED
      BY <1>1, <1>3, <3>1 DEF l
  <2> QED
    BY <1>1, <2>1, <2>2 DEF l
<1>7. w < end => p * Fan < end
  BY <1>1, <1>3
<1> QED
  BY <1>2, <1>4, <1>5, <1>6, <1>7, Zenon DEF p

\* A page of [start, end) is in one of the regions check_page_table_budget() counts.
LEMMA PageRegion ==
    ASSUME NEW start \in Nat, NEW end \in Nat, NEW p \in PagesOf(start, end)
    PROVE  /\ p \in Nat /\ end > 0
           /\ p \div Fan \in (start \div (Fan * Fan)) .. ((end - 1) \div (Fan * Fan))
           /\ end <= Space => p \in 0 .. (Fan * Fan) - 1 /\ p \div Fan \in 0 .. Fan - 1
<1>1. /\ Fan \in Nat \ {0} /\ p \in Nat /\ start \div Fan <= p /\ p * Fan < end /\ p * Fan \in Nat
  <2>1. PagesOf(start, end) = {q \in Nat : start \div Fan <= q /\ q * Fan < end}
    BY PagesOfIs, Zenon
  <2>2. p \in Nat /\ start \div Fan <= p /\ p * Fan < end
    BY <2>1, Zenon
  <2>3. Fan \in Nat \ {0}
    BY Constants, Zenon
  <2> QED
    BY <2>2, <2>3
<1>2. end - 1 \in Nat /\ p * Fan <= end - 1 /\ end > 0
  BY <1>1
<1>3. (p * Fan) \div Fan = p
  BY <1>1, DivUnique
<1>4. p <= (end - 1) \div Fan /\ (end - 1) \div Fan \in Nat /\ start \div Fan \in Nat
  BY <1>1, <1>2, <1>3, DivOrder, Quotient, ZenonT(30)
<1>5. (start \div Fan) \div Fan <= p \div Fan /\ p \div Fan <= ((end - 1) \div Fan) \div Fan
  BY <1>1, <1>4, DivOrder, Zenon
<1>6. /\ (start \div Fan) \div Fan = start \div (Fan * Fan)
      /\ ((end - 1) \div Fan) \div Fan = (end - 1) \div (Fan * Fan)
      /\ p \div Fan \in Nat /\ (start \div Fan) \div Fan \in Nat /\ ((end - 1) \div Fan) \div Fan \in Nat
  BY <1>1, <1>2, <1>4, DivTwice, Quotient, Zenon
<1>7. ASSUME end <= Space PROVE p \in 0 .. (Fan * Fan) - 1 /\ p \div Fan \in 0 .. Fan - 1
  <2>1. Fan * Fan \in Nat /\ (Fan * Fan) * Fan = Space
    BY <1>1 DEF Space
  <2>2. p * Fan < (Fan * Fan) * Fan
    BY <1>1, <1>7, <2>1, Constants
  <2>3. (p * Fan) \div Fan \in 0 .. (Fan * Fan) - 1
    BY <1>1, <2>1, <2>2, DivBelow, Zenon
  <2>4. p < Fan * Fan
    BY <1>1, <1>3, <2>1, <2>3
  <2> QED
    BY <1>1, <1>3, <2>3, <2>4, DivBelow, Zenon
<1> QED
  BY <1>1, <1>2, <1>5, <1>6, <1>7

\* An entry's tables are its own.
LEMMA TablePageIs ==
    ASSUME NEW e \in Entries, NEW k \in 0 .. PageTables - 1
    PROVE  /\ TablePage(e, k) \in TablesStart .. TablesEnd - 1
           /\ \A f \in Entries, l \in 0 .. PageTables - 1 : TablePage(e, k) = TablePage(f, l) => e = f /\ k = l
<1>1. /\ MaxProcs \in Nat /\ PageTables \in Nat \ {0} /\ TablesStart \in Nat /\ e \in Nat /\ e <= MaxProcs - 1
  BY TreesAssumption DEF Entries
<1>2. e * PageTables <= (MaxProcs - 1) * PageTables
          /\ (MaxProcs - 1) * PageTables = MaxProcs * PageTables - PageTables
      /\ MaxProcs * PageTables \in Nat /\ e * PageTables \in Nat
  BY <1>1, ProductOrder
<1>3. TablePage(e, k) \in TablesStart .. TablesEnd - 1
  BY <1>1, <1>2 DEF TablePage, TablesEnd
<1>4. ASSUME NEW f \in Entries, NEW l \in 0 .. PageTables - 1, TablePage(e, k) = TablePage(f, l)
          PROVE e = f /\ k = l
  <2>1. f \in Nat /\ f * PageTables \in Nat
    <3>1. f \in Nat
      BY <1>1 DEF Entries
    <3> QED
      BY <1>1, <3>1
  <2> DEFINE x == e * PageTables + k
  <2>2. x = f * PageTables + l /\ x \in Nat
    BY <1>1, <1>2, <1>4, <2>1 DEF TablePage
  <2>3. x \div PageTables = f /\ x % PageTables = l
    BY <1>1, <2>1, <2>2, DivUnique
  <2>4. x \div PageTables = e /\ x % PageTables = k
    <3> HIDE DEF x
    <3>1. x = e * PageTables + k
      BY Zenon DEF x
    <3> QED
      BY <1>1, <2>2, <3>1, DivUnique
  <2> QED
    BY <2>3, <2>4, Zenon
<1> QED
  BY <1>3, <1>4, Zenon

-----------------------------------------------------------------------------
(* The tables of an entry, and one leaf of map(). *)

\* What a PTE may grant; entries of tables, tables, and the state of map().
Rights == {"R", "W", "X"}
Ptes == [bits : SUBSET {"V", "R", "W", "X", "U", "A", "D"}, ppn : Nat]
TablePages == TablesStart .. TablesEnd - 1
Words == [0 .. Fan - 1 -> Ptes]
Accs == [ram : [TablePages -> Words], tables : Nat, full : BOOLEAN]
Pages == 0 .. (Fan * Fan) - 1

\* A root entry for table k of entry e, and the root's entries in use.
PointerTo(e, k) == [bits |-> {"V"}, ppn |-> TablePage(e, k)]
Root(e, r, i) == r[TablePage(e, 0)][i]
Used(e, r) == {i \in 0 .. Fan - 1 : Root(e, r, i) # Invalid}

\* Entry e's first t tables: the root, and one for each region of R in use.
Built(e, R, r, t) ==
    /\ t \in 1 .. PageTables
    /\ \A i \in Used(e, r) : \E k \in 1 .. t - 1 : Root(e, r, i) = PointerTo(e, k)
    /\ \A i, j \in Used(e, r) : Root(e, r, i) = Root(e, r, j) => i = j
    /\ Used(e, r) \subseteq R
    /\ Cardinality(Used(e, r)) = t - 1

Good(e, R, a) == a \in Accs /\ ~a.full /\ Built(e, R, a.ram, a.tables)

\* The places of an entry's tables in the pool.
LEMMA Places ==
    ASSUME NEW t \in 1 .. PageTables
    PROVE  /\ 0 \in 0 .. PageTables - 1 /\ PageTables \in Nat
           /\ \A k \in 1 .. t - 1 : k \in 0 .. PageTables - 1
BY TreesAssumption

\* The walk refuses an entry that was never filled.
LEMMA InvalidRefused == Malformed(Invalid)
BY Zenon DEF Malformed, Invalid

\* What the tables say of a page, and what map() writes for it.
Mapped(e, r, p) == IF Root(e, r, p \div Fan) = Invalid THEN Invalid ELSE r[Root(e, r, p \div Fan).ppn][p % Fan]
TableView(e, r) == [p \in Pages |-> Mapped(e, r, p)]
LeafOf(rights, p) == IF rights = {} THEN Invalid ELSE [bits |-> rights \cup {"V", "U", "A", "D"}, ppn |-> p]

\* The tables of the other entries are as they were.
OthersKept(e, r, s) == \A f \in Entries, k \in 0 .. PageTables - 1 :
    f # e => s[TablePage(f, k)] = r[TablePage(f, k)]

\* The two ways map() changes the tables.
Written(a, table, i, leaf) == [a EXCEPT !.ram[table][i] = leaf]
Extended(e, a, page, leaf) ==
    [a EXCEPT !.tables = @ + 1,
              !.ram[TablePage(e, a.tables)] = [Empty EXCEPT ![page % Fan] = leaf],
              !.ram[TablePage(e, 0)][page \div Fan] = PointerTo(e, a.tables)]

\* Regions that fit the budget.
Fits(R) == R \subseteq 0 .. Fan - 1 /\ Cardinality(R) <= PageTables - 1

\* A page is its place in the root and its place in a table.
LEMMA PageParts ==
    ASSUME NEW p \in Pages
    PROVE  /\ p \in Nat /\ p \div Fan \in 0 .. Fan - 1 /\ p % Fan \in 0 .. Fan - 1
           /\ \A q \in Pages : p \div Fan = q \div Fan /\ p % Fan = q % Fan => p = q
<1>1. Fan \in Nat \ {0} /\ Fan * Fan \in Nat
  <2>1. Fan \in Nat \ {0}
    BY Constants, Zenon
  <2> QED
    BY <2>1
<1>2. \A q \in Pages : q \in Nat /\ q < Fan * Fan
  BY <1>1 DEF Pages
<1>3. \A q \in Pages : q % Fan \in 0 .. Fan - 1 /\ q = (q \div Fan) * Fan + (q % Fan)
  BY <1>1, <1>2, Quotient, Zenon
<1>4. p \div Fan \in 0 .. Fan - 1
  BY <1>1, <1>2, DivBelow, Zenon
<1> QED
  BY <1>2, <1>3, <1>4, Zenon

\* What is written into the tables is a PTE.
LEMMA PteTypes ==
    /\ Invalid \in Ptes /\ Empty \in Words /\ \A i \in 0 .. Fan - 1 : Empty[i] = Invalid
    /\ \A e \in Entries, k \in 0 .. PageTables - 1 :
          PointerTo(e, k) \in Ptes /\ PointerTo(e, k) # Invalid /\ PointerTo(e, k).ppn = TablePage(e, k)
    /\ \A rights \in SUBSET Rights, p \in Nat : LeafOf(rights, p) \in Ptes
<1>1. Invalid \in Ptes
  BY Zenon DEF Invalid, Ptes
<1>2. Empty \in Words /\ \A i \in 0 .. Fan - 1 : Empty[i] = Invalid
  BY <1>1, Zenon DEF Empty, Words
<1>3. ASSUME NEW e \in Entries, NEW k \in 0 .. PageTables - 1
      PROVE  PointerTo(e, k) \in Ptes /\ PointerTo(e, k) # Invalid /\ PointerTo(e, k).ppn = TablePage(e, k)
  <2>1. TablePage(e, k) \in Nat
    <3>1. TablePage(e, k) \in TablesStart .. TablesEnd - 1 /\ TablesStart \in Nat
      BY TablePageIs, TreesAssumption, Zenon
    <3> HIDE DEF TablesEnd, TablePage
    <3> QED
      BY <3>1
  <2> HIDE DEF TablePage
  <2>2. PointerTo(e, k).bits = {"V"} /\ Invalid.bits = {}
    BY Zenon DEF PointerTo, Invalid
  <2> QED
    BY <2>1, <2>2, Zenon DEF PointerTo, Ptes
<1>4. ASSUME NEW rights \in SUBSET Rights, NEW p \in Nat PROVE LeafOf(rights, p) \in Ptes
  BY <1>1, Zenon DEF LeafOf, Ptes, Rights
<1> QED
  BY <1>1, <1>2, <1>3, <1>4, Zenon

\* An entry's tables are among the tables.
LEMMA TableIn ==
    ASSUME NEW e \in Entries, NEW k \in 0 .. PageTables - 1
    PROVE  TablePage(e, k) \in TablePages
BY TablePageIs, Zenon DEF TablePages

\* Regions within the budget are finitely many.
LEMMA RegionsFinite ==
    ASSUME NEW R, Fits(R)
    PROVE  /\ IsFiniteSet(R) /\ Cardinality(R) \in Nat
           /\ \A Q \in SUBSET R : IsFiniteSet(Q) /\ Cardinality(Q) \in Nat /\ Cardinality(Q) <= Cardinality(R)
<1>1. Fan \in Nat /\ Fan - 1 \in Int
  BY Constants
<1>2. IsFiniteSet(0 .. Fan - 1)
  BY <1>1, FS_Interval
<1>3. IsFiniteSet(R)
  BY <1>2, FS_Subset, Zenon DEF Fits
<1> QED
  BY <1>3, FS_Subset, FS_CardinalityType, Zenon

\* map() writes into a table the entry already has.
LEMMA WriteLeaf ==
    ASSUME NEW e \in Entries, NEW R, Fits(R), NEW a, Good(e, R, a), NEW page \in Pages, NEW leaf \in Ptes,
           Root(e, a.ram, page \div Fan) # Invalid,
           NEW b, b = Written(a, Root(e, a.ram, page \div Fan).ppn, page % Fan, leaf)
    PROVE  /\ Good(e, R, b) /\ TableView(e, b.ram) = [TableView(e, a.ram) EXCEPT ![page] = leaf]
           /\ OthersKept(e, a.ram, b.ram)
<1> DEFINE i == page \div Fan
           o == page % Fan
           t == a.tables
           pointer == Root(e, a.ram, page \div Fan)
<1>1. i \in 0 .. Fan - 1 /\ o \in 0 .. Fan - 1
  BY PageParts, Zenon
<1>2. a \in Accs /\ a.ram \in [TablePages -> Words] /\ ~a.full /\ t \in 1 .. PageTables /\ PageTables \in Nat
  BY TreesAssumption, Zenon DEF Good, Accs, Built
<1>3. PICK k \in 1 .. t - 1 : pointer = PointerTo(e, k)
  BY <1>1, Zenon DEF Good, Built, Used
<1>4. k \in 0 .. PageTables - 1 /\ k # 0 /\ 0 \in 0 .. PageTables - 1
  BY <1>2
<1> DEFINE q == TablePage(e, k)
           z == TablePage(e, 0)
<1>5. pointer.ppn = q /\ q \in TablePages /\ z \in TablePages /\ q # z
  BY <1>3, <1>4, PteTypes, TableIn, TablePageIs
<1> DEFINE w == [a.ram[q] EXCEPT ![o] = leaf]
<1>6. b.ram = [a.ram EXCEPT ![q] = w] /\ b.tables = t /\ b.full = a.full /\ b \in Accs
  <2>1. w \in Words
    BY <1>1, <1>2, <1>5, Zenon DEF Words
  <2>2. b = [a EXCEPT !.ram = [a.ram EXCEPT ![q] = w]]
    BY <1>5, Zenon DEF Written
  <2> HIDE DEF w, q
  <2> QED
    BY <1>2, <1>5, <2>1, <2>2 DEF Accs
<1> HIDE DEF q, z, i, o, t, pointer
<1>7. b.ram[z] = a.ram[z] /\ \A p \in TablePages : p # q => b.ram[p] = a.ram[p]
  BY <1>2, <1>5, <1>6, Zenon
<1>8. \A j : Root(e, b.ram, j) = Root(e, a.ram, j)
  BY <1>7, Zenon DEF Root, z
<1>9. Used(e, b.ram) = Used(e, a.ram)
  BY <1>8, Zenon DEF Used
<1>10. Built(e, R, b.ram, b.tables)
  BY <1>6, <1>8, <1>9, Zenon DEF Good, Built, t
<1>11. OthersKept(e, a.ram, b.ram)
  <2> SUFFICES ASSUME NEW f \in Entries, NEW l \in 0 .. PageTables - 1, f # e
               PROVE  b.ram[TablePage(f, l)] = a.ram[TablePage(f, l)]
    BY Zenon DEF OthersKept
  <2>1. TablePage(f, l) \in TablePages /\ TablePage(f, l) # q
    BY <1>4, TableIn, TablePageIs, Zenon DEF q
  <2> QED
    BY <1>7, <2>1, Zenon
<1>12. ASSUME NEW p \in Pages PROVE Mapped(e, b.ram, p) = IF p = page THEN leaf ELSE Mapped(e, a.ram, p)
  <2> DEFINE j == p \div Fan
  <2>1. j \in 0 .. Fan - 1 /\ p % Fan \in 0 .. Fan - 1 /\ (j = i /\ p % Fan = o => p = page)
    BY PageParts, Zenon DEF i, o
  <2>2. CASE j = i
    <3>1. Mapped(e, b.ram, p) = b.ram[q][p % Fan] /\ Mapped(e, a.ram, p) = a.ram[q][p % Fan]
      BY <1>5, <1>8, <2>2, Zenon DEF Mapped, i, pointer
    <3>2. b.ram[q] = w /\ a.ram[q] \in [0 .. Fan - 1 -> Ptes]
      BY <1>2, <1>5, <1>6, Zenon DEF Words
    <3>3. w[p % Fan] = IF p % Fan = o THEN leaf ELSE a.ram[q][p % Fan]
      BY <2>1, <3>2, Zenon
    <3>4. p % Fan = o <=> p = page
      BY <2>1, <2>2, Zenon DEF o
    <3> QED
      BY <3>1, <3>2, <3>3, <3>4, Zenon
  <2>3. CASE j # i
    <3>1. p # page
      BY <2>3, Zenon DEF i
    <3>2. CASE Root(e, a.ram, j) = Invalid
      BY <1>8, <3>1, <3>2, Zenon DEF Mapped
    <3>3. CASE Root(e, a.ram, j) # Invalid
      <4>1. i \in Used(e, a.ram) /\ j \in Used(e, a.ram)
        BY <1>1, <2>1, <3>3, Zenon DEF Used, i, pointer
      <4>2. PICK l \in 1 .. t - 1 : Root(e, a.ram, j) = PointerTo(e, l)
        BY <4>1, Zenon DEF Good, Built, t
      <4>3. PointerTo(e, l) # PointerTo(e, k)
        BY <1>3, <2>3, <4>1, <4>2, Zenon DEF Good, Built, i, pointer
      <4>4. l # k /\ l \in 0 .. PageTables - 1
        BY <1>2, <4>3 DEF t
      <4>5. Root(e, a.ram, j).ppn = TablePage(e, l) /\ TablePage(e, l) # q /\ TablePage(e, l) \in TablePages
        BY <1>4, <4>2, <4>4, PteTypes, TableIn, TablePageIs, SMTT(30) DEF q
      <4> QED
        BY <1>7, <1>8, <3>1, <3>3, <4>5, Zenon DEF Mapped
    <3> QED
      BY <3>2, <3>3, Zenon
  <2> QED
    BY <2>2, <2>3, Zenon
<1>13. TableView(e, b.ram) = [TableView(e, a.ram) EXCEPT ![page] = leaf]
  BY <1>12, Zenon DEF TableView
<1> QED
  BY <1>2, <1>6, <1>10, <1>11, <1>13, Zenon DEF Good

\* map() takes the entry's next table for a region's first leaf.
LEMMA TakeTable ==
    ASSUME NEW e \in Entries, NEW R, Fits(R), NEW a, Good(e, R, a), NEW page \in Pages, NEW leaf \in Ptes,
           page \div Fan \in R, Root(e, a.ram, page \div Fan) = Invalid,
           NEW b, b = Extended(e, a, page, leaf)
    PROVE  /\ a.tables < PageTables
           /\ Good(e, R, b) /\ TableView(e, b.ram) = [TableView(e, a.ram) EXCEPT ![page] = leaf]
           /\ OthersKept(e, a.ram, b.ram)
<1> DEFINE i == page \div Fan
           o == page % Fan
           t == a.tables
<1>1. i \in 0 .. Fan - 1 /\ o \in 0 .. Fan - 1 /\ i \in R
  BY PageParts, Zenon
<1>2. a \in Accs /\ a.ram \in [TablePages -> Words] /\ ~a.full /\ t \in 1 .. PageTables /\ PageTables \in Nat
  BY TreesAssumption, Zenon DEF Good, Accs, Built
<1>3. /\ IsFiniteSet(Used(e, a.ram)) /\ i \notin Used(e, a.ram) /\ Cardinality(Used(e, a.ram)) = t - 1
      /\ Used(e, a.ram) \cup {i} \subseteq R
  <2>1. Used(e, a.ram) \subseteq R /\ Cardinality(Used(e, a.ram)) = t - 1
    BY Zenon DEF Good, Built
  <2>2. IsFiniteSet(Used(e, a.ram))
    BY <2>1, RegionsFinite, Zenon
  <2> QED
    BY <1>1, <2>1, <2>2, Zenon DEF Used
<1>4. Cardinality(Used(e, a.ram) \cup {i}) = t
  <2> HIDE DEF i
  <2>1. Cardinality(Used(e, a.ram) \cup {i}) = Cardinality(Used(e, a.ram)) + 1
    BY <1>3, FS_AddElement, Zenon
  <2> QED
    BY <1>2, <1>3, <2>1
<1>5. t < PageTables
  <2>1. Cardinality(R) \in Nat /\ Cardinality(Used(e, a.ram) \cup {i}) <= Cardinality(R)
            /\ Cardinality(R) <= PageTables - 1
    BY <1>3, RegionsFinite, Zenon DEF Fits
  <2> QED
    BY <1>2, <1>4, <2>1
<1>6. t \in 0 .. PageTables - 1 /\ t # 0 /\ 0 \in 0 .. PageTables - 1
  BY <1>2, <1>5
<1> DEFINE q == TablePage(e, t)
           z == TablePage(e, 0)
           w == [Empty EXCEPT ![o] = leaf]
           y == [a.ram[z] EXCEPT ![i] = PointerTo(e, t)]
<1>7. q \in TablePages /\ z \in TablePages /\ q # z
  BY <1>6, TableIn, TablePageIs, Zenon
<1>8. w \in Words /\ \A j \in 0 .. Fan - 1 : w[j] = IF j = o THEN leaf ELSE Invalid
  BY <1>1, PteTypes, Zenon DEF Words
<1>9. y \in Words /\ \A j \in 0 .. Fan - 1 : y[j] = IF j = i THEN PointerTo(e, t) ELSE a.ram[z][j]
  <2>1. PointerTo(e, t) \in Ptes /\ a.ram[z] \in [0 .. Fan - 1 -> Ptes]
    BY <1>2, <1>6, <1>7, PteTypes, Zenon DEF Words
  <2> HIDE DEF z, t, i
  <2> QED
    BY <1>1, <2>1, Zenon DEF Words
<1>10. /\ b.ram[q] = w /\ b.ram[z] = y /\ b.tables = t + 1 /\ ~b.full /\ b \in Accs
       /\ \A p \in TablePages : p # q /\ p # z => b.ram[p] = a.ram[p]
  <2> DEFINE r == [[a.ram EXCEPT ![q] = w] EXCEPT ![z] = y]
  <2>1. b = [[a EXCEPT !.tables = t + 1] EXCEPT !.ram = r]
    <3>1. [a.ram EXCEPT ![q] = w][z] = a.ram[z]
      BY <1>2, <1>7, Zenon
    <3>2. b = [[[a EXCEPT !.tables = t + 1] EXCEPT !.ram = [a.ram EXCEPT ![q] = w]] EXCEPT !.ram[z][i] = PointerTo(e, t)]
      BY <1>2, Zenon DEF Accs, Extended
    <3> HIDE DEF q, z, i, t, w
    <3> QED
      BY <1>2, <3>1, <3>2, Zenon DEF Accs
  <2> HIDE DEF q, z, i, t, w, y
  <2>2. /\ r[q] = w /\ r[z] = y /\ r \in [TablePages -> Words]
        /\ \A p \in TablePages : p # q /\ p # z => r[p] = a.ram[p]
    BY <1>2, <1>7, <1>8, <1>9, Zenon
  <2> HIDE DEF r
  <2>3. t \in Nat /\ t + 1 \in Nat
    BY <1>2
  <2>4. b.ram = r /\ b.tables = t + 1 /\ b.full = a.full
    BY <1>2, <2>1, Zenon DEF Accs
  <2>5. b \in Accs
    BY <1>2, <2>1, <2>2, <2>3, Zenon DEF Accs
  <2> QED
    BY <1>2, <2>2, <2>4, <2>5, Zenon
<1> HIDE DEF q, z, i, o, t, w, y
<1>11. \A j \in 0 .. Fan - 1 : Root(e, b.ram, j) = IF j = i THEN PointerTo(e, t) ELSE Root(e, a.ram, j)
  BY <1>9, <1>10, Zenon DEF Root, z
<1>12. PointerTo(e, t) # Invalid /\ PointerTo(e, t).ppn = q
  BY <1>6, PteTypes, Zenon DEF q
<1>13. Used(e, b.ram) = Used(e, a.ram) \cup {i}
  BY <1>1, <1>11, <1>12, Zenon DEF Used
<1>14. ASSUME NEW j \in Used(e, a.ram)
       PROVE  \E k \in 1 .. t - 1 : /\ Root(e, a.ram, j) = PointerTo(e, k)
           /\ Root(e, a.ram, j).ppn = TablePage(e, k)
                                    /\ k \in 1 .. t /\ TablePage(e, k) \in TablePages
                                    /\ TablePage(e, k) # q /\ TablePage(e, k) # z
                                    /\ Root(e, a.ram, j) # PointerTo(e, t)
  <2>1. PICK k \in 1 .. t - 1 : Root(e, a.ram, j) = PointerTo(e, k)
    BY Zenon DEF Good, Built, t
  <2>2. k \in 0 .. PageTables - 1 /\ k # 0 /\ k # t /\ k \in 1 .. t
    BY <1>2
  <2>3. TablePage(e, k) \in TablePages /\ TablePage(e, k) # q /\ TablePage(e, k) # z
    BY <1>6, <2>2, TableIn, TablePageIs, Zenon DEF q, z
  <2>4. Root(e, a.ram, j).ppn = TablePage(e, k)
    BY <2>1, <2>2, PteTypes, Zenon
  <2> QED
    BY <1>12, <2>1, <2>2, <2>3, <2>4, Zenon
<1>15. Built(e, R, b.ram, t + 1)
  <2>1. t + 1 \in 1 .. PageTables /\ (t + 1) - 1 = t /\ t \in 1 .. t
    BY <1>2, <1>5
  <2>2. ASSUME NEW j \in Used(e, b.ram) PROVE \E k \in 1 .. t : Root(e, b.ram, j) = PointerTo(e, k)
    <3>1. CASE j = i
      BY <1>1, <1>11, <2>1, <3>1, Zenon
    <3>2. CASE j # i
      <4>1. j \in Used(e, a.ram) /\ j \in 0 .. Fan - 1
        BY <1>13, <3>2, Zenon DEF Used
      <4> QED
        BY <1>11, <1>14, <3>2, <4>1, Zenon
    <3> QED
      BY <3>1, <3>2, Zenon
  <2>3. ASSUME NEW j \in Used(e, b.ram), NEW l \in Used(e, b.ram), Root(e, b.ram, j) = Root(e, b.ram, l) PROVE j = l
    <3>1. j \in 0 .. Fan - 1 /\ l \in 0 .. Fan - 1
      BY Zenon DEF Used
    <3>2. ASSUME NEW x \in Used(e, a.ram) PROVE Root(e, a.ram, x) # PointerTo(e, t)
      BY <1>14, Zenon
    <3>3. \A x, v \in Used(e, a.ram) : Root(e, a.ram, x) = Root(e, a.ram, v) => x = v
      BY Zenon DEF Good, Built
    <3> QED
      BY <1>11, <1>13, <2>3, <3>1, <3>2, <3>3, Zenon
  <2> QED
    BY <1>3, <1>4, <1>13, <2>1, <2>2, <2>3, Zenon DEF Built
<1>16. OthersKept(e, a.ram, b.ram)
  <2> SUFFICES ASSUME NEW f \in Entries, NEW l \in 0 .. PageTables - 1, f # e
               PROVE  b.ram[TablePage(f, l)] = a.ram[TablePage(f, l)]
    BY Zenon DEF OthersKept
  <2>1. TablePage(f, l) \in TablePages /\ TablePage(f, l) # q /\ TablePage(f, l) # z
    BY <1>6, TableIn, TablePageIs, Zenon DEF q, z
  <2> QED
    BY <1>10, <2>1, Zenon
<1>17. ASSUME NEW p \in Pages PROVE Mapped(e, b.ram, p) = IF p = page THEN leaf ELSE Mapped(e, a.ram, p)
  <2> DEFINE j == p \div Fan
  <2>1. j \in 0 .. Fan - 1 /\ p % Fan \in 0 .. Fan - 1 /\ (j = i /\ p % Fan = o => p = page)
    BY PageParts, Zenon DEF i, o
  <2>2. CASE j = i
    <3>1. Mapped(e, b.ram, p) = w[p % Fan] /\ Mapped(e, a.ram, p) = Invalid
      BY <1>1, <1>10, <1>11, <1>12, <2>2, Zenon DEF Mapped, i
    <3>2. p % Fan = o <=> p = page
      BY <2>1, <2>2, Zenon DEF o
    <3> QED
      BY <1>8, <2>1, <3>1, <3>2, Zenon
  <2>3. CASE j # i
    <3>1. p # page /\ Root(e, b.ram, j) = Root(e, a.ram, j)
      BY <1>11, <2>1, <2>3, Zenon DEF i
    <3>2. CASE Root(e, a.ram, j) = Invalid
      BY <3>1, <3>2, Zenon DEF Mapped
    <3>3. CASE Root(e, a.ram, j) # Invalid
      <4>1. j \in Used(e, a.ram)
        BY <2>1, <3>3, Zenon DEF Used
      <4>2. PICK k \in 1 .. t - 1 : /\ Root(e, a.ram, j).ppn = TablePage(e, k) /\ TablePage(e, k) \in TablePages
                                    /\ TablePage(e, k) # q /\ TablePage(e, k) # z
        BY <1>14, <4>1, Zenon
      <4>3. /\ Mapped(e, b.ram, p) = b.ram[TablePage(e, k)][p % Fan]
            /\ Mapped(e, a.ram, p) = a.ram[TablePage(e, k)][p % Fan]
        BY <3>1, <3>3, <4>2, Zenon DEF Mapped
      <4>4. b.ram[TablePage(e, k)] = a.ram[TablePage(e, k)]
        BY <1>10, <4>2, Zenon
      <4> QED
        BY <3>1, <4>3, <4>4, Zenon
    <3> QED
      BY <3>2, <3>3, Zenon
  <2> QED
    BY <2>2, <2>3, Zenon
<1>18. TableView(e, b.ram) = [TableView(e, a.ram) EXCEPT ![page] = leaf]
  BY <1>17, Zenon DEF TableView
<1> QED
  BY <1>5, <1>10, <1>15, <1>16, <1>18, Zenon DEF Good, t

\* map() of one page in a region of the budget.
LEMMA MapPageIs ==
    ASSUME NEW e \in Entries, NEW R, Fits(R), NEW a, Good(e, R, a), NEW rights \in SUBSET Rights,
           NEW page \in Pages, page \div Fan \in R
    PROVE  LET b == MapPage(e, rights, a, page) IN
           /\ Good(e, R, b) /\ TableView(e, b.ram) = [TableView(e, a.ram) EXCEPT ![page] = LeafOf(rights, page)]
           /\ OthersKept(e, a.ram, b.ram)
<1> DEFINE b == MapPage(e, rights, a, page)
           leaf == LeafOf(rights, page)
           pointer == Root(e, a.ram, page \div Fan)
<1>1. ~a.full /\ leaf \in Ptes /\ page \in Nat
  BY PageParts, PteTypes, Zenon DEF Good
<1>2. CASE pointer = Invalid /\ rights = {}
  <2>1. b = a
    BY <1>2, Zenon DEF MapPage, Root
  <2>2. TableView(e, a.ram)[page] = leaf
    BY <1>2, Zenon DEF TableView, Mapped, LeafOf
  <2>3. TableView(e, a.ram) = [TableView(e, a.ram) EXCEPT ![page] = leaf]
    BY <2>2, Zenon DEF TableView
  <2> QED
    BY <2>1, <2>3, Zenon DEF OthersKept
<1>3. CASE pointer # Invalid
  <2>1. b = Written(a, pointer.ppn, page % Fan, leaf)
    BY <1>1, <1>3, Zenon DEF MapPage, Root, LeafOf, Written
  <2> HIDE DEF b, leaf
  <2>2. /\ Good(e, R, b) /\ TableView(e, b.ram) = [TableView(e, a.ram) EXCEPT ![page] = leaf]
        /\ OthersKept(e, a.ram, b.ram)
    BY <1>1, <1>3, <2>1, WriteLeaf, SMTT(30)
  <2> QED
    BY <2>2, Zenon DEF b, leaf
<1>4. CASE pointer = Invalid /\ rights # {}
  <2> DEFINE n == Extended(e, a, page, leaf)
  <2>1. Good(e, R, n) /\ TableView(e, n.ram) = [TableView(e, a.ram) EXCEPT ![page] = leaf]
            /\ OthersKept(e, a.ram, n.ram)
        /\ a.tables < PageTables
    <3> HIDE DEF leaf
    <3> QED
      BY <1>1, <1>4, TakeTable
  <2>2. a.tables # PageTables
    <3>1. a.tables \in 1 .. PageTables /\ PageTables \in Nat
      BY TreesAssumption, Zenon DEF Good, Built
    <3> QED
      BY <2>1, <3>1
  <2>3. b = n
    BY <1>1, <1>4, <2>2, Zenon DEF MapPage, Root, LeafOf, PointerTo, Extended
  <2> HIDE DEF n, b, leaf
  <2>4. /\ Good(e, R, b) /\ TableView(e, b.ram) = [TableView(e, a.ram) EXCEPT ![page] = leaf]
        /\ OthersKept(e, a.ram, b.ram)
    BY <2>1, <2>3, Zenon
  <2> QED
    BY <2>4, Zenon DEF b, leaf
<1> QED
  BY <1>2, <1>3, <1>4, Zenon

-----------------------------------------------------------------------------
(* map(), lay_out() and map_process(). *)

\* A view with the pages of Q mapped with some rights.
Over(v, Q, rights) == [p \in Pages |-> IF p \in Q THEN LeafOf(rights, p) ELSE v[p]]

\* A step of laying out: the tables stay good and say this of entry e, and the others' stay.
Became(e, R, a, b, v) == Good(e, R, b) /\ TableView(e, b.ram) = v /\ OthersKept(e, a.ram, b.ram)

\* The tables after each page of a map().
MapRun(g, e, a, start, end, rights) ==
    /\ map(e, a, start, end, rights) = g[PageCount(start, end)]
    /\ g[0] = a
    /\ \A n \in 1 .. PageCount(start, end) : g[n] = MapPage(e, rights, g[n - 1], (start \div Fan) + (n - 1))

\* By induction on the pages mapped so far.
LEMMA MapSteps ==
    ASSUME NEW e \in Entries, NEW R, Fits(R), NEW a, Good(e, R, a), NEW rights \in SUBSET Rights,
           NEW start \in Nat, NEW end \in Nat, PagesOf(start, end) \subseteq Pages,
           \A p \in PagesOf(start, end) : p \div Fan \in R
    PROVE  \E g : MapRun(g, e, a, start, end, rights)
<1> DEFINE c == PageCount(start, end)
           f == start \div Fan
           Ts == {b \in Accs : Good(e, R, b)}
           G == [n \in Int |-> [y \in Ts |-> IF n \in 1 .. c THEN MapPage(e, rights, y, f + (n - 1)) ELSE y]]
           P(g) == g = [n \in 0 .. c |-> IF n = 0 THEN a ELSE MapPage(e, rights, g[n - 1], f + (n - 1))]
<1>1. c \in Nat /\ f \in Nat
  BY PagesOfIs, Constants, Quotient, Zenon
<1>2. PagesOf(start, end) = f .. (f + (c - 1))
  BY Zenon DEF PagesOf
<1> HIDE DEF c, f
<1>3. \A n \in 1 .. c : f + (n - 1) \in Pages /\ (f + (n - 1)) \div Fan \in R
  <2>1. \A n \in 1 .. c : f + (n - 1) \in PagesOf(start, end)
    BY <1>1, <1>2
  <2> QED
    BY <2>1, Zenon
<1>4. a \in Ts
  BY Zenon DEF Good
<1>5. ASSUME NEW y \in Ts, NEW n \in 1 .. c PROVE MapPage(e, rights, y, f + (n - 1)) \in Ts
  <2> DEFINE b == MapPage(e, rights, y, f + (n - 1))
  <2>1. Good(e, R, y)
    BY Zenon
  <2>2. Good(e, R, b)
    BY <1>3, <2>1, MapPageIs, Zenon
  <2> QED
    BY <2>2, Zenon DEF Good
<1> HIDE DEF Ts
<1>6. G \in [Int -> [Ts -> Ts]] /\ \A n \in 1 .. c : \A y \in Ts : G[n][y] = MapPage(e, rights, y, f + (n - 1))
  BY <1>5
<1> HIDE DEF G
<1>7. 0 \in Int /\ c \in Int /\ 0 <= c
  BY <1>1
<1>8. PICK h : IsRun(h, Ts, a, 0, c, G)
  BY <1>4, <1>6, <1>7, Iterate, Zenon
<1>9. h \in [0 .. c -> Ts] /\ h[0] = a /\ \A n \in 1 .. c : h[n] = MapPage(e, rights, h[n - 1], f + (n - 1))
  <2>1. h \in [0 .. c -> Ts] /\ h[0] = a /\ \A n \in 0 + 1 .. c : h[n] = G[n][h[n - 1]]
    BY <1>8, Zenon DEF IsRun
  <2>2. \A n \in 1 .. c : n \in 0 + 1 .. c /\ h[n - 1] \in Ts
    BY <1>1, <2>1
  <2> QED
    BY <1>6, <2>1, <2>2, Zenon
<1>10. P(h)
  <2>1. \A n \in 0 .. c : h[n] = IF n = 0 THEN a ELSE MapPage(e, rights, h[n - 1], f + (n - 1))
    BY <1>1, <1>9
  <2> QED
    BY <1>9, <2>1, Zenon
<1> DEFINE g == CHOOSE m : P(m)
<1>11. P(g)
  BY <1>10, Zenon
<1>12. map(e, a, start, end, rights) = g[c]
  BY Zenon DEF map, c, f
<1>13. g = [n \in 0 .. c |-> IF n = 0 THEN a ELSE MapPage(e, rights, g[n - 1], f + (n - 1))]
  BY <1>11, Zenon
<1> HIDE DEF g, P
<1>14. g[0] = a
  BY <1>1, <1>13
<1>15. \A n \in 1 .. c : g[n] = MapPage(e, rights, g[n - 1], f + (n - 1))
  <2>1. \A n \in 1 .. c : n \in 0 .. c /\ n # 0
    BY <1>1
  <2>2. \A n \in 0 .. c : g[n] = IF n = 0 THEN a ELSE MapPage(e, rights, g[n - 1], f + (n - 1))
    BY <1>13, Zenon
  <2> QED
    BY <2>1, <2>2, Zenon
<1> QED
  BY <1>12, <1>14, <1>15, Zenon DEF c, f, MapRun

\* map(): the pages of the range get the rights, the others are as they were.
LEMMA MapIs ==
    ASSUME NEW e \in Entries, NEW R, Fits(R), NEW a, Good(e, R, a), NEW rights \in SUBSET Rights,
           NEW start \in Nat, NEW end \in Nat, PagesOf(start, end) \subseteq Pages,
           \A p \in PagesOf(start, end) : p \div Fan \in R
    PROVE  Became(e, R, a, map(e, a, start, end, rights), Over(TableView(e, a.ram), PagesOf(start, end), rights))
<1> DEFINE c == PageCount(start, end)
           f == start \div Fan
<1>0. PICK g : MapRun(g, e, a, start, end, rights)
  BY MapSteps, Zenon
<1>1. /\ map(e, a, start, end, rights) = g[c]
      /\ g[0] = a
      /\ \A n \in 1 .. c : g[n] = MapPage(e, rights, g[n - 1], f + (n - 1))
  BY <1>0, Zenon DEF MapRun
<1>2. c \in Nat /\ f \in Nat
  BY PagesOfIs, Constants, Quotient, Zenon
<1>3. PagesOf(start, end) = f .. (f + (c - 1))
  BY Zenon DEF PagesOf
<1> HIDE DEF c, f
<1> DEFINE E(k) == k <= c => Became(e, R, a, g[k], Over(TableView(e, a.ram), f .. (f + (k - 1)), rights))
           Ks == {k \in Nat : E(k)}
<1>4. E(0)
  <2>1. f .. (f + (0 - 1)) = {}
    BY <1>2
  <2>2. Over(TableView(e, a.ram), {}, rights) = TableView(e, a.ram)
    BY Zenon DEF Over, TableView
  <2> QED
    BY <1>1, <2>1, <2>2, Zenon DEF Became, OthersKept
<1>5. ASSUME NEW k \in Nat, E(k) PROVE E(k + 1)
  <2> SUFFICES ASSUME k + 1 <= c
               PROVE  Became(e, R, a, g[k + 1], Over(TableView(e, a.ram), f .. (f + ((k + 1) - 1)), rights))
    BY Zenon
  <2> DEFINE q == f + k
             v == Over(TableView(e, a.ram), f .. (f + (k - 1)), rights)
  <2>1. Became(e, R, a, g[k], v)
    BY <1>2, <1>5
  <2>2. k + 1 \in 1 .. c /\ (k + 1) - 1 = k /\ q \in PagesOf(start, end)
    BY <1>2, <1>3
  <2>3. q \in Pages /\ q \div Fan \in R
    BY <2>2, Zenon
  <2>4. g[k + 1] = MapPage(e, rights, g[k], q)
    BY <1>1, <2>2, Zenon
  <2>5. f .. (f + ((k + 1) - 1)) = (f .. (f + (k - 1))) \cup {q}
    BY <1>2
  <2> HIDE DEF q
  <2>6. /\ Good(e, R, g[k + 1])
        /\ TableView(e, g[k + 1].ram) = [TableView(e, g[k].ram) EXCEPT ![q] = LeafOf(rights, q)]
        /\ OthersKept(e, g[k].ram, g[k + 1].ram)
    <3>1. Good(e, R, g[k])
      BY <2>1, Zenon DEF Became
    <3> DEFINE b == MapPage(e, rights, g[k], q)
    <3>2. /\ Good(e, R, b) /\ TableView(e, b.ram) = [TableView(e, g[k].ram) EXCEPT ![q] = LeafOf(rights, q)]
          /\ OthersKept(e, g[k].ram, b.ram)
      BY <2>3, <3>1, MapPageIs, Zenon
    <3> HIDE DEF b
    <3>3. g[k + 1] = b
      BY <2>4, Zenon DEF b
    <3> QED
      BY <3>2, <3>3, Zenon
  <2>7. TableView(e, g[k].ram) = v
    BY <2>1, Zenon DEF Became
  <2>8. [v EXCEPT ![q] = LeafOf(rights, q)] = Over(TableView(e, a.ram), (f .. (f + (k - 1))) \cup {q}, rights)
    <3> DEFINE I == f .. (f + (k - 1))
    <3> HIDE DEF I
    <3> QED
      BY <2>3, Zenon DEF Over, I
  <2>9. OthersKept(e, a.ram, g[k + 1].ram)
    BY <2>1, <2>6, Zenon DEF Became, OthersKept
  <2> HIDE DEF v
  <2> QED
    BY <2>5, <2>6, <2>7, <2>8, <2>9, Zenon DEF Became
<1> HIDE DEF E
<1>6. 0 \in Ks /\ \A k \in Nat : k \in Ks => k + 1 \in Ks
  BY <1>4, <1>5
<1>7. \A k \in Ks : E(k)
  BY Zenon
<1> HIDE DEF Ks
<1>8. E(c)
  BY <1>2, <1>6, <1>7, InductiveSet, Zenon
<1> QED
  BY <1>1, <1>2, <1>3, <1>8 DEF E

\* A tree the kernel goes on with.
DevicesFit(t) ==
    /\ t.fb \in Nat /\ t.fb_size \in Nat /\ t.fb + t.fb_size <= Space
    /\ t.windows \in Seq([base : Nat, size : Nat])
    /\ \A i \in 1 .. Len(t.windows) : t.windows[i].base + t.windows[i].size <= Space
    /\ check_page_table_budget(t)

\* The slots and the devices, in pages.
SlotsEnd == SlotBase + Slots * SlotSize
WindowPagesOf(t, i) == PagesOf(t.windows[i].base, t.windows[i].base + t.windows[i].size)
DisplayPages(t) == IF t.fb = 0 THEN {} ELSE PagesOf(t.fb, t.fb + t.fb_size)
WindowPages(t, n) == UNION {WindowPagesOf(t, i) : i \in 1 .. n}

\* A range's regions.
LEMMA Touched ==
    ASSUME NEW start \in Nat, NEW end \in Nat, start <= end, end <= Space
    PROVE  (start \div (Fan * Fan)) .. ((end - 1) \div (Fan * Fan)) \subseteq 0 .. Fan - 1
<1> DEFINE w == Fan * Fan
<1>1. w \in Nat \ {0} /\ Fan \in Nat /\ Space = Fan * w
  <2>1. Fan \in Nat \ {0}
    BY Constants, Zenon
  <2>2. Fan * Fan \in Nat \ {0} /\ Space = (Fan * Fan) * Fan
    BY <2>1 DEF Space
  <2> QED
    BY <2>1, <2>2
<1> HIDE DEF w
<1>2. start \div w \in Nat
  BY <1>1, Quotient, Zenon
<1>3. CASE end = 0
  <2>1. start = 0 /\ end - 1 = -1
    BY <1>3
  <2>2. 0 \div w = 0
    BY <1>1, DivUnique
  <2>3. (-1) \div w < 0 /\ (-1) \div w \in Int
    BY <1>1
  <2> QED
    BY <2>1, <2>2, <2>3 DEF w
<1>4. CASE end > 0
  <2>1. end - 1 \in Nat /\ end - 1 < Fan * w
    BY <1>1, <1>4
  <2> DEFINE x == end - 1
  <2> HIDE DEF x
  <2>2. x \div w \in 0 .. Fan - 1
    BY <1>1, <2>1, DivBelow, Zenon DEF x
  <2> QED
    BY <1>1, <1>2, <2>2 DEF x, w
<1> QED
  BY <1>3, <1>4

\* A window of the tree.
LEMMA WindowIs ==
    ASSUME NEW t, DevicesFit(t), NEW i \in 1 .. Len(t.windows)
    PROVE  /\ t.windows[i].base \in Nat /\ t.windows[i].size \in Nat
           /\ t.windows[i].base + t.windows[i].size \in Nat
           /\ t.windows[i].base + t.windows[i].size <= Space
           /\ t.windows[i] \in Range(t.windows)
<1>1. t.windows \in Seq([base : Nat, size : Nat])
  BY Zenon DEF DevicesFit
<1>2. t.windows[i] \in [base : Nat, size : Nat]
  <2> DEFINE W == [base : Nat, size : Nat]
             s == t.windows
  <2>1. s \in Seq(W) /\ i \in 1 .. Len(s)
    BY <1>1, Zenon
  <2> HIDE DEF s, W
  <2>2. s[i] \in W
    BY <2>1
  <2> QED
    BY <2>2, Zenon DEF s, W
<1>3. t.windows[i].base + t.windows[i].size <= Space
  BY Zenon DEF DevicesFit
<1>4. t.windows[i] \in Range(t.windows)
  BY <1>1 DEF Range
<1> QED
  BY <1>2, <1>3, <1>4

\* Every window of the tree has a place in it.
LEMMA WindowAt ==
    ASSUME NEW t, DevicesFit(t), NEW v \in Range(t.windows)
    PROVE  \E i \in 1 .. Len(t.windows) : v = t.windows[i]
<1>1. t.windows \in Seq([base : Nat, size : Nat])
  BY Zenon DEF DevicesFit
<1> QED
  BY <1>1 DEF Range

\* What check_page_table_budget() counts is within the root, and enough.
LEMMA RegionsFit ==
    ASSUME NEW t, DevicesFit(t)
    PROVE  Fits(Regions(t))
<1> DEFINE F == Fan * Fan
           touched(start, end) == (start \div (Fan * Fan)) .. ((end - 1) \div (Fan * Fan))
<1>1. touched(SlotBase, SlotBase + Slots * SlotSize) \subseteq 0 .. Fan - 1
  <2>1. SlotBase \in Nat /\ Slots * SlotSize \in Nat /\ SlotBase + Slots * SlotSize < Space /\ Space \in Nat
    BY Constants, Zenon
  <2>2. SlotBase + Slots * SlotSize \in Nat /\ SlotBase <= SlotBase + Slots * SlotSize
            /\ SlotBase + Slots * SlotSize <= Space
    BY <2>1
  <2> QED
    BY <2>1, <2>2, Touched, Zenon
<1>2. touched(t.fb, t.fb + t.fb_size) \subseteq 0 .. Fan - 1
  <2>1. t.fb \in Nat /\ t.fb + t.fb_size \in Nat /\ t.fb <= t.fb + t.fb_size /\ t.fb + t.fb_size <= Space
    BY DEF DevicesFit
  <2> QED
    BY <2>1, Touched, Zenon
<1>3. ASSUME NEW v \in Range(t.windows) PROVE touched(v.base, v.base + v.size) \subseteq 0 .. Fan - 1
  <2>1. PICK i \in 1 .. Len(t.windows) : v = t.windows[i]
    BY WindowAt, Zenon
  <2>2. v.base \in Nat /\ v.size \in Nat /\ v.base + v.size \in Nat /\ v.base + v.size <= Space
    BY <2>1, WindowIs, Zenon
  <2>3. v.base <= v.base + v.size
    BY <2>2
  <2> QED
    BY <2>2, <2>3, Touched, Zenon
<1>4. Regions(t) = touched(SlotBase, SlotBase + Slots * SlotSize)
                     \cup (IF t.fb = 0 THEN {} ELSE touched(t.fb, t.fb + t.fb_size))
                     \cup UNION {touched(w.base, w.base + w.size) : w \in Range(t.windows)}
  BY Zenon DEF Regions
<1> HIDE DEF touched
<1>5. Regions(t) \subseteq 0 .. Fan - 1
  <2>1. UNION {touched(w.base, w.base + w.size) : w \in Range(t.windows)} \subseteq 0 .. Fan - 1
    BY <1>3, Zenon
  <2>2. (IF t.fb = 0 THEN {} ELSE touched(t.fb, t.fb + t.fb_size)) \subseteq 0 .. Fan - 1
    BY <1>2, Zenon
  <2> QED
    BY <1>1, <1>4, <2>1, <2>2, Zenon
<1> QED
  BY <1>5, Zenon DEF Fits, DevicesFit, check_page_table_budget

\* The pages that lay_out() may touch are in the regions counted.
LEMMA RegionOf ==
    ASSUME NEW t, DevicesFit(t), NEW p
    PROVE  /\ p \in PagesOf(SlotBase, SlotsEnd) => p \in Pages /\ p \div Fan \in Regions(t)
           /\ p \in DisplayPages(t) => p \in Pages /\ p \div Fan \in Regions(t)
           /\ \A i \in 1 .. Len(t.windows) : p \in WindowPagesOf(t, i) => p \in Pages /\ p \div Fan \in Regions(t)
<1> DEFINE touched(start, end) == (start \div (Fan * Fan)) .. ((end - 1) \div (Fan * Fan))
<1>1. Regions(t) = touched(SlotBase, SlotBase + Slots * SlotSize)
                     \cup (IF t.fb = 0 THEN {} ELSE touched(t.fb, t.fb + t.fb_size))
                     \cup UNION {touched(w.base, w.base + w.size) : w \in Range(t.windows)}
  BY Zenon DEF Regions
<1>2. ASSUME NEW start \in Nat, NEW end \in Nat, end <= Space, p \in PagesOf(start, end)
      PROVE  p \in Pages /\ p \div Fan \in touched(start, end)
  BY <1>2, PageRegion, Zenon DEF Pages
<1> HIDE DEF touched
<1>3. ASSUME p \in PagesOf(SlotBase, SlotsEnd) PROVE p \in Pages /\ p \div Fan \in Regions(t)
  <2>1. SlotBase \in Nat /\ SlotsEnd \in Nat /\ SlotsEnd <= Space
    <3>1. SlotBase \in Nat /\ Slots * SlotSize \in Nat /\ SlotBase + Slots * SlotSize < Space /\ Space \in Nat
      BY Constants, Zenon
    <3> QED
      BY <3>1 DEF SlotsEnd
  <2>2. p \in Pages /\ p \div Fan \in touched(SlotBase, SlotsEnd)
    BY <1>2, <1>3, <2>1, Zenon
  <2> QED
    BY <1>1, <2>2, Zenon DEF SlotsEnd
<1>4. ASSUME p \in DisplayPages(t) PROVE p \in Pages /\ p \div Fan \in Regions(t)
  <2>1. t.fb # 0 /\ p \in PagesOf(t.fb, t.fb + t.fb_size)
    BY <1>4, Zenon DEF DisplayPages
  <2>2. t.fb \in Nat /\ t.fb + t.fb_size \in Nat /\ t.fb + t.fb_size <= Space
    BY DEF DevicesFit
  <2>3. p \in Pages /\ p \div Fan \in touched(t.fb, t.fb + t.fb_size)
    BY <1>2, <2>1, <2>2, Zenon
  <2> QED
    BY <1>1, <2>1, <2>3, Zenon
<1>5. ASSUME NEW i \in 1 .. Len(t.windows), p \in WindowPagesOf(t, i) PROVE p \in Pages /\ p \div Fan \in Regions(t)
  <2> DEFINE w == t.windows[i]
  <2>1. w.base \in Nat /\ w.base + w.size \in Nat /\ w.base + w.size <= Space /\ w \in Range(t.windows)
    BY WindowIs, Zenon
  <2>2. p \in PagesOf(w.base, w.base + w.size)
    BY <1>5, Zenon DEF WindowPagesOf
  <2> HIDE DEF w
  <2>3. p \in Pages /\ p \div Fan \in touched(w.base, w.base + w.size)
    BY <1>2, <2>1, <2>2, Zenon
  <2> QED
    BY <1>1, <2>1, <2>3, Zenon
<1> QED
  BY <1>3, <1>4, <1>5, Zenon

\* The tables after each window.
WindowsRun(g, e, a, rights) ==
    /\ MapWindows(e, a, rights) = g[Len(tree.windows)]
    /\ g[0] = a
    /\ \A n \in 1 .. Len(tree.windows) :
          g[n] = map(e, g[n - 1], tree.windows[n].base, tree.windows[n].base + tree.windows[n].size, rights)

\* lay_out() maps one window.
LEMMA MapWindow ==
    ASSUME DevicesFit(tree), NEW e \in Entries, NEW a, Good(e, Regions(tree), a), NEW rights \in SUBSET Rights,
           NEW n \in 1 .. Len(tree.windows)
    PROVE  Became(e, Regions(tree), a,
                  map(e, a, tree.windows[n].base, tree.windows[n].base + tree.windows[n].size, rights),
                  Over(TableView(e, a.ram), WindowPagesOf(tree, n), rights))
<1> DEFINE x == tree.windows[n].base
           y == tree.windows[n].base + tree.windows[n].size
<1>1. x \in Nat /\ y \in Nat
  BY WindowIs, Zenon
<1>2. WindowPagesOf(tree, n) = PagesOf(x, y)
  BY Zenon DEF WindowPagesOf
<1>3. PagesOf(x, y) \subseteq Pages /\ \A p \in PagesOf(x, y) : p \div Fan \in Regions(tree)
  BY <1>2, RegionOf, Zenon
<1>4. Fits(Regions(tree))
  BY RegionsFit, Zenon
<1> HIDE DEF x, y
<1>5. Became(e, Regions(tree), a, map(e, a, x, y, rights), Over(TableView(e, a.ram), PagesOf(x, y), rights))
  BY <1>1, <1>3, <1>4, MapIs, Zenon
<1> QED
  BY <1>2, <1>5, Zenon DEF x, y

\* By induction on the windows mapped so far.
LEMMA WindowsSteps ==
    ASSUME DevicesFit(tree), NEW e \in Entries, NEW a, Good(e, Regions(tree), a), NEW rights \in SUBSET Rights
    PROVE  \E g : WindowsRun(g, e, a, rights)
<1> DEFINE c == Len(tree.windows)
           Ts == {b \in Accs : Good(e, Regions(tree), b)}
           Step(y, n) == map(e, y, tree.windows[n].base, tree.windows[n].base + tree.windows[n].size, rights)
           G == [n \in Int |-> [y \in Ts |-> IF n \in 1 .. c THEN Step(y, n) ELSE y]]
           P(g) == g = [n \in 0 .. c |->
                           IF n = 0 THEN a
                           ELSE map(e, g[n - 1], tree.windows[n].base,
                                    tree.windows[n].base + tree.windows[n].size, rights)]
<1>1. c \in Nat
  BY DEF DevicesFit
<1>4. a \in Ts
  BY Zenon DEF Good
<1>5. ASSUME NEW y \in Ts, NEW n \in 1 .. c PROVE Step(y, n) \in Ts
  <2>1. Good(e, Regions(tree), y)
    BY Zenon
  <2>2. Good(e, Regions(tree), Step(y, n))
    BY <2>1, MapWindow, Zenon DEF Became
  <2> HIDE DEF Step
  <2> QED
    BY <2>2, Zenon DEF Good
<1> HIDE DEF Ts, c
<1>6. G \in [Int -> [Ts -> Ts]] /\ \A n \in 1 .. c : \A y \in Ts : G[n][y] = Step(y, n)
  <2> HIDE DEF Step
  <2> QED
    BY <1>5
<1> HIDE DEF G
<1>7. 0 \in Int /\ c \in Int /\ 0 <= c
  BY <1>1
<1>8. PICK h : IsRun(h, Ts, a, 0, c, G)
  BY <1>4, <1>6, <1>7, Iterate, Zenon
<1>9. h \in [0 .. c -> Ts] /\ h[0] = a /\ \A n \in 1 .. c : h[n] = Step(h[n - 1], n)
  <2> HIDE DEF Step
  <2>1. h \in [0 .. c -> Ts] /\ h[0] = a /\ \A n \in 0 + 1 .. c : h[n] = G[n][h[n - 1]]
    BY <1>8, Zenon DEF IsRun
  <2>2. \A n \in 1 .. c : n \in 0 + 1 .. c /\ h[n - 1] \in Ts
    BY <1>1, <2>1
  <2> QED
    BY <1>6, <2>1, <2>2, Zenon
<1>10. P(h)
  <2>1. \A n \in 0 .. c : h[n] = IF n = 0 THEN a ELSE Step(h[n - 1], n)
    <3> HIDE DEF Step
    <3> QED
      BY <1>1, <1>9
  <2>2. h = [n \in 0 .. c |-> h[n]]
    BY <1>9, Zenon
  <2> QED
    BY <2>1, <2>2, Zenon
<1> DEFINE g == CHOOSE m : P(m)
<1>11. P(g)
  BY <1>10, Zenon
<1>12. MapWindows(e, a, rights) = g[c]
  BY Zenon DEF MapWindows, c
<1>13. g = [n \in 0 .. c |-> IF n = 0 THEN a ELSE Step(g[n - 1], n)]
  BY <1>11, Zenon
<1> HIDE DEF g, P, Step
<1>14. g[0] = a
  BY <1>1, <1>13
<1>15. \A n \in 1 .. c : g[n] = Step(g[n - 1], n)
  <2>1. \A n \in 1 .. c : n \in 0 .. c /\ n # 0
    BY <1>1
  <2>2. \A n \in 0 .. c : g[n] = IF n = 0 THEN a ELSE Step(g[n - 1], n)
    BY <1>13, Zenon
  <2> QED
    BY <2>1, <2>2, Zenon
<1> QED
  BY <1>12, <1>14, <1>15, Zenon DEF c, WindowsRun, Step

\* lay_out() maps every window for a program that drives the engines.
LEMMA MapWindowsIs ==
    ASSUME DevicesFit(tree), NEW e \in Entries, NEW a, Good(e, Regions(tree), a), NEW rights \in SUBSET Rights
    PROVE  Became(e, Regions(tree), a, MapWindows(e, a, rights),
                  Over(TableView(e, a.ram), WindowPages(tree, Len(tree.windows)), rights))
<1> DEFINE c == Len(tree.windows)
           R == Regions(tree)
<1>0. PICK g : WindowsRun(g, e, a, rights)
  BY WindowsSteps, Zenon
<1>1. /\ MapWindows(e, a, rights) = g[c]
      /\ g[0] = a
      /\ \A n \in 1 .. c :
            g[n] = map(e, g[n - 1], tree.windows[n].base, tree.windows[n].base + tree.windows[n].size, rights)
  BY <1>0, Zenon DEF WindowsRun
<1>2. c \in Nat
  BY SMTT(30) DEF DevicesFit
<1> DEFINE E(k) == k <= c => Became(e, R, a, g[k], Over(TableView(e, a.ram), WindowPages(tree, k), rights))
           Ks == {k \in Nat : E(k)}
<1> HIDE DEF R
<1>4. E(0)
  <2>1. WindowPages(tree, 0) = {}
    BY DEF WindowPages
  <2>2. Over(TableView(e, a.ram), {}, rights) = TableView(e, a.ram)
    BY Zenon DEF Over, TableView
  <2> QED
    BY <1>1, <2>1, <2>2, Zenon DEF Became, OthersKept, R
<1>5. ASSUME NEW k \in Nat, E(k) PROVE E(k + 1)
  <2> SUFFICES ASSUME k + 1 <= c
               PROVE  Became(e, R, a, g[k + 1], Over(TableView(e, a.ram), WindowPages(tree, k + 1), rights))
    BY Zenon
  <2> DEFINE v == Over(TableView(e, a.ram), WindowPages(tree, k), rights)
             b == map(e, g[k], tree.windows[k + 1].base, tree.windows[k + 1].base + tree.windows[k + 1].size,
                 rights)
  <2>1. Became(e, R, a, g[k], v)
    BY <1>2, <1>5
  <2>2. k + 1 \in 1 .. c /\ (k + 1) - 1 = k
    BY <1>2
  <2>3. g[k + 1] = b
    BY <1>1, <2>2, Zenon
  <2>4. WindowPages(tree, k + 1) = WindowPages(tree, k) \cup WindowPagesOf(tree, k + 1)
    <3>1. 1 .. (k + 1) = (1 .. k) \cup {k + 1}
      OBVIOUS
    <3> QED
      BY <3>1, Zenon DEF WindowPages
  <2>5. Became(e, R, g[k], b, Over(TableView(e, g[k].ram), WindowPagesOf(tree, k + 1), rights))
    <3>1. Good(e, Regions(tree), g[k])
      BY <2>1, Zenon DEF Became, R
    <3> QED
      BY <2>2, <3>1, MapWindow, Zenon DEF R
  <2>6. TableView(e, g[k].ram) = v
    BY <2>1, Zenon DEF Became
  <2>7. Over(v, WindowPagesOf(tree, k + 1), rights) = Over(TableView(e, a.ram), WindowPages(tree, k + 1), rights)
    BY <2>4, Zenon DEF Over
  <2>8. OthersKept(e, a.ram, b.ram)
    BY <2>1, <2>5, Zenon DEF Became, OthersKept
  <2> HIDE DEF v, b
  <2> QED
    BY <2>3, <2>5, <2>6, <2>7, <2>8, Zenon DEF Became
<1> HIDE DEF E, c
<1>6. 0 \in Ks /\ \A k \in Nat : k \in Ks => k + 1 \in Ks
  BY <1>4, <1>5
<1>7. \A k \in Ks : E(k)
  BY Zenon
<1> HIDE DEF Ks
<1>8. E(c)
  BY <1>2, <1>6, <1>7, InductiveSet, Zenon
<1>9. c <= c
  BY <1>2
<1> QED
  BY <1>1, <1>8, <1>9, Zenon DEF E, c, R

\* A layout of whole pages inside the slots, with the guard page inside it.
SlotsOk(s) ==
    /\ s.base \in Nat /\ s.span \in Nat /\ s.guard \in Nat /\ s.drives_engines \in BOOLEAN
    /\ SlotBase <= s.base /\ s.base <= s.guard /\ s.guard + Fan <= s.base + s.span /\ s.base + s.span <= SlotsEnd
    /\ s.base % Fan = 0 /\ s.guard % Fan = 0 /\ (s.base + s.span) % Fan = 0

\* A slot lies in the region of slots.
LEMMA SlotBounds ==
    ASSUME NEW s, SlotsOk(s)
    PROVE  /\ s.base \in Nat /\ s.span \in Nat /\ s.base + s.span \in Nat
           /\ s.base + s.span <= SlotsEnd /\ SlotBase <= s.base
<1>1. /\ s.base \in Nat /\ s.span \in Nat
      /\ s.base + s.span <= SlotsEnd /\ SlotBase <= s.base
  BY Zenon DEF SlotsOk
<1>2. s.base + s.span \in Nat
  <2> DEFINE b == s.base
             n == s.span
  <2>1. b \in Nat /\ n \in Nat
    BY <1>1, Zenon
  <2> HIDE DEF b, n
  <2>2. b + n \in Nat
    BY <2>1
  <2> QED
    BY <2>2, Zenon DEF b, n
<1> QED
  BY <1>1, <1>2, Zenon

SlotPages(s) == PagesOf(s.base, s.guard) \cup PagesOf(s.guard + Fan, s.base + s.span)
EnginePages(t, s) == IF s.drives_engines THEN WindowPages(t, Len(t.windows)) ELSE {}
Blank == [p \in Pages |-> Invalid]

\* What lay_out() makes of a view.
Laid(t, s, rights, v) ==
    [p \in Pages |-> IF p \in EnginePages(t, s) \cup DisplayPages(t) THEN LeafOf(rights \ {"X"}, p)
                     ELSE IF p \in SlotPages(s) THEN LeafOf(rights, p)
                     ELSE v[p]]

\* A smaller range has fewer pages.
LEMMA SubPages ==
    ASSUME NEW a \in Nat, NEW b \in Nat, NEW c \in Nat, NEW d \in Nat, c <= a, b <= d
    PROVE  PagesOf(a, b) \subseteq PagesOf(c, d)
<1> SUFFICES ASSUME NEW p \in PagesOf(a, b) PROVE p \in PagesOf(c, d)
  BY Zenon
<1>1. Fan \in Nat \ {0}
  BY Constants, Zenon
<1>2. PagesOf(a, b) = {q \in Nat : a \div Fan <= q /\ q * Fan < b}
  BY PagesOfIs, Zenon
<1>3. PagesOf(c, d) = {q \in Nat : c \div Fan <= q /\ q * Fan < d}
  BY PagesOfIs, Zenon
<1>4. p \in Nat /\ a \div Fan <= p /\ p * Fan < b
  BY <1>2, Zenon
<1>5. c \div Fan <= a \div Fan /\ c \div Fan \in Nat /\ a \div Fan \in Nat
  BY <1>1, DivOrder, Quotient, Zenon
<1>6. p * Fan \in Nat
  BY <1>1, <1>4
<1>7. c \div Fan <= p /\ p * Fan < d
  BY <1>4, <1>5, <1>6
<1> QED
  BY <1>3, <1>4, <1>7, Zenon

\* A process's pages are in the slots.
LEMMA SlotPagesIn ==
    ASSUME NEW s, SlotsOk(s)
    PROVE  /\ PagesOf(s.base, s.guard) \subseteq PagesOf(SlotBase, SlotsEnd)
           /\ PagesOf(s.guard + Fan, s.base + s.span) \subseteq PagesOf(SlotBase, SlotsEnd)
<1> DEFINE b == s.base
           n == s.span
           g == s.guard
<1>1. /\ b \in Nat /\ n \in Nat /\ g \in Nat
      /\ SlotBase <= b /\ b <= g /\ g + Fan <= b + n /\ b + n <= SlotsEnd
  BY Zenon DEF SlotsOk
<1>2. SlotBase \in Nat /\ SlotsEnd \in Nat /\ Fan \in Nat
  BY Constants DEF SlotsEnd
<1> HIDE DEF b, n, g, SlotsEnd
<1>3. g <= SlotsEnd /\ SlotBase <= g + Fan /\ g + Fan \in Nat /\ b + n \in Nat
  BY <1>1, <1>2
<1>4. PagesOf(b, g) \subseteq PagesOf(SlotBase, SlotsEnd)
  BY <1>1, <1>2, <1>3, SubPages, Zenon
<1>5. PagesOf(g + Fan, b + n) \subseteq PagesOf(SlotBase, SlotsEnd)
  BY <1>1, <1>2, <1>3, SubPages
<1> QED
  BY <1>4, <1>5, Zenon DEF b, n, g

\* map() of pages the budget counts.
LEMMA MapCounted ==
    ASSUME DevicesFit(tree), NEW e \in Entries, NEW a, Good(e, Regions(tree), a), NEW rights \in SUBSET Rights,
           NEW x \in Nat, NEW y \in Nat,
           PagesOf(x, y) \subseteq PagesOf(SlotBase, SlotsEnd) \cup DisplayPages(tree)
    PROVE  Became(e, Regions(tree), a, map(e, a, x, y, rights), Over(TableView(e, a.ram), PagesOf(x, y), rights))
<1>1. PagesOf(x, y) \subseteq Pages /\ \A p \in PagesOf(x, y) : p \div Fan \in Regions(tree)
  BY RegionOf, Zenon
<1> QED
  BY <1>1, MapIs, RegionsFit, Zenon

\* lay_out() never runs out of tables, and maps what it is meant to.
LEMMA LayOutIs ==
    ASSUME DevicesFit(tree), NEW e \in Entries, NEW a, Good(e, Regions(tree), a), NEW rights \in SUBSET Rights,
           NEW s, SlotsOk(s)
    PROVE  Became(e, Regions(tree), a, lay_out(e, s, a, rights), Laid(tree, s, rights, TableView(e, a.ram)))
<1> DEFINE R == Regions(tree)
           data == rights \ {"X"}
           heap == map(e, a, s.base, s.guard, rights)
           slots == map(e, heap, s.guard + Fan, s.base + s.span, rights)
           shown == IF tree.fb = 0 THEN slots ELSE map(e, slots, tree.fb, tree.fb + tree.fb_size, data)
           last == IF s.drives_engines THEN MapWindows(e, shown, data) ELSE shown
           v0 == TableView(e, a.ram)
           v1 == Over(v0, PagesOf(s.base, s.guard), rights)
           v2 == Over(v1, PagesOf(s.guard + Fan, s.base + s.span), rights)
           v3 == Over(v2, DisplayPages(tree), data)
           v4 == Over(v3, EnginePages(tree, s), data)
<1>1. /\ data \in SUBSET Rights /\ s.base \in Nat /\ s.guard \in Nat
      /\ s.guard + Fan \in Nat /\ s.base + s.span \in Nat
      /\ tree.fb \in Nat /\ tree.fb + tree.fb_size \in Nat
  <2>1. Fan \in Nat
    BY Constants, Zenon
  <2>2. s.base \in Nat /\ s.guard \in Nat /\ s.span \in Nat
    BY Zenon DEF SlotsOk
  <2>3. tree.fb \in Nat /\ tree.fb_size \in Nat
    BY Zenon DEF DevicesFit
  <2>4. data \in SUBSET Rights
    BY Zenon
  <2> QED
    BY <2>1, <2>2, <2>3, <2>4
<1>2. lay_out(e, s, a, rights) = last
  BY Zenon DEF lay_out
<1>3. Became(e, R, a, heap, v1)
  BY <1>1, SlotPagesIn, MapCounted, Zenon
<1> HIDE DEF heap, v1
<1>4. Became(e, R, heap, slots, v2)
  <2>1. Good(e, R, heap) /\ TableView(e, heap.ram) = v1
    BY <1>3, Zenon DEF Became
  <2>2. Became(e, R, heap, slots, Over(TableView(e, heap.ram), PagesOf(s.guard + Fan, s.base + s.span), rights))
    BY <1>1, <2>1, SlotPagesIn, MapCounted, Zenon
  <2> QED
    BY <2>1, <2>2, Zenon
<1> HIDE DEF slots, v2, data
<1>5. Became(e, R, slots, shown, v3)
  <2>1. Good(e, R, slots) /\ TableView(e, slots.ram) = v2
    BY <1>4, Zenon DEF Became
  <2>2. CASE tree.fb = 0
    <3>1. v3 = v2
      <4>1. v2 = [p \in Pages |-> v2[p]]
        BY Zenon DEF v2, Over
      <4> QED
        BY <2>2, <4>1, Zenon DEF Over, DisplayPages
    <3>2. shown = slots
      BY <2>2, Zenon
    <3> HIDE DEF shown, v3
    <3> QED
      BY <2>1, <3>1, <3>2, Zenon DEF Became, OthersKept
  <2>3. CASE tree.fb # 0
    <3> DEFINE m == map(e, slots, tree.fb, tree.fb + tree.fb_size, data)
    <3>1. DisplayPages(tree) = PagesOf(tree.fb, tree.fb + tree.fb_size)
      BY <2>3, Zenon DEF DisplayPages
    <3>2. Became(e, R, slots, m, Over(TableView(e, slots.ram), PagesOf(tree.fb, tree.fb + tree.fb_size), data))
      BY <1>1, <2>1, <3>1, MapCounted, Zenon
    <3>3. shown = m
      BY <2>3, Zenon
    <3> HIDE DEF m, shown
    <3> QED
      BY <2>1, <3>1, <3>2, <3>3, Zenon
  <2> QED
    BY <2>2, <2>3, Zenon
<1> HIDE DEF shown, v3
<1>6. Became(e, R, shown, last, v4)
  <2>1. Good(e, R, shown) /\ TableView(e, shown.ram) = v3
    BY <1>5, Zenon DEF Became
  <2>2. CASE s.drives_engines
    <3> DEFINE m == MapWindows(e, shown, data)
    <3>1. Became(e, R, shown, m, Over(TableView(e, shown.ram), WindowPages(tree, Len(tree.windows)), data))
      BY <1>1, <2>1, MapWindowsIs, Zenon
    <3>2. last = m
      BY <2>2, Zenon
    <3> HIDE DEF m, last
    <3> QED
      BY <2>1, <2>2, <3>1, <3>2, Zenon DEF EnginePages
  <2>3. CASE ~s.drives_engines
    <3>1. v4 = v3
      <4>1. v3 = [p \in Pages |-> v3[p]]
        BY Zenon DEF v3, Over
      <4> QED
        BY <2>3, <4>1, Zenon DEF Over, EnginePages
    <3>2. last = shown
      BY <2>3, Zenon
    <3> HIDE DEF last, v4
    <3> QED
      BY <2>1, <3>1, <3>2, Zenon DEF Became, OthersKept
  <2> QED
    BY <2>2, <2>3, Zenon
<1> HIDE DEF last, v4
<1>7. OthersKept(e, a.ram, last.ram)
  BY <1>3, <1>4, <1>5, <1>6 DEF Became, OthersKept
<1>8. v4 = Laid(tree, s, rights, v0)
  BY Zenon DEF v1, v2, v3, v4, Over, Laid, SlotPages, data
<1> QED
  BY <1>2, <1>6, <1>7, <1>8, Zenon DEF Became

\* A new entry's root has nothing in it.
LEMMA FreshIs ==
    ASSUME NEW e \in Entries, NEW R, NEW a, a \in Accs, ~a.full,
           NEW b, b = [a EXCEPT !.ram[TablePage(e, 0)] = Empty, !.tables = 1]
    PROVE  Became(e, R, a, b, Blank)
<1> DEFINE z == TablePage(e, 0)
<1>1. 0 \in 0 .. PageTables - 1 /\ PageTables \in Nat /\ 1 \in 1 .. PageTables
  BY TreesAssumption
<1>2. z \in TablePages
  BY <1>1, TableIn, Zenon
<1>3. a.ram \in [TablePages -> Words] /\ Empty \in Words /\ \A i \in 0 .. Fan - 1 : Empty[i] = Invalid
  BY PteTypes, Zenon DEF Accs
<1> HIDE DEF z
<1>4. /\ b.ram = [a.ram EXCEPT ![z] = Empty] /\ b.tables = 1 /\ ~b.full /\ b \in Accs
  <2> DEFINE r == [a.ram EXCEPT ![z] = Empty]
  <2>1. b = [[a EXCEPT !.ram = r] EXCEPT !.tables = 1]
    BY Zenon DEF z, Accs
  <2>2. r \in [TablePages -> Words]
    BY <1>2, <1>3, Zenon
  <2> HIDE DEF r
  <2>3. b.ram = r /\ b.tables = 1 /\ b.full = a.full
    BY <2>1, Zenon DEF Accs
  <2>4. b \in Accs
    <3>1. a.full \in BOOLEAN /\ b = [ram |-> r, tables |-> 1, full |-> a.full]
      BY <2>1, Zenon DEF Accs
    <3> QED
      BY <2>2, <3>1 DEF Accs
  <2> QED
    BY <2>3, <2>4, Zenon DEF r
<1>5. \A i \in 0 .. Fan - 1 : Root(e, b.ram, i) = Invalid
  BY <1>2, <1>3, <1>4, Zenon DEF Root, z
<1>6. Used(e, b.ram) = {}
  BY <1>5, Zenon DEF Used
<1>7. Built(e, R, b.ram, 1)
  <2>1. Cardinality(Used(e, b.ram)) = 1 - 1
    BY <1>6, FS_EmptySet
  <2> QED
    BY <1>1, <1>6, <2>1, Zenon DEF Built
<1>8. TableView(e, b.ram) = Blank
  <2>1. \A p \in Pages : Mapped(e, b.ram, p) = Invalid
    BY <1>5, PageParts, Zenon DEF Mapped
  <2> QED
    BY <2>1, Zenon DEF TableView, Blank
<1>9. OthersKept(e, a.ram, b.ram)
  <2> SUFFICES ASSUME NEW f \in Entries, NEW l \in 0 .. PageTables - 1, f # e
               PROVE  b.ram[TablePage(f, l)] = a.ram[TablePage(f, l)]
    BY Zenon DEF OthersKept
  <2>1. TablePage(f, l) \in TablePages /\ TablePage(f, l) # z
    BY <1>1, TableIn, TablePageIs, Zenon DEF z
  <2> QED
    BY <1>2, <1>3, <1>4, <2>1
<1> QED
  BY <1>4, <1>7, <1>8, <1>9, Zenon DEF Became, Good

\* map_process(): whatever the entry's last process had mapped, the tables say what
\* the new one may reach and nothing else.
LEMMA MapProcessIs ==
    ASSUME DevicesFit(tree), NEW e \in Entries, ram \in [TablePages -> Words], spaces[e].tables \in Nat,
           spaces[e].tables # 0 =>
              /\ Built(e, Regions(tree), ram, spaces[e].tables) /\ SlotsOk(spaces[e])
              /\ TableView(e, ram) = Laid(tree, spaces[e], Rights, Blank),
           NEW s, SlotsOk(s)
    PROVE  LET b == map_process(e, s) IN
           /\ Good(e, Regions(tree), b)
           /\ TableView(e, b.ram) = Laid(tree, s, Rights, Blank)
           /\ OthersKept(e, ram, b.ram)
<1> DEFINE R == Regions(tree)
           kept == [ram |-> ram, tables |-> spaces[e].tables, full |-> FALSE]
           cleared == IF spaces[e].tables # 0 THEN lay_out(e, spaces[e], kept, {})
                      ELSE [kept EXCEPT !.ram[TablePage(e, 0)] = Empty, !.tables = 1]
           b == lay_out(e, s, cleared, Rights)
<1>1. map_process(e, s) = b
  BY Zenon DEF map_process, Rights
<1>2. kept \in Accs /\ ~kept.full /\ kept.ram = ram /\ kept.tables = spaces[e].tables
  BY Zenon DEF Accs
<1>3. Became(e, R, kept, cleared, Blank)
  <2>1. CASE spaces[e].tables # 0
    <3> DEFINE n == lay_out(e, spaces[e], kept, {})
    <3>1. Good(e, R, kept) /\ SlotsOk(spaces[e]) /\ TableView(e, kept.ram) = Laid(tree, spaces[e], Rights, Blank)
      BY <1>2, <2>1, Zenon DEF Good
    <3>2. {} \in SUBSET Rights /\ cleared = n
      BY <2>1, Zenon
    <3> HIDE DEF kept, cleared
    <3>3. Became(e, R, kept, n, Laid(tree, spaces[e], {}, TableView(e, kept.ram)))
      BY <3>1, <3>2, LayOutIs, Zenon
    <3>4. Laid(tree, spaces[e], {}, Laid(tree, spaces[e], Rights, Blank)) = Blank
      BY Zenon DEF Laid, LeafOf, Blank
    <3> HIDE DEF n
    <3> QED
      BY <3>1, <3>2, <3>3, <3>4, Zenon
  <2>2. CASE spaces[e].tables = 0
    <3> DEFINE n == [kept EXCEPT !.ram[TablePage(e, 0)] = Empty, !.tables = 1]
    <3>1. cleared = n
      BY <2>2, Zenon
    <3> HIDE DEF kept, cleared
    <3>2. Became(e, R, kept, n, Blank)
      BY <1>2, FreshIs, Zenon
    <3> QED
      BY <3>1, <3>2, Zenon
  <2> QED
    BY <2>1, <2>2, Zenon
<1> HIDE DEF kept, cleared
<1>4. Good(e, R, cleared) /\ TableView(e, cleared.ram) = Blank
  BY <1>3, Zenon DEF Became
<1>5. Became(e, R, cleared, b, Laid(tree, s, Rights, TableView(e, cleared.ram)))
  BY <1>4, LayOutIs, Zenon
<1> HIDE DEF b
<1>6. OthersKept(e, ram, b.ram)
  BY <1>2, <1>3, <1>5, Zenon DEF Became, OthersKept
<1>7. Good(e, R, b) /\ TableView(e, b.ram) = Laid(tree, s, Rights, Blank)
  BY <1>4, <1>5, Zenon DEF Became
<1> QED
  BY <1>1, <1>6, <1>7, Zenon

-----------------------------------------------------------------------------
(* Address spaces (Paging): tables, layouts and registers belong together. *)

\* What the kernel keeps of an entry's tables.
Spaces == [tables : Nat, base : Nat, span : Nat, guard : Nat, drives_engines : BOOLEAN]

\* The tables of an entry that has any say what its layout asks for.
SpaceBuilt(e) ==
    /\ Built(e, Regions(tree), ram, spaces[e].tables)
    /\ SlotsOk(spaces[e])
    /\ TableView(e, ram) = Laid(tree, spaces[e], Rights, Blank)

\* The layout of an entry is its process's.
SpaceOf(e) ==
    /\ spaces[e].base = procs[e].base /\ spaces[e].span = procs[e].span
    /\ spaces[e].drives_engines = ("accelerators" \in procs[e].flags)

\* No entry ran out of tables, and every live process has tables for its layout.
TablesInv ==
    /\ spaces \in [Entries -> Spaces]
    /\ ram \in [TablePages -> Words]
    /\ panic # "page tables full"
    /\ tree.found => DevicesFit(tree)
    /\ \A e \in Entries : spaces[e].tables # 0 => tree.found /\ SpaceBuilt(e)
    /\ \A e \in Entries : procs[e].state # "FREE" => spaces[e].tables # 0 /\ SpaceOf(e)

\* The registers are those of entry e.
HartIs(e) ==
    /\ hart.on /\ hart.root = TablePage(e, 0)
    /\ hart.pmpaddr = Pmp(procs[e]).pmpaddr /\ hart.pmpcfg = Pmp(procs[e]).pmpcfg

\* No two processes have a pid, and the registers are those of the process whose pid
\* protect() remembers, which is the one that runs.
HartInv ==
    /\ next_pid \in Nat /\ protected_pid \in Nat /\ protected_pid < next_pid
    /\ \A e \in Entries : procs[e].state # "FREE" =>
          /\ procs[e].pid < next_pid
          /\ procs[e].pid = protected_pid => HartIs(e)
          /\ \A f \in Entries : procs[f].state # "FREE" /\ procs[f].pid = procs[e].pid => f = e
    /\ current \in Entries => (procs[current].state = "RUNNING" => procs[current].pid = protected_pid)

\* What the kernel keeps of a tree.
FromTree(t) ==
    /\ tree.fb = t.fb /\ tree.fb_size = t.fb_size /\ tree.windows = t.windows
    /\ tree.region = Accelerators(t.windows)

\* Layout, tables, registers and tree.
SpacesInv ==
    /\ PagingInv /\ TablesInv /\ HartInv
    /\ tree.found => \E t \in Trees : FromTree(t)

\* Building one entry's tables leaves what the others' say.
LEMMA OthersView ==
    ASSUME NEW e \in Entries, NEW f \in Entries, f # e, NEW R, NEW r, NEW s, NEW t,
           OthersKept(e, r, s), Built(f, R, r, t)
    PROVE  Built(f, R, s, t) /\ TableView(f, s) = TableView(f, r)
<1>1. 0 \in 0 .. PageTables - 1 /\ PageTables \in Nat /\ t \in 1 .. PageTables
  BY Places, Zenon DEF Built
<1>2. \A k \in 0 .. PageTables - 1 : s[TablePage(f, k)] = r[TablePage(f, k)]
  BY Zenon DEF OthersKept
<1>3. \A i : Root(f, s, i) = Root(f, r, i)
  BY <1>1, <1>2, Zenon DEF Root
<1>4. Used(f, s) = Used(f, r)
  BY <1>3, Zenon DEF Used
<1>5. Built(f, R, s, t)
  BY <1>3, <1>4, Zenon DEF Built
<1>6. ASSUME NEW p \in Pages PROVE Mapped(f, s, p) = Mapped(f, r, p)
  <2> DEFINE i == p \div Fan
  <2>1. CASE Root(f, r, i) = Invalid
    BY <1>3, <2>1, Zenon DEF Mapped
  <2>2. CASE Root(f, r, i) # Invalid
    <3>1. i \in Used(f, r)
      BY <2>2, PageParts, Zenon DEF Used
    <3>2. PICK k \in 1 .. t - 1 : Root(f, r, i) = PointerTo(f, k)
      BY <3>1, Zenon DEF Built
    <3>3. k \in 0 .. PageTables - 1
      BY <1>1
    <3>4. Root(f, r, i).ppn = TablePage(f, k) /\ s[TablePage(f, k)] = r[TablePage(f, k)]
      BY <1>2, <3>2, <3>3, PteTypes, Zenon
    <3> QED
      BY <1>3, <2>2, <3>4, Zenon DEF Mapped
  <2> QED
    BY <2>1, <2>2, Zenon
<1>7. TableView(f, s) = TableView(f, r)
  BY <1>6, Zenon DEF TableView
<1> QED
  BY <1>5, <1>7, Zenon

\* Sums and differences of multiples.
LEMMA SumMultiple ==
    ASSUME NEW a \in Nat \ {0}, NEW x \in Nat, NEW y \in Nat, x % a = 0, y % a = 0
    PROVE  (x + y) % a = 0 /\ (y <= x => (x - y) % a = 0)
<1>1. PICK i \in Nat : x = i * a
  BY Multiple, Zenon
<1>2. PICK j \in Nat : y = j * a
  BY Multiple, Zenon
<1>3. x + y \in Nat /\ x + y = (i + j) * a + 0 /\ i + j \in Int /\ 0 \in 0 .. a - 1
  BY <1>1, <1>2
<1>4. (x + y) % a = 0
  BY <1>3, DivUnique, Zenon
<1>5. ASSUME y <= x PROVE (x - y) % a = 0
  <2>1. x - y \in Nat /\ x - y = (i - j) * a + 0 /\ i - j \in Int
    BY <1>1, <1>2, <1>5
  <2> QED
    BY <1>3, <2>1, DivUnique, Zenon
<1> QED
  BY <1>4, <1>5, Zenon

\* The same, with a remainder.
LEMMA MultipleThrough ==
    ASSUME NEW x \in Nat, NEW b \in Nat \ {0}, NEW a \in Nat \ {0}, x % b = 0, b % a = 0
    PROVE  x % a = 0
<1>1. PICK k \in Nat : x = k * a
  BY Through, Zenon
<1>2. x = k * a + 0 /\ 0 \in 0 .. a - 1 /\ k \in Int
  BY <1>1
<1> QED
  BY <1>2, DivUnique, Zenon

\* The layout spawn() gives a program whose header was accepted.
LEMMA ImageSlots ==
    ASSUME NEW m \in RamDisk \cup Images, entry_ok(m), NEW n \in Nat,
           NEW s, s = [tables |-> n, base |-> m.load, span |-> m.span, guard |-> m.load + m.span - m.stack,
                       drives_engines |-> "accelerators" \in m.flags]
    PROVE  SlotsOk(s) /\ s \in Spaces
<1> DEFINE l == m.load
           z == m.span
           t == m.stack
           w == Slots * SlotSize
<1>1. l \in Nat /\ z \in Nat /\ t \in Nat
  BY PagingAssumption, Zenon
<1>2. /\ z % SlotSize = 0 /\ l >= SlotBase /\ (l - SlotBase) % SlotSize = 0 /\ l <= SlotBase + w - z
      /\ t % Fan = 0 /\ t >= 2 * Fan /\ t < z
  BY Zenon DEF entry_ok
<1>3. w \in Nat /\ SlotBase \in Nat /\ Fan \in Nat \ {0} /\ SlotSize \in Nat \ {0}
          /\ SlotBase % Fan = 0 /\ SlotSize % Fan = 0
  BY Constants, Zenon
<1>4. s.base = l /\ s.span = z /\ s.guard = l + z - t /\ s.drives_engines \in BOOLEAN /\ s.tables = n
  OBVIOUS
<1>5. SlotsEnd = SlotBase + w
  BY Zenon DEF SlotsEnd
<1> HIDE DEF l, z, t, w
<1>6. z % Fan = 0 /\ l - SlotBase \in Nat /\ (l - SlotBase) % Fan = 0
  <2>1. l - SlotBase \in Nat
    BY <1>1, <1>2, <1>3
  <2> DEFINE o == l - SlotBase
  <2> HIDE DEF o
  <2>2. o % Fan = 0
    BY <1>2, <1>3, <2>1, MultipleThrough, Zenon DEF o
  <2>3. z % Fan = 0
    BY <1>1, <1>2, <1>3, MultipleThrough, Zenon
  <2> QED
    BY <2>1, <2>2, <2>3, Zenon DEF o
<1>7. l % Fan = 0
  <2> DEFINE o == l - SlotBase
  <2>1. o \in Nat /\ o % Fan = 0 /\ SlotBase + o = l
    BY <1>1, <1>3, <1>6
  <2> HIDE DEF o
  <2>2. (SlotBase + o) % Fan = 0
    BY <1>3, <2>1, SumMultiple, Zenon
  <2> QED
    BY <2>1, <2>2, Zenon
<1>8. (l + z) % Fan = 0
  BY <1>1, <1>3, <1>6, <1>7, SumMultiple, Zenon
<1>9. (l + z - t) % Fan = 0 /\ l + z - t \in Nat
  <2> DEFINE o == l + z
  <2>1. o \in Nat /\ t <= o /\ o - t \in Nat /\ l + z - t = o - t
    BY <1>1, <1>2
  <2>2. o % Fan = 0
    BY <1>8, Zenon
  <2> HIDE DEF o
  <2>3. (o - t) % Fan = 0
    BY <1>1, <1>2, <1>3, <2>1, <2>2, SumMultiple, Zenon
  <2> QED
    BY <2>1, <2>3, Zenon
<1>10. /\ SlotBase <= l /\ l <= l + z - t /\ (l + z - t) + Fan <= l + z /\ l + z <= SlotsEnd
  BY <1>1, <1>2, <1>3, <1>5
<1>11. SlotsOk(s)
  BY <1>1, <1>4, <1>7, <1>8, <1>9, <1>10, Zenon DEF SlotsOk
<1>12. s \in Spaces
  BY <1>1, <1>4, <1>9, Zenon DEF Spaces, l, z, t
<1> QED
  BY <1>11, <1>12, Zenon

\* Only the devices of a tree matter.
LEMMA SameDevices ==
    ASSUME NEW t, NEW u, u.fb = t.fb, u.fb_size = t.fb_size, u.windows = t.windows, DevicesFit(t)
    PROVE  DevicesFit(u)
<1>1. Regions(u) = Regions(t)
  BY Zenon DEF Regions
<1> QED
  BY <1>1, Zenon DEF DevicesFit, check_page_table_budget

\* A tree that passes check_page_table_budget() fits.
LEMMA TreesFit ==
    ASSUME NEW t \in Trees, check_page_table_budget(t)
    PROVE  DevicesFit(t)
BY TreesAssumption, Zenon DEF DevicesFit

\* A program that starts has its entry's tables rebuilt, the others' untouched.
LEMMA StartsTables ==
    ASSUME SpacesInv, NEW m \in RamDisk \cup Images, tree.found, Starts(m), UNCHANGED tree
    PROVE  TablesInv'
<1> DEFINE e == Min(FreeEntry)
           n == spaces[e].tables
           s == [tables |-> n, base |-> m.load, span |-> m.span, guard |-> m.load + m.span - m.stack,
                 drives_engines |-> "accelerators" \in m.flags]
           b == map_process(e, s)
           z == [s EXCEPT !.tables = b.tables]
           R == Regions(tree)
<1>1. entry_ok(m) /\ DevicesFit(tree) /\ ram \in [TablePages -> Words] /\ spaces \in [Entries -> Spaces]
  BY Zenon DEF Starts, SpacesInv, PagingInv, TablesInv
<1>2. e \in Entries
  BY FreeOne, Zenon DEF Starts
<1>3. n \in Nat
  <2>1. spaces[e] \in Spaces
    BY <1>1, <1>2, Zenon
  <2> QED
    BY <2>1, Zenon DEF Spaces
<1>4. /\ ram' = b.ram /\ spaces' = [spaces EXCEPT ![e] = z]
      /\ panic' = IF b.full THEN "page tables full" ELSE ""
      /\ \A i \in Entries : i # e => procs'[i] = procs[i]
      /\ procs'[e].base = m.load /\ procs'[e].span = m.span /\ procs'[e].flags = m.flags
  <2>1. /\ ram' = b.ram /\ spaces' = [spaces EXCEPT ![e] = z]
        /\ panic' = IF b.full THEN "page tables full" ELSE ""
    BY Zenon DEF Starts, spawn
  <2>2. /\ \A i \in Entries : i # e => procs'[i] = procs[i]
        /\ procs'[e].base = m.load /\ procs'[e].span = m.span /\ procs'[e].flags = m.flags
    <3> DEFINE k == ((m.load + m.memory_size + Align - 1) \div Align) * Align
               p == [state |-> "READY", pid |-> next_pid, base |-> m.load, span |-> m.span, flags |-> m.flags,
                   brk |-> k]
    <3>1. procs' = [procs EXCEPT ![e] = p]
      BY Zenon DEF Starts, spawn
    <3> HIDE DEF k, e
    <3>2. p.base = m.load /\ p.span = m.span /\ p.flags = m.flags
      BY Zenon
    <3>3. DOMAIN procs = Entries
      BY Zenon DEF SpacesInv, PagingInv
    <3> HIDE DEF p
    <3> QED
      BY <1>2, <3>1, <3>2, <3>3, Zenon DEF e
  <2> QED
    BY <2>1, <2>2, Zenon
<1>5. SlotsOk(s) /\ s \in Spaces
  BY <1>1, <1>3, ImageSlots, Zenon
<1>6. /\ s.base = m.load /\ s.span = m.span /\ s.drives_engines = ("accelerators" \in m.flags)
  BY Zenon
<1>7. spaces[e].tables # 0 =>
         /\ Built(e, R, ram, spaces[e].tables) /\ SlotsOk(spaces[e])
         /\ TableView(e, ram) = Laid(tree, spaces[e], Rights, Blank)
  BY <1>2, Zenon DEF SpacesInv, TablesInv, SpaceBuilt
<1> HIDE DEF s, e, b
<1>8. /\ Good(e, R, b) /\ TableView(e, b.ram) = Laid(tree, s, Rights, Blank) /\ OthersKept(e, ram, b.ram)
  <2>1. spaces[e].tables \in Nat
    BY <1>3, Zenon
  <2> QED
    BY <1>1, <1>2, <1>5, <1>7, <2>1, MapProcessIs, Zenon DEF b
<1>9. /\ b.ram \in [TablePages -> Words] /\ ~b.full /\ b.tables \in Nat
      /\ b.tables # 0 /\ Built(e, R, b.ram, b.tables)
  <2>1. b \in Accs /\ ~b.full /\ Built(e, R, b.ram, b.tables)
    BY <1>8, Zenon DEF Good
  <2>2. b.tables \in 1 .. PageTables /\ PageTables \in Nat
    BY <2>1, TreesAssumption, Zenon DEF Built
  <2> QED
    BY <2>1, <2>2 DEF Accs
<1>10. /\ z \in Spaces /\ z.tables = b.tables /\ z.base = s.base /\ z.span = s.span /\ z.guard = s.guard
       /\ z.drives_engines = s.drives_engines
  BY <1>5, <1>9, Zenon DEF Spaces
<1> HIDE DEF z
<1>11. SlotsOk(z) /\ Laid(tree, z, Rights, Blank) = Laid(tree, s, Rights, Blank)
  BY <1>5, <1>10, Zenon DEF SlotsOk, Laid, SlotPages, EnginePages
<1>12. spaces' \in [Entries -> Spaces] /\ spaces'[e] = z /\ \A i \in Entries : i # e => spaces'[i] = spaces[i]
  BY <1>1, <1>2, <1>4, <1>10, Zenon
<1>13. panic' # "page tables full"
  BY <1>4, <1>9, Zenon
<1>14. ASSUME NEW i \in Entries, spaces'[i].tables # 0
       PROVE  tree'.found /\ Built(i, Regions(tree'), ram', spaces'[i].tables) /\ SlotsOk(spaces'[i])
              /\ TableView(i, ram') = Laid(tree', spaces'[i], Rights, Blank)
  <2>1. CASE i = e
    <3>1. Built(e, Regions(tree'), ram', z.tables) /\ TableView(e, ram') = Laid(tree', z, Rights, Blank)
      BY <1>4, <1>8, <1>9, <1>10, <1>11, Zenon
    <3> QED
      BY <1>11, <1>12, <2>1, <3>1, Zenon
  <2>2. CASE i # e
    <3>1. spaces'[i] = spaces[i] /\ spaces[i].tables # 0
      BY <1>12, <1>14, <2>2, Zenon
    <3>2. Built(i, R, ram, spaces[i].tables) /\ SlotsOk(spaces[i])
              /\ TableView(i, ram) = Laid(tree, spaces[i], Rights, Blank)
      BY <3>1, Zenon DEF SpacesInv, TablesInv, SpaceBuilt
    <3>3. Built(i, R, b.ram, spaces[i].tables) /\ TableView(i, b.ram) = TableView(i, ram)
      BY <1>2, <1>8, <2>2, <3>2, OthersView, SMTT(30)
    <3> QED
      BY <1>4, <3>1, <3>2, <3>3, Zenon
  <2> QED
    BY <2>1, <2>2, Zenon
<1>15. ASSUME NEW i \in Entries, procs'[i].state # "FREE"
       PROVE  /\ spaces'[i].tables # 0
              /\ spaces'[i].base = procs'[i].base /\ spaces'[i].span = procs'[i].span
              /\ spaces'[i].drives_engines = ("accelerators" \in procs'[i].flags)
  <2>1. CASE i = e
    BY <1>4, <1>6, <1>9, <1>10, <1>12, <2>1, Zenon
  <2>2. CASE i # e
    BY <1>4, <1>12, <1>15, <2>2, Zenon DEF SpacesInv, TablesInv, SpaceOf
  <2> QED
    BY <2>1, <2>2, Zenon
<1>16. ram' \in [TablePages -> Words] /\ DevicesFit(tree')
  BY <1>1, <1>4, <1>9, Zenon
<1> QED
  BY <1>12, <1>13, <1>14, <1>15, <1>16, Zenon DEF TablesInv, SpaceBuilt, SpaceOf

\* A step that leaves the tables alone and starts nothing.
LEMMA OthersTables ==
    ASSUME SpacesInv,
           \A i \in Entries : procs'[i].state # "FREE" =>
              /\ procs[i].state # "FREE"
              /\ procs'[i].base = procs[i].base /\ procs'[i].span = procs[i].span
              /\ procs'[i].flags = procs[i].flags,
           UNCHANGED <<tree, spaces, ram, panic>>
    PROVE  TablesInv'
<1>1. ASSUME NEW i \in Entries, procs'[i].state # "FREE"
      PROVE  /\ spaces'[i].tables # 0
             /\ spaces'[i].base = procs'[i].base /\ spaces'[i].span = procs'[i].span
             /\ spaces'[i].drives_engines = ("accelerators" \in procs'[i].flags)
  BY <1>1, Zenon DEF SpacesInv, TablesInv, SpaceOf
<1>2. ASSUME NEW i \in Entries, spaces'[i].tables # 0
      PROVE  tree'.found /\ Built(i, Regions(tree'), ram', spaces'[i].tables) /\ SlotsOk(spaces'[i])
             /\ TableView(i, ram') = Laid(tree', spaces'[i], Rights, Blank)
  BY <1>2, Zenon DEF SpacesInv, TablesInv, SpaceBuilt
<1>3. /\ spaces' \in [Entries -> Spaces] /\ ram' \in [TablePages -> Words] /\ panic' # "page tables full"
      /\ tree'.found => DevicesFit(tree')
  BY Zenon DEF SpacesInv, TablesInv
<1> QED
  BY <1>1, <1>2, <1>3, Zenon DEF TablesInv, SpaceBuilt, SpaceOf

\* Boot(): no entry has tables yet, and the tree passes the budget.
LEMMA BootTables ==
    ASSUME SpacesInv, Boot
    PROVE  TablesInv' /\ (tree.found => \E t \in Trees : FromTree(t))'
<1>1. ~tree.found /\ UNCHANGED <<procs, spaces, ram>> /\ panic = ""
  BY Zenon DEF Boot
<1>2. PICK t \in Trees :
         IF ~TreeOk(t) \/ (\E m \in RamDisk : ~entry_ok(m)) \/ ~check_page_table_budget(t)
         THEN panic' = "boot" /\ UNCHANGED tree
         ELSE /\ tree' = [found |-> TRUE, fb |-> t.fb, fb_size |-> t.fb_size,
                          windows |-> t.windows, region |-> Accelerators(t.windows)]
              /\ UNCHANGED panic
  BY Zenon DEF Boot
<1>3. panic' # "page tables full"
  BY <1>1, <1>2, Zenon
<1>4. \A i \in Entries : spaces[i].tables = 0 /\ procs[i].state = "FREE"
  BY <1>1, Zenon DEF SpacesInv, TablesInv
<1>5. CASE tree' = tree
  BY <1>1, <1>3, <1>4, <1>5, Zenon DEF SpacesInv, TablesInv
<1>6. CASE tree' # tree
  <2>1. check_page_table_budget(t) /\ tree' = [found |-> TRUE, fb |-> t.fb, fb_size |-> t.fb_size,
                                               windows |-> t.windows, region |-> Accelerators(t.windows)]
    BY <1>2, <1>6, Zenon
  <2>2. tree'.fb = t.fb /\ tree'.fb_size = t.fb_size /\ tree'.windows = t.windows
            /\ tree'.region = Accelerators(t.windows)
    BY <2>1, Zenon
  <2>3. DevicesFit(tree')
    BY <2>1, <2>2, TreesFit, SameDevices, Zenon
  <2>4. TablesInv'
    BY <1>1, <1>3, <1>4, <2>3, Zenon DEF SpacesInv, TablesInv
  <2>5. FromTree(t)'
    BY <2>2, Zenon DEF FromTree
  <2> QED
    BY <2>4, <2>5, Zenon
<1> QED
  BY <1>5, <1>6, Zenon

\* protect() looks at a process's slots and flags only.
LEMMA SamePmp ==
    ASSUME NEW p, NEW q, p.base = q.base, p.span = q.span, p.flags = q.flags
    PROVE  Pmp(p) = Pmp(q)
BY Zenon DEF Pmp

\* A step that starts nothing and leaves the registers alone.
LEMMA OthersHart ==
    ASSUME SpacesInv,
           \A i \in Entries : procs'[i].state # "FREE" =>
              /\ procs[i].state # "FREE" /\ procs'[i].pid = procs[i].pid
              /\ procs'[i].base = procs[i].base /\ procs'[i].span = procs[i].span
              /\ procs'[i].flags = procs[i].flags
              /\ procs'[i].state = "RUNNING" => procs[i].state = "RUNNING",
           UNCHANGED <<tree, hart, protected_pid, next_pid, current>>
    PROVE  HartInv'
<1>1. ASSUME NEW i \in Entries, procs'[i].state # "FREE", procs'[i].pid = protected_pid'
      PROVE  HartIs(i)'
  <2>1. HartIs(i) /\ procs'[i].base = procs[i].base /\ procs'[i].span = procs[i].span
            /\ procs'[i].flags = procs[i].flags
    BY <1>1, Zenon DEF SpacesInv, HartInv
  <2>2. Pmp(procs'[i]) = Pmp(procs[i])
    BY <2>1, SamePmp, Zenon
  <2>3. Pmp(procs[i])' = Pmp(procs'[i])
    BY Zenon DEF Pmp
  <2> QED
    BY <2>1, <2>2, <2>3, Zenon DEF HartIs
<1>2. /\ (next_pid \in Nat /\ protected_pid \in Nat /\ protected_pid < next_pid)'
      /\ (current \in Entries => (procs[current].state = "RUNNING" => procs[current].pid = protected_pid))'
  BY Zenon DEF SpacesInv, HartInv
<1>3. ASSUME NEW i \in Entries, procs'[i].state # "FREE"
      PROVE  /\ procs'[i].pid < next_pid'
             /\ \A f \in Entries : procs'[f].state # "FREE" /\ procs'[f].pid = procs'[i].pid => f = i
  BY <1>3 DEF SpacesInv, HartInv
<1> QED
  BY <1>1, <1>2, <1>3, Zenon DEF HartInv

\* A program that starts has a pid nobody has, so the registers are not its.
LEMMA StartsHart ==
    ASSUME SpacesInv, NEW m \in RamDisk \cup Images, tree.found, Starts(m),
           UNCHANGED <<tree, hart, protected_pid, current>>
    PROVE  HartInv'
<1> DEFINE e == Min(FreeEntry)
           k == ((m.load + m.memory_size + Align - 1) \div Align) * Align
           p == [state |-> "READY", pid |-> next_pid, base |-> m.load, span |-> m.span, flags |-> m.flags,
               brk |-> k]
<1>1. e \in Entries
  BY FreeOne, Zenon DEF Starts
<1>2. procs' = [procs EXCEPT ![e] = p] /\ next_pid' = next_pid + 1
  BY Zenon DEF Starts, spawn
<1> HIDE DEF e, k
<1>3. p.pid = next_pid /\ p.state = "READY"
  BY Zenon
<1>4. DOMAIN procs = Entries
  BY Zenon DEF SpacesInv, PagingInv
<1> HIDE DEF p
<1>5. procs'[e] = p /\ \A i \in Entries : i # e => procs'[i] = procs[i]
  BY <1>1, <1>2, <1>4, Zenon
<1>6. next_pid \in Nat /\ protected_pid \in Nat /\ protected_pid < next_pid
  BY Zenon DEF SpacesInv, HartInv
<1>7. procs \in [Entries -> Processes]
  BY Zenon DEF SpacesInv, PagingInv
<1>8. \A i \in Entries : procs[i].pid \in Nat
  BY <1>7, Zenon DEF Processes
<1>9. ASSUME NEW i \in Entries, procs'[i].state # "FREE"
      PROVE  /\ procs'[i].pid < next_pid'
             /\ procs'[i].pid = protected_pid' => HartIs(i)'
             /\ \A f \in Entries : procs'[f].state # "FREE" /\ procs'[f].pid = procs'[i].pid => f = i
  <2>1. CASE i = e
    <3>1. procs'[i].pid = next_pid /\ procs'[i].pid # protected_pid'
      BY <1>3, <1>5, <1>6, <2>1
    <3>2. ASSUME NEW f \in Entries, procs'[f].state # "FREE", procs'[f].pid = procs'[i].pid PROVE f = i
      <4>1. CASE f # e
        <5>1. procs[f].pid < next_pid
          BY <1>5, <3>2, <4>1, Zenon DEF SpacesInv, HartInv
        <5> QED
          BY <1>5, <1>6, <1>8, <3>1, <3>2, <4>1, <5>1, SMTT(30)
      <4> QED
        BY <2>1, <4>1, Zenon
    <3> QED
      BY <1>2, <1>6, <3>1, <3>2
  <2>2. CASE i # e
    <3>1. procs'[i] = procs[i] /\ procs[i].state # "FREE"
      BY <1>5, <1>9, <2>2, Zenon
    <3>2. procs[i].pid < next_pid /\ (procs[i].pid = protected_pid => HartIs(i))
      BY <3>1, Zenon DEF SpacesInv, HartInv
    <3>3. procs'[i].pid = protected_pid' => HartIs(i)'
      BY <3>1, <3>2, Zenon DEF HartIs, Pmp
    <3>4. ASSUME NEW f \in Entries, procs'[f].state # "FREE", procs'[f].pid = procs'[i].pid PROVE f = i
      <4>1. CASE f = e
        BY <1>3, <1>5, <1>6, <1>8, <3>1, <3>2, <3>4, <4>1, SMTT(30)
      <4>2. CASE f # e
        BY <1>5, <3>1, <3>4, <4>2 DEF SpacesInv, HartInv
      <4> QED
        BY <4>1, <4>2, Zenon
    <3>5. procs'[i].pid < next_pid'
      BY <1>2, <1>6, <1>8, <3>1, <3>2, SMTT(30)
    <3> QED
      BY <3>3, <3>4, <3>5, Zenon
  <2> QED
    BY <2>1, <2>2, Zenon
<1>10. (current \in Entries => (procs[current].state = "RUNNING" => procs[current].pid = protected_pid))'
  BY <1>3, <1>5, Zenon DEF SpacesInv, HartInv
<1>11. (next_pid \in Nat /\ protected_pid \in Nat /\ protected_pid < next_pid)'
  BY <1>2, <1>6
<1> QED
  BY <1>9, <1>10, <1>11, Zenon DEF HartInv

\* protect(): the registers become those of the process that is entered.
LEMMA ScheduleHart ==
    ASSUME SpacesInv, NEW e \in Entries, Schedule(e)
    PROVE  /\ HartInv'
           /\ \A i \in Entries : procs'[i].state # "FREE" =>
                 /\ procs[i].state # "FREE"
                 /\ procs'[i].base = procs[i].base
                 /\ procs'[i].span = procs[i].span /\ procs'[i].flags = procs[i].flags
<1>1. procs[e].state = "READY" /\ UNCHANGED <<tree, next_pid>> /\ current' = e
  BY Zenon DEF Schedule
<1>2. ASSUME NEW i \in Entries
      PROVE  /\ procs'[i].state # "FREE" => procs[i].state # "FREE"
             /\ procs'[i].base = procs[i].base /\ procs'[i].span = procs[i].span
             /\ procs'[i].flags = procs[i].flags /\ procs'[i].pid = procs[i].pid
  <2> DEFINE r == [procs[i] EXCEPT !.state = "RUNNING"]
             q == [procs[i] EXCEPT !.state = "READY"]
  <2>1. procs[i] \in Processes
    BY Zenon DEF SpacesInv, PagingInv
  <2>2. /\ r.base = procs[i].base /\ r.span = procs[i].span /\ r.flags = procs[i].flags /\ r.pid = procs[i].pid
        /\ q.base = procs[i].base /\ q.span = procs[i].span /\ q.flags = procs[i].flags /\ q.pid = procs[i].pid
    BY <2>1, Zenon DEF Processes
  <2> HIDE DEF r, q
  <2>3. \/ procs'[i] = r /\ i = e
        \/ procs'[i] = q /\ procs[i].state = "RUNNING"
        \/ procs'[i] = procs[i]
    BY Zenon DEF Schedule, r, q
  <2> QED
    BY <1>1, <2>2, <2>3, Zenon
<1>3. \A i \in Entries : Pmp(procs[i])' = Pmp(procs[i])
  <2> SUFFICES ASSUME NEW i \in Entries PROVE Pmp(procs[i])' = Pmp(procs[i])
    BY Zenon
  <2>1. Pmp(procs[i])' = Pmp(procs'[i])
    BY <1>1, Zenon DEF Pmp
  <2>2. Pmp(procs'[i]) = Pmp(procs[i])
    BY <1>2, SamePmp, Zenon
  <2> QED
    BY <2>1, <2>2, Zenon
<1>4. next_pid \in Nat /\ protected_pid \in Nat /\ protected_pid < next_pid
          /\ procs[e].pid < next_pid /\ procs[e].pid \in Nat
  <2>1. procs[e] \in Processes
    BY Zenon DEF SpacesInv, PagingInv
  <2> QED
    BY <1>1, <2>1, Zenon DEF SpacesInv, HartInv, Processes
<1>5. protected_pid' = procs[e].pid /\ HartIs(e)'
  <2>1. CASE procs[e].pid = protected_pid
    <3>1. UNCHANGED <<protected_pid, hart>>
      BY <2>1, Zenon DEF Schedule, protect
    <3>2. HartIs(e)
      BY <1>1, <2>1, Zenon DEF SpacesInv, HartInv
    <3> QED
      BY <1>3, <2>1, <3>1, <3>2, Zenon DEF HartIs
  <2>2. CASE procs[e].pid # protected_pid
    <3>1. /\ protected_pid' = procs[e].pid
          /\ hart' = [on |-> TRUE, root |-> TablePage(e, 0),
                      pmpaddr |-> Pmp(procs[e]).pmpaddr, pmpcfg |-> Pmp(procs[e]).pmpcfg]
      BY <2>2, Zenon DEF Schedule, protect
    <3> QED
      BY <1>3, <3>1, Zenon DEF HartIs
  <2> QED
    BY <2>1, <2>2, Zenon
<1>6. ASSUME NEW i \in Entries, procs'[i].state # "FREE"
      PROVE  /\ procs'[i].pid < next_pid'
             /\ procs'[i].pid = protected_pid' => HartIs(i)'
             /\ \A f \in Entries : procs'[f].state # "FREE" /\ procs'[f].pid = procs'[i].pid => f = i
  <2>1. procs[i].state # "FREE" /\ procs[i].pid < next_pid
        /\ \A f \in Entries : procs[f].state # "FREE" /\ procs[f].pid = procs[i].pid => f = i
    BY <1>2, <1>6, Zenon DEF SpacesInv, HartInv
  <2>2. procs'[i].pid = protected_pid' => i = e
    BY <1>1, <1>2, <1>5, <2>1, Zenon
  <2> QED
    BY <1>1, <1>2, <1>5, <2>1, <2>2, Zenon
<1>7. (next_pid \in Nat /\ protected_pid \in Nat /\ protected_pid < next_pid)'
  BY <1>1, <1>4, <1>5, Zenon
<1>8. procs'[e].pid = protected_pid'
  BY <1>2, <1>5, Zenon
<1>9. HartInv'
  BY <1>1, <1>6, <1>7, <1>8, Zenon DEF HartInv
<1> QED
  BY <1>2, <1>9, Zenon

\* At power-on there are no processes and no tables.
LEMMA SpacesInit ==
    ASSUME PagingInit
    PROVE  SpacesInv
<1>1. PagingInv
  BY PagingInitInv, Zenon
<1>2. \A e \in Entries : procs[e].state = "FREE" /\ spaces[e] = NoSpace
          /\ spaces[e].tables = 0 /\ spaces[e] \in Spaces
  BY NobodyIs, Zenon DEF PagingInit, NoSpace, Spaces
<1>3. /\ spaces \in [Entries -> Spaces] /\ ram \in [TablePages -> Words]
      /\ panic # "page tables full" /\ ~tree.found
  BY <1>2, PteTypes, Zenon DEF PagingInit, TablePages
<1>3a. next_pid = 1 /\ protected_pid = 0 /\ current = MaxProcs
  BY Zenon DEF PagingInit
<1>4. TablesInv
  BY <1>2, <1>3, Zenon DEF TablesInv
<1>5. HartInv
  <2>1. current \notin Entries
    <3>1. MaxProcs \in Nat
      BY TreesAssumption, Zenon
    <3> QED
      BY <1>3a, <3>1 DEF Entries
  <2>2. next_pid \in Nat /\ protected_pid \in Nat /\ protected_pid < next_pid
    BY <1>3a
  <2> QED
    BY <1>2, <2>1, <2>2, Zenon DEF HartInv
<1> QED
  BY <1>1, <1>3, <1>4, <1>5, Zenon DEF SpacesInv

\* The tree is found once.
LEMMA FromTreeKept ==
    ASSUME SpacesInv, UNCHANGED tree
    PROVE  (tree.found => \E t \in Trees : FromTree(t))'
<1> SUFFICES ASSUME tree'.found PROVE \E t \in Trees : FromTree(t)'
  BY Zenon
<1>1. PICK t \in Trees : FromTree(t)
  BY Zenon DEF SpacesInv
<1>2. FromTree(t)'
  BY <1>1, Zenon DEF FromTree
<1> QED
  BY <1>2, Zenon

\* spawn() and Boot().
LEMMA StartsSpaces ==
    ASSUME SpacesInv, NEW m \in RamDisk \cup Images, tree.found, Starts(m),
           UNCHANGED <<tree, protected_pid, hart, current>>
    PROVE  SpacesInv'
<1>1. PagingInv'
  BY StartsKeeps, Zenon DEF SpacesInv
<1>2. TablesInv' /\ HartInv'
  BY StartsTables, StartsHart, Zenon
<1> QED
  BY <1>1, <1>2, FromTreeKept, Zenon DEF SpacesInv

\* A step that leaves everything but some entries, none of which it starts.
LEMMA OthersSpaces ==
    ASSUME SpacesInv, PagingInv',
           \A i \in Entries : procs'[i].state # "FREE" =>
              /\ procs[i].state # "FREE" /\ procs'[i].pid = procs[i].pid
              /\ procs'[i].base = procs[i].base /\ procs'[i].span = procs[i].span
              /\ procs'[i].flags = procs[i].flags
              /\ procs'[i].state = "RUNNING" => procs[i].state = "RUNNING",
           UNCHANGED <<tree, spaces, ram, protected_pid, hart, current, next_pid, panic>>
    PROVE  SpacesInv'
<1>1. TablesInv'
  BY OthersTables, Zenon
<1>2. HartInv'
  BY OthersHart, Zenon
<1> QED
  BY <1>1, <1>2, FromTreeKept, Zenon DEF SpacesInv

\* SYS_SBRK moves the break, which no table or register depends on.
LEMMA SbrkSpaces ==
    ASSUME SpacesInv, NEW e \in Entries, NEW n \in Increments, Sbrk(e, n)
    PROVE  SpacesInv'
<1>1. PagingInv'
  BY SbrkKeeps, Zenon DEF SpacesInv
<1>2. UNCHANGED <<tree, spaces, ram, protected_pid, hart, current, next_pid, panic>>
  BY Zenon DEF Sbrk
<1> DEFINE c == (procs[e].brk + n) % Space
           q == [procs[e] EXCEPT !.brk = c]
<1>3. procs' = [procs EXCEPT ![e] = q]
  BY Zenon DEF Sbrk
<1>4. procs[e] \in Processes /\ DOMAIN procs = Entries
  BY Zenon DEF SpacesInv, PagingInv
<1> HIDE DEF c
<1>5. q.state = procs[e].state /\ q.pid = procs[e].pid /\ q.base = procs[e].base
          /\ q.span = procs[e].span /\ q.flags = procs[e].flags
  BY <1>4, Zenon DEF Processes
<1> HIDE DEF q
<1>6. procs'[e] = q /\ \A i \in Entries : i # e => procs'[i] = procs[i]
  BY <1>3, <1>4, Zenon
<1> QED
  BY <1>1, <1>2, <1>5, <1>6, OthersSpaces, Zenon

\* A process that ends or is reaped leaves tables and registers as they are.
LEMMA EndSpaces ==
    ASSUME SpacesInv, NEW e \in Entries, Finish(e) \/ Reap(e)
    PROVE  SpacesInv'
<1>1. PagingInv'
  BY EndKeeps, Zenon DEF SpacesInv
<1>2. UNCHANGED <<tree, spaces, ram, protected_pid, hart, current, next_pid, panic>>
  BY Zenon DEF Finish, Reap
<1> DEFINE z == [procs[e] EXCEPT !.state = "ZOMBIE"]
<1>3. procs' = [procs EXCEPT ![e] = z] \/ procs' = [procs EXCEPT ![e] = Nobody]
  BY Zenon DEF Finish, Reap
<1>4. procs[e] \in Processes /\ DOMAIN procs = Entries /\ procs[e].state # "FREE"
  BY Zenon DEF SpacesInv, PagingInv, Finish, Reap, Calls
<1>5. z.state = "ZOMBIE" /\ z.pid = procs[e].pid /\ z.base = procs[e].base
          /\ z.span = procs[e].span /\ z.flags = procs[e].flags
  BY <1>4, Zenon DEF Processes
<1> HIDE DEF z
<1>6. (procs'[e] = z \/ procs'[e] = Nobody) /\ \A i \in Entries : i # e => procs'[i] = procs[i]
  BY <1>3, <1>4, Zenon
<1> QED
  BY <1>1, <1>2, <1>4, <1>5, <1>6, NobodyIs, OthersSpaces, Zenon

\* Every step of the kernel keeps the invariant.
LEMMA SpacesStep ==
    ASSUME SpacesInv, [PagingNext]_pagingVars
    PROVE  SpacesInv'
<1>0. PagingInv
  BY Zenon DEF SpacesInv
<1>1. CASE Boot
  <2>1. PagingInv'
    BY <1>0, <1>1, BootKeeps, Zenon
  <2>2. TablesInv' /\ (tree.found => \E t \in Trees : FromTree(t))'
    BY <1>1, BootTables, Zenon
  <2>3. HartInv'
    <3>1. ~tree.found /\ UNCHANGED <<procs, protected_pid, hart, current, next_pid>>
      BY <1>1, Zenon DEF Boot
    <3>2. \A i \in Entries : procs[i].state = "FREE"
      BY <3>1, Zenon DEF SpacesInv, TablesInv
    <3> QED
      BY <3>1, <3>2, Zenon DEF SpacesInv, HartInv
  <2> QED
    BY <2>1, <2>2, <2>3, Zenon DEF SpacesInv
<1>2. CASE StartShell
  <2>1. Shell \in RamDisk \cup Images /\ tree.found /\ Starts(Shell)
            /\ UNCHANGED <<tree, protected_pid, hart, current>>
    BY <1>2, PagingAssumption, Zenon DEF StartShell, Up
  <2> QED
    BY <2>1, StartsSpaces, Zenon
<1>3. ASSUME NEW e \in Entries, Schedule(e) PROVE SpacesInv'
  <2>1. PagingInv'
    BY <1>0, <1>3, ScheduleKeeps, Zenon
  <2>2. /\ HartInv'
        /\ \A i \in Entries : procs'[i].state # "FREE" =>
              /\ procs[i].state # "FREE"
              /\ procs'[i].base = procs[i].base /\ procs'[i].span = procs[i].span
              /\ procs'[i].flags = procs[i].flags
    BY <1>3, ScheduleHart, Zenon
  <2>3. UNCHANGED <<tree, spaces, ram, panic>>
    BY <1>3, Zenon DEF Schedule
  <2>4. TablesInv'
    BY <2>2, <2>3, OthersTables, Zenon
  <2> QED
    BY <2>1, <2>2, <2>3, <2>4, FromTreeKept, Zenon DEF SpacesInv
<1>4. ASSUME NEW e \in Entries, NEW m \in Images, Spawn(e, m) PROVE SpacesInv'
  <2>1. m \in RamDisk \cup Images /\ tree.found /\ Starts(m) /\ UNCHANGED <<tree, protected_pid, hart, current>>
    BY <1>4, Zenon DEF Spawn, Calls, Up
  <2> QED
    BY <2>1, StartsSpaces, Zenon
<1>5. ASSUME NEW e \in Entries, NEW n \in Increments, Sbrk(e, n) PROVE SpacesInv'
  BY <1>5, SbrkSpaces, Zenon
<1>6. ASSUME NEW e \in Entries, Finish(e) \/ Reap(e) PROVE SpacesInv'
  BY <1>6, EndSpaces, Zenon
<1>7. CASE UNCHANGED pagingVars
  <2>1. UNCHANGED <<tree, procs, spaces, ram, protected_pid, hart, current, next_pid, panic>>
    BY <1>7, Zenon DEF pagingVars
  <2>2. PagingInv'
    BY <1>0, PagingStep, Zenon
  <2> QED
    BY <2>1, <2>2, OthersSpaces, Zenon
<1> QED
  BY <1>1, <1>2, <1>3, <1>4, <1>5, <1>6, <1>7, SMTT(30) DEF PagingNext

\* A tree the boot check accepts never runs an entry out of page tables, for every
\* number of entries and tables, every tree and every sequence of programs in an entry:
\* each table in use is for a region that check_page_table_budget() counted, and what
\* map() takes one for is a region that has none (map(), map_process()).
THEOREM BudgetIsSound ==
    PagingInit /\ [][PagingNext]_pagingVars => []BudgetSound
<1>1. ASSUME SpacesInv PROVE BudgetSound
  BY <1>1, Zenon DEF SpacesInv, TablesInv, BudgetSound
<1> QED
  BY <1>1, SpacesInit, SpacesStep, PTL

-----------------------------------------------------------------------------
(* What user mode reaches: the PMP, the walk, and both. *)

\* The words PMP entry i grants, of the entries protect() turns on.
InEntry(p, i, w) ==
    \/ i = 1 /\ p.base <= w /\ w < p.base + p.span
    \/ i = 3 /\ tree.fb # 0 /\ tree.fb <= w /\ w < tree.fb + tree.fb_size
    \/ i = 5 /\ "accelerators" \in p.flags /\ tree.region.end # 0 /\ tree.region.base <= w /\ w < tree.region.end
    \/ i = 7 /\ TablesStart * Fan <= w /\ w < TablesEnd * Fan

\* What the entry then grants.
RightsOf(i) == IF i = 1 THEN Rights ELSE IF i = 7 THEN {"R"} ELSE {"R", "W"}

\* The registers, entry by entry.
LEMMA PmpEntriesAre ==
    ASSUME NEW p
    PROVE  LET a == Pmp(p).pmpaddr
               g == Pmp(p).pmpcfg
           IN  /\ a[0] = p.base /\ a[1] = p.base + p.span /\ a[2] = tree.fb /\ a[3] = tree.fb + tree.fb_size
               /\ a[4] = tree.region.base /\ a[5] = tree.region.end
               /\ a[6] = TablesStart * Fan /\ a[7] = TablesEnd * Fan
               /\ g[0] = OffEntry /\ g[1] = Tor({"R", "W", "X"}) /\ g[2] = OffEntry
               /\ g[3] = IF tree.fb # 0 THEN Tor({"R", "W"}) ELSE OffEntry
               /\ g[4] = OffEntry
               /\ g[5] = IF "accelerators" \in p.flags /\ tree.region.end # 0 THEN Tor({"R", "W"}) ELSE OffEntry
               /\ g[6] = OffEntry /\ g[7] = Tor({"R"})
<1> DEFINE addr == <<p.base, p.base + p.span, tree.fb, tree.fb + tree.fb_size,
                     tree.region.base, tree.region.end, TablesStart * Fan, TablesEnd * Fan>>
           x3 == IF tree.fb # 0 THEN Tor({"R", "W"}) ELSE OffEntry
           x5 == IF "accelerators" \in p.flags /\ tree.region.end # 0 THEN Tor({"R", "W"}) ELSE OffEntry
           x1 == Tor({"R", "W", "X"})
           x7 == Tor({"R"})
           cfg == <<OffEntry, x1, OffEntry, x3, OffEntry, x5, OffEntry, x7>>
           fa == [i \in 0 .. 7 |-> addr[i + 1]]
           fg == [i \in 0 .. 7 |-> cfg[i + 1]]
<1>1. Pmp(p) = [pmpaddr |-> fa, pmpcfg |-> fg]
  BY Zenon DEF Pmp
<1>2. Pmp(p).pmpaddr = fa /\ Pmp(p).pmpcfg = fg
  <2> HIDE DEF fa, fg
  <2> QED
    BY <1>1
<1>3. /\ fa[0] = p.base /\ fa[1] = p.base + p.span /\ fa[2] = tree.fb /\ fa[3] = tree.fb + tree.fb_size
      /\ fa[4] = tree.region.base /\ fa[5] = tree.region.end
      /\ fa[6] = TablesStart * Fan /\ fa[7] = TablesEnd * Fan
  OBVIOUS
<1> HIDE DEF x1, x3, x5, x7
<1>4. /\ fg[0] = OffEntry /\ fg[1] = x1 /\ fg[2] = OffEntry /\ fg[3] = x3
      /\ fg[4] = OffEntry /\ fg[5] = x5 /\ fg[6] = OffEntry /\ fg[7] = x7
  OBVIOUS
<1> HIDE DEF fa, fg
<1> QED
  BY <1>2, <1>3, <1>4, Zenon DEF x1, x3, x5, x7

\* The two settings of an entry.
LEMMA EntryKinds ==
    /\ OffEntry.a = "OFF"
    /\ \A r : Tor(r).a = "TOR" /\ Tor(r).rights = r
BY Zenon DEF OffEntry, Tor

\* Which words match an entry, and what it then allows.
LEMMA MatchesIs ==
    ASSUME NEW c, NEW p, c.pmpaddr = Pmp(p).pmpaddr, c.pmpcfg = Pmp(p).pmpcfg, NEW w \in Nat, NEW i \in 0 .. 7
    PROVE  /\ Matches(c, i, w) <=> InEntry(p, i, w)
           /\ InEntry(p, i, w) => c.pmpcfg[i].rights = RightsOf(i)
<1> DEFINE a == c.pmpaddr
           g == c.pmpcfg
<1>1. /\ a[0] = p.base /\ a[1] = p.base + p.span /\ a[2] = tree.fb /\ a[3] = tree.fb + tree.fb_size
      /\ a[4] = tree.region.base /\ a[5] = tree.region.end
      /\ a[6] = TablesStart * Fan /\ a[7] = TablesEnd * Fan
      /\ g[0] = OffEntry /\ g[1] = Tor({"R", "W", "X"}) /\ g[2] = OffEntry
      /\ g[3] = IF tree.fb # 0 THEN Tor({"R", "W"}) ELSE OffEntry
      /\ g[4] = OffEntry
      /\ g[5] = IF "accelerators" \in p.flags /\ tree.region.end # 0 THEN Tor({"R", "W"}) ELSE OffEntry
      /\ g[6] = OffEntry /\ g[7] = Tor({"R"})
  BY PmpEntriesAre
<1>2. Matches(c, i, w) <=> \/ /\ g[i].a = "TOR" /\ w >= IF i = 0 THEN 0 ELSE a[i - 1]
                              /\ w < a[i]
                           \/ g[i].a = "NA4" /\ w = a[i]
                           \/ /\ g[i].a = "NAPOT"
                              /\ \E s \in NapotSizes : (a[i] % s) = (s \div 2) - 1 /\ w \div s = a[i] \div s
  BY Zenon DEF Matches
<1> HIDE DEF a, g
<1>3. g[i].a \in {"TOR", "OFF"}
  <2>1. i = 0 \/ i = 1 \/ i = 2 \/ i = 3 \/ i = 4 \/ i = 5 \/ i = 6 \/ i = 7
    OBVIOUS
  <2> QED
    BY <1>1, <2>1, EntryKinds, SMTT(30)
<1>4. Matches(c, i, w) <=> g[i].a = "TOR" /\ (w >= IF i = 0 THEN 0 ELSE a[i - 1]) /\ w < a[i]
  BY <1>2, <1>3, Zenon
<1>5. CASE i \in {0, 2, 4, 6}
  BY <1>1, <1>4, <1>5, EntryKinds, SMTT(30) DEF InEntry
<1>6. CASE i = 1
  <2>1. g[1].a = "TOR" /\ g[1].rights = {"R", "W", "X"} /\ i - 1 = 0
    BY <1>1, <1>6, EntryKinds, SMTT(30)
  <2> QED
    BY <1>1, <1>4, <1>6, <2>1, SMTT(30) DEF InEntry, RightsOf, Rights, g
<1>7. CASE i = 3
  <2>1. i - 1 = 2 /\ (g[3].a = "TOR" <=> tree.fb # 0) /\ (tree.fb # 0 => g[3].rights = {"R", "W"})
    BY <1>1, <1>7, EntryKinds, SMTT(30)
  <2> QED
    BY <1>1, <1>4, <1>7, <2>1, SMTT(30) DEF InEntry, RightsOf, g
<1>8. CASE i = 5
  <2>1. /\ i - 1 = 4 /\ (g[5].a = "TOR" <=> "accelerators" \in p.flags /\ tree.region.end # 0)
        /\ "accelerators" \in p.flags /\ tree.region.end # 0 => g[5].rights = {"R", "W"}
    BY <1>1, <1>8, EntryKinds, SMTT(30)
  <2> QED
    BY <1>1, <1>4, <1>8, <2>1, SMTT(30) DEF InEntry, RightsOf, g
<1>9. CASE i = 7
  <2>1. g[7].a = "TOR" /\ g[7].rights = {"R"} /\ i - 1 = 6
    BY <1>1, <1>9, EntryKinds
  <2> QED
    BY <1>1, <1>4, <1>9, <2>1, SMTT(30) DEF InEntry, RightsOf, g
<1> QED
  BY <1>5, <1>6, <1>7, <1>8, <1>9, SMTT(30)

\* pmp_allows() below machine mode: an entry that matches and comes before the others.
LEMMA PmpIs ==
    ASSUME NEW c, NEW p, c.pmpaddr = Pmp(p).pmpaddr, c.pmpcfg = Pmp(p).pmpcfg, NEW w \in Nat,
           NEW priv, priv # M, NEW need
    PROVE  pmp_allows(c, priv, w, need) <=>
              \E i \in 0 .. 7 : /\ InEntry(p, i, w) /\ need \subseteq RightsOf(i)
                                /\ \A j \in 0 .. 7 : InEntry(p, j, w) => i <= j
<1> DEFINE hits == {i \in 0 .. PmpEntries - 1 : Matches(c, i, w)}
<1>1. PmpEntries - 1 = 7
  BY TreesAssumption
<1>2. hits = {i \in 0 .. 7 : InEntry(p, i, w)}
  BY <1>1, MatchesIs, Zenon
<1>3. pmp_allows(c, priv, w, need) <=> hits # {} /\ need \subseteq c.pmpcfg[Min(hits)].rights
  BY Zenon DEF pmp_allows
<1> HIDE DEF hits
<1>4. CASE hits = {}
  BY <1>2, <1>3, <1>4, Zenon
<1>5. CASE hits # {}
  <2>1. hits \in SUBSET Nat
    BY <1>2
  <2>2. PICK n \in hits : \A m \in hits : n <= m
    BY <1>5, <2>1, LeastNat, Zenon
  <2>3. Min(hits) \in hits /\ \A m \in hits : Min(hits) <= m
    BY <2>2, Zenon DEF Min
  <2> DEFINE k == Min(hits)
  <2> HIDE DEF k
  <2>4. k \in 0 .. 7 /\ InEntry(p, k, w) /\ \A j \in 0 .. 7 : InEntry(p, j, w) => k <= j
    BY <1>2, <2>3, Zenon DEF k
  <2>5. c.pmpcfg[k].rights = RightsOf(k)
    BY <2>4, MatchesIs, Zenon
  <2>6. \A i \in 0 .. 7 : InEntry(p, i, w) /\ (\A j \in 0 .. 7 : InEntry(p, j, w) => i <= j) => i = k
    BY <2>4
  <2> QED
    BY <1>3, <1>5, <2>4, <2>5, <2>6, SMTT(30) DEF k
<1> QED
  BY <1>4, <1>5, Zenon

\* The tables are in RAM.
LEMMA TableBounds == TablesStart \in Nat /\ TablesEnd \in Nat /\ TablePages \subseteq RamPages
<1>1. TablesStart \in Nat /\ MaxProcs \in Nat /\ PageTables \in Nat
  BY TreesAssumption, Zenon
<1>2. MaxProcs * PageTables \in Nat
  BY <1>1
<1>3. TablesEnd \in Nat
  BY <1>1, <1>2 DEF TablesEnd
<1>4. TablePages \subseteq RamPages
  BY TreesAssumption, Zenon DEF TablePages
<1> QED
  BY <1>1, <1>3, <1>4, Zenon

\* The walker may read every table, whichever entry of the PMP it falls in.
LEMMA TableReadable ==
    ASSUME NEW c, NEW p, c.pmpaddr = Pmp(p).pmpaddr, c.pmpcfg = Pmp(p).pmpcfg,
           NEW table \in TablePages, NEW i \in 0 .. Fan - 1
    PROVE  Readable(c, table, i)
<1> DEFINE w == table * Fan + i
<1>1. TablesStart \in Nat /\ TablesEnd \in Nat /\ table \in RamPages /\ Fan \in Nat \ {0}
  BY TableBounds, Constants, Zenon
<1>2. table \in Nat /\ TablesStart <= table /\ table + 1 <= TablesEnd
  BY <1>1 DEF TablePages
<1> HIDE DEF TablesEnd
<1>3. TablesStart * Fan <= table * Fan /\ (table + 1) * Fan <= TablesEnd * Fan
  BY <1>1, <1>2, ProductOrder
<1>4. /\ table * Fan \in Nat /\ TablesStart * Fan \in Nat
      /\ TablesEnd * Fan \in Nat /\ (table + 1) * Fan = table * Fan + Fan
  BY <1>1, <1>2
<1>5. w \in Nat /\ TablesStart * Fan <= w /\ w < TablesEnd * Fan
  BY <1>1, <1>2, <1>3, <1>4
<1> HIDE DEF w
<1>6. InEntry(p, 7, w)
  BY <1>5, Zenon DEF InEntry
<1> DEFINE hits == {j \in 0 .. 7 : InEntry(p, j, w)}
<1>7. PICK k \in hits : \A j \in hits : k <= j
  <2>1. hits \in SUBSET Nat /\ hits # {}
    BY <1>6
  <2> QED
    BY <2>1, LeastNat, Zenon
<1>8. {"R"} \subseteq RightsOf(k)
  BY Zenon DEF RightsOf, Rights
<1>9. S # M
  BY DEF S, M
<1>10. pmp_allows(c, S, w, {"R"})
  BY <1>5, <1>7, <1>8, <1>9, PmpIs, Zenon
<1> QED
  BY <1>1, <1>10, Zenon DEF Readable, w

\* The walker reads the tables from RAM.
LEMMA PteIs ==
    ASSUME NEW c, c.ram \in [TablePages -> Words], NEW table \in TablePages, NEW i
    PROVE  Pte(c, table, i) = c.ram[table][i]
<1>1. DOMAIN c.ram = TablePages
  BY Zenon
<1> QED
  BY <1>1, Zenon DEF Pte

\* A leaf that lay_out() wrote: the page itself, unless it is fetched from and has no X.
LEMMA LeafGives ==
    ASSUME NEW c, NEW w \in 0 .. Space - 1, NEW kind \in Kinds, NEW rights \in {Rights, Rights \ {"X"}},
           NEW pte, pte = LeafOf(rights, w \div Fan)
    PROVE  /\ ~Malformed(pte) /\ ~Pointer(pte)
           /\ Leaf(c, pte, 0, w, kind, U) = IF kind = "fetch" /\ "X" \notin rights THEN PageFault ELSE Ok(w)
<1>1. pte.bits = rights \cup {"V", "U", "A", "D"} /\ pte.ppn = w \div Fan
  BY DEF LeafOf, Rights
<1>2. "R" \in pte.bits /\ "W" \in pte.bits /\ ("X" \in pte.bits <=> "X" \in rights)
      /\ "V" \in pte.bits /\ "U" \in pte.bits /\ "A" \in pte.bits /\ "D" \in pte.bits
  BY <1>1, Zenon DEF Rights
<1>3. ~Malformed(pte) /\ ~Pointer(pte)
  BY <1>2, Zenon DEF Malformed, Pointer
<1>4. Fan \in Nat \ {0} /\ Space \in Nat /\ w \in Nat /\ w < Space
  BY Constants
<1>5. (w \div Fan) * Fan + (w % Fan) = w
  BY <1>4, Quotient, Zenon
<1> DEFINE address == pte.ppn * Fan + (w % Fan)
           allowed == \/ kind = "fetch" /\ "X" \in pte.bits
                      \/ kind = "store" /\ {"W", "D"} \subseteq pte.bits
                      \/ kind = "load" /\ ("R" \in pte.bits \/ (c.mxr /\ "X" \in pte.bits))
<1>6. address = w /\ ~(address >= Space)
  BY <1>1, <1>4, <1>5
<1>7. allowed <=> ~(kind = "fetch" /\ "X" \notin rights)
  BY <1>2, Zenon DEF Kinds
<1>8. Leaf(c, pte, 0, w, kind, U) =
         IF \/ 0 = 1 /\ pte.ppn % Fan # 0
            \/ IF U = U THEN "U" \notin pte.bits ELSE "U" \in pte.bits /\ (kind = "fetch" \/ ~c.sum)
            \/ ~allowed
            \/ "A" \notin pte.bits
         THEN PageFault
         ELSE IF address >= Space THEN Fault ELSE Ok(address)
  BY DEF Leaf
<1> HIDE DEF allowed, address
<1> QED
  BY <1>2, <1>3, <1>6, <1>7, <1>8, SMTT(30)

\* The words of a page, and its place in the tables.
LEMMA WordParts ==
    ASSUME NEW w \in 0 .. Space - 1
    PROVE  /\ w \div Fan \in Pages
           /\ (w \div (Fan * Fan)) % Fan = (w \div Fan) \div Fan
           /\ (w \div Fan) \div Fan \in 0 .. Fan - 1 /\ (w \div Fan) % Fan \in 0 .. Fan - 1
<1> DEFINE p == w \div Fan
<1>1. Fan \in Nat \ {0} /\ Space \in Nat /\ w \in Nat /\ w < Space
  BY Constants
<1>2. Fan * Fan \in Nat /\ Space = (Fan * Fan) * Fan
  BY <1>1 DEF Space
<1>3. w \div Fan \in 0 .. (Fan * Fan) - 1
  BY <1>1, <1>2, DivBelow, Zenon
<1>4. p \in Pages
  BY <1>3, Zenon DEF Pages
<1>5. p \div Fan \in 0 .. Fan - 1 /\ p % Fan \in 0 .. Fan - 1
  BY <1>4, PageParts, Zenon
<1>6. p \div Fan = w \div (Fan * Fan)
  BY <1>1, DivTwice, Zenon
<1>7. (p \div Fan) % Fan = p \div Fan
  <2> DEFINE q == p \div Fan
  <2> HIDE DEF q
  <2>1. q \in 0 .. Fan - 1
    BY <1>5, Zenon DEF q
  <2>2. q % Fan = q
    BY <1>1, <2>1, ModSmall, Zenon
  <2> QED
    BY <2>2, Zenon DEF q
<1> QED
  BY <1>4, <1>5, <1>6, <1>7, Zenon

\* translate() through the tables of entry e.
LEMMA WalkIs ==
    ASSUME NEW c, NEW e \in Entries, NEW p, NEW R, NEW t, Built(e, R, c.ram, t), c.ram \in [TablePages -> Words],
           c.on, c.root = TablePage(e, 0), c.pmpaddr = Pmp(p).pmpaddr, c.pmpcfg = Pmp(p).pmpcfg,
           NEW w \in 0 .. Space - 1, NEW kind \in Kinds, NEW pte, pte = TableView(e, c.ram)[w \div Fan]
    PROVE  /\ pte = Invalid => translate(c, w, kind, U) = PageFault
           /\ \A rights \in {Rights, Rights \ {"X"}} : pte = LeafOf(rights, w \div Fan) =>
                 translate(c, w, kind, U) = IF kind = "fetch" /\ "X" \notin rights THEN PageFault ELSE Ok(w)
<1> DEFINE page == w \div Fan
           i == page \div Fan
           o == page % Fan
           root == Root(e, c.ram, i)
<1>1. page \in Pages /\ (w \div (Fan * Fan)) % Fan = i /\ i \in 0 .. Fan - 1 /\ o \in 0 .. Fan - 1
  BY WordParts, Zenon
<1>2. pte = IF root = Invalid THEN Invalid ELSE c.ram[root.ppn][o]
  BY <1>1, Zenon DEF TableView, Mapped
<1>3. 0 \in 0 .. PageTables - 1 /\ PageTables \in Nat /\ t \in 1 .. PageTables
  BY Places, Zenon DEF Built
<1>4. TablePage(e, 0) \in TablePages
  BY <1>3, TableIn, ZenonT(30)
<1>5. Pte(c, c.root, i) = root /\ Readable(c, c.root, i)
  BY <1>1, <1>4, PteIs, TableReadable, SMTT(30) DEF Root
<1>6. U # M
  BY DEF U, M
<1>7. translate(c, w, kind, U) =
         IF Malformed(root) THEN PageFault
         ELSE IF ~Pointer(root) THEN Leaf(c, root, 1, w, kind, U)
         ELSE IF {"D", "A", "U"} \cap root.bits # {} THEN PageFault
         ELSE WalkLevel0(c, root.ppn, w, kind, U)
  <2> DEFINE q == Pte(c, c.root, (w \div (Fan * Fan)) % Fan)
  <2>1. translate(c, w, kind, U) =
           IF ~c.on \/ U = M THEN Ok(w)
           ELSE IF ~Readable(c, c.root, (w \div (Fan * Fan)) % Fan) THEN Fault
           ELSE IF Malformed(q) THEN PageFault
           ELSE IF ~Pointer(q) THEN Leaf(c, q, 1, w, kind, U)
           ELSE IF {"D", "A", "U"} \cap q.bits # {} THEN PageFault
           ELSE WalkLevel0(c, q.ppn, w, kind, U)
    BY Zenon DEF translate
  <2>2. q = root /\ Readable(c, c.root, (w \div (Fan * Fan)) % Fan)
    BY <1>1, <1>5, Zenon
  <2> HIDE DEF q, root
  <2> QED
    BY <1>6, <2>1, <2>2, Zenon
<1> HIDE DEF root
<1>8. CASE root = Invalid
  <2>1. Malformed(root)
    BY <1>8, InvalidRefused, Zenon
  <2>2. \A rights \in {Rights, Rights \ {"X"}} : LeafOf(rights, page) # Invalid
    BY DEF LeafOf, Invalid, Rights
  <2> QED
    BY <1>2, <1>7, <1>8, <2>1, <2>2, Zenon
<1>9. CASE root # Invalid
  <2>1. PICK k \in 1 .. t - 1 : root = PointerTo(e, k)
    BY <1>1, <1>9, Zenon DEF Built, Used, root
  <2>2. k \in 0 .. PageTables - 1
    BY <1>3, Places, Zenon
  <2> DEFINE table == TablePage(e, k)
  <2>3. root.bits = {"V"} /\ root.ppn = table /\ table \in TablePages
    BY <2>1, <2>2, TableIn, Zenon DEF PointerTo
  <2>4. ~Malformed(root) /\ Pointer(root) /\ {"D", "A", "U"} \cap root.bits = {}
    BY <2>3, Zenon DEF Malformed, Pointer
  <2>5. translate(c, w, kind, U) = WalkLevel0(c, table, w, kind, U)
    BY <1>7, <2>3, <2>4, ZenonT(30)
  <2>6. pte = c.ram[table][o] /\ Pte(c, table, o) = pte /\ Readable(c, table, o)
    BY <1>1, <1>2, <1>9, <2>3, PteIs, TableReadable, SMTT(30)
  <2> HIDE DEF table
  <2>7. WalkLevel0(c, table, w, kind, U) =
           IF Malformed(pte) \/ Pointer(pte) THEN PageFault ELSE Leaf(c, pte, 0, w, kind, U)
    BY <2>6, Zenon DEF WalkLevel0
  <2>8. pte = Invalid => Malformed(pte)
    BY InvalidRefused, Zenon
  <2>9. ASSUME NEW rights \in {Rights, Rights \ {"X"}}, pte = LeafOf(rights, w \div Fan)
        PROVE  translate(c, w, kind, U) = IF kind = "fetch" /\ "X" \notin rights THEN PageFault ELSE Ok(w)
    <3>1. /\ ~Malformed(pte) /\ ~Pointer(pte)
          /\ Leaf(c, pte, 0, w, kind, U) = IF kind = "fetch" /\ "X" \notin rights THEN PageFault ELSE Ok(w)
      BY <2>9, LeafGives, ZenonT(30)
    <3> QED
      BY <2>5, <2>7, <3>1, Zenon
  <2>10. pte = Invalid => translate(c, w, kind, U) = PageFault
    BY <2>5, <2>7, <2>8, Zenon
  <2> QED
    BY <2>9, <2>10, Zenon
<1> QED
  BY <1>8, <1>9, Zenon

\* A word of a range is on one of its pages.
LEMMA InPages ==
    ASSUME NEW start \in Nat, NEW end \in Nat, NEW w \in Nat, start <= w, w < end
    PROVE  w \div Fan \in PagesOf(start, end)
<1> DEFINE p == w \div Fan
<1>1. Fan \in Nat \ {0}
  BY Constants, Zenon
<1>2. p \in Nat /\ w % Fan \in 0 .. Fan - 1 /\ w = p * Fan + (w % Fan) /\ start \div Fan <= p
  BY <1>1, Quotient, DivOrder, Zenon
<1> HIDE DEF p
<1>3. p * Fan \in Nat
  BY <1>1, <1>2
<1>4. p * Fan < end
  BY <1>1, <1>2, <1>3
<1>5. PagesOf(start, end) = {q \in Nat : start \div Fan <= q /\ q * Fan < end}
  BY PagesOfIs, Zenon
<1>6. p \in PagesOf(start, end)
  BY <1>2, <1>4, <1>5, Zenon
<1> QED
  BY <1>6, Zenon DEF p

\* The pages of a window as EngineWords names them.
LEMMA WindowInterval ==
    ASSUME NEW b \in Nat, NEW n \in Nat
    PROVE  PagesOf(b, b + n) = (b \div Fan) .. ((b + n - 1) \div Fan)
<1> DEFINE f == b \div Fan
           end == b + n
           l == (end - 1) \div Fan
<1>1. Fan \in Nat \ {0}
  BY Constants, Zenon
<1>2. f \in Nat /\ b % Fan \in 0 .. Fan - 1 /\ b = f * Fan + (b % Fan)
  BY <1>1, Quotient, Zenon
<1>3. b + n - 1 = end - 1 /\ end \in Nat
  OBVIOUS
<1> HIDE DEF f, end
<1>4. f * Fan \in Nat
  BY <1>1, <1>2
<1>5. CASE end <= f * Fan
  <2>1. end = f * Fan
    BY <1>2, <1>4, <1>5 DEF end
  <2>2. PageCount(b, end) = 0
    BY <1>5, Zenon DEF PageCount, f
  <2>3. PagesOf(b, end) = {}
    BY <1>2, <2>2 DEF PagesOf, f
  <2>4. l \in Int /\ l < f
    <3>1. CASE f = 0
      <4>1. end - 1 = -1
        BY <1>1, <2>1, <3>1
      <4>2. (-1) \div Fan < 0 /\ (-1) \div Fan \in Int
        BY <1>1
      <4> QED
        BY <3>1, <4>1, <4>2, Zenon
    <3>2. CASE f # 0
      <4>1. f - 1 \in Nat /\ end - 1 = (f - 1) * Fan + (Fan - 1) /\ Fan - 1 \in 0 .. Fan - 1 /\ end - 1 \in Nat
        <5>1. f - 1 \in Nat /\ f * Fan = (f - 1) * Fan + Fan /\ (f - 1) * Fan \in Nat
          BY <1>1, <1>2, <3>2
        <5> QED
          BY <1>1, <2>1, <5>1
      <4>2. (end - 1) \div Fan = f - 1
        BY <1>1, <4>1, DivUnique
      <4> QED
        BY <1>2, <4>2
    <3> QED
      BY <3>1, <3>2, Zenon
  <2>5. f .. l = {}
    BY <1>2, <2>4
  <2> QED
    BY <1>3, <2>3, <2>5, Zenon DEF f, end
<1>6. CASE ~(end <= f * Fan)
  <2>1. end - 1 \in Nat
    BY <1>3, <1>4, <1>6
  <2>2. l \in Nat
    <3> DEFINE y == end - 1
    <3> HIDE DEF y
    <3>1. y \div Fan \in Nat
      BY <1>1, <2>1, Quotient DEF y
    <3> QED
      BY <3>1, Zenon DEF y
  <2>3. PageCount(b, end) = l - f + 1
    BY <1>6, Zenon DEF PageCount, f
  <2> HIDE DEF l
  <2>4. f + (PageCount(b, end) - 1) = l
    BY <1>2, <2>2, <2>3
  <2>5. PagesOf(b, end) = f .. l
    BY <2>4, Zenon DEF PagesOf, f
  <2> QED
    BY <1>3, <2>5, Zenon DEF f, end, l
<1> QED
  BY <1>5, <1>6, Zenon

\* The words of a process's slots off its guard page are those of whole pages.
LEMMA OwnPages ==
    ASSUME NEW s, SlotsOk(s), NEW w \in Nat
    PROVE  w \div Fan \in SlotPages(s) <=>
              w \in (s.base .. (s.base + s.span - 1)) \ (s.guard .. (s.guard + Fan - 1))
<1> DEFINE b == s.base
           n == s.span
           g == s.guard
           h == s.guard + Fan
           x == s.base + s.span
<1>1. /\ b \in Nat /\ n \in Nat /\ g \in Nat /\ b <= g /\ h <= x /\ b % Fan = 0 /\ g % Fan = 0 /\ x % Fan = 0
      /\ Fan \in Nat \ {0}
  BY Constants, Zenon DEF SlotsOk
<1>2. h \in Nat /\ x \in Nat /\ h = g + Fan /\ x = b + n
  BY <1>1
<1>3. h % Fan = 0
  <2>1. Fan % Fan = 0
    <3>1. Fan = 1 * Fan + 0 /\ 0 \in 0 .. Fan - 1
      BY <1>1
    <3> QED
      BY <1>1, <3>1, DivUnique
  <2> QED
    BY <1>1, <2>1, SumMultiple, Zenon
<1> HIDE DEF b, n, g, h, x
<1>4. w \div Fan \in PagesOf(b, g) <=> b <= w /\ w < g
  BY <1>1, Aligned, Zenon
<1>5. w \div Fan \in PagesOf(h, x) <=> h <= w /\ w < x
  BY <1>1, <1>2, <1>3, Aligned, Zenon
<1>6. w \in (b .. (b + n - 1)) \ (g .. (g + Fan - 1)) <=> (b <= w /\ w < g) \/ (h <= w /\ w < x)
  BY <1>1, <1>2
<1> QED
  BY <1>4, <1>5, <1>6, Zenon DEF SlotPages, b, n, g, h, x

\* The region from the lowest engine window to the end of the highest.
LEMMA RegionIs ==
    ASSUME DevicesFit(tree), tree.region = Accelerators(tree.windows)
    PROVE  tree.region.base \in Nat /\ tree.region.end \in Nat
<1> DEFINE ws == Range(tree.windows)
           lows == {w.base : w \in ws}
           ends == {w.base + w.size : w \in ws}
<1>1. tree.windows \in Seq([base : Nat, size : Nat])
  BY Zenon DEF DevicesFit
<1>2. \A v \in ws : v.base \in Nat /\ v.base + v.size \in Nat /\ v.base + v.size <= Space
  <2> SUFFICES ASSUME NEW v \in ws PROVE v.base \in Nat /\ v.base + v.size \in Nat /\ v.base + v.size <= Space
    BY Zenon
  <2>1. PICK i \in 1 .. Len(tree.windows) : v = tree.windows[i]
    BY WindowAt, Zenon
  <2> QED
    BY <2>1, WindowIs, Zenon
<1>3. /\ tree.region.base = IF tree.windows = <<>> THEN 0 ELSE Min(lows)
      /\ tree.region.end = IF tree.windows = <<>> THEN 0 ELSE Max(ends)
  BY DEF Accelerators
<1>4. CASE tree.windows = <<>>
  BY <1>3, <1>4
<1>5. CASE tree.windows # <<>>
  <2>1. ws # {}
    <3>1. 1 \in 1 .. Len(tree.windows)
      BY <1>1, <1>5
    <3> QED
      BY <3>1, WindowIs, Zenon
  <2> HIDE DEF ws
  <2>2. lows \in SUBSET Nat /\ lows # {} /\ ends \in SUBSET Nat /\ ends # {} /\ \A x \in ends : x <= Space
    BY <1>2, <2>1, Zenon
  <2> HIDE DEF lows, ends
  <2>3. Min(lows) \in lows
    <3>1. \E n \in lows : \A m \in lows : n <= m
      BY <2>2, LeastNat, Zenon
    <3> QED
      BY <3>1, Zenon DEF Min
  <2>4. Max(ends) \in ends
    <3> DEFINE rest == {k \in Nat : Space - k \in ends}
    <3>1. Space \in Nat
      BY Constants, Zenon
    <3>2. rest \in SUBSET Nat /\ rest # {}
      <4>1. PICK x \in ends : TRUE
        BY <2>2, Zenon
      <4>2. Space - x \in Nat /\ Space - (Space - x) = x
        BY <2>2, <3>1, <4>1
      <4>3. Space - x \in rest
        BY <4>1, <4>2, Zenon
      <4> QED
        BY <4>3, Zenon
    <3>3. PICK n \in rest : \A m \in rest : n <= m
      BY <3>2, LeastNat, Zenon
    <3>4. ASSUME NEW y \in ends PROVE Space - n >= y
      <4>1. Space - y \in Nat /\ Space - (Space - y) = y /\ y \in Nat
        BY <2>2, <3>1
      <4>2. n <= Space - y
        BY <3>3, <4>1, Zenon
      <4> QED
        BY <3>1, <4>1, <4>2
    <3>5. \E x \in ends : \A y \in ends : x >= y
      BY <3>3, <3>4, Zenon
    <3> QED
      BY <3>5, Zenon DEF Max
  <2> QED
    BY <1>3, <1>5, <2>2, <2>3, <2>4, Zenon
<1> QED
  BY <1>4, <1>5, Zenon

\* What TreesAssumption says of the tree the kernel found.
LEMMA OutsideRam ==
    ASSUME SpacesInv, tree.found
    PROVE  /\ DisplayPages(tree) \cap RamPages = {}
           /\ \A i \in 1 .. Len(tree.windows) : WindowPagesOf(tree, i) \cap RamPages = {}
           /\ WindowPages(tree, Len(tree.windows)) \cap RamPages = {}
           /\ PagesOf(SlotBase, SlotsEnd) \subseteq RamPages
           /\ tree.region = Accelerators(tree.windows)
           /\ \A x \in tree.region.base .. (tree.region.end - 1) : x \div Fan \notin DisplayPages(tree)
<1>1. PICK t \in Trees : FromTree(t)
  BY Zenon DEF SpacesInv
<1>2. tree.fb = t.fb /\ tree.fb_size = t.fb_size /\ tree.windows = t.windows
          /\ tree.region = Accelerators(t.windows)
  BY <1>1, Zenon DEF FromTree
<1>3. /\ PagesOf(t.fb, t.fb + t.fb_size) \cap RamPages = {}
      /\ \A i \in 1 .. Len(t.windows) :
            PagesOf(t.windows[i].base, t.windows[i].base + t.windows[i].size) \cap RamPages = {}
      /\ \A x \in Accelerators(t.windows).base .. (Accelerators(t.windows).end - 1) :
            x \div Fan \notin PagesOf(t.fb, t.fb + t.fb_size)
  BY TreesAssumption, Zenon
<1>4. PagesOf(SlotBase, SlotsEnd) \subseteq RamPages
  BY TreesAssumption, Zenon DEF SlotsEnd
<1>5. DisplayPages(tree) \subseteq PagesOf(t.fb, t.fb + t.fb_size)
  BY <1>2, Zenon DEF DisplayPages
<1>6. \A i \in 1 .. Len(tree.windows) : WindowPagesOf(tree, i) \cap RamPages = {}
  BY <1>2, <1>3, Zenon DEF WindowPagesOf
<1>7. WindowPages(tree, Len(tree.windows)) \cap RamPages = {}
  BY <1>6, Zenon DEF WindowPages
<1> QED
  BY <1>2, <1>3, <1>4, <1>5, <1>6, <1>7, ZenonT(30)

\* The engines' words are the words of their pages inside the region.
LEMMA EngineWordsAre ==
    ASSUME DevicesFit(tree), NEW w
    PROVE  w \in EngineWords <=> /\ w \in tree.region.base .. (tree.region.end - 1)
                                 /\ w \div Fan \in WindowPages(tree, Len(tree.windows))
<1> DEFINE p == w \div Fan
           Near(v) == p \in (v.base \div Fan) .. ((v.base + v.size - 1) \div Fan)
<1>1. \A i \in 1 .. Len(tree.windows) : Near(tree.windows[i]) <=> p \in WindowPagesOf(tree, i)
  <2> SUFFICES ASSUME NEW i \in 1 .. Len(tree.windows) PROVE Near(tree.windows[i]) <=> p \in WindowPagesOf(tree, i)
    BY Zenon
  <2> DEFINE b == tree.windows[i].base
             n == tree.windows[i].size
  <2>1. b \in Nat /\ n \in Nat
    BY WindowIs, Zenon
  <2>2. PagesOf(b, b + n) = (b \div Fan) .. ((b + n - 1) \div Fan)
    BY <2>1, WindowInterval, Zenon
  <2> QED
    BY <2>2, Zenon DEF WindowPagesOf
<1>2. w \in EngineWords
          <=> w \in tree.region.base .. (tree.region.end - 1) /\ \E v \in Range(tree.windows) : Near(v)
  BY Zenon DEF EngineWords
<1> HIDE DEF Near
<1>3. (\E v \in Range(tree.windows) : Near(v)) <=> \E i \in 1 .. Len(tree.windows) : p \in WindowPagesOf(tree, i)
  BY <1>1, WindowAt, WindowIs
<1> HIDE DEF p
<1>4. p \in WindowPages(tree, Len(tree.windows)) <=> \E i \in 1 .. Len(tree.windows) : p \in WindowPagesOf(tree, i)
  BY Zenon DEF WindowPages
<1> QED
  BY <1>2, <1>3, <1>4, Zenon DEF p

\* The right each kind of access needs.
LEMMA NeedIs == /\ Need("fetch") = {"X"} /\ Need("load") = {"R"} /\ Need("store") = {"W"}
BY Zenon DEF Need

\* Granted words pass the walk and the PMP, the others do not.
LEMMA Reach ==
    ASSUME SpacesInv, NEW e \in Entries, procs[e].state # "FREE", procs[e].pid = protected_pid,
           NEW w \in 0 .. Space - 1, NEW kind \in Kinds
    PROVE  IF Granted(e, w, kind) THEN Access(Walker, w, kind, U) = Ok(w)
           ELSE Access(Walker, w, kind, U).status # "ok"
<1> DEFINE c == Walker
           q == procs[e]
           s == spaces[e]
           p == w \div Fan
           pte == TableView(e, ram)[p]
           data == Rights \ {"X"}
           devices == EnginePages(tree, s) \cup DisplayPages(tree)
           walked == translate(c, w, kind, U)
<1>1. /\ tree.found /\ DevicesFit(tree) /\ SpaceBuilt(e) /\ SpaceOf(e) /\ HartIs(e) /\ ram \in [TablePages -> Words]
  BY Zenon DEF SpacesInv, TablesInv, HartInv
<1>2. /\ c.on /\ c.root = TablePage(e, 0) /\ c.ram = ram
      /\ c.pmpaddr = Pmp(q).pmpaddr /\ c.pmpcfg = Pmp(q).pmpcfg
  BY <1>1, Zenon DEF Walker, HartIs
<1>3. Built(e, Regions(tree), c.ram, s.tables) /\ c.ram \in [TablePages -> Words] /\ SlotsOk(s)
      /\ TableView(e, ram) = Laid(tree, s, Rights, Blank)
  BY <1>1, <1>2, Zenon DEF SpaceBuilt
<1>4. w \in Nat /\ p \in Pages
  <2>1. w \in Nat
    BY Constants
  <2>2. p \in Pages
    BY WordParts, Zenon
  <2> QED
    BY <2>1, <2>2, Zenon
<1>5. pte = IF p \in devices THEN LeafOf(data, p) ELSE IF p \in SlotPages(s) THEN LeafOf(Rights, p) ELSE Invalid
  BY <1>3, <1>4, Zenon DEF Laid, Blank
<1>6. /\ pte = Invalid => walked = PageFault
      /\ pte = LeafOf(Rights, p) => walked = Ok(w)
      /\ pte = LeafOf(data, p) => walked = IF kind = "fetch" THEN PageFault ELSE Ok(w)
  <2>1. /\ pte = Invalid => walked = PageFault
        /\ \A rights \in {Rights, data} : pte = LeafOf(rights, p) =>
              walked = IF kind = "fetch" /\ "X" \notin rights THEN PageFault ELSE Ok(w)
    <3>1. pte = TableView(e, c.ram)[w \div Fan]
      BY <1>2, Zenon
    <3> HIDE DEF c, q, s, pte
    <3>2. /\ pte = Invalid => translate(c, w, kind, U) = PageFault
          /\ \A rights \in {Rights, Rights \ {"X"}} : pte = LeafOf(rights, w \div Fan) =>
                translate(c, w, kind, U) = IF kind = "fetch" /\ "X" \notin rights THEN PageFault ELSE Ok(w)
      BY <1>2, <1>3, <3>1, WalkIs, ZenonT(30)
    <3> QED
      BY <3>2, Zenon
  <2>2. "X" \in Rights /\ "X" \notin data
    BY Zenon DEF Rights
  <2> HIDE DEF walked, pte, data
  <2> QED
    BY <2>1, <2>2, Zenon
<1>7. /\ Ok(w).status = "ok" /\ Ok(w).pa = w /\ PageFault.status # "ok" /\ Fault.status # "ok"
  BY Zenon DEF Ok, PageFault, Fault
<1>8. Access(c, w, kind, U) =
         IF \/ walked.status # "ok"
            \/ /\ pmp_allows(c, U, walked.pa, Need(kind))
               /\ kind = "fetch" => walked.pa \div Fan \in RamPages
         THEN walked ELSE Fault
  BY Zenon DEF Access
<1>9. /\ walked = PageFault => Access(c, w, kind, U).status # "ok"
      /\ walked = Ok(w) =>
            IF pmp_allows(c, U, w, Need(kind)) /\ (kind = "fetch" => p \in RamPages)
            THEN Access(c, w, kind, U) = Ok(w) ELSE Access(c, w, kind, U).status # "ok"
  <2> HIDE DEF walked, c
  <2> QED
    BY <1>7, <1>8, Zenon
<1>10. pmp_allows(c, U, w, Need(kind)) <=>
          \E i \in 0 .. 7 : /\ InEntry(q, i, w) /\ Need(kind) \subseteq RightsOf(i)
                            /\ \A j \in 0 .. 7 : InEntry(q, j, w) => i <= j
  <2>1. U # M
    BY DEF U, M
  <2> HIDE DEF c, q
  <2> QED
    BY <1>2, <1>4, <2>1, PmpIs, Zenon
<1> DEFINE allows == pmp_allows(c, U, w, Need(kind))
           access == Access(c, w, kind, U)
<1>11. /\ devices \cap RamPages = {} /\ SlotPages(s) \subseteq RamPages
       /\ \A x \in tree.region.base .. (tree.region.end - 1) : x \div Fan \notin DisplayPages(tree)
       /\ tree.region.base \in Nat /\ tree.region.end \in Nat
  <2>1. SlotPages(s) \subseteq PagesOf(SlotBase, SlotsEnd)
    BY <1>3, SlotPagesIn, Zenon DEF SlotPages
  <2>2. EnginePages(tree, s) \cap RamPages = {}
    BY <1>1, OutsideRam, Zenon DEF EnginePages
  <2> HIDE DEF s
  <2> QED
    BY <1>1, <2>1, <2>2, OutsideRam, RegionIs, Zenon
<1>12. /\ q.base \in Nat /\ q.span \in Nat /\ q.base + q.span \in Nat /\ q.base = s.base /\ q.span = s.span
       /\ s.drives_engines = ("accelerators" \in q.flags) /\ q.base + q.span <= SlotsEnd /\ SlotBase <= q.base
  <2>1. q.base = s.base /\ q.span = s.span /\ s.drives_engines = ("accelerators" \in q.flags)
    BY <1>1, Zenon DEF SpaceOf
  <2> HIDE DEF q, s
  <2> QED
    BY <1>3, <2>1, SlotBounds, Zenon
<1>13. InEntry(q, 1, w) => p \in RamPages
  <2> SUFFICES ASSUME InEntry(q, 1, w) PROVE p \in RamPages
    BY Zenon
  <2>1. q.base <= w /\ w < q.base + q.span
    BY DEF InEntry
  <2>2. SlotBase \in Nat /\ SlotsEnd \in Nat
    BY Constants DEF SlotsEnd
  <2> HIDE DEF q
  <2>3. SlotBase <= w /\ w < SlotsEnd
    BY <1>4, <1>12, <2>1, <2>2, SMTT(30)
  <2>4. p \in PagesOf(SlotBase, SlotsEnd)
    BY <1>4, <2>2, <2>3, InPages, Zenon
  <2> QED
    BY <1>1, <2>4, OutsideRam, Zenon
<1>14. InEntry(q, 7, w) => p \in RamPages
  <2> SUFFICES ASSUME InEntry(q, 7, w) PROVE p \in RamPages
    BY Zenon
  <2>1. TablesStart * Fan <= w /\ w < TablesEnd * Fan
    BY DEF InEntry
  <2>2. Fan \in Nat \ {0} /\ TablesStart \in Nat /\ TablesEnd \in Nat /\ TablePages \subseteq RamPages
    BY Constants, TableBounds, Zenon
  <2>3. p \in 0 .. TablesEnd - 1
    <3> HIDE DEF TablesEnd
    <3> QED
      BY <1>4, <2>1, <2>2, DivBelow, Zenon
  <2>4. TablesStart <= p
    <3>1. TablesStart * Fan \in Nat /\ TablesStart * Fan = TablesStart * Fan + 0 /\ 0 \in 0 .. Fan - 1
      BY <2>2
    <3>2. (TablesStart * Fan) \div Fan = TablesStart
      BY <2>2, <3>1, DivUnique
    <3> QED
      BY <1>4, <2>1, <2>2, <3>1, <3>2, DivOrder, ZenonT(30)
  <2> HIDE DEF p, TablesEnd
  <2>5. p \in TablePages
    BY <2>2, <2>3, <2>4, SMTT(30) DEF TablePages
  <2> QED
    BY <2>2, <2>5, Zenon
<1>15. w \in Own(e) <=> p \in SlotPages(s)
  BY <1>3, <1>4, <1>12, OwnPages, Zenon DEF Own, guard_of
<1>16. Granted(e, w, kind) <=>
          \/ p \in SlotPages(s)
          \/ /\ kind # "fetch"
             /\ InEntry(q, 3, w) \/ (InEntry(q, 5, w) /\ p \in WindowPages(tree, Len(tree.windows)))
  <2>1. InEntry(q, 3, w) <=> tree.fb # 0 /\ w \in tree.fb .. (tree.fb + tree.fb_size - 1)
    <3>1. tree.fb \in Nat /\ tree.fb_size \in Nat
      BY <1>1, Zenon DEF DevicesFit
    <3> QED
      BY <1>4, <3>1 DEF InEntry
  <2>2. InEntry(q, 5, w) <=> "accelerators" \in q.flags /\ w \in tree.region.base .. (tree.region.end - 1)
    BY <1>4, <1>11 DEF InEntry
  <2>3. w \in EngineWords
            <=> w \in tree.region.base .. (tree.region.end - 1) /\ p \in WindowPages(tree, Len(tree.windows))
    BY <1>1, EngineWordsAre, Zenon
  <2> HIDE DEF p
  <2> QED
    BY <1>15, <2>1, <2>2, <2>3, ZenonT(30) DEF Granted
<1>17. \A i \in 0 .. 7 : InEntry(q, i, w) => i \in {1, 3, 5, 7}
  BY Zenon DEF InEntry
<1> HIDE DEF c, walked, pte, devices, data, s, p, q
<1>18. CASE p \in SlotPages(s)
  <2>1. p \in RamPages /\ p \notin devices
    BY <1>11, <1>18, Zenon
  <2>2. walked = Ok(w)
    BY <1>5, <1>6, <1>18, <2>1, ZenonT(30)
  <2>3. InEntry(q, 1, w)
    <3>1. w \in Own(e)
      BY <1>15, <1>18, Zenon
    <3>2. w \in q.base .. (q.base + q.span - 1)
      BY <3>1, Zenon DEF Own, q
    <3> QED
      BY <1>4, <1>12, <3>2 DEF InEntry
  <2>4. Need(kind) \subseteq RightsOf(1)
    BY NeedIs, Zenon DEF Kinds, RightsOf, Rights
  <2>5. \A j \in 0 .. 7 : InEntry(q, j, w) => 1 <= j
    BY <1>17, SMTT(30)
  <2>6. allows
    BY <1>10, <2>3, <2>4, <2>5, SMTT(30)
  <2> QED
    BY <1>9, <1>16, <1>18, <2>1, <2>2, <2>6, ZenonT(30) DEF c
<1>19. CASE p \notin SlotPages(s) /\ p \notin devices
  <2>1. walked = PageFault
    BY <1>5, <1>6, <1>19, Zenon
  <2>2. ~Granted(e, w, kind)
    <3>1. ASSUME InEntry(q, 3, w) PROVE FALSE
      <4>1. tree.fb # 0 /\ tree.fb \in Nat /\ tree.fb + tree.fb_size \in Nat
                /\ tree.fb <= w /\ w < tree.fb + tree.fb_size
        BY <1>1, <3>1 DEF InEntry, DevicesFit
      <4>2. p \in PagesOf(tree.fb, tree.fb + tree.fb_size)
        BY <1>4, <4>1, InPages, Zenon DEF p
      <4> QED
        BY <1>19, <4>1, <4>2, ZenonT(30) DEF devices, DisplayPages
    <3>2. ASSUME InEntry(q, 5, w), p \in WindowPages(tree, Len(tree.windows)) PROVE FALSE
      <4>1. s.drives_engines
        <5>1. "accelerators" \in q.flags
          BY <3>2 DEF InEntry
        <5> QED
          BY <1>12, <5>1, Zenon
      <4> QED
        BY <1>19, <3>2, <4>1, Zenon DEF devices, EnginePages
    <3> QED
      BY <1>16, <1>19, <3>1, <3>2, Zenon
  <2> QED
    BY <1>9, <2>1, <2>2, Zenon DEF c
<1>20. CASE p \in devices
  <2>1. p \notin RamPages /\ p \notin SlotPages(s) /\ ~InEntry(q, 1, w) /\ ~InEntry(q, 7, w)
    BY <1>11, <1>13, <1>14, <1>20, Zenon
  <2>2. CASE kind = "fetch"
    <3>1. walked = PageFault
      BY <1>5, <1>6, <1>20, <2>2, Zenon
    <3> QED
      BY <1>9, <1>16, <2>1, <2>2, <3>1, ZenonT(30) DEF c
  <2>3. CASE kind # "fetch"
    <3>1. walked = Ok(w)
      BY <1>5, <1>6, <1>20, <2>3, Zenon
    <3>2. Need(kind) \subseteq {"R", "W"}
      BY <2>3, NeedIs, Zenon DEF Kinds
    <3>3. allows <=> InEntry(q, 3, w) \/ InEntry(q, 5, w)
      <4>1. \A i \in 0 .. 7 : InEntry(q, i, w) => i = 3 \/ i = 5
        BY <1>17, <2>1, Zenon
      <4>2. RightsOf(3) = {"R", "W"} /\ RightsOf(5) = {"R", "W"}
        BY DEF RightsOf
      <4>3. CASE InEntry(q, 3, w)
        <5>1. \A j \in 0 .. 7 : InEntry(q, j, w) => 3 <= j
          BY <4>1
        <5> QED
          BY <1>10, <3>2, <4>2, <4>3, <5>1, SMTT(30)
      <4>4. CASE ~InEntry(q, 3, w) /\ InEntry(q, 5, w)
        <5>1. \A j \in 0 .. 7 : InEntry(q, j, w) => 5 <= j
          BY <4>1, <4>4
        <5> QED
          BY <1>10, <3>2, <4>2, <4>4, <5>1, SMTT(30)
      <4>5. CASE ~InEntry(q, 3, w) /\ ~InEntry(q, 5, w)
        BY <1>10, <4>1, <4>5, Zenon
      <4> QED
        BY <4>3, <4>4, <4>5, Zenon
    <3>4. InEntry(q, 5, w) => p \in WindowPages(tree, Len(tree.windows))
      <4> SUFFICES ASSUME InEntry(q, 5, w) PROVE p \in WindowPages(tree, Len(tree.windows))
        BY Zenon
      <4>1. w \in tree.region.base .. (tree.region.end - 1)
        BY <1>4, <1>11 DEF InEntry
      <4>2. p \notin DisplayPages(tree)
        BY <1>11, <4>1, Zenon DEF p
      <4>3. p \in EnginePages(tree, s)
        BY <1>20, <4>2, Zenon DEF devices
      <4> QED
        BY <4>3, Zenon DEF EnginePages
    <3>5. Granted(e, w, kind) <=> allows
      BY <1>16, <2>1, <2>3, <3>3, <3>4, ZenonT(30)
    <3> QED
      BY <1>9, <2>3, <3>1, <3>5, Zenon DEF c
  <2> QED
    BY <2>2, <2>3, Zenon
<1> QED
  BY <1>18, <1>19, <1>20, Zenon

\* While a process runs, user mode reaches exactly its slots without the guard page,
\* the framebuffer and, if it drives them, the engines' windows: for every number of
\* entries, page size, slot layout, tree and sequence of programs in the entries.  The
\* tables of an entry always say what its layout asks for, the registers are those of the
\* process whose pid protect() remembers, and no pid is used twice (map_process(),
\* protect(), translate(), pmp_allows()).
THEOREM ReachIsExact ==
    PagingInit /\ [][PagingNext]_pagingVars => []ReachExact
<1>1. ASSUME SpacesInv PROVE ReachExact
  <2> SUFFICES ASSUME current \in Entries, procs[current].state = "RUNNING",
                      NEW w \in 0 .. Space - 1, NEW kind \in Kinds
               PROVE  IF Granted(current, w, kind) THEN Access(Walker, w, kind, U) = Ok(w)
                      ELSE Access(Walker, w, kind, U).status # "ok"
    BY Zenon DEF ReachExact
  <2>1. procs[current].state # "FREE" /\ procs[current].pid = protected_pid
    BY <1>1, Zenon DEF SpacesInv, HartInv
  <2> QED
    BY <1>1, <2>1, Reach, Zenon
<1> QED
  BY <1>1, SpacesInit, SpacesStep, PTL

=============================================================================
