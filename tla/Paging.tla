------------------------------- MODULE Paging -------------------------------
(***************************************************************************)
(* The kernel's address spaces as the hart sees them: discover(), the page *)
(* tables spawn() builds (map(), lay_out(), map_process()), the PMP        *)
(* registers and satp that protect() writes, and the checks of user        *)
(* pointers and of sbrk (programs/rv32/os/kernel.c), over the walk and PMP *)
(* of Sv32.                                                                *)
(*                                                                         *)
(* An address counts words.  Which ready process runs next is the          *)
(* scheduler's; here it is any (Kernel has the scheduler itself).          *)
(***************************************************************************)
EXTENDS Sv32, Sequences

CONSTANTS
    Trees,        \* device trees the kernel may find
    Images,       \* programs: RAM disk entries, or files that claim to be one
    RamDisk,      \* the ones in the kernel's image
    Shell,        \* the RAM disk's "sh"
    MaxProcs,     \* MAX_PROCS
    PageTables,   \* PAGE_TABLES
    TablesStart,  \* the page of __pagetables_start
    SlotBase,     \* OS_SLOT_BASE
    SlotSize,     \* OS_SLOT_SIZE
    Slots,        \* OS_SLOTS
    Align,        \* what brk is rounded up to
    Probes,       \* the addresses and lengths programs pass
    Increments,   \* what they ask of sbrk
    MaxPid        \* bound: processes started

\* The slots are whole pages below the end of the space, a page is whole blocks of what
\* brk is rounded to, and headers, pointers and lengths are unsigned words.
ASSUME PagingAssumption ==
    /\ Fan \in Nat /\ Align \in Nat /\ Align > 0 /\ Fan > 0 /\ Fan % Align = 0
    /\ SlotBase \in Nat /\ SlotSize \in Nat /\ SlotSize > 0 /\ Slots \in Nat
    /\ SlotBase % Fan = 0 /\ SlotSize % Fan = 0
    /\ SlotBase + Slots * SlotSize < Space
    /\ Shell \in RamDisk
    /\ \A m \in RamDisk \cup Images :
          m.load \in Nat /\ m.span \in Nat /\ m.stack \in Nat /\ m.memory_size \in Nat
    /\ Probes \subseteq 0..Space - 1 /\ Increments \subseteq 0..Space - 1

Entries == 0..MaxProcs - 1
Empty == [i \in 0..Fan - 1 |-> Invalid]
Nobody == [state |-> "FREE", pid |-> 0, base |-> 0, span |-> 0, flags |-> {}, brk |-> 0]
NoSpace == [tables |-> 0, base |-> 0, span |-> 0, guard |-> 0, drives_engines |-> FALSE]
OffEntry == [a |-> "OFF", rights |-> {}, locked |-> FALSE]

VARIABLES
    tree,           \* what discover() found, with the region of the accelerators
    procs,          \* entry -> the process
    spaces,         \* entry -> the layout of its page tables
    ram,            \* page -> the page table in it
    protected_pid,
    hart,           \* satp and the PMP registers
    current,        \* the entry that runs, or MaxProcs
    next_pid,
    panic           \* "", or why the kernel stopped

pagingVars == <<tree, procs, spaces, ram, protected_pid, hart, current, next_pid, panic>>

TablePage(e, k) == TablesStart + e * PageTables + k
TablesEnd == TablesStart + MaxProcs * PageTables

\* The walk's view of the machine.
Walker == [on |-> hart.on, root |-> hart.root, sum |-> FALSE, mxr |-> FALSE,
           pmpcfg |-> hart.pmpcfg, pmpaddr |-> hart.pmpaddr, ram |-> ram]

\* The pages [start, end) touches, from the one start is in.
PageCount(start, end) ==
    IF end <= (start \div Fan) * Fan THEN 0 ELSE ((end - 1) \div Fan) - (start \div Fan) + 1

\* map() of one page: a region's first leaf takes the entry's next table.
MapPage(e, rights, a, page) ==
    LET root == TablePage(e, 0)
        region == page \div Fan
        pointer == a.ram[root][region]
        taken == TablePage(e, a.tables)
        leaf == IF rights = {} THEN Invalid
                ELSE [bits |-> rights \cup {"V", "U", "A", "D"}, ppn |-> page]
    IN  IF a.full \/ (pointer = Invalid /\ rights = {}) THEN a
        ELSE IF pointer # Invalid
        THEN [a EXCEPT !.ram[pointer.ppn][page % Fan] = leaf]
        ELSE IF a.tables = PageTables THEN [a EXCEPT !.full = TRUE]
        ELSE [a EXCEPT !.tables = @ + 1,
                       !.ram[taken] = [Empty EXCEPT ![page % Fan] = leaf],
                       !.ram[root][region] = [bits |-> {"V"}, ppn |-> taken]]

map(e, a, start, end, rights) ==
    LET mapped[n \in 0..PageCount(start, end)] ==
            IF n = 0 THEN a ELSE MapPage(e, rights, mapped[n - 1], (start \div Fan) + (n - 1))
    IN  mapped[PageCount(start, end)]

\* The engines' windows, one after the other.
MapWindows(e, a, rights) ==
    LET mapped[n \in 0..Len(tree.windows)] ==
            IF n = 0 THEN a
            ELSE map(e, mapped[n - 1], tree.windows[n].base,
                     tree.windows[n].base + tree.windows[n].size, rights)
    IN  mapped[Len(tree.windows)]

\* The slots around the guard page, the framebuffer and the engines' windows.
lay_out(e, space, a, rights) ==
    LET data == rights \ {"X"}
        heap == map(e, a, space.base, space.guard, rights)
        slots == map(e, heap, space.guard + Fan, space.base + space.span, rights)
        shown == IF tree.fb = 0 THEN slots
                 ELSE map(e, slots, tree.fb, tree.fb + tree.fb_size, data)
    IN  IF space.drives_engines THEN MapWindows(e, shown, data) ELSE shown

\* Bug: what the entry's last process had mapped stays.
MapProcessOver(e, space) ==
    LET root == TablePage(e, 0)
        fresh == [ram |-> [ram EXCEPT ![root] = IF spaces[e].tables = 0 THEN Empty ELSE @],
                  tables |-> IF spaces[e].tables = 0 THEN 1 ELSE spaces[e].tables, full |-> FALSE]
    IN  lay_out(e, space, fresh, {"R", "W", "X"})

\* The entry's tables for a new process: the last one's leaves cleared, and its own.
map_process(e, space) ==
    LET root == TablePage(e, 0)
        kept == [ram |-> ram, tables |-> spaces[e].tables, full |-> FALSE]
        cleared == IF spaces[e].tables # 0 THEN lay_out(e, spaces[e], kept, {})
                   ELSE [kept EXCEPT !.ram[root] = Empty, !.tables = 1]
    IN  lay_out(e, space, cleared, {"R", "W", "X"})

\* What the kernel asks of a program before it loads it.
entry_ok(m) ==
    /\ m.flags \subseteq {"accelerators"}
    /\ m.file_size <= m.memory_size
    /\ m.span > 0 /\ m.span % SlotSize = 0 /\ m.span <= Slots * SlotSize
    /\ m.load >= SlotBase /\ (m.load - SlotBase) % SlotSize = 0
    /\ m.load <= SlotBase + Slots * SlotSize - m.span
    /\ m.stack % Fan = 0 /\ m.stack >= 2 * Fan /\ m.stack < m.span
    /\ m.memory_size <= m.span - m.stack

\* One region from the lowest engine window to the end of the highest.
Accelerators(windows) ==
    [base |-> IF windows = <<>> THEN 0 ELSE Min({w.base : w \in Range(windows)}),
     end |-> IF windows = <<>> THEN 0 ELSE Max({w.base + w.size : w \in Range(windows)})]

PagesOf(start, end) == (start \div Fan)..((start \div Fan) + (PageCount(start, end) - 1))

\* The tables and the slots are in RAM; the devices of a tree are inside the space and
\* outside RAM, and the framebuffer shares no page with the accelerators' region.
ASSUME TreesAssumption ==
    /\ PmpEntries = 8 /\ MaxProcs \in Nat /\ PageTables \in Nat /\ PageTables > 0 /\ TablesStart \in Nat
    /\ TablesStart..TablesEnd - 1 \subseteq RamPages
    /\ PagesOf(SlotBase, SlotBase + Slots * SlotSize) \subseteq RamPages
    /\ \A t \in Trees :
          /\ t.fb \in Nat /\ t.fb_size \in Nat /\ t.fb + t.fb_size <= Space
          /\ PagesOf(t.fb, t.fb + t.fb_size) \cap RamPages = {}
          /\ t.windows \in Seq([base : Nat, size : Nat])
          /\ \A i \in 1..Len(t.windows) :
                /\ t.windows[i].base + t.windows[i].size <= Space
                /\ PagesOf(t.windows[i].base, t.windows[i].base + t.windows[i].size) \cap RamPages = {}
          /\ \A w \in Accelerators(t.windows).base..(Accelerators(t.windows).end - 1) :
                w \div Fan \notin PagesOf(t.fb, t.fb + t.fb_size)

\* The DMA window is there when an engine with DMA is, outside the accelerators' region.
TreeOk(t) ==
    LET a == Accelerators(t.windows) IN
    /\ t.dma_engines => t.dma.size > 0
    /\ ~(/\ t.dma.size > 0 /\ a.end > 0
         /\ t.dma.base + t.dma.size > a.base /\ t.dma.base < a.end)

\* Bug: the framebuffer is left out of the count.
RegionsNoDisplay(t) ==
    LET touched(start, end) == (start \div (Fan * Fan))..((end - 1) \div (Fan * Fan)) IN
    touched(SlotBase, SlotBase + Slots * SlotSize)
      \cup UNION {touched(w.base, w.base + w.size) : w \in Range(t.windows)}

\* The regions a process could touch, each of which takes a level-0 table.
Regions(t) ==
    LET touched(start, end) == (start \div (Fan * Fan))..((end - 1) \div (Fan * Fan)) IN
    touched(SlotBase, SlotBase + Slots * SlotSize)
      \cup (IF t.fb = 0 THEN {} ELSE touched(t.fb, t.fb + t.fb_size))
      \cup UNION {touched(w.base, w.base + w.size) : w \in Range(t.windows)}

check_page_table_budget(t) == Cardinality(Regions(t)) <= PageTables - 1

alive(p) == p.state \notin {"FREE", "ZOMBIE"}

SlotsTaken(m) ==
    \E e \in Entries : /\ alive(procs[e])
                       /\ procs[e].base < m.load + m.span
                       /\ m.load < procs[e].base + procs[e].span

FreeEntry == {e \in Entries : procs[e].state = "FREE"}

\* spawn() of a program that fits: the entry filled in and its tables built.
spawn(m) ==
    LET e == Min(FreeEntry)
        space == [tables |-> spaces[e].tables, base |-> m.load, span |-> m.span,
                  guard |-> m.load + m.span - m.stack,
                  drives_engines |-> "accelerators" \in m.flags]
        built == map_process(e, space)
        brk == ((m.load + m.memory_size + Align - 1) \div Align) * Align
    IN  /\ procs' = [procs EXCEPT ![e] =
              [state |-> "READY", pid |-> next_pid, base |-> m.load, span |-> m.span,
               flags |-> m.flags, brk |-> brk]]
        /\ next_pid' = next_pid + 1
        /\ spaces' = [spaces EXCEPT ![e] = [space EXCEPT !.tables = built.tables]]
        /\ ram' = built.ram
        /\ panic' = IF built.full THEN "page tables full" ELSE ""

\* A system call of the running process, or the boot, starts a program: one of the
\* image, or a file that passes the checks and asks for no engine.
Starts(m) ==
    /\ m \in RamDisk \/ (entry_ok(m) /\ m.flags = {})
    /\ ~SlotsTaken(m)
    /\ FreeEntry # {}
    /\ next_pid <= MaxPid
    /\ spawn(m)

\* kernel_main() up to the shell: discover() and the checks, any of which may stop it.
Boot ==
    /\ panic = "" /\ ~tree.found
    /\ \E t \in Trees :
          IF ~TreeOk(t) \/ (\E m \in RamDisk : ~entry_ok(m)) \/ ~check_page_table_budget(t)
          THEN panic' = "boot" /\ UNCHANGED tree
          ELSE /\ tree' = [found |-> TRUE, fb |-> t.fb, fb_size |-> t.fb_size,
                           windows |-> t.windows, region |-> Accelerators(t.windows)]
               /\ UNCHANGED panic
    /\ UNCHANGED <<procs, spaces, ram, protected_pid, hart, current, next_pid>>

Up == tree.found /\ panic = ""

StartShell ==
    /\ Up /\ next_pid = 1
    /\ Starts(Shell)
    /\ UNCHANGED <<tree, protected_pid, hart, current>>

Tor(rights) == [a |-> "TOR", rights |-> rights, locked |-> FALSE]

\* The PMP registers protect() writes: TOR pairs, in order.
Pmp(p) ==
    LET region == tree.region
        addr == <<p.base, p.base + p.span, tree.fb, tree.fb + tree.fb_size,
                  region.base, region.end, TablesStart * Fan, TablesEnd * Fan>>
        cfg == <<OffEntry, Tor({"R", "W", "X"}),
                 OffEntry, IF tree.fb # 0 THEN Tor({"R", "W"}) ELSE OffEntry,
                 OffEntry, IF "accelerators" \in p.flags /\ region.end # 0
                           THEN Tor({"R", "W"}) ELSE OffEntry,
                 OffEntry, Tor({"R"})>>
    IN  [pmpaddr |-> [i \in 0..7 |-> addr[i + 1]], pmpcfg |-> [i \in 0..7 |-> cfg[i + 1]]]

\* PMP and satp for the process about to run, unless they are its already.
protect(e) ==
    LET p == procs[e] IN
    IF p.pid = protected_pid THEN UNCHANGED <<protected_pid, hart>>
    ELSE /\ protected_pid' = p.pid
         /\ hart' = [on |-> TRUE, root |-> TablePage(e, 0),
                     pmpaddr |-> Pmp(p).pmpaddr, pmpcfg |-> Pmp(p).pmpcfg]

\* A trap that ends in schedule(): the running process is put aside, and a ready
\* one is entered.
Schedule(e) ==
    /\ Up
    /\ procs[e].state = "READY"
    /\ procs' = [i \in Entries |->
          IF i = e THEN [procs[i] EXCEPT !.state = "RUNNING"]
          ELSE IF procs[i].state = "RUNNING" THEN [procs[i] EXCEPT !.state = "READY"]
          ELSE procs[i]]
    /\ current' = e
    /\ protect(e)
    /\ UNCHANGED <<tree, spaces, ram, next_pid, panic>>

Calls(e) == Up /\ e = current /\ e \in Entries /\ procs[e].state = "RUNNING"

Spawn(e, m) ==
    /\ Calls(e)
    /\ Starts(m)
    /\ UNCHANGED <<tree, protected_pid, hart, current>>

guard_of(e) == spaces[e].guard

\* SYS_SBRK: an unsigned comparison with the room below the guard page.
Sbrk(e, n) ==
    /\ Calls(e)
    /\ n <= (guard_of(e) + Space - procs[e].brk) % Space
    /\ procs' = [procs EXCEPT ![e].brk = (@ + n) % Space]
    /\ UNCHANGED <<tree, spaces, ram, protected_pid, hart, current, next_pid, panic>>

\* The running process ends: a zombie until its parent takes it, or at once free.
Finish(e) ==
    /\ Calls(e)
    /\ procs' \in {[procs EXCEPT ![e].state = "ZOMBIE"], [procs EXCEPT ![e] = Nobody]}
    /\ UNCHANGED <<tree, spaces, ram, protected_pid, hart, current, next_pid, panic>>

Reap(e) ==
    /\ Up /\ procs[e].state = "ZOMBIE"
    /\ procs' = [procs EXCEPT ![e] = Nobody]
    /\ UNCHANGED <<tree, spaces, ram, protected_pid, hart, current, next_pid, panic>>

PagingInit ==
    /\ tree = [found |-> FALSE, fb |-> 0, fb_size |-> 0, windows |-> <<>>,
               region |-> Accelerators(<<>>)]
    /\ procs = [e \in Entries |-> Nobody]
    /\ spaces = [e \in Entries |-> NoSpace]
    /\ ram = [page \in TablesStart..TablesEnd - 1 |-> Empty]
    /\ protected_pid = 0
    /\ hart = [on |-> FALSE, root |-> 0, pmpaddr |-> [i \in 0..7 |-> 0],
               pmpcfg |-> [i \in 0..7 |-> OffEntry]]
    /\ current = MaxProcs
    /\ next_pid = 1
    /\ panic = ""

PagingNext ==
    \/ Boot
    \/ StartShell
    \/ \E e \in Entries : \/ Schedule(e)
                          \/ \E m \in Images : Spawn(e, m)
                          \/ \E n \in Increments : Sbrk(e, n)
                          \/ Finish(e)
                          \/ Reap(e)

\* Bug: the end of the range is compared, and wraps.
UserRangeByEnd(e, address, len) ==
    LET p == procs[e] IN
    /\ address >= p.base
    /\ (address + len) % Space <= p.base + p.span
    /\ ~(len > 0 /\ address < guard_of(e) + Fan /\ (address + len) % Space > guard_of(e))

\* A range inside the process's slots and off its guard page.
user_range(e, address, len) ==
    LET p == procs[e] IN
    /\ address >= p.base
    /\ len <= p.span
    /\ address - p.base <= p.span - len
    /\ ~(len > 0 /\ address < guard_of(e) + Fan /\ (address + len) % Space > guard_of(e))

-----------------------------------------------------------------------------

Own(e) == (procs[e].base..(procs[e].base + procs[e].span - 1))
            \ (guard_of(e)..(guard_of(e) + Fan - 1))

\* The engines' pages inside the region PMP grants.
EngineWords ==
    {w \in tree.region.base..(tree.region.end - 1) :
        \E v \in Range(tree.windows) :
            w \div Fan \in (v.base \div Fan)..((v.base + v.size - 1) \div Fan)}

Granted(e, w, kind) ==
    \/ w \in Own(e)
    \/ /\ kind # "fetch"
       /\ \/ tree.fb # 0 /\ w \in tree.fb..(tree.fb + tree.fb_size - 1)
          \/ "accelerators" \in procs[e].flags /\ w \in EngineWords

\* While a process runs, what the page tables in RAM and the PMP registers let user
\* mode reach is exactly its slots without the guard page (to read, write and run),
\* the framebuffer and, if it drives them, the engines' windows (to read and write),
\* each at its own physical address, whatever ran in its entry before (map_process(),
\* protect(), translate(), pmp_allows()).
ReachExact ==
    (current \in Entries /\ procs[current].state = "RUNNING" /\ Up) =>
        \A w \in 0..Space - 1, kind \in Kinds :
            LET t == Access(Walker, w, kind, U) IN
            IF Granted(current, w, kind) THEN t = Ok(w) ELSE t.status # "ok"

\* The kernel, which copies by physical address, accepts a program's buffer exactly
\* when every word of it is one the program itself may touch, however near the ends
\* of the space address and length are (user_range()); and the heap never reaches
\* the guard page, whatever sbrk is asked for (SYS_SBRK, entry_ok()).
UserMemoryBounded ==
    \A e \in Entries : procs[e].state # "FREE" =>
        /\ procs[e].brk \in procs[e].base..guard_of(e)
        /\ \A address \in Probes, len \in Probes \ {0} :
              user_range(e, address, len) <=> (address..(address + len - 1)) \subseteq Own(e)

\* A tree the boot check accepts never runs an entry out of page tables, however many
\* programs with different windows have used it (check_page_table_budget(), map()).
BudgetSound == panic # "page tables full"

=============================================================================
