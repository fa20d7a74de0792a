-------------------------------- MODULE Areas --------------------------------
(***************************************************************************)
(* The memory of the processes: the areas of procmm.c, the page table      *)
(* entries and frames behind them, copy on write over fork, the page fault *)
(* handler, and the system calls that change them (fork, execve, exit,     *)
(* waitpid, sbrk, vidmem) or write through them (read, stat).              *)
(*                                                                         *)
(* Every handler runs to its end with interrupts disabled, so each is one  *)
(* action.  The functions of the code map a memory state m, a record of    *)
(* the variables, to the state after them; `mem' is the current one and    *)
(* Becomes(m) the step to m.                                               *)
(*                                                                         *)
(* An address is a number, PageSize of them to a page.  A page holds the   *)
(* set of what was stored in it since it was made: a store overwrites a    *)
(* part of it, and the rest must not get lost.  The contents of a frame    *)
(* that nobody maps are not kept: the frames the code leaks at exit are    *)
(* handed out again here, unlike in the code.                              *)
(* The type of an area (stack or data) is told by its flag "DOWN".         *)
(***************************************************************************)
EXTENDS Naturals, Integers, FiniteSets, SequencesExt

CONSTANTS
    PageSize,      \* addresses to a page
    NumPages,      \* pages of the user part of an address space
    Pid,           \* the processes that exist at one time
    Segments,      \* the loadable segments of every program, in file order
    StackTop,      \* USER_STACK_TOP
    VideoPages,    \* the page of address 0xB8000, {} if no program asks for it
    Increments,    \* the arguments of sbrk
    BrkLimit,      \* bound on data_end
    Accessed,      \* the addresses programs read and write
    Values,        \* what they write there
    File,          \* what the executable holds
    Cases          \* uses that are known to break the promise of the code

Page  == 0..(NumPages - 1)
Addr  == 0..(NumPages * PageSize - 1)
Frame == 1..(NumPages * Cardinality(Pid))
Flags == {"WRITE", "SHARED", "NOSHARE", "COW", "DOWN", "ADDONUSE"}

ASSUME SizesAssumption ==
    /\ {PageSize, NumPages, BrkLimit} \subseteq Nat \ {0}
    /\ StackTop % PageSize = 0 /\ StackTop <= NumPages * PageSize
    /\ BrkLimit < StackTop - 2 * PageSize
    /\ VideoPages \subseteq Page /\ Accessed \subseteq Addr
ASSUME CasesAssumption ==
    Cases \subseteq {"deep_stack", "shared_kernel_write", "shrink", "video_again"}

Device == 0                           \* the frame of the video memory
NoPage == [frame |-> -1, w |-> FALSE] \* an entry that is not PAGE_PRESENT
Junk   == {}                          \* what a page from pmm_alloc_page holds
Absent == {"absent"}
Fresh  == {Junk, {File}}              \* what the pages of a new program hold

VARIABLES
    areas,      \* process_mem_t.mem: the areas of each process, in list order
    table,      \* the page table entries of each process
    phys,       \* the contents of the frames
    data_end,   \* process_mem_t.data_end
    status,     \* FREE, LIVE or ZOMBIE (PROC_STATE_FINISHED)
    halt        \* why the kernel stopped, "no" while it runs

vars == <<areas, table, phys, data_end, status, halt>>

mem == [areas |-> areas, table |-> table, phys |-> phys, data_end |-> data_end,
        status |-> status, halt |-> halt]

Used(m) == {m.table[p][g].frame : p \in Pid, g \in Page}

Halt(m, why) == [m EXCEPT !.halt = why]

PageOf(a)  == a \div PageSize
Floor(a)   == PageOf(a) * PageSize
Ceiling(a) == Floor(a + PageSize - 1)
\* The pages of [s, e), lowest first
PagesIn(s, e) == [k \in 1..((e - s) \div PageSize) |-> PageOf(s) + k - 1]

-----------------------------------------------------------------------------
(* Page table entries and frames *)

Present(m, p, g) == m.table[p][g].frame # -1

\* A page from pmm_alloc_page for page g of p.  Which one it is does not
\* matter: each page has a pool, large enough for all processes.
MapPage(m, p, g, w) ==
    LET pool == {f \in Frame \ Used(m) : f % NumPages = g}
        f    == CHOOSE f \in pool : \A h \in pool : f <= h
    IN  [m EXCEPT !.table[p][g] = [frame |-> f, w |-> w], !.phys[f] = Junk]

Store(m, p, g, v) ==
    IF m.table[p][g].frame = Device THEN m
    ELSE [m EXCEPT !.phys[m.table[p][g].frame] = @ \cup v]

-----------------------------------------------------------------------------
(* Areas.  The copies of an area, its ring in the code, are the areas with   *)
(* the same value of ring.  Only the equality of two values means something: *)
(* a ring is named by its first address and its owners when a step ends.     *)

Alone == <<>>

Area(s, e, flags) == [start |-> s, end |-> e, flags |-> flags, ring |-> Alone]

\* The other members of the ring of area i of p: pairs of a process and an index
Copies(m, p, i) ==
    {c \in UNION {{q} \X DOMAIN m.areas[q] : q \in Pid} \ {<<p, i>>} :
        /\ m.areas[p][i].ring # Alone
        /\ m.areas[c[1]][c[2]].ring = m.areas[p][i].ring}

RingName(m, p, i) ==
    LET ring == Copies(m, p, i) \cup {<<p, i>>}
    IN  IF Cardinality(ring) = 1 THEN Alone
        ELSE <<Min({m.areas[c[1]][c[2]].start : c \in ring}), {c[1] : c \in ring}>>

Becomes(m) ==
    /\ areas' = [p \in Pid |-> [i \in DOMAIN m.areas[p] |->
                    [m.areas[p][i] EXCEPT !.ring = RingName(m, p, i)]]]
    /\ table' = m.table
    /\ LET used == Used(m)
       IN  phys' = [f \in Frame |-> IF f \in used THEN m.phys[f] ELSE Junk]
    /\ data_end' = m.data_end
    /\ status' = m.status
    /\ halt' = m.halt

\* Index of the area of p that holds address a, or 0
find_including(m, p, a) ==
    SelectInSeq(m.areas[p], LAMBDA area : area.start <= a /\ area.end > a)

\* Index of the area that holds a, or of the last one whose left neighbour
\* ends below a
find_above(m, p, a) ==
    LET within == find_including(m, p, a)
        left   == SelectLastInSubSeq(m.areas[p], 1, Len(m.areas[p]) - 1,
                                     LAMBDA area : area.end < a)
    IN  CASE within # 0 -> within
          [] within = 0 /\ left # 0 -> left + 1
          [] OTHER -> 0

\* The first of the areas `touching' of s, k aside, that has k's flags; or 0
Neighbour(s, k, touching) ==
    SelectInSeq([j \in DOMAIN s |-> j],
                LAMBDA j : j \in touching \ {k} /\ s[j].flags = s[k].flags)

GlueLeft(s, k, left) ==
    IF left = 0 THEN s ELSE RemoveAt([s EXCEPT ![left].end = s[k].end], k)
GlueRight(s, k) ==
    LET right == Neighbour(s, k, {j \in DOMAIN s : s[j].start = s[k].end})
    IN  IF right = 0 THEN s ELSE RemoveAt([s EXCEPT ![k].end = s[right].end], right)

\* Area i of p takes in the first neighbour that ends where it starts, and
\* then the first that starts where it ends, when their flags are the same.
glue_area(m, p, i) ==
    LET s    == m.areas[p]
        left == Neighbour(s, i, {j \in DOMAIN s : s[j].end = s[i].start})
        at   == CASE left = 0 -> i [] left > i -> left - 1 [] OTHER -> left
    IN  IF Copies(m, p, i) # {} \/ "COW" \in s[i].flags THEN m
        ELSE [m EXCEPT !.areas[p] = GlueRight(GlueLeft(s, i, left), at)]

\* Mutant of InsertionPoint: a new area goes to the end of the list.
InsertionLast(s, e) == Len(s) + 1

\* Before the first area that starts beyond the end of the new one
InsertionPoint(s, e) ==
    LET k == SelectInSeq(s, LAMBDA b : b.start > e)
    IN  IF k = 0 THEN Len(s) + 1 ELSE k

\* new_area, given the bounds as they are after rounding.  While a process is
\* being made it has no page directory, and none is loaded in its place.
new_area_in(m, p, s, e, flags) ==
    LET at     == InsertionPoint(m.areas[p], e)
        probes == {s + k * PageSize : k \in 0..((e - s) \div PageSize)}
        hit    == {a \in probes : find_including(m, p, a) # 0}
        backed == flags \cap {"ADDONUSE", "COW"} = {} /\ s < e
        m1 == IF ~backed THEN m
              ELSE FoldLeft(LAMBDA n, g : MapPage(n, p, g, "WRITE" \in flags),
                            m, PagesIn(s, e))
        m2 == [m1 EXCEPT !.areas[p] = InsertAt(@, at, Area(s, e, flags))]
    IN  CASE hit = {e} -> Halt(m, "neighbour")
          [] hit \notin {{}, {e}} -> Halt(m, "overlap")
          [] hit = {} /\ backed /\ m.status[p] = "FREE" -> Halt(m, "window")
          [] OTHER -> glue_area(m2, p, at)

new_area(m, p, s, e, flags) ==
    IF m.halt # "no" THEN m ELSE new_area_in(m, p, Floor(s), Ceiling(e), flags)

\* Cuts [s, e) out of area i of p, and out of all its copies; what is left of
\* it on either side makes up a ring of its own.
split_area(m, p, i, s, e) ==
    LET ma  == m.areas[p][i]
        cut == Copies(m, p, i) \cup {<<p, i>>}
        Piece(b, x, y) ==
            IF x >= y THEN <<>>
            ELSE <<[b EXCEPT !.start = x, !.end = y,
                             !.ring = IF @ = Alone THEN @ ELSE <<x, @[2]>>]>>
        Pieces(b) == Piece(b, b.start, s) \o Piece(b, s, e) \o Piece(b, e, b.end)
    IN  [m EXCEPT !.areas =
            [q \in Pid |-> FlattenSeq([k \in DOMAIN m.areas[q] |->
                IF <<q, k>> \in cut THEN Pieces(m.areas[q][k])
                ELSE <<m.areas[q][k]>>])]]

\* Mutant of Protect: the pages stay writable.
ProtectAreaOnly(m, p, i) ==
    [m EXCEPT !.areas[p][i].flags = (@ \ {"WRITE"}) \cup {"SHARED", "COW"}]

\* The area is shared; what was writable in it becomes copy on write.
Protect(m, p, i) ==
    LET ma    == m.areas[p][i]
        cow   == ma.flags \cap {"WRITE", "COW"} # {}
        pages == {PageOf(a) : a \in ma.start..(ma.end - 1)}
    IN  IF ~cow THEN [m EXCEPT !.areas[p][i].flags = @ \cup {"SHARED"}]
        ELSE [m EXCEPT !.areas[p][i].flags = (@ \ {"WRITE"}) \cup {"SHARED", "COW"},
                       !.table[p] = [g \in Page |->
                           [@[g] EXCEPT !.w = @ /\ g \notin pages]]]

\* Process c's new area with the bounds of area i of p joins the ring of that
\* area.  (An area without pages has nothing to share and is left out here.)
Join(m, p, i, c) ==
    LET ma   == m.areas[p][i]
        k    == find_including(m, c, ma.start)
        ring == IF ma.ring = Alone THEN <<ma.start, {p, c}>> ELSE ma.ring
    IN  IF ma.start = ma.end \/ m.halt # "no" THEN m
        ELSE [m EXCEPT !.areas[p][i].ring = ring, !.areas[c][k].ring = ring]

\* Area i of parent p, shared with process c
share_area(m, p, i, c) ==
    LET m1 == Protect(m, p, i)
        ma == m1.areas[p][i]
    IN  Join(new_area(m1, c, ma.start, ma.end, ma.flags), p, i, c)

-----------------------------------------------------------------------------
(* Page faults *)

\* Mutants of OwnPage: the page is not writable after it; the new page does
\* not get the contents of the old one.
OwnPageReadOnly(m, p, i, g) ==
    [m EXCEPT !.areas[p][i].flags = (@ \ {"COW"}) \cup {"WRITE"}]
OwnPageEmpty(m, p, i, g) ==
    LET own == [m EXCEPT !.areas[p][i].flags = (@ \ {"COW"}) \cup {"WRITE"}]
    IN  IF Copies(m, p, i) = {} THEN [own EXCEPT !.table[p][g].w = TRUE]
        ELSE [MapPage(own, p, g, TRUE) EXCEPT !.areas[p][i].ring = Alone]

\* Page g, all that area i of p has, becomes p's own: in place when the area
\* has no copies, else as a copy.
OwnPage(m, p, i, g) ==
    LET own == [m EXCEPT !.areas[p][i].flags = (@ \ {"COW"}) \cup {"WRITE"}]
    IN  IF Copies(m, p, i) = {} THEN [own EXCEPT !.table[p][g].w = TRUE]
        ELSE [Store(MapPage(own, p, g, TRUE), p, g, m.phys[m.table[p][g].frame])
                EXCEPT !.areas[p][i].ring = Alone]

\* A write to a page that is shared until it is written
CopyOnWrite(m, p, a) ==
    LET cut == split_area(m, p, find_including(m, p, a), Floor(a), Floor(a) + PageSize)
    IN  OwnPage(cut, p, find_including(cut, p, a), PageOf(a))

\* A fault at a, which lies in no area: the one above it grows if it is a stack.
GrowDown(m, p, a, above) ==
    IF \/ above.start < a \/ above.start - a >= PageSize
       \/ "DOWN" \notin above.flags \/ a = 0
    THEN [m |-> m, done |-> "fault"]
    ELSE [m |-> new_area(m, p, Floor(a), above.start, above.flags), done |-> "retry"]

\* procmm_handle_page_fault: "retry" the access, or a "fault" where it returns 1
procmm_handle_page_fault(m, p, a, present, write) ==
    LET i     == find_including(m, p, a)
        flags == m.areas[p][i].flags
        k     == find_above(m, p, a)
    IN  CASE i # 0 /\ present /\ write /\ "COW" \in flags ->
                [m |-> CopyOnWrite(m, p, a), done |-> "retry"]
          [] i # 0 /\ ~present /\ "ADDONUSE" \in flags ->
                [m |-> MapPage(m, p, PageOf(a), "WRITE" \in flags), done |-> "retry"]
          [] i = 0 /\ k # 0 -> GrowDown(m, p, a, m.areas[p][k])
          [] OTHER -> [m |-> m, done |-> "fault"]

\* One access: the instruction is tried again after every fault that was
\* handled, up to four times, more than any access needs.  The kernel writes to
\* read-only pages too (CR0.WP is not set).  done is "ok", "fault", or "retry"
\* when the faults would not end.
Access(m, p, a, write, user) ==
    LET Try(r) ==
            LET x == r.m.table[p][PageOf(a)]
            IN  CASE r.done # "retry" \/ r.m.halt # "no" -> r
                  [] x.frame # -1 /\ (x.w \/ ~write \/ ~user) -> [r EXCEPT !.done = "ok"]
                  [] OTHER -> procmm_handle_page_fault(r.m, p, a, x.frame # -1, write)
    IN  Try(Try(Try(Try([m |-> m, done |-> "retry"]))))

\* After access r of the kernel to page g: v is stored, or the kernel stops.
KernelStores(r, p, g, v) ==
    CASE r.done = "ok" -> Store(r.m, p, g, v)
      [] r.done # "ok" /\ r.m.halt = "no" -> Halt(r.m, "kernel_fault")
      [] OTHER -> r.m

KernelWrites(m, p, a, v) ==
    KernelStores(Access(m, p, a, TRUE, FALSE), p, PageOf(a), v)

\* 3 and 1: in an area that is, or is not, writable; 2: below a stack; 0: none
procmm_check_address(m, p, a) ==
    LET i == find_including(m, p, a)
        k == find_above(m, p, a)
    IN  CASE i # 0 -> IF m.areas[p][i].flags \cap {"WRITE", "COW"} # {} THEN 3 ELSE 1
          [] i = 0 /\ k # 0 -> IF "DOWN" \in m.areas[p][k].flags THEN 2 ELSE 0
          [] OTHER -> 0

-----------------------------------------------------------------------------
(* Processes *)

\* fork_process, as far as memory goes.  The child's page directory is a copy
\* of the parent's with the parent's write protection; it is made last.
procmm_fork(m, p, c) ==
    LET Share(n, i) ==
            IF "NOSHARE" \in n.areas[p][i].flags THEN n ELSE share_area(n, p, i, c)
    IN  FoldLeft(Share, [m EXCEPT !.data_end[c] = m.data_end[p]],
                 [i \in DOMAIN m.areas[p] |-> i])

vmm_clone_pd(m, p, c) == [m EXCEPT !.table[c] = m.table[p], !.status[c] = "LIVE"]

\* Mutant of procmm_exit: the process keeps its state after it is freed.
procmm_exit_state(m, p) == [m EXCEPT !.areas[p] = <<>>, !.status[p] = "FINISHED"]

\* Only the areas go; the pages and the directory of a dead process stay behind.
procmm_exit(m, p) ==
    [m EXCEPT !.areas[p] = <<>>, !.table[p] = [g \in Page |-> NoPage],
              !.data_end[p] = 0, !.status[p] = "FREE"]

procmm_removeall(m, p) ==
    LET gone == {PageOf(a) : a \in UNION {m.areas[p][i].start..(m.areas[p][i].end - 1) :
                                             i \in DOMAIN m.areas[p]}}
    IN  [m EXCEPT !.areas[p] = <<>>,
                  !.table[p] = [g \in Page |-> IF g \in gone THEN NoPage ELSE @[g]]]

load_elf_segment(m, p, seg) ==
    LET m1 == new_area(m, p, seg.start, seg.end, seg.flags)
    IN  IF seg.start = seg.end THEN m1
        ELSE FoldLeft(LAMBDA n, g : KernelWrites(n, p, g * PageSize, {File}),
                      m1, PagesIn(Floor(seg.start), Ceiling(seg.end)))

load_elf(m, p) ==
    LET ends == {Segments[k].end : k \in DOMAIN Segments}
        m1   == FoldLeft(LAMBDA n, seg : load_elf_segment(n, p, seg), m, Segments)
    IN  [m1 EXCEPT !.data_end[p] = CHOOSE e \in ends : \A x \in ends : x <= e]

\* The stack is an empty area; the arguments written below it are its first use.
execve(m, p) ==
    LET m1 == load_elf(procmm_removeall(m, p), p)
        m2 == new_area(m1, p, StackTop, StackTop, {"WRITE", "DOWN", "ADDONUSE"})
    IN  KernelWrites(m2, p, StackTop - 1, {File})

\* Mutant of usr_sbrk: an area is extended from the end of the data.
usr_sbrk_data_end(m, p, incr) ==
    LET end == m.data_end[p]
        i   == find_including(m, p, end)
        m1  == IF i # 0 /\ m.areas[p][i].end > end + incr THEN m
               ELSE new_area(m, p, end, end + incr, {"WRITE"})
    IN  [m1 EXCEPT !.data_end[p] = end + incr]

usr_sbrk(m, p, incr) ==
    LET end == m.data_end[p]
        i   == find_including(m, p, end)
        m1  == CASE i = 0 -> new_area(m, p, end, end + incr, {"WRITE"})
                 [] i # 0 /\ m.areas[p][i].end > end + incr -> m
                 [] OTHER -> new_area(m, p, m.areas[p][i].end, end + incr, {"WRITE"})
    IN  [m1 EXCEPT !.data_end[p] = end + incr]

\* g is the page of the video memory.
vidmem(m, p, g) ==
    LET m1 == new_area(m, p, g * PageSize, (g + 1) * PageSize, {"WRITE", "NOSHARE"})
    IN  IF m1.halt # "no" THEN m1
        ELSE [m1 EXCEPT !.table[p][g] = [frame |-> Device, w |-> TRUE]]

-----------------------------------------------------------------------------
(* What processes do *)

Blank(p) == [areas |-> [q \in Pid |-> <<>>],
             table |-> [q \in Pid |-> [g \in Page |-> NoPage]],
             phys |-> [f \in Frame |-> Junk],
             data_end |-> [q \in Pid |-> 0],
             status |-> [q \in Pid |-> IF q = p THEN "LIVE" ELSE "FREE"],
             halt |-> "no"]

Starts(m) ==
    /\ areas = m.areas /\ table = m.table /\ phys = m.phys
    /\ data_end = m.data_end /\ status = m.status /\ halt = m.halt

\* kinit: the boot process runs execve("/bin/init").
Init == \E p \in Pid : Starts(execve(Blank(p), p))

Running(p) == halt = "no" /\ status[p] = "LIVE"

\* An access just below a stack that has a page already makes the stack grow.
GrowsAgain(p, a) ==
    LET k == find_above(mem, p, a)
    IN  /\ find_including(mem, p, a) = 0 /\ k # 0
        /\ "DOWN" \in areas[p][k].flags
        /\ areas[p][k].start < areas[p][k].end
        /\ areas[p][k].start - a < PageSize

\* After access r of the program: an access that no area allows ends in
\* SIGSEGV and so in _exit.
UserStores(r, p, g, v) ==
    CASE r.done = "ok" -> Store(r.m, p, g, v)
      [] r.done = "fault" -> [r.m EXCEPT !.status[p] = "ZOMBIE"]
      [] OTHER -> r.m

\* A read stores nothing (v = {}).
UserAccess(p, a, write, v) ==
    /\ Running(p)
    /\ "deep_stack" \in Cases \/ ~GrowsAgain(p, a)
    /\ Becomes(UserStores(Access(mem, p, a, write, TRUE), p, PageOf(a), v))

UserWrite(p) == \E a \in Accessed, v \in Values : UserAccess(p, a, TRUE, {v})
UserRead(p)  == \E a \in Accessed : UserAccess(p, a, FALSE, {})

SharedFrame(p, g) ==
    /\ Present(mem, p, g)
    /\ \E q \in Pid \ {p}, h \in Page : table[q][h].frame = table[p][g].frame

\* read and stat store their results where procmm_check_address says they may.
KernelWrite(p) ==
    /\ Running(p)
    /\ \E a \in Accessed, v \in Values :
        /\ procmm_check_address(mem, p, a)
                \in (IF "deep_stack" \in Cases THEN {2, 3} ELSE {3})
        /\ "shared_kernel_write" \in Cases \/ ~SharedFrame(p, PageOf(a))
        /\ Becomes(KernelWrites(mem, p, a, {v}))

Fork(p) ==
    /\ Running(p)
    /\ \E c \in Pid :
        /\ status[c] = "FREE"
        /\ LET m == procmm_fork(mem, p, c)
           IN  Becomes(IF m.halt # "no" THEN m ELSE vmm_clone_pd(m, p, c))

Execve(p) == Running(p) /\ Becomes(execve(mem, p))

Exit(p) == Running(p) /\ Becomes([mem EXCEPT !.status[p] = "ZOMBIE"])

\* waitpid by a process that is still there
Reap(p) ==
    /\ status[p] = "ZOMBIE"
    /\ \E q \in Pid : Running(q)
    /\ Becomes(procmm_exit(mem, p))

Sbrk(p) ==
    /\ Running(p)
    /\ \E incr \in Increments :
        /\ data_end[p] + incr \in 0..BrkLimit
        /\ incr >= 0 \/ "shrink" \in Cases
        /\ Becomes(usr_sbrk(mem, p, incr))

Vidmem(p) ==
    /\ Running(p)
    /\ \E g \in VideoPages :
        /\ "video_again" \in Cases \/ find_including(mem, p, g * PageSize) = 0
        /\ Becomes(vidmem(mem, p, g))

Next == \E p \in Pid :
            \/ UserWrite(p) \/ UserRead(p) \/ KernelWrite(p)
            \/ Fork(p) \/ Execve(p) \/ Exit(p) \/ Reap(p)
            \/ Sbrk(p) \/ Vidmem(p)

Spec == Init /\ [][Next]_vars

-----------------------------------------------------------------------------
(* Properties *)

\* Every variable has its type.
TypeOK ==
    /\ areas \in [Pid -> Seq([start : Nat, end : Nat, flags : SUBSET Flags,
                           ring : {Alone} \cup (Addr \X SUBSET Pid)])]
    /\ table \in [Pid -> [Page -> [frame : Frame \cup {-1, Device}, w : BOOLEAN]]]
    /\ phys \in [Frame -> SUBSET (Values \cup {File})]
    /\ data_end \in [Pid -> Nat]
    /\ status \in [Pid -> {"FREE", "LIVE", "ZOMBIE"}]
    /\ halt \in {"no", "neighbour", "overlap", "window", "kernel_fault"}

\* The areas of a process are in the order of their addresses and none
\* reaches into the next, however they were cut, joined and grown.
AreasSorted ==
    \A p \in Pid : \A i \in DOMAIN areas[p] :
        /\ areas[p][i].start <= areas[p][i].end
        /\ i > 1 => areas[p][i - 1].end <= areas[p][i].start

\* The copies of an area, in however many processes and after however many
\* cuts by each of them, have its bounds; no process has two.
RingsAgree ==
    \A p \in Pid : \A i \in DOMAIN areas[p] : \A c \in Copies(mem, p, i) :
        /\ c[1] # p
        /\ areas[c[1]][c[2]].start = areas[p][i].start
        /\ areas[c[1]][c[2]].end = areas[p][i].end

\* A frame that a process can write belongs to that page of that process
\* alone, the video memory aside: what is shared after a fork is read only
\* in every process that maps it.
WritableIsPrivate ==
    \A p, q \in Pid : \A g, h \in Page :
        (/\ table[p][g].w /\ table[p][g].frame # Device
         /\ table[q][h].frame = table[p][g].frame) => p = q /\ g = h

\* A page that shares its frame is in a copy-on-write area of each of the
\* processes, and these areas are copies of one another: the process that
\* finds its area without copies may write the page in place.
SharedPagesAreCopies ==
    \A p \in Pid : \A q \in Pid \ {p} : \A g \in Page :
        (Present(mem, p, g) /\ table[p][g].frame = table[q][g].frame
           /\ table[p][g].frame # Device) =>
        LET i == find_including(mem, p, g * PageSize)
            k == find_including(mem, q, g * PageSize)
        IN  i # 0 /\ k # 0 /\ "COW" \in areas[p][i].flags /\ <<q, k>> \in Copies(mem, p, i)

\* What processes share is what their areas say they share, page by page.
SharingSound == RingsAgree /\ WritableIsPrivate /\ SharedPagesAreCopies

\* Every page that a process has mapped lies in one of its areas, so that
\* execve unmaps it and a fork protects it; the video page, which a fork
\* leaves in the child without its area, excepted.
MappedHasArea ==
    \A p \in Pid : \A g \in Page :
        Present(mem, p, g) /\ g \notin VideoPages => find_including(mem, p, g * PageSize) # 0

\* Whatever state its areas and pages are in, a process can read and write
\* every page of its areas: the faults on the way are all handled, and they end.
FaultsResolve ==
    \A p \in Pid : \A g \in Page :
        LET a == g * PageSize
        IN  Running(p) /\ find_including(mem, p, a) # 0 =>
                \A write \in BOOLEAN : Access(mem, p, a, write, TRUE).done = "ok"

\* The pages of a process and its areas fit, in both directions.
PagesFitAreas == MappedHasArea /\ FaultsResolve

\* The kernel meets no colliding areas and no fault of its own.
NoHalt == halt = "no"

\* Areas that only touch do not collide: a stack can grow down to the page
\* below its first one.  new_area, procmm.c:47, "Check that it doesn't collide
\* with allready allocated space".
NeighboursDoNotCollide == halt # "neighbour"

\* The memory the processes see
memory == [p \in Pid |-> [g \in Page |->
    IF Present(mem, p, g) /\ table[p][g].frame # Device
    THEN phys[table[p][g].frame] ELSE Absent]]

\* No step changes what two processes see.  fork_process, process.c:162,
\* "Clone memory map (copy on write for everything)".
OneMemoryAtATime ==
    [][\A p, q \in Pid :
        memory'[p] # memory[p] /\ memory'[q] # memory[q] => p = q]_vars

Private == INSTANCE PrivateMemory

\* The areas, page tables, frames and faults give every process a memory of
\* its own, which a fork copies and nothing else shares.
ImplementsPrivateMemory == Private!Spec

==============================================================================
