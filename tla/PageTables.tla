------------------------------ MODULE PageTables ------------------------------
(***************************************************************************)
(* Page directories and page tables (vmm.c), the kernel heap that grows    *)
(* through them (sbrk of sys_mem.c) and the page faults of the kernel.     *)
(*                                                                         *)
(* Every process has a directory.  Its user tables are its own; the        *)
(* tables of the kernel's part are shared, and a directory that lacks one  *)
(* takes it from the master directory kernel_pd when it is first needed.   *)
(* An address is a page number, TableSize of them to a table, the user's   *)
(* first.  An entry of a table is Absent, "ro" or "rw": which frame it     *)
(* names does not matter here.  A table is known by its place and by the   *)
(* directory for which it was allocated; as directories are not freed, no  *)
(* directory has two made for one place, and this names no table twice.    *)
(* The window through which another directory is edited (vmm_exdir_set)    *)
(* and the pages VMM_TEMP1 and 2 are put back by every function that uses  *)
(* them, so they are no state between two steps.                           *)
(***************************************************************************)
EXTENDS Integers

CONSTANTS
    MaxPd,         \* directories ever made; directory 0 is kernel_pd
    TableSize,     \* pages to a table
    UserTables,    \* tables below KERNEL_OFFSET
    HeapTables,    \* tables of the kernel heap
    MaxIncr,       \* bound on the argument of the kernel's sbrk
    Cases          \* uses that are known to break the promise of the code

Dir    == 0..MaxPd
Index  == 0..(UserTables + HeapTables - 1)
Kernel == UserTables..(UserTables + HeapTables - 1)
UserPage  == 0..(UserTables * TableSize - 1)
HeapStart == UserTables * TableSize
HeapEnd   == (UserTables + HeapTables) * TableSize

ASSUME SizesAssumption ==
    {MaxPd, TableSize, UserTables, HeapTables, MaxIncr} \subseteq Nat \ {0}
ASSUME CasesAssumption == Cases \subseteq {"cold_heap"}

kernel_pd == 0
Absent == "absent"
None   == [made |-> -1, flags |-> Absent]   \* a directory entry without PAGE_PRESENT

\* A directory entry: the table that was made for directory d, and its flags
Entry(d, flags) == [made |-> d, flags |-> flags]

VARIABLES
    dir,         \* dir[d][x]: the entry for place x in directory d
    tables,      \* tables[d][x]: the contents of the table made for it
    pds,         \* the directories made so far
    cr3,         \* the one that is loaded
    kmem_top,    \* the first page beyond the heap's mapped pages
    kmem_ptr,    \* the first page beyond what sbrk has given out
    goal,        \* what kmem_ptr becomes, while sbrk adds pages; else 0
    halt         \* why the kernel stopped, "no" while it runs

vars == <<dir, tables, pds, cr3, kmem_top, kmem_ptr, goal, halt>>

\* What vmm.c works on: the directories and the tables
space == [dir |-> dir, tables |-> tables]

IndexOf(g) == g \div TableSize
Cleared == [k \in 0..(TableSize - 1) |-> Absent]

-----------------------------------------------------------------------------
(* vmm.c *)

\* vmm_page_get and vmm_expage_get: the entry for page g in directory d
vmm_page_get(s, d, g) ==
    IF s.dir[d][IndexOf(g)] = None THEN Absent
    ELSE s.tables[s.dir[d][IndexOf(g)].made][IndexOf(g)][g % TableSize]

\* Mutant of vmm_page_touch: the master directory is not looked at.
TouchOwn(s, d, g, v) ==
    LET x == IndexOf(g)
    IN  IF s.dir[d][x] # None THEN s
        ELSE [dir    |-> [s.dir EXCEPT ![d][x] = Entry(d, v)],
              tables |-> [s.tables EXCEPT ![d][x] = Cleared]]

\* A table for page g in directory d.  A kernel table the master has is copied
\* from there; and then it is cleared, as a new one is.
vmm_page_touch(s, d, g, v) ==
    LET x      == IndexOf(g)
        master == s.dir[kernel_pd][x]
        entry  == IF x \in Kernel /\ master # None THEN master ELSE Entry(d, v)
        linked == [s.dir EXCEPT ![d][x] = entry]
    IN  IF s.dir[d][x] # None THEN s
        ELSE [dir    |-> IF x \in Kernel THEN [linked EXCEPT ![kernel_pd][x] = entry] ELSE linked,
              tables |-> [s.tables EXCEPT ![entry.made][x] = Cleared]]

\* vmm_page_set, and vmm_expage_set for a user page
vmm_page_set(s, d, g, v) ==
    LET x  == IndexOf(g)
        s1 == vmm_page_touch(s, d, g, v)
    IN  [dir    |-> s1.dir,
         tables |-> [s1.tables EXCEPT ![s1.dir[d][x].made][x][g % TableSize] = v]]

\* Mutant of CloneUser: the tables themselves are shared.
CloneUserShared(s, from, to) ==
    [dir |-> [s.dir EXCEPT ![to] = [x \in Index |-> s.dir[from][x]]], tables |-> s.tables]

\* The user's part of vmm_clone_pd: each table is copied, its flags kept.
CloneUser(s, from, to) ==
    LET copied == {x \in Index \ Kernel : s.dir[from][x] # None}
    IN  [dir    |-> [s.dir EXCEPT ![to] = [x \in Index |->
                        IF x \in copied THEN Entry(to, s.dir[from][x].flags) ELSE s.dir[to][x]]],
         tables |-> [s.tables EXCEPT ![to] = [x \in Index |->
                        IF x \in copied THEN s.tables[s.dir[from][x].made][x]
                        ELSE s.tables[to][x]]]]

\* and the kernel's: its tables are shared.
vmm_clone_pd(s, from, to) ==
    LET s1 == CloneUser(s, from, to)
    IN  [dir    |-> [s1.dir EXCEPT ![to] = [x \in Index |->
                        IF x \in Kernel THEN s.dir[from][x] ELSE s1.dir[to][x]]],
         tables |-> s1.tables]

-----------------------------------------------------------------------------
(* The kernel *)

Move(s) == dir' = s.dir /\ tables' = s.tables
\* The kernel runs, and is not in the loop of sbrk
Up == halt = "no" /\ goal = 0

\* vmm_init: the boot directory becomes the master, and a copy of it is loaded.
Init ==
    /\ dir = [d \in Dir |-> [x \in Index |-> None]]
    /\ tables = [d \in Dir |-> [x \in Index |-> Cleared]]
    /\ pds = 1
    /\ cr3 = 1
    /\ kmem_top = HeapStart
    /\ kmem_ptr = HeapStart
    /\ goal = 0
    /\ halt = "no"

\* fork_process
Fork ==
    /\ Up /\ pds < MaxPd
    /\ Move(vmm_clone_pd(space, cr3, pds + 1))
    /\ pds' = pds + 1
    /\ UNCHANGED <<cr3, kmem_top, kmem_ptr, goal, halt>>

\* switch_process
Switch ==
    /\ Up
    /\ cr3' \in (1..pds) \ {cr3}
    /\ UNCHANGED <<dir, tables, pds, kmem_top, kmem_ptr, goal, halt>>

\* new_area, the page fault handler, share_area and procmm_removeall set
\* entries of user pages in the directory of the running process.  Only a
\* page table can hold an entry to clear.
SetUserPage ==
    /\ Up
    /\ \E g \in UserPage, v \in {Absent, "ro", "rw"} :
        /\ v = Absent => dir[cr3][IndexOf(g)] # None
        /\ Move(vmm_page_set(space, cr3, g, v))
    /\ UNCHANGED <<pds, cr3, kmem_top, kmem_ptr, goal, halt>>

\* A table of the heap that the master has and the loaded directory lacks
Cold(g) == dir[cr3][IndexOf(g)] = None /\ dir[kernel_pd][IndexOf(g)] # None

\* What malloc has read before it asks for more is the header of the last
\* chunk, somewhere in the heap: the loaded directory has the table of that.
HeaderRead == \E g \in HeapStart..(kmem_top - 1) : dir[cr3][IndexOf(g)] # None

\* The kernel's sbrk, up to its loop.  Where the last chunk begins in the table
\* in which the heap ends, that table is not cold; "cold_heap" are the calls
\* where it begins in an earlier table.
Sbrk ==
    /\ Up
    /\ goal' \in {kmem_ptr + incr : incr \in (-MaxIncr)..MaxIncr}
    /\ goal' \in HeapStart..(HeapEnd - 1)
    /\ \/ \A g \in kmem_top..(goal' - 1) : ~Cold(g)
       \/ "cold_heap" \in Cases /\ HeaderRead
    /\ UNCHANGED <<dir, tables, pds, cr3, kmem_top, kmem_ptr, halt>>

\* One iteration of the loop.
SbrkPage ==
    /\ goal # 0 /\ kmem_top < goal
    /\ Move(vmm_page_set(space, cr3, kmem_top, "rw"))
    /\ kmem_top' = kmem_top + 1
    /\ UNCHANGED <<pds, cr3, kmem_ptr, goal, halt>>

\* The rest.
SbrkDone ==
    /\ goal # 0 /\ kmem_top >= goal
    /\ kmem_ptr' = goal
    /\ goal' = 0
    /\ UNCHANGED <<dir, tables, pds, cr3, kmem_top, halt>>

\* Mutant of TakeFromMaster: the table is made anew.
TakeFromMasterNew(s, d, x) ==
    [dir |-> [s.dir EXCEPT ![d][x] = Entry(d, "rw")], tables |-> s.tables]

\* page_fault_handler: a kernel table the loaded directory lacks
TakeFromMaster(s, d, x) ==
    [dir |-> [s.dir EXCEPT ![d][x] = s.dir[kernel_pd][x]], tables |-> s.tables]

\* The kernel reads or writes its heap.  A fault on a table that the master
\* lacks stops it; one on an entry of a table that it has comes back for ever.
Touch ==
    /\ Up
    /\ \E g \in HeapStart..(kmem_ptr - 1) :
        LET x == IndexOf(g)
            s == IF dir[cr3][x] = None THEN TakeFromMaster(space, cr3, x) ELSE space
        IN  /\ Move(s)
            /\ halt' = CASE s.dir[cr3][x] = None -> "kernel_fault"
                         [] vmm_page_get(s, cr3, g) = Absent -> "fault_loop"
                         [] OTHER -> "no"
    /\ UNCHANGED <<pds, cr3, kmem_top, kmem_ptr, goal>>

Next == Fork \/ Switch \/ SetUserPage \/ Sbrk \/ SbrkPage \/ SbrkDone \/ Touch

Spec == Init /\ [][Next]_vars

-----------------------------------------------------------------------------
(* Properties *)

\* Two directories never hold different tables for the same part of the
\* kernel, whichever of them was loaded when the heap grew.
KernelTablesAgree ==
    \A d, e \in Dir : \A x \in Kernel :
        dir[d][x] # None /\ dir[e][x] # None => dir[d][x] = dir[e][x]

\* Whichever directory is loaded, the kernel reaches every page of its heap,
\* which holds all that sbrk has given out: the page is mapped in a table that
\* the master directory has.
HeapReachable ==
    /\ halt = "no"
    /\ kmem_ptr <= kmem_top
    /\ \A g \in HeapStart..(kmem_top - 1) : vmm_page_get(space, kernel_pd, g) # Absent

\* What a process sees of its user pages
UserView(d) == [g \in UserPage |-> vmm_page_get(space, d, g)]

\* What a process sees of its user pages changes only while its directory is
\* loaded, and a new directory sees what the one it was made from sees.
UserViewsApart ==
    [][\A d \in 1..MaxPd :
        UserView(d)' = (IF d = pds + 1 /\ pds' = d THEN UserView(cr3)
                        ELSE IF d = cr3 THEN UserView(d)' ELSE UserView(d))]_vars

==============================================================================
