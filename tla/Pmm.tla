--------------------------------- MODULE Pmm ---------------------------------
(***************************************************************************)
(* The physical memory manager, kernel/mem/pmm.c.  Free pages are kept on  *)
(* a stack whose own storage is made of free pages: the page that finds    *)
(* the stack full becomes its next page of storage, and is handed out      *)
(* again once the stack has shrunk below it.  A page is its number; the    *)
(* memory map gives regions in pages, and its addresses are cut to         *)
(* AddrPages pages as base_addr_lower and length_lower cut them to 32 bit. *)
(* Addresses count around as the program's 32 bit integers do (NextPage).  *)
(***************************************************************************)
EXTENDS Integers, Sequences, SequencesExt

CONSTANTS Entries,     \* PMM_STACK_ENTRIES_PER_PAGE
          AddrPages,   \* pages of the 32 bit physical address space
          Maps,        \* memory maps: sequences of [base, length, free]
          FirstPos     \* values of pmm_pos: the page after the last module

ASSUME EntriesAssumption == Entries \in Nat /\ Entries >= 2
ASSUME AddrAssumption == AddrPages \in Nat /\ AddrPages > 0

Region == [base : Nat, length : Nat, free : BOOLEAN]

\* Mutant of Hi: the end of the region is not cut to the address width.
HiWide(r) == (r.base % AddrPages) + r.length

\* First and last value of j in the loop of pmm_init over region r.
Lo(r) == r.base % AddrPages
Hi(r) == (Lo(r) + (r.length % AddrPages)) % AddrPages

\* Maps whose free regions the loop visits without meeting a page twice.
\* Firmware reports merged regions, so that a hole follows each free one;
\* memory above 4 GB would be met again under the lower addresses.
ASSUME MapsAssumption ==
    /\ Maps \subseteq Seq(Region)
    /\ \A m \in Maps : \A k, l \in 1..Len(m) :
          m[k].free /\ m[l].free /\ k # l
              => (Lo(m[k])..Hi(m[k])) \cap (Lo(m[l])..Hi(m[l])) = {}

\* The modules are loaded into memory, and the last page below 4 GB of a PC
\* is the firmware's.
ASSUME FirstPosAssumption == FirstPos \subseteq 0..(AddrPages - 2)

\* Of a map: the same of the memory that it calls free.  Where it does not
\* hold the loop of pmm_init does not end, see FromMap.
TopReserved(m) == \A k \in 1..Len(m) : m[k].free => Hi(m[k]) < AddrPages - 1

Page == 0..(AddrPages - 1)

\* p + PAGE_SIZE, in 32 bits.
NextPage(p) == (p + 1) % AddrPages

None == -1           \* no page

VARIABLES
    pos,             \* pmm_pos
    running,         \* pmm_running
    stack,           \* the entries between PMM_PAGE_STACK and the pointer
    backing,         \* the pages mapped below pmm_page_stack_max
    table,           \* the page table for the stack's addresses
    map, entry, j,   \* pmm_init: the memory map, me and the loop variable
    held,            \* pages handed out and not returned
    stop             \* the kernel has stopped, and why

mapVars == <<map, entry, j>>
vars == <<pos, running, stack, backing, table, mapVars, held, stop>>

Init ==
    /\ pos \in FirstPos
    /\ running = FALSE
    /\ stack = <<>>
    /\ backing = <<>>
    /\ table = None
    /\ map \in Maps
    /\ entry = 1
    /\ j = IF map = <<>> THEN 0 ELSE Lo(map[1])
    /\ held = {}
    /\ stop = "no"

\* pmm_page_stack_ptr and pmm_page_stack_max
StackPtr == Len(stack)
StackMax == Entries * Len(backing)

\* Mutants of pmm_free_page: the stack is taken for full one entry late, and
\* the page that was used as storage is put on the stack as well.
pmm_free_page_late(page) ==
    IF page < NextPage(pos)
    THEN UNCHANGED <<pos, running, stack, backing, table, stop>>
    ELSE /\ running' = TRUE
         /\ IF StackPtr > StackMax \/ table = None
            THEN /\ backing' = Append(backing, page)
                 /\ UNCHANGED stack
                 /\ table' = IF table = None THEN pos ELSE table
                 /\ pos' = IF table = None THEN NextPage(pos) ELSE pos
            ELSE /\ stack' = Append(stack, page)
                 /\ UNCHANGED <<pos, backing, table>>
         /\ UNCHANGED stop

pmm_free_page_both(page) ==
    IF page < NextPage(pos)
    THEN UNCHANGED <<pos, running, stack, backing, table, stop>>
    ELSE /\ running' = TRUE
         /\ backing' = IF StackPtr >= StackMax THEN Append(backing, page) ELSE backing
         /\ table' = IF table = None THEN pos ELSE table
         /\ pos' = IF table = None THEN NextPage(pos) ELSE pos
         /\ stack' = Append(stack, page)
         /\ UNCHANGED stop

\* pmm_free_page.  vmm_page_set allocates the page table for the stack when
\* there is none (vmm_page_touch); the nested pmm_alloc_page takes no lock
\* only as long as the manager is not running.
pmm_free_page(page) ==
    IF page < NextPage(pos)
    THEN UNCHANGED <<pos, running, stack, backing, table, stop>>
    ELSE /\ running' = TRUE
         /\ IF StackPtr >= StackMax
            THEN /\ backing' = Append(backing, page)
                 /\ UNCHANGED stack
                 /\ table' = IF table = None THEN pos ELSE table
                 /\ pos' = IF table = None THEN NextPage(pos) ELSE pos
                 /\ stop' = IF table = None /\ running THEN "locked" ELSE stop
            ELSE /\ stack' = Append(stack, page)
                 /\ UNCHANGED <<pos, backing, table, stop>>

\* One iteration of the inner loop of pmm_init.
InitPage ==
    /\ stop = "no"
    /\ entry <= Len(map)
    /\ map[entry].free
    /\ j <= Hi(map[entry])
    /\ pmm_free_page(j)
    /\ j' = NextPage(j)
    /\ UNCHANGED <<map, entry, held>>

\* The outer loop goes to the next entry of the map.
InitEntry ==
    /\ stop = "no"
    /\ entry <= Len(map)
    /\ map[entry].free => j > Hi(map[entry])
    /\ entry' = entry + 1
    /\ j' = IF entry < Len(map) THEN Lo(map[entry + 1]) ELSE 0
    /\ UNCHANGED <<pos, running, stack, backing, table, map, held, stop>>

Booted == stop = "no" /\ entry > Len(map)

\* pmm_alloc_page before the manager runs: the pages after the last module.
AllocEarly ==
    /\ Booted
    /\ ~ running
    /\ pos < AddrPages - 2       \* bound: the memory is not exhausted
    /\ pos' = NextPage(pos)
    /\ held' = held \cup {pos}
    /\ UNCHANGED <<running, stack, backing, table, mapVars, stop>>

\* panic("Out of memory!")
AllocPanic ==
    /\ Booted
    /\ running
    /\ StackPtr = 0
    /\ stop' = "out_of_memory"
    /\ UNCHANGED <<pos, running, stack, backing, table, mapVars, held>>

\* Mutant of Spare: the storage is never given back.
SpareNever == FALSE

\* The last page of storage is unused, and so is the end of the one before.
Spare == StackPtr < StackMax - Entries

\* pmm_alloc_page hands out the last page of the stack's storage ...
AllocBacking ==
    /\ Booted
    /\ running
    /\ StackPtr # 0
    /\ Spare
    /\ held' = held \cup {Last(backing)}
    /\ backing' = Front(backing)
    /\ UNCHANGED <<pos, running, stack, table, mapVars, stop>>

\* Mutant of AllocTop: the page stays on the stack.
AllocTopKeep ==
    /\ Booted
    /\ running
    /\ StackPtr # 0
    /\ ~ Spare
    /\ held' = held \cup {Last(stack)}
    /\ UNCHANGED <<pos, running, stack, backing, table, mapVars, stop>>

\* ... or the page on top of the stack.
AllocTop ==
    /\ Booted
    /\ running
    /\ StackPtr # 0
    /\ ~ Spare
    /\ held' = held \cup {Last(stack)}
    /\ stack' = Front(stack)
    /\ UNCHANGED <<pos, running, backing, table, mapVars, stop>>

\* The vidmem system call: pmm_free_page of the page that was allocated at
\* the address of the video memory, which the caller no longer uses then.
Free(page) ==
    /\ Booted
    /\ page \in held
    /\ pmm_free_page(page)
    /\ held' = held \ {page}
    /\ UNCHANGED mapVars

Next == \/ InitPage \/ InitEntry
        \/ AllocEarly \/ AllocPanic \/ AllocBacking \/ AllocTop
        \/ \E page \in held : Free(page)

Spec == Init /\ [][Next]_vars

-----------------------------------------------------------------------------
TypeOK ==
    /\ pos \in Page
    /\ running \in BOOLEAN
    /\ stack \in Seq(Page)
    /\ backing \in Seq(Page)
    /\ table \in Page \cup {None}
    /\ map \in Maps
    /\ entry \in Nat \ {0}
    /\ j \in Page
    /\ held \subseteq Page
    /\ stop \in {"no", "locked", "out_of_memory"}

\* The pages the manager could hand out.
FreePages == ToSet(stack) \cup ToSet(backing)

\* A page is in one place: on the stack, in its storage, the page table of
\* the stack or with one holder.  pmm_alloc_page and pmm_free_page neither
\* hand out a page twice nor overwrite one that is in use as storage.
OnePlace ==
    /\ IsInjective(stack)
    /\ IsInjective(backing)
    /\ ToSet(stack) \cap ToSet(backing) = {}
    /\ held \cap FreePages = {}
    /\ table \notin held \cup FreePages

\* Every entry of the stack is on a mapped page of storage, and no more than
\* one page of storage and one entry are kept in reserve: the tests of
\* pmm_alloc_page:41 and pmm_free_page:71 agree with each other.
StorageFits == StackPtr <= StackMax /\ StackMax - Entries <= StackPtr + 1

\* pmm_alloc_page panics only when at most one free page is left, and
\* pmm_free_page never waits for the lock that it holds itself.
PanicsOnlyWhenEmpty ==
    /\ stop = "out_of_memory" => Len(stack) + Len(backing) <= 1
    /\ stop # "locked"

\* "Fill physical page stack with free pages from memory map" (pmm.c:97): a
\* page that the running manager has, or has handed out, is one of those
\* that the loop of a free region is written to visit.  The loop counts in
\* 32 bits: over a region that reaches the last page it starts again at 0.
FromMap ==
    running => \A page \in held \cup FreePages :
                  \E k \in 1..Len(map) :
                     map[k].free /\ page \in Lo(map[k])..Hi(map[k])

Allocator == INSTANCE PageAllocator WITH free <- FreePages, used <- held

\* The page stack is a page allocator: each step is a step of PageAllocator
\* or leaves the free pages and the pages in use alone.
ImplementsAllocator == Allocator!ASpec
=============================================================================
