--------------------------- MODULE PageTablesProofs ---------------------------
(***************************************************************************)
(* The promises of vmm.c for any number of directories and tables of any   *)
(* size: all directories agree on the kernel's tables, the kernel reaches  *)
(* its whole heap from each of them, and what a process sees of its own    *)
(* pages is its own.                                                       *)
(*                                                                         *)
(* They follow from how tables are owned: the master directory has every   *)
(* kernel table that another has (Shared), a user table belongs to the     *)
(* directory it was made for (Own), and the directory for which a table    *)
(* was made has it (Named), so that a table that is made is a new one.     *)
(***************************************************************************)
EXTENDS PageTables, TLAPS

-----------------------------------------------------------------------------
(* The invariants *)

Entries == [made : Dir, flags : {Absent, "ro", "rw"}] \cup {None}

\* The contents of a table
Table == [0..(TableSize - 1) -> {Absent, "ro", "rw"}]

TypeOK ==
    /\ dir \in [Dir -> [Index -> Entries]]
    /\ tables \in [Dir -> [Index -> Table]]
    /\ pds \in 1..MaxPd
    /\ cr3 \in 1..pds
    /\ kmem_top \in HeapStart..(HeapEnd - 1)
    /\ kmem_ptr \in HeapStart..(HeapEnd - 1)
    /\ goal \in {0} \cup HeapStart..(HeapEnd - 1)

\* A kernel table of any directory is that of the master.
Shared == \A d \in Dir, x \in Kernel : dir[d][x] # None => dir[d][x] = dir[kernel_pd][x]

\* A user table was made for the directory that has it.
Own == \A d \in Dir, x \in Index \ Kernel : dir[d][x] # None => dir[d][x].made = d

\* Who a table was made for has it.
Named == \A d, m \in Dir, x \in Index :
            dir[d][x] # None /\ dir[d][x].made = m => dir[m][x] # None /\ dir[m][x].made = m

\* A directory that is not made yet is empty.
Unborn == \A d \in (pds + 1)..MaxPd, x \in Index : dir[d][x] = None

TInv == TypeOK /\ Shared /\ Own /\ Named /\ Unborn

\* The master directory maps page g.
Mapped(g) == vmm_page_get(space, kernel_pd, g) # Absent

\* The kernel runs, and the master directory maps the heap.
Heap ==
    /\ halt = "no"
    /\ kmem_ptr <= kmem_top
    /\ \A g \in HeapStart..(kmem_top - 1) : Mapped(g)

\* The loop of sbrk finds the tables it extends in the loaded directory.
Warm == goal # 0 => \A g \in kmem_top..(goal - 1) : ~ Cold(g)

HInv == TInv /\ Heap /\ Warm

-----------------------------------------------------------------------------
(* Numbers of pages and places *)

\* Products preserve order.
LEMMA MulMono ==
    ASSUME NEW n \in Nat, NEW a \in Int, NEW b \in Int, a <= b
    PROVE  a * n <= b * n
  <1>1. PICK k \in Nat : b = a + k
    <2>1. b - a \in Nat /\ b = a + (b - a)
      OBVIOUS
    <2> QED BY <2>1
  <1>2. b * n = a * n + k * n /\ k * n \in Nat /\ a * n \in Int
    BY <1>1
  <1> QED BY <1>2

\* The quotient of a number is in the range of its block.
LEMMA DivRange ==
    ASSUME NEW n \in Nat \ {0}, NEW u \in Nat, NEW v \in Nat, NEW g \in (u * n)..(v * n - 1)
    PROVE  g \div n \in u..(v - 1) /\ g % n \in 0..(n - 1)
  <1>1. u * n \in Nat /\ v * n \in Nat /\ g \in Nat
    <2>1. u * n \in Nat /\ v * n \in Nat
      OBVIOUS
    <2> QED BY <2>1
  <1>2. g \div n \in Int /\ g % n \in 0..(n - 1)
    BY <1>1
  <1>3. PICK a \in Int, r \in 0..(n - 1) : a = g \div n /\ g = a * n + r
    <2>1. g = (g \div n) * n + (g % n)
      BY <1>1, SMT
    <2> QED BY <1>2, <2>1
  <1>4. u <= a
    <2> SUFFICES ASSUME a + 1 <= u PROVE FALSE
      OBVIOUS
    <2>1. (a + 1) * n <= u * n
      BY MulMono
    <2>2. (a + 1) * n = a * n + n /\ a * n \in Int
      OBVIOUS
    <2> QED BY <1>1, <1>3, <2>1, <2>2
  <1>5. a <= v - 1
    <2> SUFFICES ASSUME v <= a PROVE FALSE
      OBVIOUS
    <2>1. v * n <= a * n
      BY MulMono
    <2>2. a * n \in Int
      OBVIOUS
    <2> QED BY <1>1, <1>3, <2>1, <2>2
  <1> QED BY <1>2, <1>3, <1>4, <1>5

\* The constants.
LEMMA Sizes ==
    /\ MaxPd \in Nat \ {0} /\ TableSize \in Nat \ {0}
    /\ UserTables \in Nat \ {0} /\ HeapTables \in Nat \ {0} /\ MaxIncr \in Nat
    /\ HeapStart \in Nat /\ HeapEnd \in Nat /\ HeapStart < HeapEnd
    /\ Kernel \subseteq Index /\ kernel_pd \in Dir
    /\ \A d \in 1..MaxPd : d \in Dir /\ d # kernel_pd
  <1>1. /\ MaxPd \in Nat \ {0} /\ TableSize \in Nat \ {0}
        /\ UserTables \in Nat \ {0} /\ HeapTables \in Nat \ {0} /\ MaxIncr \in Nat
    BY SizesAssumption
  <1>2. /\ HeapStart \in Nat /\ HeapEnd = HeapStart + HeapTables * TableSize
        /\ HeapTables * TableSize \in Nat
    BY <1>1 DEF HeapStart, HeapEnd
  <1>3. 1 * TableSize <= HeapTables * TableSize
    BY <1>1, MulMono
  <1> QED BY <1>1, <1>2, <1>3 DEF Kernel, Index, kernel_pd, Dir

\* The place of a page.
LEMMA Places ==
    /\ \A g \in UserPage : IndexOf(g) \in Index \ Kernel /\ g % TableSize \in 0..(TableSize - 1)
    /\ \A g \in HeapStart..(HeapEnd - 1) :
          IndexOf(g) \in Kernel /\ g % TableSize \in 0..(TableSize - 1)
  <1>1. ASSUME NEW g \in UserPage
        PROVE  IndexOf(g) \in Index \ Kernel /\ g % TableSize \in 0..(TableSize - 1)
    <2>1. g \in (0 * TableSize)..(UserTables * TableSize - 1)
      BY Sizes DEF UserPage
    <2>2. g \div TableSize \in 0..(UserTables - 1) /\ g % TableSize \in 0..(TableSize - 1)
      BY <2>1, Sizes, DivRange
    <2> QED BY <2>2, Sizes DEF IndexOf, Index, Kernel
  <1>2. ASSUME NEW g \in HeapStart..(HeapEnd - 1)
        PROVE  IndexOf(g) \in Kernel /\ g % TableSize \in 0..(TableSize - 1)
    <2>1. PICK v \in Nat : v = UserTables + HeapTables
      BY Sizes
    <2>2. g \in (UserTables * TableSize)..(v * TableSize - 1)
      BY <2>1 DEF HeapStart, HeapEnd
    <2>3. g \div TableSize \in UserTables..(v - 1) /\ g % TableSize \in 0..(TableSize - 1)
      BY <2>2, Sizes, DivRange
    <2> QED BY <2>1, <2>3, Sizes DEF IndexOf, Kernel
  <1> QED BY <1>1, <1>2

\* An entry is none, or has a table.
LEMMA Kinds ==
    /\ None \in Entries
    /\ \A e \in Entries : e # None => e.made \in Dir /\ e.flags \in {Absent, "ro", "rw"}
    /\ \A d \in Dir, v \in {Absent, "ro", "rw"} :
          Entry(d, v) \in Entries /\ Entry(d, v) # None /\ Entry(d, v).made = d
  BY Sizes DEF Entries, None, Entry, Dir

-----------------------------------------------------------------------------
(* Assignments to an element of a table, and of a table of tables *)

Put(t, a, b, v) == [t EXCEPT ![a][b] = v]
PutEntry(r, k, v) == [r EXCEPT ![k] = v]

-----------------------------------------------------------------------------
(* What the functions of vmm.c do to the directories and tables *)

\* The entry that vmm_page_touch finds or makes in directory d.
Found(d, x, v) == IF dir[d][x] # None THEN dir[d][x]
                  ELSE IF x \in Kernel /\ dir[kernel_pd][x] # None THEN dir[kernel_pd][x]
                  ELSE Entry(d, v)

\* vmm_page_set: one entry of one table changes, which d has; when d had no
\* table there, it was cleared, and for the kernel's part the master has it.
LEMMA SetPage ==
    ASSUME TInv, NEW d \in 1..pds, NEW g \in UserPage \cup HeapStart..(HeapEnd - 1),
           NEW v \in {Absent, "ro", "rw"}, Move(vmm_page_set(space, d, g, v)),
           NEW x, x = IndexOf(g), NEW e, e = Found(d, x, v)
    PROVE  /\ x \in Index /\ e \in Entries /\ e # None /\ e.made \in Dir
           /\ dir' \in [Dir -> [Index -> Entries]]
           /\ tables' \in [Dir -> [Index -> Table]]
           /\ \A f \in Dir, y \in Index :
                 dir'[f][y] = IF y = x /\ (f = d \/ (f = kernel_pd /\ dir[d][x] = None /\ x \in Kernel))
                              THEN e ELSE dir[f][y]
           /\ \A m \in Dir, y \in Index : m # e.made \/ y # x => tables'[m][y] = tables[m][y]
           /\ \A k \in 0..(TableSize - 1) :
                 tables'[e.made][x][k] = IF k = g % TableSize THEN v
                                         ELSE IF dir[d][x] = None THEN Absent
                                         ELSE tables[e.made][x][k]
  <1>t. /\ dir \in [Dir -> [Index -> Entries]]
        /\ tables \in [Dir -> [Index -> Table]]
        /\ d \in Dir /\ d # kernel_pd /\ kernel_pd \in Dir /\ Kernel \subseteq Index
    BY Sizes DEF TInv, TypeOK
  <1>x. x \in Index /\ g % TableSize \in 0..(TableSize - 1)
    BY Places, Sizes
  <1>j. PICK j \in 0..(TableSize - 1) : j = g % TableSize
    BY <1>x
  <1>k. j \in 0..(TableSize - 1)
    BY <1>j
  <1>e. e \in Entries /\ e # None /\ e.made \in Dir
    <2>2. Entry(d, v) \in Entries /\ Entry(d, v) # None
      BY <1>t, Kinds
    <2>3. e \in Entries /\ e # None
      BY <1>t, <1>x, <2>2 DEF Found
    <2> QED BY <2>3, Kinds
  <1>c. /\ Cleared \in Table
        /\ \A k \in 0..(TableSize - 1) : Cleared[k] = Absent
    BY DEF Cleared, Table
  <1>1. CASE dir[d][x] # None
    <2> DEFINE r == PutEntry(tables[e.made][x], j, v)
    <2>1. e = dir[d][x]
      BY <1>1 DEF Found
    <2>2. /\ dir' = dir
          /\ tables' = Put(tables, e.made, x, r)
      BY <1>j, <1>1, <2>1 DEF vmm_page_set, vmm_page_touch, Move, space, Put, PutEntry
    <2>r. /\ r \in Table
          /\ \A k \in 0..(TableSize - 1) :
                r[k] = IF k = j THEN v ELSE tables[e.made][x][k]
      <3>1. tables[e.made][x] \in Table
        BY <1>t, <1>x, <1>e
      <3> QED BY <1>k, <3>1 DEF PutEntry, Table
    <2> HIDE DEF r
    <2>3. /\ tables' \in [Dir -> [Index -> Table]]
          /\ \A m \in Dir, y \in Index :
                tables'[m][y] = IF m = e.made /\ y = x THEN r ELSE tables[m][y]
      BY <1>t, <1>x, <1>e, <2>2, <2>r DEF Put
    <2>4. \A f \in Dir, y \in Index :
             dir'[f][y] = IF y = x /\ (f = d \/ (f = kernel_pd /\ dir[d][x] = None /\ x \in Kernel))
                          THEN e ELSE dir[f][y]
      BY <1>1, <2>1, <2>2
    <2>5. \A k \in 0..(TableSize - 1) :
             tables'[e.made][x][k] = IF k = g % TableSize THEN v
                                     ELSE IF dir[d][x] = None THEN Absent
                                     ELSE tables[e.made][x][k]
      BY <1>x, <1>e, <1>j, <1>1, <2>3, <2>r
    <2> QED BY <1>t, <1>x, <1>e, <1>1, <2>2, <2>3, <2>4, <2>5, <2>r
  <1>2. CASE dir[d][x] = None
    <2> DEFINE L == Put(dir, d, x, e)
               D == IF x \in Kernel THEN Put(L, kernel_pd, x, e) ELSE L
               T == Put(tables, e.made, x, Cleared)
               r == PutEntry(Cleared, j, v)
    <2>1. e = IF x \in Kernel /\ dir[kernel_pd][x] # None THEN dir[kernel_pd][x]
              ELSE Entry(d, v)
      BY <1>2 DEF Found
    <2>t. vmm_page_touch(space, d, g, v) = [dir |-> D, tables |-> T]
      BY <1>2, <2>1 DEF vmm_page_touch, space, Put
    <2> HIDE DEF D, T
    <2>2. /\ dir' = D
          /\ tables' = Put(T, D[d][x].made, x, PutEntry(T[D[d][x].made][x], j, v))
      BY <1>j, <2>t DEF vmm_page_set, Move, Put, PutEntry
    <2> USE DEF D, T
    <2>3. /\ L \in [Dir -> [Index -> Entries]]
          /\ \A f \in Dir, y \in Index : L[f][y] = IF f = d /\ y = x THEN e ELSE dir[f][y]
      BY <1>t, <1>x, <1>e DEF Put
    <2> HIDE DEF L
    <2>4. /\ D \in [Dir -> [Index -> Entries]]
          /\ \A f \in Dir, y \in Index :
                D[f][y] = IF y = x /\ (f = d \/ (f = kernel_pd /\ x \in Kernel))
                          THEN e ELSE dir[f][y]
      BY <1>t, <1>x, <1>e, <2>3 DEF Put
    <2>5. /\ T \in [Dir -> [Index -> Table]]
          /\ \A m \in Dir, y \in Index :
                T[m][y] = IF m = e.made /\ y = x THEN Cleared ELSE tables[m][y]
      BY <1>t, <1>x, <1>e, <1>c DEF Put
    <2>r. /\ r \in Table
          /\ \A k \in 0..(TableSize - 1) : r[k] = IF k = j THEN v ELSE Absent
      BY <1>k, <1>c DEF PutEntry, Table
    <2> HIDE DEF D, T
    <2>6. D[d][x] = e /\ T[e.made][x] = Cleared
      BY <1>t, <1>x, <1>e, <2>4, <2>5
    <2>7. tables' = Put(T, e.made, x, r)
      BY <2>2, <2>6
    <2> HIDE DEF r
    <2>8. /\ tables' \in [Dir -> [Index -> Table]]
          /\ \A m \in Dir, y \in Index : tables'[m][y] = IF m = e.made /\ y = x THEN r ELSE T[m][y]
      BY <1>x, <1>e, <2>5, <2>7, <2>r DEF Put
    <2>9. \A m \in Dir, y \in Index : m # e.made \/ y # x => tables'[m][y] = tables[m][y]
      BY <2>5, <2>8
    <2>10. \A f \in Dir, y \in Index :
             dir'[f][y] = IF y = x /\ (f = d \/ (f = kernel_pd /\ dir[d][x] = None /\ x \in Kernel))
                          THEN e ELSE dir[f][y]
      BY <1>2, <2>2, <2>4
    <2>11. dir' \in [Dir -> [Index -> Entries]]
      BY <2>2, <2>4
    <2>12. \A k \in 0..(TableSize - 1) :
              tables'[e.made][x][k] = IF k = g % TableSize THEN v
                                      ELSE IF dir[d][x] = None THEN Absent
                                      ELSE tables[e.made][x][k]
      BY <1>x, <1>e, <1>j, <1>2, <2>8, <2>r
    <2> QED BY <1>x, <1>e, <2>8, <2>9, <2>10, <2>11, <2>12
  <1> QED BY <1>1, <1>2

\* vmm_clone_pd: the new directory has the kernel's tables and copies of the
\* user's.
LEMMA ClonePd ==
    ASSUME TInv, NEW to \in Dir, to = pds + 1, Move(vmm_clone_pd(space, cr3, to))
    PROVE  /\ dir' \in [Dir -> [Index -> Entries]]
           /\ tables' \in [Dir -> [Index -> Table]]
           /\ \A d \in Dir \ {to} : dir'[d] = dir[d] /\ tables'[d] = tables[d]
           /\ \A x \in Kernel : dir'[to][x] = dir[cr3][x]
           /\ \A x \in Index \ Kernel :
                 IF dir[cr3][x] = None THEN dir'[to][x] = None
                 ELSE /\ dir'[to][x] # None /\ dir'[to][x].made = to
                      /\ tables'[to][x] = tables[dir[cr3][x].made][x]
  <1>t. /\ dir \in [Dir -> [Index -> Entries]]
        /\ tables \in [Dir -> [Index -> Table]]
        /\ cr3 \in Dir /\ Kernel \subseteq Index /\ pds \in 1..MaxPd /\ cr3 \in 1..pds
    BY Sizes DEF TInv, TypeOK
  <1>u. \A x \in Index : dir[to][x] = None
    <2>1. to \in (pds + 1)..MaxPd
      BY <1>t, Sizes DEF Dir
    <2> QED BY <2>1 DEF TInv, Unborn
  <1>k. \A x \in Index : dir[cr3][x] # None =>
           /\ dir[cr3][x].made \in Dir /\ dir[cr3][x].flags \in {Absent, "ro", "rw"}
           /\ Entry(to, dir[cr3][x].flags) \in Entries /\ Entry(to, dir[cr3][x].flags) # None
           /\ Entry(to, dir[cr3][x].flags).made = to
    BY <1>t, Kinds
  <1> DEFINE copied == {x \in Index \ Kernel : dir[cr3][x] # None}
             E == [x \in Index |-> IF x \in copied THEN Entry(to, dir[cr3][x].flags)
                                   ELSE dir[to][x]]
             F(D) == [x \in Index |-> IF x \in Kernel THEN dir[cr3][x] ELSE D[to][x]]
             T == [x \in Index |-> IF x \in copied THEN tables[dir[cr3][x].made][x]
                                   ELSE tables[to][x]]
             D1 == [dir EXCEPT ![to] = E]
  <1>1. dir' = [D1 EXCEPT ![to] = F(D1)] /\ tables' = [tables EXCEPT ![to] = T]
    BY DEF vmm_clone_pd, CloneUser, Move, space
  <1>2. E \in [Index -> Entries]
    BY <1>t, <1>k
  <1>3. D1 \in [Dir -> [Index -> Entries]] /\ D1[to] = E /\ \A d \in Dir \ {to} : D1[d] = dir[d]
    <2> HIDE DEF E
    <2> QED BY <1>t, <1>2
  <1>4. T \in [Index -> Table]
    BY <1>t, <1>k
  <1> HIDE DEF D1
  <1>5. /\ F(D1) \in [Index -> Entries]
        /\ \A x \in Kernel : F(D1)[x] = dir[cr3][x]
        /\ \A x \in Index \ Kernel : F(D1)[x] = E[x]
    BY <1>t, <1>2, <1>3
  <1>6. /\ \A x \in Index \ Kernel :
              IF dir[cr3][x] = None THEN E[x] = None
              ELSE /\ E[x] # None /\ E[x].made = to
                   /\ T[x] = tables[dir[cr3][x].made][x]
    BY <1>t, <1>u, <1>k
  <1> HIDE DEF E, F, T
  <1>7. /\ dir'[to] = F(D1) /\ tables'[to] = T
        /\ \A d \in Dir \ {to} : dir'[d] = dir[d] /\ tables'[d] = tables[d]
        /\ dir' \in [Dir -> [Index -> Entries]]
        /\ tables' \in [Dir -> [Index -> Table]]
    BY <1>t, <1>1, <1>3, <1>4, <1>5
  <1> QED BY <1>t, <1>5, <1>6, <1>7

\* The page fault handler, which changes no table.
LEMMA FaultIn ==
    ASSUME TInv, Touch
    PROVE  \E g \in HeapStart..(kmem_ptr - 1), x \in Kernel :
              /\ x = IndexOf(g) /\ g \in HeapStart..(HeapEnd - 1)
              /\ tables' = tables /\ dir' \in [Dir -> [Index -> Entries]]
              /\ \A d \in Dir, y \in Index :
                    dir'[d][y] = IF d = cr3 /\ y = x /\ dir[cr3][x] = None
                                 THEN dir[kernel_pd][x] ELSE dir[d][y]
              /\ dir'[cr3][x] # None /\ tables[dir'[cr3][x].made][x][g % TableSize] # Absent
                 => halt' = "no"
              /\ UNCHANGED <<pds, cr3, kmem_top, kmem_ptr, goal>>
  <1>t. /\ dir \in [Dir -> [Index -> Entries]]
        /\ cr3 \in Dir /\ Kernel \subseteq Index /\ kernel_pd \in Dir
        /\ kmem_ptr \in HeapStart..(HeapEnd - 1)
    BY Sizes DEF TInv, TypeOK
  <1>1. PICK g \in HeapStart..(kmem_ptr - 1) : \E z :
           /\ z = IF dir[cr3][IndexOf(g)] = None THEN TakeFromMaster(space, cr3, IndexOf(g))
                  ELSE space
           /\ Move(z)
           /\ halt' = CASE z.dir[cr3][IndexOf(g)] = None -> "kernel_fault"
                        [] vmm_page_get(z, cr3, g) = Absent -> "fault_loop"
                        [] OTHER -> "no"
    BY DEF Touch
  <1>z. PICK z :
           /\ z = IF dir[cr3][IndexOf(g)] = None THEN TakeFromMaster(space, cr3, IndexOf(g))
                  ELSE space
           /\ Move(z)
           /\ halt' = CASE z.dir[cr3][IndexOf(g)] = None -> "kernel_fault"
                        [] vmm_page_get(z, cr3, g) = Absent -> "fault_loop"
                        [] OTHER -> "no"
    BY <1>1
  <1>2. g \in HeapStart..(HeapEnd - 1)
    BY <1>t, Sizes
  <1>3. PICK x \in Kernel : x = IndexOf(g)
    BY <1>2, Places
  <1>4. /\ dir' = IF dir[cr3][x] = None THEN Put(dir, cr3, x, dir[kernel_pd][x]) ELSE dir
        /\ tables' = tables
        /\ z.dir = dir' /\ z.tables = tables
    BY <1>z, <1>3 DEF TakeFromMaster, Move, space, Put
  <1>5. ASSUME dir'[cr3][x] # None, tables[dir'[cr3][x].made][x][g % TableSize] # Absent
        PROVE  halt' = "no"
    <2>1. vmm_page_get(z, cr3, g) # Absent
      BY <1>3, <1>4, <1>5 DEF vmm_page_get
    <2> QED BY <1>z, <1>3, <1>4, <1>5, <2>1
  <1>6. /\ dir' \in [Dir -> [Index -> Entries]]
        /\ \A d \in Dir, y \in Index :
              dir'[d][y] = IF d = cr3 /\ y = x /\ dir[cr3][x] = None
                           THEN dir[kernel_pd][x] ELSE dir[d][y]
    <2>1. x \in Index /\ dir[kernel_pd][x] \in Entries
      BY <1>t
    <2> QED BY <1>t, <1>4, <2>1 DEF Put
  <1>7. UNCHANGED <<pds, cr3, kmem_top, kmem_ptr, goal>>
    BY DEF Touch
  <1> QED BY <1>2, <1>3, <1>4, <1>5, <1>6, <1>7

-----------------------------------------------------------------------------
(* How tables are owned *)

LEMMA TInit == Init => TInv
  <1> SUFFICES ASSUME Init PROVE TInv
    OBVIOUS
  <1>1. [x \in Index |-> None] \in [Index -> Entries]
    BY Kinds
  <1>2. Cleared \in Table
    BY DEF Cleared, Table
  <1>3. /\ dir \in [Dir -> [Index -> Entries]]
        /\ \A d \in Dir, x \in Index : dir[d][x] = None
    BY <1>1 DEF Init
  <1>4. tables \in [Dir -> [Index -> Table]]
    BY <1>2 DEF Init
  <1>5. /\ pds \in 1..MaxPd /\ cr3 \in 1..pds
        /\ kmem_top \in HeapStart..(HeapEnd - 1) /\ kmem_ptr \in HeapStart..(HeapEnd - 1)
        /\ goal \in {0} \cup HeapStart..(HeapEnd - 1)
    BY Sizes DEF Init
  <1>6. TypeOK
    BY <1>3, <1>4, <1>5 DEF TypeOK
  <1>7. Shared /\ Own /\ Named /\ Unborn
    BY <1>3, <1>5, Sizes DEF Shared, Own, Named, Unborn, Dir
  <1> QED BY <1>6, <1>7 DEF TInv

\* A new directory takes nothing away, and no table is yet made for it.
LEMMA TFork == ASSUME TInv, Fork PROVE TInv'
  <1>1. PICK to \in Dir : to = pds + 1
    BY Sizes DEF TInv, TypeOK, Fork, Dir
  <1>t. /\ dir \in [Dir -> [Index -> Entries]]
        /\ cr3 \in Dir /\ cr3 \in 1..pds /\ Kernel \subseteq Index /\ kernel_pd \in Dir
        /\ pds \in 1..MaxPd /\ pds < MaxPd /\ MaxPd \in Nat
    BY Sizes DEF TInv, TypeOK, Fork
  <1>2. Move(vmm_clone_pd(space, cr3, to))
    BY <1>1 DEF Fork
  <1>3. /\ dir' \in [Dir -> [Index -> Entries]]
        /\ tables' \in [Dir -> [Index -> Table]]
        /\ \A d \in Dir \ {to} : dir'[d] = dir[d] /\ tables'[d] = tables[d]
        /\ \A x \in Kernel : dir'[to][x] = dir[cr3][x]
        /\ \A x \in Index \ Kernel :
              IF dir[cr3][x] = None THEN dir'[to][x] = None
              ELSE /\ dir'[to][x] # None /\ dir'[to][x].made = to
                   /\ tables'[to][x] = tables[dir[cr3][x].made][x]
    BY <1>1, <1>2, ClonePd
  <1>4. to # kernel_pd /\ to # cr3 /\ \A x \in Index : dir[to][x] = None
    BY <1>1, <1>t DEF TInv, Unborn, kernel_pd
  <1>5. TypeOK'
    <2>1. pds' \in 1..MaxPd /\ cr3' \in 1..pds'
      BY <1>t DEF Fork
    <2> QED BY <1>3, <2>1 DEF TInv, TypeOK, Fork
  <1>6. Shared'
    BY <1>t, <1>3, <1>4 DEF TInv, Shared, kernel_pd
  <1>7. Own'
    <2> SUFFICES ASSUME NEW d \in Dir, NEW x \in Index \ Kernel, dir'[d][x] # None
                 PROVE  dir'[d][x].made = d
      BY DEF Own
    <2>1. CASE d = to
      BY <1>3, <2>1
    <2>2. CASE d # to
      <3>1. dir'[d][x] = dir[d][x]
        BY <1>3, <2>2
      <3> QED BY <3>1 DEF TInv, Own
    <2> QED BY <2>1, <2>2
  <1>8. Named'
    <2> SUFFICES ASSUME NEW d \in Dir, NEW m \in Dir, NEW x \in Index,
                        dir'[d][x] # None, dir'[d][x].made = m
                 PROVE  dir'[m][x] # None /\ dir'[m][x].made = m
      BY DEF Named
    <2>1. CASE d = to /\ x \notin Kernel
      <3>1. dir[cr3][x] # None
        BY <1>3, <2>1
      <3>2. m = to
        BY <1>3, <2>1, <3>1
      <3> QED BY <2>1, <3>2
    <2>2. CASE d # to \/ x \in Kernel
      <3>1. PICK f \in Dir : dir'[d][x] = dir[f][x]
        BY <1>t, <1>3, <2>2
      <3>2. dir[m][x] # None /\ dir[m][x].made = m
        BY <3>1 DEF TInv, Named
      <3>3. m # to
        BY <1>4, <3>2
      <3> QED BY <1>3, <3>2, <3>3
    <2> QED BY <2>1, <2>2
  <1>9. Unborn'
    <2>1. pds' = pds + 1
      BY DEF Fork
    <2>2. ASSUME NEW d \in (pds' + 1)..MaxPd, NEW x \in Index PROVE dir'[d][x] = None
      <3>1. d \in (pds + 1)..MaxPd /\ d # to /\ d \in Dir
        BY <1>1, <1>t, <2>1, Sizes DEF Dir
      <3> QED BY <1>3, <3>1 DEF TInv, Unborn
    <2> QED BY <2>2 DEF Unborn
  <1> QED BY <1>5, <1>6, <1>7, <1>8, <1>9 DEF TInv

\* A user table is made for the directory that is loaded, which then has it.
LEMMA TSetUserPage == ASSUME TInv, SetUserPage PROVE TInv'
  <1>t. /\ dir \in [Dir -> [Index -> Entries]]
        /\ cr3 \in Dir /\ cr3 \in 1..pds /\ cr3 # kernel_pd /\ Kernel \subseteq Index
        /\ pds \in 1..MaxPd
    BY Sizes DEF TInv, TypeOK
  <1>1. PICK g \in UserPage, v \in {Absent, "ro", "rw"} : Move(vmm_page_set(space, cr3, g, v))
    BY DEF SetUserPage
  <1>2. PICK x \in Index \ Kernel : x = IndexOf(g)
    BY Places
  <1>3. PICK e \in Entries : e = Found(cr3, x, v)
    BY <1>t, <1>2, Kinds DEF Found
  <1>4. /\ e # None
        /\ dir' \in [Dir -> [Index -> Entries]] /\ tables' \in [Dir -> [Index -> Table]]
        /\ \A f \in Dir, y \in Index :
              dir'[f][y] = IF y = x /\ (f = cr3 \/ (f = kernel_pd /\ dir[cr3][x] = None /\ x \in Kernel))
                           THEN e ELSE dir[f][y]
    BY <1>t, <1>1, <1>2, <1>3, SetPage
  <1>5. \A f \in Dir, y \in Index : dir'[f][y] = IF f = cr3 /\ y = x THEN e ELSE dir[f][y]
    BY <1>2, <1>4
  <1>6. e.made = cr3
    <2>1. CASE dir[cr3][x] # None
      BY <1>t, <1>2, <1>3, <2>1 DEF Found, TInv, Own
    <2>2. CASE dir[cr3][x] = None
      BY <1>t, <1>2, <1>3, <2>2, Kinds DEF Found
    <2> QED BY <2>1, <2>2
  <1>7. TypeOK'
    BY <1>4 DEF TInv, TypeOK, SetUserPage
  <1>8. Shared'
    <2>1. \A f \in Dir, y \in Kernel : dir'[f][y] = dir[f][y]
      BY <1>t, <1>2, <1>5
    <2> QED BY <2>1, Sizes DEF TInv, Shared, kernel_pd
  <1>9. Own'
    BY <1>5, <1>6 DEF TInv, Own
  <1>10. Named'
    <2> SUFFICES ASSUME NEW d \in Dir, NEW m \in Dir, NEW y \in Index,
                        dir'[d][y] # None, dir'[d][y].made = m
                 PROVE  dir'[m][y] # None /\ dir'[m][y].made = m
      BY DEF Named
    <2>1. CASE m = cr3 /\ y = x
      BY <1>4, <1>5, <1>6, <2>1
    <2>2. CASE ~ (m = cr3 /\ y = x)
      <3>1. dir'[d][y] = dir[d][y]
        BY <1>5, <1>6, <2>2
      <3>2. dir[m][y] # None /\ dir[m][y].made = m
        BY <3>1 DEF TInv, Named
      <3> QED BY <1>5, <2>2, <3>2
    <2> QED BY <2>1, <2>2
  <1>11. Unborn'
    <2>1. ASSUME NEW d \in (pds + 1)..MaxPd, NEW y \in Index PROVE dir'[d][y] = None
      <3>1. d \in Dir /\ d # cr3
        BY <1>t, Sizes DEF Dir
      <3> QED BY <1>5, <2>1, <3>1 DEF TInv, Unborn
    <2>2. pds' = pds
      BY DEF SetUserPage
    <2> QED BY <2>1, <2>2 DEF Unborn
  <1> QED BY <1>7, <1>8, <1>9, <1>10, <1>11 DEF TInv

\* A kernel table is the master's, or it becomes the master's.
LEMMA TSbrkPage ==
    ASSUME TInv, SbrkPage
    PROVE  /\ TInv'
           /\ kmem_top \in HeapStart..(HeapEnd - 1) /\ kmem_top + 1 \in HeapStart..(HeapEnd - 1)
           /\ \E x \in Kernel, e \in Entries :
                 /\ x = IndexOf(kmem_top) /\ e # None /\ e.made \in Dir
                 /\ dir[cr3][x] # None => e = dir[cr3][x]
                 /\ \A f \in Dir, y \in Index :
                       dir'[f][y] = IF y = x /\ f \in {cr3, kernel_pd} THEN e ELSE dir[f][y]
                 /\ \A m \in Dir, y \in Index : m # e.made \/ y # x => tables'[m][y] = tables[m][y]
                 /\ \A k \in 0..(TableSize - 1) :
                       tables'[e.made][x][k] = IF k = kmem_top % TableSize THEN "rw"
                                               ELSE IF dir[cr3][x] = None THEN Absent
                                               ELSE tables[e.made][x][k]
  <1>t. /\ dir \in [Dir -> [Index -> Entries]]
        /\ cr3 \in Dir /\ cr3 \in 1..pds /\ cr3 # kernel_pd /\ kernel_pd \in Dir
        /\ Kernel \subseteq Index /\ pds \in 1..MaxPd
    BY Sizes DEF TInv, TypeOK
  <1>g. kmem_top \in HeapStart..(HeapEnd - 1) /\ kmem_top + 1 \in HeapStart..(HeapEnd - 1)
    BY Sizes DEF TInv, TypeOK, SbrkPage
  <1>1. Move(vmm_page_set(space, cr3, kmem_top, "rw"))
    BY DEF SbrkPage
  <1>2. PICK x \in Kernel : x = IndexOf(kmem_top)
    BY <1>g, Places
  <1>3. PICK e \in Entries : e = Found(cr3, x, "rw")
    BY <1>t, <1>2, Kinds DEF Found
  <1>4. /\ e # None /\ e.made \in Dir
        /\ dir' \in [Dir -> [Index -> Entries]] /\ tables' \in [Dir -> [Index -> Table]]
        /\ \A f \in Dir, y \in Index :
              dir'[f][y] = IF y = x /\ (f = cr3 \/ (f = kernel_pd /\ dir[cr3][x] = None /\ x \in Kernel))
                           THEN e ELSE dir[f][y]
        /\ \A m \in Dir, y \in Index : m # e.made \/ y # x => tables'[m][y] = tables[m][y]
        /\ \A k \in 0..(TableSize - 1) :
              tables'[e.made][x][k] = IF k = kmem_top % TableSize THEN "rw"
                                      ELSE IF dir[cr3][x] = None THEN Absent
                                      ELSE tables[e.made][x][k]
    BY <1>t, <1>g, <1>1, <1>2, <1>3, SetPage
  <1>5. /\ dir[cr3][x] # None => e = dir[cr3][x] /\ e = dir[kernel_pd][x]
        /\ dir[kernel_pd][x] # None => e = dir[kernel_pd][x]
        /\ dir[kernel_pd][x] = None => e.made = cr3
    <2>1. \A d \in Dir : dir[d][x] # None => dir[d][x] = dir[kernel_pd][x]
      BY <1>2 DEF TInv, Shared
    <2>2. Entry(cr3, "rw").made = cr3
      BY <1>t, Kinds
    <2> QED BY <1>t, <1>2, <1>3, <2>1, <2>2 DEF Found
  <1>6. \A f \in Dir, y \in Index :
           dir'[f][y] = IF y = x /\ f \in {cr3, kernel_pd} THEN e ELSE dir[f][y]
    BY <1>t, <1>2, <1>4, <1>5
  <1>7. TypeOK'
    BY <1>g, <1>4 DEF TInv, TypeOK, SbrkPage
  <1>8. Shared'
    <2> SUFFICES ASSUME NEW d \in Dir, NEW y \in Kernel, dir'[d][y] # None
                 PROVE  dir'[d][y] = dir'[kernel_pd][y]
      BY DEF Shared, kernel_pd
    <2>1. CASE y = x
      <3>1. dir'[kernel_pd][y] = e
        BY <1>t, <1>2, <1>6, <2>1
      <3>2. CASE d \in {cr3, kernel_pd}
        BY <1>t, <1>2, <1>6, <2>1, <3>1, <3>2
      <3>3. CASE d \notin {cr3, kernel_pd}
        <4>1. dir'[d][y] = dir[d][y]
          BY <1>t, <1>6, <3>3
        <4>2. dir[d][y] = dir[kernel_pd][y]
          BY <4>1 DEF TInv, Shared
        <4> QED BY <1>5, <2>1, <3>1, <4>1, <4>2
      <3> QED BY <3>2, <3>3
    <2>2. CASE y # x
      <3>1. dir'[d][y] = dir[d][y] /\ dir'[kernel_pd][y] = dir[kernel_pd][y]
        BY <1>t, <1>6, <2>2
      <3> QED BY <3>1 DEF TInv, Shared
    <2> QED BY <2>1, <2>2
  <1>9. Own'
    <2>1. \A f \in Dir, y \in Index \ Kernel : dir'[f][y] = dir[f][y]
      BY <1>2, <1>6
    <2> QED BY <2>1 DEF TInv, Own
  <1>10. Named'
    <2> SUFFICES ASSUME NEW d \in Dir, NEW m \in Dir, NEW y \in Index,
                        dir'[d][y] # None, dir'[d][y].made = m
                 PROVE  dir'[m][y] # None /\ dir'[m][y].made = m
      BY DEF Named
    <2>1. CASE dir'[d][y] # dir[d][y]
      <3>1. y = x /\ e.made = m
        BY <1>6, <2>1
      <3>2. CASE dir[kernel_pd][x] = None
        <4>1. m = cr3
          BY <1>5, <3>1, <3>2
        <4> QED BY <1>t, <1>4, <1>6, <3>1, <4>1
      <3>3. CASE dir[kernel_pd][x] # None
        <4>0. dir[kernel_pd][x].made = m /\ x \in Index
          BY <1>t, <1>5, <3>1, <3>3
        <4>1. dir[m][x] # None /\ dir[m][x].made = m
          BY <1>t, <3>3, <4>0 DEF TInv, Named
        <4> QED BY <1>2, <1>4, <1>6, <3>1, <4>1
      <3> QED BY <3>2, <3>3
    <2>2. CASE dir'[d][y] = dir[d][y]
      <3>1. dir[m][y] # None /\ dir[m][y].made = m
        BY <2>2 DEF TInv, Named
      <3>2. CASE dir'[m][y] = dir[m][y]
        BY <3>1, <3>2
      <3>3. CASE dir'[m][y] # dir[m][y]
        <4>1. y = x /\ m \in {cr3, kernel_pd} /\ dir'[m][y] = e
          BY <1>6, <3>3
        <4>2. dir[kernel_pd][x] # None
          BY <1>2, <3>1, <4>1 DEF TInv, Shared
        <4>3. dir[m][x] = e
          BY <1>2, <1>5, <3>1, <4>1, <4>2 DEF TInv, Shared
        <4> QED BY <3>1, <4>1, <4>3
      <3> QED BY <3>2, <3>3
    <2> QED BY <2>1, <2>2
  <1>11. Unborn'
    <2>1. ASSUME NEW d \in (pds + 1)..MaxPd, NEW y \in Index PROVE dir'[d][y] = None
      <3>1. d \in Dir /\ d \notin {cr3, kernel_pd}
        BY <1>t, Sizes DEF Dir, kernel_pd
      <3> QED BY <1>6, <2>1, <3>1 DEF TInv, Unborn
    <2>2. pds' = pds
      BY DEF SbrkPage
    <2> QED BY <2>1, <2>2 DEF Unborn
  <1>12. TInv'
    BY <1>7, <1>8, <1>9, <1>10, <1>11 DEF TInv
  <1>13. dir[cr3][x] # None => e = dir[cr3][x]
    BY <1>5
  <1> QED BY <1>g, <1>2, <1>4, <1>6, <1>12, <1>13

\* The page fault handler gives the loaded directory what the master has.
LEMMA TTouch == ASSUME TInv, Touch PROVE TInv'
  <1>t. /\ dir \in [Dir -> [Index -> Entries]]
        /\ cr3 \in Dir /\ cr3 \in 1..pds /\ cr3 # kernel_pd /\ kernel_pd \in Dir
        /\ Kernel \subseteq Index /\ pds \in 1..MaxPd
    BY Sizes DEF TInv, TypeOK
  <1>1. PICK x \in Kernel :
           /\ tables' = tables /\ dir' \in [Dir -> [Index -> Entries]]
           /\ \A d \in Dir, y \in Index :
                 dir'[d][y] = IF d = cr3 /\ y = x /\ dir[cr3][x] = None
                              THEN dir[kernel_pd][x] ELSE dir[d][y]
    BY FaultIn
  <1>2. UNCHANGED <<pds, cr3, kmem_top, kmem_ptr, goal>>
    BY DEF Touch
  <1>3. TypeOK'
    BY <1>1, <1>2 DEF TInv, TypeOK
  <1>4. \A y \in Index : dir'[kernel_pd][y] = dir[kernel_pd][y]
    BY <1>t, <1>1
  <1>5. Shared'
    <2> SUFFICES ASSUME NEW d \in Dir, NEW y \in Kernel, dir'[d][y] # None
                 PROVE  dir'[d][y] = dir'[kernel_pd][y]
      BY DEF Shared, kernel_pd
    <2>1. CASE dir'[d][y] = dir[d][y]
      BY <1>t, <1>4, <2>1 DEF TInv, Shared
    <2>2. CASE dir'[d][y] # dir[d][y]
      BY <1>t, <1>1, <1>4, <2>2
    <2> QED BY <2>1, <2>2
  <1>6. Own'
    <2>1. \A f \in Dir, y \in Index \ Kernel : dir'[f][y] = dir[f][y]
      BY <1>1
    <2> QED BY <2>1 DEF TInv, Own
  <1>7. Named'
    <2> SUFFICES ASSUME NEW d \in Dir, NEW m \in Dir, NEW y \in Index,
                        dir'[d][y] # None, dir'[d][y].made = m
                 PROVE  dir'[m][y] # None /\ dir'[m][y].made = m
      BY DEF Named
    <2>1. PICK f \in Dir : dir'[d][y] = dir[f][y]
      BY <1>t, <1>1
    <2>2. dir[m][y] # None /\ dir[m][y].made = m
      BY <2>1 DEF TInv, Named
    <2>3. dir'[m][y] = dir[m][y]
      BY <1>1, <2>2
    <2> QED BY <2>2, <2>3
  <1>8. Unborn'
    <2>1. ASSUME NEW d \in (pds + 1)..MaxPd, NEW y \in Index PROVE dir'[d][y] = None
      <3>1. d \in Dir /\ d # cr3
        BY <1>t, Sizes DEF Dir
      <3> QED BY <1>1, <2>1, <3>1 DEF TInv, Unborn
    <2> QED BY <1>2, <2>1 DEF Unborn
  <1> QED BY <1>3, <1>5, <1>6, <1>7, <1>8 DEF TInv

\* The other actions change no table.
LEMMA TRest ==
    ASSUME TInv, Switch \/ Sbrk \/ SbrkDone \/ UNCHANGED vars
    PROVE  TInv'
  <1>1. UNCHANGED <<dir, tables, pds>>
    BY DEF Switch, Sbrk, SbrkDone, vars
  <1>2. cr3' \in 1..pds
    BY DEF TInv, TypeOK, Switch, Sbrk, SbrkDone, vars
  <1>3. /\ kmem_top' \in HeapStart..(HeapEnd - 1)
        /\ kmem_ptr' \in HeapStart..(HeapEnd - 1)
        /\ goal' \in {0} \cup HeapStart..(HeapEnd - 1)
    BY DEF TInv, TypeOK, Switch, Sbrk, SbrkDone, vars
  <1>4. TypeOK'
    BY <1>1, <1>2, <1>3 DEF TInv, TypeOK
  <1>5. (Shared /\ Own /\ Named /\ Unborn)'
    BY <1>1 DEF TInv, Shared, Own, Named, Unborn, kernel_pd
  <1> QED BY <1>4, <1>5 DEF TInv

LEMMA TStep == TInv /\ [Next]_vars => TInv'
  <1> SUFFICES ASSUME TInv, [Next]_vars PROVE TInv'
    OBVIOUS
  <1> QED BY TFork, TSetUserPage, TSbrkPage, TTouch, TRest DEF Next

\* Kernel tables are shared, user tables have one owner, and no directory gets a
\* second table for a place (vmm_page_touch, vmm_clone_pd).
THEOREM TablesSound == Spec => []TInv
  BY TInit, TStep, PTL DEF Spec

\* The directories of all processes agree on the kernel's tables, in whatever
\* order processes are made, run, grow the heap and fault on it (vmm_page_touch,
\* vmm_clone_pd, page_fault_handler).
THEOREM KernelTablesAgreeSafe == Spec => []KernelTablesAgree
  <1>1. TInv => KernelTablesAgree
    BY DEF TInv, Shared, KernelTablesAgree
  <1> QED BY <1>1, TablesSound, PTL

-----------------------------------------------------------------------------
(* The kernel's heap *)

\* What it takes for a page of the heap to be mapped.
LEMMA MappedIs ==
    \A g : Mapped(g) <=> /\ dir[kernel_pd][IndexOf(g)] # None
                         /\ tables[dir[kernel_pd][IndexOf(g)].made][IndexOf(g)][g % TableSize] # Absent
  BY DEF Mapped, vmm_page_get, space, Absent

\* A page stays mapped when its table stays as it is.
LEMMA StaysMapped ==
    ASSUME TInv, NEW g \in HeapStart..(HeapEnd - 1), Mapped(g),
           dir'[kernel_pd][IndexOf(g)] = dir[kernel_pd][IndexOf(g)],
           tables'[dir[kernel_pd][IndexOf(g)].made][IndexOf(g)]
             = tables[dir[kernel_pd][IndexOf(g)].made][IndexOf(g)]
    PROVE  Mapped(g)'
  <1>1. PICK x : x = IndexOf(g) /\ x = IndexOf(g)'
    BY DEF IndexOf
  <1> QED BY <1>1, MappedIs DEF Mapped, vmm_page_get, space, kernel_pd, Absent

LEMMA HInit == Init => Heap /\ Warm
  BY Sizes DEF Init, Heap, Warm

LEMMA HFork == ASSUME HInv, Fork PROVE (Heap /\ Warm)'
  <1>1. PICK to \in Dir : to = pds + 1
    BY Sizes DEF HInv, TInv, TypeOK, Fork, Dir
  <1>2. \A d \in Dir \ {to} : dir'[d] = dir[d] /\ tables'[d] = tables[d]
    <2>1. Move(vmm_clone_pd(space, cr3, to))
      BY <1>1 DEF Fork
    <2> QED BY <1>1, <2>1, ClonePd DEF HInv
  <1>3. to # kernel_pd /\ \A x \in Index : dir[to][x] = None
    <2>1. to \in (pds + 1)..MaxPd /\ pds \in Nat
      BY <1>1, Sizes DEF HInv, TInv, TypeOK, Fork
    <2> QED BY <1>1, <2>1 DEF HInv, TInv, Unborn, kernel_pd
  <1>4. ASSUME NEW g \in HeapStart..(kmem_top - 1) PROVE Mapped(g)'
    <2>1. g \in HeapStart..(HeapEnd - 1) /\ Mapped(g)
      BY Sizes DEF HInv, TInv, TypeOK, Heap
    <2>2. PICK x \in Kernel : x = IndexOf(g) /\ x \in Index
      BY <2>1, Places, Sizes
    <2>3. PICK m \in Dir : m = dir[kernel_pd][x].made
      BY <2>1, <2>2, MappedIs, Sizes, Kinds DEF HInv, TInv, TypeOK
    <2>4. dir[m][x] # None
      BY <2>1, <2>2, <2>3, MappedIs, Sizes DEF HInv, TInv, Named
    <2>5. m # to
      BY <1>3, <2>2, <2>4
    <2>6. dir'[kernel_pd] = dir[kernel_pd] /\ tables'[m] = tables[m]
      BY <1>2, <1>3, <2>5, Sizes
    <2> QED BY <2>1, <2>2, <2>3, <2>6, StaysMapped DEF HInv
  <1>5. UNCHANGED <<kmem_top, kmem_ptr, goal, halt>> /\ goal = 0
    BY DEF Fork, Up
  <1> QED BY <1>4, <1>5 DEF HInv, Heap, Warm

LEMMA HSetUserPage == ASSUME HInv, SetUserPage PROVE (Heap /\ Warm)'
  <1>t. cr3 \in 1..pds /\ cr3 \in Dir
    BY Sizes DEF HInv, TInv, TypeOK
  <1>1. PICK u \in UserPage, v \in {Absent, "ro", "rw"} : Move(vmm_page_set(space, cr3, u, v))
    BY DEF SetUserPage
  <1>2. PICK x \in Index \ Kernel : x = IndexOf(u)
    BY Places
  <1>3. PICK e : e = Found(cr3, x, v)
    OBVIOUS
  <1>4. /\ \A f \in Dir, y \in Index :
              dir'[f][y] = IF y = x /\ (f = cr3 \/ (f = kernel_pd /\ dir[cr3][x] = None /\ x \in Kernel))
                           THEN e ELSE dir[f][y]
        /\ \A m \in Dir, y \in Index : m # e.made \/ y # x => tables'[m][y] = tables[m][y]
    BY <1>t, <1>1, <1>2, <1>3, SetPage DEF HInv
  <1>5. ASSUME NEW g \in HeapStart..(kmem_top - 1) PROVE Mapped(g)'
    <2>1. g \in HeapStart..(HeapEnd - 1) /\ Mapped(g)
      BY Sizes DEF HInv, TInv, TypeOK, Heap
    <2>2. PICK y \in Kernel : y = IndexOf(g)
      BY <2>1, Places
    <2>3. PICK m \in Dir : m = dir[kernel_pd][y].made
      BY <2>1, <2>2, MappedIs, Sizes, Kinds DEF HInv, TInv, TypeOK
    <2>4. dir'[kernel_pd][y] = dir[kernel_pd][y] /\ tables'[m][y] = tables[m][y]
      BY <1>2, <1>4, <2>2, Sizes
    <2> QED BY <2>1, <2>2, <2>3, <2>4, StaysMapped DEF HInv
  <1>6. UNCHANGED <<kmem_top, kmem_ptr, goal, halt>> /\ goal = 0
    BY DEF SetUserPage, Up
  <1> QED BY <1>5, <1>6 DEF HInv, Heap, Warm

\* The loop of sbrk clears no table that is in use.
LEMMA HSbrkPage == ASSUME HInv, SbrkPage PROVE (Heap /\ Warm)'
  <1>t. /\ dir \in [Dir -> [Index -> Entries]] /\ kernel_pd \in Dir /\ cr3 \in Dir
        /\ Kernel \subseteq Index /\ HeapStart \in Nat /\ HeapEnd \in Nat
        /\ goal \in HeapStart..(HeapEnd - 1) /\ kmem_top < goal /\ goal # 0
        /\ kmem_ptr \in Int /\ kmem_top \in Int
    BY Sizes DEF HInv, TInv, TypeOK, SbrkPage
  <1>g. /\ kmem_top \in HeapStart..(HeapEnd - 1)
        /\ kmem_top % TableSize \in 0..(TableSize - 1)
    BY <1>t, Places, TSbrkPage DEF HInv
  <1>1. PICK x \in Kernel, e \in Entries :
           /\ x = IndexOf(kmem_top) /\ e # None /\ e.made \in Dir
           /\ dir[cr3][x] # None => e = dir[cr3][x]
           /\ \A f \in Dir, y \in Index :
                 dir'[f][y] = IF y = x /\ f \in {cr3, kernel_pd} THEN e ELSE dir[f][y]
           /\ \A m \in Dir, y \in Index : m # e.made \/ y # x => tables'[m][y] = tables[m][y]
           /\ \A k \in 0..(TableSize - 1) :
                 tables'[e.made][x][k] = IF k = kmem_top % TableSize THEN "rw"
                                         ELSE IF dir[cr3][x] = None THEN Absent
                                         ELSE tables[e.made][x][k]
    BY TSbrkPage DEF HInv
  <1>2. \A g : IndexOf(g)' = IndexOf(g)
    BY DEF IndexOf
  <1>0. PICK top \in HeapStart..(HeapEnd - 1) : top = kmem_top
    BY <1>g
  <1>3. Mapped(top)'
    <2>1. dir'[kernel_pd][x] = e /\ tables'[e.made][x][kmem_top % TableSize] = "rw"
      BY <1>t, <1>g, <1>1
    <2> QED BY <1>0, <1>1, <1>2, <2>1 DEF Mapped, vmm_page_get, space, kernel_pd, Absent
  <1>4. ASSUME NEW g \in HeapStart..(kmem_top - 1) PROVE Mapped(g)'
    <2>1. g \in HeapStart..(HeapEnd - 1) /\ Mapped(g)
      BY <1>g, Sizes DEF HInv, Heap
    <2>2. PICK y \in Kernel : y = IndexOf(g)
      BY <2>1, Places
    <2>3. g % TableSize \in 0..(TableSize - 1)
      BY <2>1, Places
    <2>4. dir[kernel_pd][y] # None /\ tables[dir[kernel_pd][y].made][y][g % TableSize] # Absent
      BY <2>1, <2>2, MappedIs
    <2>5. CASE y # x
      <3>1. dir'[kernel_pd][y] = dir[kernel_pd][y]
        BY <1>t, <1>1, <2>2, <2>5
      <3>2. dir[kernel_pd][y].made \in Dir
        BY <1>t, <2>2, <2>4, Kinds
      <3>3. tables'[dir[kernel_pd][y].made][y] = tables[dir[kernel_pd][y].made][y]
        BY <1>t, <1>1, <2>2, <2>5, <3>2
      <3> QED BY <2>1, <2>2, <3>1, <3>3, StaysMapped DEF HInv
    <2>6. CASE y = x
      <3>1. ~ Cold(kmem_top)
        BY <1>t, <1>g DEF HInv, Warm
      <3>2. dir[cr3][x] # None
        BY <1>1, <2>2, <2>4, <2>6, <3>1 DEF Cold
      <3>3. e = dir[kernel_pd][x]
        BY <1>t, <1>1, <3>2 DEF HInv, TInv, Shared
      <3>4. /\ dir'[kernel_pd][x] = e
            /\ tables'[e.made][x][g % TableSize] # Absent
        BY <1>t, <1>1, <2>3, <2>4, <2>6, <3>2, <3>3 DEF Absent
      <3> QED BY <1>1, <1>2, <2>2, <2>6, <3>4 DEF Mapped, vmm_page_get, space, kernel_pd, Absent
    <2> QED BY <2>5, <2>6
  <1>5. Heap'
    <2>1. kmem_ptr' <= kmem_top' /\ kmem_top' = kmem_top + 1 /\ halt' = "no"
      BY <1>t DEF HInv, Heap, SbrkPage
    <2>2. ASSUME NEW g \in HeapStart..(kmem_top' - 1) PROVE Mapped(g)'
      <3>1. g = top \/ g \in HeapStart..(kmem_top - 1)
        BY <1>t, <1>0, <2>1
      <3>2. CASE g = top
        BY <1>3, <3>2
      <3> QED BY <1>4, <3>1, <3>2
    <2> QED BY <2>1, <2>2 DEF Heap
  <1>6. Warm'
    <2>1. goal' = goal /\ kmem_top' = kmem_top + 1 /\ cr3' = cr3
      BY DEF SbrkPage
    <2>2. ASSUME NEW g \in (kmem_top + 1)..(goal - 1) PROVE ~ Cold(g)'
      <3>1. ~ Cold(g) /\ g \in HeapStart..(HeapEnd - 1)
        BY <1>t, <1>g DEF HInv, Warm
      <3>2. PICK y \in Kernel : y = IndexOf(g)
        BY <3>1, Places
      <3>3. dir[cr3][y] = None => dir[kernel_pd][y] = None
        BY <3>1, <3>2 DEF Cold
      <3>4. dir'[cr3][y] = None => dir'[kernel_pd][y] = None
        BY <1>t, <1>1, <3>2, <3>3
      <3> QED BY <1>2, <2>1, <3>2, <3>4 DEF Cold, kernel_pd
    <2> QED BY <2>1, <2>2 DEF Warm
  <1> QED BY <1>5, <1>6

\* A fault on the heap finds the table in the master directory.
LEMMA HTouch == ASSUME HInv, Touch PROVE (Heap /\ Warm)'
  <1>t. /\ dir \in [Dir -> [Index -> Entries]] /\ kernel_pd \in Dir
        /\ cr3 \in Dir /\ cr3 \in 1..pds /\ cr3 # kernel_pd /\ Kernel \subseteq Index
    BY Sizes DEF HInv, TInv, TypeOK
  <1>1. PICK h \in HeapStart..(kmem_ptr - 1), x \in Kernel :
           /\ x = IndexOf(h) /\ h \in HeapStart..(HeapEnd - 1)
           /\ tables' = tables
           /\ \A d \in Dir, y \in Index :
                 dir'[d][y] = IF d = cr3 /\ y = x /\ dir[cr3][x] = None
                              THEN dir[kernel_pd][x] ELSE dir[d][y]
           /\ dir'[cr3][x] # None /\ tables[dir'[cr3][x].made][x][h % TableSize] # Absent
              => halt' = "no"
    BY FaultIn DEF HInv
  <1>2. UNCHANGED <<pds, cr3, kmem_top, kmem_ptr, goal>> /\ goal = 0
    BY DEF Touch, Up
  <1>3. halt' = "no"
    <2>1. Mapped(h)
      BY <1>1, Sizes DEF HInv, TInv, TypeOK, Heap
    <2>2. dir[kernel_pd][x] # None /\ tables[dir[kernel_pd][x].made][x][h % TableSize] # Absent
      BY <1>1, <2>1, MappedIs
    <2>3. dir'[cr3][x] = dir[kernel_pd][x]
      BY <1>t, <1>1 DEF HInv, TInv, Shared
    <2> QED BY <1>1, <2>2, <2>3
  <1>4. ASSUME NEW g \in HeapStart..(kmem_top - 1) PROVE Mapped(g)'
    <2>1. g \in HeapStart..(HeapEnd - 1) /\ Mapped(g)
      BY Sizes DEF HInv, TInv, TypeOK, Heap
    <2>2. PICK y \in Kernel : y = IndexOf(g)
      BY <2>1, Places
    <2>3. dir'[kernel_pd][y] = dir[kernel_pd][y]
      BY <1>t, <1>1, <2>2
    <2> QED BY <1>1, <2>1, <2>2, <2>3, StaysMapped DEF HInv
  <1> QED BY <1>2, <1>3, <1>4 DEF HInv, Heap, Warm

\* The kernel's sbrk, as malloc calls it.
LEMMA HSbrk ==
    ASSUME HInv, "cold_heap" \notin Cases, Sbrk
    PROVE  (Heap /\ Warm)'
  <1>1. UNCHANGED <<dir, tables, cr3, kmem_top, kmem_ptr, halt>>
    BY DEF Sbrk
  <1>2. \A g : (Mapped(g)' <=> Mapped(g)) /\ (Cold(g)' <=> Cold(g))
    BY <1>1 DEF Mapped, Cold, vmm_page_get, space, kernel_pd, IndexOf
  <1>3. Heap'
    BY <1>1, <1>2 DEF HInv, Heap
  <1>4. \A g \in kmem_top..(goal' - 1) : ~ Cold(g)
    BY DEF Sbrk
  <1> QED BY <1>1, <1>2, <1>3, <1>4 DEF Warm

\* The actions that touch neither the directories nor the tables.
LEMMA HRest ==
    ASSUME HInv, Switch \/ SbrkDone \/ UNCHANGED vars
    PROVE  (Heap /\ Warm)'
  <1>1. UNCHANGED <<dir, tables, kmem_top, halt>>
    BY DEF Switch, SbrkDone, vars
  <1>2. \A g : Mapped(g)' <=> Mapped(g)
    BY <1>1 DEF Mapped, vmm_page_get, space, kernel_pd, IndexOf
  <1>3. kmem_ptr' <= kmem_top
    BY DEF HInv, TInv, TypeOK, Heap, Switch, SbrkDone, vars
  <1>4. Heap'
    BY <1>1, <1>2, <1>3 DEF HInv, Heap
  <1>5. Warm'
    <2>1. goal' = 0 \/ UNCHANGED vars
      BY DEF Switch, Up, SbrkDone
    <2>2. CASE goal' = 0
      BY <2>2 DEF Warm
    <2>3. CASE UNCHANGED vars
      BY <2>3 DEF HInv, Warm, Cold, vars, kernel_pd, IndexOf
    <2> QED BY <2>1, <2>2, <2>3
  <1> QED BY <1>4, <1>5

\* When sbrk finds the tables it extends in the loaded directory, the kernel
\* reaches every page of its heap from every directory, and neither page fault
\* that would stop it occurs (sbrk of sys_mem.c, page_fault_handler).
THEOREM HeapReachableSafe ==
    ASSUME "cold_heap" \notin Cases
    PROVE  Spec => []HeapReachable
  <1>1. Init => HInv
    BY TInit, HInit DEF HInv
  <1>2. HInv /\ [Next]_vars => HInv'
    <2> SUFFICES ASSUME HInv, [Next]_vars PROVE HInv'
      OBVIOUS
    <2>1. TInv'
      BY TStep DEF HInv
    <2>2. (Heap /\ Warm)'
      BY HFork, HSetUserPage, HSbrkPage, HTouch, HSbrk, HRest DEF Next
    <2> QED BY <2>1, <2>2 DEF HInv
  <1>3. HInv => HeapReachable
    BY DEF HInv, Heap, Mapped, HeapReachable
  <1> QED BY <1>1, <1>2, <1>3, PTL DEF Spec

-----------------------------------------------------------------------------
(* What processes see of their pages *)

\* A directory's user pages look the same as long as its entries and the
\* tables they name do.
LEMMA SameView ==
    ASSUME NEW d \in Dir,
           \A y \in Index \ Kernel :
              /\ dir'[d][y] = dir[d][y]
              /\ dir[d][y] # None
                 => tables'[dir[d][y].made][y] = tables[dir[d][y].made][y]
    PROVE  UserView(d)' = UserView(d)
  <1>1. ASSUME NEW g \in UserPage
        PROVE  vmm_page_get(space, d, g)' = vmm_page_get(space, d, g)
    <2>1. PICK y \in Index \ Kernel : y = IndexOf(g) /\ y = IndexOf(g)'
      BY Places DEF IndexOf
    <2> QED BY <2>1 DEF vmm_page_get, space
  <1> QED BY <1>1 DEF UserView

\* Only the running process can change its view.
LEMMA OtherViews ==
    ASSUME TInv, SetUserPage \/ SbrkPage \/ Touch \/ Switch \/ Sbrk \/ SbrkDone \/ UNCHANGED vars,
           NEW d \in 1..MaxPd, d # cr3
    PROVE  UserView(d)' = UserView(d)
  <1>t. /\ dir \in [Dir -> [Index -> Entries]] /\ d \in Dir /\ d # kernel_pd
        /\ cr3 \in Dir /\ cr3 \in 1..pds /\ Kernel \subseteq Index
    BY Sizes DEF TInv, TypeOK
  <1>o. \A y \in Index \ Kernel : dir[d][y] # None => dir[d][y].made = d
    BY <1>t DEF TInv, Own
  <1>1. CASE SetUserPage
    <2>1. PICK g \in UserPage, v \in {Absent, "ro", "rw"} : Move(vmm_page_set(space, cr3, g, v))
      BY <1>1 DEF SetUserPage
    <2>2. PICK x \in Index \ Kernel : x = IndexOf(g)
      BY Places
    <2>3. PICK e : e = Found(cr3, x, v)
      OBVIOUS
    <2>4. /\ \A f \in Dir, y \in Index :
                dir'[f][y] = IF y = x /\ (f = cr3 \/ (f = kernel_pd /\ dir[cr3][x] = None /\ x \in Kernel))
                             THEN e ELSE dir[f][y]
          /\ \A m \in Dir, y \in Index : m # e.made \/ y # x => tables'[m][y] = tables[m][y]
      BY <1>t, <2>1, <2>2, <2>3, SetPage
    <2>5. e.made = cr3
      <3>1. CASE dir[cr3][x] # None
        BY <1>t, <2>2, <2>3, <3>1 DEF Found, TInv, Own
      <3>2. CASE dir[cr3][x] = None
        BY <1>t, <2>2, <2>3, <3>2, Kinds DEF Found
      <3> QED BY <3>1, <3>2
    <2>6. \A y \in Index \ Kernel :
             dir'[d][y] = dir[d][y] /\ tables'[d][y] = tables[d][y]
      BY <1>t, <2>2, <2>4, <2>5
    <2> QED BY <1>t, <1>o, <2>6, SameView
  <1>2. CASE SbrkPage
    <2>1. PICK x \in Kernel, e \in Entries :
             /\ \A f \in Dir, y \in Index :
                   dir'[f][y] = IF y = x /\ f \in {cr3, kernel_pd} THEN e ELSE dir[f][y]
             /\ \A m \in Dir, y \in Index : m # e.made \/ y # x => tables'[m][y] = tables[m][y]
      BY <1>2, TSbrkPage
    <2>2. \A y \in Index \ Kernel :
             dir'[d][y] = dir[d][y] /\ tables'[d][y] = tables[d][y]
      BY <1>t, <2>1
    <2> QED BY <1>t, <1>o, <2>2, SameView
  <1>3. CASE Touch
    <2>1. PICK x \in Kernel :
             /\ tables' = tables
             /\ \A f \in Dir, y \in Index :
                   dir'[f][y] = IF f = cr3 /\ y = x /\ dir[cr3][x] = None
                                THEN dir[kernel_pd][x] ELSE dir[f][y]
      BY <1>3, FaultIn
    <2>2. \A y \in Index \ Kernel : dir'[d][y] = dir[d][y]
      BY <1>t, <2>1
    <2> QED BY <1>t, <2>1, <2>2, SameView
  <1>4. CASE Switch \/ Sbrk \/ SbrkDone \/ UNCHANGED vars
    <2>1. UNCHANGED <<dir, tables>>
      BY <1>4 DEF Switch, Sbrk, SbrkDone, vars
    <2> QED BY <1>t, <2>1, SameView
  <1> QED BY <1>1, <1>2, <1>3, <1>4

\* A new process sees what the one that forked it sees, and no other notices.
LEMMA ForkViews ==
    ASSUME TInv, Fork, NEW d \in 1..MaxPd
    PROVE  UserView(d)' = IF d = pds + 1 THEN UserView(cr3) ELSE UserView(d)
  <1>t. /\ dir \in [Dir -> [Index -> Entries]] /\ d \in Dir /\ d # kernel_pd
        /\ cr3 \in Dir /\ cr3 \in 1..pds /\ Kernel \subseteq Index /\ pds \in 1..MaxPd
        /\ pds < MaxPd
    BY Sizes DEF TInv, TypeOK, Fork
  <1>1. PICK to \in Dir : to = pds + 1
    BY <1>t, Sizes DEF Dir
  <1>2. /\ \A f \in Dir \ {to} : dir'[f] = dir[f] /\ tables'[f] = tables[f]
        /\ \A x \in Index \ Kernel :
              IF dir[cr3][x] = None THEN dir'[to][x] = None
              ELSE /\ dir'[to][x] # None /\ dir'[to][x].made = to
                   /\ tables'[to][x] = tables[dir[cr3][x].made][x]
    <2>1. Move(vmm_clone_pd(space, cr3, to))
      BY <1>1 DEF Fork
    <2> QED BY <1>1, <2>1, ClonePd
  <1>3. CASE d = to
    <2>1. ASSUME NEW g \in UserPage
          PROVE  vmm_page_get(space, to, g)' = vmm_page_get(space, cr3, g)
      <3>1. PICK x \in Index \ Kernel : x = IndexOf(g) /\ x = IndexOf(g)'
        BY Places DEF IndexOf
      <3> QED BY <1>2, <3>1 DEF vmm_page_get, space
    <2>2. UserView(to)' = UserView(cr3)
      BY <2>1 DEF UserView
    <2> QED BY <1>1, <1>3, <2>2
  <1>4. CASE d # to
    <2>1. \A y \in Index \ Kernel : dir[d][y] # None => dir[d][y].made = d
      BY <1>t DEF TInv, Own
    <2>2. UserView(d)' = UserView(d)
      BY <1>2, <1>4, <1>t, <2>1, SameView
    <2> QED BY <1>1, <1>4, <2>2
  <1> QED BY <1>3, <1>4

\* What a process sees of its user pages changes only while its directory is
\* loaded, and a new directory sees what the one it was copied from sees
\* (vmm_clone_pd, vmm_page_set).
THEOREM UserViewsApartSafe == Spec => UserViewsApart
  <1> DEFINE Apart ==
        \A d \in 1..MaxPd :
            UserView(d)' = (IF d = pds + 1 /\ pds' = d THEN UserView(cr3)
                            ELSE IF d = cr3 THEN UserView(d)' ELSE UserView(d))
  <1>1. TInv /\ [Next]_vars => Apart
    <2> SUFFICES ASSUME TInv, [Next]_vars, NEW d \in 1..MaxPd
                 PROVE  UserView(d)' = (IF d = pds + 1 /\ pds' = d THEN UserView(cr3)
                                        ELSE IF d = cr3 THEN UserView(d)' ELSE UserView(d))
      OBVIOUS
    <2>1. CASE Fork
      <3>1. pds' = pds + 1
        BY <2>1 DEF Fork
      <3> QED BY <2>1, <3>1, ForkViews
    <2>2. CASE SetUserPage \/ SbrkPage \/ Touch \/ Switch \/ Sbrk \/ SbrkDone \/ UNCHANGED vars
      <3>1. pds' = pds /\ pds \in Nat
        BY <2>2, Sizes DEF SetUserPage, SbrkPage, Touch, Switch, Sbrk, SbrkDone, vars, TInv, TypeOK
      <3>2. ~ (d = pds + 1 /\ pds' = d)
        BY <3>1
      <3>3. d # cr3 => UserView(d)' = UserView(d)
        BY <2>2, OtherViews
      <3> QED BY <3>2, <3>3
    <2> QED BY <2>1, <2>2 DEF Next
  <1>2. TInv /\ [Next]_vars => [Apart]_vars
    BY <1>1
  <1> QED BY <1>2, TablesSound, PTL DEF Spec, UserViewsApart

=============================================================================
