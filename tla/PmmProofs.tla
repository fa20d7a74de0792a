------------------------------ MODULE PmmProofs ------------------------------
(***************************************************************************)
(* Proofs about the physical memory manager, for every memory map that     *)
(* meets MapsAssumption and leaves the last page below 4 GB reserved, for  *)
(* every place of the last module and every number of entries per page of  *)
(* storage.  Over a free region that reaches the last page the loop of     *)
(* pmm_init never ends, so AllTopReserved is a hypothesis of each theorem. *)
(*                                                                         *)
(* OnePlace is not inductive: that pmm_init does not push a page twice     *)
(* needs to know which pages its loops have visited (Visited), and that    *)
(* the page table of the stack is nobody's page needs the order that       *)
(* pmm_pos imposes on the pages below and above it (Below, Above).  Counts *)
(* of pages do not wrap as long as the last page is left out (Low).        *)
(***************************************************************************)
EXTENDS Pmm, SequenceTheorems, TLAPS

\* The hypothesis on the memory maps.
AllTopReserved == \A m \in Maps : TopReserved(m)

\* While pmm_init runs, pages come from the part of the map already visited,
\* and none has been handed out.
Visited ==
    /\ entry <= Len(map) + 1
    /\ entry <= Len(map) =>
          /\ held = {}
          /\ j >= Lo(map[entry])
          /\ \A page \in FreePages :
                \E k \in 1..entry : /\ map[k].free
                                    /\ page \in Lo(map[k])..Hi(map[k])
                                    /\ k = entry => page < j

\* Before the manager runs it has no page, and hands out those below pos.
Below == ~ running => /\ stack = <<>>
                      /\ backing = <<>>
                      /\ table = None
                      /\ \A page \in held : page < pos

\* Once it runs, it deals with pages from pos on and its page table is below.
Above == running => /\ table \in Page
                    /\ table < pos
                    /\ \A page \in held \cup FreePages : page >= pos

Stopped == /\ stop # "locked"
           /\ stop = "out_of_memory" => running /\ StackPtr = 0

\* The last page is neither allocated nor freed.
Low == /\ pos < AddrPages - 1
       /\ \A page \in held \cup FreePages : page < AddrPages - 1

Core == TypeOK /\ OnePlace /\ StorageFits /\ Below /\ Above /\ Stopped /\ Low

IInv == Core /\ Visited /\ FromMap

-----------------------------------------------------------------------------
\* Arithmetic on the multiples of Entries that StackMax takes.
LEMMA Multiples ==
    ASSUME NEW n \in Nat
    PROVE  /\ Entries * n \in Nat
           /\ Entries * (n + 1) = Entries * n + Entries
           /\ n >= 2 => Entries * n >= Entries + 2
  <1>1. Entries \in Nat /\ Entries >= 2
    BY EntriesAssumption
  <1>2. Entries * n \in Nat /\ Entries * (n + 1) = Entries * n + Entries
    BY <1>1
  <1>3. ASSUME n >= 2 PROVE Entries * n >= Entries + 2
    <2>1. (Entries - 2) * (n - 2) >= 0
      BY <1>1, <1>3
    <2>2. Entries * n = (Entries - 2) * (n - 2) + 2 * Entries + 2 * n - 4
      BY <1>1
    <2> QED BY <1>1, <1>2, <1>3, <2>1, <2>2
  <1> QED BY <1>2, <1>3

\* A page pushed on a sequence of pages that does not hold it.
LEMMA Push ==
    ASSUME NEW S, NEW s \in Seq(S), NEW x \in S
    PROVE  /\ Append(s, x) \in Seq(S)
           /\ Len(Append(s, x)) = Len(s) + 1
           /\ ToSet(Append(s, x)) = ToSet(s) \cup {x}
           /\ IsInjective(s) /\ x \notin ToSet(s) => IsInjective(Append(s, x))
  <1>1. /\ Append(s, x) \in Seq(S) /\ Len(Append(s, x)) = Len(s) + 1
        /\ \A i \in 1..Len(s) : Append(s, x)[i] = s[i]
        /\ Append(s, x)[Len(s) + 1] = x
    OBVIOUS
  <1>2. ToSet(Append(s, x)) = ToSet(s) \cup {x}
    BY <1>1 DEF ToSet
  <1>3. IsInjective(s) /\ x \notin ToSet(s) => IsInjective(Append(s, x))
    BY <1>1 DEF ToSet, IsInjective
  <1> QED BY <1>1, <1>2, <1>3

\* The beginning of a sequence.
LEMMA Prefix ==
    ASSUME NEW S, NEW s \in Seq(S), NEW n \in 0..Len(s)
    PROVE  /\ SubSeq(s, 1, n) \in Seq(S)
           /\ Len(SubSeq(s, 1, n)) = n
           /\ \A i \in 1..n : SubSeq(s, 1, n)[i] = s[i]
  <1>1. 1 \in Int /\ n \in Int /\ \A i \in 1..n : s[i] \in S
    OBVIOUS
  <1>2. /\ SubSeq(s, 1, n) \in Seq(S)
        /\ Len(SubSeq(s, 1, n)) = IF 1 <= n THEN n - 1 + 1 ELSE 0
        /\ \A i \in 1..(n - 1 + 1) : SubSeq(s, 1, n)[i] = s[1 + i - 1]
    BY <1>1, SubSeqProperties
  <1>3. \A i \in 1..n : 1 + i - 1 = i /\ i \in 1..(n - 1 + 1)
    OBVIOUS
  <1> QED BY <1>2, <1>3

\* The last page taken off a sequence of pages.
LEMMA Pop ==
    ASSUME NEW S, NEW s \in Seq(S), Len(s) > 0
    PROVE  /\ Front(s) \in Seq(S)
           /\ Last(s) \in S
           /\ Last(s) \in ToSet(s)
           /\ Len(Front(s)) = Len(s) - 1
           /\ IsInjective(s) => /\ IsInjective(Front(s))
                                /\ ToSet(Front(s)) = ToSet(s) \ {Last(s)}
  <1>1. /\ Front(s) \in Seq(S)
        /\ Len(Front(s)) = Len(s) - 1
        /\ \A i \in 1..(Len(s) - 1) : Front(s)[i] = s[i]
    <2>1. Len(s) - 1 \in 0..Len(s)
      OBVIOUS
    <2> QED BY <2>1, Prefix DEF Front
  <1>2. Last(s) \in S /\ Last(s) \in ToSet(s) /\ Last(s) = s[Len(s)]
    BY DEF Last, ToSet
  <1>3. ASSUME IsInjective(s)
        PROVE  IsInjective(Front(s)) /\ ToSet(Front(s)) = ToSet(s) \ {Last(s)}
    <2>1. IsInjective(Front(s))
      BY <1>1, <1>3 DEF IsInjective
    <2>2. ToSet(Front(s)) \subseteq ToSet(s) \ {Last(s)}
      BY <1>1, <1>2, <1>3 DEF IsInjective, ToSet
    <2>3. ToSet(s) \ {Last(s)} \subseteq ToSet(Front(s))
      BY <1>1, <1>2 DEF ToSet
    <2> QED BY <2>1, <2>2, <2>3
  <1> QED BY <1>1, <1>2, <1>3

\* The values of the loop variable are pages.
LEMMA LoopBounds ==
    ASSUME NEW r \in Region
    PROVE  Lo(r) \in Page /\ Hi(r) \in Page
  BY AddrAssumption DEF Lo, Hi, Page, Region

\* Below the last page, counting in 32 bits is counting.
LEMMA NoWrap ==
    ASSUME NEW p \in Nat, p < AddrPages - 1
    PROVE  NextPage(p) = p + 1 /\ NextPage(p) \in Page /\ p \in Page
  <1>1. AddrPages \in Nat /\ AddrPages > 0
    BY AddrAssumption
  <1>2. (p + 1) % AddrPages = p + 1
    BY <1>1
  <1> QED BY <1>1, <1>2 DEF NextPage, Page

\* The free regions of a map end below the last page.
LEMMA Ends ==
    ASSUME AllTopReserved, NEW m \in Maps, NEW k \in 1..Len(m), m[k].free
    PROVE  Hi(m[k]) < AddrPages - 1
  BY DEF AllTopReserved, TopReserved

\* pmm_free_page of a page that is in no other place.
LEMMA FreePageCore ==
    ASSUME Core, NEW page \in Page, page \notin FreePages,
           pmm_free_page(page), held' = held \ {page},
           held = {} \/ page \in held,
           page < AddrPages - 1,
           map' \in Maps, entry' \in Nat \ {0}, j' \in Page,
           stop = "no"
    PROVE  /\ Core'
           /\ FreePages' \in {FreePages, FreePages \cup {page}}
  <1> USE DEF Core, TypeOK, OnePlace, StorageFits, Below, Above, Stopped, Low
  <1>0. NextPage(pos) = pos + 1
    BY NoWrap DEF Page
  <1>1. CASE page < pos + 1
    <2>1. UNCHANGED <<pos, running, stack, backing, table, stop>>
      BY <1>0, <1>1 DEF pmm_free_page
    <2> QED BY <2>1 DEF FreePages, StackPtr, StackMax
  <1>2. CASE ~ (page < pos + 1) /\ StackPtr >= StackMax
    <2>1. /\ running' = TRUE
          /\ backing' = Append(backing, page)
          /\ stack' = stack
          /\ table' = IF table = None THEN pos ELSE table
          /\ pos' = IF table = None THEN pos + 1 ELSE pos
          /\ stop' = IF table = None /\ running THEN "locked" ELSE stop
      BY <1>0, <1>2 DEF pmm_free_page
    <2>2. /\ backing' \in Seq(Page)
          /\ Len(backing') = Len(backing) + 1
          /\ ToSet(backing') = ToSet(backing) \cup {page}
          /\ IsInjective(backing')
      BY <2>1, Push DEF FreePages
    <2>3. FreePages' = FreePages \cup {page}
      BY <2>1, <2>2 DEF FreePages
    <2>4. /\ pos \in Int /\ pos >= 0 /\ page > pos /\ page < AddrPages - 1
          /\ AddrPages \in Nat
      BY <1>2, AddrAssumption DEF Page
    <2>5. StorageFits'
      BY <1>2, <2>1, <2>2, Multiples, EntriesAssumption DEF StackPtr, StackMax
    <2>6. /\ table = None <=> ~ running
          /\ stop' = "no"
      BY <2>1, AddrAssumption DEF Page, None
    <2>7. TypeOK' /\ Stopped' /\ Low'
      BY <2>1, <2>2, <2>3, <2>4, <2>6, AddrAssumption DEF Page
    <2>8. Below' /\ Above'
      <3>1. CASE running
        BY <2>1, <2>3, <2>4, <2>6, <3>1 DEF Page
      <3>2. CASE ~ running
        <4>1. held = {} /\ FreePages = {}
          BY <1>2, <2>4, <3>2 DEF FreePages, ToSet, Page
        <4> QED BY <2>1, <2>3, <2>4, <2>6, <3>2, <4>1 DEF Page
      <3> QED BY <3>1, <3>2
    <2>9. OnePlace'
      BY <2>1, <2>2, <2>3, <2>4, <2>6, <2>8 DEF FreePages, Page
    <2> QED BY <2>3, <2>5, <2>7, <2>8, <2>9
  <1>3. CASE ~ (page < pos + 1) /\ ~ (StackPtr >= StackMax)
    <2>1. /\ running' = TRUE
          /\ stack' = Append(stack, page)
          /\ UNCHANGED <<pos, backing, table, stop>>
      BY <1>0, <1>3 DEF pmm_free_page
    <2>2. /\ stack' \in Seq(Page)
          /\ Len(stack') = Len(stack) + 1
          /\ ToSet(stack') = ToSet(stack) \cup {page}
          /\ IsInjective(stack')
      BY <2>1, Push DEF FreePages
    <2>3. FreePages' = FreePages \cup {page}
      BY <2>1, <2>2 DEF FreePages
    <2>4. StorageFits' /\ running
      <3>1. StackMax \in Nat /\ StackPtr \in Nat
        BY Multiples DEF StackMax, StackPtr
      <3>2. running
        BY <1>3, Multiples, EntriesAssumption DEF StackMax, StackPtr
      <3> QED BY <1>3, <2>1, <2>2, <3>1, <3>2, EntriesAssumption DEF StackPtr, StackMax
    <2>5. TypeOK' /\ Stopped' /\ Below' /\ Above' /\ Low'
      BY <1>3, <2>1, <2>2, <2>3, <2>4 DEF Page
    <2>6. table # page
      <3>1. table \in Int /\ pos \in Int /\ page \in Int
        BY <2>4, AddrAssumption DEF Page
      <3> QED BY <1>3, <2>4, <3>1
    <2>7. OnePlace'
      BY <2>1, <2>2, <2>3, <2>6 DEF FreePages
    <2> QED BY <2>3, <2>4, <2>5, <2>7
  <1> QED BY <1>1, <1>2, <1>3

-----------------------------------------------------------------------------
\* The initial states satisfy the invariant.
LEMMA InitIInv == Init => IInv
  <1> SUFFICES ASSUME Init PROVE IInv
    OBVIOUS
  <1>1. stack = <<>> /\ backing = <<>> /\ held = {} /\ FreePages = {}
    BY DEF Init, FreePages, ToSet
  <1>2. map \in Seq(Region)
    BY MapsAssumption DEF Init
  <1>3. map # <<>> => 1 \in 1..Len(map) /\ map[1] \in Region
    BY <1>2
  <1>4. map = <<>> => Len(map) = 0
    BY <1>2
  <1>5. /\ entry = 1
        /\ j \in Page
        /\ entry <= Len(map) => j >= Lo(map[entry])
    BY <1>3, <1>4, LoopBounds, AddrAssumption DEF Init, Page
  <1>6. Visited
    BY <1>1, <1>2, <1>5 DEF Visited
  <1>7. TypeOK
    <2>1. pos \in Page
      BY FirstPosAssumption, AddrAssumption DEF Init, Page
    <2>2. stack \in Seq(Page) /\ backing \in Seq(Page)
      BY <1>1
    <2>3. running \in BOOLEAN /\ table \in Page \cup {None}
      BY Zenon DEF Init
    <2>4. map \in Maps /\ entry \in Nat \ {0} /\ held \subseteq Page
      BY <1>1, <1>5 DEF Init
    <2>5. stop \in {"no", "locked", "out_of_memory"}
      BY DEF Init
    <2> QED BY <1>5, <2>1, <2>2, <2>3, <2>4, <2>5 DEF TypeOK
  <1>8. OnePlace
    BY <1>1 DEF OnePlace, Init, None, IsInjective, ToSet
  <1>9. StorageFits
    BY <1>1, EntriesAssumption, Multiples DEF StorageFits, StackPtr, StackMax
  <1>10. Below /\ Above /\ Stopped
    BY <1>1 DEF Below, Above, Stopped, Init
  <1>11. Low /\ FromMap
    BY <1>1, FirstPosAssumption, AddrAssumption DEF Low, FromMap, Init
  <1> QED BY <1>6, <1>7, <1>8, <1>9, <1>10, <1>11 DEF IInv, Core

\* What an iteration of pmm_init pushes has not been pushed before.
LEMMA InitPageFresh ==
    ASSUME AllTopReserved, IInv, InitPage
    PROVE  /\ j \in Page /\ j \notin FreePages /\ held = {}
           /\ j < AddrPages - 1
           /\ j' = j + 1 /\ j' \in Page
  <1>1. map \in Seq(Region) /\ entry \in 1..Len(map)
    BY MapsAssumption DEF IInv, Core, TypeOK, InitPage
  <1>2. map[entry] \in Region /\ j \in Lo(map[entry])..Hi(map[entry])
    BY <1>1, LoopBounds DEF IInv, Core, TypeOK, Visited, InitPage, Page
  <1>3. j \in Page /\ held = {}
    BY <1>1, <1>2, LoopBounds, AddrAssumption DEF IInv, Visited, Page
  <1>4. ASSUME j \in FreePages PROVE FALSE
    <2>1. PICK k \in 1..entry : /\ map[k].free
                                /\ j \in Lo(map[k])..Hi(map[k])
                                /\ k = entry => j < j
      BY <1>1, <1>4 DEF IInv, Visited
    <2>2. k # entry
      BY <1>3, <2>1 DEF Page
    <2>3. k \in 1..Len(map) /\ map[entry].free /\ map \in Maps
      BY <1>1 DEF InitPage, IInv, Core, TypeOK
    <2> QED BY <1>1, <1>2, <2>1, <2>2, <2>3, MapsAssumption
  <1>5. j < AddrPages - 1
    <2>1. /\ map \in Maps /\ map[entry].free /\ j <= Hi(map[entry])
          /\ Hi(map[entry]) \in Page
      BY <1>1, <1>2, LoopBounds DEF InitPage, IInv, Core, TypeOK
    <2>2. Hi(map[entry]) < AddrPages - 1
      BY <1>1, <2>1, Ends
    <2> QED BY <1>3, <2>1, <2>2, AddrAssumption DEF Page
  <1>6. j' = j + 1 /\ j' \in Page
    BY <1>3, <1>5, NoWrap DEF InitPage, Page
  <1> QED BY <1>3, <1>4, <1>5, <1>6

\* What the free pages come from when no new page is in the manager's hands.
LEMMA KeepsFromMap ==
    ASSUME FromMap, running' = running, map' = map,
           held' \cup FreePages' \subseteq held \cup FreePages
    PROVE  FromMap'
  BY DEF FromMap

\* Every step preserves the invariant.
LEMMA NextIInv ==
    ASSUME AllTopReserved, IInv, [Next]_vars
    PROVE  IInv'
  <1>t. /\ TypeOK /\ Core /\ Visited /\ FromMap
        /\ map \in Seq(Region)
        /\ StackPtr \in Nat /\ StackMax \in Nat
    <2>1. TypeOK /\ Core /\ Visited /\ FromMap /\ map \in Seq(Region)
      BY MapsAssumption DEF IInv, Core, TypeOK
    <2>2. Len(stack) \in Nat /\ Len(backing) \in Nat
      BY <2>1 DEF TypeOK
    <2> QED BY <2>1, <2>2, Multiples DEF StackPtr, StackMax
  <1>1. CASE InitPage
    <2>1. /\ j \in Page /\ j \notin FreePages /\ held = {}
          /\ j < AddrPages - 1
          /\ j' = j + 1 /\ j' \in Page
      BY <1>1, InitPageFresh
    <2>2. /\ Core'
          /\ FreePages' \in {FreePages, FreePages \cup {j}}
      <3>1. /\ pmm_free_page(j)
            /\ held' = held \ {j}
            /\ map' \in Maps /\ entry' \in Nat \ {0} /\ j' \in Page
            /\ stop = "no"
        BY <1>1, <1>t, <2>1 DEF InitPage, TypeOK
      <3> QED BY <1>t, <2>1, <3>1, FreePageCore
    <2>3. Visited'
      <3>1. /\ entry' = entry /\ map' = map /\ held' = held /\ j' = j + 1
            /\ entry \in 1..Len(map) /\ j \in Int
            /\ map[entry] \in Region
            /\ map[entry].free
            /\ j \in Lo(map[entry])..Hi(map[entry])
            /\ Lo(map[entry]) \in Int
        BY <1>1, <1>t, <2>1, LoopBounds DEF InitPage, Visited, TypeOK, Page
      <3>2. ASSUME NEW p \in FreePages'
            PROVE  \E k \in 1..entry : /\ map[k].free
                                       /\ p \in Lo(map[k])..Hi(map[k])
                                       /\ k = entry => p < j + 1
        <4>1. CASE p = j
          BY <3>1, <4>1
        <4>2. CASE p \in FreePages
          <5>1. PICK k \in 1..entry : /\ map[k].free
                                      /\ p \in Lo(map[k])..Hi(map[k])
                                      /\ k = entry => p < j
            BY <1>t, <3>1, <4>2 DEF Visited
          <5>2. k = entry => p < j + 1
            BY <3>1, <5>1
          <5> QED BY <5>1, <5>2
        <4> QED BY <2>2, <4>1, <4>2
      <3> QED BY <1>t, <3>1, <3>2 DEF Visited
    <2>4. FromMap'
      <3>1. \A p \in FreePages' : \E k \in 1..entry' :
               map'[k].free /\ p \in Lo(map'[k])..Hi(map'[k])
        <4>1. entry' <= Len(map')
          BY <1>1 DEF InitPage
        <4> QED BY <2>3, <4>1 DEF Visited
      <3>2. 1..entry' \subseteq 1..Len(map') /\ held' = {}
        BY <1>1, <1>t, <2>1 DEF InitPage, TypeOK
      <3> QED BY <3>1, <3>2 DEF FromMap
    <2> QED BY <2>2, <2>3, <2>4 DEF IInv
  <1>2. CASE InitEntry
    <2>1. UNCHANGED <<pos, running, stack, backing, table, map, held, stop>>
      BY <1>2 DEF InitEntry
    <2>2. /\ entry' = entry + 1
          /\ entry \in 1..Len(map)
          /\ map[entry] \in Region
          /\ entry < Len(map) => /\ map[entry + 1] \in Region
                                /\ j' = Lo(map[entry + 1])
          /\ j' \in Page
      <3>1. /\ entry' = entry + 1 /\ entry \in 1..Len(map)
            /\ j' = IF entry < Len(map) THEN Lo(map[entry + 1]) ELSE 0
        BY <1>2, <1>t DEF InitEntry, TypeOK
      <3>2. entry < Len(map) => entry + 1 \in 1..Len(map)
        BY <3>1, <1>t
      <3>3. map[entry] \in Region
        BY <3>1, <1>t
      <3>4. entry < Len(map) => map[entry + 1] \in Region
        BY <3>2, <1>t
      <3>5. entry < Len(map) => Lo(map[entry + 1]) \in Page
        BY <3>4, LoopBounds
      <3>6. 0 \in Page
        BY AddrAssumption DEF Page
      <3> QED BY <3>1, <3>3, <3>4, <3>5, <3>6
    <2>3. FreePages' = FreePages /\ StackPtr' = StackPtr /\ StackMax' = StackMax
      BY <2>1 DEF FreePages, StackPtr, StackMax
    <2>4. Core'
      BY <1>t, <2>1, <2>2, <2>3
         DEF Core, TypeOK, OnePlace, StorageFits, Below, Above, Stopped, Low
    <2>5. Visited'
      BY <1>t, <2>1, <2>2, <2>3, LoopBounds DEF Visited, Page
    <2>6. FromMap'
      BY <1>t, <2>1, <2>3, KeepsFromMap
    <2> QED BY <2>4, <2>5, <2>6 DEF IInv
  <1>b. ASSUME entry > Len(map), UNCHANGED mapVars
        PROVE  Visited'
    BY <1>b, <1>t DEF Visited, mapVars, TypeOK
  <1>3. CASE AllocEarly
    <2>1. /\ ~ running /\ pos < AddrPages - 2 /\ pos' = NextPage(pos)
          /\ held' = held \cup {pos}
          /\ UNCHANGED <<running, stack, backing, table, mapVars, stop>>
          /\ entry > Len(map)
      BY <1>3 DEF AllocEarly, Booted
    <2>p. /\ pos \in Page /\ pos' = pos + 1 /\ pos' < AddrPages - 1
          /\ AddrPages \in Nat /\ pos \in Nat
      BY <1>t, <2>1, NoWrap, AddrAssumption DEF TypeOK, Page
    <2>2. /\ FreePages' = {} /\ FreePages = {} /\ table = None
          /\ StackPtr' = StackPtr /\ StackMax' = StackMax
      BY <1>t, <2>1 DEF FreePages, ToSet, StackPtr, StackMax, Core, Below
    <2>3. TypeOK'
      BY <1>t, <2>1, <2>p DEF TypeOK, mapVars, Page
    <2>4. OnePlace' /\ StorageFits' /\ Stopped'
      BY <1>t, <2>1, <2>2, <2>p DEF Core, OnePlace, StorageFits, Stopped, None, Page
    <2>5. Below' /\ Above'
      BY <1>t, <2>1, <2>p DEF Core, Below, Above, TypeOK, Page
    <2>6. Low' /\ FromMap'
      BY <1>t, <2>1, <2>2, <2>p DEF Core, Low, FromMap, Page
    <2> QED BY <1>b, <2>1, <2>3, <2>4, <2>5, <2>6 DEF IInv, Core
  <1>4. CASE AllocPanic
    <2>1. /\ running /\ StackPtr = 0 /\ stop' = "out_of_memory"
          /\ UNCHANGED <<pos, running, stack, backing, table, mapVars, held>>
          /\ entry > Len(map)
      BY <1>4 DEF AllocPanic, Booted
    <2>2. FreePages' = FreePages /\ StackPtr' = StackPtr /\ StackMax' = StackMax
      BY <2>1 DEF FreePages, StackPtr, StackMax
    <2>3. TypeOK'
      BY <1>t, <2>1 DEF TypeOK, mapVars
    <2>4. OnePlace' /\ StorageFits' /\ Below' /\ Above' /\ Stopped' /\ Low'
      BY <1>t, <2>1, <2>2 DEF Core, OnePlace, StorageFits, Below, Above, Stopped, Low
    <2>5. FromMap'
      BY <1>t, <2>1, <2>2, KeepsFromMap DEF mapVars
    <2> QED BY <1>b, <2>1, <2>3, <2>4, <2>5 DEF IInv, Core
  <1>5. CASE AllocBacking
    <2>1. /\ running /\ StackPtr # 0 /\ StackPtr < StackMax - Entries
          /\ held' = held \cup {Last(backing)}
          /\ backing' = Front(backing)
          /\ UNCHANGED <<pos, running, stack, table, mapVars, stop>>
          /\ entry > Len(map) /\ stop = "no"
      BY <1>5 DEF AllocBacking, Booted, Spare
    <2>2. backing \in Seq(Page) /\ Len(backing) > 0
      <3>1. backing \in Seq(Page) /\ Len(backing) \in Nat
        BY <1>t DEF TypeOK
      <3>2. Len(backing) = 0 => StackMax = 0
        BY EntriesAssumption DEF StackMax
      <3> QED BY <1>t, <2>1, <3>1, <3>2, EntriesAssumption
    <2>3. /\ Front(backing) \in Seq(Page)
          /\ Last(backing) \in Page
          /\ Last(backing) \in ToSet(backing)
          /\ Len(Front(backing)) = Len(backing) - 1
          /\ IsInjective(Front(backing))
          /\ ToSet(Front(backing)) = ToSet(backing) \ {Last(backing)}
      BY <1>t, <2>2, Pop DEF Core, OnePlace
    <2>4. TypeOK' /\ Stopped'
      BY <1>t, <2>1, <2>3 DEF TypeOK, mapVars, Core, Stopped, StackPtr
    <2>5. FreePages' = FreePages \ {Last(backing)} /\ Last(backing) \in FreePages
      BY <1>t, <2>1, <2>3 DEF FreePages, Core, OnePlace
    <2>6. OnePlace' /\ Below' /\ Above'
      BY <1>t, <2>1, <2>3, <2>5 DEF Core, OnePlace, Below, Above
    <2>8. Low' /\ FromMap'
      <3>1. held' \cup FreePages' \subseteq held \cup FreePages
        BY <2>1, <2>5
      <3>2. FromMap'
        BY <1>t, <2>1, <3>1, KeepsFromMap DEF mapVars
      <3> QED BY <1>t, <2>1, <3>1, <3>2 DEF Core, Low
    <2>7. StorageFits'
      <3>1. /\ StackMax = StackMax' + Entries /\ StackMax' \in Nat
            /\ StackPtr' = StackPtr
        <4>1. Len(backing') \in Nat /\ Len(backing) = Len(backing') + 1
          BY <2>1, <2>2, <2>3
        <4> QED BY <2>1, <4>1, Multiples DEF StackMax, StackPtr
      <3>2. /\ StackMax - Entries <= StackPtr + 1 /\ StackPtr < StackMax - Entries
            /\ StackPtr \in Nat /\ Entries \in Nat
        BY <1>t, <2>1, EntriesAssumption DEF Core, StorageFits
      <3>3. ASSUME NEW p \in Nat, NEW m \in Nat, NEW e \in Nat,
                   p < (m + e) - e, (m + e) - e <= p + 1
            PROVE  p <= m /\ m - e <= p + 1
        BY <3>3
      <3>4. StackPtr <= StackMax' /\ StackMax' - Entries <= StackPtr + 1
        BY <3>1, <3>2, <3>3
      <3> QED BY <3>1, <3>4 DEF StorageFits
    <2> QED BY <1>b, <2>1, <2>4, <2>6, <2>7, <2>8 DEF IInv, Core
  <1>6. CASE AllocTop
    <2>1. /\ running /\ StackPtr # 0 /\ ~ (StackPtr < StackMax - Entries)
          /\ held' = held \cup {Last(stack)}
          /\ stack' = Front(stack)
          /\ UNCHANGED <<pos, running, backing, table, mapVars, stop>>
          /\ entry > Len(map) /\ stop = "no"
      BY <1>6 DEF AllocTop, Booted, Spare
    <2>2. stack \in Seq(Page) /\ Len(stack) > 0
      BY <1>t, <2>1 DEF TypeOK, StackPtr
    <2>3. /\ Front(stack) \in Seq(Page)
          /\ Last(stack) \in Page
          /\ Last(stack) \in ToSet(stack)
          /\ Len(Front(stack)) = Len(stack) - 1
          /\ IsInjective(Front(stack))
          /\ ToSet(Front(stack)) = ToSet(stack) \ {Last(stack)}
      BY <1>t, <2>2, Pop DEF Core, OnePlace
    <2>4. TypeOK' /\ Stopped'
      BY <1>t, <2>1, <2>3 DEF TypeOK, mapVars, Core, Stopped
    <2>5. FreePages' = FreePages \ {Last(stack)} /\ Last(stack) \in FreePages
      BY <1>t, <2>1, <2>3 DEF FreePages, Core, OnePlace
    <2>6. OnePlace' /\ Below' /\ Above'
      BY <1>t, <2>1, <2>3, <2>5 DEF Core, OnePlace, Below, Above
    <2>8. Low' /\ FromMap'
      <3>1. held' \cup FreePages' \subseteq held \cup FreePages
        BY <2>1, <2>5
      <3>2. FromMap'
        BY <1>t, <2>1, <3>1, KeepsFromMap DEF mapVars
      <3> QED BY <1>t, <2>1, <3>1, <3>2 DEF Core, Low
    <2>7. StorageFits'
      <3>1. StackMax' = StackMax /\ StackPtr' = StackPtr - 1
        BY <2>1, <2>3 DEF StackMax, StackPtr
      <3> QED BY <1>t, <2>1, <3>1, EntriesAssumption DEF Core, StorageFits
    <2> QED BY <1>b, <2>1, <2>4, <2>6, <2>7, <2>8 DEF IInv, Core
  <1>7. CASE \E page \in held : Free(page)
    <2>1. PICK page \in held : Free(page)
      BY <1>7
    <2>2. /\ pmm_free_page(page) /\ held' = held \ {page} /\ UNCHANGED mapVars
          /\ stop = "no" /\ entry > Len(map)
      BY <2>1 DEF Free, Booted
    <2>3. /\ page \in Page /\ page \notin FreePages
          /\ map' \in Maps /\ entry' \in Nat \ {0} /\ j' \in Page
      BY <1>t, <2>1, <2>2 DEF Core, TypeOK, OnePlace, mapVars
    <2>4. Core' /\ FreePages' \in {FreePages, FreePages \cup {page}}
      <3>1. page < AddrPages - 1
        BY <1>t, <2>1 DEF Core, Low
      <3> QED BY <1>t, <2>1, <2>2, <2>3, <3>1, FreePageCore
    <2>5. FromMap'
      <3>1. running' = running
        <4>1. pos \in Nat /\ pos < AddrPages - 1 /\ NextPage(pos) = pos + 1
          BY <1>t, NoWrap DEF TypeOK, Page, Core, Low
        <4>2. ~ running => page < NextPage(pos)
          BY <1>t, <2>1, <2>3, <4>1 DEF Core, Below, Page
        <4> QED BY <1>t, <2>2, <4>2 DEF pmm_free_page, TypeOK
      <3> QED BY <1>t, <2>1, <2>2, <2>4, <3>1, KeepsFromMap DEF mapVars
    <2> QED BY <1>b, <2>2, <2>4, <2>5 DEF IInv
  <1>8. CASE UNCHANGED vars
    <2> QED BY <1>8, <1>t DEF vars, mapVars, IInv, Core, TypeOK, OnePlace, StorageFits,
               Below, Above, Stopped, Low, Visited, FromMap, FreePages,
               StackPtr, StackMax
  <1> QED BY <1>1, <1>2, <1>3, <1>4, <1>5, <1>6, <1>7, <1>8 DEF Next

\* The invariant holds always.
LEMMA Invariance ==
    ASSUME AllTopReserved
    PROVE  Spec => []IInv
  <1>1. IInv /\ [Next]_vars => IInv'
    BY NextIInv
  <1> QED BY <1>1, InitIInv, PTL DEF Spec

-----------------------------------------------------------------------------
\* The type invariant, for every memory map and every size of the storage.
THEOREM TypeCorrect ==
    ASSUME AllTopReserved
    PROVE  Spec => []TypeOK
  <1>1. IInv => TypeOK
    BY DEF IInv, Core
  <1> QED BY <1>1, Invariance, PTL

\* pmm_alloc_page never hands out a page twice, and neither a page that is
\* storage of the stack nor the page table of the stack is ever in use.
THEOREM PagesHaveOnePlace ==
    ASSUME AllTopReserved
    PROVE  Spec => []OnePlace
  <1>1. IInv => OnePlace
    BY DEF IInv, Core
  <1> QED BY <1>1, Invariance, PTL

\* The stack stays within its mapped storage, and keeps at most one page of
\* storage and one entry more than it needs.
THEOREM StackFitsStorage ==
    ASSUME AllTopReserved
    PROVE  Spec => []StorageFits
  <1>1. IInv => StorageFits
    BY DEF IInv, Core
  <1> QED BY <1>1, Invariance, PTL

\* The panic for lack of memory comes with at most one page left over, and
\* the nested allocation in pmm_free_page never meets the lock.
THEOREM PanicIsHonest ==
    ASSUME AllTopReserved
    PROVE  Spec => []PanicsOnlyWhenEmpty
  <1>1. ASSUME IInv PROVE PanicsOnlyWhenEmpty
    <2>1. Len(stack) \in Nat /\ Len(backing) \in Nat
      BY <1>1 DEF IInv, Core, TypeOK
    <2>2. ASSUME stop = "out_of_memory" PROVE Len(backing) <= 1 /\ Len(stack) = 0
      <3>1. Len(stack) = 0 /\ Entries * Len(backing) - Entries <= 1
        BY <1>1, <2>1, <2>2 DEF IInv, Core, Stopped, StorageFits, StackPtr, StackMax
      <3> QED BY <2>1, <3>1, Multiples, EntriesAssumption
    <2> QED BY <1>1, <2>1, <2>2 DEF PanicsOnlyWhenEmpty, IInv, Core, Stopped
  <1> QED BY <1>1, Invariance, PTL

\* Each page that the running manager has or has handed out is one that
\* pmm_init met in a free region of the memory map: the 32 bit loop counter
\* never leaves the region that it is in.
THEOREM PagesAreFromMap ==
    ASSUME AllTopReserved
    PROVE  Spec => []FromMap
  <1>1. IInv => FromMap
    BY DEF IInv
  <1> QED BY <1>1, Invariance, PTL

-----------------------------------------------------------------------------
\* Taking the last page off one of two disjoint sequences of pages takes it
\* out of their union, and it was in nobody's hands.
LEMMA TakeLast ==
    ASSUME NEW s \in Seq(Page), NEW R, NEW H, Len(s) > 0, IsInjective(s),
           ToSet(s) \cap R = {}, H \cap (ToSet(s) \cup R) = {}
    PROVE  /\ Last(s) \in Page
           /\ Last(s) \notin H
           /\ ToSet(Front(s)) \cup R = (ToSet(s) \cup R) \ {Last(s)}
  BY Pop

\* Every step is a step of the abstract allocator, or none.
LEMMA StepRefines ==
    ASSUME AllTopReserved, IInv, [Next]_vars
    PROVE  [Allocator!ANext]_(Allocator!avars)
  <1> SUFFICES Allocator!ANext \/ UNCHANGED Allocator!avars
    OBVIOUS
  <1>t. TypeOK /\ Core /\ OnePlace /\ Low
    BY DEF IInv, Core
  <1>1. CASE InitPage
    <2>1. /\ j \in Page /\ j \notin FreePages /\ held = {}
          /\ j < AddrPages - 1
          /\ j' = j + 1 /\ j' \in Page
      BY <1>1, InitPageFresh
    <2>2. FreePages' \in {FreePages, FreePages \cup {j}} /\ held' = held
      <3>1. /\ pmm_free_page(j)
            /\ held' = held \ {j} /\ held' = held
            /\ map' \in Maps /\ entry' \in Nat \ {0} /\ j' \in Page
            /\ stop = "no"
        BY <1>1, <1>t, <2>1 DEF InitPage, TypeOK
      <3> QED BY <1>t, <2>1, <3>1, FreePageCore
    <2>3. Allocator!Add(j) \/ UNCHANGED Allocator!avars
      BY <2>1, <2>2 DEF Allocator!Add, Allocator!avars
    <2> QED BY <2>1, <2>3 DEF Allocator!ANext
  <1>2. CASE InitEntry \/ AllocPanic \/ UNCHANGED vars
    BY <1>2 DEF InitEntry, AllocPanic, vars, Allocator!avars, FreePages
  <1>3. CASE AllocEarly
    <2>1. /\ FreePages = {} /\ FreePages' = {}
          /\ pos \in Page /\ pos \notin held /\ held' = held \cup {pos}
      BY <1>3, <1>t DEF AllocEarly, Core, TypeOK, Below, FreePages, ToSet, Page
    <2>2. Allocator!Take(pos)
      BY <2>1 DEF Allocator!Take
    <2> QED BY <2>1, <2>2 DEF Allocator!ANext
  <1>4. CASE AllocBacking
    <2>1. backing \in Seq(Page) /\ Len(backing) > 0
      <3>1. /\ backing \in Seq(Page) /\ Len(backing) \in Nat
            /\ Len(stack) \in Nat /\ Entries \in Nat
            /\ Len(stack) < Entries * Len(backing) - Entries
        BY <1>4, <1>t, EntriesAssumption DEF AllocBacking, Spare, TypeOK, StackPtr, StackMax
      <3> QED BY <3>1
    <2>2. /\ Last(backing) \in Page /\ Last(backing) \notin held
          /\ FreePages' = FreePages \ {Last(backing)}
          /\ held' = held \cup {Last(backing)}
      BY <1>4, <1>t, <2>1, TakeLast DEF AllocBacking, OnePlace, FreePages
    <2>3. Allocator!Take(Last(backing))
      BY <2>2 DEF Allocator!Take
    <2> QED BY <2>2, <2>3 DEF Allocator!ANext
  <1>5. CASE AllocTop
    <2>1. stack \in Seq(Page) /\ Len(stack) > 0
      BY <1>5, <1>t DEF AllocTop, TypeOK, StackPtr
    <2>2. /\ Last(stack) \in Page /\ Last(stack) \notin held
          /\ FreePages' = FreePages \ {Last(stack)}
          /\ held' = held \cup {Last(stack)}
      BY <1>5, <1>t, <2>1, TakeLast DEF AllocTop, OnePlace, FreePages
    <2>3. Allocator!Take(Last(stack))
      BY <2>2 DEF Allocator!Take
    <2> QED BY <2>2, <2>3 DEF Allocator!ANext
  <1>6. CASE \E page \in held : Free(page)
    <2>1. PICK page \in held : Free(page)
      BY <1>6
    <2>2. /\ pmm_free_page(page) /\ held' = held \ {page}
          /\ map' \in Maps /\ entry' \in Nat \ {0} /\ j' \in Page
          /\ stop = "no" /\ page \in Page /\ page \notin FreePages
          /\ page < AddrPages - 1
      BY <1>t, <2>1 DEF Free, Booted, TypeOK, OnePlace, Low, mapVars
    <2>3. FreePages' \in {FreePages, FreePages \cup {page}}
      BY <1>t, <2>1, <2>2, FreePageCore
    <2>4. Allocator!Return(page)
      BY <2>1, <2>2, <2>3 DEF Allocator!Return
    <2> QED BY <2>2, <2>4 DEF Allocator!ANext
  <1> QED BY <1>1, <1>2, <1>3, <1>4, <1>5, <1>6 DEF Next

\* The page stack that lives in the pages it manages is a page allocator.
THEOREM StackIsAllocator ==
    ASSUME AllTopReserved
    PROVE  Spec => ImplementsAllocator
  <1>1. Init => Allocator!AInit
    BY DEF Init, Allocator!AInit, FreePages, ToSet
  <1>2. IInv /\ [Next]_vars => [Allocator!ANext]_(Allocator!avars)
    BY StepRefines
  <1> QED BY <1>1, <1>2, Invariance, PTL
          DEF Spec, ImplementsAllocator, Allocator!ASpec

=============================================================================
