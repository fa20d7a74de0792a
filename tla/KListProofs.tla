---------------------------- MODULE KListProofs ----------------------------
(***************************************************************************)
(* The lists of KList stay closed rings in both directions, for any number *)
(* of list heads and threads.                                              *)
(***************************************************************************)
EXTENDS KList, SchedulerProofs, TLAPS

\* The two invariants as predicates on a pair of pointer functions.
Pointers == [next : [Node -> Node], prev : [Node -> Node]]
Rings(m) == \A n \in Node : m.prev[m.next[n]] = n /\ m.next[m.prev[n]] = n

\* The pointers of a node lead to nodes.
LEMMA PointerTypes ==
  ASSUME NEW m \in Pointers, NEW x \in Node
  PROVE  m.next[x] \in Node /\ m.prev[x] \in Node
BY DEF Pointers

\* remove_from_list leaves rings, and the node alone on its own one.
LEMMA RemoveRings ==
  ASSUME NEW m \in Pointers, Rings(m), NEW t \in Node
  PROVE  LET r == remove_from_list(m, t)
         IN  /\ r \in Pointers /\ Rings(r)
             /\ \A x \in Node : r.next[x] = IF x = t THEN t
                                        ELSE IF x = m.prev[t] THEN m.next[t]
                                        ELSE m.next[x]
<1> DEFINE m1 == SetNext(m, m.prev[t], m.next[t])
           m2 == SetPrev(m1, m1.next[t], m1.prev[t])
           m3 == SetNext(m2, t, t)
           r  == SetPrev(m3, t, t)
<1>0. remove_from_list(m, t) = r
  BY DEF remove_from_list
<1>1. /\ m1 \in Pointers /\ m1.prev = m.prev
      /\ \A x \in Node : m1.next[x] = IF x = m.prev[t] THEN m.next[t] ELSE m.next[x]
  <2>1. m.prev[t] \in Node /\ m.next[t] \in Node
    BY PointerTypes
  <2> QED BY <2>1 DEF Pointers, SetNext, Mem
<1>2. /\ m2 \in Pointers /\ m2.next = m1.next
      /\ \A x \in Node : m2.prev[x] = IF x = m1.next[t] THEN m1.prev[t] ELSE m1.prev[x]
  <2> HIDE DEF m1
  <2>1. m1 \in Pointers /\ m1.prev[t] \in Node /\ m1.next[t] \in Node
    BY <1>1, PointerTypes
  <2> QED BY <2>1 DEF Pointers, SetPrev, Mem
<1>3. /\ m3 \in Pointers /\ m3.prev = m2.prev
      /\ \A x \in Node : m3.next[x] = IF x = t THEN t ELSE m2.next[x]
  <2> HIDE DEF m2
  <2> QED BY <1>2 DEF Pointers, SetNext, Mem
<1>4. /\ r \in Pointers /\ r.next = m3.next
      /\ \A x \in Node : r.prev[x] = IF x = t THEN t ELSE m3.prev[x]
  <2> HIDE DEF m3
  <2> QED BY <1>3 DEF Pointers, SetPrev, Mem
<1> HIDE DEF m1, m2, m3, r
<1>5. \A x \in Node : /\ m.next[x] \in Node /\ m.prev[x] \in Node
                      /\ m.prev[m.next[x]] = x /\ m.next[m.prev[x]] = x
  BY PointerTypes DEF Rings
<1>6. Rings(r)
  BY <1>1, <1>2, <1>3, <1>4, <1>5 DEF Rings
<1>7. \A x \in Node : r.next[x] = IF x = t THEN t
                                 ELSE IF x = m.prev[t] THEN m.next[t] ELSE m.next[x]
  BY <1>1, <1>2, <1>3, <1>4
<1> QED
  BY <1>0, <1>4, <1>6, <1>7

\* append_to_list of a node that is alone leaves rings.
LEMMA AppendRings ==
  ASSUME NEW m \in Pointers, Rings(m), NEW t \in Node, NEW h \in Node,
         m.next[t] = t, t # h
  PROVE  LET r == append_to_list(m, h, t)
         IN  /\ r \in Pointers /\ Rings(r)
             /\ \A x \in Node : r.next[x] = IF x = t THEN h
                                        ELSE IF x = m.prev[h] THEN t
                                        ELSE m.next[x]
<1> DEFINE m1 == SetPrev(m, t, m.prev[h])
           m2 == SetNext(m1, t, h)
           m3 == SetNext(m2, m2.prev[t], t)
           r  == SetPrev(m3, m3.next[t], t)
<1>0. append_to_list(m, h, t) = r
  BY DEF append_to_list
<1>1. /\ m1 \in Pointers /\ m1.next = m.next
      /\ \A x \in Node : m1.prev[x] = IF x = t THEN m.prev[h] ELSE m.prev[x]
  <2>1. m.prev[h] \in Node
    BY PointerTypes
  <2> QED BY <2>1 DEF Pointers, SetPrev, Mem
<1>2. /\ m2 \in Pointers /\ m2.prev = m1.prev
      /\ \A x \in Node : m2.next[x] = IF x = t THEN h ELSE m1.next[x]
  <2> HIDE DEF m1
  <2> QED BY <1>1 DEF Pointers, SetNext, Mem
<1>3. /\ m3 \in Pointers /\ m3.prev = m2.prev
      /\ \A x \in Node : m3.next[x] = IF x = m2.prev[t] THEN t ELSE m2.next[x]
  <2> HIDE DEF m2
  <2>1. m2 \in Pointers /\ m2.prev[t] \in Node
    BY <1>2, PointerTypes
  <2> QED BY <2>1 DEF Pointers, SetNext, Mem
<1>4. /\ r \in Pointers /\ r.next = m3.next
      /\ \A x \in Node : r.prev[x] = IF x = m3.next[t] THEN t ELSE m3.prev[x]
  <2> HIDE DEF m3
  <2>1. m3 \in Pointers /\ m3.next[t] \in Node
    BY <1>3, PointerTypes
  <2> QED BY <2>1 DEF Pointers, SetPrev, Mem
<1> HIDE DEF m1, m2, m3, r
<1>5. \A x \in Node : /\ m.next[x] \in Node /\ m.prev[x] \in Node
                      /\ m.prev[m.next[x]] = x /\ m.next[m.prev[x]] = x
  BY PointerTypes DEF Rings
<1>6. Rings(r)
  BY <1>1, <1>2, <1>3, <1>4, <1>5 DEF Rings
<1>7. \A x \in Node : r.next[x] = IF x = t THEN h
                                 ELSE IF x = m.prev[h] THEN t ELSE m.next[x]
  <2>1. m.prev[t] = t /\ m.prev[h] # t
    BY <1>5
  <2> QED BY <1>1, <1>2, <1>3, <1>4, <2>1
<1> QED
  BY <1>0, <1>4, <1>6, <1>7

\* So does the insertion at the front.
LEMMA FirstRings ==
  ASSUME NEW m \in Pointers, Rings(m), NEW t \in Node, NEW h \in Node,
         m.next[t] = t, t # h
  PROVE  LET r == insert_first(m, h, t)
         IN  /\ r \in Pointers /\ Rings(r)
             /\ \A x \in Node : r.next[x] = IF x = h THEN t
                                        ELSE IF x = t THEN m.next[h]
                                        ELSE m.next[x]
<1> DEFINE m1 == SetNext(m, t, m.next[h])
           m2 == SetPrev(m1, m1.next[h], t)
           m3 == SetPrev(m2, t, h)
           r  == SetNext(m3, h, t)
<1>0. insert_first(m, h, t) = r
  BY DEF insert_first
<1>1. /\ m1 \in Pointers /\ m1.prev = m.prev
      /\ \A x \in Node : m1.next[x] = IF x = t THEN m.next[h] ELSE m.next[x]
  <2>1. m.next[h] \in Node
    BY PointerTypes
  <2> QED BY <2>1 DEF Pointers, SetNext, Mem
<1>2. /\ m2 \in Pointers /\ m2.next = m1.next
      /\ \A x \in Node : m2.prev[x] = IF x = m1.next[h] THEN t ELSE m1.prev[x]
  <2> HIDE DEF m1
  <2>1. m1 \in Pointers /\ m1.next[h] \in Node
    BY <1>1, PointerTypes
  <2> QED BY <2>1 DEF Pointers, SetPrev, Mem
<1>3. /\ m3 \in Pointers /\ m3.next = m2.next
      /\ \A x \in Node : m3.prev[x] = IF x = t THEN h ELSE m2.prev[x]
  <2> HIDE DEF m2
  <2> QED BY <1>2 DEF Pointers, SetPrev, Mem
<1>4. /\ r \in Pointers /\ r.prev = m3.prev
      /\ \A x \in Node : r.next[x] = IF x = h THEN t ELSE m3.next[x]
  <2> HIDE DEF m3
  <2> QED BY <1>3 DEF Pointers, SetNext, Mem
<1> HIDE DEF m1, m2, m3, r
<1>5. \A x \in Node : /\ m.next[x] \in Node /\ m.prev[x] \in Node
                      /\ m.prev[m.next[x]] = x /\ m.next[m.prev[x]] = x
  BY PointerTypes DEF Rings
<1>6. Rings(r)
  BY <1>1, <1>2, <1>3, <1>4, <1>5 DEF Rings
<1>7. \A x \in Node : r.next[x] = IF x = h THEN t
                                 ELSE IF x = t THEN m.next[h] ELSE m.next[x]
  BY <1>1, <1>2, <1>3, <1>4
<1> QED
  BY <1>0, <1>4, <1>6, <1>7

-----------------------------------------------------------------------------
(***************************************************************************)
(* Which list a node is on.  own maps a node on the ring of a head to that *)
(* head and any other node, which is alone, to itself; rank counts down    *)
(* along the next pointers, so that every walk ends at the head.           *)
(***************************************************************************)
Owned(m, own, rank) ==
    /\ own \in [Node -> Node]
    /\ rank \in [Node -> Nat]
    /\ \A h \in Heads : own[h] = h /\ own[m.next[h]] = h
    /\ \A t \in Items :
          \/ own[t] = t /\ m.next[t] = t
          \/ /\ own[t] \in Heads
             /\ own[m.next[t]] = own[t]
             /\ m.next[t] \in Items => rank[m.next[t]] < rank[t]

\* A node that is on no list afterwards, the others where they were.
LEMMA RemoveOwned ==
  ASSUME NEW m \in Pointers, Rings(m), NEW t \in Items,
         NEW own, NEW rank, Owned(m, own, rank)
  PROVE  Owned(remove_from_list(m, t), [own EXCEPT ![t] = t], rank)
<1> DEFINE r == remove_from_list(m, t)
<1>1. t \in Node /\ t \notin Heads
  BY NodesAssumption DEF Node
<1>2. \A x \in Node : r.next[x] = IF x = t THEN t
                                 ELSE IF x = m.prev[t] THEN m.next[t] ELSE m.next[x]
  BY <1>1, RemoveRings
<1>3. \A x \in Node : /\ m.next[x] \in Node /\ m.prev[x] \in Node
                      /\ m.prev[m.next[x]] = x /\ m.next[m.prev[x]] = x
  BY PointerTypes DEF Rings
<1> HIDE DEF r
<1>4. ASSUME NEW h \in Heads PROVE [own EXCEPT ![t] = t][r.next[h]] = h
  BY <1>1, <1>2, <1>3, NodesAssumption DEF Owned, Node
<1>5. ASSUME NEW u \in Items, u # t
      PROVE  \/ own[u] = u /\ r.next[u] = u
             \/ /\ own[u] \in Heads
                /\ [own EXCEPT ![t] = t][r.next[u]] = own[u]
                /\ r.next[u] \in Items => rank[r.next[u]] < rank[u]
  <2>1. u \in Node
    BY DEF Node
  <2>2. CASE u # m.prev[t]
    <3>1. r.next[u] = m.next[u] /\ m.next[u] # t
      BY <1>1, <1>2, <1>3, <1>5, <2>1, <2>2
    <3> QED BY <1>1, <1>3, <2>1, <3>1 DEF Owned
  <2>3. CASE u = m.prev[t]
    <3>1. r.next[u] = m.next[t] /\ m.next[u] = t /\ m.next[t] # t
      BY <1>1, <1>2, <1>3, <1>5, <2>1, <2>3
    <3>2. own[u] = own[t] /\ own[t] \in Heads /\ rank[t] < rank[u] /\ own[m.next[t]] = own[t]
      BY <1>1, <1>5, <3>1 DEF Owned
    <3>3. m.next[t] \in Items => rank[m.next[t]] < rank[u]
      <4>1. m.next[t] \in Items => rank[m.next[t]] < rank[t]
        BY <3>1 DEF Owned
      <4>2. rank[t] \in Nat /\ rank[u] \in Nat /\ rank[m.next[t]] \in Nat
        BY <1>1, <1>3, <2>1 DEF Owned
      <4> QED BY <3>2, <4>1, <4>2
    <3> QED BY <1>1, <1>3, <3>1, <3>2, <3>3 DEF Owned
  <2> QED BY <2>2, <2>3
<1>6. r.next[t] = t
  BY <1>1, <1>2
<1>7. Owned(r, [own EXCEPT ![t] = t], rank)
  BY <1>1, <1>4, <1>5, <1>6, NodesAssumption DEF Owned, Node
<1> QED BY <1>7 DEF r

\* A node that was alone is on the list afterwards.
LEMMA AppendOwned ==
  ASSUME NEW m \in Pointers, Rings(m), NEW t \in Items, NEW h \in Heads,
         NEW own, NEW rank, Owned(m, own, rank), own[t] = t
  PROVE  Owned(append_to_list(m, h, t), [own EXCEPT ![t] = h],
               [n \in Node |-> IF n = t THEN 0 ELSE rank[n] + 1])
<1> DEFINE r == append_to_list(m, h, t)
           o == [own EXCEPT ![t] = h]
           k == [n \in Node |-> IF n = t THEN 0 ELSE rank[n] + 1]
<1>1. t \in Node /\ h \in Node /\ t # h /\ t \notin Heads /\ m.next[t] = t
  BY NodesAssumption DEF Node, Owned
<1>2. \A x \in Node : r.next[x] = IF x = t THEN h
                                 ELSE IF x = m.prev[h] THEN t ELSE m.next[x]
  BY <1>1, AppendRings
<1>3. \A x \in Node : /\ m.next[x] \in Node /\ m.prev[x] \in Node
                      /\ m.prev[m.next[x]] = x /\ m.next[m.prev[x]] = x
  BY PointerTypes DEF Rings
<1> HIDE DEF r
<1>4. ASSUME NEW g \in Heads PROVE o[g] = g /\ o[r.next[g]] = g
  <2>1. g \in Node /\ g # t /\ own \in [Node -> Node] /\ own[g] = g /\ own[m.next[g]] = g
    BY <1>1 DEF Owned, Node
  <2>2. CASE g = m.prev[h]
    <3>1. m.next[g] = h /\ own[h] = h
      BY <1>1, <1>3, <2>2 DEF Owned
    <3> QED BY <1>1, <1>2, <2>1, <2>2, <3>1
  <2>3. CASE g # m.prev[h]
    <3>1. r.next[g] = m.next[g] /\ m.next[g] # t
      BY <1>1, <1>2, <1>3, <2>1, <2>3
    <3> QED BY <1>1, <1>3, <2>1, <3>1
  <2> QED BY <2>2, <2>3
<1>5. ASSUME NEW u \in Items, u # t
      PROVE  \/ o[u] = u /\ r.next[u] = u
             \/ /\ o[u] \in Heads
                /\ o[r.next[u]] = o[u]
                /\ r.next[u] \in Items => k[r.next[u]] < k[u]
  <2>1. /\ u \in Node /\ own \in [Node -> Node] /\ rank \in [Node -> Nat]
        /\ o[u] = own[u] /\ k[u] = rank[u] + 1
    BY <1>1, <1>5 DEF Node, Owned
  <2>2. CASE u = m.prev[h]
    <3>1. m.next[u] = h /\ r.next[u] = t /\ own[h] = h /\ u # h
      BY <1>1, <1>2, <1>3, <1>5, <2>1, <2>2, NodesAssumption DEF Owned
    <3>2. own[u] = h
      BY <2>1, <3>1 DEF Owned
    <3>3. o[t] = h /\ k[t] = 0
      BY <1>1, <2>1
    <3> QED BY <2>1, <3>1, <3>2, <3>3
  <2>3. CASE u # m.prev[h]
    <3>1. r.next[u] = m.next[u] /\ m.next[u] # t /\ m.next[u] \in Node
      BY <1>1, <1>2, <1>3, <1>5, <2>1, <2>3
    <3>2. o[m.next[u]] = own[m.next[u]] /\ k[m.next[u]] = rank[m.next[u]] + 1
      BY <1>1, <2>1, <3>1
    <3>3. rank[m.next[u]] \in Nat /\ rank[u] \in Nat
      BY <2>1, <3>1
    <3> HIDE DEF o, k
    <3> QED BY <2>1, <3>1, <3>2, <3>3 DEF Owned
  <2> QED BY <2>2, <2>3
<1>6. r.next[t] = h /\ h \notin Items /\ o[t] = h /\ o[h] = h
  BY <1>1, <1>2, NodesAssumption DEF Owned
<1>7. o \in [Node -> Node] /\ k \in [Node -> Nat]
  BY <1>1 DEF Owned
<1> HIDE DEF o, k
<1>8. Owned(r, o, k)
  BY <1>4, <1>5, <1>6, <1>7 DEF Owned
<1> QED BY <1>8 DEF r, o, k

\* The same for the front of the list.
LEMMA FirstOwned ==
  ASSUME NEW m \in Pointers, Rings(m), NEW t \in Items, NEW h \in Heads,
         NEW own, NEW rank, Owned(m, own, rank), own[t] = t
  PROVE  Owned(insert_first(m, h, t), [own EXCEPT ![t] = h],
               [rank EXCEPT ![t] = rank[m.next[h]] + 1])
<1> DEFINE r == insert_first(m, h, t)
           o == [own EXCEPT ![t] = h]
           k == [rank EXCEPT ![t] = rank[m.next[h]] + 1]
<1>1. t \in Node /\ h \in Node /\ t # h /\ t \notin Heads /\ m.next[t] = t
  BY NodesAssumption DEF Node, Owned
<1>2. \A x \in Node : r.next[x] = IF x = h THEN t
                                 ELSE IF x = t THEN m.next[h] ELSE m.next[x]
  BY <1>1, FirstRings
<1>3. \A x \in Node : /\ m.next[x] \in Node /\ m.prev[x] \in Node
                      /\ m.prev[m.next[x]] = x /\ m.next[m.prev[x]] = x
  BY PointerTypes DEF Rings
<1>0. own \in [Node -> Node] /\ rank \in [Node -> Nat]
  BY DEF Owned
<1>10. \A x \in Node : x # t => m.next[x] # t
  BY <1>1, <1>3
<1> HIDE DEF r
<1>4. ASSUME NEW g \in Heads PROVE o[g] = g /\ o[r.next[g]] = g
  <2>1. g \in Node /\ g # t /\ own[g] = g /\ own[m.next[g]] = g /\ m.next[g] \in Node
    BY <1>1, <1>3 DEF Owned, Node
  <2> QED BY <1>0, <1>1, <1>2, <1>10, <2>1
<1>5. ASSUME NEW u \in Items, u # t
      PROVE  \/ o[u] = u /\ r.next[u] = u
             \/ /\ o[u] \in Heads
                /\ o[r.next[u]] = o[u]
                /\ r.next[u] \in Items => k[r.next[u]] < k[u]
  <2>1. /\ u \in Node /\ u # h /\ o[u] = own[u] /\ k[u] = rank[u]
    BY <1>0, <1>1, <1>5, NodesAssumption DEF Node
  <2>2. r.next[u] = m.next[u] /\ m.next[u] # t /\ m.next[u] \in Node
    BY <1>1, <1>2, <1>3, <1>5, <1>10, <2>1
  <2>3. o[m.next[u]] = own[m.next[u]] /\ k[m.next[u]] = rank[m.next[u]]
    BY <1>0, <1>1, <2>2
  <2> HIDE DEF o, k
  <2> QED BY <2>1, <2>2, <2>3 DEF Owned
<1>6. /\ r.next[t] = m.next[h] /\ o[t] = h /\ o[m.next[h]] = h
      /\ k[m.next[h]] < k[t]
  <2>1. m.next[h] \in Node /\ m.next[h] # t /\ own[m.next[h]] = h
    BY <1>1, <1>3, <1>10 DEF Owned
  <2>2. rank[m.next[h]] \in Nat /\ k[t] = rank[m.next[h]] + 1 /\ k[m.next[h]] = rank[m.next[h]]
    BY <1>0, <1>1, <2>1
  <2> QED BY <1>0, <1>1, <1>2, <2>1, <2>2
<1>7. o \in [Node -> Node] /\ k \in [Node -> Nat]
  <2>1. rank[m.next[h]] + 1 \in Nat
    BY <1>0, <1>1, <1>3
  <2> QED BY <1>0, <1>1, <2>1
<1> HIDE DEF o, k
<1>8. Owned(r, o, k)
  BY <1>4, <1>5, <1>6, <1>7 DEF Owned
<1> QED BY <1>8 DEF r, o, k

-----------------------------------------------------------------------------
\* Every thread is alone or on the ring of exactly one head, from which it can
\* be reached, and the loop of scheduler_wake stays on the ring it walks.
ListsApart ==
    \E own \in [Node -> Node], rank \in [Node -> Nat] :
        /\ Owned(Memory, own, rank)
        /\ waking # NotWaking => own[cursor] = waking

\* The inductive invariant.
IInv == TypeOK /\ MutualLinks /\ ListsApart

\* The memory of a state that satisfies the invariant.
LEMMA MemoryRings ==
  ASSUME IInv
  PROVE  Memory \in Pointers /\ Rings(Memory) /\ \A n \in Node : Memory.next[n] = next[n]
BY DEF IInv, TypeOK, MutualLinks, Pointers, Rings, Memory, Mem

\* A step that stores well-formed memory re-establishes the invariant.
LEMMA StoreInv ==
  ASSUME NEW m \in Pointers, Rings(m), Store(m), waking' \in Heads, cursor' \in Node,
         NEW own, NEW rank, Owned(m, own, rank),
         waking' # NotWaking => own[cursor'] = waking'
  PROVE  IInv'
<1>1. TypeOK' /\ MutualLinks'
  BY DEF Pointers, Rings, Store, MutualLinks, TypeOK
<1>2. Memory' = m
  BY DEF Memory, Mem, Store, Pointers
<1>3. own \in [Node -> Node] /\ rank \in [Node -> Nat]
  BY DEF Owned
<1>4. ListsApart'
  BY <1>2, <1>3 DEF ListsApart, NotWaking
<1> QED BY <1>1, <1>4 DEF IInv

\* Initially every node is alone.
LEMMA InitInv == Init => IInv
<1> SUFFICES ASSUME Init PROVE IInv
  OBVIOUS
<1> DEFINE own  == [n \in Node |-> n]
           rank == [n \in Node |-> 0]
<1>1. TypeOK /\ MutualLinks
  BY NodesAssumption DEF Init, TypeOK, MutualLinks, Node, NotWaking
<1>2. Owned(Memory, own, rank)
  BY NodesAssumption DEF Init, Owned, Memory, Mem, Node
<1>3. own \in [Node -> Node] /\ rank \in [Node -> Nat] /\ waking = NotWaking
  BY DEF Init
<1> HIDE DEF own, rank
<1> QED BY <1>1, <1>2, <1>3 DEF IInv, ListsApart

\* Every step keeps the lists closed and apart: only a node that is alone is
\* ever inserted, and the loop of scheduler_wake never meets the run queue.
LEMMA NextInv == IInv /\ [Next]_vars => IInv'
<1> SUFFICES ASSUME IInv, [Next]_vars PROVE IInv'
  OBVIOUS
<1>1. /\ Memory \in Pointers /\ Rings(Memory)
      /\ \A n \in Node : Memory.next[n] = next[n]
  BY MemoryRings
<1>2. PICK own \in [Node -> Node], rank \in [Node -> Nat] :
          /\ Owned(Memory, own, rank)
          /\ waking # NotWaking => own[cursor] = waking
  BY DEF IInv, ListsApart
<1>3. waking \in Heads /\ cursor \in Node /\ RunQueue \in Heads /\ RunQueue \in Node
  BY NodesAssumption DEF IInv, TypeOK, Node
<1>4. \A t \in Items : t \in Node /\ t \notin Heads
  BY NodesAssumption DEF Node
<1>5. ASSUME NEW t \in Items, Detached(t) PROVE own[t] = t /\ Memory.next[t] = t
  <2>1. Memory.next[t] = t
    BY <1>1, <1>4, <1>5 DEF Detached
  <2>2. ~ (t \in Items => rank[t] < rank[t])
    <3>1. rank[t] \in Nat
      BY <1>4
    <3> QED BY <3>1
  <2> QED BY <1>2, <2>1, <2>2 DEF Owned
<1>6. ASSUME NEW t \in Items, Insert(t) PROVE IInv'
  <2>1. own[t] = t /\ Memory.next[t] = t /\ t # RunQueue
    BY <1>3, <1>4, <1>5, <1>6 DEF Insert
  <2> DEFINE m == append_to_list(Memory, RunQueue, t)
  <2>2. m \in Pointers /\ Rings(m)
    BY <1>1, <1>3, <1>4, <2>1, AppendRings
  <2>3. PICK o, k : Owned(m, o, k)
    BY <1>1, <1>2, <1>3, <2>1, AppendOwned
  <2>4. Store(m) /\ waking' = NotWaking /\ UNCHANGED <<waking, cursor>>
    BY <1>6 DEF Insert, Idle
  <2> HIDE DEF m
  <2> QED BY <1>3, <2>2, <2>3, <2>4, StoreInv
<1>7. ASSUME NEW t \in Items, Cheat(t) PROVE IInv'
  <2>1. own[t] = t /\ Memory.next[t] = t /\ t # RunQueue
    BY <1>3, <1>4, <1>5, <1>7 DEF Cheat
  <2> DEFINE m == insert_first(Memory, RunQueue, t)
  <2>2. m \in Pointers /\ Rings(m)
    BY <1>1, <1>3, <1>4, <2>1, FirstRings
  <2>3. PICK o, k : Owned(m, o, k)
    BY <1>1, <1>2, <1>3, <2>1, FirstOwned
  <2>4. Store(m) /\ waking' = NotWaking /\ UNCHANGED <<waking, cursor>>
    BY <1>7 DEF Cheat, Idle
  <2> HIDE DEF m
  <2> QED BY <1>3, <2>2, <2>3, <2>4, StoreInv
<1>8. ASSUME NEW t \in Items, Drop(t) PROVE IInv'
  <2> DEFINE m == remove_from_list(Memory, t)
  <2>2. m \in Pointers /\ Rings(m)
    BY <1>1, <1>4, RemoveRings
  <2>3. PICK o, k : Owned(m, o, k)
    BY <1>1, <1>2, RemoveOwned
  <2>4. Store(m) /\ waking' = NotWaking /\ UNCHANGED <<waking, cursor>>
    BY <1>8 DEF Drop, Idle
  <2> HIDE DEF m
  <2> QED BY <1>3, <2>2, <2>3, <2>4, StoreInv
<1>9. ASSUME NEW t \in Items, NEW h \in Heads \ {RunQueue}, Sleep(t, h) PROVE IInv'
  <2>1. t \in Node /\ h \in Node /\ t # h
    BY <1>4 DEF Node
  <2> DEFINE r == remove_from_list(Memory, t)
             m == append_to_list(r, h, t)
             o1 == [own EXCEPT ![t] = t]
  <2>2. r \in Pointers /\ Rings(r) /\ r.next[t] = t
    BY <1>1, <2>1, RemoveRings
  <2>3. Owned(r, o1, rank) /\ o1[t] = t
    BY <1>1, <1>2, <2>1, RemoveOwned
  <2>4. m \in Pointers /\ Rings(m)
    <3> HIDE DEF r
    <3> QED BY <2>1, <2>2, AppendRings
  <2>5. PICK o, k : Owned(m, o, k)
    <3> HIDE DEF r, o1
    <3> QED BY <2>2, <2>3, AppendOwned
  <2>6. Store(m) /\ waking' = NotWaking /\ UNCHANGED <<waking, cursor>>
    BY <1>9 DEF Sleep, Idle
  <2> HIDE DEF m
  <2> QED BY <1>3, <2>4, <2>5, <2>6, StoreInv
<1>10. ASSUME NEW h \in Heads \ {RunQueue}, WakeStart(h) PROVE IInv'
  <2>1. h \in Node /\ next[h] \in Node /\ Memory.next[h] = next[h]
    BY <1>1 DEF IInv, TypeOK, Node
  <2>2. own[next[h]] = h
    BY <1>2, <2>1 DEF Owned
  <2>3. Store(Memory) /\ waking' = h /\ cursor' = next[h]
    BY <1>10 DEF WakeStart, Store, Memory, Mem
  <2> QED BY <1>1, <1>2, <2>1, <2>2, <2>3, StoreInv
<1>11. CASE WakeStep
  <2>1. /\ waking # NotWaking /\ cursor # waking
        /\ own[cursor] = waking /\ waking \in Heads
        /\ cursor' = next[cursor] /\ waking' = waking
    BY <1>2, <1>3, <1>11 DEF WakeStep
  <2>2. cursor \in Items /\ cursor # RunQueue
    BY <1>2, <1>3, <2>1 DEF Owned, Node, NotWaking
  <2>3. /\ next[cursor] \in Node /\ Memory.next[cursor] = next[cursor]
        /\ own[next[cursor]] = waking /\ next[cursor] # cursor
    <3>1. next[cursor] \in Node /\ Memory.next[cursor] = next[cursor]
      BY <1>1, <1>3 DEF IInv, TypeOK
    <3>2. rank[cursor] \in Nat
      BY <1>3
    <3> QED BY <1>2, <1>4, <2>1, <2>2, <3>1, <3>2 DEF Owned
  <2> DEFINE r == remove_from_list(Memory, cursor)
             m == append_to_list(r, RunQueue, cursor)
             o1 == [own EXCEPT ![cursor] = cursor]
             o == [o1 EXCEPT ![cursor] = RunQueue]
  <2>4. r \in Pointers /\ Rings(r) /\ r.next[cursor] = cursor
    BY <1>1, <1>3, RemoveRings
  <2>5. Owned(r, o1, rank) /\ o1[cursor] = cursor
    BY <1>1, <1>2, <1>3, <2>2, RemoveOwned
  <2>6. m \in Pointers /\ Rings(m)
    <3> HIDE DEF r
    <3> QED BY <1>3, <2>2, <2>4, AppendRings
  <2>7. PICK k : Owned(m, o, k)
    <3> HIDE DEF r, o1
    <3> QED BY <1>3, <2>2, <2>4, <2>5, AppendOwned
  <2>8. o[next[cursor]] = waking
    BY <2>3
  <2>9. Store(m)
    BY <1>11 DEF WakeStep
  <2> HIDE DEF m, o
  <2> QED BY <1>3, <2>1, <2>3, <2>6, <2>7, <2>8, <2>9, StoreInv
<1>12. CASE WakeEnd
  <2>1. Store(Memory) /\ waking' = NotWaking /\ cursor' = NotWaking
    BY <1>12 DEF WakeEnd, Store, Memory, Mem
  <2> QED BY <1>1, <1>2, <1>3, <2>1, StoreInv DEF NotWaking
<1>13. CASE UNCHANGED vars
  <2>1. Store(Memory) /\ waking' = waking /\ cursor' = cursor
    BY <1>13 DEF vars, Store, Memory, Mem
  <2> QED BY <1>1, <1>2, <1>3, <2>1, StoreInv
<1> QED
  BY <1>6, <1>7, <1>8, <1>9, <1>10, <1>11, <1>12, <1>13 DEF Next

\* The pointer lists of the scheduler are closed rings in both directions in
\* every reachable state, however many threads and lists there are.
THEOREM ListsAreRings == Spec => []MutualLinks
<1>1. IInv => MutualLinks
  BY DEF IInv
<1> QED BY InitInv, NextInv, <1>1, PTL DEF Spec

\* Each thread is alone or on the ring of exactly one list head, and the loop
\* of scheduler_wake stays on the list it empties.
THEOREM ListsStayApart == Spec => [](TypeOK /\ ListsApart)
<1>1. IInv => TypeOK /\ ListsApart
  BY DEF IInv
<1> QED BY InitInv, NextInv, <1>1, PTL DEF Spec
-----------------------------------------------------------------------------
(***************************************************************************)
(* KList implements ThreadQueues.  The lists of a state are given by q,    *)
(* which has for each head the threads that are met when walking from it.  *)
(***************************************************************************)

\* Where a walk is.
LEMMA PlaceValue ==
  ASSUME NEW h \in Heads, NEW s \in Seq(Items)
  PROVE  /\ Len(s) \in Nat /\ Place(h, s, 0) = h /\ Place(h, s, Len(s) + 1) = h
         /\ \A i \in 1..Len(s) : Place(h, s, i) = s[i] /\ s[i] \in Items
         /\ \A i \in 0..(Len(s) + 1) : Place(h, s, i) \in Node
<1>1. Len(s) \in Nat /\ DOMAIN s = 1..Len(s)
  OBVIOUS
<1>2. Place(h, s, 0) = h /\ Place(h, s, Len(s) + 1) = h
  BY <1>1 DEF Place
<1>3. \A i \in 1..Len(s) : Place(h, s, i) = s[i] /\ s[i] \in Items
  BY <1>1 DEF Place
<1>4. ASSUME NEW i \in 0..(Len(s) + 1) PROVE Place(h, s, i) \in Node
  <2>1. i = 0 \/ i = Len(s) + 1 \/ i \in 1..Len(s)
    BY <1>1
  <2> QED BY <1>2, <1>3, <2>1 DEF Node
<1> QED BY <1>1, <1>2, <1>3, <1>4

\* Two walks from a head meet the same threads ...
LEMMA FollowsPrefix ==
  ASSUME NEW n, NEW h \in Heads, NEW s \in Seq(Items), NEW u \in Seq(Items),
         Follows(n, h, s), Follows(n, h, u), NEW k \in Nat, k <= Len(s)
  PROVE  k <= Len(u) /\ Place(h, s, k) = Place(h, u, k)
<1> DEFINE U == {i \in Nat : i <= Len(s) => i <= Len(u) /\ Place(h, s, i) = Place(h, u, i)}
<1>1. /\ Len(s) \in Nat /\ Len(u) \in Nat
      /\ Place(h, s, 0) = h /\ Place(h, u, 0) = h
      /\ Place(h, u, Len(u) + 1) = h
      /\ \A i \in 1..Len(s) : Place(h, s, i) \in Items
  BY PlaceValue
<1>2. 0 \in U
  BY <1>1
<1>3. ASSUME NEW i \in Nat, i \in U, i + 1 <= Len(s)
      PROVE  i + 1 <= Len(u) /\ Place(h, s, i + 1) = Place(h, u, i + 1)
  <2>1. i \in 0..Len(s) /\ i \in 0..Len(u) /\ Place(h, s, i) = Place(h, u, i)
    BY <1>1, <1>3
  <2>2. Place(h, s, i + 1) = Place(h, u, i + 1)
    BY <2>1 DEF Follows
  <2>3. Place(h, s, i + 1) \in Items /\ h \notin Items
    BY <1>1, <1>3, NodesAssumption
  <2>4. i # Len(u)
    BY <1>1, <2>2, <2>3
  <2> QED BY <1>1, <2>1, <2>2, <2>4
<1>4. \A i \in Nat : i \in U => i + 1 \in U
  BY <1>3
<1>5. k \in U
  <2> HIDE DEF U
  <2> QED BY <1>2, <1>4, InductSet
<1> QED BY <1>5

\* ... and as many of them.
LEMMA FollowsUnique ==
  ASSUME NEW n, NEW h \in Heads, NEW s \in Seq(Items), NEW u \in Seq(Items),
         Follows(n, h, s), Follows(n, h, u)
  PROVE  s = u
<1>1. /\ Len(s) \in Nat /\ Len(u) \in Nat
      /\ \A i \in 1..Len(s) : Place(h, s, i) = s[i]
      /\ \A i \in 1..Len(u) : Place(h, u, i) = u[i]
  BY PlaceValue
<1>2. Len(s) = Len(u)
  <2>1. Len(s) <= Len(u)
    BY <1>1, FollowsPrefix
  <2>2. Len(u) <= Len(s)
    BY <1>1, FollowsPrefix
  <2> QED BY <1>1, <2>1, <2>2
<1>3. ASSUME NEW i \in 1..Len(s) PROVE s[i] = u[i]
  <2>1. i \in Nat /\ i <= Len(s) /\ i \in 1..Len(u)
    BY <1>1, <1>2
  <2>2. Place(h, s, i) = Place(h, u, i)
    BY <2>1, FollowsPrefix
  <2> QED BY <1>1, <2>1, <2>2
<1> QED BY <1>2, <1>3, SeqEqual

\* The lists hold each thread at most once, and the others are alone.
Listed(m, q) ==
    /\ q \in [Heads -> Seq(Items)]
    /\ \A h \in Heads : Follows(m.next, h, q[h]) /\ IsInjective(q[h])
    /\ \A g, h \in Heads : g # h => ToSet(q[g]) \cap ToSet(q[h]) = {}
    /\ \A t \in Items : (\A h \in Heads : t \notin ToSet(q[h])) => m.next[t] = t

\* A list without duplicates is one of ThreadLists.
LEMMA ListOfThreads ==
  ASSUME NEW s \in Seq(Items), IsInjective(s)
  PROVE  s \in ThreadLists
<1>1. Len(s) \in Nat /\ s \in [1..Len(s) -> Items]
  OBVIOUS
<1>2. s \in Injection(1..Len(s), Items)
  BY <1>1 DEF Injection, IsInjective
<1>3. IsFiniteSet(Items)
  BY NodesAssumption
<1>4. Cardinality(1..Len(s)) <= Cardinality(Items) /\ Cardinality(Items) \in Nat
  BY <1>2, <1>3, FS_Injection, FS_CardinalityType
<1>5. Cardinality(1..Len(s)) = Len(s)
  BY <1>1, FS_Interval
<1>6. Len(s) \in 0..Cardinality(Items)
  BY <1>1, <1>4, <1>5
<1> QED BY <1>1, <1>6 DEF ThreadLists

\* The walk of the mapping meets the threads of q.
LEMMA WalkIsList ==
  ASSUME NEW q, Listed(Memory, q), NEW h \in Heads
  PROVE  Walk(h) = q[h]
<1>1. /\ q[h] \in Seq(Items) /\ IsInjective(q[h])
      /\ Follows(next, h, q[h])
  BY DEF Listed, Memory, Mem
<1>2. q[h] \in ThreadLists
  BY <1>1, ListOfThreads
<1> DEFINE w == Walk(h)
<1>3. w \in ThreadLists /\ Follows(next, h, w)
  BY <1>1, <1>2 DEF Walk
<1> HIDE DEF w
<1>4. w \in Seq(Items)
  <2>1. PICK k \in 0..Cardinality(Items) : w \in [1..k -> Items]
    BY <1>3 DEF ThreadLists
  <2>2. Cardinality(Items) \in Nat
    BY NodesAssumption, FS_CardinalityType
  <2> QED BY <2>1, <2>2
<1>5. w = q[h]
  BY <1>1, <1>3, <1>4, FollowsUnique
<1> QED BY <1>5 DEF w
\* A walk after the pointers around a thread were joined: the thread is not met
\* any more.
LEMMA UnlinkFollows ==
  ASSUME NEW n, NEW r, NEW t \in Items, NEW h \in Heads,
         NEW s \in Seq(Items), IsInjective(s), Follows(n, h, s),
         \A x \in Node : r[x] = IF x = t THEN t ELSE IF n[x] = t THEN n[t] ELSE n[x]
  PROVE  Follows(r, h, Unlink(s, t))
<1>1. /\ Len(s) \in Nat
      /\ Place(h, s, 0) = h /\ Place(h, s, Len(s) + 1) = h
      /\ \A i \in 1..Len(s) : Place(h, s, i) = s[i]
      /\ \A i \in 0..(Len(s) + 1) : Place(h, s, i) \in Node
      /\ h # t
  BY PlaceValue, NodesAssumption
<1>2. \A i \in 0..Len(s) : n[Place(h, s, i)] = Place(h, s, i + 1)
  BY DEF Follows
<1>3. ToSet(s) = {s[i] : i \in 1..Len(s)} /\ \A i, j \in 1..Len(s) : s[i] = s[j] => i = j
  BY SetOf
<1>4. \A i \in 0..(Len(s) + 1) : i = 0 \/ i = Len(s) + 1 \/ i \in 1..Len(s)
  BY <1>1
<1>5. CASE t \notin ToSet(s)
  <2>1. \A i \in 0..(Len(s) + 1) : Place(h, s, i) # t
    BY <1>1, <1>3, <1>4, <1>5
  <2>2. ASSUME NEW i \in 0..Len(s) PROVE r[Place(h, s, i)] = Place(h, s, i + 1)
    <3>1. i \in 0..(Len(s) + 1) /\ i + 1 \in 0..(Len(s) + 1)
      BY <1>1
    <3> QED BY <1>1, <1>2, <2>1, <3>1
  <2>3. Unlink(s, t) = s
    BY <1>5 DEF Unlink
  <2> QED BY <2>2, <2>3 DEF Follows
<1>6. CASE t \in ToSet(s)
  <2>1. PICK j \in 1..Len(s) : j = CHOOSE i \in 1..Len(s) : s[i] = t
    BY <1>3, <1>6
  <2>2. s[j] = t /\ Unlink(s, t) = RemoveAt(s, j)
    BY <1>3, <1>6, <2>1 DEF Unlink
  <2>3. PICK u : u = RemoveAt(s, j)
    OBVIOUS
  <2>4. /\ u \in Seq(Items) /\ Len(u) = Len(s) - 1
        /\ \A k \in 1..(Len(s) - 1) : u[k] = IF k < j THEN s[k] ELSE s[k + 1]
    BY <2>3, RemoveAtValue
  <2>5. \A i \in 0..(Len(s) + 1) : Place(h, s, i) = t => i = j
    BY <1>1, <1>3, <1>4, <2>2
  <2>6. /\ Place(h, u, 0) = h /\ Place(h, u, Len(u) + 1) = h
        /\ \A i \in 1..Len(u) : Place(h, u, i) = u[i]
    BY <2>4, PlaceValue
  <2>7. ASSUME NEW i \in 0..Len(s)
        PROVE  Place(h, u, i) = IF i < j THEN Place(h, s, i) ELSE Place(h, s, i + 1)
    <3>1. CASE i = 0
      BY <1>1, <2>6, <3>1
    <3>2. CASE i = Len(s)
      BY <1>1, <2>4, <2>6, <3>2
    <3>3. CASE i \in 1..(Len(s) - 1)
      <4>1. Place(h, u, i) = IF i < j THEN s[i] ELSE s[i + 1]
        BY <1>1, <2>4, <2>6, <3>3
      <4>2. i \in 1..Len(s) /\ i + 1 \in 1..Len(s)
        BY <1>1, <3>3
      <4> QED BY <1>1, <4>1, <4>2
    <3> QED BY <1>1, <3>1, <3>2, <3>3
  <2>8. ASSUME NEW i \in 0..Len(u) PROVE r[Place(h, u, i)] = Place(h, u, i + 1)
    <3>1. i \in 0..Len(s) /\ i + 1 \in 0..Len(s) /\ i + 2 \in 0..(Len(s) + 1)
          /\ i \in 0..(Len(s) + 1) /\ i + 1 \in 0..(Len(s) + 1) /\ j \in 0..Len(s)
      BY <1>1, <2>4
    <3>2. CASE i + 1 < j
      <4>1. Place(h, u, i) = Place(h, s, i) /\ Place(h, u, i + 1) = Place(h, s, i + 1)
        BY <2>7, <3>1, <3>2
      <4>2. Place(h, s, i) # t /\ Place(h, s, i + 1) # t
        BY <2>5, <3>1, <3>2
      <4> QED BY <1>1, <1>2, <3>1, <4>1, <4>2
    <3>3. CASE i + 1 = j
      <4>1. Place(h, u, i) = Place(h, s, i) /\ Place(h, u, i + 1) = Place(h, s, i + 2)
        BY <2>7, <3>1, <3>3
      <4>2. Place(h, s, i) # t /\ Place(h, s, i + 1) = t
        BY <1>1, <2>2, <2>5, <3>1, <3>3
      <4>3. n[Place(h, s, i)] = t /\ n[t] = Place(h, s, i + 2)
        <5>1. n[Place(h, s, i + 1)] = Place(h, s, (i + 1) + 1) /\ (i + 1) + 1 = i + 2
          BY <1>2, <3>1
        <5> QED BY <1>2, <3>1, <4>2, <5>1
      <4> QED BY <1>1, <3>1, <4>1, <4>2, <4>3
    <3>4. CASE i >= j
      <4>1. Place(h, u, i) = Place(h, s, i + 1) /\ Place(h, u, i + 1) = Place(h, s, i + 2)
        <5>1. Place(h, u, i + 1) = Place(h, s, (i + 1) + 1) /\ (i + 1) + 1 = i + 2
          BY <2>7, <3>1, <3>4
        <5> QED BY <2>7, <3>1, <3>4, <5>1
      <4>2. Place(h, s, i + 1) # t /\ Place(h, s, i + 2) # t
        BY <2>5, <3>1, <3>4
      <4>3. n[Place(h, s, i + 1)] = Place(h, s, i + 2)
        <5>1. n[Place(h, s, i + 1)] = Place(h, s, (i + 1) + 1) /\ (i + 1) + 1 = i + 2
          BY <1>2, <3>1
        <5> QED BY <5>1
      <4> QED BY <1>1, <3>1, <4>1, <4>2, <4>3
    <3> QED BY <3>1, <3>2, <3>3, <3>4
  <2> QED BY <2>2, <2>3, <2>8 DEF Follows
<1> QED BY <1>5, <1>6

\* The pointers r after t was linked between h and the node before it
LinkedBefore(n, r, t, h) ==
    \A x \in Node : r[x] = IF x = t THEN h ELSE IF n[x] = h THEN t ELSE n[x]

\* A walk past a thread that was inserted before the head.
LEMMA AppendFollows ==
  ASSUME NEW n, NEW r, NEW t \in Items, NEW h \in Heads, NEW g \in Heads,
         NEW s \in Seq(Items), t \notin ToSet(s), Follows(n, g, s),
         LinkedBefore(n, r, t, h),
         NEW w, w = IF g = h THEN Append(s, t) ELSE s
  PROVE  Follows(r, g, w)
<1>0. \A x \in Node : r[x] = IF x = t THEN h ELSE IF n[x] = h THEN t ELSE n[x]
  BY DEF LinkedBefore
<1>1. /\ Len(s) \in Nat
      /\ Place(g, s, 0) = g /\ Place(g, s, Len(s) + 1) = g
      /\ \A i \in 1..Len(s) : Place(g, s, i) = s[i] /\ s[i] \in Items
      /\ \A i \in 0..(Len(s) + 1) : Place(g, s, i) \in Node
      /\ g # t /\ g \notin Items /\ h \notin Items /\ t \in Node
  BY PlaceValue, NodesAssumption DEF Node
<1>2. \A i \in 0..Len(s) : n[Place(g, s, i)] = Place(g, s, i + 1)
  BY DEF Follows
<1>3. ToSet(s) = {s[i] : i \in 1..Len(s)}
  BY SetOf
<1>4. \A i \in 0..Len(s) : i = 0 \/ i \in 1..Len(s)
  BY <1>1
<1>5. \A i \in 0..Len(s) : Place(g, s, i) # t /\ i \in 0..(Len(s) + 1)
  BY <1>1, <1>3, <1>4
<1>6. \A i \in 0..Len(s) : Place(g, s, i + 1) = h => g = h /\ i = Len(s)
  <2> SUFFICES ASSUME NEW i \in 0..Len(s), Place(g, s, i + 1) = h
               PROVE  g = h /\ i = Len(s)
    OBVIOUS
  <2>1. i = Len(s) \/ i + 1 \in 1..Len(s)
    BY <1>1
  <2> QED BY <1>1, <2>1
<1>7. CASE g # h
  <2>1. \A i \in 0..Len(s) : r[Place(g, s, i)] = Place(g, s, i + 1)
    BY <1>0, <1>1, <1>2, <1>5, <1>6, <1>7
  <2> QED BY <1>7, <2>1 DEF Follows
<1>8. CASE g = h
  <2>1. PICK u : u = Append(s, t)
    OBVIOUS
  <2>2. /\ u \in Seq(Items) /\ Len(u) = Len(s) + 1 /\ u[Len(s) + 1] = t
        /\ \A i \in 1..Len(s) : u[i] = s[i]
    BY <2>1
  <2>3. /\ Place(g, u, 0) = g /\ Place(g, u, (Len(s) + 1) + 1) = g
        /\ \A i \in 1..(Len(s) + 1) : Place(g, u, i) = u[i]
    BY <2>2, PlaceValue
  <2>4. \A i \in 0..Len(s) : Place(g, u, i) = Place(g, s, i)
    <3> SUFFICES ASSUME NEW i \in 0..Len(s) PROVE Place(g, u, i) = Place(g, s, i)
      OBVIOUS
    <3>1. CASE i = 0
      BY <1>1, <2>3, <3>1
    <3>2. CASE i \in 1..Len(s)
      <4>1. i \in 1..(Len(s) + 1)
        BY <1>1, <3>2
      <4> QED BY <1>1, <2>2, <2>3, <3>2, <4>1
    <3> QED BY <1>4, <3>1, <3>2
  <2>5. Place(g, u, Len(s) + 1) = t
    <3>1. Len(s) + 1 \in 1..(Len(s) + 1)
      BY <1>1
    <3> QED BY <2>2, <2>3, <3>1
  <2>6. ASSUME NEW i \in 0..Len(u) PROVE r[Place(g, u, i)] = Place(g, u, i + 1)
    <3>1. CASE i \in 0..(Len(s) - 1)
      <4>1. i \in 0..Len(s) /\ i + 1 \in 0..Len(s) /\ i # Len(s)
        BY <1>1, <3>1
      <4> QED BY <1>0, <1>1, <1>2, <1>5, <1>6, <2>4, <4>1
    <3>2. CASE i = Len(s)
      <4>1. i \in 0..Len(s) /\ n[Place(g, s, i)] = h
        BY <1>1, <1>2, <1>8, <3>2
      <4> QED BY <1>0, <1>1, <1>5, <2>4, <2>5, <3>2, <4>1
    <3>3. CASE i = Len(s) + 1
      BY <1>0, <1>1, <1>8, <2>3, <2>5, <3>3
    <3>4. i \in 0..(Len(s) - 1) \/ i = Len(s) \/ i = Len(s) + 1
      BY <1>1, <2>2
    <3> QED BY <3>1, <3>2, <3>3, <3>4
  <2> QED BY <1>8, <2>1, <2>6 DEF Follows
<1> QED BY <1>7, <1>8

\* A walk past a thread that was inserted behind the head.
LEMMA FirstFollows ==
  ASSUME NEW n, NEW r, NEW t \in Items, NEW h \in Heads, NEW g \in Heads,
         NEW s \in Seq(Items), t \notin ToSet(s), Follows(n, g, s),
         \A x \in Node : r[x] = IF x = h THEN t ELSE IF x = t THEN n[h] ELSE n[x],
         NEW w, w = IF g = h THEN Cons(t, s) ELSE s
  PROVE  Follows(r, g, w)
<1>1. /\ Len(s) \in Nat
      /\ Place(g, s, 0) = g /\ Place(g, s, Len(s) + 1) = g
      /\ \A i \in 1..Len(s) : Place(g, s, i) = s[i] /\ s[i] \in Items
      /\ \A i \in 0..(Len(s) + 1) : Place(g, s, i) \in Node
      /\ g # t /\ g \notin Items /\ h \notin Items /\ t \in Node /\ h # t
  BY PlaceValue, NodesAssumption DEF Node
<1>2. \A i \in 0..Len(s) : n[Place(g, s, i)] = Place(g, s, i + 1)
  BY DEF Follows
<1>3. ToSet(s) = {s[i] : i \in 1..Len(s)}
  BY SetOf
<1>4. \A i \in 0..Len(s) : i = 0 \/ i \in 1..Len(s)
  BY <1>1
<1>5. \A i \in 0..Len(s) : Place(g, s, i) # t /\ Place(g, s, i) \in Node
  BY <1>1, <1>3, <1>4
<1>6. \A i \in 1..Len(s) : Place(g, s, i) # h
  BY <1>1
<1>7. CASE g # h
  <2>1. \A i \in 0..Len(s) : r[Place(g, s, i)] = Place(g, s, i + 1)
    BY <1>1, <1>2, <1>4, <1>5, <1>6, <1>7
  <2> QED BY <1>7, <2>1 DEF Follows
<1>8. CASE g = h
  <2>1. PICK u : u = Cons(t, s)
    OBVIOUS
  <2>2. /\ u \in Seq(Items) /\ Len(u) = Len(s) + 1 /\ u[1] = t
        /\ \A i \in 1..Len(s) : u[i + 1] = s[i]
    <3>1. Cons(t, s) = <<t>> \o s /\ <<t>> \in Seq(Items) /\ Len(<<t>>) = 1 /\ <<t>>[1] = t
      BY DEF Cons
    <3>2. PICK o \in Seq(Items) : o = <<t>> /\ Len(o) = 1 /\ o[1] = t
      BY <3>1
    <3>3. u = o \o s
      BY <2>1, <3>1, <3>2
    <3>4. /\ u \in Seq(Items) /\ Len(u) = 1 + Len(s)
          /\ \A i \in 1..(1 + Len(s)) : u[i] = IF i <= 1 THEN o[i] ELSE s[i - 1]
      BY <3>2, <3>3, ConcatProperties
    <3>5. \A i \in 1..Len(s) : i + 1 \in 1..(1 + Len(s)) /\ ~ (i + 1 <= 1) /\ (i + 1) - 1 = i
      BY <1>1
    <3>6. 1 \in 1..(1 + Len(s))
      BY <1>1
    <3> QED BY <1>1, <3>2, <3>4, <3>5, <3>6
  <2>3. /\ Place(g, u, 0) = g /\ Place(g, u, (Len(s) + 1) + 1) = g
        /\ \A i \in 1..(Len(s) + 1) : Place(g, u, i) = u[i]
    BY <2>2, PlaceValue
  <2>4. Place(g, u, 1) = t
    BY <1>1, <2>2, <2>3
  <2>5. \A i \in 1..(Len(s) + 1) : Place(g, u, i + 1) = Place(g, s, i)
    <3> SUFFICES ASSUME NEW i \in 1..(Len(s) + 1) PROVE Place(g, u, i + 1) = Place(g, s, i)
      OBVIOUS
    <3>1. CASE i = Len(s) + 1
      BY <1>1, <2>3, <3>1
    <3>2. CASE i \in 1..Len(s)
      <4>1. i + 1 \in 1..(Len(s) + 1)
        BY <1>1, <3>2
      <4> QED BY <1>1, <2>2, <2>3, <3>2, <4>1
    <3> QED BY <1>1, <3>1, <3>2
  <2>6. ASSUME NEW i \in 0..Len(u) PROVE r[Place(g, u, i)] = Place(g, u, i + 1)
    <3>1. CASE i = 0
      <4>1. Place(g, u, i) = h /\ Place(g, u, i + 1) = t
        BY <1>8, <2>3, <2>4, <3>1
      <4> QED BY <4>1 DEF Node
    <3>2. CASE i = 1
      <4>1. Place(g, u, i) = t /\ Place(g, u, i + 1) = Place(g, s, 1)
        BY <1>1, <2>4, <2>5, <3>2
      <4>2. r[t] = n[h]
        BY <1>1
      <4>3. n[h] = Place(g, s, 0 + 1) /\ 0 + 1 = 1
        BY <1>1, <1>2, <1>8
      <4> QED BY <4>1, <4>2, <4>3
    <3>3. CASE i \in 2..(Len(s) + 1)
      <4>1. PICK k \in 1..Len(s) : i = k + 1
        <5>1. i - 1 \in 1..Len(s) /\ i = (i - 1) + 1
          BY <1>1, <3>3
        <5> QED BY <5>1
      <4>2. /\ k \in 1..(Len(s) + 1) /\ k + 1 \in 1..(Len(s) + 1) /\ k \in 0..Len(s)
        BY <1>1, <4>1
      <4>3. Place(g, u, i) = Place(g, s, k) /\ Place(g, u, i + 1) = Place(g, s, k + 1)
        BY <2>5, <4>1, <4>2
      <4>4. r[Place(g, s, k)] = n[Place(g, s, k)]
        BY <1>5, <1>6, <4>1, <4>2
      <4> QED BY <1>2, <4>2, <4>3, <4>4
    <3>4. i = 0 \/ i = 1 \/ i \in 2..(Len(s) + 1)
      BY <1>1, <2>2
    <3> QED BY <3>1, <3>2, <3>3, <3>4
  <2> QED BY <1>8, <2>1, <2>6 DEF Follows
<1> QED BY <1>7, <1>8
\* remove_from_list takes a thread off the list it is on, if any.
LEMMA RemoveListed ==
  ASSUME NEW m \in Pointers, Rings(m), NEW t \in Items, NEW q, Listed(m, q)
  PROVE  Listed(remove_from_list(m, t), [h \in Heads |-> Unlink(q[h], t)])
<1>1. PICK r \in Pointers : r = remove_from_list(m, t)
  BY RemoveRings DEF Node
<1>2. \A x \in Node : /\ m.next[x] \in Node /\ m.prev[x] \in Node
                      /\ m.prev[m.next[x]] = x /\ m.next[m.prev[x]] = x
  BY PointerTypes DEF Rings
<1>3. t \in Node /\ \A x \in Node : r.next[x] = IF x = t THEN t
                                 ELSE IF x = m.prev[t] THEN m.next[t] ELSE m.next[x]
  BY <1>1, RemoveRings DEF Node
<1>4. \A x \in Node : r.next[x] = IF x = t THEN t
                                 ELSE IF m.next[x] = t THEN m.next[t] ELSE m.next[x]
  BY <1>2, <1>3
<1>5. PICK u : u = [h \in Heads |-> Unlink(q[h], t)]
  OBVIOUS
<1>6. ASSUME NEW h \in Heads
      PROVE  /\ u[h] = Unlink(q[h], t) /\ u[h] \in Seq(Items)
             /\ Follows(r.next, h, u[h]) /\ IsInjective(u[h])
             /\ ToSet(u[h]) = ToSet(q[h]) \ {t}
  <2>1. q[h] \in Seq(Items) /\ Follows(m.next, h, q[h]) /\ IsInjective(q[h])
    BY DEF Listed
  <2>2. Follows(r.next, h, Unlink(q[h], t))
    BY <1>4, <2>1, UnlinkFollows
  <2>3. /\ Unlink(q[h], t) \in Seq(Items) /\ IsInjective(Unlink(q[h], t))
        /\ ToSet(Unlink(q[h], t)) = ToSet(q[h]) \ {t}
    BY <2>1, UnlinkType, UnlinkSet
  <2> QED BY <1>5, <2>2, <2>3
<1>7. u \in [Heads -> Seq(Items)]
  BY <1>5, <1>6
<1>8. \A g, h \in Heads : g # h => ToSet(u[g]) \cap ToSet(u[h]) = {}
  BY <1>6 DEF Listed
<1>9. ASSUME NEW x \in Items, \A h \in Heads : x \notin ToSet(u[h]) PROVE r.next[x] = x
  <2>1. CASE x = t
    BY <1>3, <2>1
  <2>2. CASE x # t
    <3>1. \A h \in Heads : x \notin ToSet(q[h])
      BY <1>6, <1>9, <2>2
    <3>2. m.next[x] = x /\ x \in Node
      BY <3>1 DEF Listed, Node
    <3> QED BY <1>4, <2>2, <3>2
  <2> QED BY <2>1, <2>2
<1> QED BY <1>1, <1>5, <1>6, <1>7, <1>8, <1>9 DEF Listed

\* append_to_list puts a thread that is on no list at the end of one.
LEMMA AppendListed ==
  ASSUME NEW m \in Pointers, Rings(m), NEW t \in Items, NEW h \in Heads, NEW q, Listed(m, q),
         \A g \in Heads : t \notin ToSet(q[g])
  PROVE  Listed(append_to_list(m, h, t), [q EXCEPT ![h] = Append(q[h], t)])
<1>1. t \in Node /\ h \in Node /\ t # h /\ m.next[t] = t
  BY NodesAssumption DEF Node, Listed
<1>2. PICK r \in Pointers : r = append_to_list(m, h, t)
  BY <1>1, AppendRings
<1>3. \A x \in Node : /\ m.next[x] \in Node /\ m.prev[x] \in Node
                      /\ m.prev[m.next[x]] = x /\ m.next[m.prev[x]] = x
  BY PointerTypes DEF Rings
<1>4. \A x \in Node : r.next[x] = IF x = t THEN h
                                 ELSE IF x = m.prev[h] THEN t ELSE m.next[x]
  BY <1>1, <1>2, AppendRings
<1>5. \A x \in Node : r.next[x] = IF x = t THEN h
                                 ELSE IF m.next[x] = h THEN t ELSE m.next[x]
  BY <1>1, <1>3, <1>4
<1>6. PICK u : u = [q EXCEPT ![h] = Append(q[h], t)]
  OBVIOUS
<1>7. ASSUME NEW g \in Heads
      PROVE  /\ u[g] = IF g = h THEN Append(q[g], t) ELSE q[g]
             /\ u[g] \in Seq(Items) /\ Follows(r.next, g, u[g]) /\ IsInjective(u[g])
             /\ ToSet(u[g]) = IF g = h THEN ToSet(q[g]) \cup {t} ELSE ToSet(q[g])
  <2>1. /\ q \in [Heads -> Seq(Items)] /\ q[g] \in Seq(Items)
        /\ Follows(m.next, g, q[g]) /\ IsInjective(q[g])
    BY DEF Listed
  <2>2. u[g] = IF g = h THEN Append(q[g], t) ELSE q[g]
    BY <1>6, <2>1
  <2>3. Follows(r.next, g, u[g])
    <3>1. t \notin ToSet(q[g])
      OBVIOUS
    <3>2. PICK n : n = m.next
      OBVIOUS
    <3>3. PICK s \in Seq(Items) : s = q[g]
      BY <2>1
    <3>4. PICK w : w = u[g]
      OBVIOUS
    <3>5. PICK o : o = r.next
      OBVIOUS
    <3>6. LinkedBefore(n, o, t, h)
      BY <1>5, <3>2, <3>5 DEF LinkedBefore
    <3>7. t \notin ToSet(s) /\ Follows(n, g, s) /\ w = IF g = h THEN Append(s, t) ELSE s
      BY <2>1, <2>2, <3>1, <3>2, <3>3, <3>4
    <3>8. Follows(o, g, w)
      BY <3>6, <3>7, AppendFollows
    <3> QED BY <3>4, <3>5, <3>8
  <2>4. /\ Append(q[g], t) \in Seq(Items) /\ IsInjective(Append(q[g], t))
        /\ ToSet(Append(q[g], t)) = ToSet(q[g]) \cup {t}
    BY <2>1, AppendSet
  <2> QED BY <2>1, <2>2, <2>3, <2>4
<1>8. u \in [Heads -> Seq(Items)]
  BY <1>6, <1>7 DEF Listed
<1>9. ASSUME NEW f \in Heads, NEW g \in Heads, f # g PROVE ToSet(u[f]) \cap ToSet(u[g]) = {}
  <2>1. ToSet(q[f]) \cap ToSet(q[g]) = {} /\ t \notin ToSet(q[f]) /\ t \notin ToSet(q[g])
    BY <1>9 DEF Listed
  <2>2. /\ ToSet(u[f]) = IF f = h THEN ToSet(q[f]) \cup {t} ELSE ToSet(q[f])
        /\ ToSet(u[g]) = IF g = h THEN ToSet(q[g]) \cup {t} ELSE ToSet(q[g])
    BY <1>7
  <2> QED BY <1>9, <2>1, <2>2
<1>10. ASSUME NEW x \in Items, \A g \in Heads : x \notin ToSet(u[g]) PROVE r.next[x] = x
  <2>1. x # t /\ \A g \in Heads : x \notin ToSet(q[g])
    BY <1>7, <1>10
  <2>2. m.next[x] = x /\ x \in Node /\ x # h
    BY <2>1, NodesAssumption DEF Listed, Node
  <2> QED BY <1>5, <2>1, <2>2
<1> QED BY <1>2, <1>6, <1>7, <1>8, <1>9, <1>10 DEF Listed

\* The insertion of scheduler_cheat puts it at the front.
LEMMA FirstListed ==
  ASSUME NEW m \in Pointers, Rings(m), NEW t \in Items, NEW h \in Heads, NEW q, Listed(m, q),
         \A g \in Heads : t \notin ToSet(q[g])
  PROVE  Listed(insert_first(m, h, t), [q EXCEPT ![h] = Cons(t, q[h])])
<1>1. t \in Node /\ h \in Node /\ t # h /\ m.next[t] = t
  BY NodesAssumption DEF Node, Listed
<1>2. PICK r \in Pointers : r = insert_first(m, h, t)
  BY <1>1, FirstRings
<1>5. \A x \in Node : r.next[x] = IF x = h THEN t
                                 ELSE IF x = t THEN m.next[h] ELSE m.next[x]
  BY <1>1, <1>2, FirstRings
<1>6. PICK u : u = [q EXCEPT ![h] = Cons(t, q[h])]
  OBVIOUS
<1>7. ASSUME NEW g \in Heads
      PROVE  /\ u[g] = IF g = h THEN Cons(t, q[g]) ELSE q[g]
             /\ u[g] \in Seq(Items) /\ Follows(r.next, g, u[g]) /\ IsInjective(u[g])
             /\ ToSet(u[g]) = IF g = h THEN ToSet(q[g]) \cup {t} ELSE ToSet(q[g])
  <2>1. /\ q \in [Heads -> Seq(Items)] /\ q[g] \in Seq(Items)
        /\ Follows(m.next, g, q[g]) /\ IsInjective(q[g])
    BY DEF Listed
  <2>2. u[g] = IF g = h THEN Cons(t, q[g]) ELSE q[g]
    BY <1>6, <2>1
  <2>3. Follows(r.next, g, u[g])
    <3>1. t \notin ToSet(q[g])
      OBVIOUS
    <3>2. PICK n : n = m.next
      OBVIOUS
    <3>3. PICK s \in Seq(Items) : s = q[g]
      BY <2>1
    <3>4. PICK w : w = u[g]
      OBVIOUS
    <3>5. PICK o : o = r.next
      OBVIOUS
    <3>6. \A x \in Node : o[x] = IF x = h THEN t ELSE IF x = t THEN n[h] ELSE n[x]
      BY <1>5, <3>2, <3>5
    <3>7. t \notin ToSet(s) /\ Follows(n, g, s) /\ w = IF g = h THEN Cons(t, s) ELSE s
      BY <2>1, <2>2, <3>1, <3>2, <3>3, <3>4
    <3>8. Follows(o, g, w)
      BY <3>6, <3>7, FirstFollows
    <3> QED BY <3>4, <3>5, <3>8
  <2>4. Cons(t, q[g]) \in Seq(Items)
    <3>1. <<t>> \in Seq(Items)
      OBVIOUS
    <3> QED BY <2>1, <3>1, ConcatProperties DEF Cons
  <2>5. IsInjective(Cons(t, q[g])) /\ ToSet(Cons(t, q[g])) = ToSet(q[g]) \cup {t}
    BY <2>1, ConsSet
  <2> QED BY <2>1, <2>2, <2>3, <2>4, <2>5
<1>8. u \in [Heads -> Seq(Items)]
  BY <1>6, <1>7 DEF Listed
<1>9. ASSUME NEW f \in Heads, NEW g \in Heads, f # g PROVE ToSet(u[f]) \cap ToSet(u[g]) = {}
  <2>1. ToSet(q[f]) \cap ToSet(q[g]) = {} /\ t \notin ToSet(q[f]) /\ t \notin ToSet(q[g])
    BY <1>9 DEF Listed
  <2>2. /\ ToSet(u[f]) = IF f = h THEN ToSet(q[f]) \cup {t} ELSE ToSet(q[f])
        /\ ToSet(u[g]) = IF g = h THEN ToSet(q[g]) \cup {t} ELSE ToSet(q[g])
    BY <1>7
  <2> QED BY <1>9, <2>1, <2>2
<1>10. ASSUME NEW x \in Items, \A g \in Heads : x \notin ToSet(u[g]) PROVE r.next[x] = x
  <2>1. x # t /\ \A g \in Heads : x \notin ToSet(q[g])
    BY <1>7, <1>10
  <2>2. m.next[x] = x /\ x \in Node /\ x # h
    BY <2>1, NodesAssumption DEF Listed, Node
  <2> QED BY <1>5, <2>1, <2>2
<1> QED BY <1>2, <1>6, <1>7, <1>8, <1>9, <1>10 DEF Listed
-----------------------------------------------------------------------------
\* The operators of Scheduler are the same in the instance.
LEMMA SameOperators ==
  /\ Queues!RunQ = RunQ
  /\ \A q, t : /\ Queues!scheduler_insert(q, t) = scheduler_insert(q, t)
               /\ Queues!scheduler_cheat(q, t) = scheduler_cheat(q, t)
               /\ Queues!scheduler_remove(q, t) = scheduler_remove(q, t)
  /\ \A q, t, l : Queues!scheduler_sleep(q, t, l) = scheduler_sleep(q, t, l)
  /\ \A q, l : Queues!scheduler_wake(q, l) = scheduler_wake(q, l)
  /\ \A s : Queues!ToSet(s) = ToSet(s)
<1>1. Queues!RunQ = RunQ
  BY DEF Queues!RunQ, RunQ
<1>2. \A s : Queues!ToSet(s) = ToSet(s)
  BY DEF Queues!ToSet, ToSet
<1>3. \A s, t : Queues!Unlink(s, t) = Unlink(s, t)
  BY <1>2 DEF Queues!Unlink, Unlink, Queues!RemoveAt, RemoveAt
<1>4. \A s, t : Queues!Cons(t, s) = Cons(t, s)
  BY DEF Queues!Cons, Cons
<1>5. \A q, t : Queues!scheduler_insert(q, t) = scheduler_insert(q, t)
  BY <1>1 DEF Queues!scheduler_insert, scheduler_insert
<1>6. \A q, t : Queues!scheduler_cheat(q, t) = scheduler_cheat(q, t)
  BY <1>1, <1>4 DEF Queues!scheduler_cheat, scheduler_cheat
<1>7. \A q, t : Queues!scheduler_remove(q, t) = scheduler_remove(q, t)
  BY <1>3 DEF Queues!scheduler_remove, scheduler_remove
<1>8. \A q, t, l : Queues!scheduler_sleep(q, t, l) = scheduler_sleep(q, t, l)
  BY <1>7 DEF Queues!scheduler_sleep, scheduler_sleep
<1>9. \A q, l : Queues!scheduler_wake(q, l) = scheduler_wake(q, l)
  BY <1>1 DEF Queues!scheduler_wake, scheduler_wake
<1> QED BY <1>1, <1>2, <1>5, <1>6, <1>7, <1>8, <1>9

\* The queues that the mapping reads off lists q while the list of w is woken.
View(q, w) == [l \in WaitLists \cup {RunQ} |->
    CASE l = RunQ /\ w = NotWaking -> q[RunQueue]
      [] l = RunQ /\ w # NotWaking -> q[RunQueue] \o q[w]
      [] OTHER -> IF w = HeadOf(l) THEN <<>> ELSE q[HeadOf(l)]]

\* A view, list by list
LEMMA ViewValue ==
  ASSUME NEW q, NEW w \in Heads
  PROVE  /\ DOMAIN View(q, w) = WaitLists \cup {RunQ} /\ RunQ \notin WaitLists
         /\ View(q, w)[RunQ] = IF w = NotWaking THEN q[RunQueue] ELSE q[RunQueue] \o q[w]
         /\ \A h \in Heads \ {RunQueue} :
               TWait(h) \in WaitLists /\ View(q, w)[TWait(h)] = IF w = h THEN <<>> ELSE q[h]
         /\ \A l \in WaitLists : \E h \in Heads \ {RunQueue} : l = TWait(h)
<1>1. \A h : TWait(h) # RunQ /\ HeadOf(TWait(h)) = h
  BY DEF TWait, RunQ, HeadOf
<1>2. RunQ \notin WaitLists
  BY <1>1 DEF WaitLists
<1>3. DOMAIN View(q, w) = WaitLists \cup {RunQ}
  BY DEF View
<1>4. View(q, w)[RunQ] = IF w = NotWaking THEN q[RunQueue] ELSE q[RunQueue] \o q[w]
  BY DEF View
<1>5. ASSUME NEW h \in Heads \ {RunQueue}
      PROVE  TWait(h) \in WaitLists /\ View(q, w)[TWait(h)] = IF w = h THEN <<>> ELSE q[h]
  <2>1. TWait(h) \in WaitLists
    BY DEF WaitLists
  <2> QED BY <1>1, <2>1 DEF View
<1>6. \A l \in WaitLists : \E h \in Heads \ {RunQueue} : l = TWait(h)
  BY DEF WaitLists
<1> QED BY <1>2, <1>3, <1>4, <1>5, <1>6

\* What the mapping of a state is.
LEMMA QueuesAreView ==
  ASSUME NEW q, Listed(Memory, q), waking \in Heads
  PROVE  queues = View(q, waking)
<1>1. \A h \in Heads : Walk(h) = q[h]
  BY WalkIsList
<1>2. \A l \in WaitLists : HeadOf(l) \in Heads
  BY DEF WaitLists, TWait, HeadOf
<1>3. RunQueue \in Heads
  BY NodesAssumption
<1> QED BY <1>1, <1>2, <1>3 DEF queues, View

\* A function that has the values of a view is the view.
HasValues(r, u, w) ==
  /\ r = [l \in WaitLists \cup {RunQ} |-> r[l]]
  /\ r[RunQ] = IF w = NotWaking THEN u[RunQueue] ELSE u[RunQueue] \o u[w]
  /\ \A h \in Heads \ {RunQueue} : r[TWait(h)] = IF w = h THEN <<>> ELSE u[h]

LEMMA ViewIs ==
  ASSUME NEW r, NEW u, NEW w \in Heads, HasValues(r, u, w)
  PROVE  r = View(u, w)
<1>1. PICK v : v = View(u, w)
  OBVIOUS
<1>2. v = [l \in WaitLists \cup {RunQ} |-> v[l]]
  BY <1>1 DEF View
<1>3. ASSUME NEW l \in WaitLists \cup {RunQ} PROVE r[l] = v[l]
  <2>1. CASE l = RunQ
    <3>1. v[RunQ] = IF w = NotWaking THEN u[RunQueue] ELSE u[RunQueue] \o u[w]
      BY <1>1, ViewValue
    <3>2. r[RunQ] = IF w = NotWaking THEN u[RunQueue] ELSE u[RunQueue] \o u[w]
      BY DEF HasValues
    <3> QED BY <2>1, <3>1, <3>2
  <2>2. CASE l \in WaitLists
    <3>1. PICK h \in Heads \ {RunQueue} : l = TWait(h)
      BY <2>2, ViewValue
    <3>2. v[TWait(h)] = IF w = h THEN <<>> ELSE u[h]
      BY <1>1, ViewValue
    <3>3. r[TWait(h)] = IF w = h THEN <<>> ELSE u[h]
      BY DEF HasValues
    <3> QED BY <3>1, <3>2, <3>3
  <2> QED BY <2>1, <2>2
<1>4. r = [l \in WaitLists \cup {RunQ} |-> r[l]]
  BY DEF HasValues
<1> QED BY <1>1, <1>2, <1>3, <1>4

\* Each operation on the lists is the operator of Scheduler on the view.
LEMMA ViewInsert ==
  ASSUME NEW q \in [Heads -> Seq(Items)], NEW t
  PROVE  View([q EXCEPT ![RunQueue] = Append(q[RunQueue], t)], NotWaking)
            = scheduler_insert(View(q, NotWaking), t)
<1>1. RunQueue \in Heads /\ NotWaking = RunQueue /\ NotWaking \in Heads
  BY NodesAssumption DEF NotWaking
<1>2. PICK v : v = View(q, NotWaking)
  OBVIOUS
<1>3. v = [l \in WaitLists \cup {RunQ} |-> v[l]]
  BY <1>2 DEF View
<1>4. /\ v[RunQ] = q[RunQueue] /\ RunQ \notin WaitLists
      /\ \A h \in Heads \ {RunQueue} : TWait(h) \in WaitLists /\ v[TWait(h)] = q[h]
  BY <1>1, <1>2, ViewValue
<1>5. PICK r : r = scheduler_insert(v, t)
  OBVIOUS
<1>6. r = [v EXCEPT ![RunQ] = Append(v[RunQ], t)]
  BY <1>5 DEF scheduler_insert
<1>7. r = [l \in WaitLists \cup {RunQ} |-> r[l]]
  BY <1>3, <1>6
<1>8. PICK u : u = [q EXCEPT ![RunQueue] = Append(q[RunQueue], t)]
  OBVIOUS
<1>9. u[RunQueue] = Append(q[RunQueue], t) /\ \A h \in Heads \ {RunQueue} : u[h] = q[h]
  BY <1>1, <1>8
<1>10. r[RunQ] = u[RunQueue]
  BY <1>3, <1>4, <1>6, <1>9
<1>11. \A h \in Heads \ {RunQueue} : r[TWait(h)] = u[h]
  BY <1>3, <1>4, <1>6, <1>9
<1>12. r = View(u, NotWaking)
  <2>1. PICK w \in Heads : w = NotWaking
    BY <1>1
  <2>2. r[RunQ] = IF w = NotWaking THEN u[RunQueue] ELSE u[RunQueue] \o u[w]
    BY <1>10, <2>1
  <2>3. \A h \in Heads \ {RunQueue} : r[TWait(h)] = IF w = h THEN <<>> ELSE u[h]
    BY <1>1, <1>11, <2>1
  <2>4. HasValues(r, u, w)
    BY <1>7, <2>2, <2>3 DEF HasValues
  <2>5. r = View(u, w)
    BY <2>4, ViewIs
  <2> QED BY <2>1, <2>5
<1> QED BY <1>2, <1>5, <1>8, <1>12

LEMMA ViewCheat ==
  ASSUME NEW q \in [Heads -> Seq(Items)], NEW t
  PROVE  View([q EXCEPT ![RunQueue] = Cons(t, q[RunQueue])], NotWaking)
            = scheduler_cheat(View(q, NotWaking), t)
<1>1. RunQueue \in Heads /\ NotWaking = RunQueue /\ NotWaking \in Heads
  BY NodesAssumption DEF NotWaking
<1>2. PICK v : v = View(q, NotWaking)
  OBVIOUS
<1>3. v = [l \in WaitLists \cup {RunQ} |-> v[l]]
  BY <1>2 DEF View
<1>4. /\ v[RunQ] = q[RunQueue] /\ RunQ \notin WaitLists
      /\ \A h \in Heads \ {RunQueue} : TWait(h) \in WaitLists /\ v[TWait(h)] = q[h]
  BY <1>1, <1>2, ViewValue
<1>5. PICK r : r = scheduler_cheat(v, t)
  OBVIOUS
<1>6. r = [v EXCEPT ![RunQ] = Cons(t, v[RunQ])]
  BY <1>5 DEF scheduler_cheat
<1>7. r = [l \in WaitLists \cup {RunQ} |-> r[l]]
  BY <1>3, <1>6
<1>8. PICK u : u = [q EXCEPT ![RunQueue] = Cons(t, q[RunQueue])]
  OBVIOUS
<1>9. u[RunQueue] = Cons(t, q[RunQueue]) /\ \A h \in Heads \ {RunQueue} : u[h] = q[h]
  BY <1>1, <1>8
<1>10. r[RunQ] = u[RunQueue]
  BY <1>3, <1>4, <1>6, <1>9
<1>11. \A h \in Heads \ {RunQueue} : r[TWait(h)] = u[h]
  BY <1>3, <1>4, <1>6, <1>9
<1>12. r = View(u, NotWaking)
  <2>1. PICK w \in Heads : w = NotWaking
    BY <1>1
  <2>2. r[RunQ] = IF w = NotWaking THEN u[RunQueue] ELSE u[RunQueue] \o u[w]
    BY <1>10, <2>1
  <2>3. \A h \in Heads \ {RunQueue} : r[TWait(h)] = IF w = h THEN <<>> ELSE u[h]
    BY <1>1, <1>11, <2>1
  <2>4. HasValues(r, u, w)
    BY <1>7, <2>2, <2>3 DEF HasValues
  <2>5. r = View(u, w)
    BY <2>4, ViewIs
  <2> QED BY <2>1, <2>5
<1> QED BY <1>2, <1>5, <1>8, <1>12

LEMMA ViewRemove ==
  ASSUME NEW q \in [Heads -> Seq(Items)], NEW t
  PROVE  View([h \in Heads |-> Unlink(q[h], t)], NotWaking)
            = scheduler_remove(View(q, NotWaking), t)
<1>1. RunQueue \in Heads /\ NotWaking = RunQueue /\ NotWaking \in Heads
  BY NodesAssumption DEF NotWaking
<1>2. PICK v : v = View(q, NotWaking)
  OBVIOUS
<1>3. v = [l \in WaitLists \cup {RunQ} |-> v[l]]
  BY <1>2 DEF View
<1>4. /\ v[RunQ] = q[RunQueue]
      /\ \A h \in Heads \ {RunQueue} : TWait(h) \in WaitLists /\ v[TWait(h)] = q[h]
  BY <1>1, <1>2, ViewValue
<1>5. PICK r : r = scheduler_remove(v, t)
  OBVIOUS
<1>6. r = [l \in WaitLists \cup {RunQ} |-> Unlink(v[l], t)]
  BY <1>3, <1>5 DEF scheduler_remove
<1>7. r = [l \in WaitLists \cup {RunQ} |-> r[l]]
  BY <1>6
<1>8. PICK u : u = [h \in Heads |-> Unlink(q[h], t)]
  OBVIOUS
<1>10. r[RunQ] = u[RunQueue]
  BY <1>1, <1>4, <1>6, <1>8
<1>11. \A h \in Heads \ {RunQueue} : r[TWait(h)] = u[h]
  BY <1>4, <1>6, <1>8
<1>12. r = View(u, NotWaking)
  <2>1. PICK w \in Heads : w = NotWaking
    BY <1>1
  <2>2. r[RunQ] = IF w = NotWaking THEN u[RunQueue] ELSE u[RunQueue] \o u[w]
    BY <1>10, <2>1
  <2>3. \A h \in Heads \ {RunQueue} : r[TWait(h)] = IF w = h THEN <<>> ELSE u[h]
    BY <1>1, <1>11, <2>1
  <2>4. HasValues(r, u, w)
    BY <1>7, <2>2, <2>3 DEF HasValues
  <2>5. r = View(u, w)
    BY <2>4, ViewIs
  <2> QED BY <2>1, <2>5
<1> QED BY <1>2, <1>5, <1>8, <1>12

LEMMA ViewSleep ==
  ASSUME NEW q \in [Heads -> Seq(Items)], NEW t, NEW h \in Heads \ {RunQueue}
  PROVE  LET u == [g \in Heads |-> Unlink(q[g], t)]
         IN  View([u EXCEPT ![h] = Append(u[h], t)], NotWaking)
                = scheduler_sleep(View(q, NotWaking), t, TWait(h))
<1>1. RunQueue \in Heads /\ NotWaking = RunQueue /\ NotWaking \in Heads /\ h # RunQueue
  BY NodesAssumption DEF NotWaking
<1>2. PICK u : u = [g \in Heads |-> Unlink(q[g], t)]
  OBVIOUS
<1>3. PICK v : v = View(u, NotWaking)
  OBVIOUS
<1>4. v = scheduler_remove(View(q, NotWaking), t)
  BY <1>2, <1>3, ViewRemove
<1>5. v = [l \in WaitLists \cup {RunQ} |-> v[l]]
  BY <1>3 DEF View
<1>6. /\ v[RunQ] = u[RunQueue] /\ RunQ \notin WaitLists
      /\ \A g \in Heads \ {RunQueue} : TWait(g) \in WaitLists /\ v[TWait(g)] = u[g]
  BY <1>1, <1>3, ViewValue
<1>7. PICK r : r = scheduler_sleep(View(q, NotWaking), t, TWait(h))
  OBVIOUS
<1>8. r = [v EXCEPT ![TWait(h)] = Append(v[TWait(h)], t)]
  BY <1>4, <1>7 DEF scheduler_sleep
<1>9. r = [l \in WaitLists \cup {RunQ} |-> r[l]]
  BY <1>5, <1>8
<1>10. PICK x : x = [u EXCEPT ![h] = Append(u[h], t)]
  OBVIOUS
<1>11. x[h] = Append(u[h], t) /\ \A g \in Heads \ {h} : x[g] = u[g]
  BY <1>2, <1>10
<1>12. r[RunQ] = x[RunQueue]
  BY <1>1, <1>5, <1>6, <1>8, <1>11
<1>13. ASSUME NEW g \in Heads \ {RunQueue} PROVE r[TWait(g)] = x[g]
  <2>1. g # h => TWait(g) # TWait(h)
    BY DEF TWait
  <2> QED BY <1>5, <1>6, <1>8, <1>11, <2>1
<1>14. r = View(x, NotWaking)
  <2>1. PICK w \in Heads : w = NotWaking
    BY <1>1
  <2>2. r[RunQ] = IF w = NotWaking THEN x[RunQueue] ELSE x[RunQueue] \o x[w]
    BY <1>12, <2>1
  <2>3. \A g \in Heads \ {RunQueue} : r[TWait(g)] = IF w = g THEN <<>> ELSE x[g]
    BY <1>1, <1>13, <2>1
  <2>4. HasValues(r, x, w)
    BY <1>9, <2>2, <2>3 DEF HasValues
  <2>5. r = View(x, w)
    BY <2>4, ViewIs
  <2> QED BY <2>1, <2>5
<1> QED BY <1>2, <1>7, <1>10, <1>14

LEMMA ViewWake ==
  ASSUME NEW q \in [Heads -> Seq(Items)], NEW w \in Heads \ {RunQueue}
  PROVE  View(q, w) = scheduler_wake(View(q, NotWaking), TWait(w))
<1>1. RunQueue \in Heads /\ NotWaking = RunQueue /\ NotWaking \in Heads /\ w # NotWaking
  BY NodesAssumption DEF NotWaking
<1>2. PICK v : v = View(q, NotWaking)
  OBVIOUS
<1>3. v = [l \in WaitLists \cup {RunQ} |-> v[l]]
  BY <1>2 DEF View
<1>4. /\ v[RunQ] = q[RunQueue] /\ RunQ \notin WaitLists
      /\ \A h \in Heads \ {RunQueue} : TWait(h) \in WaitLists /\ v[TWait(h)] = q[h]
  BY <1>1, <1>2, ViewValue
<1>5. PICK r : r = scheduler_wake(v, TWait(w))
  OBVIOUS
<1>6. r = [v EXCEPT ![RunQ] = v[RunQ] \o v[TWait(w)], ![TWait(w)] = <<>>]
  BY <1>5 DEF scheduler_wake
<1>7. r = [l \in WaitLists \cup {RunQ} |-> r[l]]
  BY <1>3, <1>6
<1>8. TWait(w) # RunQ /\ TWait(w) \in WaitLists
  BY <1>4
<1>9. r[RunQ] = q[RunQueue] \o q[w]
  BY <1>3, <1>4, <1>6, <1>8
<1>10. ASSUME NEW h \in Heads \ {RunQueue} PROVE r[TWait(h)] = IF w = h THEN <<>> ELSE q[h]
  <2>1. h # w => TWait(h) # TWait(w)
    BY DEF TWait
  <2>2. TWait(h) # RunQ /\ TWait(h) \in WaitLists /\ v[TWait(h)] = q[h]
    BY <1>4
  <2> QED BY <1>3, <1>6, <2>1, <2>2
<1>11. r = View(q, w)
  <2>1. r[RunQ] = IF w = NotWaking THEN q[RunQueue] ELSE q[RunQueue] \o q[w]
    BY <1>1, <1>9
  <2>2. HasValues(r, q, w)
    BY <1>7, <1>10, <2>1 DEF HasValues
  <2> QED BY <2>2, ViewIs
<1> QED BY <1>2, <1>5, <1>11

\* An iteration of scheduler_wake takes the first thread of the woken list to
\* the end of the run queue, and changes nothing in the view.
LEMMA ViewMove ==
  ASSUME NEW q \in [Heads -> Seq(Items)], NEW w \in Heads \ {RunQueue},
         q[w] # <<>>, NEW u \in [Heads -> Seq(Items)],
         u[RunQueue] = Append(q[RunQueue], Head(q[w])), u[w] = Tail(q[w]),
         \A h \in Heads \ {RunQueue, w} : u[h] = q[h]
  PROVE  View(u, w) = View(q, w)
<1>1. RunQueue \in Heads /\ w # NotWaking /\ w \in Heads
  BY NodesAssumption DEF NotWaking
<1>2. PICK v : v = View(q, w)
  OBVIOUS
<1>3. v = [l \in WaitLists \cup {RunQ} |-> v[l]]
  BY <1>2 DEF View
<1>4. /\ v[RunQ] = q[RunQueue] \o q[w]
      /\ \A h \in Heads \ {RunQueue} : v[TWait(h)] = IF w = h THEN <<>> ELSE q[h]
  <2>1. v[RunQ] = IF w = NotWaking THEN q[RunQueue] ELSE q[RunQueue] \o q[w]
    BY <1>1, <1>2, ViewValue
  <2>2. \A h \in Heads \ {RunQueue} : v[TWait(h)] = IF w = h THEN <<>> ELSE q[h]
    BY <1>1, <1>2, ViewValue
  <2> QED BY <1>1, <2>1, <2>2
<1>5. q[RunQueue] \o q[w] = u[RunQueue] \o u[w]
  <2>1. PICK a \in Seq(Items), b \in Seq(Items) : a = q[RunQueue] /\ b = q[w] /\ b # <<>>
    BY <1>1
  <2>2. u[RunQueue] = Append(a, Head(b)) /\ u[w] = Tail(b)
    BY <2>1
  <2>3. a \o b = Append(a, Head(b)) \o Tail(b)
    <3>1. Append(a, Head(b)) \in Seq(Items) /\ Tail(b) \in Seq(Items) /\ Head(b) \in Items
          /\ Len(b) \in Nat /\ Len(b) >= 1 /\ Head(b) = b[1]
          /\ Len(Tail(b)) = Len(b) - 1 /\ \A i \in 1..Len(Tail(b)) : Tail(b)[i] = b[i + 1]
      BY <2>1, HeadTailProperties
    <3>2. PICK c \in Seq(Items), e \in Seq(Items) : c = Append(a, Head(b)) /\ e = Tail(b)
      BY <3>1
    <3>3. /\ Len(c) = Len(a) + 1 /\ c[Len(a) + 1] = b[1]
          /\ \A i \in 1..Len(a) : c[i] = a[i]
      BY <3>1, <3>2
    <3>4. /\ a \o b \in Seq(Items) /\ Len(a \o b) = Len(a) + Len(b)
          /\ \A i \in 1..(Len(a) + Len(b)) :
                (a \o b)[i] = IF i <= Len(a) THEN a[i] ELSE b[i - Len(a)]
      BY ConcatProperties
    <3>5. /\ c \o e \in Seq(Items) /\ Len(c \o e) = Len(c) + Len(e)
          /\ \A i \in 1..(Len(c) + Len(e)) :
                (c \o e)[i] = IF i <= Len(c) THEN c[i] ELSE e[i - Len(c)]
      BY ConcatProperties
    <3>6. PICK k \in Nat, n \in Nat : k = Len(a) /\ n = Len(b) /\ n >= 1
      <4>1. Len(a) \in Nat
        BY LenProperties
      <4> QED BY <3>1, <4>1
    <3>7. Len(a \o b) = k + n /\ Len(c \o e) = k + n
      BY <3>1, <3>2, <3>3, <3>4, <3>5, <3>6
    <3>8. ASSUME NEW i \in 1..(k + n) PROVE (a \o b)[i] = (c \o e)[i]
      <4>1. (a \o b)[i] = IF i <= k THEN a[i] ELSE b[i - k]
        BY <3>4, <3>6
      <4>2. (c \o e)[i] = IF i <= k + 1 THEN c[i] ELSE e[i - (k + 1)]
        BY <3>3, <3>5, <3>6, <3>7
      <4>3. CASE i <= k
        BY <3>3, <3>6, <4>1, <4>2, <4>3
      <4>4. CASE i = k + 1
        BY <3>3, <3>6, <4>1, <4>2, <4>4
      <4>5. CASE i > k + 1
        <5>1. i - (k + 1) \in 1..(n - 1) /\ (i - (k + 1)) + 1 = i - k
          BY <3>6, <4>5
        <5>2. e[i - (k + 1)] = b[i - k]
          BY <3>1, <3>2, <3>6, <5>1
        <5> QED BY <3>6, <4>1, <4>2, <4>5, <5>2
      <4>6. i <= k \/ i = k + 1 \/ i > k + 1
        OBVIOUS
      <4> QED BY <4>3, <4>4, <4>5, <4>6
    <3>9. a \o b = c \o e
      <4>1. PICK f \in Seq(Items), g \in Seq(Items) : f = a \o b /\ g = c \o e
        BY <3>4, <3>5
      <4>2. Len(f) = k + n /\ Len(g) = k + n
        BY <3>7, <4>1
      <4>3. \A i \in 1..Len(f) : f[i] = g[i]
        BY <3>8, <4>1, <4>2
      <4>4. f = g
        BY <4>2, <4>3, SeqEqual
      <4> QED BY <4>1, <4>4
    <3> QED BY <3>2, <3>9
  <2> QED BY <2>1, <2>2, <2>3
<1>6. v[RunQ] = IF w = NotWaking THEN u[RunQueue] ELSE u[RunQueue] \o u[w]
  BY <1>1, <1>4, <1>5
<1>7. \A h \in Heads \ {RunQueue} : v[TWait(h)] = IF w = h THEN <<>> ELSE u[h]
  BY <1>4
<1>8. v = View(u, w)
  <2>1. HasValues(v, u, w)
    BY <1>3, <1>6, <1>7 DEF HasValues
  <2> QED BY <1>1, <2>1, ViewIs
<1> QED BY <1>2, <1>8

\* At its end nothing is left to move.
LEMMA ViewEnd ==
  ASSUME NEW q \in [Heads -> Seq(Items)], NEW w \in Heads \ {RunQueue}, q[w] = <<>>
  PROVE  View(q, NotWaking) = View(q, w)
<1>1. RunQueue \in Heads /\ NotWaking = RunQueue /\ NotWaking \in Heads /\ w # NotWaking
  BY NodesAssumption DEF NotWaking
<1>2. PICK v : v = View(q, w)
  OBVIOUS
<1>3. v = [l \in WaitLists \cup {RunQ} |-> v[l]]
  BY <1>2 DEF View
<1>4. /\ v[RunQ] = q[RunQueue] \o q[w]
      /\ \A h \in Heads \ {RunQueue} : v[TWait(h)] = IF w = h THEN <<>> ELSE q[h]
  <2>1. v[RunQ] = IF w = NotWaking THEN q[RunQueue] ELSE q[RunQueue] \o q[w]
    BY <1>1, <1>2, ViewValue
  <2>2. \A h \in Heads \ {RunQueue} : v[TWait(h)] = IF w = h THEN <<>> ELSE q[h]
    BY <1>1, <1>2, ViewValue
  <2> QED BY <1>1, <2>1, <2>2
<1>5. q[RunQueue] \o q[w] = q[RunQueue]
  <2>1. q[RunQueue] \in Seq(Items)
    BY <1>1
  <2> QED BY <2>1, ConcatEmptySeq
<1>6. v = View(q, NotWaking)
  <2>1. PICK n \in Heads : n = NotWaking
    BY <1>1
  <2>2. v[RunQ] = IF n = NotWaking THEN q[RunQueue] ELSE q[RunQueue] \o q[n]
    BY <1>4, <1>5, <2>1
  <2>3. \A h \in Heads \ {RunQueue} : v[TWait(h)] = IF n = h THEN <<>> ELSE q[h]
    BY <1>1, <1>4, <2>1
  <2>4. HasValues(v, q, n)
    BY <1>3, <2>2, <2>3 DEF HasValues
  <2>5. v = View(q, n)
    BY <2>4, ViewIs
  <2> QED BY <2>1, <2>5
<1> QED BY <1>2, <1>6
-----------------------------------------------------------------------------
\* What the lists say of one thread: alone in memory, it is on none of them.
LEMMA DetachedUnlisted ==
  ASSUME NEW m, NEW q, Listed(m, q), NEW t \in Items, m.next[t] = t, NEW g \in Heads
  PROVE  t \notin ToSet(q[g])
<1> SUFFICES ASSUME t \in ToSet(q[g]) PROVE FALSE
  OBVIOUS
<1>1. q[g] \in Seq(Items) /\ Follows(m.next, g, q[g]) /\ IsInjective(q[g])
  BY DEF Listed
<1>2. PICK i \in 1..Len(q[g]) : q[g][i] = t
  BY <1>1, SetOf
<1>3. /\ Len(q[g]) \in Nat /\ i \in 0..Len(q[g]) /\ Place(g, q[g], i) = t
      /\ Place(g, q[g], Len(q[g]) + 1) = g
      /\ \A j \in 1..Len(q[g]) : Place(g, q[g], j) = q[g][j]
  BY <1>1, <1>2, PlaceValue
<1>4. Place(g, q[g], i + 1) = t
  BY <1>1, <1>3 DEF Follows
<1>5. i # Len(q[g])
  BY <1>3, <1>4, NodesAssumption
<1>6. i + 1 \in 1..Len(q[g]) /\ q[g][i + 1] = t /\ i + 1 # i
  BY <1>2, <1>3, <1>4, <1>5
<1> QED BY <1>1, <1>2, <1>6 DEF IsInjective

\* The first thread of a list is where its head points.
LEMMA FirstOfList ==
  ASSUME NEW n, NEW h \in Heads, NEW s \in Seq(Items), Follows(n, h, s)
  PROVE  n[h] = IF s = <<>> THEN h ELSE Head(s)
<1>1. /\ Len(s) \in Nat /\ Place(h, s, 0) = h /\ Place(h, s, Len(s) + 1) = h
      /\ \A i \in 1..Len(s) : Place(h, s, i) = s[i]
  BY PlaceValue
<1>2. n[h] = Place(h, s, 1)
  <2>1. 0 \in 0..Len(s) /\ 0 + 1 = 1
    BY <1>1
  <2>2. n[Place(h, s, 0)] = Place(h, s, 1)
    BY <2>1 DEF Follows
  <2> QED BY <1>1, <2>2
<1>3. CASE s = <<>>
  BY <1>1, <1>2, <1>3
<1>4. CASE s # <<>>
  <2>1. Len(s) >= 1 /\ Head(s) = s[1]
    BY <1>4
  <2> QED BY <1>1, <1>2, <1>4, <2>1
<1> QED BY <1>3, <1>4

\* The thread after the first, and the list without the first.
LEMMA SecondOfList ==
  ASSUME NEW n, NEW h \in Heads, NEW s \in Seq(Items), Follows(n, h, s),
         IsInjective(s), s # <<>>
  PROVE  /\ n[Head(s)] = IF Tail(s) = <<>> THEN h ELSE Head(Tail(s))
         /\ Unlink(s, Head(s)) = Tail(s) /\ Head(s) \in ToSet(s) /\ Head(s) \in Items
         /\ Tail(s) \in Seq(Items)
<1>1. /\ Len(s) \in Nat /\ Place(h, s, 0) = h /\ Place(h, s, Len(s) + 1) = h
      /\ \A i \in 1..Len(s) : Place(h, s, i) = s[i] /\ s[i] \in Items
  BY PlaceValue
<1>2. /\ Len(s) >= 1 /\ Head(s) = s[1] /\ Tail(s) \in Seq(Items)
      /\ Len(Tail(s)) = Len(s) - 1 /\ \A i \in 1..(Len(s) - 1) : Tail(s)[i] = s[i + 1]
  <2>1. Len(s) >= 1
    OBVIOUS
  <2> QED BY <2>1, HeadTailProperties
<1>3. n[Head(s)] = Place(h, s, 2)
  <2>1. 1 \in 0..Len(s) /\ 1 \in 1..Len(s) /\ 1 + 1 = 2
    BY <1>1, <1>2
  <2>2. n[Place(h, s, 1)] = Place(h, s, 2)
    BY <2>1 DEF Follows
  <2> QED BY <1>1, <1>2, <2>1, <2>2
<1>4. n[Head(s)] = IF Tail(s) = <<>> THEN h ELSE Head(Tail(s))
  <2>1. CASE Tail(s) = <<>>
    <3>1. Len(Tail(s)) = 0
      BY <2>1, EmptySeq
    <3>2. PICK c \in Nat : c = Len(s)
      BY <1>1
    <3>3. 0 = c - 1
      BY <1>2, <3>1, <3>2
    <3>4. c = 1
      BY <3>3
    <3>5. Len(s) + 1 = 2
      BY <3>2, <3>4
    <3> QED BY <1>1, <1>3, <2>1, <3>5
  <2>2. CASE Tail(s) # <<>>
    <3>1. Len(Tail(s)) >= 1 /\ Head(Tail(s)) = Tail(s)[1]
      BY <1>2, <2>2
    <3>2. 2 \in 1..Len(s) /\ Head(Tail(s)) = s[2]
      BY <1>1, <1>2, <3>1
    <3> QED BY <1>1, <1>3, <2>2, <3>2
  <2> QED BY <2>1, <2>2
<1>6. Head(s) \in ToSet(s) /\ Head(s) \in Items
  <2>1. 1 \in 1..Len(s)
    BY <1>1, <1>2
  <2> QED BY <1>1, <1>2, <2>1, SetOf
<1>7. Unlink(s, Head(s)) = Tail(s)
  <2> DEFINE i == CHOOSE i \in 1..Len(s) : s[i] = Head(s)
  <2>1. 1 \in 1..Len(s) /\ s[1] = Head(s)
    BY <1>1, <1>2
  <2>2. i \in 1..Len(s) /\ s[i] = Head(s)
    BY <2>1
  <2>3. i = 1
    <3> HIDE DEF i
    <3> QED BY <2>1, <2>2 DEF IsInjective
  <2>4. Unlink(s, Head(s)) = RemoveAt(s, i)
    BY <1>6 DEF Unlink
  <2>5. RemoveAt(s, 1) \in Seq(Items) /\ Len(RemoveAt(s, 1)) = Len(s) - 1
    BY <2>1, RemoveAtValue
  <2>6. \A k \in 1..(Len(s) - 1) : RemoveAt(s, 1)[k] = s[k + 1]
    <3>1. \A k \in 1..(Len(s) - 1) : RemoveAt(s, 1)[k] = IF k < 1 THEN s[k] ELSE s[k + 1]
      BY <2>1, RemoveAtValue
    <3> QED BY <1>1, <3>1
  <2>7. RemoveAt(s, 1) = Tail(s)
    BY <1>2, <2>5, <2>6, SeqEqual
  <2> QED BY <2>3, <2>4, <2>7
<1> QED BY <1>2, <1>4, <1>6, <1>7

\* A thread is queued in the view only if it is on a list.
LEMMA ViewQueued ==
  ASSUME NEW q, NEW t, \A g \in Heads : t \notin ToSet(q[g]), queues = View(q, NotWaking)
  PROVE  ~ Queues!Queued(t)
<1>1. RunQueue \in Heads /\ NotWaking = RunQueue
  BY NodesAssumption DEF NotWaking
<1>2. PICK v : v = View(q, NotWaking)
  OBVIOUS
<1>3. PICK w \in Heads : w = NotWaking
  BY <1>1
<1>4. /\ DOMAIN v = WaitLists \cup {RunQ} /\ v[RunQ] = q[RunQueue]
      /\ \A l \in WaitLists : \E h \in Heads \ {RunQueue} : l = TWait(h)
  BY <1>2, <1>3, ViewValue
<1>5. \A h \in Heads \ {RunQueue} : v[TWait(h)] = q[h]
  BY <1>1, <1>2, <1>3, ViewValue
<1>6. ASSUME NEW l \in DOMAIN v PROVE t \notin ToSet(v[l])
  <2>1. CASE l = RunQ
    BY <1>1, <1>4, <2>1
  <2>2. CASE l \in WaitLists
    <3>1. PICK h \in Heads \ {RunQueue} : l = TWait(h)
      BY <1>4, <2>2
    <3>2. v[l] = q[h]
      BY <1>5, <3>1
    <3> QED BY <3>2
  <2> QED BY <1>4, <1>6, <2>1, <2>2
<1>7. \A s : Queues!ToSet(s) = ToSet(s)
  BY SameOperators
<1>8. queues = v
  BY <1>2
<1> QED BY <1>6, <1>7, <1>8 DEF Queues!Queued

\* What holds besides: there are such lists, and the loop of scheduler_wake is
\* always about to move the first thread of the list it empties.
Walking == /\ \E q : Listed(Memory, q)
           /\ waking # NotWaking => cursor = next[waking]

LEMMA QueuesNow == \A q : Listed(Memory, q) /\ waking \in Heads => queues = View(q, waking)
BY QueuesAreView

LEMMA QueuesNext ==
  \A q : Listed(Memory', q) /\ waking' \in Heads => queues' = View(q, waking')
<1>1. (\A q : Listed(Memory, q) /\ waking \in Heads => queues = View(q, waking))'
  BY QueuesNow, PTL
<1> QED BY <1>1

\* A step that stores memory with lists u.
LEMMA StoreQueues ==
  ASSUME NEW m \in Pointers, Store(m), NEW u, Listed(m, u), waking' \in Heads
  PROVE  (\E q : Listed(Memory, q))' /\ queues' = View(u, waking')
<1>1. Memory' = m
  BY DEF Memory, Mem, Store, Pointers
<1>2. Listed(Memory', u)
  BY <1>1
<1> QED BY <1>2, QueuesNext

\* Initially all lists are empty.
LEMMA InitWalking == Init => Walking /\ Queues!QInit
<1> SUFFICES ASSUME Init PROVE Walking /\ Queues!QInit
  OBVIOUS
<1>1. PICK q : q = [h \in Heads |-> <<>>]
  OBVIOUS
<1>2. RunQueue \in Heads /\ waking = NotWaking /\ waking \in Heads /\ waking = RunQueue
  BY NodesAssumption DEF Init, NotWaking
<1>3. ASSUME NEW h \in Heads PROVE Follows(Memory.next, h, q[h]) /\ IsInjective(q[h])
  <2>1. Memory.next[h] = h /\ q[h] = <<>>
    BY <1>1 DEF Init, Memory, Mem, Node
  <2>2. PICK s \in Seq(Items) : s = <<>>
    BY EmptySeq
  <2>3. Len(s) = 0 /\ DOMAIN s = {} /\ Place(h, s, 0) = h /\ Place(h, s, 1) = h
    BY <2>2 DEF Place
  <2>4. 0..Len(s) = {0} /\ 0 + 1 = 1
    BY <2>3
  <2>5. Follows(Memory.next, h, s)
    BY <2>1, <2>3, <2>4 DEF Follows
  <2>6. IsInjective(s)
    BY <2>3 DEF IsInjective
  <2> QED BY <2>1, <2>2, <2>5, <2>6
<1>4. Listed(Memory, q)
  <2>1. q \in [Heads -> Seq(Items)]
    BY <1>1
  <2>2. \A g, h \in Heads : g # h => ToSet(q[g]) \cap ToSet(q[h]) = {}
    <3>1. <<>> \in Seq(Items)
      BY EmptySeq
    <3>2. ToSet(<<>>) = {}
      BY <3>1, EmptySet
    <3> QED BY <1>1, <3>2
  <2>3. \A t \in Items : Memory.next[t] = t
    BY DEF Init, Memory, Mem, Node
  <2> QED BY <1>3, <2>1, <2>2, <2>3 DEF Listed
<1>5. queues = View(q, waking)
  BY <1>2, <1>4, QueuesNow
<1>6. PICK v : v = [l \in WaitLists \cup {RunQ} |-> <<>>]
  OBVIOUS
<1>7. HasValues(v, q, waking)
  <2>1. v[RunQ] = q[RunQueue]
    BY <1>1, <1>2, <1>6
  <2>2. \A h \in Heads \ {RunQueue} : v[TWait(h)] = <<>> /\ q[h] = <<>>
    BY <1>1, <1>6 DEF WaitLists
  <2> QED BY <1>2, <1>6, <2>1, <2>2 DEF HasValues
<1>8. queues = v
  BY <1>2, <1>5, <1>7, ViewIs
<1>9. Queues!QInit
  BY <1>6, <1>8, SameOperators DEF Queues!QInit
<1> QED BY <1>2, <1>4, <1>9 DEF Walking

\* Every step on the lists is a step of the queues, or changes none of them.
LEMMA NextWalking == IInv /\ Walking /\ [Next]_vars => Walking' /\ [Queues!QNext]_queues
<1> SUFFICES ASSUME IInv, Walking, [Next]_vars PROVE Walking' /\ [Queues!QNext]_queues
  OBVIOUS
<1>1. /\ Memory \in Pointers /\ Rings(Memory)
      /\ \A n \in Node : Memory.next[n] = next[n]
  BY MemoryRings
<1>2. PICK q \in [Heads -> Seq(Items)] : Listed(Memory, q)
  BY DEF Walking, Listed
<1>3. /\ waking \in Heads /\ cursor \in Node /\ RunQueue \in Heads /\ RunQueue \in Node
      /\ NotWaking = RunQueue /\ waking' \in Heads
  <2>1. IInv'
    BY NextInv
  <2> QED BY <2>1, NodesAssumption DEF IInv, TypeOK, Node, NotWaking
<1>4. \A t \in Items : t \in Node /\ t \notin Heads
  BY NodesAssumption DEF Node
<1>5. queues = View(q, waking)
  BY <1>2, <1>3, QueuesNow
<1>6. ASSUME NEW t \in Items, Detached(t), NEW g \in Heads PROVE t \notin ToSet(q[g])
  <2>1. Memory.next[t] = t
    BY <1>1, <1>4, <1>6 DEF Detached
  <2> QED BY <1>2, <2>1, DetachedUnlisted
<1>7. ASSUME NEW t \in Items, Insert(t) PROVE Walking' /\ Queues!QInsert(t)
  <2>1. /\ Detached(t) /\ waking = NotWaking /\ waking' = NotWaking
        /\ Store(append_to_list(Memory, RunQueue, t))
    BY <1>7 DEF Insert, Idle
  <2>2. \A g \in Heads : t \notin ToSet(q[g])
    BY <1>6, <2>1
  <2>3. PICK m \in Pointers : m = append_to_list(Memory, RunQueue, t)
    BY <1>1, <1>3, <1>4, <2>1, AppendRings DEF Detached
  <2>4. PICK u : u = [q EXCEPT ![RunQueue] = Append(q[RunQueue], t)]
    OBVIOUS
  <2>5. Listed(m, u)
    BY <1>1, <1>2, <1>3, <2>2, <2>3, <2>4, AppendListed
  <2>6. (\E p : Listed(Memory, p))' /\ queues' = View(u, waking')
    BY <1>3, <2>1, <2>3, <2>5, StoreQueues
  <2>7. View(u, NotWaking) = scheduler_insert(View(q, NotWaking), t)
    BY <2>4, ViewInsert
  <2>8. queues' = Queues!scheduler_insert(queues, t)
    BY <1>5, <2>1, <2>6, <2>7, SameOperators
  <2>9. ~ Queues!Queued(t)
    BY <1>5, <2>1, <2>2, ViewQueued
  <2>10. Walking'
    BY <2>1, <2>6 DEF Walking, NotWaking
  <2> QED BY <2>8, <2>9, <2>10 DEF Queues!QInsert
<1>8. ASSUME NEW t \in Items, Cheat(t) PROVE Walking' /\ Queues!QCheat(t)
  <2>1. /\ Detached(t) /\ waking = NotWaking /\ waking' = NotWaking
        /\ Store(insert_first(Memory, RunQueue, t))
    BY <1>8 DEF Cheat, Idle
  <2>2. \A g \in Heads : t \notin ToSet(q[g])
    BY <1>6, <2>1
  <2>3. PICK m \in Pointers : m = insert_first(Memory, RunQueue, t)
    BY <1>1, <1>3, <1>4, <2>1, FirstRings DEF Detached
  <2>4. PICK u : u = [q EXCEPT ![RunQueue] = Cons(t, q[RunQueue])]
    OBVIOUS
  <2>5. Listed(m, u)
    BY <1>1, <1>2, <1>3, <2>2, <2>3, <2>4, FirstListed
  <2>6. (\E p : Listed(Memory, p))' /\ queues' = View(u, waking')
    BY <1>3, <2>1, <2>3, <2>5, StoreQueues
  <2>7. View(u, NotWaking) = scheduler_cheat(View(q, NotWaking), t)
    BY <2>4, ViewCheat
  <2>8. queues' = Queues!scheduler_cheat(queues, t)
    BY <1>5, <2>1, <2>6, <2>7, SameOperators
  <2>9. ~ Queues!Queued(t)
    BY <1>5, <2>1, <2>2, ViewQueued
  <2>10. Walking'
    BY <2>1, <2>6 DEF Walking, NotWaking
  <2> QED BY <2>8, <2>9, <2>10 DEF Queues!QCheat
<1>9. ASSUME NEW t \in Items, Drop(t) PROVE Walking' /\ Queues!QRemove(t)
  <2>1. waking = NotWaking /\ waking' = NotWaking /\ Store(remove_from_list(Memory, t))
    BY <1>9 DEF Drop, Idle
  <2>3. PICK m \in Pointers : m = remove_from_list(Memory, t)
    BY <1>1, <1>4, RemoveRings
  <2>4. PICK u : u = [h \in Heads |-> Unlink(q[h], t)]
    OBVIOUS
  <2>5. Listed(m, u)
    BY <1>1, <1>2, <2>3, <2>4, RemoveListed
  <2>6. (\E p : Listed(Memory, p))' /\ queues' = View(u, waking')
    BY <1>3, <2>1, <2>3, <2>5, StoreQueues
  <2>7. View(u, NotWaking) = scheduler_remove(View(q, NotWaking), t)
    BY <2>4, ViewRemove
  <2>8. queues' = Queues!scheduler_remove(queues, t)
    BY <1>5, <2>1, <2>6, <2>7, SameOperators
  <2>10. Walking'
    BY <2>1, <2>6 DEF Walking, NotWaking
  <2> QED BY <2>8, <2>10 DEF Queues!QRemove
<1>10. ASSUME NEW t \in Items, NEW h \in Heads \ {RunQueue}, Sleep(t, h)
       PROVE  Walking' /\ Queues!QSleep(t, TWait(h))
  <2>1. /\ waking = NotWaking /\ waking' = NotWaking
        /\ Store(append_to_list(remove_from_list(Memory, t), h, t))
    BY <1>10 DEF Sleep, Idle
  <2>2. PICK r \in Pointers : r = remove_from_list(Memory, t) /\ Rings(r) /\ r.next[t] = t
    BY <1>1, <1>4, RemoveRings
  <2>3. PICK v : v = [g \in Heads |-> Unlink(q[g], t)]
    OBVIOUS
  <2>4. Listed(r, v)
    BY <1>1, <1>2, <2>2, <2>3, RemoveListed
  <2>5. \A g \in Heads : t \notin ToSet(v[g])
    BY <2>2, <2>4, DetachedUnlisted
  <2>6. PICK m \in Pointers : m = append_to_list(r, h, t)
    BY <1>4, <2>2, AppendRings DEF Node
  <2>7. PICK u : u = [v EXCEPT ![h] = Append(v[h], t)]
    OBVIOUS
  <2>8. Listed(m, u)
    BY <2>2, <2>4, <2>5, <2>6, <2>7, AppendListed
  <2>9. Store(m)
    BY <2>1, <2>2, <2>6
  <2>10. (\E p : Listed(Memory, p))' /\ queues' = View(u, waking')
    BY <1>3, <2>8, <2>9, StoreQueues
  <2>11. View(u, NotWaking) = scheduler_sleep(View(q, NotWaking), t, TWait(h))
    BY <2>3, <2>7, ViewSleep
  <2>12. queues' = Queues!scheduler_sleep(queues, t, TWait(h))
    BY <1>5, <2>1, <2>10, <2>11, SameOperators
  <2>13. Walking'
    BY <2>1, <2>10 DEF Walking, NotWaking
  <2> QED BY <2>12, <2>13 DEF Queues!QSleep
<1>11. ASSUME NEW h \in Heads \ {RunQueue}, WakeStart(h)
       PROVE  Walking' /\ Queues!QWake(TWait(h))
  <2>1. Store(Memory) /\ waking = NotWaking /\ waking' = h /\ cursor' = next[h] /\ next' = next
    BY <1>11 DEF WakeStart, Store, Memory, Mem
  <2>2. (\E p : Listed(Memory, p))' /\ queues' = View(q, waking')
    BY <1>1, <1>2, <1>3, <2>1, StoreQueues
  <2>3. View(q, h) = scheduler_wake(View(q, NotWaking), TWait(h))
    BY ViewWake
  <2>4. queues' = Queues!scheduler_wake(queues, TWait(h))
    BY <1>5, <2>1, <2>2, <2>3, SameOperators
  <2>5. Walking'
    BY <2>1, <2>2 DEF Walking, NotWaking
  <2> QED BY <2>4, <2>5 DEF Queues!QWake
<1>12. CASE WakeEnd
  <2>1. /\ Store(Memory) /\ waking' = NotWaking /\ waking \in Heads \ {RunQueue}
        /\ next[waking] = waking
    BY <1>3, <1>12 DEF WakeEnd, Store, Memory, Mem, Walking
  <2>2. (\E p : Listed(Memory, p))' /\ queues' = View(q, waking')
    BY <1>1, <1>2, <1>3, <2>1, StoreQueues
  <2>3. q[waking] = <<>>
    <3>1. PICK s \in Seq(Items) : s = q[waking]
      BY <1>3
    <3>2. Follows(Memory.next, waking, s) /\ Memory.next[waking] = waking
      BY <1>1, <1>2, <1>3, <2>1, <3>1 DEF Listed, Node
    <3>3. Memory.next[waking] = IF s = <<>> THEN waking ELSE Head(s)
      BY <1>3, <3>2, FirstOfList
    <3>4. s # <<>> => Head(s) \in Items
      OBVIOUS
    <3> QED BY <1>3, <1>4, <3>1, <3>2, <3>3, <3>4
  <2>4. View(q, NotWaking) = View(q, waking)
    BY <2>1, <2>3, ViewEnd
  <2>5. UNCHANGED queues
    BY <1>5, <2>1, <2>2, <2>4
  <2>6. Walking'
    BY <2>1, <2>2 DEF Walking, NotWaking
  <2> QED BY <2>5, <2>6
<1>13. CASE WakeStep
  <2>1. /\ waking \in Heads \ {RunQueue} /\ waking' = waking /\ cursor' = next[cursor]
        /\ cursor = next[waking] /\ cursor # waking
        /\ Store(append_to_list(remove_from_list(Memory, cursor), RunQueue, cursor))
    BY <1>3, <1>13 DEF WakeStep, Walking
  <2>2. PICK s \in Seq(Items) : s = q[waking]
    BY <1>3
  <2>3. Follows(Memory.next, waking, s) /\ IsInjective(s)
    BY <1>2, <1>3, <2>2 DEF Listed
  <2>4. s # <<>> /\ cursor = Head(s)
    <3>1. Memory.next[waking] = IF s = <<>> THEN waking ELSE Head(s)
      BY <1>3, <2>3, FirstOfList
    <3>2. Memory.next[waking] = cursor
      BY <1>1, <1>3, <2>1 DEF Node
    <3> QED BY <2>1, <3>1, <3>2
  <2>5. /\ Memory.next[cursor] = IF Tail(s) = <<>> THEN waking ELSE Head(Tail(s))
        /\ Unlink(s, cursor) = Tail(s) /\ cursor \in ToSet(s) /\ cursor \in Items
        /\ Tail(s) \in Seq(Items)
    BY <1>3, <2>3, <2>4, SecondOfList
  <2>6. PICK r \in Pointers :
            r = remove_from_list(Memory, cursor) /\ Rings(r) /\ r.next[cursor] = cursor
    BY <1>1, <1>3, RemoveRings
  <2>7. PICK v : v = [g \in Heads |-> Unlink(q[g], cursor)]
    OBVIOUS
  <2>8. Listed(r, v)
    BY <1>1, <1>2, <2>5, <2>6, <2>7, RemoveListed
  <2>9. \A g \in Heads : cursor \notin ToSet(v[g])
    BY <2>5, <2>6, <2>8, DetachedUnlisted
  <2>10. PICK m \in Pointers : m = append_to_list(r, RunQueue, cursor)
    BY <1>3, <1>4, <2>5, <2>6, AppendRings
  <2>11. PICK u : u = [v EXCEPT ![RunQueue] = Append(v[RunQueue], cursor)]
    OBVIOUS
  <2>12. Listed(m, u)
    BY <1>3, <2>5, <2>6, <2>8, <2>9, <2>10, <2>11, AppendListed
  <2>13. Store(m)
    BY <2>1, <2>6, <2>10
  <2>14. (\E p : Listed(Memory, p))' /\ queues' = View(u, waking')
    BY <1>3, <2>12, <2>13, StoreQueues
  <2>15. ASSUME NEW g \in Heads, g # waking PROVE v[g] = q[g]
    <3>1. ToSet(q[g]) \cap ToSet(q[waking]) = {}
      BY <1>2, <1>3, <2>15 DEF Listed
    <3>2. cursor \notin ToSet(q[g])
      BY <2>2, <2>5, <3>1
    <3> QED BY <2>7, <3>2 DEF Unlink
  <2>16. /\ u[RunQueue] = Append(q[RunQueue], cursor) /\ u[waking] = Tail(s)
         /\ \A h \in Heads \ {RunQueue, waking} : u[h] = q[h]
    <3>1. v[RunQueue] = q[RunQueue] /\ v[waking] = Tail(s)
      BY <1>3, <2>1, <2>2, <2>5, <2>7, <2>15
    <3> QED BY <1>3, <2>1, <2>7, <2>11, <2>15, <3>1
  <2>17. u \in [Heads -> Seq(Items)] /\ Follows(m.next, waking, u[waking])
    BY <1>3, <2>12 DEF Listed
  <2>18. View(u, waking) = View(q, waking)
    <3>1. PICK w \in Heads \ {RunQueue} : w = waking
      BY <2>1
    <3>2. /\ q[w] # <<>> /\ u[RunQueue] = Append(q[RunQueue], Head(q[w])) /\ u[w] = Tail(q[w])
          /\ \A h \in Heads \ {RunQueue, w} : u[h] = q[h]
      BY <2>2, <2>4, <2>16, <3>1
    <3>3. View(u, w) = View(q, w)
      BY <2>17, <3>2, ViewMove
    <3> QED BY <3>1, <3>3
  <2>19. UNCHANGED queues
    BY <1>5, <2>1, <2>14, <2>18
  <2>20. cursor' = next'[waking']
    <3>1. PICK e \in Seq(Items) : e = Tail(s)
      BY <2>5
    <3>2. m.next[waking] = IF e = <<>> THEN waking ELSE Head(e)
      <4>1. Follows(m.next, waking, e)
        BY <2>16, <2>17, <3>1
      <4> QED BY <1>3, <4>1, FirstOfList
    <3>3. next' = m.next /\ next[cursor] = Memory.next[cursor]
      BY <1>1, <1>3, <2>13 DEF Store
    <3> QED BY <2>1, <2>5, <3>1, <3>2, <3>3
  <2>21. Walking'
    BY <2>14, <2>20 DEF Walking
  <2> QED BY <2>19, <2>21
<1>14. CASE UNCHANGED vars
  <2>1. Store(Memory) /\ waking' = waking /\ cursor' = cursor /\ next' = next
    BY <1>14 DEF vars, Store, Memory, Mem
  <2>2. (\E p : Listed(Memory, p))' /\ queues' = View(q, waking')
    BY <1>1, <1>2, <1>3, <2>1, StoreQueues
  <2>3. Walking' /\ UNCHANGED queues
    BY <1>5, <2>1, <2>2 DEF Walking, NotWaking
  <2> QED BY <2>3
<1>15. \A h \in Heads \ {RunQueue} : TWait(h) \in WaitLists
  BY DEF WaitLists
<1> QED
  BY <1>7, <1>8, <1>9, <1>10, <1>11, <1>12, <1>13, <1>14, <1>15 DEF Next, Queues!QNext

\* The lists of include/lists.h, walked from their heads, are the queues of
\* threads that the model of processes works with: every sequence of pointer
\* assignments is one step of the queues, and the loop of scheduler_wake,
\* iteration by iteration, is the single step in which a whole list wakes.
THEOREM ListsAreQueues == Spec => ImplementsQueues
<1> QED BY InitInv, NextInv, InitWalking, NextWalking, PTL
        DEF Spec, ImplementsQueues, Queues!QSpec
=============================================================================
