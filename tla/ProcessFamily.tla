---------------------------- MODULE ProcessFamily ----------------------------
(***************************************************************************)
(* The process tree, for any number of processes: the pointers child,      *)
(* older_sibling and younger_sibling always describe a tree of lists, and  *)
(* waitpid and free_process never follow one to a process that is gone.    *)
(*                                                                         *)
(* The pointers alone do not say that a process with children has a        *)
(* youngest one from which all others are found: the invariant (Tree) says *)
(* that there is a sequence of children for every process, in the order of *)
(* the links, which partition the processes, and in which each process is  *)
(* a child of one that was there before it.                                *)
(*                                                                         *)
(* From the tree follows that no step of the kernel ends where it must     *)
(* not, for programs that do what the shipped ones do (NoHaltSafe).        *)
(***************************************************************************)
EXTENDS ProcessSafety

-----------------------------------------------------------------------------
(* Sequences *)

\* Where the members of a sequence go when one is unlinked.
LEMMA UnlinkValue ==
    ASSUME NEW S, NEW s \in Seq(S), IsInjective(s), NEW j \in 1..Len(s)
    PROVE  /\ Unlink(s, s[j]) \in Seq(S) /\ Len(Unlink(s, s[j])) = Len(s) - 1
           /\ \A k \in 1..(Len(s) - 1) :
                 Unlink(s, s[j])[k] = IF k < j THEN s[k] ELSE s[k + 1]
  <1> DEFINE c == CHOOSE i \in 1..Len(s) : s[i] = s[j]
  <1>1. \A i, k \in 1..Len(s) : s[i] = s[k] => i = k
    BY SetOf
  <1>2. c = j
    <2>1. c \in 1..Len(s) /\ s[c] = s[j]
      OBVIOUS
    <2> HIDE DEF c
    <2> QED BY <1>1, <2>1
  <1>3. s[j] \in ToSet(s)
    BY SetOf
  <1>4. Unlink(s, s[j]) = RemoveAt(s, j)
    BY <1>2, <1>3 DEF Unlink
  <1> QED BY <1>4, RemoveAtValue

\* Members of Cons(t, s).
LEMMA ConsValue ==
    ASSUME NEW S, NEW s \in Seq(S), NEW t \in S
    PROVE  /\ Cons(t, s) \in Seq(S) /\ Len(Cons(t, s)) = Len(s) + 1
           /\ Cons(t, s)[1] = t
           /\ \A i \in 2..(Len(s) + 1) : Cons(t, s)[i] = s[i - 1]
  BY DEF Cons

\* Members of s \o u.
LEMMA ConcatValue ==
    ASSUME NEW S, NEW s \in Seq(S), NEW u \in Seq(S)
    PROVE  /\ s \o u \in Seq(S) /\ Len(s \o u) = Len(s) + Len(u)
           /\ \A i \in 1..Len(s) : (s \o u)[i] = s[i]
           /\ \A i \in (Len(s) + 1)..(Len(s) + Len(u)) : (s \o u)[i] = u[i - Len(s)]
  BY ConcatProperties

\* The process list is in the order of the numbers.
Ordered(s) == \A i, j \in 1..Len(s) : i < j => s[i] < s[j]

\* A new process has a larger number than all before it.
LEMMA OrderedAppend ==
    ASSUME NEW s \in Seq(Pid), Ordered(s), NEW c \in Pid, \A p \in ToSet(s) : p < c
    PROVE  Ordered(Append(s, c))
  <1> DEFINE a == Append(s, c)
  <1>1. /\ Len(s) \in Nat /\ Len(a) = Len(s) + 1 /\ a[Len(s) + 1] = c
        /\ \A i \in 1..Len(s) : a[i] = s[i]
    OBVIOUS
  <1> HIDE DEF a
  <1>2. \A i \in 1..Len(s) : s[i] < c
    BY SetOf
  <1>3. ASSUME NEW i \in 1..Len(a), NEW j \in 1..Len(a), i < j
        PROVE  a[i] < a[j]
    <2>1. i \in 1..Len(s)
      BY <1>1, <1>3
    <2>2. CASE j \in 1..Len(s)
      BY <1>1, <1>3, <2>1, <2>2 DEF Ordered
    <2>3. CASE j = Len(s) + 1
      BY <1>1, <1>2, <2>1, <2>3
    <2> QED BY <1>1, <2>2, <2>3
  <1> QED BY <1>3 DEF Ordered, a

\* Taking a process off the list keeps the order, and the first one.
LEMMA OrderedUnlink ==
    ASSUME NEW s \in Seq(Pid), Ordered(s), IsInjective(s), NEW c \in ToSet(s), c # s[1]
    PROVE  /\ Ordered(Unlink(s, c))
           /\ Unlink(s, c) # <<>> /\ Unlink(s, c)[1] = s[1]
  <1>1. PICK j \in 1..Len(s) : c = s[j]
    BY SetOf
  <1> DEFINE u == Unlink(s, s[j])
  <1>2. /\ u \in Seq(Pid) /\ Len(u) = Len(s) - 1 /\ Len(s) \in Nat
        /\ \A k \in 1..(Len(s) - 1) : u[k] = IF k < j THEN s[k] ELSE s[k + 1]
    <2>1. Len(s) \in Nat
      OBVIOUS
    <2>2. /\ Unlink(s, s[j]) \in Seq(Pid) /\ Len(Unlink(s, s[j])) = Len(s) - 1
          /\ \A k \in 1..(Len(s) - 1) :
                Unlink(s, s[j])[k] = IF k < j THEN s[k] ELSE s[k + 1]
      BY UnlinkValue
    <2> HIDE DEF u
    <2> QED BY <2>1, <2>2 DEF u
  <1> HIDE DEF u
  <1>3. j > 1 /\ 1 \in 1..Len(u)
    BY <1>1, <1>2
  <1>4. u # <<>> /\ u[1] = s[1]
    BY <1>2, <1>3
  <1>5. ASSUME NEW i \in 1..Len(u), NEW k \in 1..Len(u), i < k
        PROVE  u[i] < u[k]
    <2> DEFINE ii == IF i < j THEN i ELSE i + 1
               kk == IF k < j THEN k ELSE k + 1
    <2>1. ii \in 1..Len(s) /\ kk \in 1..Len(s) /\ ii < kk
      BY <1>2, <1>5
    <2>2. u[i] = s[ii] /\ u[k] = s[kk]
      BY <1>2
    <2> HIDE DEF ii, kk
    <2> QED BY <2>1, <2>2 DEF Ordered
  <1> QED BY <1>1, <1>4, <1>5 DEF Ordered, u

-----------------------------------------------------------------------------
(* Sibling lists: o and y are values of older and younger *)

\* The youngest of the children s.
Youngest(s) == IF s = <<>> THEN None ELSE s[1]

\* The pointers link s, from the youngest to the oldest.
Chain(s, o, y) ==
    \A i \in 1..Len(s) : /\ o[s[i]] = IF i = Len(s) THEN None ELSE s[i + 1]
                         /\ y[s[i]] = IF i = 1 THEN None ELSE s[i - 1]

\* A chain does not depend on the pointers of others.
LEMMA ChainSame ==
    ASSUME NEW s \in Seq(Pid), NEW o, NEW y, NEW o2, NEW y2, Chain(s, o, y),
           \A x \in ToSet(s) : o2[x] = o[x] /\ y2[x] = y[x]
    PROVE  Chain(s, o2, y2)
  <1>1. \A i \in 1..Len(s) : s[i] \in ToSet(s)
    BY SetOf
  <1> QED BY <1>1 DEF Chain

\* fork_process: one more child in front.
LEMMA ChainCons ==
    ASSUME NEW s \in Seq(Pid), IsInjective(s), NEW c \in Pid, c \notin ToSet(s),
           NEW o, NEW y, NEW o2, NEW y2, Chain(s, o, y),
           o2[c] = Youngest(s), y2[c] = None,
           \A x \in ToSet(s) : o2[x] = o[x] /\ (x # Youngest(s) => y2[x] = y[x]),
           s # <<>> => y2[s[1]] = c
    PROVE  Chain(Cons(c, s), o2, y2)
  <1>1. PICK a \in Seq(Pid), n \in Nat :
           /\ a = Cons(c, s) /\ n = Len(s) /\ Len(a) = n + 1 /\ a[1] = c
           /\ \A i \in 2..(n + 1) : a[i] = s[i - 1]
    BY ConsValue
  <1>2. /\ \A i \in 1..n : s[i] \in ToSet(s)
        /\ \A i, j \in 1..n : s[i] = s[j] => i = j
        /\ s = <<>> <=> n = 0
    <2>1. s = <<>> <=> n = 0
      BY <1>1
    <2>2. /\ \A i \in 1..Len(s) : s[i] \in ToSet(s)
          /\ \A i, j \in 1..Len(s) : s[i] = s[j] => i = j
      BY SetOf
    <2> QED BY <1>1, <2>1, <2>2
  <1>3. \A i \in 1..n : /\ o[s[i]] = IF i = n THEN None ELSE s[i + 1]
                        /\ y[s[i]] = IF i = 1 THEN None ELSE s[i - 1]
    BY <1>1 DEF Chain
  <1>4. /\ o2[a[1]] = IF 1 = n + 1 THEN None ELSE a[1 + 1]
        /\ y2[a[1]] = None
    <2>1. CASE s = <<>>
      BY <1>1, <1>2, <2>1 DEF Youngest
    <2>2. CASE s # <<>>
      <3>1. 2 \in 2..(n + 1) /\ a[2] = s[1]
        BY <1>1, <1>2, <2>2
      <3> QED BY <1>1, <1>2, <2>2, <3>1 DEF Youngest
    <2> QED BY <2>1, <2>2
  <1>5. ASSUME NEW k \in 1..n
        PROVE  /\ o2[a[k + 1]] = IF k = n THEN None ELSE a[(k + 1) + 1]
               /\ y2[a[k + 1]] = a[k]
    <2>1. a[k + 1] = s[k] /\ s # <<>> /\ s[k] \in ToSet(s)
      <3>1. k + 1 \in 2..(n + 1) /\ (k + 1) - 1 = k /\ n # 0
        BY <1>1
      <3> QED BY <1>1, <1>2, <3>1
    <2>2. k # n => a[(k + 1) + 1] = s[k + 1]
      <3>1. k # n => (k + 1) + 1 \in 2..(n + 1) /\ ((k + 1) + 1) - 1 = k + 1
        BY <1>1
      <3> QED BY <1>1, <3>1
    <2>3. o2[a[k + 1]] = IF k = n THEN None ELSE a[(k + 1) + 1]
      BY <1>3, <2>1, <2>2
    <2>4. CASE k = 1
      BY <1>1, <2>1, <2>3, <2>4
    <2>5. CASE k # 1
      <3>1. k \in 2..(n + 1) /\ 1 \in 1..n
        BY <1>1, <2>5
      <3>2. a[k] = s[k - 1]
        BY <1>1, <3>1
      <3>3. s[k] # Youngest(s)
        BY <1>2, <2>1, <2>5, <3>1 DEF Youngest
      <3> QED BY <1>3, <2>1, <2>3, <2>5, <3>2, <3>3
    <2> QED BY <2>3, <2>4, <2>5
  <1>6. ASSUME NEW i \in 1..(n + 1)
        PROVE  /\ o2[a[i]] = IF i = n + 1 THEN None ELSE a[i + 1]
               /\ y2[a[i]] = IF i = 1 THEN None ELSE a[i - 1]
    <2>1. CASE i = 1
      BY <1>4, <2>1
    <2>2. CASE i # 1
      <3>1. PICK k \in 1..n : i = k + 1 /\ i - 1 = k /\ (i = n + 1 <=> k = n)
        <4>1. i - 1 \in 1..n /\ i = (i - 1) + 1 /\ (i = n + 1 <=> i - 1 = n)
          BY <1>1, <2>2
        <4> QED BY <4>1
      <3> QED BY <1>5, <2>2, <3>1
    <2> QED BY <2>1, <2>2
  <1> QED BY <1>1, <1>6 DEF Chain

\* free_process: the children s of a process go in front of those of init, u.
LEMMA ChainConcat ==
    ASSUME NEW s \in Seq(Pid), NEW u \in Seq(Pid), s # <<>>, u # <<>>,
           IsInjective(s), IsInjective(u), ToSet(s) \cap ToSet(u) = {},
           NEW o, NEW y, NEW o2, NEW y2, Chain(s, o, y), Chain(u, o, y),
           o2[s[Len(s)]] = u[1], y2[u[1]] = s[Len(s)],
           \A x \in (ToSet(s) \cup ToSet(u)) \ {s[Len(s)]} : o2[x] = o[x],
           \A x \in (ToSet(s) \cup ToSet(u)) \ {u[1]} : y2[x] = y[x]
    PROVE  Chain(s \o u, o2, y2)
  <1>1. PICK a \in Seq(Pid), m \in Nat, n \in Nat :
           /\ a = s \o u /\ m = Len(s) /\ n = Len(u) /\ Len(a) = m + n
           /\ \A i \in 1..m : a[i] = s[i]
           /\ \A i \in (m + 1)..(m + n) : a[i] = u[i - m]
    <2>1. /\ s \o u \in Seq(Pid) /\ Len(s \o u) = Len(s) + Len(u)
          /\ \A i \in 1..Len(s) : (s \o u)[i] = s[i]
          /\ \A i \in (Len(s) + 1)..(Len(s) + Len(u)) : (s \o u)[i] = u[i - Len(s)]
      BY ConcatValue
    <2>2. Len(s) \in Nat /\ Len(u) \in Nat
      OBVIOUS
    <2> QED BY <2>1, <2>2, Zenon
  <1>2. m >= 1 /\ n >= 1
    BY <1>1
  <1>3. /\ \A i \in 1..m : s[i] \in ToSet(s)
        /\ \A i, j \in 1..m : s[i] = s[j] => i = j
        /\ \A i \in 1..n : u[i] \in ToSet(u)
        /\ \A i, j \in 1..n : u[i] = u[j] => i = j
    <2>1. /\ \A i \in 1..Len(s) : s[i] \in ToSet(s)
          /\ \A i, j \in 1..Len(s) : s[i] = s[j] => i = j
      BY SetOf
    <2>2. /\ \A i \in 1..Len(u) : u[i] \in ToSet(u)
          /\ \A i, j \in 1..Len(u) : u[i] = u[j] => i = j
      BY SetOf
    <2> QED BY <1>1, <2>1, <2>2
  <1>4. \A i \in 1..m : /\ o[s[i]] = IF i = m THEN None ELSE s[i + 1]
                        /\ y[s[i]] = IF i = 1 THEN None ELSE s[i - 1]
    BY <1>1 DEF Chain
  <1>5. \A i \in 1..n : /\ o[u[i]] = IF i = n THEN None ELSE u[i + 1]
                        /\ y[u[i]] = IF i = 1 THEN None ELSE u[i - 1]
    BY <1>1 DEF Chain
  <1>6. \A k \in 1..n : a[m + k] = u[k]
    <2>1. ASSUME NEW k \in 1..n PROVE m + k \in (m + 1)..(m + n) /\ (m + k) - m = k
      BY <1>1
    <2> QED BY <1>1, <2>1
  <1>7. o2[s[m]] = u[1] /\ y2[u[1]] = s[m] /\ 1 \in 1..n /\ m \in 1..m
    BY <1>1, <1>2
  <1>8. /\ \A i \in 1..m : (i # m => o2[s[i]] = o[s[i]]) /\ y2[s[i]] = y[s[i]]
        /\ \A i \in 1..n : o2[u[i]] = o[u[i]] /\ (i # 1 => y2[u[i]] = y[u[i]])
    <2>1. ASSUME NEW i \in 1..m PROVE s[i] # u[1] /\ (i # m => s[i] # s[Len(s)])
      BY <1>1, <1>3, <1>7
    <2>2. ASSUME NEW i \in 1..n PROVE u[i] # s[Len(s)] /\ (i # 1 => u[i] # u[1])
      BY <1>1, <1>3, <1>7
    <2> QED BY <1>3, <2>1, <2>2
  <1>9. ASSUME NEW i \in 1..m
        PROVE  /\ o2[a[i]] = IF i = m + n THEN None ELSE a[i + 1]
               /\ y2[a[i]] = IF i = 1 THEN None ELSE a[i - 1]
    <2>1. a[i] = s[i] /\ i # m + n
      BY <1>1, <1>2
    <2>2. i # 1 => a[i - 1] = s[i - 1]
      BY <1>1
    <2>3. y2[a[i]] = IF i = 1 THEN None ELSE a[i - 1]
      BY <1>4, <1>8, <2>1, <2>2
    <2>4. CASE i = m
      BY <1>6, <1>7, <2>1, <2>3, <2>4
    <2>5. CASE i # m
      <3>1. a[i + 1] = s[i + 1]
        BY <1>1, <2>5
      <3> QED BY <1>4, <1>8, <2>1, <2>3, <2>5, <3>1
    <2> QED BY <2>4, <2>5
  <1>10. ASSUME NEW k \in 1..n
         PROVE  /\ o2[a[m + k]] = IF k = n THEN None ELSE a[m + k + 1]
                /\ y2[a[m + k]] = a[m + k - 1]
    <2>1. k # n => a[m + k + 1] = u[k + 1]
      <3>1. k # n => k + 1 \in 1..n /\ m + (k + 1) = m + k + 1
        BY <1>1
      <3> QED BY <1>6, <3>1
    <2>2. o2[a[m + k]] = IF k = n THEN None ELSE a[m + k + 1]
      <3>1. a[m + k] = u[k] /\ o2[u[k]] = o[u[k]]
        BY <1>6, <1>8
      <3>2. o[u[k]] = IF k = n THEN None ELSE u[k + 1]
        BY <1>5
      <3> QED BY <2>1, <3>1, <3>2
    <2>3. CASE k = 1
      <3>1. m + k - 1 = m
        BY <1>1, <2>3
      <3>2. a[m + k - 1] = s[m] /\ a[m + k] = u[1]
        BY <1>1, <1>6, <1>7, <2>3, <3>1
      <3> QED BY <1>7, <2>2, <3>2
    <2>4. CASE k # 1
      <3>1. k - 1 \in 1..n /\ m + (k - 1) = m + k - 1
        BY <1>1, <2>4
      <3>2. a[m + k - 1] = u[k - 1]
        BY <1>6, <3>1
      <3>3. a[m + k] = u[k] /\ y2[u[k]] = y[u[k]]
        BY <1>6, <1>8, <2>4
      <3>4. y[u[k]] = u[k - 1]
        BY <1>5, <2>4
      <3> QED BY <2>2, <3>2, <3>3, <3>4
    <2> QED BY <2>2, <2>3, <2>4
  <1>11. ASSUME NEW i \in 1..(m + n)
         PROVE  /\ o2[a[i]] = IF i = m + n THEN None ELSE a[i + 1]
                /\ y2[a[i]] = IF i = 1 THEN None ELSE a[i - 1]
    <2>1. CASE i \in 1..m
      BY <1>9, <2>1
    <2>2. CASE i \notin 1..m
      <3>1. PICK k \in 1..n : i = m + k /\ (i = m + n <=> k = n) /\ i # 1
        <4>1. /\ i - m \in 1..n /\ i = m + (i - m) /\ (i = m + n <=> i - m = n)
              /\ i # 1
          BY <1>1, <1>2, <2>2
        <4> QED BY <4>1
      <3>2. /\ o2[a[m + k]] = IF k = n THEN None ELSE a[m + k + 1]
            /\ y2[a[m + k]] = a[m + k - 1]
        BY <1>10
      <3> QED BY <3>1, <3>2
    <2> QED BY <2>1, <2>2
  <1>12. Chain(a, o2, y2)
    <2>1. Len(a) = m + n
      BY <1>1
    <2>2. \A i \in 1..Len(a) : /\ o2[a[i]] = IF i = Len(a) THEN None ELSE a[i + 1]
                               /\ y2[a[i]] = IF i = 1 THEN None ELSE a[i - 1]
      BY <1>11, <2>1
    <2> QED BY <2>2 DEF Chain
  <1> QED BY <1>1, <1>12

\* free_process: p leaves the list, and its siblings are linked to each other.
LEMMA ChainUnlink ==
    ASSUME NEW s \in Seq(Pid), IsInjective(s), NEW p \in ToSet(s),
           NEW o, NEW y, NEW o2, NEW y2, Chain(s, o, y),
           \A x \in ToSet(s) \ {p} :
              /\ o2[x] = IF x = y[p] THEN o[p] ELSE o[x]
              /\ y2[x] = IF x = o[p] THEN y[p] ELSE y[x]
    PROVE  Chain(Unlink(s, p), o2, y2)
  <1>1. PICK j \in 1..Len(s) : p = s[j]
    BY SetOf
  <1>2. PICK a \in Seq(Pid), n \in Nat :
           /\ a = Unlink(s, p) /\ Len(s) = n + 1 /\ Len(a) = n
           /\ \A k \in 1..n : a[k] = IF k < j THEN s[k] ELSE s[k + 1]
    <2>1. /\ Unlink(s, p) \in Seq(Pid) /\ Len(Unlink(s, p)) = Len(s) - 1
          /\ \A k \in 1..(Len(s) - 1) :
                Unlink(s, p)[k] = IF k < j THEN s[k] ELSE s[k + 1]
      BY <1>1, UnlinkValue
    <2>2. Len(s) - 1 \in Nat /\ Len(s) = (Len(s) - 1) + 1
      BY <1>1
    <2> QED BY <2>1, <2>2, Zenon
  <1>3. /\ \A i \in 1..(n + 1) : s[i] \in ToSet(s) /\ s[i] # None
        /\ \A i, k \in 1..(n + 1) : s[i] = s[k] => i = k
    <2>1. /\ \A i \in 1..Len(s) : s[i] \in ToSet(s)
          /\ \A i, k \in 1..Len(s) : s[i] = s[k] => i = k
      BY SetOf
    <2>2. \A i \in 1..Len(s) : s[i] # None
      BY BoundsAssumption DEF Pid, None
    <2> QED BY <1>2, <2>1, <2>2
  <1>4. \A i \in 1..(n + 1) : /\ o[s[i]] = IF i = n + 1 THEN None ELSE s[i + 1]
                              /\ y[s[i]] = IF i = 1 THEN None ELSE s[i - 1]
    BY <1>2 DEF Chain
  <1>5. ASSUME NEW i \in 1..(n + 1), i # j
        PROVE  /\ o2[s[i]] = IF i + 1 = j THEN o[p] ELSE o[s[i]]
               /\ y2[s[i]] = IF i = j + 1 THEN y[p] ELSE y[s[i]]
    <2>1. j \in 1..(n + 1) /\ s[i] # p /\ s[i] \in ToSet(s) /\ s[i] # None
      BY <1>1, <1>2, <1>3, <1>5
    <2>2. s[i] = y[p] <=> i + 1 = j
      <3>1. CASE j = 1
        BY <1>1, <1>4, <2>1, <3>1
      <3>2. CASE j # 1
        <4>1. y[p] = s[j - 1] /\ j - 1 \in 1..(n + 1)
          BY <1>1, <1>4, <2>1, <3>2
        <4>2. s[i] = s[j - 1] <=> i = j - 1
          BY <1>3, <4>1
        <4> QED BY <2>1, <4>1, <4>2
      <3> QED BY <3>1, <3>2
    <2>3. s[i] = o[p] <=> i = j + 1
      <3>1. CASE j = n + 1
        BY <1>1, <1>4, <2>1, <3>1
      <3>2. CASE j # n + 1
        <4>1. o[p] = s[j + 1] /\ j + 1 \in 1..(n + 1)
          BY <1>1, <1>4, <2>1, <3>2
        <4>2. s[i] = s[j + 1] <=> i = j + 1
          BY <1>3, <4>1
        <4> QED BY <2>1, <4>1, <4>2
      <3> QED BY <3>1, <3>2
    <2> QED BY <2>1, <2>2, <2>3
  <1>6. ASSUME NEW k \in 1..n
        PROVE  /\ o2[a[k]] = IF k = n THEN None ELSE a[k + 1]
               /\ y2[a[k]] = IF k = 1 THEN None ELSE a[k - 1]
    <2>0. /\ j \in 1..(n + 1)
          /\ o[p] = IF j = n + 1 THEN None ELSE s[j + 1]
          /\ y[p] = IF j = 1 THEN None ELSE s[j - 1]
      BY <1>1, <1>2, <1>4
    <2>1. CASE k < j
      <3>1. /\ a[k] = s[k] /\ k \in 1..(n + 1) /\ k # j /\ k # j + 1 /\ k # n + 1
            /\ k # 1 => a[k - 1] = s[k - 1]
        BY <1>2, <2>0, <2>1
      <3>2. /\ o2[s[k]] = IF k + 1 = j THEN o[p] ELSE o[s[k]]
            /\ y2[s[k]] = y[s[k]]
        BY <1>5, <3>1
      <3>3. o[s[k]] = s[k + 1] /\ y[s[k]] = IF k = 1 THEN None ELSE s[k - 1]
        BY <1>4, <3>1
      <3>4. CASE k + 1 = j
        <4>1. k = n <=> j = n + 1
          BY <1>2, <3>4
        <4>2. k # n => a[k + 1] = s[j + 1]
          BY <1>2, <2>0, <3>4
        <4> QED BY <2>0, <3>1, <3>2, <3>3, <3>4, <4>1, <4>2
      <3>5. CASE k + 1 # j
        <4>1. k # n /\ k + 1 \in 1..n /\ k + 1 < j
          BY <1>2, <2>0, <2>1, <3>5
        <4>2. a[k + 1] = s[k + 1]
          BY <1>2, <4>1
        <4> QED BY <3>1, <3>2, <3>3, <3>5, <4>1, <4>2
      <3> QED BY <3>4, <3>5
    <2>2. CASE k >= j
      <3>1. /\ a[k] = s[k + 1] /\ k + 1 \in 1..(n + 1) /\ k + 1 # j /\ (k + 1) + 1 # j
            /\ k + 1 # 1 /\ (k + 1 = n + 1 <=> k = n)
            /\ k # n => a[k + 1] = s[(k + 1) + 1]
        BY <1>2, <2>0, <2>2
      <3>2. /\ o2[s[k + 1]] = o[s[k + 1]]
            /\ y2[s[k + 1]] = IF k + 1 = j + 1 THEN y[p] ELSE y[s[k + 1]]
        BY <1>5, <3>1
      <3>3. /\ o[s[k + 1]] = IF k = n THEN None ELSE s[(k + 1) + 1]
            /\ y[s[k + 1]] = s[(k + 1) - 1]
        BY <1>4, <3>1
      <3>4. CASE k = j
        <4>1. k # 1 => a[k - 1] = s[j - 1]
          BY <1>2, <2>0, <3>4
        <4> QED BY <2>0, <3>1, <3>2, <3>3, <3>4, <4>1
      <3>5. CASE k # j
        <4>1. /\ k # 1 /\ k - 1 \in 1..n /\ ~ (k - 1 < j) /\ (k + 1) - 1 = k
              /\ (k - 1) + 1 = k /\ k + 1 # j + 1
          BY <1>2, <2>0, <2>2, <3>5
        <4>2. a[k - 1] = s[k]
          BY <1>2, <4>1
        <4> QED BY <3>1, <3>2, <3>3, <4>1, <4>2
      <3> QED BY <3>4, <3>5
    <2> QED BY <1>2, <2>0, <2>1, <2>2
  <1>7. Chain(a, o2, y2)
    BY <1>2, <1>6 DEF Chain
  <1> QED BY <1>2, <1>7

\* The youngest child after that.
LEMMA YoungestUnlink ==
    ASSUME NEW s \in Seq(Pid), IsInjective(s), NEW p \in ToSet(s), NEW o, NEW y, Chain(s, o, y)
    PROVE  Youngest(Unlink(s, p)) = IF s[1] = p THEN o[p] ELSE s[1]
  <1>1. PICK j \in 1..Len(s) : p = s[j]
    BY SetOf
  <1>2. PICK a \in Seq(Pid), n \in Nat :
           /\ a = Unlink(s, p) /\ Len(s) = n + 1 /\ Len(a) = n
           /\ \A k \in 1..n : a[k] = IF k < j THEN s[k] ELSE s[k + 1]
    <2>1. /\ Unlink(s, p) \in Seq(Pid) /\ Len(Unlink(s, p)) = Len(s) - 1
          /\ \A k \in 1..(Len(s) - 1) :
                Unlink(s, p)[k] = IF k < j THEN s[k] ELSE s[k + 1]
      BY <1>1, UnlinkValue
    <2>2. Len(s) - 1 \in Nat /\ Len(s) = (Len(s) - 1) + 1
      BY <1>1
    <2> QED BY <2>1, <2>2, Zenon
  <1>3. j \in 1..(n + 1) /\ 1 \in 1..(n + 1) /\ (s[1] = p <=> j = 1)
    <2>1. \A i, k \in 1..Len(s) : s[i] = s[k] => i = k
      BY SetOf
    <2> QED BY <1>1, <1>2, <2>1
  <1>4. CASE n = 0
    <2>1. a = <<>> /\ j = 1 /\ o[p] = None
      BY <1>1, <1>2, <1>3, <1>4 DEF Chain
    <2> QED BY <1>2, <1>3, <2>1 DEF Youngest
  <1>5. CASE n # 0
    <2>1. a # <<>> /\ a[1] = IF 1 < j THEN s[1] ELSE s[2]
      BY <1>2, <1>5
    <2>2. j = 1 => o[p] = s[2]
      BY <1>1, <1>2, <1>3, <1>5 DEF Chain
    <2> QED BY <1>2, <1>3, <2>1, <2>2 DEF Youngest
  <1> QED BY <1>4, <1>5

-----------------------------------------------------------------------------
(* The invariant *)

\* S[r] are the children of process r, from the youngest to the oldest.  They
\* partition the processes but the first, and a process is the child of one
\* that is there and was there before it.
Born(S) ==
    /\ S \in [Pid -> Seq(Pid)]
    /\ \A r \in Pid : IsInjective(S[r])
    /\ \A r, m, c \in Pid : c \in ToSet(S[r]) /\ c \in ToSet(S[m]) => r = m
    /\ \A c \in Pid : c \in ToSet(plist) \ {1} <=> \E r \in Pid : c \in ToSet(S[r])
    /\ \A r, c \in Pid : c \in ToSet(S[r]) => r \in ToSet(plist) /\ r < c

\* The pointers of the siblings link the children; child is the youngest,
\* until free_process has given the children of its process away.
Links(S) ==
    /\ \A r \in Pid : Chain(S[r], older, younger)
    /\ older[1] = None /\ younger[1] = None
    /\ \A r \in ToSet(plist) :
          child[r] = Youngest(S[r]) \/ (cpu.pc = "unlink" /\ r = cpu.pr)

\* parent leads to the process that has the child, or it is left over from a
\* process that is gone: free_process does not change it in the oldest child
\* that it gives to init.
Parents(S) ==
    /\ parent[1] = None
    /\ \A r, c \in Pid : c \in ToSet(S[r]) =>
          /\ parent[c] < c
          /\ \/ parent[c] = r
             \/ parent[c] \notin ToSet(plist)
             \/ cpu.pc = "adopt" /\ r = cpu.pr /\ parent[c] = 1
             \/ cpu.pc = "unlink" /\ parent[c] = cpu.pr

\* The loop over the children is at one of them; none is left after it.
Adoption(S) ==
    /\ cpu.pc = "adopt" => cpu.arg \in ToSet(S[cpu.pr])
    /\ cpu.pc = "unlink" => S[cpu.pr] = <<>>

\* Thread t is in waitpid for process p, or frees it.
Waits(t, p) ==
    /\ t \in threads
    /\ IF t = Running /\ cpu.pc # "clean"
       THEN cpu.pc \in {"wait", "free", "adopt", "unlink"} /\ cpu.pr = p
       ELSE kctx[t].pc = "wait" /\ kctx[t].pr = p

\* Only threads of the parent wait for a process, and one at most.
Waiting(S) ==
    /\ \A t \in Tid, p \in Pid : Waits(t, p) =>
          p \in ToSet(S[tproc[t]]) /\ parent[p] = tproc[t]
    /\ \A t, u \in Tid, p \in Pid : Waits(t, p) /\ Waits(u, p) => t = u

First == Ordered(plist) /\ plist # <<>> /\ plist[1] = 1

Tree(S) == First /\ Born(S) /\ Links(S) /\ Parents(S) /\ Adoption(S) /\ Waiting(S)

FInv == IInv /\ \E S : Tree(S)

-----------------------------------------------------------------------------
(* Steps that leave the processes alone *)

\* No thread begins to wait for a process, and those that wait stay where
\* they are.
FewerWaiters ==
    \A t \in Tid, p \in Pid : Waits(t, p)' => Waits(t, p) /\ tproc'[t] = tproc[t]

\* The tree stays when nothing in it changes and no one else waits.
LEMMA TreeKept ==
    ASSUME NEW S, Tree(S), UNCHANGED <<plist, parent, child, older, younger>>, FewerWaiters,
           cpu.pc \notin {"adopt", "unlink"}, cpu'.pc \notin {"adopt", "unlink"}
    PROVE  Tree(S)'
  <1>1. First' /\ Born(S)'
    BY DEF Tree, First, Born, Ordered
  <1>2. Links(S)'
    BY DEF Tree, Links, Chain
  <1>3. Parents(S)' /\ Adoption(S)'
    BY DEF Tree, Parents, Adoption
  <1>4. Waiting(S)'
    <2>1. ASSUME NEW t \in Tid, NEW p \in Pid, Waits(t, p)'
          PROVE  p \in ToSet(S[tproc'[t]]) /\ parent'[p] = tproc'[t]
      <3>1. Waits(t, p) /\ tproc'[t] = tproc[t]
        BY <2>1 DEF FewerWaiters
      <3> QED BY <3>1 DEF Tree, Waiting
    <2>2. ASSUME NEW t \in Tid, NEW u \in Tid, NEW p \in Pid, Waits(t, p)', Waits(u, p)'
          PROVE  t = u
      <3>1. Waits(t, p) /\ Waits(u, p)
        BY <2>2 DEF FewerWaiters
      <3> QED BY <3>1 DEF Tree, Waiting
    <2> QED BY <2>1, <2>2 DEF Waiting
  <1> QED BY <1>1, <1>2, <1>3, <1>4 DEF Tree

\* A step within the work for the same thread.
LEMMA CpuOnly ==
    ASSUME UNCHANGED <<tstate, tproc, kctx>>, Running' = Running,
           cpu.pc # "clean", cpu'.pc # "clean",
           \/ cpu'.pc \notin {"wait", "free", "adopt", "unlink"}
           \/ cpu.pc \in {"wait", "free", "adopt", "unlink"} /\ cpu'.pr = cpu.pr
    PROVE  FewerWaiters
  BY DEF FewerWaiters, Waits, threads

\* schedule(): the current thread is saved and was not waiting, or still is.
LEMMA SwitchedAway ==
    ASSUME kctx \in [Tid -> Context], current \in Tid,
           Running = current, cpu.pc # "clean", cpu'.pc = "clean",
           NEW k, kctx' = [kctx EXCEPT ![current] = k],
           k.pc = "wait" => cpu.pc = "wait" /\ k = cpu,
           threads' \subseteq threads, tproc' = tproc
    PROVE  FewerWaiters
  <1> SUFFICES ASSUME NEW t \in Tid, NEW p \in Pid, Waits(t, p)'
               PROVE  Waits(t, p)
    BY DEF FewerWaiters
  <1>1. t \in threads /\ kctx'[t].pc = "wait" /\ kctx'[t].pr = p
    BY DEF Waits
  <1>2. CASE t = current
    BY <1>1, <1>2 DEF Waits
  <1>3. CASE t # current
    BY <1>1, <1>3 DEF Waits
  <1> QED BY <1>2, <1>3

\* A step that does not concern the tree.
Aside == /\ FewerWaiters
         /\ UNCHANGED <<plist, parent, child, older, younger>>
         /\ cpu.pc \notin {"adopt", "unlink"} /\ cpu'.pc \notin {"adopt", "unlink"}

\* signals.c and the end of a system call or an interrupt.
LEMMA SignalAside ==
    ASSUME IInv, \/ HandleNone \/ HandleIgnore \/ HandleTerminate \/ CheckWaiting \/ Iret
                 \/ SignalSent /\ cpu.by # "segv"
    PROVE  Aside
  <1>t. /\ TInv /\ current \in Tid /\ cpu \in Context
        /\ cpu.pc = "handle" => cpu.then \in {"iret", "check", "sent"}
    BY Types DEF IInv
  <1>k. /\ UNCHANGED <<tstate, tproc, kctx>>
        /\ UNCHANGED <<plist, parent, child, older, younger>>
    BY DEF HandleNone, HandleIgnore, HandleTerminate, CheckWaiting, Iret, SignalSent,
          thrVars, procVars, family
  <1>1. CASE HandleNone \/ HandleIgnore
    <2>1. /\ cpu.pc = "handle" /\ cpu' = [cpu EXCEPT !.pc = cpu.then]
          /\ current' = current
      BY <1>1 DEF HandleNone, HandleIgnore, HandleReturn
    <2>2. cpu'.pc = cpu.then /\ cpu'.arg = cpu.arg
      BY <1>t, <2>1 DEF Context
    <2>3. Running' = Running
      BY <1>t, <2>1, <2>2 DEF Running
    <2>4. FewerWaiters
      BY <1>t, <1>k, <2>1, <2>2, <2>3, CpuOnly
    <2> QED BY <1>t, <1>k, <2>1, <2>2, <2>4 DEF Aside
  <1>2. CASE HandleTerminate
    <2>1. /\ cpu.pc = "handle" /\ Pending(tproc[cpu.arg]) /\ cpu'.pc = "exit"
          /\ current' = current
      BY <1>2 DEF HandleTerminate, K
    <2>2. Running' = Running
      BY <2>1, Delivery DEF Running
    <2>3. FewerWaiters
      BY <1>k, <2>1, <2>2, CpuOnly
    <2> QED BY <1>k, <2>1, <2>3 DEF Aside
  <1>3. CASE CheckWaiting
    <2>1. cpu.pc = "check" /\ current' = current
      BY <1>3 DEF CheckWaiting
    <2>2. \/ cpu'.pc \in {"halt", "sent"}
          \/ cpu'.pc = "handle" /\ cpu'.then = "sent"
      BY <1>3 DEF CheckWaiting, AtHalt, K
    <2>3. Running' = Running
      BY <2>1, <2>2 DEF Running
    <2>4. FewerWaiters
      BY <1>k, <2>1, <2>2, <2>3, CpuOnly
    <2> QED BY <1>k, <2>1, <2>2, <2>4 DEF Aside
  <1>4. CASE Iret
    <2>1. cpu.pc = "iret" /\ cpu'.pc = "user" /\ current' = cpu.arg
      BY <1>4 DEF Iret, AtUser, K
    <2>2. Running' = Running
      BY <2>1 DEF Running
    <2>3. FewerWaiters
      BY <1>k, <2>1, <2>2, CpuOnly
    <2> QED BY <1>k, <2>1, <2>3 DEF Aside
  <1>5. CASE SignalSent /\ cpu.by # "segv"
    <2>1. /\ cpu.pc = "sent" /\ cpu'.pc = "handle" /\ cpu'.then = "iret"
          /\ cpu'.arg = current /\ current' = current
      BY <1>5 DEF SignalSent, AtReturn, K
    <2>2. Running' = Running
      BY <2>1 DEF Running
    <2>3. FewerWaiters
      BY <1>k, <2>1, <2>2, CpuOnly
    <2> QED BY <1>k, <2>1, <2>3 DEF Aside
  <1> QED BY <1>1, <1>2, <1>3, <1>4, <1>5

\* System calls that end at once, or go on in the kernel without waiting.
LEMMA CallAside ==
    ASSUME IInv, \/ Execve \/ Exit \/ PageFault
                 \/ ReturnFromSignal /\ kind[current] = "clone"
                 \/ \E s \in Sig, h \in Handlers : Signal(s, h)
                 \/ \E p \in Pid, s \in Sig : Kill(p, s)
    PROVE  Aside
  <1>1. /\ UNCHANGED <<tstate, tproc, kctx, current>>
        /\ UNCHANGED <<plist, parent, child, older, younger>>
    BY DEF Execve, Exit, PageFault, ReturnFromSignal, Signal, Kill, thrVars, procVars, family
  <1>2. InUser
    BY DEF Execve, Exit, PageFault, ReturnFromSignal, Signal, Kill
  <1>3. \/ cpu'.pc \in {"exit", "halt", "sent", "check"}
        \/ cpu'.pc = "handle" /\ cpu'.arg = current
    BY DEF Execve, Exit, PageFault, ReturnFromSignal, Signal, Kill, signal_process, AtReturn,
          AtHalt, K
  <1>4. Running' = Running
    BY <1>1, <1>2, <1>3 DEF Running, InUser
  <1>5. FewerWaiters
    BY <1>1, <1>2, <1>3, <1>4, CpuOnly DEF InUser
  <1> QED BY <1>1, <1>2, <1>3, <1>5 DEF Aside, InUser

\* Calls of schedule() by a thread that does not wait for a process.
LEMMA PreemptAside ==
    ASSUME IInv, \/ TimerSchedule \/ Yield \/ ExitDone
                 \/ SignalSent /\ cpu.by = "segv"
                 \/ ReturnFromSignal /\ kind[current] # "clone"
    PROVE  Aside
  <1>t. /\ TInv /\ current \in Tid /\ kctx \in [Tid -> Context]
        /\ tstate \in [Tid -> {"FREE", "READY", "WAITING", "FINISHED"}]
    BY Types DEF IInv
  <1>1. /\ UNCHANGED <<tproc, plist, parent, child, older, younger>>
        /\ cpu.pc \in {"user", "exit", "sent"} /\ Running = current
    BY DEF TimerSchedule, Yield, ExitDone, SignalSent, ReturnFromSignal, InUser, procVars,
          family, Running
  <1>2. PICK Q, k : ScheduleFrom(Q, k) /\ k.pc # "wait"
    BY DEF TimerSchedule, Yield, ExitDone, SignalSent, ReturnFromSignal, AtUser, AtReturn,
          AtHalt, K
  <1>3. cpu'.pc = "clean" /\ kctx' = [kctx EXCEPT ![current] = k]
    BY <1>2 DEF ScheduleFrom, Schedule, K
  <1>4. threads' \subseteq threads
    <2>1. CASE TimerSchedule \/ Yield \/ SignalSent
      <3>1. tstate' = tstate
        BY <2>1 DEF TimerSchedule, Yield, SignalSent
      <3> QED BY <3>1 DEF threads
    <2>2. CASE ExitDone
      <3>1. cpu.pc = "exit"
        BY <2>2 DEF ExitDone
      <3>2. cpu.pr \in Pid /\ tstate[current] = "READY"
        BY <1>t, <3>1, Types, NotIdle
      <3>3. PWait(cpu.pr) \in Lists \ {RunQ}
        BY <3>2, ListNames
      <3>4. \A t \in Tid : t \in ToSet(q[PWait(cpu.pr)]) => tstate[t] = "WAITING"
        BY <3>3 DEF IInv, Execution, Placed, PlacedIn
      <3>5. tstate' = [t \in Tid |-> IF t \in ToSet(q[PWait(cpu.pr)]) THEN "READY"
                                     ELSE IF t = current THEN "FINISHED" ELSE tstate[t]]
        BY <2>2 DEF ExitDone
      <3> QED BY <3>2, <3>4, <3>5 DEF threads
    <2>3. CASE ReturnFromSignal /\ kind[current] # "clone"
      <3>1. TWait(current) \in Lists \ {RunQ}
        BY <1>t, ListNames
      <3>2. \A t \in Tid : t \in ToSet(q[TWait(current)]) => tstate[t] = "WAITING"
        BY <3>1 DEF IInv, Execution, Placed, PlacedIn
      <3>3. tstate' = [t \in Tid |-> IF t = current THEN "FINISHED"
                                     ELSE IF t \in ToSet(q[TWait(current)]) THEN "READY"
                                     ELSE tstate[t]]
        BY <2>3 DEF ReturnFromSignal
      <3>4. tstate[current] = "READY"
        BY <2>3, UserLive DEF ReturnFromSignal
      <3> QED BY <3>2, <3>3, <3>4 DEF threads
    <2> QED BY <2>1, <2>2, <2>3
  <1>5. FewerWaiters
    BY <1>t, <1>1, <1>2, <1>3, <1>4, SwitchedAway
  <1> QED BY <1>1, <1>3, <1>5 DEF Aside

\* handle_signals with a handler of the program: the thread of the handler
\* has not run yet.
LEMMA HandlerAside ==
    ASSUME IInv, HandleCustom
    PROVE  Aside
  <1>0. cpu.pc = "handle" /\ Pending(tproc[cpu.arg])
    BY DEF HandleCustom
  <1>1. PICK h \in Tid : h = next_tid
    BY DEF HandleCustom, AllocThread
  <1>t. /\ TInv /\ current \in Tid /\ kctx \in [Tid -> Context] /\ cpu \in Context
        /\ cpu.arg \in Tid /\ cpu.then \in {"iret", "check", "sent"}
        /\ tstate \in [Tid -> {"FREE", "READY", "WAITING", "FINISHED"}]
        /\ tproc \in [Tid -> Pid]
    BY <1>0, Types DEF IInv
  <1>2. h # current /\ Running = current
    BY <1>0, <1>1, NextThread, Delivery
  <1>3. /\ UNCHANGED <<plist, parent, child, older, younger>>
        /\ tproc' = [tproc EXCEPT ![h] = tproc[cpu.arg]]
        /\ tstate' = [tstate EXCEPT ![h] = "READY", ![cpu.arg] = "WAITING"]
    BY <1>1 DEF HandleCustom, AllocThread, family
  <1>4. /\ kctx' = [kctx EXCEPT ![h] = AtFirst(h), ![current] = [cpu EXCEPT !.pc = cpu.then]]
        /\ cpu'.pc = "clean"
    BY <1>1 DEF HandleCustom, Schedule, K
  <1>5. /\ kctx'[h].pc = "first" /\ kctx'[current].pc # "wait"
        /\ \A t \in Tid \ {h, current} : kctx'[t] = kctx[t]
    BY <1>t, <1>2, <1>4 DEF AtFirst, K, Context
  <1>6. tstate[cpu.arg] # "FREE"
    <2>1. tstate[current] # "FREE"
      BY DEF IInv, Execution, Base
    <2>2. cpu.arg = current \/ tstate[cpu.arg] = "WAITING"
      BY <1>0, <1>t, Delivery DEF IInv, Execution, Code, Place, InSignal
    <2> QED BY <2>1, <2>2
  <1>7. \A t \in threads' : t = h \/ t \in threads
    BY <1>t, <1>3, <1>6 DEF threads
  <1>8. FewerWaiters
    <2> SUFFICES ASSUME NEW t \in Tid, NEW p \in Pid, Waits(t, p)'
                 PROVE  Waits(t, p) /\ tproc'[t] = tproc[t]
      BY DEF FewerWaiters
    <2>1. t \in threads' /\ kctx'[t].pc = "wait" /\ kctx'[t].pr = p
      BY <1>4 DEF Waits
    <2>2. t # h /\ t # current /\ t \in threads /\ kctx'[t] = kctx[t]
      BY <1>5, <1>7, <2>1
    <2>3. tproc'[t] = tproc[t]
      BY <1>t, <1>3, <2>2
    <2> QED BY <1>2, <2>1, <2>2, <2>3 DEF Waits
  <1> QED BY <1>0, <1>3, <1>4, <1>8 DEF Aside

\* thread_fork().
LEMMA ThreadForkAside ==
    ASSUME IInv, ThreadFork
    PROVE  Aside
  <1>1. PICK h \in Tid : h = next_tid
    BY DEF ThreadFork, AllocThread
  <1>t. /\ TInv /\ current \in Tid /\ kctx \in [Tid -> Context]
        /\ tstate \in [Tid -> {"FREE", "READY", "WAITING", "FINISHED"}]
        /\ tproc \in [Tid -> Pid]
    BY Types DEF IInv
  <1>2. /\ InUser /\ cpu' = AtReturn(current) /\ current' = current
        /\ UNCHANGED <<plist, parent, child, older, younger>>
        /\ tproc' = [tproc EXCEPT ![h] = Me]
        /\ tstate' = [tstate EXCEPT ![h] = "READY"]
        /\ kctx' = [kctx EXCEPT ![h] = AtFirst(h)]
    BY <1>1 DEF ThreadFork, AllocThread, family
  <1>3. Running = current /\ Running' = current
    BY <1>2 DEF Running, InUser, AtReturn, K
  <1>4. FewerWaiters
    <2> SUFFICES ASSUME NEW t \in Tid, NEW p \in Pid, Waits(t, p)'
                 PROVE  Waits(t, p) /\ tproc'[t] = tproc[t]
      BY DEF FewerWaiters
    <2>1. t # current /\ t \in threads' /\ kctx'[t].pc = "wait" /\ kctx'[t].pr = p
      BY <1>2, <1>3 DEF Waits, AtReturn, K
    <2>2. t # h
      BY <1>t, <1>2, <2>1 DEF AtFirst, K
    <2>3. t \in threads /\ kctx'[t] = kctx[t] /\ tproc'[t] = tproc[t]
      BY <1>t, <1>2, <2>1, <2>2 DEF threads
    <2> QED BY <1>3, <2>1, <2>3 DEF Waits
  <1> QED BY <1>2, <1>4 DEF Aside, InUser, AtReturn, K

\* free_thread.
LEMMA FreeAside ==
    ASSUME IInv, CleanFree \/ FreeOther
    PROVE  Aside
  <1>0. /\ cpu.pc \in {"clean", "exit", "free"} /\ UNCHANGED <<current, cpu>>
        /\ UNCHANGED <<plist, parent, child, older, younger>>
    BY DEF CleanFree, FreeOther, family
  <1>1. PICK u : /\ tstate' = [tstate EXCEPT ![u] = "FREE"]
                 /\ tproc' = [tproc EXCEPT ![u] = 1]
                 /\ kctx' = [kctx EXCEPT ![u] = AtFirst(u)]
    BY DEF CleanFree, FreeOther, FreeThread
  <1>t. /\ TInv /\ kctx \in [Tid -> Context]
        /\ tstate \in [Tid -> {"FREE", "READY", "WAITING", "FINISHED"}]
        /\ tproc \in [Tid -> Pid]
    BY Types DEF IInv
  <1>2. Running' = Running
    BY <1>0 DEF Running
  <1>3. FewerWaiters
    <2> SUFFICES ASSUME NEW t \in Tid, NEW p \in Pid, Waits(t, p)'
                 PROVE  Waits(t, p) /\ tproc'[t] = tproc[t]
      BY DEF FewerWaiters
    <2>1. tstate'[t] # "FREE"
      BY DEF Waits, threads
    <2>2. t # u /\ t \in threads
      BY <1>t, <1>1, <2>1 DEF threads
    <2>3. kctx'[t] = kctx[t] /\ tproc'[t] = tproc[t]
      BY <1>t, <1>1, <2>2
    <2> QED BY <1>0, <1>2, <2>2, <2>3 DEF Waits
  <1> QED BY <1>0, <1>3 DEF Aside

\* switch_kernel_thread: the next thread goes on where it was.
LEMMA SwitchAside ==
    ASSUME IInv, SwitchTo
    PROVE  Aside
  <1>0. /\ cpu.pc = "clean" /\ UNCHANGED <<tstate, tproc>>
        /\ UNCHANGED <<plist, parent, child, older, younger>>
    BY DEF SwitchTo, thrVars, procVars, family
  <1>t. /\ TInv /\ kctx \in [Tid -> Context] /\ cpu.arg \in Tid /\ Running = cpu.arg
    BY <1>0, Types DEF IInv, Running
  <1>1. cpu.arg \in threads /\ Resumable(cpu.arg, tproc[cpu.arg], kctx[cpu.arg])
    <2>1. cpu.arg \in threads
      BY <1>t DEF IInv, Execution, Base, threads
    <2> QED BY <1>0, <2>1 DEF IInv, Execution, Contexts
  <1>2. CASE kctx[cpu.arg].pc = "first"
    <2>1. cpu' = AtReturn(cpu.arg) /\ UNCHANGED <<current, kctx>>
      BY <1>2 DEF SwitchTo
    <2>2. cpu'.pc = "handle" /\ Running' = cpu.arg
      BY <2>1 DEF AtReturn, K, Running
    <2>3. ASSUME NEW t \in Tid, NEW p \in Pid, Waits(t, p)'
          PROVE  Waits(t, p) /\ tproc'[t] = tproc[t]
      BY <1>0, <2>1, <2>2, <2>3 DEF Waits, threads
    <2>4. FewerWaiters
      BY <2>3 DEF FewerWaiters
    <2> QED BY <1>0, <2>2, <2>4 DEF Aside
  <1>3. CASE kctx[cpu.arg].pc # "first"
    <2>1. /\ cpu' = kctx[cpu.arg] /\ current' = cpu.arg
          /\ kctx' = [kctx EXCEPT ![cpu.arg] = AtUser(cpu.arg)]
      BY <1>3 DEF SwitchTo
    <2>2. cpu'.pc \in {"user", "handle", "iret", "wait", "check", "sent", "halt"}
      BY <1>1, <1>3, <2>1 DEF Resumable
    <2>3. Running' = cpu.arg
      BY <1>1, <2>1 DEF Resumable, Running
    <2>4. ASSUME NEW t \in Tid, NEW p \in Pid, Waits(t, p)'
          PROVE  Waits(t, p) /\ tproc'[t] = tproc[t]
      <3>1. t \in threads /\ tproc'[t] = tproc[t]
        BY <1>0, <2>4 DEF Waits, threads
      <3>2. CASE t = cpu.arg
        <4>1. cpu'.pc = "wait" /\ cpu'.pr = p
          BY <2>2, <2>3, <2>4, <3>2 DEF Waits
        <4> QED BY <1>0, <2>1, <3>1, <3>2, <4>1 DEF Waits
      <3>3. CASE t # cpu.arg
        <4>1. kctx'[t].pc = "wait" /\ kctx'[t].pr = p
          BY <2>2, <2>3, <2>4, <3>3 DEF Waits
        <4>2. kctx'[t] = kctx[t]
          BY <1>t, <2>1, <3>3
        <4> QED BY <1>0, <3>1, <4>1, <4>2 DEF Waits
      <3> QED BY <3>2, <3>3
    <2>5. FewerWaiters
      BY <2>4 DEF FewerWaiters
    <2> QED BY <1>0, <2>2, <2>5 DEF Aside
  <1> QED BY <1>2, <1>3

\* The loop of waitpid.
LEMMA WaitAside ==
    ASSUME IInv, WaitTest
    PROVE  Aside
  <1>t. /\ TInv /\ current \in Tid /\ kctx \in [Tid -> Context] /\ cpu \in Context
        /\ tstate \in [Tid -> {"FREE", "READY", "WAITING", "FINISHED"}]
    BY Types DEF IInv
  <1>1. /\ cpu.pc = "wait" /\ UNCHANGED <<tproc, current>>
        /\ UNCHANGED <<plist, parent, child, older, younger>>
    BY DEF WaitTest, procVars, family
  <1>2. Running = current /\ tstate[current] = "READY"
    BY <1>1, NotIdle
  <1>3. CASE pstate[cpu.pr] # "LIVE"
    <2>1. /\ UNCHANGED <<tstate, kctx>>
          /\ cpu' = IF pstate[cpu.pr] = "FINISHED"
                    THEN [cpu EXCEPT !.pc = "free"] ELSE AtHalt("freed_process")
      BY <1>3 DEF WaitTest
    <2>2. \/ cpu'.pc = "halt"
          \/ cpu'.pc = "free" /\ cpu'.pr = cpu.pr
      BY <1>t, <2>1 DEF AtHalt, K, Context
    <2>3. Running' = Running
      BY <1>1, <2>2 DEF Running
    <2>4. FewerWaiters
      BY <1>1, <2>1, <2>2, <2>3, CpuOnly
    <2> QED BY <1>1, <2>2, <2>4 DEF Aside
  <1>4. CASE pstate[cpu.pr] = "LIVE"
    <2>1. /\ tstate' = [tstate EXCEPT ![current] = "WAITING"]
          /\ ScheduleFrom(scheduler_sleep(q, current, PWait(cpu.pr)), cpu)
      BY <1>4 DEF WaitTest
    <2>2. cpu'.pc = "clean" /\ kctx' = [kctx EXCEPT ![current] = cpu]
      BY <2>1 DEF ScheduleFrom, Schedule, K
    <2>3. threads' \subseteq threads
      BY <1>t, <1>2, <2>1 DEF threads
    <2>4. FewerWaiters
      BY <1>t, <1>1, <1>2, <2>2, <2>3, SwitchedAway
    <2> QED BY <1>1, <2>2, <2>4 DEF Aside
  <1> QED BY <1>3, <1>4

-----------------------------------------------------------------------------
(* Steps that change the tree *)

\* What the pointers say of the children of a process.
LEMMA Children ==
    ASSUME TInv, NEW S, Tree(S), NEW r \in Pid
    PROVE  /\ S[r] \in Seq(Pid) /\ ToSet(S[r]) \subseteq Pid /\ IsInjective(S[r])
           /\ Youngest(S[r]) = None <=> S[r] = <<>>
           /\ S[r] # <<>> => Youngest(S[r]) = S[r][1] /\ S[r][1] \in ToSet(S[r])
           /\ \A c \in ToSet(S[r]) : /\ r \in ToSet(plist) /\ c \in ToSet(plist)
                                     /\ c # 1 /\ c # r /\ c # None
                                     /\ older[c] # None => older[c] \in ToSet(S[r])
                                     /\ younger[c] # None => younger[c] \in ToSet(S[r])
                                     /\ older[c] = None => c = S[r][Len(S[r])]
                                     /\ younger[c] = None <=> c = S[r][1]
  <1>1. PICK s \in Seq(Pid) : s = S[r] /\ IsInjective(s) /\ Chain(s, older, younger)
    BY DEF Tree, Born, Links
  <1>2. /\ ToSet(s) \subseteq Pid /\ Len(s) \in Nat
        /\ \A i \in 1..Len(s) : s[i] \in ToSet(s)
        /\ \A c \in ToSet(s) : \E i \in 1..Len(s) : c = s[i]
        /\ \A i, j \in 1..Len(s) : s[i] = s[j] => i = j
        /\ s # <<>> => 1 \in 1..Len(s)
    BY <1>1, SetOf
  <1>3. None \notin Pid
    BY DEF None, Pid
  <1>4. /\ Youngest(s) = None <=> s = <<>>
        /\ s # <<>> => Youngest(s) = s[1] /\ s[1] \in ToSet(s)
    BY <1>2, <1>3 DEF Youngest
  <1>5. ASSUME NEW c \in ToSet(s)
        PROVE  /\ r \in ToSet(plist) /\ c \in ToSet(plist) /\ c # 1 /\ c # r /\ c # None
               /\ older[c] # None => older[c] \in ToSet(s)
               /\ younger[c] # None => younger[c] \in ToSet(s)
               /\ older[c] = None => c = s[Len(s)]
               /\ younger[c] = None <=> c = s[1]
    <2>1. c \in Pid /\ c # None
      BY <1>2, <1>3
    <2>2. r \in ToSet(plist) /\ r < c /\ c \in ToSet(plist) \ {1}
      BY <1>1, <2>1 DEF Tree, Born
    <2>3. PICK i \in 1..Len(s) : c = s[i]
      BY <1>2
    <2>4. /\ older[c] = IF i = Len(s) THEN None ELSE s[i + 1]
          /\ younger[c] = IF i = 1 THEN None ELSE s[i - 1]
      BY <1>1, <2>3 DEF Chain
    <2>5. /\ i # Len(s) => i + 1 \in 1..Len(s)
          /\ i # 1 => i - 1 \in 1..Len(s)
          /\ 1 \in 1..Len(s)
      BY <1>2, <2>3
    <2>6. /\ i # Len(s) => older[c] \in ToSet(s) /\ older[c] # None
          /\ i # 1 => younger[c] \in ToSet(s) /\ younger[c] # None
      BY <1>2, <1>3, <2>4, <2>5
    <2>7. c = s[1] <=> i = 1
      BY <1>2, <2>3, <2>5
    <2>8. c # r
      BY <2>1, <2>2 DEF Pid
    <2> QED BY <2>1, <2>2, <2>3, <2>4, <2>6, <2>7, <2>8
  <1> QED BY <1>1, <1>2, <1>4, <1>5

\* free_process of a process whose threads are freed.
LEMMA AdoptStart ==
    ASSUME IInv, FreeAdopt, NEW S, Tree(S)
    PROVE  Tree(S)' /\ cpu'.pc # "halt"
  <1>0. /\ cpu.pc = "free" /\ UNCHANGED <<tstate, tproc, kctx, current>>
        /\ UNCHANGED <<plist, parent, child, older, younger>>
    BY DEF FreeAdopt, thrVars, procVars, family
  <1>t. TInv /\ plist \in Seq(Pid)
    BY Types DEF IInv
  <1>1. PICK p \in Pid : p = cpu.pr /\ p \in ToSet(plist)
    <2>1. cpu.pr \in Pid /\ pstate[cpu.pr] = "FINISHED"
      BY <1>0, <1>t, Types DEF IInv, Execution, Code, Place
    <2> QED BY <2>1 DEF IInv, Tables, Processes
  <1>2. plist # <<>> /\ child[p] = Youngest(S[p])
    BY <1>0, <1>1 DEF Tree, First, Links
  <1>3. /\ cpu'.pr = p
        /\ \/ cpu'.pc = "adopt" /\ cpu'.arg = child[p] /\ child[p] # None
           \/ cpu'.pc = "unlink" /\ child[p] = None
    BY <1>1, <1>2 DEF FreeAdopt, K
  <1>4. Running' = Running
    BY <1>0, <1>3 DEF Running
  <1>5. FewerWaiters
    BY <1>0, <1>1, <1>3, <1>4, CpuOnly
  <1>6. First' /\ Born(S)' /\ Links(S)'
    BY <1>0 DEF Tree, First, Born, Ordered, Links, Chain
  <1>7. Parents(S)'
    BY <1>0 DEF Tree, Parents
  <1>8. Adoption(S)'
    BY <1>2, <1>3, <1>t, Children DEF Adoption
  <1>9. Waiting(S)'
    BY <1>0, <1>5 DEF Tree, Waiting, FewerWaiters
  <1> QED BY <1>3, <1>6, <1>7, <1>8, <1>9 DEF Tree

\* No thread waits for a child of a process that has no threads left.
LEMMA NoneLeft ==
    ASSUME IInv, NEW S, Tree(S), cpu.pc \in {"adopt", "unlink"},
           NEW t \in Tid, NEW x \in Pid, Waits(t, x)
    PROVE  tproc[t] # cpu.pr /\ x \notin ToSet(S[cpu.pr])
  <1>t. /\ TInv /\ tproc \in [Tid -> Pid] /\ pthreads \in [Pid -> Seq(Tid)]
        /\ cpu.pr \in Pid
    BY Types DEF IInv
  <1>1. pthreads[cpu.pr] = <<>> /\ cpu.pr # 1
    BY DEF IInv, Execution, Code, Place, Tables, System
  <1>2. t \in threads /\ t \notin ToSet(pthreads[cpu.pr])
    <2>1. pthreads[cpu.pr] \in Seq(Tid)
      BY <1>t
    <2>2. ToSet(pthreads[cpu.pr]) = {}
      BY <1>1, <2>1, EmptySet
    <2> QED BY <2>2 DEF Waits
  <1>3. tproc[t] # cpu.pr
    BY <1>1, <1>2, <1>t DEF IInv, Tables, Members, System
  <1>4. x \in ToSet(S[tproc[t]])
    BY DEF Tree, Waiting
  <1> QED BY <1>t, <1>3, <1>4 DEF Tree, Born

\* The loop over the children: one more is given to init.
LEMMA AdoptMore ==
    ASSUME IInv, AdoptNext, NEW S, Tree(S)
    PROVE  Tree(S)' /\ cpu'.pc # "halt"
  <1>0. /\ cpu.pc = "adopt" /\ UNCHANGED <<tstate, tproc, kctx, current>>
        /\ UNCHANGED <<plist, child, older, younger>> /\ older[cpu.arg] # None
        /\ parent' = [parent EXCEPT ![cpu.arg] = Head(plist)]
        /\ cpu'.pc = "adopt" /\ cpu'.arg = older[cpu.arg] /\ cpu'.pr = cpu.pr
    BY DEF AdoptNext, thrVars, K
  <1>t. TInv /\ plist \in Seq(Pid) /\ parent \in [Pid -> Pid \cup {None}]
    BY Types DEF IInv, TInv, TypeOK
  <1>1. PICK p \in Pid : p = cpu.pr
    BY <1>0, <1>t, Types
  <1>2. PICK a \in ToSet(S[p]) : a = cpu.arg
    BY <1>0, <1>1 DEF Tree, Adoption
  <1>3. a \in Pid /\ a # 1 /\ older[a] \in ToSet(S[p])
    BY <1>0, <1>2, <1>t, Children
  <1>4. Head(plist) = 1
    BY <1>t DEF Tree, First
  <1>5. Running' = Running
    BY <1>0 DEF Running
  <1>6. FewerWaiters
    BY <1>0, <1>5, CpuOnly
  <1>7. First' /\ Born(S)' /\ Links(S)'
    BY <1>0 DEF Tree, First, Born, Ordered, Links, Chain
  <1>8. parent'[a] = 1 /\ \A c \in Pid \ {a} : parent'[c] = parent[c]
    BY <1>0, <1>2, <1>3, <1>4, <1>t
  <1>9. Parents(S)'
    <2>1. parent'[1] = None
      BY <1>3, <1>8, Constants DEF Tree, Parents
    <2>2. ASSUME NEW r \in Pid, NEW c \in Pid, c \in ToSet(S[r])
          PROVE  /\ parent'[c] < c
                 /\ \/ parent'[c] = r
                    \/ parent'[c] \notin ToSet(plist)
                    \/ r = p /\ parent'[c] = 1
      <3>1. CASE c = a
        <4>1. r = p
          BY <1>2, <2>2, <3>1 DEF Tree, Born
        <4> QED BY <1>3, <1>8, <3>1, <4>1 DEF Pid
      <3>2. CASE c # a
        BY <1>0, <1>1, <1>8, <2>2, <3>2 DEF Tree, Parents
      <3> QED BY <3>1, <3>2
    <2> QED BY <1>0, <1>1, <2>1, <2>2 DEF Parents
  <1>10. Adoption(S)'
    BY <1>0, <1>1, <1>2, <1>3 DEF Adoption
  <1>11. Waiting(S)'
    <2>1. ASSUME NEW t \in Tid, NEW x \in Pid, Waits(t, x)'
          PROVE  x \in ToSet(S[tproc'[t]]) /\ parent'[x] = tproc'[t]
      <3>1. Waits(t, x)
        BY <1>6, <2>1 DEF FewerWaiters
      <3>2. x # a
        BY <1>0, <1>1, <1>2, <3>1, NoneLeft
      <3> QED BY <1>0, <1>8, <3>1, <3>2 DEF Tree, Waiting
    <2> QED BY <1>6, <2>1 DEF Tree, Waiting, FewerWaiters
  <1> QED BY <1>0, <1>7, <1>9, <1>10, <1>11 DEF Tree

\* /bin/init has a child as long as there is another process: the oldest of
\* the others can only be a child of it.
LEMMA InitChild ==
    ASSUME TInv, NEW S, Tree(S), NEW p \in ToSet(plist), p # 1
    PROVE  S[1] # <<>>
  <1>t. plist \in Seq(Pid) /\ 1 \in Pid
    BY Types, Constants
  <1>1. PICK s \in Seq(Pid) : s = plist /\ Ordered(s) /\ s[1] = 1
    BY <1>t DEF Tree, First
  <1>2. /\ ToSet(s) = {s[i] : i \in 1..Len(s)} /\ Len(s) \in Nat
        /\ \A i \in 1..Len(s) : s[i] \in Pid
    BY SetOf
  <1>3. PICK i \in 1..Len(s) : p = s[i]
    BY <1>1, <1>2
  <1>4. 1 \in 1..Len(s) /\ 2 \in 1..Len(s)
    BY <1>1, <1>2, <1>3
  <1>5. s[2] \in Pid /\ s[2] \in ToSet(plist) /\ s[2] # 1
    <2>1. s[1] < s[2]
      BY <1>1, <1>4 DEF Ordered
    <2> QED BY <1>1, <1>2, <1>4, <2>1 DEF Pid
  <1>6. PICK r \in Pid : s[2] \in ToSet(S[r]) /\ r \in ToSet(plist) /\ r < s[2]
    BY <1>5 DEF Tree, Born
  <1>7. PICK j \in 1..Len(s) : r = s[j]
    BY <1>1, <1>2, <1>6
  <1>8. ~ (j > 2)
    <2>1. j > 2 => s[2] < s[j]
      BY <1>1, <1>4 DEF Ordered
    <2> QED BY <1>5, <1>6, <1>7, <2>1 DEF Pid
  <1>9. j # 2
    BY <1>5, <1>6, <1>7 DEF Pid
  <1>10. r = 1
    BY <1>1, <1>2, <1>7, <1>8, <1>9
  <1>11. S[1] \in Seq(Pid)
    BY <1>t DEF Tree, Born
  <1> QED BY <1>6, <1>10, <1>11, EmptySet

\* The end of the loop: the children are linked to those of init.
LEMMA AdoptEnd ==
    ASSUME IInv, AdoptDone, NEW S, Tree(S)
    PROVE  (\E S2 : Tree(S2)') /\ cpu'.pc # "halt"
  <1>0. /\ cpu.pc = "adopt" /\ UNCHANGED <<tstate, tproc, kctx, current>>
        /\ UNCHANGED <<plist, parent>> /\ older[cpu.arg] = None
    BY DEF AdoptDone, thrVars
  <1>t. /\ TInv /\ plist \in Seq(Pid) /\ 1 \in Pid
        /\ older \in [Pid -> Pid \cup {None}] /\ younger \in [Pid -> Pid \cup {None}]
        /\ child \in [Pid -> Pid \cup {None}]
    BY Types, Constants DEF IInv, TInv, TypeOK
  <1>1. PICK p \in Pid : p = cpu.pr /\ p \in ToSet(plist) /\ p # 1
    <2>1. cpu.pr \in Pid /\ pstate[cpu.pr] = "FINISHED"
      BY <1>0, <1>t, Types DEF IInv, Execution, Code, Place
    <2> QED BY <2>1 DEF IInv, Tables, Processes, System
  <1>2. PICK s \in Seq(Pid), u \in Seq(Pid) : s = S[p] /\ u = S[1]
    BY <1>t DEF Tree, Born
  <1>3. PICK a \in ToSet(s) : a = cpu.arg /\ a = s[Len(s)]
    <2>1. cpu.arg \in ToSet(s)
      BY <1>0, <1>1, <1>2 DEF Tree, Adoption
    <2>2. cpu.arg = s[Len(s)]
      BY <1>0, <1>1, <1>2, <1>t, <2>1, Children
    <2> QED BY <2>1, <2>2
  <1>4. /\ s # <<>> /\ u # <<>> /\ u[1] \in ToSet(u) /\ s[1] \in ToSet(s)
        /\ IsInjective(s) /\ IsInjective(u)
        /\ ToSet(s) \subseteq Pid /\ ToSet(u) \subseteq Pid
        /\ ToSet(s) \cap ToSet(u) = {}
    <2>1. u # <<>>
      BY <1>1, <1>2, <1>t, InitChild
    <2>2. s # <<>>
      BY <1>3, EmptySet
    <2>3. ToSet(s) \subseteq Pid /\ ToSet(u) \subseteq Pid
      BY SetOf
    <2>4. ToSet(s) \cap ToSet(u) = {}
      BY <1>1, <1>2, <1>t, <2>3 DEF Tree, Born
    <2> QED BY <1>1, <1>2, <1>t, <2>1, <2>2, <2>3, <2>4, Children
  <1>5. child[1] = u[1] /\ child[p] = s[1] /\ u[1] # None /\ s[1] # None
    <2>1. \A r \in ToSet(plist) : child[r] = Youngest(S[r])
      BY <1>0 DEF Tree, Links
    <2>2. 1 \in ToSet(plist)
      BY <1>t, EmptySet DEF Tree, First
    <2> QED BY <1>1, <1>2, <1>4, <2>1, <2>2 DEF Youngest, None, Pid
  <1>6. /\ older' = [older EXCEPT ![a] = u[1]] /\ younger' = [younger EXCEPT ![u[1]] = a]
        /\ child' = [child EXCEPT ![1] = s[1]]
        /\ cpu'.pc = "unlink" /\ cpu'.pr = p
    <2>1. Head(plist) = 1
      BY <1>t DEF Tree, First
    <2> QED BY <1>1, <1>3, <1>5, <2>1 DEF AdoptDone, K
  <1>7. /\ older'[a] = u[1] /\ \A x \in Pid \ {a} : older'[x] = older[x]
        /\ younger'[u[1]] = a /\ \A x \in Pid \ {u[1]} : younger'[x] = younger[x]
        /\ child'[1] = s[1] /\ \A x \in Pid \ {1} : child'[x] = child[x]
    BY <1>t, <1>3, <1>4, <1>6
  <1>8. PICK b \in Seq(Pid) :
           /\ b = s \o u /\ IsInjective(b) /\ ToSet(b) = ToSet(s) \cup ToSet(u)
           /\ b # <<>> /\ b[1] = s[1]
    <2>1. s \o u \in Seq(Pid) /\ ToSet(s \o u) = ToSet(s) \cup ToSet(u) /\ IsInjective(s \o u)
      BY <1>4, ConcatSet, ConcatValue
    <2>2. s \o u # <<>>
      BY <1>4, <2>1, EmptySet
    <2>3. (s \o u)[1] = s[1]
      <3>1. 1 \in 1..Len(s)
        BY <1>4
      <3> QED BY <3>1, ConcatValue
    <2> QED BY <2>1, <2>2, <2>3
  <1>9. PICK S2 \in [Pid -> Seq(Pid)] :
           S2[1] = b /\ S2[p] = <<>> /\ \A r \in Pid \ {1, p} : S2[r] = S[r]
    <2> DEFINE S3 == [r \in Pid |-> IF r = 1 THEN b ELSE IF r = p THEN <<>> ELSE S[r]]
    <2>1. S3 \in [Pid -> Seq(Pid)]
      BY DEF Tree, Born
    <2>2. S3[1] = b /\ S3[p] = <<>> /\ \A r \in Pid \ {1, p} : S3[r] = S[r]
      BY <1>1, <1>t
    <2> HIDE DEF S3
    <2> QED BY <2>1, <2>2
  <1>10. /\ ToSet(S2[p]) = {} /\ IsInjective(S2[p])
         /\ ToSet(S2[1]) = ToSet(S[p]) \cup ToSet(S[1])
         /\ \A r \in Pid \ {1, p} : ToSet(S2[r]) = ToSet(S[r])
    <2>1. ToSet(S2[p]) = {} /\ IsInjective(S2[p])
      BY <1>2, <1>9, EmptySet
    <2> QED BY <1>2, <1>8, <1>9, <2>1
  <1>11. Born(S2)'
    <2>1. \A r \in Pid : IsInjective(S2[r])
      BY <1>8, <1>9, <1>10 DEF Tree, Born
    <2>2. \A r, m, c \in Pid : c \in ToSet(S2[r]) /\ c \in ToSet(S2[m]) => r = m
      BY <1>10, <1>t DEF Tree, Born
    <2>3. \A c \in Pid : (\E r \in Pid : c \in ToSet(S2[r])) <=> \E r \in Pid : c \in ToSet(S[r])
      BY <1>10, <1>1, <1>t
    <2>4. \A c \in Pid : c \in ToSet(plist) \ {1} <=> \E r \in Pid : c \in ToSet(S2[r])
      BY <2>3 DEF Tree, Born
    <2>5. ASSUME NEW r \in Pid, NEW c \in Pid, c \in ToSet(S2[r])
          PROVE  r \in ToSet(plist) /\ r < c
      <3>1. CASE r = 1
        <4>1. \E m \in Pid : c \in ToSet(S[m])
          BY <2>3, <2>5
        <4>2. c \in Pid /\ c # 1
          BY <4>1 DEF Tree, Born
        <4>3. 1 \in ToSet(plist)
          BY <1>t, EmptySet DEF Tree, First
        <4> QED BY <3>1, <4>2, <4>3 DEF Pid
      <3>2. CASE r # 1
        BY <1>10, <2>5, <3>2 DEF Tree, Born
      <3> QED BY <3>1, <3>2
    <2> QED BY <1>0, <1>9, <2>1, <2>2, <2>4, <2>5 DEF Born
  <1>12. Links(S2)'
    <2>1. Chain(b, older', younger')
      <3>1. Chain(s, older, younger) /\ Chain(u, older, younger)
        BY <1>2, <1>t DEF Tree, Links
      <3>2. older'[s[Len(s)]] = u[1] /\ younger'[u[1]] = s[Len(s)]
        BY <1>3, <1>7
      <3>3. /\ \A x \in (ToSet(s) \cup ToSet(u)) \ {s[Len(s)]} : older'[x] = older[x]
            /\ \A x \in (ToSet(s) \cup ToSet(u)) \ {u[1]} : younger'[x] = younger[x]
        BY <1>3, <1>4, <1>7
      <3>4. Chain(s \o u, older', younger')
        BY <1>4, <3>1, <3>2, <3>3, ChainConcat
      <3> QED BY <1>8, <3>4
    <2>2. ASSUME NEW r \in Pid, r # 1, r # p
          PROVE  Chain(S2[r], older', younger')
      <3>1. S[r] \in Seq(Pid) /\ ToSet(S[r]) \subseteq Pid /\ Chain(S[r], older, younger)
        BY <1>t, Children DEF Tree, Links
      <3>2. \A x \in ToSet(S[r]) : x # a /\ x # u[1]
        <4>1. a \in Pid /\ a \in ToSet(S[p]) /\ u[1] \in Pid /\ u[1] \in ToSet(S[1])
          BY <1>2, <1>3, <1>4
        <4>2. a \notin ToSet(S[r]) /\ u[1] \notin ToSet(S[r])
          BY <1>1, <1>t, <2>2, <4>1 DEF Tree, Born
        <4> QED BY <4>2
      <3>3. \A x \in ToSet(S[r]) : older'[x] = older[x] /\ younger'[x] = younger[x]
        BY <1>7, <3>1, <3>2
      <3>4. Chain(S[r], older', younger')
        BY <3>1, <3>3, ChainSame
      <3> QED BY <1>9, <2>2, <3>4
    <2>3. Chain(S2[p], older', younger')
      BY <1>9 DEF Chain
    <2>4. older'[1] = None /\ younger'[1] = None
      <3>1. a # 1 /\ u[1] # 1
        <4>1. \A r \in Pid : \A c \in ToSet(S[r]) : c # 1
          BY <1>t, Children
        <4> QED BY <1>1, <1>2, <1>3, <1>4, <1>t, <4>1
      <3> QED BY <1>7, <1>t, <3>1 DEF Tree, Links
    <2>5. ASSUME NEW r \in ToSet(plist), r # p
          PROVE  child'[r] = Youngest(S2[r])
      <3>1. r \in Pid
        BY <1>t, SetOf
      <3>2. CASE r = 1
        BY <1>7, <1>8, <1>9, <3>2 DEF Youngest
      <3>3. CASE r # 1
        BY <1>0, <1>7, <1>9, <2>5, <3>1, <3>3 DEF Tree, Links
      <3> QED BY <3>2, <3>3
    <2> QED BY <1>0, <1>6, <1>9, <2>1, <2>2, <2>3, <2>4, <2>5 DEF Links
  <1>13. Parents(S2)'
    <2>1. ASSUME NEW r \in Pid, NEW c \in Pid, c \in ToSet(S2[r])
          PROVE  /\ parent[c] < c
                 /\ parent[c] = r \/ parent[c] \notin ToSet(plist) \/ parent[c] = p
      <3>1. CASE c \in ToSet(S[p])
        <4>1. r = 1
          BY <1>10, <1>1, <1>t, <2>1, <3>1 DEF Tree, Born
        <4> QED BY <1>0, <1>1, <3>1, <4>1 DEF Tree, Parents
      <3>2. CASE c \notin ToSet(S[p])
        <4>1. c \in ToSet(S[r]) /\ r # p
          BY <1>10, <2>1, <3>2
        <4> QED BY <1>0, <1>1, <4>1 DEF Tree, Parents
      <3> QED BY <3>1, <3>2
    <2> QED BY <1>0, <1>6, <2>1 DEF Tree, Parents
  <1>14. Adoption(S2)'
    BY <1>6, <1>9 DEF Adoption
  <1>15. Waiting(S2)'
    <2>1. Running' = Running
      BY <1>0, <1>6 DEF Running
    <2>2. FewerWaiters
      BY <1>0, <1>1, <1>6, <2>1, CpuOnly
    <2>3. ASSUME NEW t \in Tid, NEW x \in Pid, Waits(t, x)'
          PROVE  x \in ToSet(S2[tproc'[t]]) /\ parent'[x] = tproc'[t]
      <3>1. Waits(t, x) /\ tproc[t] \in Pid
        BY <1>t, <2>2, <2>3, Types DEF FewerWaiters
      <3>2. tproc[t] # p
        BY <1>0, <1>1, <3>1, NoneLeft
      <3>3. x \in ToSet(S[tproc[t]]) /\ parent[x] = tproc[t]
        BY <3>1 DEF Tree, Waiting
      <3> QED BY <1>0, <1>10, <3>1, <3>2, <3>3
    <2> QED BY <2>2, <2>3 DEF Tree, Waiting, FewerWaiters
  <1>16. First'
    BY <1>0 DEF Tree, First, Ordered
  <1>17. Tree(S2)'
    BY <1>11, <1>12, <1>13, <1>14, <1>15, <1>16 DEF Tree
  <1> QED BY <1>6, <1>17

\* free_process: the process leaves the lists of its siblings and processes.
\* The thread that frees it is one of its parent, which is there for good.
LEMMA Reap ==
    ASSUME IInv, FreeDone, NEW S, Tree(S)
    PROVE  (\E S2 : Tree(S2)') /\ cpu'.pc # "halt"
  <1>0. /\ cpu.pc = "unlink" /\ UNCHANGED <<tstate, tproc, kctx, current>>
    BY DEF FreeDone, thrVars
  <1>t. /\ TInv /\ plist \in Seq(Pid) /\ 1 \in Pid /\ current \in Tid
        /\ tproc \in [Tid -> Pid] /\ parent \in [Pid -> Pid \cup {None}]
        /\ older \in [Pid -> Pid \cup {None}] /\ younger \in [Pid -> Pid \cup {None}]
        /\ child \in [Pid -> Pid \cup {None}] /\ IsInjective(plist)
        /\ ToSet(plist) \subseteq Pid
    <2>1. plist \in Seq(Pid)
      BY Types DEF IInv
    <2> QED BY <2>1, Types, Constants, SetOf DEF IInv, TInv, TypeOK, Tables, Processes
  <1>c. Running = current /\ current \in threads
    BY <1>0, <1>t, NotIdle DEF threads
  <1>1. PICK p \in Pid : p = cpu.pr /\ p \in ToSet(plist) /\ p # 1
    <2>1. cpu.pr \in Pid /\ pstate[cpu.pr] = "FINISHED"
      BY <1>0, <1>t, Types DEF IInv, Execution, Code, Place
    <2> QED BY <2>1 DEF IInv, Tables, Processes, System
  <1>2. PICK r \in Pid : r = tproc[current]
    BY <1>t
  <1>3. /\ Waits(current, p) /\ p \in ToSet(S[r]) /\ parent[p] = r
        /\ r \in ToSet(plist) /\ r # p
    <2>1. Waits(current, p)
      BY <1>0, <1>1, <1>c DEF Waits
    <2>2. p \in ToSet(S[r]) /\ parent[p] = r
      BY <1>t, <1>2, <2>1 DEF Tree, Waiting
    <2> QED BY <1>t, <2>1, <2>2, Children
  <1>4. PICK s \in Seq(Pid) :
           /\ s = S[r] /\ IsInjective(s) /\ Chain(s, older, younger) /\ p \in ToSet(s)
           /\ ToSet(s) \subseteq Pid
    BY <1>t, <1>3, Children DEF Tree, Links
  <1>5. PICK o \in Pid \cup {None}, y \in Pid \cup {None} :
           /\ o = older[p] /\ y = younger[p]
           /\ o # None => o \in ToSet(s) /\ o # 1
           /\ y # None => y \in ToSet(s) /\ y # 1
    <2>1. older[p] \in Pid \cup {None} /\ younger[p] \in Pid \cup {None}
      BY <1>t
    <2>2. /\ older[p] # None => older[p] \in ToSet(s)
          /\ younger[p] # None => younger[p] \in ToSet(s)
      BY <1>t, <1>3, <1>4, Children
    <2>3. \A x \in ToSet(s) : x # 1
      BY <1>t, <1>4, Children
    <2> QED BY <2>1, <2>2, <2>3
  <1>6. /\ child' = [(IF child[r] = p
                      THEN SetKin(child, r, IF y # None THEN y ELSE o) ELSE child)
                     EXCEPT ![p] = None]
        /\ younger' = [SetKin(younger, o, y) EXCEPT ![p] = None]
        /\ older' = [SetKin(older, y, o) EXCEPT ![p] = None]
        /\ parent' = [parent EXCEPT ![p] = None]
        /\ plist' = Unlink(plist, p)
        /\ cpu' = AtReturn(current)
    BY <1>1, <1>3, <1>5 DEF FreeDone
  <1>7. /\ cpu'.pc = "handle" /\ Running' = current
    BY <1>0, <1>6 DEF AtReturn, K, Running
  <1>8. \A x \in Pid \ {p} :
           /\ older'[x] = IF x = y THEN o ELSE older[x]
           /\ younger'[x] = IF x = o THEN y ELSE younger[x]
           /\ parent'[x] = parent[x]
           /\ child'[x] = IF x = r /\ child[r] = p THEN (IF y # None THEN y ELSE o)
                          ELSE child[x]
    <2>1. None \notin Pid
      BY DEF None, Pid
    <2>2. /\ \A x \in Pid \ {p} : older'[x] = IF x = y THEN o ELSE older[x]
          /\ \A x \in Pid \ {p} : younger'[x] = IF x = o THEN y ELSE younger[x]
          /\ \A x \in Pid \ {p} : parent'[x] = parent[x]
      BY <1>t, <1>6, <2>1 DEF SetKin
    <2>3. \A x \in Pid \ {p} :
             child'[x] = IF x = r /\ child[r] = p THEN (IF y # None THEN y ELSE o)
                         ELSE child[x]
      BY <1>t, <1>6, <2>1 DEF SetKin
    <2> QED BY <2>2, <2>3
  <1>9. PICK v \in Seq(Pid) :
           v = Unlink(s, p) /\ IsInjective(v) /\ ToSet(v) = ToSet(s) \ {p}
    BY <1>4, UnlinkType, UnlinkSet
  <1>10. PICK S2 \in [Pid -> Seq(Pid)] :
            S2[r] = v /\ \A m \in Pid \ {r} : S2[m] = S[m]
    <2> DEFINE S3 == [m \in Pid |-> IF m = r THEN v ELSE S[m]]
    <2>1. S3 \in [Pid -> Seq(Pid)]
      BY DEF Tree, Born
    <2>2. S3[r] = v /\ \A m \in Pid \ {r} : S3[m] = S[m]
      OBVIOUS
    <2> HIDE DEF S3
    <2> QED BY <2>1, <2>2
  <1>11. \A m, c \in Pid : c \in ToSet(S2[m]) <=> c \in ToSet(S[m]) /\ c # p
    <2>1. ASSUME NEW m \in Pid, NEW c \in Pid, m # r
          PROVE  c \in ToSet(S2[m]) <=> c \in ToSet(S[m]) /\ c # p
      BY <1>3, <1>10, <2>1 DEF Tree, Born
    <2> QED BY <1>4, <1>9, <1>10, <2>1
  <1>12. ToSet(plist') = ToSet(plist) \ {p}
    BY <1>6, <1>t, UnlinkSet
  <1>13. Born(S2)'
    <2>1. \A m \in Pid : IsInjective(S2[m])
      BY <1>9, <1>10 DEF Tree, Born
    <2>2. \A m, n, c \in Pid : c \in ToSet(S2[m]) /\ c \in ToSet(S2[n]) => m = n
      BY <1>11 DEF Tree, Born
    <2>3. ASSUME NEW c \in Pid
          PROVE  c \in ToSet(plist') \ {1} <=> \E m \in Pid : c \in ToSet(S2[m])
      <3>1. c \in ToSet(plist) \ {1} <=> \E m \in Pid : c \in ToSet(S[m])
        BY DEF Tree, Born
      <3> QED BY <1>11, <1>12, <3>1
    <2>4. ASSUME NEW m \in Pid, NEW c \in Pid, c \in ToSet(S2[m])
          PROVE  m \in ToSet(plist') /\ m < c
      <3>1. m \in ToSet(plist) /\ m < c
        BY <1>11, <2>4 DEF Tree, Born
      <3>2. m # p
        <4>1. S[p] = <<>>
          BY <1>0, <1>1 DEF Tree, Adoption
        <4>2. ToSet(S[p]) = {}
          BY <4>1, <1>t, Children, EmptySet
        <4> QED BY <1>11, <2>4, <4>2
      <3> QED BY <1>12, <3>1, <3>2
    <2> QED BY <1>10, <2>1, <2>2, <2>3, <2>4 DEF Born
  <1>14. Links(S2)'
    <2>1. Chain(S2[r], older', younger')
      <3>1. \A x \in ToSet(s) \ {p} :
               /\ older'[x] = IF x = younger[p] THEN older[p] ELSE older[x]
               /\ younger'[x] = IF x = older[p] THEN younger[p] ELSE younger[x]
        BY <1>4, <1>5, <1>8
      <3>2. Chain(Unlink(s, p), older', younger')
        BY <1>4, <3>1, ChainUnlink
      <3> QED BY <1>9, <1>10, <3>2
    <2>2. ASSUME NEW m \in Pid, m # r
          PROVE  Chain(S2[m], older', younger')
      <3>1. S[m] \in Seq(Pid) /\ ToSet(S[m]) \subseteq Pid /\ Chain(S[m], older, younger)
        BY <1>t, Children DEF Tree, Links
      <3>2. \A x \in ToSet(S[m]) : x \notin ToSet(s) /\ x # None
        BY <1>4, <2>2, <3>1 DEF Tree, Born, None, Pid
      <3>3. \A x \in ToSet(S[m]) : x # p /\ x # o /\ x # y
        BY <1>4, <1>5, <3>2
      <3>4. \A x \in ToSet(S[m]) : older'[x] = older[x] /\ younger'[x] = younger[x]
        BY <1>8, <3>1, <3>3
      <3>5. Chain(S[m], older', younger')
        BY <3>1, <3>4, ChainSame
      <3> QED BY <1>10, <2>2, <3>5
    <2>3. older'[1] = None /\ younger'[1] = None
      <3>1. 1 # o /\ 1 # y /\ 1 # p
        BY <1>1, <1>5 DEF None
      <3> QED BY <1>8, <1>t, <3>1 DEF Tree, Links
    <2>4. ASSUME NEW m \in ToSet(plist')
          PROVE  child'[m] = Youngest(S2[m])
      <3>1. m \in Pid /\ m \in ToSet(plist) /\ m # p
        BY <1>12, <1>t, <2>4
      <3>2. child[m] = Youngest(S[m])
        BY <1>1, <3>1 DEF Tree, Links
      <3>3. CASE m # r
        BY <1>8, <1>10, <3>1, <3>2, <3>3
      <3>4. CASE m = r
        <4>1. Youngest(v) = IF s[1] = p THEN older[p] ELSE s[1]
          BY <1>4, <1>9, YoungestUnlink
        <4>2. y = None <=> p = s[1]
          BY <1>t, <1>3, <1>4, <1>5, Children
        <4>3. child[r] = s[1]
          BY <1>4, <3>2, <3>4, EmptySet DEF Youngest
        <4> QED BY <1>5, <1>8, <1>10, <3>1, <3>4, <4>1, <4>2, <4>3
      <3> QED BY <3>3, <3>4
    <2> QED BY <1>10, <2>1, <2>2, <2>3, <2>4 DEF Links
  <1>15. Parents(S2)' /\ Adoption(S2)'
    <2>1. ASSUME NEW m \in Pid, NEW c \in Pid, c \in ToSet(S2[m])
          PROVE  /\ parent'[c] < c
                 /\ parent'[c] = m \/ parent'[c] \notin ToSet(plist')
      <3>1. c \in ToSet(S[m]) /\ c # p
        BY <1>11, <2>1
      <3>2. parent'[c] = parent[c]
        BY <1>8, <3>1
      <3> QED BY <1>0, <1>1, <1>12, <3>1, <3>2 DEF Tree, Parents
    <2>2. parent'[1] = None
      BY <1>1, <1>8, <1>t DEF Tree, Parents
    <2> QED BY <1>7, <2>1, <2>2 DEF Parents, Adoption
  <1>16. Waiting(S2)'
    <2>1. ASSUME NEW t \in Tid, NEW x \in Pid, Waits(t, x)'
          PROVE  Waits(t, x) /\ x # p
      <3>1. t # current /\ t \in threads /\ kctx[t].pc = "wait" /\ kctx[t].pr = x
        BY <1>0, <1>7, <2>1 DEF Waits, threads
      <3>2. Waits(t, x)
        BY <1>c, <3>1 DEF Waits
      <3>3. x # p
        BY <1>3, <1>t, <3>1, <3>2 DEF Tree, Waiting
      <3> QED BY <3>2, <3>3
    <2>2. ASSUME NEW t \in Tid, NEW x \in Pid, Waits(t, x)'
          PROVE  x \in ToSet(S2[tproc'[t]]) /\ parent'[x] = tproc'[t]
      <3>1. Waits(t, x) /\ x # p /\ tproc[t] \in Pid
        BY <1>t, <2>1, <2>2
      <3>2. x \in ToSet(S[tproc[t]]) /\ parent[x] = tproc[t]
        BY <3>1 DEF Tree, Waiting
      <3> QED BY <1>0, <1>8, <1>11, <3>1, <3>2
    <2>3. ASSUME NEW t \in Tid, NEW w \in Tid, NEW x \in Pid, Waits(t, x)', Waits(w, x)'
          PROVE  t = w
      <3>1. Waits(t, x) /\ Waits(w, x)
        BY <2>1, <2>3
      <3> QED BY <3>1 DEF Tree, Waiting
    <2> QED BY <2>2, <2>3 DEF Waiting
  <1>17. First'
    <2>1. p # plist[1] /\ Ordered(plist)
      BY <1>1 DEF Tree, First
    <2>2. Ordered(plist') /\ plist' # <<>> /\ plist'[1] = plist[1]
      BY <1>1, <1>6, <1>t, <2>1, OrderedUnlink
    <2> QED BY <2>2 DEF Tree, First
  <1>18. Tree(S2)'
    BY <1>13, <1>14, <1>15, <1>16, <1>17 DEF Tree
  <1> QED BY <1>7, <1>18

\* Programs wait for their own children only, one thread for each.
OwnChildren == "wait_any" \notin Misuse

\* waitpid() of a child.
LEMMA WaitpidTree ==
    ASSUME IInv, OwnChildren, NEW p \in Pid, Waitpid(p), NEW S, Tree(S)
    PROVE  Tree(S)'
  <1>1. /\ InUser /\ p \in ToSet(plist) /\ parent[p] = Me /\ cpu' = AtWait(p)
        /\ \A t \in Tid \ {current} : ~ WaitsFor(t, p)
        /\ UNCHANGED <<tstate, tproc, kctx, current>>
        /\ UNCHANGED <<plist, parent, child, older, younger>>
    BY DEF Waitpid, OwnChildren, thrVars, procVars, family
  <1>t. TInv /\ current \in Tid /\ current \in threads /\ Me \in Pid /\ pstate[Me] = "LIVE"
    BY <1>1, UserLive, Types DEF IInv
  <1>2. /\ Running = current /\ Running' = current
        /\ cpu.pc = "user" /\ cpu'.pc = "wait" /\ cpu'.pr = p
    BY <1>1 DEF Running, InUser, AtWait, K
  <1>3. ASSUME NEW t \in Tid, NEW x \in Pid
        PROVE  Waits(t, x)' <=> IF t = current THEN x = p ELSE Waits(t, x)
    BY <1>1, <1>2, <1>t DEF Waits, threads
  <1>4. ~ \E t \in Tid \ {current} : Waits(t, p)
    BY <1>1, <1>2 DEF Waits, WaitsFor
  <1>5. p \in ToSet(S[Me])
    <2>1. p # 1
      BY <1>1, <1>t DEF Tree, Parents, None, Pid
    <2>2. PICK r \in Pid : p \in ToSet(S[r])
      BY <1>1, <2>1 DEF Tree, Born
    <2>3. Me \in ToSet(plist)
      BY <1>t DEF IInv, Tables, Processes
    <2>4. parent[p] = r
      BY <1>1, <1>2, <2>2, <2>3 DEF Tree, Parents
    <2> QED BY <1>1, <2>2, <2>4
  <1>6. First' /\ Born(S)'
    BY <1>1 DEF Tree, First, Born, Ordered
  <1>7. Links(S)'
    BY <1>1, <1>2 DEF Tree, Links, Chain
  <1>8. Parents(S)' /\ Adoption(S)'
    BY <1>1, <1>2 DEF Tree, Parents, Adoption
  <1>9. Waiting(S)'
    <2>1. ASSUME NEW t \in Tid, NEW x \in Pid, Waits(t, x)'
          PROVE  x \in ToSet(S[tproc'[t]]) /\ parent'[x] = tproc'[t]
      <3>1. CASE t = current
        BY <1>1, <1>3, <1>5, <2>1, <3>1 DEF Me
      <3>2. CASE t # current
        BY <1>1, <1>3, <2>1, <3>2 DEF Tree, Waiting
      <3> QED BY <3>1, <3>2
    <2>2. ASSUME NEW t \in Tid, NEW u \in Tid, NEW x \in Pid, Waits(t, x)', Waits(u, x)'
          PROVE  t = u
      <3>1. CASE t # current /\ u # current
        BY <1>3, <2>2, <3>1 DEF Tree, Waiting
      <3>2. CASE t = current \/ u = current
        BY <1>3, <1>4, <2>2, <3>2
      <3> QED BY <3>1, <3>2
    <2> QED BY <2>1, <2>2 DEF Waiting
  <1> QED BY <1>6, <1>7, <1>8, <1>9 DEF Tree

\* fork(): the new process is the youngest child of the caller's.
LEMMA ForkTree ==
    ASSUME IInv, Fork, NEW S, Tree(S)
    PROVE  \E S2 : Tree(S2)'
  <1>1. PICK h \in Tid, c \in Pid : h = next_tid /\ c = next_pid
    BY DEF Fork, AllocThread
  <1>t. /\ TInv /\ plist \in Seq(Pid) /\ current \in Tid /\ 1 \in Pid
        /\ tproc \in [Tid -> Pid] /\ kctx \in [Tid -> Context]
        /\ tstate \in [Tid -> {"FREE", "READY", "WAITING", "FINISHED"}]
        /\ parent \in [Pid -> Pid \cup {None}] /\ child \in [Pid -> Pid \cup {None}]
        /\ older \in [Pid -> Pid \cup {None}] /\ younger \in [Pid -> Pid \cup {None}]
        /\ ToSet(plist) \subseteq Pid
    <2>1. plist \in Seq(Pid)
      BY Types DEF IInv
    <2> QED BY <2>1, Types, Constants, SetOf DEF IInv, TInv, TypeOK
  <1>2. PICK m \in Pid : m = Me /\ m \in ToSet(plist) /\ InUser
    <2>1. InUser
      BY DEF Fork
    <2>2. Me \in Pid /\ pstate[Me] = "LIVE"
      BY <2>1, UserLive
    <2> QED BY <2>1, <2>2 DEF IInv, Tables, Processes
  <1>3. PICK e \in Pid \cup {None} : e = child[m]
    BY <1>t
  <1>4. /\ plist' = Append(plist, c) /\ parent' = [parent EXCEPT ![c] = m]
        /\ child' = [child EXCEPT ![c] = None, ![m] = c]
        /\ older' = [older EXCEPT ![c] = e]
        /\ younger' = SetKin([younger EXCEPT ![c] = None], e, c)
        /\ tstate' = [tstate EXCEPT ![h] = tstate[current]]
        /\ tproc' = [tproc EXCEPT ![h] = c] /\ kctx' = [kctx EXCEPT ![h] = AtFirst(h)]
        /\ cpu' = AtReturn(current) /\ current' = current
    BY <1>1, <1>2, <1>3 DEF Fork, AllocThread
  <1>5. /\ \A x \in ToSet(plist) : x < c
        /\ c \notin ToSet(plist) /\ m # c /\ c # 1
    <2>1. ASSUME NEW x \in ToSet(plist) PROVE x < c
      <3>1. x \in Pid /\ pstate[x] # "FREE"
        BY <1>t, <2>1 DEF IInv, Tables, Processes
      <3>2. ~ (x >= next_pid)
        BY <3>1 DEF IInv, Tables, System
      <3> QED BY <1>1, <3>1, <3>2 DEF Pid
    <2>2. c \notin ToSet(plist)
      BY <2>1 DEF Pid
    <2>3. 1 \in ToSet(plist)
      BY <1>t, EmptySet DEF Tree, First
    <2> QED BY <1>2, <2>1, <2>2, <2>3
  <1>6. PICK s \in Seq(Pid) :
           /\ s = S[m] /\ IsInjective(s) /\ Chain(s, older, younger)
           /\ ToSet(s) \subseteq Pid /\ e = Youngest(s)
           /\ (e = None <=> s = <<>>) /\ (s # <<>> => e = s[1] /\ s[1] \in ToSet(s))
    <2>1. /\ S[m] \in Seq(Pid) /\ IsInjective(S[m]) /\ ToSet(S[m]) \subseteq Pid
          /\ Youngest(S[m]) = None <=> S[m] = <<>>
          /\ S[m] # <<>> => Youngest(S[m]) = S[m][1] /\ S[m][1] \in ToSet(S[m])
      BY <1>t, Children
    <2>2. Chain(S[m], older, younger) /\ e = Youngest(S[m])
      BY <1>2, <1>3 DEF Tree, Links, InUser
    <2> QED BY <2>1, <2>2
  <1>7. \A r, x \in Pid : x \in ToSet(S[r]) => x # c /\ x \in ToSet(plist) /\ r # c
    BY <1>5 DEF Tree, Born
  <1>8. /\ parent'[c] = m /\ older'[c] = e /\ younger'[c] = None /\ child'[c] = None
        /\ child'[m] = c
        /\ \A x \in Pid \ {c} : /\ parent'[x] = parent[x] /\ older'[x] = older[x]
                                /\ younger'[x] = IF x = e THEN c ELSE younger[x]
                                /\ x # m => child'[x] = child[x]
    <2>1. e # c /\ None \notin Pid
      <3>1. None \notin Pid
        BY DEF None, Pid
      <3> QED BY <1>6, <1>7, <3>1
    <2>2. younger'[c] = None /\ \A x \in Pid \ {c} : younger'[x] = IF x = e THEN c ELSE younger[x]
      BY <1>t, <1>4, <2>1 DEF SetKin
    <2>3. /\ parent'[c] = m /\ older'[c] = e
          /\ \A x \in Pid \ {c} : parent'[x] = parent[x] /\ older'[x] = older[x]
      BY <1>t, <1>4
    <2>4. /\ child'[c] = None /\ child'[m] = c
          /\ \A x \in Pid \ {c, m} : child'[x] = child[x]
      BY <1>t, <1>4, <1>5
    <2> QED BY <2>2, <2>3, <2>4
  <1>9. PICK b \in Seq(Pid) :
           /\ b = Cons(c, s) /\ IsInjective(b) /\ ToSet(b) = ToSet(s) \cup {c}
           /\ Youngest(b) = c
    <2>1. Cons(c, s) \in Seq(Pid) /\ Len(Cons(c, s)) = Len(s) + 1 /\ Cons(c, s)[1] = c
      BY ConsValue
    <2>2. ToSet(Cons(c, s)) = ToSet(s) \cup {c} /\ IsInjective(Cons(c, s))
      BY <1>6, <1>7, ConsSet
    <2>3. Cons(c, s) # <<>>
      BY <2>1, <2>2, EmptySet
    <2> QED BY <2>1, <2>2, <2>3 DEF Youngest
  <1>10. PICK S2 \in [Pid -> Seq(Pid)] :
            S2[m] = b /\ \A r \in Pid \ {m} : S2[r] = S[r]
    <2> DEFINE S3 == [r \in Pid |-> IF r = m THEN b ELSE S[r]]
    <2>1. S3 \in [Pid -> Seq(Pid)]
      BY DEF Tree, Born
    <2>2. S3[m] = b /\ \A r \in Pid \ {m} : S3[r] = S[r]
      OBVIOUS
    <2> HIDE DEF S3
    <2> QED BY <2>1, <2>2
  <1>11. \A r, x \in Pid : x \in ToSet(S2[r]) <=> x \in ToSet(S[r]) \/ (r = m /\ x = c)
    BY <1>6, <1>9, <1>10
  <1>12. ToSet(plist') = ToSet(plist) \cup {c}
    BY <1>4, <1>t, AppendSet
  <1>13. Born(S2)'
    <2>1. \A r \in Pid : IsInjective(S2[r])
      BY <1>9, <1>10 DEF Tree, Born
    <2>2. \A r, n, x \in Pid : x \in ToSet(S2[r]) /\ x \in ToSet(S2[n]) => r = n
      <3>1. \A r, n, x \in Pid : x \in ToSet(S[r]) /\ x \in ToSet(S[n]) => r = n
        BY DEF Tree, Born
      <3>2. \A r \in Pid : c \notin ToSet(S[r])
        BY <1>7
      <3>3. ASSUME NEW r \in Pid, NEW n \in Pid, NEW x \in Pid,
                   x \in ToSet(S2[r]), x \in ToSet(S2[n])
            PROVE  r = n
        <4>1. x \in ToSet(S[r]) \/ (r = m /\ x = c)
          BY <1>11, <3>3
        <4>2. x \in ToSet(S[n]) \/ (n = m /\ x = c)
          BY <1>11, <3>3
        <4> QED BY <3>1, <3>2, <4>1, <4>2
      <3> QED BY <3>3
    <2>3. ASSUME NEW x \in Pid
          PROVE  x \in ToSet(plist') \ {1} <=> \E r \in Pid : x \in ToSet(S2[r])
      <3>1. x \in ToSet(plist) \ {1} <=> \E r \in Pid : x \in ToSet(S[r])
        BY DEF Tree, Born
      <3> QED BY <1>5, <1>11, <1>12, <3>1
    <2>4. ASSUME NEW r \in Pid, NEW x \in Pid, x \in ToSet(S2[r])
          PROVE  r \in ToSet(plist') /\ r < x
      <3>1. CASE x \in ToSet(S[r])
        BY <1>12, <3>1 DEF Tree, Born
      <3>2. CASE r = m /\ x = c
        BY <1>2, <1>5, <1>12, <3>2
      <3> QED BY <1>11, <2>4, <3>1, <3>2
    <2> QED BY <1>10, <2>1, <2>2, <2>3, <2>4 DEF Born
  <1>14. Links(S2)'
    <2>1. Chain(S2[m], older', younger')
      <3>1. c \notin ToSet(s)
        BY <1>6, <1>7
      <3>2. \A x \in ToSet(s) : older'[x] = older[x] /\ (x # Youngest(s) => younger'[x] = younger[x])
        BY <1>6, <1>8, <3>1
      <3>3. s # <<>> => younger'[s[1]] = c
        BY <1>6, <1>8, <3>1
      <3>4. older'[c] = Youngest(s) /\ younger'[c] = None
        BY <1>6, <1>8
      <3>5. Chain(Cons(c, s), older', younger')
        BY <1>6, <3>1, <3>2, <3>3, <3>4, ChainCons
      <3> QED BY <1>9, <1>10, <3>5
    <2>2. ASSUME NEW r \in Pid, r # m
          PROVE  Chain(S2[r], older', younger')
      <3>1. S[r] \in Seq(Pid) /\ ToSet(S[r]) \subseteq Pid /\ Chain(S[r], older, younger)
        BY <1>t, Children DEF Tree, Links
      <3>2. \A x \in ToSet(S[r]) : x \notin ToSet(s) /\ x # None /\ x # c
        BY <1>6, <1>7, <2>2, <3>1 DEF Tree, Born, None, Pid
      <3>3. \A x \in ToSet(S[r]) : x # e
        BY <1>6, <3>2
      <3>4. \A x \in ToSet(S[r]) : older'[x] = older[x] /\ younger'[x] = younger[x]
        BY <1>8, <3>1, <3>2, <3>3
      <3>5. Chain(S[r], older', younger')
        BY <3>1, <3>4, ChainSame
      <3> QED BY <1>10, <2>2, <3>5
    <2>3. older'[1] = None /\ younger'[1] = None
      <3>1. 1 # e
        <4>1. \A x \in ToSet(S[m]) : x # 1
          BY <1>t, Children
        <4> QED BY <1>6, <4>1 DEF None
      <3> QED BY <1>5, <1>8, <1>t, <3>1 DEF Tree, Links
    <2>4. ASSUME NEW r \in ToSet(plist')
          PROVE  child'[r] = Youngest(S2[r])
      <3>1. CASE r = m
        BY <1>8, <1>9, <1>10, <3>1
      <3>2. CASE r = c
        <4>1. \A x \in Pid : x \notin ToSet(S[c])
          BY <1>7
        <4>2. S[c] = <<>>
          BY <1>t, <4>1, Children, EmptySet
        <4> QED BY <1>5, <1>8, <1>10, <3>2, <4>2 DEF Youngest
      <3>3. CASE r # m /\ r # c
        <4>1. r \in ToSet(plist) /\ r \in Pid
          BY <1>12, <1>t, <2>4, <3>3
        <4>2. child[r] = Youngest(S[r])
          BY <1>2, <4>1 DEF Tree, Links, InUser
        <4> QED BY <1>8, <1>10, <3>3, <4>1, <4>2
      <3> QED BY <3>1, <3>2, <3>3
    <2> QED BY <1>10, <2>1, <2>2, <2>3, <2>4 DEF Links
  <1>15. Parents(S2)' /\ Adoption(S2)'
    <2>1. ASSUME NEW r \in Pid, NEW x \in Pid, x \in ToSet(S2[r])
          PROVE  /\ parent'[x] < x
                 /\ parent'[x] = r \/ parent'[x] \notin ToSet(plist')
      <3>1. CASE r = m /\ x = c
        BY <1>2, <1>5, <1>8, <3>1
      <3>2. CASE x \in ToSet(S[r])
        <4>1. x # c /\ x \in ToSet(plist) /\ parent'[x] = parent[x]
          BY <1>7, <1>8, <3>2
        <4>2. parent[x] < x /\ (parent[x] = r \/ parent[x] \notin ToSet(plist))
          BY <1>2, <3>2 DEF Tree, Parents, InUser
        <4>3. parent[x] # c
          <5>1. x < c /\ parent[x] \in Pid \cup {None}
            BY <1>5, <1>t, <4>1
          <5> QED BY <4>2, <5>1 DEF Pid, None
        <4> QED BY <1>12, <4>1, <4>2, <4>3
      <3> QED BY <1>11, <2>1, <3>1, <3>2
    <2>2. parent'[1] = None
      BY <1>5, <1>8, <1>t DEF Tree, Parents
    <2> QED BY <1>4, <2>1, <2>2 DEF Parents, Adoption, AtReturn, K
  <1>16. Waiting(S2)'
    <2>0. h \notin threads
      BY <1>1, NextThread
    <2>1. ASSUME NEW t \in Tid, NEW x \in Pid, Waits(t, x)'
          PROVE  Waits(t, x) /\ tproc'[t] = tproc[t]
      <3>1. /\ t # current /\ t \in threads' /\ kctx'[t].pc = "wait" /\ kctx'[t].pr = x
        BY <1>4, <2>1 DEF Waits, Running, AtReturn, K
      <3>2. t # h
        BY <1>4, <1>t, <3>1 DEF AtFirst, K
      <3>3. t \in threads /\ kctx'[t] = kctx[t] /\ tproc'[t] = tproc[t]
        BY <1>4, <1>t, <3>1, <3>2 DEF threads
      <3>4. Running = current
        BY <1>2 DEF Running, InUser
      <3> QED BY <3>1, <3>3, <3>4 DEF Waits
    <2>2. ASSUME NEW t \in Tid, NEW x \in Pid, Waits(t, x)'
          PROVE  x \in ToSet(S2[tproc'[t]]) /\ parent'[x] = tproc'[t]
      <3>1. Waits(t, x) /\ tproc'[t] = tproc[t] /\ tproc[t] \in Pid
        BY <1>t, <2>1, <2>2
      <3>2. x \in ToSet(S[tproc[t]]) /\ parent[x] = tproc[t]
        BY <3>1 DEF Tree, Waiting
      <3> QED BY <1>7, <1>8, <1>11, <3>1, <3>2
    <2>3. ASSUME NEW t \in Tid, NEW w \in Tid, NEW x \in Pid, Waits(t, x)', Waits(w, x)'
          PROVE  t = w
      <3>1. Waits(t, x) /\ Waits(w, x)
        BY <2>1, <2>3
      <3> QED BY <3>1 DEF Tree, Waiting
    <2> QED BY <2>2, <2>3 DEF Waiting
  <1>17. First'
    <2>1. Ordered(plist')
      BY <1>4, <1>5, <1>t, OrderedAppend DEF Tree, First
    <2>2. plist' # <<>> /\ plist'[1] = 1
      <3>1. PICK s2 \in Seq(Pid) : s2 = plist /\ s2 # <<>> /\ s2[1] = 1
        BY <1>t DEF Tree, First
      <3>2. Append(s2, c) # <<>> /\ Append(s2, c)[1] = s2[1]
        <4>1. Len(Append(s2, c)) = Len(s2) + 1 /\ Len(s2) \in Nat /\ Len(s2) # 0
          BY <3>1
        <4>2. \A i \in 1..Len(s2) : Append(s2, c)[i] = s2[i]
          OBVIOUS
        <4>3. 1 \in 1..Len(s2)
          BY <4>1
        <4>4. Append(s2, c)[1] = s2[1]
          BY <4>2, <4>3
        <4>5. Append(s2, c) # <<>>
          <5>1. Append(s2, c) \in Seq(Pid) /\ c \in ToSet(Append(s2, c))
            BY AppendSet
          <5> QED BY <5>1, EmptySet
        <4> QED BY <4>4, <4>5
      <3> QED BY <1>4, <3>1, <3>2
    <2> QED BY <2>1, <2>2 DEF First
  <1> QED BY <1>13, <1>14, <1>15, <1>16, <1>17 DEF Tree

-----------------------------------------------------------------------------
(* The theorem on the process tree *)

\* After kinit, process 1 has no children.
LEMMA InitF == Init => FInv
  <1> SUFFICES ASSUME Init PROVE FInv
    OBVIOUS
  <1>1. IInv
    BY InitI
  <1>2. PICK S \in [Pid -> Seq(Pid)] : \A r \in Pid : S[r] = <<>>
    <2> DEFINE S3 == [r \in Pid |-> <<>>]
    <2>1. S3 \in [Pid -> Seq(Pid)] /\ \A r \in Pid : S3[r] = <<>>
      OBVIOUS
    <2> HIDE DEF S3
    <2> QED BY <2>1
  <1>3. \A r \in Pid : ToSet(S[r]) = {} /\ IsInjective(S[r])
    BY <1>2, EmptySet
  <1>4. /\ plist = <<1>> /\ cpu.pc = "user"
        /\ \A p \in Pid : /\ parent[p] = None /\ child[p] = None
                          /\ older[p] = None /\ younger[p] = None
        /\ \A t \in Tid : kctx[t].pc # "wait"
    BY DEF Init, NoKin, AtUser, AtFirst, K
  <1>5. 1 \in Pid /\ ToSet(plist) = {1}
    BY <1>4, Constants, Single
  <1>6. First
    BY <1>4 DEF First, Ordered
  <1>7. Born(S)
    BY <1>2, <1>3, <1>5 DEF Born
  <1>8. Links(S)
    BY <1>2, <1>4, <1>5 DEF Links, Chain, Youngest
  <1>9. Parents(S) /\ Adoption(S)
    BY <1>3, <1>4, <1>5 DEF Parents, Adoption
  <1>10. Waiting(S)
    BY <1>4 DEF Waiting, Waits
  <1> QED BY <1>1, <1>6, <1>7, <1>8, <1>9, <1>10 DEF FInv, Tree

\* Most steps do not concern the tree.
LEMMA StepsAside ==
    ASSUME IInv, Next,
           ~ (FreeAdopt \/ AdoptNext \/ AdoptDone \/ FreeDone \/ Fork),
           ~ \E p \in Pid : Waitpid(p)
    PROVE  Aside
  <1>1. CASE Kernel
    <2>1. CASE SignalSent
      BY <2>1, SignalAside, PreemptAside
    <2>2. CASE HandleNone \/ HandleIgnore \/ HandleTerminate \/ CheckWaiting \/ Iret
      BY <2>2, SignalAside
    <2> QED BY <1>1, <2>1, <2>2, FreeAside, SwitchAside, HandlerAside, PreemptAside, WaitAside
            DEF Kernel
  <1>2. CASE User
    <2>1. CASE ReturnFromSignal
      BY <2>1, CallAside, PreemptAside
    <2> QED BY <1>2, <2>1, CallAside, ThreadForkAside, PreemptAside DEF User
  <1>3. CASE TimerSchedule
    BY <1>3, PreemptAside
  <1> QED BY <1>1, <1>2, <1>3 DEF Next

\* Every step preserves the tree, of which the children S may change.
LEMMA NextF ==
    ASSUME Orderly, OwnChildren, FInv, [Next]_vars
    PROVE  FInv'
  <1>1. IInv /\ IInv'
    BY NextI DEF FInv
  <1>2. PICK S : Tree(S)
    BY DEF FInv
  <1>3. CASE FreeAdopt \/ AdoptNext
    BY <1>1, <1>2, <1>3, AdoptStart, AdoptMore DEF FInv
  <1>4. CASE AdoptDone \/ FreeDone
    BY <1>1, <1>2, <1>4, AdoptEnd, Reap DEF FInv
  <1>5. CASE Fork
    BY <1>1, <1>2, <1>5, ForkTree DEF FInv
  <1>6. CASE \E p \in Pid : Waitpid(p)
    BY <1>1, <1>2, <1>6, WaitpidTree DEF FInv
  <1>7. CASE /\ Next
             /\ ~ (FreeAdopt \/ AdoptNext \/ AdoptDone \/ FreeDone \/ Fork)
             /\ ~ \E p \in Pid : Waitpid(p)
    <2>1. Aside
      BY <1>1, <1>7, StepsAside
    <2>2. Tree(S)'
      BY <1>2, <2>1, TreeKept DEF Aside
    <2> QED BY <1>1, <2>2 DEF FInv
  <1>8. CASE UNCHANGED vars
    <2>1. /\ UNCHANGED <<plist, parent, child, older, younger, cpu>>
          /\ UNCHANGED <<tstate, tproc, kctx, current>>
      BY <1>8 DEF vars, thrVars, procVars, family
    <2>2. \A t, p : Waits(t, p)' <=> Waits(t, p)
      BY <2>1 DEF Waits, threads, Running
    <2>3. Tree(S)'
      BY <1>2, <2>1, <2>2 DEF Tree, First, Ordered, Born, Links, Chain, Parents, Adoption,
            Waiting
    <2> QED BY <1>1, <2>3 DEF FInv
  <1> QED BY <1>3, <1>4, <1>5, <1>6, <1>7, <1>8

\* The pointers of the process tree, for programs that wait for their own
\* children: between the calls of free_process, the sibling lists are doubly
\* linked, lead to allocated processes only, and every process but the first
\* is reached from the child pointer of one that is there (fork_process,
\* free_process), though the oldest child of a process that ended keeps a
\* parent pointer into freed memory.
THEOREM FamilyTreeSafe == ASSUME Orderly, OwnChildren PROVE Spec => []FamilyTree
  <1>1. FInv => FamilyTree
    <2> SUFFICES ASSUME FInv, cpu.pc \notin {"adopt", "unlink"}, NEW p \in ToSet(plist)
                 PROVE  /\ older[p] # None => older[p] \in ToSet(plist) /\ younger[older[p]] = p
                        /\ younger[p] # None => /\ younger[p] \in ToSet(plist)
                                                /\ older[younger[p]] = p
                        /\ child[p] # None => /\ child[p] \in ToSet(plist)
                                              /\ younger[child[p]] = None
                        /\ p # 1 /\ younger[p] = None => \E r \in ToSet(plist) : child[r] = p
      BY DEF FamilyTree
    <2>1. PICK S : Tree(S)
      BY DEF FInv
    <2>2. TInv /\ plist \in Seq(Pid) /\ p \in Pid
      <3>1. TInv /\ plist \in Seq(Pid)
        BY Types DEF FInv, IInv
      <3> QED BY <3>1, SetOf
    <2>3. child[p] = Youngest(S[p])
      BY <2>1 DEF Tree, Links
    <2>4. child[p] # None => child[p] \in ToSet(plist) /\ younger[child[p]] = None
      BY <2>1, <2>2, <2>3, Children
    <2>5. CASE p = 1
      BY <2>1, <2>4, <2>5 DEF Tree, Links
    <2>6. CASE p # 1
      <3>1. PICK r \in Pid : p \in ToSet(S[r])
        BY <2>1, <2>2, <2>6 DEF Tree, Born
      <3>2. PICK s \in Seq(Pid) :
               s = S[r] /\ Chain(s, older, younger) /\ ToSet(s) = {s[i] : i \in 1..Len(s)}
        <4>1. S[r] \in Seq(Pid) /\ Chain(S[r], older, younger)
          BY <2>1 DEF Tree, Born, Links
        <4> QED BY <4>1, SetOf
      <3>3. /\ r \in ToSet(plist) /\ child[r] = Youngest(s)
            /\ \A c \in ToSet(s) : c \in ToSet(plist)
        BY <2>1, <2>2, <3>1, <3>2, Children DEF Tree, Links
      <3>4. PICK i \in 1..Len(s) : p = s[i]
        BY <3>1, <3>2
      <3>5. /\ older[p] = IF i = Len(s) THEN None ELSE s[i + 1]
            /\ younger[p] = IF i = 1 THEN None ELSE s[i - 1]
        BY <3>2, <3>4 DEF Chain
      <3>6. older[p] # None => older[p] \in ToSet(plist) /\ younger[older[p]] = p
        <4>1. i # Len(s) => i + 1 \in 1..Len(s) /\ i + 1 # 1 /\ (i + 1) - 1 = i
          BY <3>2, <3>4
        <4> QED BY <3>2, <3>3, <3>4, <3>5, <4>1 DEF Chain
      <3>7. younger[p] # None => younger[p] \in ToSet(plist) /\ older[younger[p]] = p
        <4>1. i # 1 => i - 1 \in 1..Len(s) /\ i - 1 # Len(s) /\ (i - 1) + 1 = i
          BY <3>2, <3>4
        <4> QED BY <3>2, <3>3, <3>4, <3>5, <4>1 DEF Chain
      <3>8. younger[p] = None => child[r] = p
        BY <2>1, <2>2, <3>1, <3>2, <3>3, Children
      <3> QED BY <2>4, <3>3, <3>6, <3>7, <3>8
    <2> QED BY <2>5, <2>6
  <1>2. FInv /\ [Next]_vars => FInv'
    BY NextF
  <1>3. Init => FInv
    BY InitF
  <1>4. Spec => []FInv
    BY <1>2, <1>3, PTL DEF Spec
  <1> QED BY <1>1, <1>4, PTL

-----------------------------------------------------------------------------
(* No dead end, for programs that behave like the shipped ones: the rest of *)
(* the invariant                                                            *)

\* Only a program that forks in a signal handler clones the handler's thread.
Kinds == \A t \in Tid : kind[t] # "clone"

\* No program handles or ignores SIGSEGV.
Defaults == "SEGV" \in Sig => \A p \in Pid : handler[p]["SEGV"] = "DFL"

\* What is saved for a thread does not lead to a dead end: a thread is only
\* left at the end of _exit or of its function when it is finished, and the
\* page fault handler never gives up the processor.
Stacks ==
    \A t \in Tid : /\ kctx[t].by # "segv"
                   /\ kctx[t].pc = "halt" => tstate[t] = "FINISHED"
                   /\ kctx[t].pc = "check" => kctx[t].pr = tproc[t]

\* Nor does what the processor is doing: the signal of a page fault is the
\* first to be taken, and signal_process looks for threads in processes that
\* run only.
OnCourse ==
    /\ cpu.pc # "halt"
    /\ cpu.by = "segv" => /\ cpu.pc = "handle" /\ cpu.then = "check"
                          /\ sigq[tproc[current]] = <<"SEGV">>
    /\ cpu.pc = "check" => cpu.pr # 1 /\ pstate[cpu.pr] = "LIVE"
    /\ cpu.pc = "handle" /\ cpu.then = "check" => cpu.pr = tproc[current]

\* A running process has a thread of its main program, until its exit.
Mains ==
    \A p \in Pid \ {1} :
        pstate[p] = "LIVE" /\ ~ (cpu.pc = "exit" /\ cpu.pr = p) =>
            \E t \in threads : tproc[t] = p /\ kind[t] = "main" /\ tstate[t] # "FINISHED"

NInv == FInv /\ Kinds /\ Defaults /\ Stacks /\ OnCourse /\ Mains

-----------------------------------------------------------------------------
(* Kinds of threads and handlers of SIGSEGV *)

\* Only Fork clones.
LEMMA KindsStep ==
    ASSUME TInv, Kinds, "fork_in_handler" \notin Misuse, Next
    PROVE  Kinds'
  <1>t. kind \in [Tid -> {"main", "func", "clone"}]
    BY DEF TInv, TypeOK
  <1>1. \/ kind' = kind
        \/ \E t, k : kind' = [kind EXCEPT ![t] = k] /\ k \in {"main", "func"}
    <2>1. CASE CleanFree \/ FreeOther
      BY <2>1 DEF CleanFree, FreeOther, FreeThread
    <2>2. CASE HandleCustom
      BY <2>2 DEF HandleCustom, AllocThread
    <2>3. CASE Fork
      BY <2>3 DEF Fork, AllocThread
    <2>4. CASE ThreadFork
      BY <2>4 DEF ThreadFork, AllocThread
    <2>5. CASE Execve
      BY <2>5 DEF Execve
    <2>6. CASE SwitchTo \/ CheckWaiting \/ SignalSent
      BY <2>6 DEF SwitchTo, CheckWaiting, SignalSent, thrVars
    <2>7. CASE HandleNone \/ HandleIgnore \/ HandleTerminate \/ Iret
      BY <2>7 DEF HandleNone, HandleIgnore, HandleTerminate, Iret, thrVars
    <2>8. CASE ExitDone \/ WaitTest \/ FreeAdopt \/ AdoptNext \/ AdoptDone \/ FreeDone
      BY <2>8 DEF ExitDone, WaitTest, FreeAdopt, AdoptNext, AdoptDone, FreeDone, thrVars
    <2>9. CASE \/ Yield \/ Exit \/ PageFault \/ ReturnFromSignal \/ TimerSchedule
               \/ \E p \in Pid : Waitpid(p)
               \/ \E s \in Sig, h \in Handlers : Signal(s, h)
               \/ \E p \in Pid, s \in Sig : Kill(p, s)
      BY <2>9 DEF Yield, Exit, PageFault, ReturnFromSignal, TimerSchedule, Waitpid, Signal,
            Kill, thrVars
    <2> QED BY <2>1, <2>2, <2>3, <2>4, <2>5, <2>6, <2>7, <2>8, <2>9 DEF Next, Kernel, User
  <1> QED BY <1>t, <1>1 DEF Kinds

\* fork() copies the handlers, execve() and free_process reset them.
LEMMA DefaultsStep ==
    ASSUME TInv, Defaults, "segv_handler" \notin Misuse, Next
    PROVE  Defaults'
  <1>t. handler \in [Pid -> [Sig -> Handlers]]
    BY DEF TInv, TypeOK
  <1> SUFFICES ASSUME "SEGV" \in Sig
               PROVE  \A p \in Pid : handler'[p]["SEGV"] = "DFL"
    BY DEF Defaults
  <1>1. CASE handler' = handler
    BY <1>1 DEF Defaults
  <1>2. CASE FreeDone \/ Execve
    <2>1. handler' = handler \/ \E p : handler' = [handler EXCEPT ![p] = AllDefault]
      BY <1>2 DEF FreeDone, Execve
    <2>2. AllDefault["SEGV"] = "DFL"
      BY DEF AllDefault
    <2> QED BY <1>t, <2>1, <2>2 DEF Defaults
  <1>3. CASE Fork
    <2>1. PICK c, m : handler' = [handler EXCEPT ![c] = handler[m]] /\ m \in Pid
      <3>1. Me \in Pid
        BY Types DEF Me
      <3> QED BY <1>3, <3>1 DEF Fork
    <2> QED BY <1>t, <2>1 DEF Defaults
  <1>4. CASE \E s \in Sig, h \in Handlers : Signal(s, h)
    <2>1. PICK s \in Sig, h \in Handlers : Signal(s, h)
      BY <1>4
    <2>2. handler' = [handler EXCEPT ![Me][s] = h] /\ (s = "SEGV" => h = "DFL")
      BY <2>1 DEF Signal
    <2> QED BY <1>t, <2>2 DEF Defaults
  <1>5. CASE \/ CleanFree \/ SwitchTo \/ CheckWaiting \/ SignalSent \/ HandleNone
             \/ HandleIgnore \/ HandleTerminate \/ HandleCustom \/ Iret \/ FreeOther
             \/ ExitDone \/ WaitTest \/ FreeAdopt \/ AdoptNext \/ AdoptDone
    <2>1. handler' = handler
      BY <1>5 DEF CleanFree, SwitchTo, CheckWaiting, SignalSent, HandleNone, HandleIgnore,
            HandleTerminate, HandleCustom, Iret, FreeOther, ExitDone, WaitTest, FreeAdopt,
            AdoptNext, AdoptDone, sigVars
    <2> QED BY <1>1, <2>1
  <1>6. CASE \/ Yield \/ Exit \/ PageFault \/ ReturnFromSignal \/ TimerSchedule \/ ThreadFork
             \/ \E p \in Pid : Waitpid(p)
             \/ \E p \in Pid, s \in Sig : Kill(p, s)
    <2>1. handler' = handler
      BY <1>6 DEF Yield, Exit, PageFault, ReturnFromSignal, TimerSchedule, ThreadFork, Waitpid,
            Kill, sigVars
    <2> QED BY <1>1, <2>1
  <1> QED BY <1>2, <1>3, <1>4, <1>5, <1>6 DEF Next, Kernel, User

-----------------------------------------------------------------------------
(* Saved continuations *)

\* A step that changes no continuation, nor who has it.
LEMMA StacksKept ==
    ASSUME Stacks, UNCHANGED <<kctx, tproc, tstate>>
    PROVE  Stacks'
  BY DEF Stacks

\* One that saves k for the current thread; threads that were woken slept,
\* not at a dead end.
LEMMA StacksSave ==
    ASSUME Stacks, kctx \in [Tid -> Context], current \in Tid, UNCHANGED tproc,
           NEW k, kctx' = [kctx EXCEPT ![current] = k],
           k.by # "segv", k.pc # "check", k.pc = "halt" => tstate'[current] = "FINISHED",
           \A t \in Tid \ {current} : tstate[t] = "FINISHED" => tstate'[t] = "FINISHED"
    PROVE  Stacks'
  <1> SUFFICES ASSUME NEW t \in Tid
               PROVE  /\ kctx'[t].by # "segv"
                      /\ kctx'[t].pc = "halt" => tstate'[t] = "FINISHED"
                      /\ kctx'[t].pc = "check" => kctx'[t].pr = tproc'[t]
    BY DEF Stacks
  <1>1. CASE t = current
    BY <1>1
  <1>2. CASE t # current
    BY <1>2 DEF Stacks
  <1> QED BY <1>1, <1>2

\* One that resets the continuation of a thread.
LEMMA StacksReset ==
    ASSUME Stacks, kctx \in [Tid -> Context], tproc \in [Tid -> Pid],
           tstate \in [Tid -> {"FREE", "READY", "WAITING", "FINISHED"}],
           NEW u, NEW k, k = AtFirst(u) \/ k = AtUser(u), kctx' = [kctx EXCEPT ![u] = k],
           \A t \in Tid \ {u} : tstate'[t] = tstate[t] /\ tproc'[t] = tproc[t]
    PROVE  Stacks'
  BY DEF Stacks, AtFirst, AtUser, K

\* Every step keeps them, for a page fault is over before schedule() is called.
LEMMA StacksStep ==
    ASSUME IInv, Kinds, Defaults, Stacks, OnCourse, Next
    PROVE  Stacks'
  <1>t. /\ TInv /\ current \in Tid /\ kctx \in [Tid -> Context] /\ cpu \in Context
        /\ tstate \in [Tid -> {"FREE", "READY", "WAITING", "FINISHED"}]
        /\ tproc \in [Tid -> Pid]
    BY Types DEF IInv
  <1>w. \A l \in Lists \ {RunQ}, t \in Tid : t \in ToSet(q[l]) => tstate[t] = "WAITING"
    BY DEF IInv, Execution, Placed, PlacedIn
  <1>1. CASE \/ CheckWaiting \/ HandleNone \/ HandleIgnore \/ HandleTerminate \/ Iret
             \/ FreeAdopt \/ AdoptNext \/ AdoptDone \/ FreeDone
             \/ Exit \/ Execve \/ PageFault
             \/ (\E p \in Pid : Waitpid(p))
             \/ (\E s \in Sig, h \in Handlers : Signal(s, h))
             \/ \E p \in Pid, s \in Sig : Kill(p, s)
    <2>1. UNCHANGED <<kctx, tproc, tstate>>
      BY <1>1 DEF CheckWaiting, HandleNone, HandleIgnore, HandleTerminate, Iret, FreeAdopt,
            AdoptNext, AdoptDone, FreeDone, Exit, Execve, PageFault, Waitpid, Signal, Kill,
            thrVars
    <2> QED BY <2>1, StacksKept
  <1>2. CASE CleanFree \/ FreeOther
    <2>1. PICK u : /\ tstate' = [tstate EXCEPT ![u] = "FREE"]
                   /\ tproc' = [tproc EXCEPT ![u] = 1]
                   /\ kctx' = [kctx EXCEPT ![u] = AtFirst(u)]
      BY <1>2 DEF CleanFree, FreeOther, FreeThread
    <2> QED BY <1>t, <2>1, StacksReset
  <1>3. CASE Fork \/ ThreadFork
    <2>1. PICK h \in Tid : h = next_tid
      BY <1>3 DEF Fork, ThreadFork, AllocThread
    <2>2. /\ kctx' = [kctx EXCEPT ![h] = AtFirst(h)]
          /\ \A t \in Tid \ {h} : tstate'[t] = tstate[t] /\ tproc'[t] = tproc[t]
      <3>1. CASE Fork
        BY <1>t, <2>1, <3>1 DEF Fork, AllocThread
      <3>2. CASE ThreadFork
        BY <1>t, <2>1, <3>2 DEF ThreadFork, AllocThread
      <3> QED BY <1>3, <3>1, <3>2
    <2> QED BY <1>t, <2>2, StacksReset
  <1>4. CASE SwitchTo
    <2>1. UNCHANGED <<tstate, tproc>>
      BY <1>4 DEF SwitchTo, thrVars
    <2>2. kctx' = kctx \/ kctx' = [kctx EXCEPT ![cpu.arg] = AtUser(cpu.arg)]
      BY <1>4 DEF SwitchTo
    <2> QED BY <1>t, <2>1, <2>2, StacksKept, StacksReset
  <1>5. CASE \/ TimerSchedule \/ Yield \/ SignalSent
    <2>1. UNCHANGED <<tstate, tproc>>
      BY <1>5 DEF TimerSchedule, Yield, SignalSent
    <2>2. \/ kctx' = kctx
          \/ \E k : /\ kctx' = [kctx EXCEPT ![current] = k]
                    /\ k = AtUser(Boot) \/ k = AtReturn(current)
      <3>1. ~ (cpu.pc = "sent" /\ cpu.by = "segv")
        BY DEF OnCourse
      <3> QED BY <1>5, <3>1 DEF TimerSchedule, Yield, SignalSent, ScheduleFrom, Schedule
    <2>3. CASE kctx' = kctx
      BY <2>1, <2>3, StacksKept
    <2>4. CASE \E k : /\ kctx' = [kctx EXCEPT ![current] = k]
                      /\ k = AtUser(Boot) \/ k = AtReturn(current)
      <3>1. PICK k : /\ kctx' = [kctx EXCEPT ![current] = k]
                     /\ k = AtUser(Boot) \/ k = AtReturn(current)
        BY <2>4
      <3>2. k.by # "segv" /\ k.pc # "check" /\ k.pc # "halt"
        BY <3>1 DEF AtUser, AtReturn, K
      <3> QED BY <1>t, <2>1, <3>1, <3>2, StacksSave
    <2> QED BY <2>2, <2>3, <2>4
  <1>6. CASE WaitTest
    <2>1. cpu.pc = "wait" /\ tproc' = tproc /\ cpu.by # "segv"
      BY <1>6 DEF WaitTest, OnCourse
    <2>2. tstate[current] = "READY"
      BY <2>1, NotIdle
    <2>3. \/ UNCHANGED <<tstate, kctx>>
          \/ /\ tstate' = [tstate EXCEPT ![current] = "WAITING"]
             /\ kctx' = [kctx EXCEPT ![current] = cpu]
      BY <1>6 DEF WaitTest, ScheduleFrom, Schedule
    <2>4. CASE UNCHANGED <<tstate, kctx>>
      BY <2>1, <2>4, StacksKept
    <2>5. CASE /\ tstate' = [tstate EXCEPT ![current] = "WAITING"]
               /\ kctx' = [kctx EXCEPT ![current] = cpu]
      BY <1>t, <2>1, <2>5, StacksSave
    <2> QED BY <2>3, <2>4, <2>5
  <1>7. CASE ExitDone
    <2>1. cpu.pc = "exit" /\ tproc' = tproc
      BY <1>7 DEF ExitDone
    <2>2. cpu.pr \in Pid /\ tstate[current] = "READY"
      BY <1>t, <2>1, Types, NotIdle
    <2>3. PWait(cpu.pr) \in Lists \ {RunQ}
      BY <2>2, ListNames
    <2>4. tstate' = [t \in Tid |-> IF t \in ToSet(q[PWait(cpu.pr)]) THEN "READY"
                                   ELSE IF t = current THEN "FINISHED" ELSE tstate[t]]
      BY <1>7 DEF ExitDone
    <2>5. /\ tstate'[current] = "FINISHED"
          /\ \A t \in Tid \ {current} : tstate[t] = "FINISHED" => tstate'[t] = "FINISHED"
      BY <1>t, <1>w, <2>2, <2>3, <2>4
    <2>6. PICK k : kctx' = [kctx EXCEPT ![current] = k] /\ k = AtHalt("end_of_exit")
      BY <1>7 DEF ExitDone, ScheduleFrom, Schedule
    <2>7. k.by # "segv" /\ k.pc # "check"
      BY <2>6 DEF AtHalt, K
    <2> QED BY <1>t, <2>1, <2>5, <2>6, <2>7, StacksSave
  <1>8. CASE ReturnFromSignal
    <2>1. kind[current] # "clone" /\ tproc' = tproc /\ tstate[current] = "READY"
      BY <1>8, <1>t, UserLive DEF ReturnFromSignal, Kinds
    <2>2. TWait(current) \in Lists \ {RunQ}
      BY <1>t, ListNames
    <2>3. tstate' = [t \in Tid |-> IF t = current THEN "FINISHED"
                                   ELSE IF t \in ToSet(q[TWait(current)]) THEN "READY"
                                   ELSE tstate[t]]
      BY <1>8, <2>1 DEF ReturnFromSignal
    <2>4. /\ tstate'[current] = "FINISHED"
          /\ \A t \in Tid \ {current} : tstate[t] = "FINISHED" => tstate'[t] = "FINISHED"
      BY <1>t, <1>w, <2>2, <2>3
    <2>5. PICK k : kctx' = [kctx EXCEPT ![current] = k] /\ k = AtHalt("after_signal_return")
      BY <1>8, <2>1 DEF ReturnFromSignal, ScheduleFrom, Schedule
    <2>6. k.by # "segv" /\ k.pc # "check"
      BY <2>5 DEF AtHalt, K
    <2> QED BY <1>t, <2>1, <2>4, <2>5, <2>6, StacksSave
  <1>9. CASE HandleCustom
    <2>0. cpu.pc = "handle" /\ Pending(tproc[cpu.arg])
      BY <1>9 DEF HandleCustom
    <2>1. PICK h \in Tid : h = next_tid /\ h # current /\ h # cpu.arg
      <3>1. PICK h \in Tid : h = next_tid
        BY <1>9 DEF HandleCustom, AllocThread
      <3>2. tstate[h] = "FREE" /\ h # current
        BY <3>1, NextThread
      <3>3. tstate[cpu.arg] # "FREE"
        <4>1. tstate[current] # "FREE"
          BY DEF IInv, Execution, Base
        <4>2. cpu.arg = current \/ tstate[cpu.arg] = "WAITING"
          BY <2>0, Delivery DEF IInv, Execution, Code, Place, InSignal
        <4> QED BY <4>1, <4>2
      <3> QED BY <3>1, <3>2, <3>3
    <2>2. cpu.arg \in Tid /\ cpu.then \in {"iret", "check", "sent"}
      BY <1>t, <2>0, Types
    <2>3. /\ tproc' = [tproc EXCEPT ![h] = tproc[cpu.arg]]
          /\ tstate' = [tstate EXCEPT ![h] = "READY", ![cpu.arg] = "WAITING"]
          /\ kctx' = [kctx EXCEPT ![h] = AtFirst(h),
                                  ![current] = [cpu EXCEPT !.pc = cpu.then]]
      BY <1>9, <2>1 DEF HandleCustom, AllocThread, Schedule
    <2>4. cpu.by # "segv"
      <3>1. CASE cpu.then = "check"
        <4>1. cpu.arg = current
          BY <2>0, <3>1 DEF IInv, Execution, Code, Place, InSignal
        <4>2. PICK p \in Pid : p = tproc[current]
          BY <1>t
        <4>3. handler[p][Head(sigq[p])] = "CUSTOM"
          BY <1>9, <4>1, <4>2 DEF HandleCustom
        <4>4. sigq[p] = <<"SEGV">> => "SEGV" \in Sig /\ Head(sigq[p]) = "SEGV"
          <5>1. sigq[p] \in Seq(Sig)
            BY <1>t, Types
          <5>2. ASSUME sigq[p] = <<"SEGV">> PROVE "SEGV" \in Sig /\ Head(sigq[p]) = "SEGV"
            <6>1. Len(sigq[p]) = 1 /\ sigq[p][1] = "SEGV"
              BY <5>2
            <6>2. sigq[p][1] \in Sig
              BY <5>1, <6>1
            <6> QED BY <5>2, <6>1, <6>2
          <5> QED BY <5>2
        <4> QED BY <4>2, <4>3, <4>4 DEF OnCourse, Defaults
      <3>2. CASE cpu.then # "check"
        BY <3>2 DEF OnCourse
      <3> QED BY <3>1, <3>2
    <2>5. ASSUME NEW t \in Tid
          PROVE  /\ kctx'[t].by # "segv"
                 /\ kctx'[t].pc = "halt" => tstate'[t] = "FINISHED"
                 /\ kctx'[t].pc = "check" => kctx'[t].pr = tproc'[t]
      <3>1. CASE t = h
        BY <1>t, <2>1, <2>3, <3>1 DEF AtFirst, K
      <3>2. CASE t = current
        <4>1. kctx'[t] = [cpu EXCEPT !.pc = cpu.then] /\ tproc'[t] = tproc[t]
          BY <1>t, <2>1, <2>3, <3>2
        <4>2. kctx'[t].pc = cpu.then /\ kctx'[t].by = cpu.by /\ kctx'[t].pr = cpu.pr
          BY <1>t, <4>1 DEF Context
        <4> QED BY <2>0, <2>2, <2>4, <3>2, <4>1, <4>2 DEF OnCourse
      <3>3. CASE t # h /\ t # current
        <4>1. kctx'[t] = kctx[t] /\ tproc'[t] = tproc[t]
          BY <1>t, <2>3, <3>3
        <4>2. t = cpu.arg => tstate[t] # "FINISHED"
          BY <2>0, <3>3, Delivery DEF IInv, Execution, Code, Place, InSignal
        <4>3. tstate[t] = "FINISHED" => tstate'[t] = "FINISHED"
          BY <1>t, <2>3, <3>3, <4>2
        <4> QED BY <4>1, <4>3 DEF Stacks
      <3> QED BY <3>1, <3>2, <3>3
    <2> QED BY <2>5 DEF Stacks
  <1> QED BY <1>1, <1>2, <1>3, <1>4, <1>5, <1>6, <1>7, <1>8, <1>9 DEF Next, Kernel, User

-----------------------------------------------------------------------------
(* What the processor is doing *)

\* What OnCourse says at the places of the kernel where it says little.
LEMMA Harmless ==
    ASSUME cpu'.pc \notin {"halt", "check", "handle"}
             \/ (cpu'.pc = "handle" /\ cpu'.then # "check"),
           cpu'.by # "segv"
    PROVE  OnCourse'
  BY DEF OnCourse

\* The process of the thread that runs is running.
LEMMA RunsLive ==
    ASSUME IInv, Running = current
    PROVE  tproc[current] \in Pid /\ pstate[tproc[current]] = "LIVE" /\ current \in threads
  <1>1. /\ TInv /\ current \in Tid /\ tproc[current] \in Pid
        /\ pstate \in [Pid -> {"FREE", "LIVE", "FINISHED"}]
    BY Types DEF IInv
  <1>2. tstate[current] = "READY" /\ current \in threads
    BY <1>1 DEF IInv, Execution, Base, threads
  <1>3. pstate[tproc[current]] # "FREE" /\ pstate[tproc[current]] # "FINISHED"
    BY <1>2 DEF IInv, Tables, Processes
  <1> QED BY <1>1, <1>2, <1>3

\* A finished process is being freed, or is waited for: waitpid finds it.
LEMMA WaitedFor ==
    ASSUME IInv, NEW S, Tree(S), cpu.pc = "wait"
    PROVE  pstate[cpu.pr] \in {"LIVE", "FINISHED"}
  <1>t. /\ TInv /\ current \in Tid /\ tproc[current] \in Pid /\ cpu.pr \in Pid
        /\ pstate \in [Pid -> {"FREE", "LIVE", "FINISHED"}]
    BY Types DEF IInv
  <1>1. Running = current /\ current \in threads
    BY <1>t, NotIdle DEF threads
  <1>2. Waits(current, cpu.pr)
    BY <1>1 DEF Waits
  <1>3. cpu.pr \in ToSet(S[tproc[current]])
    BY <1>t, <1>2 DEF Tree, Waiting
  <1>4. cpu.pr \in ToSet(plist)
    BY <1>t, <1>3, Children
  <1> QED BY <1>t, <1>4 DEF IInv, Tables, Processes

\* Signals that are sent.
LEMMA SendOnCourse ==
    ASSUME IInv, Orderly, OnCourse, PageFault \/ \E p \in Pid, s \in Sig : Kill(p, s)
    PROVE  OnCourse'
  <1>t. /\ TInv /\ sigq \in [Pid -> Seq(Sig)] /\ tproc \in [Tid -> Pid] /\ current \in Tid
        /\ pstate \in [Pid -> {"FREE", "LIVE", "FINISHED"}]
    BY Types DEF IInv
  <1>1. InUser /\ UNCHANGED <<tproc, current, pstate>>
    BY DEF PageFault, Kill, thrVars, procVars
  <1>2. Me \in Pid /\ pstate[Me] = "LIVE" /\ Me = tproc[current]
    BY <1>1, UserLive DEF Me
  <1>3. CASE PageFault
    <2>1. /\ sigq' = [sigq EXCEPT ![Me] = Append(@, "SEGV")] /\ sigq[Me] = <<>>
          /\ cpu' = K("handle", current, Me, "segv", "check")
      BY <1>2, <1>3 DEF PageFault, signal_process, Settled, Pending, Orderly
    <2>2. sigq'[tproc'[current']] = <<"SEGV">>
      BY <1>t, <1>1, <1>2, <2>1
    <2> QED BY <1>1, <1>2, <2>1, <2>2 DEF OnCourse, K
  <1>4. CASE \E p \in Pid, s \in Sig : Kill(p, s)
    <2>1. PICK p \in Pid, s \in Sig :
             p \in ToSet(plist) /\ p # 1 /\ signal_process(p, s, "kill")
      BY <1>4 DEF Kill
    <2>2. pstate[p] \in {"LIVE", "FINISHED"}
      BY <1>t, <2>1 DEF IInv, Tables, Processes
    <2>3. CASE pstate[p] = "FINISHED"
      BY <2>1, <2>3 DEF signal_process, OnCourse, K
    <2>4. CASE pstate[p] = "LIVE" /\ p = tproc[current]
      BY <1>1, <2>1, <2>4 DEF signal_process, OnCourse, K
    <2>5. CASE pstate[p] = "LIVE" /\ p # tproc[current]
      BY <1>1, <2>1, <2>5 DEF signal_process, OnCourse, K
    <2> QED BY <2>2, <2>3, <2>4, <2>5
  <1> QED BY <1>3, <1>4

\* handle_signals: the signal of a page fault ends the process.
LEMMA HandleOnCourse ==
    ASSUME IInv, Defaults, OnCourse,
           HandleNone \/ HandleIgnore \/ HandleTerminate \/ HandleCustom
    PROVE  OnCourse'
  <1>0. cpu.pc = "handle"
    BY DEF HandleNone, HandleIgnore, HandleTerminate, HandleCustom
  <1>t. /\ TInv /\ cpu \in Context /\ cpu.then \in {"iret", "check", "sent"}
        /\ current \in Tid /\ tproc \in [Tid -> Pid] /\ sigq \in [Pid -> Seq(Sig)]
    BY <1>0, Types DEF IInv
  <1>1. CASE HandleTerminate \/ HandleCustom
    <2>1. cpu'.pc \in {"exit", "clean"} /\ cpu'.by = "none"
      <3>1. CASE HandleTerminate
        BY <3>1 DEF HandleTerminate, K
      <3>2. CASE HandleCustom
        <4>1. PICK Q, kc : Schedule(Q, kc)
          BY <3>2 DEF HandleCustom
        <4> QED BY <4>1 DEF Schedule, K
      <3> QED BY <1>1, <3>1, <3>2
    <2> QED BY <2>1, Harmless
  <1>2. CASE HandleNone \/ HandleIgnore
    <2>1. /\ cpu' = [cpu EXCEPT !.pc = cpu.then] /\ UNCHANGED <<pstate, tproc, current>>
      BY <1>2 DEF HandleNone, HandleIgnore, HandleReturn, thrVars, procVars
    <2>2. /\ cpu'.pc = cpu.then /\ cpu'.by = cpu.by /\ cpu'.pr = cpu.pr
      BY <1>t, <2>1 DEF Context
    <2>3. cpu.by # "segv"
      <3> SUFFICES ASSUME cpu.by = "segv" PROVE FALSE
        OBVIOUS
      <3>1. cpu.then = "check" /\ sigq[tproc[current]] = <<"SEGV">>
        BY DEF OnCourse
      <3>2. cpu.arg = current
        BY <1>0, <3>1 DEF IInv, Execution, Code, Place, InSignal
      <3>3. PICK p \in Pid : p = tproc[current]
        BY <1>t
      <3>4. Head(sigq[p]) = "SEGV" /\ sigq[p] # <<>> /\ "SEGV" \in Sig
        <4>1. sigq[p] \in Seq(Sig) /\ sigq[p] = <<"SEGV">>
          BY <1>t, <3>1, <3>3
        <4>2. Len(sigq[p]) = 1 /\ sigq[p][1] = "SEGV"
          BY <4>1
        <4>3. sigq[p][1] \in Sig
          BY <4>1, <4>2
        <4> QED BY <4>1, <4>2, <4>3
      <3>5. HandleIgnore
        BY <1>2, <3>2, <3>3, <3>4 DEF HandleNone, Pending
      <3>6. Ignored(p, "SEGV")
        BY <3>2, <3>3, <3>4, <3>5 DEF HandleIgnore
      <3> QED BY <3>4, <3>6 DEF Ignored, Terminating, Defaults
    <2>4. CASE cpu.then = "check"
      <3>1. cpu.pr = tproc[current] /\ cpu.arg = current /\ tproc[current] # 1
        BY <1>0, <2>4 DEF OnCourse, IInv, Execution, Code, Place, InSignal
      <3>2. Running = current
        BY <1>0, <2>4 DEF Running
      <3>3. pstate[tproc[current]] = "LIVE"
        BY <3>2, RunsLive
      <3> QED BY <2>1, <2>2, <2>3, <2>4, <3>1, <3>3 DEF OnCourse
    <2>5. CASE cpu.then # "check"
      BY <1>t, <2>2, <2>3, <2>5, Harmless
    <2> QED BY <2>4, <2>5
  <1> QED BY <1>1, <1>2

\* signal_process finds a thread in the process, for its main thread is there.
LEMMA CheckOnCourse ==
    ASSUME IInv, OnCourse, Mains, CheckWaiting
    PROVE  OnCourse'
  <1>1. cpu.pc = "check" /\ cpu.by # "segv" /\ cpu.pr # 1 /\ pstate[cpu.pr] = "LIVE"
    BY DEF CheckWaiting, OnCourse
  <1>t. TInv /\ cpu.pr \in Pid /\ pthreads \in [Pid -> Seq(Tid)]
    BY <1>1, Types DEF IInv
  <1>2. PICK t \in threads : tproc[t] = cpu.pr
    BY <1>1, <1>t DEF Mains
  <1>3. t \in ToSet(pthreads[cpu.pr])
    BY <1>1, <1>2, <1>t DEF IInv, Tables, Members, System, threads
  <1>4. pthreads[cpu.pr] # <<>>
    <2>1. pthreads[cpu.pr] \in Seq(Tid)
      BY <1>t
    <2> QED BY <1>3, <2>1, EmptySet
  <1>5. /\ cpu'.by = cpu.by
        /\ cpu'.pc = "sent" \/ (cpu'.pc = "handle" /\ cpu'.then = "sent")
    BY <1>4 DEF CheckWaiting, K
  <1> QED BY <1>1, <1>5, Harmless


\* Every step keeps to the course.
LEMMA OnCourseStep ==
    ASSUME IInv, Orderly, NEW S, Tree(S), Kinds, Defaults, Stacks, OnCourse, Mains,
           Next
    PROVE  OnCourse'
  <1>t. /\ TInv /\ current \in Tid /\ kctx \in [Tid -> Context] /\ cpu \in Context
        /\ tproc \in [Tid -> Pid]
    BY Types DEF IInv
  <1>s. ASSUME cpu.pc # "handle" PROVE cpu.by # "segv"
    BY <1>s DEF OnCourse
  <1>r. ASSUME NEW t, cpu' = AtReturn(t) PROVE OnCourse'
    BY <1>r, Harmless DEF AtReturn, K
  <1>p. ASSUME NEW Q, NEW kc, Schedule(Q, kc) PROVE OnCourse'
    BY <1>p, Harmless DEF Schedule, K
  <1>1. CASE CleanFree \/ FreeOther
    <2>1. cpu' = cpu /\ cpu.pc \in {"clean", "exit", "free"}
      BY <1>1 DEF CleanFree, FreeOther
    <2> QED BY <1>s, <2>1, Harmless
  <1>2. CASE SwitchTo
    <2>1. PICK a \in Tid : a = cpu.arg /\ tstate[a] = "READY" /\ cpu.pc = "clean"
      <3>1. cpu.pc = "clean" /\ cpu.arg \in Tid
        BY <1>2, <1>t, Types DEF SwitchTo
      <3> QED BY <3>1 DEF IInv, Execution, Base, Running
    <2>2. UNCHANGED <<tproc, pstate>>
      BY <1>2 DEF SwitchTo, thrVars, procVars
    <2>3. CASE kctx[a].pc = "first"
      BY <1>2, <1>r, <2>1, <2>3 DEF SwitchTo
    <2>4. CASE kctx[a].pc # "first"
      <3>1. cpu' = kctx[a] /\ current' = a
        BY <1>2, <2>1, <2>4 DEF SwitchTo
      <3>2. kctx[a].by # "segv" /\ kctx[a].pc # "halt"
        BY <2>1 DEF Stacks
      <3>3. Resumable(a, tproc[a], kctx[a])
        BY <2>1 DEF IInv, Execution, Contexts, threads
      <3>4. CASE kctx[a].pc # "check"
        BY <3>1, <3>2, <3>3, <3>4, Harmless DEF Resumable
      <3>5. CASE kctx[a].pc = "check"
        <4>1. kctx[a].pr = tproc[a] /\ tproc[a] # 1
          BY <3>3, <3>5 DEF Stacks, Resumable
        <4>2. pstate[tproc[a]] = "LIVE"
          <5>1. a \in threads /\ pstate[tproc[a]] \in {"FREE", "LIVE", "FINISHED"}
            BY <1>t, <2>1, Types DEF threads
          <5> QED BY <2>1, <5>1 DEF IInv, Tables, Processes
        <4> QED BY <2>2, <3>1, <3>2, <3>5, <4>1, <4>2 DEF OnCourse
      <3> QED BY <3>4, <3>5
    <2> QED BY <2>3, <2>4
  <1>3. CASE CheckWaiting
    BY <1>3, CheckOnCourse
  <1>4. CASE SignalSent
    <2>1. cpu.by # "segv"
      BY <1>4, <1>s DEF SignalSent
    <2> QED BY <1>4, <1>r, <2>1 DEF SignalSent
  <1>5. CASE HandleNone \/ HandleIgnore \/ HandleTerminate \/ HandleCustom
    BY <1>5, HandleOnCourse
  <1>6. CASE Iret
    BY <1>6, Harmless DEF Iret, AtUser, K
  <1>7. CASE ExitDone \/ TimerSchedule \/ Yield
    <2>1. PICK Q, kc : Schedule(Q, kc)
      BY <1>7 DEF ExitDone, TimerSchedule, Yield, ScheduleFrom
    <2> QED BY <1>p, <2>1
  <1>8. CASE ReturnFromSignal
    <2>1. kind[current] # "clone"
      BY <1>t DEF Kinds
    <2>2. PICK Q, kc : Schedule(Q, kc)
      BY <1>8, <2>1 DEF ReturnFromSignal, ScheduleFrom
    <2> QED BY <1>p, <2>2
  <1>9. CASE WaitTest
    <2>1. cpu.pc = "wait" /\ cpu.by # "segv"
      BY <1>9, <1>s DEF WaitTest
    <2>2. pstate[cpu.pr] \in {"LIVE", "FINISHED"}
      BY <2>1, WaitedFor
    <2>3. CASE pstate[cpu.pr] = "FINISHED"
      <3>1. cpu' = [cpu EXCEPT !.pc = "free"]
        BY <1>9, <2>3 DEF WaitTest
      <3>2. cpu'.pc = "free" /\ cpu'.by = cpu.by
        BY <1>t, <3>1 DEF Context
      <3> QED BY <2>1, <3>2, Harmless
    <2>4. CASE pstate[cpu.pr] = "LIVE"
      <3>1. PICK Q, kc : Schedule(Q, kc)
        BY <1>9, <2>4 DEF WaitTest, ScheduleFrom
      <3> QED BY <1>p, <3>1
    <2> QED BY <2>2, <2>3, <2>4
  <1>10. CASE FreeAdopt \/ AdoptNext \/ AdoptDone \/ FreeDone
    <2>1. cpu'.pc # "halt"
      BY <1>10, AdoptStart, AdoptMore, AdoptEnd, Reap
    <2>2. /\ cpu'.pc # "halt" => cpu'.by = "none"
          /\ cpu'.pc \in {"halt", "adopt", "unlink"} \/ cpu' = AtReturn(current)
      <3>1. CASE FreeAdopt
        BY <3>1 DEF FreeAdopt, AtHalt, K
      <3>2. CASE AdoptNext
        BY <3>2 DEF AdoptNext, AtHalt, K
      <3>3. CASE AdoptDone
        BY <3>3 DEF AdoptDone, AtHalt, K
      <3>4. CASE FreeDone
        BY <3>4 DEF FreeDone, AtHalt, AtReturn, K
      <3> QED BY <1>10, <3>1, <3>2, <3>3, <3>4
    <2>3. CASE cpu' = AtReturn(current)
      BY <1>r, <2>3
    <2>4. CASE cpu'.pc \in {"adopt", "unlink"}
      BY <2>2, <2>4, Harmless
    <2> QED BY <2>1, <2>2, <2>3, <2>4
  <1>11. CASE \/ Fork \/ Execve \/ ThreadFork
              \/ \E s \in Sig, h \in Handlers : Signal(s, h)
    <2>1. cpu' = AtReturn(current)
      BY <1>11 DEF Fork, Execve, ThreadFork, Signal
    <2> QED BY <1>r, <2>1
  <1>12. CASE Exit \/ \E p \in Pid : Waitpid(p)
    <2>1. cpu'.pc \in {"exit", "wait"} /\ cpu'.by = "none"
      BY <1>12 DEF Exit, Waitpid, AtWait, K
    <2> QED BY <2>1, Harmless
  <1>13. CASE PageFault \/ \E p \in Pid, s \in Sig : Kill(p, s)
    BY <1>13, SendOnCourse
  <1> QED BY <1>1, <1>2, <1>3, <1>4, <1>5, <1>6, <1>7, <1>8, <1>9, <1>10, <1>11, <1>12, <1>13
          DEF Next, Kernel, User


-----------------------------------------------------------------------------
(* The main thread of a running process *)

Exiting(k, p) == k.pc = "exit" /\ k.pr = p

\* Processes that run and do not exit did so before, and keep their main
\* threads.
LEMMA MainsKept ==
    ASSUME Mains,
           \A p \in Pid \ {1} : pstate'[p] = "LIVE" /\ ~ Exiting(cpu', p)
                                    => pstate[p] = "LIVE" /\ ~ Exiting(cpu, p),
           \A t \in threads :
              /\ pstate'[tproc[t]] = "LIVE" /\ ~ Exiting(cpu', tproc[t])
              /\ kind[t] = "main" /\ tstate[t] # "FINISHED"
              => /\ tproc'[t] = tproc[t] /\ kind'[t] = "main"
                 /\ tstate'[t] # "FINISHED" /\ tstate'[t] # "FREE"
    PROVE  Mains'
  <1> SUFFICES ASSUME NEW p \in Pid \ {1}, pstate'[p] = "LIVE", ~ Exiting(cpu', p)
               PROVE  \E t \in threads' : /\ tproc'[t] = p /\ kind'[t] = "main"
                                          /\ tstate'[t] # "FINISHED"
    BY DEF Mains, Exiting
  <1>1. PICK t \in threads : tproc[t] = p /\ kind[t] = "main" /\ tstate[t] # "FINISHED"
    BY DEF Mains, Exiting
  <1> QED BY <1>1 DEF threads

\* Most of the kernel changes no thread's state.
LEMMA MainsQuiet ==
    ASSUME Mains, UNCHANGED <<tstate, tproc, kind, pstate>>, cpu.pc # "exit"
    PROVE  Mains'
  <1>1. \A t \in threads : tstate'[t] # "FREE"
    BY DEF threads
  <1> QED BY <1>1, MainsKept DEF Exiting

\* A new thread h of process p, while thread u may fall asleep.
LEMMA MainsAdded ==
    ASSUME IInv, Mains, cpu.pc # "exit", pstate' = pstate,
           NEW h \in Tid, h = next_tid, NEW p, AllocThread(h, p, "func"),
           \A t \in Tid \ {h} : tstate'[t] = tstate[t] \/ tstate'[t] = "WAITING"
    PROVE  Mains'
  <1>t. /\ TInv /\ tproc \in [Tid -> Pid] /\ kind \in [Tid -> {"main", "func", "clone"}]
    BY Types DEF IInv, TInv, TypeOK
  <1>1. h \notin threads
    BY NextThread
  <1>2. \A t \in threads : tproc'[t] = tproc[t] /\ kind'[t] = kind[t]
    BY <1>t, <1>1 DEF AllocThread, threads
  <1>3. \A t \in threads : tstate'[t] = tstate[t] \/ tstate'[t] = "WAITING"
    BY <1>1 DEF threads
  <1>4. \A t \in threads : tstate'[t] # "FREE"
    BY <1>3 DEF threads
  <1> QED BY <1>2, <1>3, <1>4, MainsKept DEF Exiting

\* free_thread takes a finished thread, or one of a process that ends.
LEMMA MainsFree ==
    ASSUME IInv, Mains, CleanFree \/ FreeOther
    PROVE  Mains'
  <1>t. /\ TInv /\ pthreads \in [Pid -> Seq(Tid)] /\ cpu.pr \in Pid
        /\ tproc \in [Tid -> Pid] /\ kind \in [Tid -> {"main", "func", "clone"}]
        /\ tstate \in [Tid -> {"FREE", "READY", "WAITING", "FINISHED"}]
    BY Types DEF IInv, TInv, TypeOK, CleanFree, FreeOther
  <1>1. PICK i \in 1..Len(pthreads[cpu.pr]) :
           /\ FreeThread(pthreads[cpu.pr][i], cpu.pr)
           /\ CleanFree => tstate[pthreads[cpu.pr][i]] = "FINISHED"
    <2>1. CASE CleanFree
      BY <2>1 DEF CleanFree, Cleanable
    <2>2. CASE FreeOther
      BY <2>2 DEF FreeOther, OthersOf, CleanFree
    <2> QED BY <2>1, <2>2
  <1>2. PICK u \in Tid : u = pthreads[cpu.pr][i]
    BY <1>t
  <1>3. tproc[u] = cpu.pr
    <2>1. u \in ToSet(pthreads[cpu.pr])
      <3>1. pthreads[cpu.pr] \in Seq(Tid)
        BY <1>t
      <3> QED BY <1>2, <3>1, SetOf
    <2> QED BY <1>t, <2>1 DEF IInv, Tables, Members
  <1>4. /\ UNCHANGED <<cpu, pstate>>
        /\ (cpu.pc = "clean" /\ tstate[u] = "FINISHED") \/ cpu.pc \in {"exit", "free"}
    BY <1>1, <1>2 DEF CleanFree, FreeOther
  <1>5. \A t \in threads \ {u} : tproc'[t] = tproc[t] /\ kind'[t] = kind[t] /\ tstate'[t] = tstate[t]
    BY <1>t, <1>1, <1>2 DEF FreeThread, threads
  <1>6. cpu.pc = "free" => pstate[cpu.pr] = "FINISHED"
    BY DEF IInv, Execution, Code, Place
  <1>7. \A t \in threads :
           /\ pstate'[tproc[t]] = "LIVE" /\ ~ Exiting(cpu', tproc[t])
           /\ kind[t] = "main" /\ tstate[t] # "FINISHED"
           => t # u
    BY <1>3, <1>4, <1>6 DEF Exiting
  <1>8. \A p \in Pid : Exiting(cpu', p) <=> Exiting(cpu, p)
    BY <1>4 DEF Exiting
  <1>9. \A t \in threads \ {u} : tstate'[t] # "FREE"
    BY <1>5 DEF threads
  <1> QED BY <1>4, <1>5, <1>7, <1>8, <1>9, MainsKept

\* The end of exit_process.
LEMMA MainsExit ==
    ASSUME IInv, Mains, ExitDone
    PROVE  Mains'
  <1>1. cpu.pc = "exit" /\ UNCHANGED <<tproc, kind>> /\ cpu'.pc = "clean"
    BY DEF ExitDone, ScheduleFrom, Schedule, K
  <1>t. /\ TInv /\ cpu.pr \in Pid /\ current \in Tid
        /\ pstate \in [Pid -> {"FREE", "LIVE", "FINISHED"}]
        /\ tproc \in [Tid -> Pid]
    BY <1>1, Types DEF IInv
  <1>2. tproc[current] = cpu.pr
    BY <1>1 DEF IInv, Execution, Code, Place
  <1>3. pstate' = [pstate EXCEPT ![cpu.pr] = "FINISHED"]
    BY DEF ExitDone
  <1>4. \A p \in Pid : pstate'[p] = "LIVE" => pstate[p] = "LIVE" /\ p # cpu.pr
    BY <1>t, <1>3
  <1>5. \A t \in Tid \ {current} : tstate'[t] = "READY" \/ tstate'[t] = tstate[t]
    BY DEF ExitDone
  <1>6. \A t \in threads : pstate'[tproc[t]] = "LIVE" => t # current /\ t \in Tid
    BY <1>t, <1>2, <1>4 DEF threads
  <1>7. \A t \in threads \ {current} : tstate'[t] # "FREE"
    BY <1>5 DEF threads
  <1> QED BY <1>1, <1>4, <1>5, <1>6, <1>7, MainsKept DEF Exiting

\* A child starts with a thread of its main program.
LEMMA MainsFork ==
    ASSUME IInv, Mains, Kinds, "fork_in_handler" \notin Misuse, Fork
    PROVE  Mains'
  <1>t. /\ TInv /\ tproc \in [Tid -> Pid] /\ kind \in [Tid -> {"main", "func", "clone"}]
        /\ tstate \in [Tid -> {"FREE", "READY", "WAITING", "FINISHED"}]
        /\ pstate \in [Pid -> {"FREE", "LIVE", "FINISHED"}]
    BY Types DEF IInv, TInv, TypeOK
  <1>1. PICK h \in Tid, c \in Pid :
           /\ h = next_tid /\ c = next_pid /\ AllocThread(h, c, "main")
           /\ tstate' = [tstate EXCEPT ![h] = tstate[current]]
           /\ pstate' = [pstate EXCEPT ![c] = "LIVE"]
    BY DEF Fork, AllocThread
  <1>2. tstate[current] = "READY" /\ InUser
    BY UserLive DEF Fork
  <1>3. h \notin threads
    BY <1>1, NextThread
  <1>4. \A t \in threads : /\ tproc'[t] = tproc[t] /\ kind'[t] = kind[t]
                           /\ tstate'[t] = tstate[t]
    BY <1>t, <1>1, <1>3 DEF AllocThread, threads
  <1>5. /\ tproc'[h] = c /\ kind'[h] = "main" /\ tstate'[h] = "READY"
        /\ \A p \in Pid \ {c} : pstate'[p] = pstate[p]
    BY <1>t, <1>1, <1>2 DEF AllocThread
  <1> SUFFICES ASSUME NEW p \in Pid \ {1}, pstate'[p] = "LIVE"
               PROVE  \E t \in threads' : /\ tproc'[t] = p /\ kind'[t] = "main"
                                          /\ tstate'[t] # "FINISHED"
    BY DEF Mains
  <1>6. CASE p = c
    BY <1>5, <1>6 DEF threads
  <1>7. CASE p # c
    <2>1. pstate[p] = "LIVE" /\ ~ (cpu.pc = "exit" /\ cpu.pr = p)
      BY <1>2, <1>5, <1>7 DEF InUser
    <2>2. PICK t \in threads : tproc[t] = p /\ kind[t] = "main" /\ tstate[t] # "FINISHED"
      BY <2>1 DEF Mains
    <2> QED BY <1>4, <2>2 DEF threads
  <1> QED BY <1>6, <1>7

\* Every step.
LEMMA MainsStep ==
    ASSUME IInv, Kinds, Mains, "fork_in_handler" \notin Misuse, Next
    PROVE  Mains'
  <1>t. /\ TInv /\ current \in Tid /\ tproc \in [Tid -> Pid]
        /\ kind \in [Tid -> {"main", "func", "clone"}]
        /\ tstate \in [Tid -> {"FREE", "READY", "WAITING", "FINISHED"}]
        /\ pstate \in [Pid -> {"FREE", "LIVE", "FINISHED"}]
    BY Types DEF IInv, TInv, TypeOK
  <1>1. CASE CleanFree \/ FreeOther
    BY <1>1, MainsFree
  <1>2. CASE ExitDone
    BY <1>2, MainsExit
  <1>3. CASE Fork
    BY <1>3, MainsFork
  <1>4. CASE SwitchTo \/ CheckWaiting \/ SignalSent \/ HandleNone \/ HandleIgnore
    <2>1. UNCHANGED <<tstate, tproc, kind, pstate>> /\ cpu.pc # "exit"
      BY <1>4 DEF SwitchTo, CheckWaiting, SignalSent, HandleNone, HandleIgnore, thrVars, procVars
    <2> QED BY <2>1, MainsQuiet
  <1>5. CASE HandleTerminate \/ Iret \/ FreeAdopt \/ AdoptNext \/ AdoptDone
    <2>1. UNCHANGED <<tstate, tproc, kind, pstate>> /\ cpu.pc # "exit"
      BY <1>5 DEF HandleTerminate, Iret, FreeAdopt, AdoptNext, AdoptDone, thrVars, procVars
    <2> QED BY <2>1, MainsQuiet
  <1>6. CASE \/ Yield \/ Exit \/ PageFault \/ TimerSchedule
             \/ \E p \in Pid : Waitpid(p)
             \/ \E s \in Sig, h \in Handlers : Signal(s, h)
             \/ \E p \in Pid, s \in Sig : Kill(p, s)
    <2>1. UNCHANGED <<tstate, tproc, kind, pstate>> /\ cpu.pc # "exit"
      BY <1>6 DEF Yield, Exit, PageFault, TimerSchedule, Waitpid, Signal, Kill, InUser, thrVars,
            procVars
    <2> QED BY <2>1, MainsQuiet
  <1>7. CASE ThreadFork
    <2>1. PICK h, p : h \in Tid /\ h = next_tid /\ AllocThread(h, p, "func")
      BY <1>7 DEF ThreadFork, AllocThread
    <2>2. \A t \in Tid \ {h} : tstate'[t] = tstate[t]
      BY <1>t, <1>7, <2>1 DEF ThreadFork
    <2>3. cpu.pc # "exit" /\ pstate' = pstate
      BY <1>7 DEF ThreadFork, InUser
    <2> QED BY <2>1, <2>2, <2>3, MainsAdded
  <1>8. CASE HandleCustom
    <2>1. PICK h, p : h \in Tid /\ h = next_tid /\ AllocThread(h, p, "func")
      BY <1>8 DEF HandleCustom, AllocThread
    <2>2. tstate' = [tstate EXCEPT ![h] = "READY", ![cpu.arg] = "WAITING"]
      BY <1>8, <2>1 DEF HandleCustom
    <2>3. \A t \in Tid \ {h} : tstate'[t] = tstate[t] \/ tstate'[t] = "WAITING"
      BY <1>t, <2>2
    <2>4. cpu.pc # "exit" /\ pstate' = pstate
      BY <1>8 DEF HandleCustom
    <2> QED BY <2>1, <2>3, <2>4, MainsAdded
  <1>9. CASE WaitTest
    <2>1. UNCHANGED <<tproc, kind, pstate>> /\ cpu.pc = "wait"
      BY <1>9 DEF WaitTest, procVars
    <2>2. tstate' = tstate \/ tstate' = [tstate EXCEPT ![current] = "WAITING"]
      BY <1>9 DEF WaitTest
    <2>3. \A t \in Tid : tstate'[t] = tstate[t] \/ tstate'[t] = "WAITING"
      BY <1>t, <2>2
    <2>4. \A t \in threads : tstate'[t] # "FREE" /\ (tstate[t] # "FINISHED" => tstate'[t] # "FINISHED")
      BY <2>3 DEF threads
    <2> QED BY <2>1, <2>4, MainsKept DEF Exiting
  <1>10. CASE ReturnFromSignal
    <2>1. kind[current] # "main" /\ UNCHANGED <<tproc, kind, pstate>> /\ cpu.pc = "user"
      BY <1>10 DEF ReturnFromSignal, InUser, procVars
    <2>2. \A t \in Tid \ {current} : tstate'[t] = tstate[t] \/ tstate'[t] = "READY"
      BY <1>t, <1>10 DEF ReturnFromSignal
    <2>3. \A t \in threads \ {current} :
             tstate'[t] # "FREE" /\ (tstate[t] # "FINISHED" => tstate'[t] # "FINISHED")
      BY <2>2 DEF threads
    <2> QED BY <2>1, <2>3, MainsKept DEF Exiting
  <1>11. CASE Execve
    <2>1. UNCHANGED <<tstate, tproc, pstate>> /\ cpu.pc = "user"
      BY <1>11 DEF Execve, InUser, procVars
    <2>2. \A t \in Tid : kind[t] = "main" => kind'[t] = "main"
      BY <1>t, <1>11 DEF Execve
    <2>3. \A t \in threads : t \in Tid /\ tstate'[t] # "FREE"
      BY <2>1 DEF threads
    <2> QED BY <2>1, <2>2, <2>3, MainsKept DEF Exiting
  <1>12. CASE FreeDone
    <2>1. UNCHANGED <<tproc, kind, tstate>> /\ cpu.pc = "unlink" /\ cpu'.pc # "exit"
      BY <1>12 DEF FreeDone, thrVars, AtHalt, AtReturn, K
    <2>2. pstate' = pstate \/ pstate' = [pstate EXCEPT ![cpu.pr] = "FREE"]
      BY <1>12 DEF FreeDone
    <2>3. \A p \in Pid : pstate'[p] = "LIVE" => pstate[p] = "LIVE"
      BY <1>t, <2>2
    <2>4. \A t \in threads : tstate'[t] # "FREE"
      BY <2>1 DEF threads
    <2> QED BY <2>1, <2>3, <2>4, MainsKept DEF Exiting
  <1> QED BY <1>1, <1>2, <1>3, <1>4, <1>5, <1>6, <1>7, <1>8, <1>9, <1>10, <1>11, <1>12
          DEF Next, Kernel, User


-----------------------------------------------------------------------------
(* The theorem on dead ends *)

\* After kinit.
LEMMA InitN == Init => NInv
  <1> SUFFICES ASSUME Init PROVE NInv
    OBVIOUS
  <1>1. FInv
    BY InitF
  <1>2. Kinds /\ Stacks /\ OnCourse
    BY DEF Init, Kinds, Stacks, OnCourse, AtUser, AtFirst, K
  <1>3. Defaults
    BY DEF Init, Defaults, AllDefault
  <1>4. Mains
    BY DEF Init, Mains
  <1> QED BY <1>1, <1>2, <1>3, <1>4 DEF NInv

\* Every step.
LEMMA NextN ==
    ASSUME Misuse = {}, NInv, [Next]_vars
    PROVE  NInv'
  <1>m. /\ Orderly /\ OwnChildren
        /\ "fork_in_handler" \notin Misuse /\ "segv_handler" \notin Misuse
    BY DEF Orderly, OwnChildren
  <1>1. FInv'
    BY <1>m, NextF DEF NInv
  <1>2. CASE Next
    <2>1. IInv /\ TInv /\ \E S : Tree(S)
      BY DEF NInv, FInv, IInv
    <2>2. PICK S : Tree(S)
      BY <2>1
    <2>3. Kinds' /\ Defaults'
      BY <1>m, <1>2, <2>1, KindsStep, DefaultsStep DEF NInv
    <2>4. Stacks' /\ OnCourse'
      BY <1>m, <1>2, <2>1, <2>2, StacksStep, OnCourseStep DEF NInv
    <2>5. Mains'
      BY <1>m, <1>2, <2>1, MainsStep DEF NInv
    <2> QED BY <1>1, <2>3, <2>4, <2>5 DEF NInv
  <1>3. CASE UNCHANGED vars
    <2>1. UNCHANGED <<tstate, tproc, kind, kctx, current, cpu, pstate, sigq, handler>>
      BY <1>3 DEF vars, thrVars, procVars, sigVars
    <2>2. Kinds' /\ Defaults' /\ Stacks' /\ OnCourse' /\ Mains'
      BY <2>1 DEF NInv, Kinds, Defaults, Stacks, OnCourse, Mains, threads
    <2> QED BY <1>1, <2>2 DEF NInv
  <1> QED BY <1>2, <1>3

\* The kernel reaches none of the places it must not reach, for programs that
\* do only what the shipped ones do: no thread comes back to the end of _exit,
\* of the page fault handler or of return_from_signal, waitpid and
\* free_process find every process they follow a pointer to, the children of
\* one that is freed find a child of init to be put in front of, and
\* signal_process finds a thread in the process.
THEOREM NoHaltSafe == ASSUME Misuse = {} PROVE Spec => []NoHalt
  <1>1. NInv => NoHalt
    BY DEF NInv, OnCourse, NoHalt
  <1>2. NInv /\ [Next]_vars => NInv'
    BY NextN
  <1>3. Spec => []NInv
    BY <1>2, InitN, PTL DEF Spec
  <1> QED BY <1>1, <1>3, PTL

=============================================================================
