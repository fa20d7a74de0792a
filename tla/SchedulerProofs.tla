---------------------------- MODULE SchedulerProofs ----------------------------
(***************************************************************************)
(* What the list operations of the kernel do to the members of a queue.    *)
(***************************************************************************)
EXTENDS Scheduler, SequenceTheorems, FiniteSetTheorems, TLAPS

\* Induction, for a set of numbers in place of a predicate: if n were the first
\* number that is missing, adding one would map the members of U up to n into
\* those of them that are not 0, which are fewer.
LEMMA InductSet ==
    ASSUME NEW U, 0 \in U, \A n \in Nat : n \in U => n + 1 \in U
    PROVE  \A n \in Nat : n \in U
  <1> SUFFICES ASSUME NEW n \in Nat, n \notin U PROVE FALSE
    OBVIOUS
  <1>1. PICK V : V = U \cap (0..n)
    OBVIOUS
  <1>2. PICK W : W = V \ {0}
    OBVIOUS
  <1>3. PICK f : f = [x \in V |-> x + 1]
    OBVIOUS
  <1>4. IsFiniteSet(V) /\ Cardinality(V) \in Nat
    <2>1. IsFiniteSet(0..n)
      BY FS_Interval
    <2>2. V \in SUBSET (0..n)
      BY <1>1
    <2>3. IsFiniteSet(V)
      BY <2>1, <2>2, FS_Subset
    <2> QED BY <2>3, FS_CardinalityType
  <1>5. IsFiniteSet(W) /\ Cardinality(W) = Cardinality(V) - 1
    <2>1. 0 \in V
      BY <1>1
    <2> QED BY <1>2, <1>4, <2>1, FS_RemoveElement
  <1>6. f \in Injection(V, W)
    <2>1. \A x \in V : x + 1 \in W
      BY <1>1, <1>2
    <2>2. \A x, y \in V : f[x] = f[y] => x = y
      BY <1>1, <1>3
    <2>3. f \in [V -> W]
      BY <1>3, <2>1
    <2> QED BY <2>2, <2>3 DEF Injection, IsInjective
  <1>7. Cardinality(V) <= Cardinality(W)
    BY <1>5, <1>6, FS_Injection
  <1> QED BY <1>4, <1>5, <1>7

-----------------------------------------------------------------------------
\* Parts of a sequence.
LEMMA SubSeqType ==
    ASSUME NEW S, NEW s \in Seq(S), NEW m \in Int, NEW n \in Int, m >= 1, n <= Len(s)
    PROVE  SubSeq(s, m, n) \in Seq(S)
  <1>1. \A i \in m..n : s[i] \in S
    OBVIOUS
  <1> QED BY <1>1, SubSeqProperties

\* RemoveAt closes the gap.
LEMMA RemoveAtValue ==
    ASSUME NEW S, NEW s \in Seq(S), NEW i \in 1..Len(s)
    PROVE  /\ RemoveAt(s, i) \in Seq(S)
           /\ Len(RemoveAt(s, i)) = Len(s) - 1
           /\ \A k \in 1..(Len(s) - 1) : RemoveAt(s, i)[k] = IF k < i THEN s[k] ELSE s[k + 1]
  <1> DEFINE a == SubSeq(s, 1, i - 1)
             b == SubSeq(s, i + 1, Len(s))
  <1>1. a \in Seq(S) /\ Len(a) = i - 1 /\ \A k \in 1..(i - 1) : a[k] = s[k]
    <2>1. a \in Seq(S)
      BY SubSeqType
    <2> QED BY <2>1, SubSeqProperties
  <1>2. b \in Seq(S) /\ Len(b) = Len(s) - i /\ \A k \in 1..(Len(s) - i) : b[k] = s[k + i]
    <2>1. b \in Seq(S)
      BY SubSeqType
    <2> QED BY <2>1, SubSeqProperties
  <1>3. RemoveAt(s, i) = a \o b
    BY DEF RemoveAt
  <1> HIDE DEF a, b
  <1>4. a \o b \in Seq(S) /\ Len(a \o b) = Len(a) + Len(b)
    BY <1>1, <1>2, ConcatProperties
  <1>5. ASSUME NEW k \in 1..(Len(s) - 1)
        PROVE  (a \o b)[k] = IF k < i THEN s[k] ELSE s[k + 1]
    <2>1. (a \o b)[k] = IF k <= Len(a) THEN a[k] ELSE b[k - Len(a)]
      BY <1>1, <1>2, ConcatProperties
    <2>2. CASE k < i
      BY <1>1, <2>1, <2>2
    <2>3. CASE k >= i
      <3>1. k - (i - 1) \in 1..(Len(s) - i) /\ Len(a) = i - 1 /\ k > Len(a)
        BY <1>1, <2>3
      <3>2. b[k - (i - 1)] = s[(k - (i - 1)) + i]
        BY <1>2, <3>1
      <3>3. (k - (i - 1)) + i = k + 1
        BY <2>3
      <3> QED BY <2>1, <2>3, <3>1, <3>2, <3>3
    <2>4. k < i \/ k >= i
      OBVIOUS
    <2> QED BY <2>2, <2>3, <2>4, Zenon
  <1> QED BY <1>1, <1>2, <1>3, <1>4, <1>5

\* remove_from_list keeps a list a list.
LEMMA UnlinkType ==
    ASSUME NEW S, NEW s \in Seq(S), NEW t
    PROVE  Unlink(s, t) \in Seq(S)
  <1>1. CASE t \in ToSet(s)
    <2> DEFINE i == CHOOSE i \in 1..Len(s) : s[i] = t
    <2>1. i \in 1..Len(s)
      BY <1>1 DEF ToSet
    <2> HIDE DEF i
    <2>2. RemoveAt(s, i) \in Seq(S)
      BY <2>1, RemoveAtValue
    <2> QED BY <1>1, <2>2 DEF Unlink, i
  <1>2. CASE t \notin ToSet(s)
    BY <1>2 DEF Unlink
  <1> QED BY <1>1, <1>2

\* remove_from_list takes one member off a list, and only that.
LEMMA UnlinkSet ==
    ASSUME NEW S, NEW s \in Seq(S), NEW t
    PROVE  /\ ToSet(Unlink(s, t)) \subseteq ToSet(s)
           /\ ToSet(s) \ {t} \subseteq ToSet(Unlink(s, t))
           /\ IsInjective(s) => /\ ToSet(Unlink(s, t)) = ToSet(s) \ {t}
                                /\ IsInjective(Unlink(s, t))
  <1>1. CASE t \in ToSet(s)
    <2> DEFINE i == CHOOSE i \in 1..Len(s) : s[i] = t
               r == RemoveAt(s, i)
    <2>1. i \in 1..Len(s) /\ s[i] = t
      BY <1>1 DEF ToSet
    <2>2. Unlink(s, t) = r
      BY <1>1 DEF Unlink
    <2> HIDE DEF i
    <2>3. /\ Len(s) \in Nat /\ r \in Seq(S) /\ Len(r) = Len(s) - 1
          /\ \A k \in 1..(Len(s) - 1) : r[k] = IF k < i THEN s[k] ELSE s[k + 1]
      <3>1. /\ RemoveAt(s, i) \in Seq(S) /\ Len(RemoveAt(s, i)) = Len(s) - 1
            /\ \A k \in 1..(Len(s) - 1) :
                  RemoveAt(s, i)[k] = IF k < i THEN s[k] ELSE s[k + 1]
        BY <2>1, RemoveAtValue
      <3>2. Len(s) \in Nat
        OBVIOUS
      <3> HIDE DEF r
      <3> QED BY <3>1, <3>2 DEF r
    <2> HIDE DEF r
    <2>4. ToSet(s) = {s[k] : k \in 1..Len(s)} /\ ToSet(r) = {r[k] : k \in 1..(Len(s) - 1)}
      <3>1. DOMAIN s = 1..Len(s) /\ DOMAIN r = 1..(Len(s) - 1)
        BY <2>3
      <3> QED BY <3>1 DEF ToSet
    <2>5. ToSet(r) \subseteq ToSet(s)
      BY <2>1, <2>3, <2>4
    <2>6. ASSUME NEW k \in 1..Len(s), s[k] # t PROVE s[k] \in ToSet(r)
      <3>1. CASE k < i
        BY <2>1, <2>3, <2>4, <3>1
      <3>2. CASE k > i
        <4>1. k - 1 \in 1..(Len(s) - 1) /\ r[k - 1] = s[k]
          BY <2>1, <2>3, <3>2
        <4> QED BY <2>4, <4>1
      <3>3. k # i
        BY <2>1, <2>6
      <3> QED BY <2>1, <3>1, <3>2, <3>3
    <2>7. ASSUME IsInjective(s) PROVE t \notin ToSet(r) /\ IsInjective(r)
      <3>1. \A k, m \in 1..Len(s) : s[k] = s[m] => k = m
        BY <2>7 DEF IsInjective
      <3>2. t \notin ToSet(r)
        BY <2>1, <2>3, <2>4, <3>1
      <3>3. \A k, m \in 1..(Len(s) - 1) : r[k] = r[m] => k = m
        <4> SUFFICES ASSUME NEW k \in 1..(Len(s) - 1), NEW m \in 1..(Len(s) - 1), r[k] = r[m]
                     PROVE  k = m
          OBVIOUS
        <4> DEFINE kk == IF k < i THEN k ELSE k + 1
                   mm == IF m < i THEN m ELSE m + 1
        <4>1. kk \in 1..Len(s) /\ mm \in 1..Len(s)
          BY <2>1, <2>3
        <4>2. r[k] = s[kk] /\ r[m] = s[mm]
          BY <2>3
        <4>3. kk = mm
          BY <3>1, <4>1, <4>2
        <4> QED BY <2>1, <4>3
      <3>4. DOMAIN r = 1..(Len(s) - 1)
        BY <2>3
      <3>5. IsInjective(r)
        BY <3>3, <3>4, Zenon DEF IsInjective
      <3> QED BY <3>2, <3>5
    <2>8. ToSet(s) \ {t} \subseteq ToSet(r)
      BY <2>4, <2>6
    <2> QED BY <2>2, <2>5, <2>7, <2>8
  <1>2. CASE t \notin ToSet(s)
    BY <1>2 DEF Unlink
  <1> QED BY <1>1, <1>2

\* A list gets no longer.
LEMMA UnlinkLen ==
    ASSUME NEW S, NEW s \in Seq(S), NEW t
    PROVE  Len(Unlink(s, t)) <= Len(s)
  <1>1. Len(s) \in Nat
    OBVIOUS
  <1>2. CASE t \in ToSet(s)
    <2> DEFINE i == CHOOSE i \in 1..Len(s) : s[i] = t
    <2>1. i \in 1..Len(s)
      BY <1>2 DEF ToSet
    <2> HIDE DEF i
    <2>2. Len(RemoveAt(s, i)) = Len(s) - 1
      BY <2>1, RemoveAtValue
    <2>3. Unlink(s, t) = RemoveAt(s, i)
      BY <1>2 DEF Unlink, i
    <2> QED BY <1>1, <2>2, <2>3
  <1>3. CASE t \notin ToSet(s)
    BY <1>1, <1>3 DEF Unlink
  <1> QED BY <1>2, <1>3

-----------------------------------------------------------------------------
\* The members of a list, by their places.
LEMMA SetOf ==
    ASSUME NEW S, NEW s \in Seq(S)
    PROVE  /\ ToSet(s) = {s[i] : i \in 1..Len(s)} /\ ToSet(s) \subseteq S
           /\ IsInjective(s) <=> \A i, j \in 1..Len(s) : s[i] = s[j] => i = j
           /\ Len(s) \in Nat
  <1>1. DOMAIN s = 1..Len(s) /\ Len(s) \in Nat
    OBVIOUS
  <1>2. \A i \in 1..Len(s) : s[i] \in S
    OBVIOUS
  <1> QED BY <1>1, <1>2 DEF ToSet, IsInjective

\* An empty list has no members, and no other list is without members.
LEMMA EmptySet ==
    ASSUME NEW S, NEW s \in Seq(S)
    PROVE  /\ s = <<>> <=> ToSet(s) = {}
           /\ s # <<>> => Head(s) \in ToSet(s)
           /\ IsInjective(<<>>) /\ ToSet(<<>>) = {}
  <1>1. s # <<>> => Len(s) \in Nat /\ Len(s) >= 1 /\ Head(s) = s[1]
    OBVIOUS
  <1>2. s # <<>> => Head(s) \in ToSet(s)
    <2>1. ToSet(s) = {s[i] : i \in 1..Len(s)}
      BY SetOf
    <2> QED BY <1>1, <2>1
  <1>3. IsInjective(<<>>) /\ ToSet(<<>>) = {}
    BY DEF IsInjective, ToSet
  <1> QED BY <1>2, <1>3

\* One more member at the end (insert_before of lists.h on the head).
LEMMA AppendSet ==
    ASSUME NEW S, NEW s \in Seq(S), NEW t \in S
    PROVE  /\ ToSet(Append(s, t)) = ToSet(s) \cup {t}
           /\ IsInjective(s) /\ t \notin ToSet(s) => IsInjective(Append(s, t))
  <1> DEFINE a == Append(s, t)
  <1>1. /\ a \in Seq(S) /\ Len(s) \in Nat /\ Len(a) = Len(s) + 1 /\ a[Len(s) + 1] = t
        /\ \A i \in 1..Len(s) : a[i] = s[i]
    OBVIOUS
  <1> HIDE DEF a
  <1>2. /\ ToSet(s) = {s[i] : i \in 1..Len(s)}
        /\ IsInjective(s) <=> \A i, j \in 1..Len(s) : s[i] = s[j] => i = j
    BY SetOf
  <1>3. /\ ToSet(a) = {a[i] : i \in 1..Len(a)}
        /\ IsInjective(a) <=> \A i, j \in 1..Len(a) : a[i] = a[j] => i = j
    BY <1>1, SetOf
  <1>4. \A i \in 1..Len(a) : i \in 1..Len(s) \/ i = Len(s) + 1
    BY <1>1
  <1>5. \A i \in 1..Len(s) : i \in 1..Len(a)
    BY <1>1
  <1>6. ToSet(a) = ToSet(s) \cup {t}
    <2>1. ToSet(a) \subseteq ToSet(s) \cup {t}
      BY <1>1, <1>2, <1>3, <1>4
    <2>2. ToSet(s) \subseteq ToSet(a)
      BY <1>1, <1>2, <1>3, <1>5
    <2>3. t \in ToSet(a)
      <3>1. Len(s) + 1 \in 1..Len(a)
        BY <1>1
      <3> QED BY <1>1, <1>3, <3>1
    <2> QED BY <2>1, <2>2, <2>3
  <1>7. ASSUME IsInjective(s), t \notin ToSet(s) PROVE IsInjective(a)
    <2> SUFFICES ASSUME NEW i \in 1..Len(a), NEW j \in 1..Len(a), a[i] = a[j]
                 PROVE  i = j
      BY <1>3
    <2>1. CASE i \in 1..Len(s) /\ j \in 1..Len(s)
      BY <1>1, <1>2, <1>7, <2>1
    <2>2. CASE i = Len(s) + 1 \/ j = Len(s) + 1
      <3>1. \A k \in 1..Len(s) : a[k] # t
        BY <1>1, <1>2, <1>7
      <3> QED BY <1>1, <1>4, <2>2, <3>1
    <2> QED BY <1>4, <2>1, <2>2
  <1> QED BY <1>6, <1>7 DEF a

\* Two lists in a row.
LEMMA ConcatSet ==
    ASSUME NEW S, NEW s \in Seq(S), NEW u \in Seq(S)
    PROVE  /\ ToSet(s \o u) = ToSet(s) \cup ToSet(u)
           /\ IsInjective(s) /\ IsInjective(u) /\ ToSet(s) \cap ToSet(u) = {}
                 => IsInjective(s \o u)
  <1> DEFINE c == s \o u
  <1>1. /\ c \in Seq(S) /\ Len(s) \in Nat /\ Len(u) \in Nat /\ Len(c) = Len(s) + Len(u)
        /\ \A i \in 1..Len(s) : c[i] = s[i]
        /\ \A i \in 1..Len(u) : c[Len(s) + i] = u[i]
    <2>1. c \in Seq(S) /\ Len(s) \in Nat /\ Len(u) \in Nat /\ Len(c) = Len(s) + Len(u)
      OBVIOUS
    <2>2. \A i \in 1..(Len(s) + Len(u)) : c[i] = IF i <= Len(s) THEN s[i] ELSE u[i - Len(s)]
      BY ConcatProperties
    <2> HIDE DEF c
    <2>3. \A i \in 1..Len(s) : c[i] = s[i]
      BY <2>1, <2>2
    <2>4. ASSUME NEW i \in 1..Len(u) PROVE c[Len(s) + i] = u[i]
      <3>1. /\ Len(s) + i \in 1..(Len(s) + Len(u)) /\ ~ (Len(s) + i <= Len(s))
            /\ (Len(s) + i) - Len(s) = i
        BY <2>1
      <3> QED BY <2>2, <3>1
    <2> QED BY <2>1, <2>3, <2>4
  <1> HIDE DEF c
  <1>2. /\ ToSet(s) = {s[i] : i \in 1..Len(s)}
        /\ IsInjective(s) <=> \A i, j \in 1..Len(s) : s[i] = s[j] => i = j
    BY SetOf
  <1>3. /\ ToSet(u) = {u[i] : i \in 1..Len(u)}
        /\ IsInjective(u) <=> \A i, j \in 1..Len(u) : u[i] = u[j] => i = j
    BY SetOf
  <1>4. /\ ToSet(c) = {c[i] : i \in 1..Len(c)}
        /\ IsInjective(c) <=> \A i, j \in 1..Len(c) : c[i] = c[j] => i = j
    <2>1. c \in Seq(S)
      BY <1>1
    <2> QED BY <2>1, SetOf
  <1>5. ASSUME NEW i \in 1..Len(c)
        PROVE  \/ i \in 1..Len(s)
               \/ \E k \in 1..Len(u) : i = Len(s) + k
    <2>1. CASE i <= Len(s)
      BY <1>1, <2>1
    <2>2. CASE i > Len(s)
      <3>1. i - Len(s) \in 1..Len(u) /\ i = Len(s) + (i - Len(s))
        BY <1>1, <2>2
      <3> QED BY <3>1
    <2> QED BY <1>1, <2>1, <2>2
  <1>6. /\ \A i \in 1..Len(s) : i \in 1..Len(c)
        /\ \A i \in 1..Len(u) : Len(s) + i \in 1..Len(c)
    BY <1>1
  <1>7. ToSet(c) = ToSet(s) \cup ToSet(u)
    <2>1. ToSet(c) \subseteq ToSet(s) \cup ToSet(u)
      <3> SUFFICES ASSUME NEW i \in 1..Len(c) PROVE c[i] \in ToSet(s) \cup ToSet(u)
        BY <1>4
      <3>1. CASE i \in 1..Len(s)
        BY <1>1, <1>2, <3>1
      <3>2. ASSUME NEW k \in 1..Len(u), i = Len(s) + k
            PROVE  c[i] \in ToSet(u)
        BY <1>1, <1>3, <3>2
      <3> QED BY <1>5, <3>1, <3>2
    <2>2. ToSet(s) \subseteq ToSet(c)
      BY <1>1, <1>2, <1>4, <1>6
    <2>3. ToSet(u) \subseteq ToSet(c)
      BY <1>1, <1>3, <1>4, <1>6
    <2> QED BY <2>1, <2>2, <2>3
  <1>8. ASSUME IsInjective(s), IsInjective(u), ToSet(s) \cap ToSet(u) = {}
        PROVE  IsInjective(c)
    <2> SUFFICES ASSUME NEW i \in 1..Len(c), NEW j \in 1..Len(c), c[i] = c[j]
                 PROVE  i = j
      BY <1>4
    <2>1. ASSUME NEW k \in 1..Len(s), NEW m \in 1..Len(u) PROVE s[k] # u[m]
      <3>1. s[k] \in ToSet(s) /\ u[m] \in ToSet(u)
        BY <1>2, <1>3
      <3> QED BY <1>8, <3>1
    <2>2. CASE i \in 1..Len(s) /\ j \in 1..Len(s)
      BY <1>1, <1>2, <1>8, <2>2
    <2>3. ASSUME NEW k \in 1..Len(u), NEW m \in 1..Len(u), i = Len(s) + k, j = Len(s) + m
          PROVE  i = j
      BY <1>1, <1>3, <1>8, <2>3
    <2>4. ASSUME NEW m \in 1..Len(u), \/ i \in 1..Len(s) /\ j = Len(s) + m
                                      \/ j \in 1..Len(s) /\ i = Len(s) + m
          PROVE  FALSE
      BY <1>1, <2>1, <2>4
    <2> QED BY <1>5, <2>2, <2>3, <2>4
  <1> QED BY <1>7, <1>8 DEF c

\* One more member at the front (scheduler_cheat).
LEMMA ConsSet ==
    ASSUME NEW S, NEW s \in Seq(S), NEW t \in S
    PROVE  /\ ToSet(Cons(t, s)) = ToSet(s) \cup {t}
           /\ IsInjective(s) /\ t \notin ToSet(s) => IsInjective(Cons(t, s))
  <1>1. <<t>> \in Seq(S) /\ ToSet(<<t>>) = {t} /\ IsInjective(<<t>>)
    BY DEF ToSet, IsInjective
  <1>2. Cons(t, s) = <<t>> \o s
    BY DEF Cons
  <1> DEFINE one == <<t>>
  <1> HIDE DEF one
  <1>3. /\ ToSet(one \o s) = ToSet(one) \cup ToSet(s)
        /\ IsInjective(one) /\ IsInjective(s) /\ ToSet(one) \cap ToSet(s) = {}
              => IsInjective(one \o s)
    BY <1>1, ConcatSet DEF one
  <1>4. ToSet(one) = {t} /\ IsInjective(one) /\ Cons(t, s) = one \o s
    BY <1>1, <1>2 DEF one
  <1> QED BY <1>3, <1>4

=============================================================================
