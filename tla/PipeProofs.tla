------------------------------ MODULE PipeProofs ------------------------------
(***************************************************************************)
(* What holds of a pipe of any size, any number of threads and writes of   *)
(* any length: its type, that no unread byte is overwritten, that nobody   *)
(* sleeps on work it could do, and that it is a bounded first in, first    *)
(* out channel.                                                            *)
(*                                                                         *)
(* The counters wrap around at a multiple of the size of the pipe, so that *)
(* the slot of a position is the position modulo that size (SlotMod), and  *)
(* positions less than a size apart have different slots (ModApart).       *)
(***************************************************************************)
EXTENDS Pipe, SchedulerProofs, TLAPS

-----------------------------------------------------------------------------
(* Arithmetic modulo n *)

\* Quotient and remainder.
LEMMA DivMod ==
    ASSUME NEW n \in Int, NEW a \in Int, n > 0
    PROVE  /\ a \div n \in Int /\ a % n \in 0..(n - 1)
           /\ a = (a \div n) * n + (a % n)
  <1>1. a \div n \in Int /\ a % n \in 0..(n - 1)
    OBVIOUS
  <1>2. a = (a \div n) * n + (a % n)
    BY SMT
  <1> QED BY <1>1, <1>2

\* The remainder is unique.
LEMMA ModUnique ==
    ASSUME NEW n \in Int, NEW k \in Int, NEW r \in 0..(n - 1), n > 0
    PROVE  (k * n + r) % n = r
  OBVIOUS

\* A multiple of the divisor does not change the remainder.
LEMMA ModShift ==
    ASSUME NEW n \in Int, NEW a \in Int, NEW k \in Int, n > 0
    PROVE  (k * n + a) % n = a % n
  <1>1. PICK j \in Int, r \in 0..(n - 1) : a = j * n + r
    BY DivMod
  <1>2. k * n + a = (k + j) * n + r
    BY <1>1
  <1> QED BY <1>1, <1>2, ModUnique

\* Modulo a multiple of n, then modulo n.
LEMMA ModMod ==
    ASSUME NEW n \in Int, NEW m \in Int, NEW a \in Int, n > 0, m > 0, m % n = 0
    PROVE  (a % m) % n = a % n
  <1>1. PICK k \in Int : m = k * n
    BY DivMod
  <1>2. PICK j \in Int, r \in Int : a = j * m + r /\ r = a % m
    BY DivMod
  <1>3. a = (j * k) * n + r /\ j * k \in Int
    BY <1>1, <1>2
  <1>4. a % n = r % n
    BY <1>3, ModShift
  <1> QED BY <1>2, <1>4

\* Numbers that are less than n apart differ modulo n.
LEMMA ModApart ==
    ASSUME NEW n \in Int, NEW a \in Int, NEW b \in Int, n > 0, a < b, b < a + n
    PROVE  a % n # b % n
  <1> SUFFICES ASSUME a % n = b % n PROVE FALSE
    OBVIOUS
  <1>1. PICK j \in Int : a = j * n + (a % n)
    BY DivMod
  <1>2. PICK k \in Int : b = k * n + (b % n)
    BY DivMod
  <1> DEFINE d == k - j
  <1>3. d \in Int /\ b - a = d * n
    BY <1>1, <1>2, DivMod
  <1> HIDE DEF d
  <1>4. d <= 0 => d * n <= 0
    BY <1>3
  <1>5. d >= 1 => d * n >= n
    BY <1>3
  <1> QED BY <1>3, <1>4, <1>5

\* A remainder is its own remainder.
LEMMA ModIs ==
    ASSUME NEW n \in Int, n > 0, NEW r \in 0..(n - 1)
    PROVE  r % n = r
  BY r = 0 * n + r, ModUnique

\* One turn around.
LEMMA ModSmall ==
    ASSUME NEW n \in Int, NEW a \in Int, n > 0, -n <= a, a < 2 * n
    PROVE  a % n = IF a < 0 THEN a + n ELSE IF a < n THEN a ELSE a - n
  <1>1. CASE a < 0
    BY <1>1, a = (-1) * n + (a + n), ModUnique
  <1>2. CASE 0 <= a /\ a < n
    BY <1>2, a = 0 * n + a, ModUnique
  <1>3. CASE a >= n
    BY <1>3, a = 1 * n + (a - n), ModUnique
  <1> QED BY <1>1, <1>2, <1>3

\* Differences are kept modulo n.
LEMMA ModDiff ==
    ASSUME NEW n \in Int, NEW a \in Int, NEW b \in Int, n > 0
    PROVE  /\ ((a % n) - b) % n = (a - b) % n
           /\ (a - (b % n)) % n = (a - b) % n
           /\ ((a % n) + b) % n = (a + b) % n
  <1>1. PICK j \in Int, r \in Int : a = j * n + r /\ r = a % n
    BY DivMod
  <1>2. PICK k \in Int, s \in Int : b = k * n + s /\ s = b % n
    BY DivMod
  <1>3. r - b \in Int /\ r + b \in Int /\ a - b \in Int
    BY <1>1
  <1>4. (j * n + (r - b)) % n = (r - b) % n /\ j * n + (r - b) = a - b
    <2>1. (j * n + (r - b)) % n = (r - b) % n
      BY <1>1, <1>3, ModShift
    <2> QED BY <1>1, <2>1
  <1>5. (j * n + (r + b)) % n = (r + b) % n /\ j * n + (r + b) = a + b
    <2>1. (j * n + (r + b)) % n = (r + b) % n
      BY <1>1, <1>3, ModShift
    <2> QED BY <1>1, <2>1
  <1>6. (k * n + (a - b)) % n = (a - b) % n /\ k * n + (a - b) = a - s
    <2>1. (k * n + (a - b)) % n = (a - b) % n
      BY <1>2, <1>3, ModShift
    <2> QED BY <1>2, <2>1
  <1> QED BY <1>1, <1>2, <1>4, <1>5, <1>6

-----------------------------------------------------------------------------
(* The operators of the model *)

\* What the assumptions say of the sizes.
LEMMA Sizes == /\ Size \in Int /\ Size > 0 /\ Wrap \in Int /\ Wrap > Size
               /\ Wrap % Size = 0 /\ MaxWrite \in Nat /\ MaxOpen \in Nat \ {0}
               /\ ReadSizes \subseteq Nat
  BY SizeAssumption, BoundsAssumption

\* Counters wrap at a positive number.
LEMMA WrapSize == Wrap \in Int /\ Wrap > 0
  BY Sizes

\* The smaller of two numbers, and the larger.
LEMMA MinMax ==
    ASSUME NEW a \in Int, NEW b \in Int
    PROVE  /\ Min({a, b}) = IF a <= b THEN a ELSE b
           /\ Max({a, b}) = IF a <= b THEN b ELSE a
  <1>1. \E m \in {a, b} : \A y \in {a, b} : m <= y
    OBVIOUS
  <1>2. \E m \in {a, b} : \A y \in {a, b} : m >= y
    OBVIOUS
  <1>3. Min({a, b}) \in {a, b} /\ \A y \in {a, b} : Min({a, b}) <= y
    BY <1>1 DEF Min
  <1>4. Max({a, b}) \in {a, b} /\ \A y \in {a, b} : Max({a, b}) >= y
    BY <1>2 DEF Max
  <1> QED BY <1>3, <1>4

\* The bytes of a write.
LEMMA DataSeq ==
    ASSUME NEW d
    PROVE  d \in Data <=> d \in Seq(Byte) /\ Len(d) <= MaxWrite
  <1>1. d \in Data => d \in Seq(Byte) /\ Len(d) <= MaxWrite
    BY Sizes DEF Data
  <1>2. ASSUME d \in Seq(Byte), Len(d) <= MaxWrite PROVE d \in Data
    <2>1. d \in [1..Len(d) -> Byte] /\ Len(d) \in 0..MaxWrite
      BY <1>2, Sizes
    <2> QED BY <2>1 DEF Data
  <1> QED BY <1>1, <1>2

\* What a write has left is the bytes of a write.
LEMMA DataRest ==
    ASSUME NEW d \in Data, NEW n \in 0..Len(d)
    PROVE  /\ SubSeq(d, n + 1, Len(d)) \in Data
           /\ SubSeq(d, 1, n) \in Seq(Byte) /\ Len(SubSeq(d, 1, n)) = n
           /\ Len(SubSeq(d, n + 1, Len(d))) = Len(d) - n
  <1>1. d \in Seq(Byte) /\ Len(d) \in Nat /\ Len(d) <= MaxWrite
    BY DataSeq
  <1>2. /\ SubSeq(d, n + 1, Len(d)) \in Seq(Byte)
        /\ Len(SubSeq(d, n + 1, Len(d))) = Len(d) - n
    BY <1>1
  <1>3. SubSeq(d, 1, n) \in Seq(Byte) /\ Len(SubSeq(d, 1, n)) = n
    BY <1>1
  <1>4. SubSeq(d, n + 1, Len(d)) \in Data
    <2> DEFINE rest == SubSeq(d, n + 1, Len(d))
    <2>1. rest \in Seq(Byte) /\ Len(rest) <= MaxWrite
      BY <1>1, <1>2, Sizes
    <2> HIDE DEF rest
    <2>2. rest \in Data
      BY <2>1, DataSeq
    <2> QED BY <2>2 DEF rest
  <1> QED BY <1>2, <1>3, <1>4

\* The slot of a position is the position modulo the size.
LEMMA SlotMod ==
    ASSUME NEW a \in Int
    PROVE  Slot(a) = a % Size /\ Slot(a) \in 0..(Size - 1)
  BY Sizes, ModMod, DivMod DEF Slot

\* The distance of the counters.
LEMMA LagValue ==
    ASSUME read_pos \in 0..(Wrap - 1), write_pos \in 0..(Wrap - 1)
    PROVE  /\ Lag \in 0..(Wrap - 1)
           /\ Lag = IF write_pos >= read_pos THEN write_pos - read_pos
                    ELSE write_pos - read_pos + Wrap
  BY Sizes, ModSmall DEF Lag

\* How much a write may store.
LEMMA RoomValue ==
    ASSUME read_pos \in 0..(Wrap - 1), write_pos \in 0..(Wrap - 1), NEW n \in Nat
    PROVE  /\ Room(n) \in 0..n
           /\ readers = 0 => Room(n) = n
           /\ readers # 0 /\ Lag <= Size => Room(n) = IF n <= Size - Lag THEN n ELSE Size - Lag
           /\ readers # 0 /\ Lag > Size => Room(n) = 0
  <1>1. Lag \in Int /\ Size - Lag \in Int
    BY LagValue, Sizes
  <1>2. Max({0, Size - Lag}) = IF Lag <= Size THEN Size - Lag ELSE 0
    <2> DEFINE gap == Size - Lag
    <2>1. gap \in Int /\ (0 <= gap <=> Lag <= Size)
      BY <1>1, Sizes
    <2> HIDE DEF gap
    <2>2. Max({0, gap}) = IF 0 <= gap THEN gap ELSE 0
      BY <2>1, MinMax
    <2> QED BY <2>1, <2>2 DEF gap
  <1>3. readers # 0 => Room(n) = IF n <= Max({0, Size - Lag}) THEN n ELSE Max({0, Size - Lag})
    BY <1>1, <1>2, MinMax, Sizes DEF Room
  <1>4. readers = 0 => Room(n) = n
    BY DEF Room
  <1> QED BY <1>1, <1>2, <1>3, <1>4, Sizes

\* The last byte that goes to a slot is the one that stays there.
LEMMA StoredHit ==
    ASSUME NEW d \in Seq(Byte), NEW i \in 1..Len(d), write_pos \in Int,
           \A k \in 1..Len(d) : k > i => Slot(write_pos + k - 1) # Slot(write_pos + i - 1)
    PROVE  Stored(d)[Slot(write_pos + i - 1)] = d[i]
  <1> DEFINE x    == Slot(write_pos + i - 1)
             hits == {k \in 1..Len(d) : Slot(write_pos + k - 1) = x}
             last == CHOOSE k \in hits : \A m \in hits : m <= k
  <1>1. x \in 0..(Size - 1)
    <2>1. i \in Int
      OBVIOUS
    <2>2. write_pos + i - 1 \in Int
      BY <2>1
    <2> QED BY <2>2, SlotMod
  <1>2. i \in hits /\ \A m \in hits : m <= i
    OBVIOUS
  <1>3. last = i
    <2>1. last \in hits /\ \A m \in hits : m <= last
      BY <1>2
    <2> QED BY <1>2, <2>1
  <1> QED BY <1>1, <1>2, <1>3 DEF Stored

\* A slot to which no byte goes keeps what it holds.
LEMMA StoredMiss ==
    ASSUME NEW d \in Seq(Byte), NEW x \in 0..(Size - 1),
           \A k \in 1..Len(d) : Slot(write_pos + k - 1) # x
    PROVE  Stored(d)[x] = buffer[x]
  BY DEF Stored

\* A buffer of bytes stays one.  The last byte that goes to slot x is
\* number Len(d) - (write_pos + Len(d) - 1 - x) % Size.
LEMMA StoredType ==
    ASSUME NEW d \in Seq(Byte), write_pos \in Int, buffer \in [0..(Size - 1) -> Byte]
    PROVE  Stored(d) \in [0..(Size - 1) -> Byte]
  <1>1. ASSUME NEW x \in 0..(Size - 1) PROVE Stored(d)[x] \in Byte
    <2>1. CASE \A k \in 1..Len(d) : Slot(write_pos + k - 1) # x
      BY <2>1, StoredMiss
    <2>2. ASSUME NEW k \in 1..Len(d), Slot(write_pos + k - 1) = x
          PROVE  Stored(d)[x] \in Byte
      <3> DEFINE e == write_pos + Len(d) - 1
                 r == (e - x) % Size
                 i == Len(d) - r
      <3>0. Len(d) \in Nat /\ e \in Int /\ x \in Int /\ e - x \in Int
        BY Sizes
      <3>1. r \in 0..(Size - 1)
        BY <3>0, Sizes, DivMod
      <3> HIDE DEF r
      <3>2. (e - r) % Size = x
        <4>1. (e - r) % Size = (e - (e - x)) % Size
          <5> DEFINE y == e - x
          <5>1. y \in Int /\ e \in Int /\ r = y % Size
            BY <3>0 DEF r
          <5> HIDE DEF e, y
          <5>2. (e - (y % Size)) % Size = (e - y) % Size
            BY <5>1, Sizes, ModDiff
          <5> QED BY <5>1, <5>2 DEF y
        <4>2. e - (e - x) = x /\ x = 0 * Size + x
          BY <3>0, Sizes
        <4> QED BY <4>1, <4>2, Sizes, ModSmall
      <3>3. Slot(write_pos + i - 1) = x
        BY <3>0, <3>1, <3>2, SlotMod, write_pos + i - 1 = e - r
      <3>4. ASSUME NEW m \in 1..Len(d), m > i, Slot(write_pos + m - 1) = x
            PROVE  FALSE
        <4> DEFINE a == write_pos + i - 1
                   b == write_pos + m - 1
        <4>1. a \in Int /\ b \in Int /\ a < b /\ b < a + Size
          BY <3>0, <3>1, <3>4, Sizes
        <4>2. Slot(a) = x /\ Slot(b) = x
          BY <3>3, <3>4
        <4> HIDE DEF a, b
        <4>3. a % Size # b % Size
          BY <4>1, Sizes, ModApart
        <4> QED BY <4>1, <4>2, <4>3, SlotMod
      <3>5. i \in 1..Len(d)
        <4>1. k <= i
          BY <2>2, <3>0, <3>1, <3>4
        <4> QED BY <3>0, <3>1, <4>1, Sizes
      <3>6. Stored(d)[Slot(write_pos + i - 1)] = d[i]
        BY <3>3, <3>4, <3>5, StoredHit
      <3> QED BY <3>3, <3>5, <3>6
    <2> QED BY <2>1, <2>2
  <1> QED BY <1>1 DEF Stored

-----------------------------------------------------------------------------
(* Type correctness *)

\* Only writes have bytes left, and reads ask for one of the sizes.
CallsOK ==
    \A t \in Threads :
        /\ call[t].op # "write" => call[t].data = <<>>
        /\ call[t].op = "read"  => call[t].size \in ReadSizes

TInv == TypeOK /\ CallsOK

\* A thread outside of pipes.c has a call of the right type.
LEMMA NoCallType == NoCall \in Calls
  <1>1. <<>> \in Data
    <2>1. <<>> \in [1..0 -> Byte] /\ 0 \in 0..MaxWrite
      BY Sizes
    <2> QED BY <2>1 DEF Data
  <1> QED BY <1>1 DEF NoCall, Calls

\* What an iteration of pipe_read takes, and how that changes the distance.
LEMMA ReadLag ==
    ASSUME TInv, NEW t \in Threads, NEW n, n = Min({Lag, call[t].size}),
           read_pos' = (read_pos + n) % Wrap, write_pos' = write_pos
    PROVE  /\ n \in 0..Lag /\ (n = 0 => Lag = 0 \/ call[t].size = 0)
           /\ read_pos' \in 0..(Wrap - 1)
           /\ Lag' = Lag - n
  <1>1. /\ read_pos \in 0..(Wrap - 1) /\ write_pos \in 0..(Wrap - 1)
        /\ Lag \in 0..(Wrap - 1) /\ call[t].size \in Nat
    BY LagValue DEF TInv, TypeOK, Calls
  <1>2. n \in 0..Lag /\ (n = 0 => Lag = 0 \/ call[t].size = 0)
    <2> DEFINE m == call[t].size
    <2>1. m \in Int /\ m >= 0 /\ Lag \in Int /\ Lag >= 0
      BY <1>1, Sizes
    <2> HIDE DEF m
    <2>2. Min({Lag, m}) = IF Lag <= m THEN Lag ELSE m
      BY <2>1, MinMax
    <2>3. n = Min({Lag, m})
      BY DEF m
    <2> HIDE DEF Lag
    <2> QED BY <2>1, <2>2, <2>3 DEF m
  <1>3. read_pos' \in 0..(Wrap - 1)
    BY <1>1, <1>2, Sizes, DivMod
  <1>4. Lag' = Lag - n
    <2> DEFINE a == write_pos - read_pos
               x == read_pos + n
    <2>1. /\ a \in Int /\ x \in Int /\ n \in Int /\ write_pos \in Int
          /\ a - n = write_pos - x
      BY <1>1, <1>2, Sizes
    <2>2. Lag = a % Wrap /\ Lag' = (write_pos - (x % Wrap)) % Wrap
      BY DEF Lag
    <2> HIDE DEF a, x
    <2>3. (write_pos - (x % Wrap)) % Wrap = (write_pos - x) % Wrap
      BY <2>1, WrapSize, ModDiff
    <2>4. ((a % Wrap) - n) % Wrap = (a - n) % Wrap
      BY <2>1, WrapSize, ModDiff
    <2>5. Lag' = (Lag - n) % Wrap
      BY <2>1, <2>2, <2>3, <2>4
    <2>6. Lag - n \in 0..(Wrap - 1)
      BY <1>1, <1>2, Sizes
    <2> QED BY <2>5, <2>6, WrapSize, ModIs
  <1> QED BY <1>2, <1>3, <1>4

\* What an iteration of pipe_write stores, and how that changes the distance.
LEMMA WriteLag ==
    ASSUME TInv, NEW t \in Threads, NEW n, n = Room(Len(call[t].data)),
           write_pos' = (write_pos + n) % Wrap, read_pos' = read_pos
    PROVE  /\ n \in 0..Len(call[t].data)
           /\ write_pos' \in 0..(Wrap - 1)
           /\ Lag + n < Wrap => Lag' = Lag + n
  <1>1. /\ read_pos \in 0..(Wrap - 1) /\ write_pos \in 0..(Wrap - 1)
        /\ Lag \in 0..(Wrap - 1) /\ Len(call[t].data) \in Nat
    <2>1. call[t].data \in Data
      BY DEF TInv, TypeOK, Calls
    <2> QED BY <2>1, LagValue, DataSeq DEF TInv, TypeOK
  <1>2. n \in 0..Len(call[t].data)
    BY <1>1, RoomValue
  <1>3. write_pos' \in 0..(Wrap - 1)
    BY <1>1, <1>2, Sizes, DivMod
  <1>4. ASSUME Lag + n < Wrap PROVE Lag' = Lag + n
    <2> DEFINE a == write_pos - read_pos
               x == write_pos + n
    <2>1. /\ a \in Int /\ x \in Int /\ n \in Int /\ read_pos \in Int
          /\ a + n = x - read_pos
      BY <1>1, <1>2, Sizes
    <2>2. Lag = a % Wrap /\ Lag' = ((x % Wrap) - read_pos) % Wrap
      BY DEF Lag
    <2> HIDE DEF a, x
    <2>3. ((x % Wrap) - read_pos) % Wrap = (x - read_pos) % Wrap
      BY <2>1, WrapSize, ModDiff
    <2>4. ((a % Wrap) + n) % Wrap = (a + n) % Wrap
      BY <2>1, WrapSize, ModDiff
    <2>5. Lag' = (Lag + n) % Wrap
      BY <2>1, <2>2, <2>3, <2>4
    <2>6. Lag + n \in 0..(Wrap - 1)
      BY <1>1, <1>2, <1>4, Sizes
    <2> QED BY <2>5, <2>6, WrapSize, ModIs
  <1> QED BY <1>2, <1>3, <1>4

\* A read returns bytes.
LEMMA UnreadType ==
    ASSUME TypeOK, NEW n \in Nat
    PROVE  Unread(n) \in Seq(Byte) /\ Len(Unread(n)) = n
  <1>1. ASSUME NEW i \in 1..n PROVE buffer[Slot(read_pos + i - 1)] \in Byte
    <2>1. read_pos + i - 1 \in Int
      BY Sizes DEF TypeOK
    <2>2. Slot(read_pos + i - 1) \in 0..(Size - 1)
      BY <2>1, SlotMod
    <2> QED BY <2>2 DEF TypeOK
  <1> QED BY <1>1 DEF Unread

\* The first thread sleeps alone.
LEMMA OneSleeper ==
    ASSUME NEW t \in Threads
    PROVE  /\ <<t>> \in Seq(Threads) /\ Len(<<t>>) = 1 /\ ToSet(<<t>>) = {t}
           /\ <<>> \in Seq(Threads) /\ Len(<<>>) = 0 /\ ToSet(<<>>) = {}
  BY DEF ToSet

\* The invariant of the types holds when the pipe is made.
LEMMA InitTInv ==
    ASSUME Init PROVE TInv
  <1>1. NoCall \in Calls
    BY NoCallType
  <1>2. <<>> \in Seq(Threads) /\ <<>> \in Seq(Byte \cup {EOF})
    OBVIOUS
  <1>3. 0 \in 0..(Wrap - 1)
    BY Sizes
  <1>4. readers \in 0..MaxOpen /\ writers \in 0..MaxOpen
    BY Sizes DEF Init
  <1> QED BY <1>1, <1>2, <1>3, <1>4 DEF Init, TInv, TypeOK, CallsOK, NoCall

\* A call of one thread changes to another well formed call.
LEMMA CallStep ==
    ASSUME TInv, NEW t \in Threads, NEW c \in Calls,
           call' = [call EXCEPT ![t] = c],
           c.op # "write" => c.data = <<>>,
           c.op = "read"  => c.size \in ReadSizes
    PROVE  call' \in [Threads -> Calls] /\ CallsOK'
  <1>1. call \in [Threads -> Calls]
    BY DEF TInv, TypeOK
  <1>2. /\ call'[t] = c
        /\ \A u \in Threads : u # t => call'[u] = call[u]
    BY <1>1
  <1>3. CallsOK
    BY DEF TInv
  <1> QED BY <1>1, <1>2, <1>3 DEF CallsOK

\* A thread that leaves its call.
LEMMA CallEnds ==
    ASSUME TInv, NEW t \in Threads, call' = [call EXCEPT ![t] = NoCall]
    PROVE  call' \in [Threads -> Calls] /\ CallsOK'
  <1>1. NoCall \in Calls /\ NoCall.op = "none" /\ NoCall.data = <<>>
    BY NoCallType DEF NoCall
  <1> QED BY <1>1, CallStep

\* The calls of user programs.
LEMMA CallStarts ==
    ASSUME TInv, NEW t \in Threads,
           \/ \E n \in ReadSizes : StartRead(t, n)
           \/ \E d \in Data : StartWrite(t, d)
    PROVE  TInv'
  <1>1. ASSUME NEW n \in ReadSizes, StartRead(t, n)
        PROVE  call' \in [Threads -> Calls] /\ CallsOK'
    <2> DEFINE c == [NoCall EXCEPT !.op = "read", !.size = n]
    <2>1. c \in Calls /\ c.op = "read" /\ c.size = n /\ c.data = <<>>
      BY NoCallType, Sizes DEF NoCall, Calls
    <2>2. call' = [call EXCEPT ![t] = c]
      BY <1>1 DEF StartRead
    <2> HIDE DEF c
    <2> QED BY <2>1, <2>2, CallStep
  <1>2. ASSUME NEW d \in Data, StartWrite(t, d)
        PROVE  call' \in [Threads -> Calls] /\ CallsOK'
    <2> DEFINE c == [NoCall EXCEPT !.op = "write", !.data = d]
    <2>1. c \in Calls /\ c.op = "write"
      BY NoCallType DEF NoCall, Calls
    <2>2. call' = [call EXCEPT ![t] = c]
      BY <1>2 DEF StartWrite
    <2> HIDE DEF c
    <2> QED BY <2>1, <2>2, CallStep
  <1>3. UNCHANGED <<pipeVars, endVars, waiting, result>>
    BY DEF StartRead, StartWrite
  <1> QED BY <1>1, <1>2, <1>3 DEF TInv, TypeOK, pipeVars, endVars

\* An iteration of pipe_read.
LEMMA ReadType ==
    ASSUME TInv, NEW t \in Threads, Read(t)
    PROVE  TInv'
  <1> DEFINE n == Min({Lag, call[t].size})
  <1>1. /\ read_pos' = (read_pos + n) % Wrap
        /\ IF n = 0
           THEN waiting' = <<t>> /\ UNCHANGED <<call, result>>
           ELSE /\ waiting' = <<>>
                /\ call' = [call EXCEPT ![t] = NoCall]
                /\ result' = Unread(n)
        /\ UNCHANGED <<buffer, write_pos, readers, writers>>
    BY DEF Read, endVars
  <1>2. n \in Nat /\ read_pos' \in 0..(Wrap - 1)
    <2>1. n \in 0..Lag /\ read_pos' \in 0..(Wrap - 1)
      BY <1>1, ReadLag
    <2>2. Lag \in Int
      BY LagValue DEF TInv, TypeOK
    <2> HIDE DEF n, Lag
    <2> QED BY <2>1, <2>2
  <1> HIDE DEF n
  <1>3. waiting' \in Seq(Threads)
    BY <1>1, OneSleeper
  <1>4. call' \in [Threads -> Calls] /\ CallsOK'
    <2>1. CASE n = 0
      BY <1>1, <2>1 DEF TInv, TypeOK, CallsOK
    <2>2. CASE n # 0
      BY <1>1, <2>2, CallEnds
    <2> QED BY <2>1, <2>2
  <1>5. result' \in Seq(Byte \cup {EOF})
    <2>1. CASE n = 0
      BY <1>1, <2>1 DEF TInv, TypeOK
    <2>2. CASE n # 0
      <3>1. result' \in Seq(Byte)
        BY <1>1, <1>2, <2>2, UnreadType DEF TInv
      <3> QED BY <3>1
    <2> QED BY <2>1, <2>2
  <1>6. /\ buffer' \in [0..(Size - 1) -> Byte] /\ write_pos' \in 0..(Wrap - 1)
        /\ readers' \in 0..MaxOpen /\ writers' \in 0..MaxOpen
    BY <1>1 DEF TInv, TypeOK
  <1> QED BY <1>2, <1>3, <1>4, <1>5, <1>6 DEF TInv, TypeOK

\* An iteration of pipe_write.
LEMMA WriteType ==
    ASSUME TInv, NEW t \in Threads, Write(t)
    PROVE  TInv'
  <1> DEFINE d == call[t].data
             n == Room(Len(d))
  <1>1. /\ buffer' = Stored(SubSeq(d, 1, n))
        /\ write_pos' = (write_pos + n) % Wrap
        /\ IF n < Len(d)
           THEN /\ waiting' = <<t>>
                /\ call' = [call EXCEPT ![t].data = SubSeq(d, n + 1, Len(d))]
           ELSE /\ waiting' = <<>>
                /\ call' = [call EXCEPT ![t] = NoCall]
        /\ UNCHANGED <<read_pos, readers, writers, result>>
        /\ call[t].op = "write"
    BY DEF Write, endVars
  <1>2. d \in Data /\ call[t] \in Calls
    BY DEF TInv, TypeOK, Calls
  <1>3. n \in 0..Len(d) /\ write_pos' \in 0..(Wrap - 1)
    BY <1>1, WriteLag
  <1>4. /\ SubSeq(d, n + 1, Len(d)) \in Data /\ SubSeq(d, 1, n) \in Seq(Byte)
    BY <1>2, <1>3, DataRest
  <1>5. buffer' \in [0..(Size - 1) -> Byte]
    <2> DEFINE s == SubSeq(d, 1, n)
    <2>1. s \in Seq(Byte) /\ buffer' = Stored(s)
      BY <1>1, <1>4
    <2>2. write_pos \in Int /\ buffer \in [0..(Size - 1) -> Byte]
      BY Sizes DEF TInv, TypeOK
    <2> HIDE DEF s
    <2> QED BY <2>1, <2>2, StoredType
  <1> HIDE DEF n
  <1>6. call' \in [Threads -> Calls] /\ CallsOK'
    <2>1. CASE n < Len(d)
      <3> DEFINE c == [call[t] EXCEPT !.data = SubSeq(d, n + 1, Len(d))]
      <3>1. c \in Calls /\ c.op = "write"
        BY <1>1, <1>2, <1>4 DEF Calls
      <3>2. call' = [call EXCEPT ![t] = c]
        BY <1>1, <2>1
      <3> HIDE DEF c
      <3> QED BY <3>1, <3>2, CallStep
    <2>2. CASE ~ (n < Len(d))
      BY <1>1, <2>2, CallEnds
    <2> QED BY <2>1, <2>2
  <1> HIDE DEF d
  <1>7. waiting' \in Seq(Threads)
    BY <1>1, OneSleeper
  <1>8. /\ read_pos' \in 0..(Wrap - 1) /\ result' \in Seq(Byte \cup {EOF})
        /\ readers' \in 0..MaxOpen /\ writers' \in 0..MaxOpen
    BY <1>1 DEF TInv, TypeOK
  <1> QED BY <1>3, <1>5, <1>6, <1>7, <1>8 DEF TInv, TypeOK

\* Every step keeps the types.
LEMMA NextTInv ==
    ASSUME TInv, [Next]_vars PROVE TInv'
  <1>1. ASSUME NEW t \in Threads, ReadEof(t) PROVE TInv'
    <2>1. call' \in [Threads -> Calls] /\ CallsOK'
      BY <1>1, CallEnds DEF ReadEof
    <2>2. <<EOF>> \in Seq(Byte \cup {EOF})
      OBVIOUS
    <2> QED BY <1>1, <2>1, <2>2 DEF ReadEof, TInv, TypeOK, pipeVars, endVars
  <1>2. ASSUME NEW t \in Threads, Freed(t) PROVE TInv'
    <2>1. call' \in [Threads -> Calls] /\ CallsOK'
      BY <1>2, CallEnds DEF Freed
    <2>2. waiting' \in Seq(Threads)
      BY <1>2, UnlinkType DEF Freed, TInv, TypeOK
    <2> QED BY <1>2, <2>1, <2>2 DEF Freed, TInv, TypeOK, pipeVars, endVars
  <1>3. ASSUME OpenRead \/ OpenWrite \/ CloseRead \/ CloseWrite PROVE TInv'
    <2>1. readers' \in 0..MaxOpen /\ writers' \in 0..MaxOpen
      BY <1>3, Sizes DEF OpenRead, OpenWrite, CloseRead, CloseWrite, TInv, TypeOK
    <2>2. UNCHANGED <<pipeVars, waiting, call, result>>
      BY <1>3 DEF OpenRead, OpenWrite, CloseRead, CloseWrite
    <2> QED BY <2>1, <2>2 DEF TInv, TypeOK, CallsOK, pipeVars
  <1>4. CASE UNCHANGED vars
    BY <1>4 DEF vars, pipeVars, endVars, TInv, TypeOK, CallsOK
  <1> QED
    BY <1>1, <1>2, <1>3, <1>4, ReadType, WriteType, CallStarts DEF Next, Step

\* A pipe of any size keeps its types: the counters stay within their width
\* and a thread in no write has no bytes left to write.
THEOREM PipeTypeCorrect == Spec => []TypeOK
  <1>1. TInv => TypeOK
    BY DEF TInv
  <1> QED BY <1>1, InitTInv, NextTInv, PTL DEF Spec

-----------------------------------------------------------------------------
(* No unread byte is overwritten *)

\* The steps that leave the counters, and so their distance, alone.
LEMMA LagKept ==
    ASSUME UNCHANGED <<read_pos, write_pos>> PROVE Lag' = Lag
  BY DEF Lag

\* A closed read end stays closed.
LEMMA StaysClosed ==
    ASSUME LateOpen = FALSE, TInv, [Next]_vars, readers = 0
    PROVE  readers' = 0
  <1>1. ASSUME NEW t \in Threads, Step(t) \/ Freed(t) PROVE readers' = 0
    BY <1>1 DEF Step, ReadEof, Read, Write, Freed, endVars
  <1>2. ASSUME NEW t \in Threads,
               \/ \E n \in ReadSizes : StartRead(t, n)
               \/ \E d \in Data : StartWrite(t, d)
        PROVE  readers' = 0
    BY <1>2 DEF StartRead, StartWrite, endVars
  <1>3. ASSUME OpenRead \/ OpenWrite \/ CloseRead \/ CloseWrite PROVE readers' = 0
    BY <1>3 DEF OpenRead, OpenWrite, CloseRead, CloseWrite
  <1>4. CASE UNCHANGED vars
    BY <1>4 DEF vars, endVars
  <1> QED BY <1>1, <1>2, <1>3, <1>4 DEF Next

\* How far each step moves the counters apart.
LEMMA LagStep ==
    ASSUME TInv, [Next]_vars
    PROVE  \/ UNCHANGED <<read_pos, write_pos>>
           \/ \E t \in Threads : Read(t) \/ Write(t)
  <1>1. ASSUME NEW t \in Threads,
               \/ ReadEof(t) \/ Freed(t)
               \/ \E n \in ReadSizes : StartRead(t, n)
               \/ \E d \in Data : StartWrite(t, d)
        PROVE  UNCHANGED <<read_pos, write_pos>>
    BY <1>1 DEF ReadEof, Freed, StartRead, StartWrite, pipeVars
  <1>2. ASSUME OpenRead \/ OpenWrite \/ CloseRead \/ CloseWrite
        PROVE  UNCHANGED <<read_pos, write_pos>>
    BY <1>2 DEF OpenRead, OpenWrite, CloseRead, CloseWrite, pipeVars
  <1>3. CASE UNCHANGED vars
    BY <1>3 DEF vars, pipeVars
  <1> QED BY <1>1, <1>2, <1>3 DEF Next, Step

\* The distance after an iteration of pipe_read.
LEMMA ReadStep ==
    ASSUME TInv, NEW t \in Threads, Read(t)
    PROVE  LET n == Min({Lag, call[t].size})
           IN  /\ n \in Nat /\ Lag \in Nat /\ n <= Lag /\ Lag' = Lag - n
               /\ n = 0 => Lag = 0 \/ call[t].size = 0
  <1> DEFINE n == Min({Lag, call[t].size})
  <1>1. /\ n \in 0..Lag /\ (n = 0 => Lag = 0 \/ call[t].size = 0)
        /\ Lag' = Lag - n
    BY ReadLag DEF Read
  <1>2. Lag \in Nat
    <2>1. Lag \in 0..(Wrap - 1)
      BY LagValue DEF TInv, TypeOK
    <2> HIDE DEF Lag
    <2> QED BY <2>1
  <1> HIDE DEF n, Lag
  <1>3. n \in Nat /\ n <= Lag
    BY <1>1, <1>2
  <1> QED BY <1>1, <1>2, <1>3 DEF n

\* The distance after an iteration of pipe_write: with a reader the bytes
\* stored fit, and all bytes are stored unless the buffer is full then.
LEMMA WriteStep ==
    ASSUME TInv, NEW t \in Threads, Write(t), readers # 0
    PROVE  LET k == Len(call[t].data)
               n == Room(k)
           IN  /\ n \in Nat /\ k \in Nat /\ n <= k /\ Lag \in Nat /\ Lag' = Lag + n
               /\ n > 0 => Lag' <= Size
               /\ n < k => Lag' >= Size
  <1> DEFINE k == Len(call[t].data)
             n == Room(k)
  <1>1. call[t].data \in Data
    BY DEF TInv, TypeOK, Calls
  <1>2. k \in Nat
    BY <1>1, DataSeq
  <1>3. read_pos \in 0..(Wrap - 1) /\ write_pos \in 0..(Wrap - 1)
    BY DEF TInv, TypeOK
  <1>4. Lag \in 0..(Wrap - 1)
    BY <1>3, LagValue
  <1>5. /\ n \in 0..k
        /\ Lag + n < Wrap => Lag' = Lag + n
    BY WriteLag DEF Write
  <1>6. IF Lag <= Size THEN n = IF k <= Size - Lag THEN k ELSE Size - Lag
        ELSE n = 0
    BY <1>2, <1>3, <1>4, RoomValue, Sizes
  <1> HIDE DEF n, k, Lag
  <1>7. Lag \in Nat /\ n \in Nat /\ n <= k
    BY <1>2, <1>4, <1>5, WrapSize
  <1>8. Lag' = Lag + n
    <2>1. Lag + n < Wrap
      BY <1>2, <1>4, <1>6, <1>7, Sizes
    <2> QED BY <1>5, <2>1
  <1>9. (n > 0 => Lag + n <= Size) /\ (n < k => Lag + n >= Size)
    BY <1>2, <1>6, <1>7, Sizes
  <1> QED BY <1>2, <1>7, <1>8, <1>9 DEF n, k

\* Every step keeps the counters within one buffer of each other.
LEMMA OverrunStep ==
    ASSUME LateOpen = FALSE, TInv, NoOverrun, [Next]_vars
    PROVE  NoOverrun'
  <1> SUFFICES ASSUME readers' > 0 PROVE Lag' <= Size
    BY DEF NoOverrun
  <1>1. readers # 0 /\ readers > 0
    <2>1. ASSUME readers = 0 PROVE FALSE
      <3>1. readers' = 0
        BY <2>1, StaysClosed
      <3> QED BY <3>1
    <2>2. readers \in Int /\ readers >= 0
      BY DEF TInv, TypeOK
    <2> QED BY <2>1, <2>2
  <1>2. Lag <= Size
    BY <1>1 DEF NoOverrun
  <1>3. CASE UNCHANGED <<read_pos, write_pos>>
    <2>1. Lag' = Lag
      BY <1>3, LagKept
    <2> QED BY <1>2, <2>1
  <1>4. ASSUME NEW t \in Threads, Read(t) PROVE Lag' <= Size
    <2> DEFINE n == Min({Lag, call[t].size})
    <2>1. n \in Nat /\ Lag \in Nat /\ Lag' = Lag - n
      BY <1>4, ReadStep
    <2> HIDE DEF n, Lag
    <2> QED BY <1>2, <2>1, Sizes
  <1>5. ASSUME NEW t \in Threads, Write(t) PROVE Lag' <= Size
    <2> HIDE DEF Lag
    <2> QED BY <1>1, <1>2, <1>5, WriteStep, Sizes
  <1> QED BY <1>3, <1>4, <1>5, LagStep

\* Whatever its size, a pipe that is not opened again after its last reader
\* closed it never overwrites a byte that was not read: pipe_write computes
\* the room from the two counters correctly across their wrap around.
THEOREM PipeNoOverrun == ASSUME LateOpen = FALSE PROVE Spec => []NoOverrun
  <1>1. Init => NoOverrun
    <2> SUFFICES ASSUME Init PROVE NoOverrun
      OBVIOUS
    <2>1. Lag = 0
      BY WrapSize, ModIs DEF Init, Lag
    <2> HIDE DEF Lag
    <2> QED BY <2>1, Sizes DEF NoOverrun
  <1> QED BY <1>1, InitTInv, NextTInv, OverrunStep, PTL DEF Spec

-----------------------------------------------------------------------------
(* No lost wakeup *)

\* At most one thread sleeps, as each wakes the others first, and the pipe is
\* as it was when it went to sleep.
Sleepers ==
    /\ Len(waiting) <= 1
    /\ \A t \in ToSet(waiting) :
          /\ call[t].op # "none"
          /\ call[t].op = "read"  => Lag = 0
          /\ call[t].op = "write" => Lag >= Size

\* A list of one at most has no duplicates.
LEMMA ShortInjective ==
    ASSUME NEW S, NEW s \in Seq(S), Len(s) <= 1
    PROVE  IsInjective(s)
  <1>1. DOMAIN s = 1..Len(s) /\ Len(s) \in Nat
    OBVIOUS
  <1>2. \A i, j \in DOMAIN s : i = j
    BY <1>1
  <1> QED BY <1>2 DEF IsInjective

\* An empty list.
LEMMA NoSleeper ==
    /\ waiting = <<>> => Sleepers
    /\ waiting' = <<>> => Sleepers'
  <1>1. ToSet(<<>>) = {} /\ Len(<<>>) = 0
    BY DEF ToSet
  <1>2. ASSUME waiting = <<>> PROVE Sleepers
    <2>1. ToSet(waiting) = {} /\ Len(waiting) <= 1
      BY <1>1, <1>2
    <2> QED BY <2>1, Zenon DEF Sleepers
  <1>3. ASSUME waiting' = <<>> PROVE Sleepers'
    <2>1. ToSet(waiting') = {} /\ Len(waiting') <= 1
      BY <1>1, <1>3
    <2> QED BY <2>1, Zenon DEF Sleepers
  <1> QED BY <1>2, <1>3

\* exit_process takes the freed thread off the list.
LEMMA FreedSleepers ==
    ASSUME TInv, Sleepers, NEW t \in Threads, Freed(t)
    PROVE  Sleepers'
  <1>1. waiting \in Seq(Threads) /\ IsInjective(waiting) /\ Len(waiting) <= 1
    BY ShortInjective DEF TInv, TypeOK, Sleepers
  <1>2. ToSet(waiting') = ToSet(waiting) \ {t} /\ Len(waiting') <= Len(waiting)
    BY <1>1, UnlinkSet, UnlinkLen DEF Freed
  <1>3. Len(waiting') <= 1
    <2>1. waiting' \in Seq(Threads)
      BY NextTInv DEF TInv, TypeOK, Next
    <2> QED BY <1>1, <1>2, <2>1
  <1>4. \A u \in Threads : u # t => call'[u] = call[u]
    BY DEF Freed, TInv, TypeOK
  <1>5. Lag' = Lag
    BY LagKept DEF Freed, pipeVars
  <1>6. ToSet(waiting') \subseteq Threads \ {t}
    BY <1>1, <1>2 DEF ToSet
  <1> HIDE DEF Lag
  <1> QED BY <1>2, <1>3, <1>4, <1>5, <1>6 DEF Sleepers

\* A thread that starts or ends a call without taking or storing bytes.
LEMMA CallSleepers ==
    ASSUME TInv, Sleepers, NEW t \in Threads, t \notin ToSet(waiting),
           \A u \in Threads \ {t} : call'[u] = call[u],
           UNCHANGED <<read_pos, write_pos, waiting>>
    PROVE  Sleepers'
  <1>1. Lag' = Lag
    BY LagKept
  <1>2. ToSet(waiting) \subseteq Threads
    BY DEF TInv, TypeOK, ToSet
  <1> HIDE DEF Lag
  <1> QED BY <1>1, <1>2 DEF Sleepers

\* A thread that leaves a call leaves an empty list behind; one that goes to
\* sleep is alone on it.
LEMMA SleepersStep ==
    ASSUME 0 \notin ReadSizes, TInv, Sleepers, [Next]_vars
    PROVE  Sleepers'
  <1>1. ASSUME NEW t \in Threads,
               \/ ReadEof(t)
               \/ \E n \in ReadSizes : StartRead(t, n)
               \/ \E d \in Data : StartWrite(t, d)
        PROVE  Sleepers'
    <2>1. t \notin ToSet(waiting)
      BY <1>1 DEF ReadEof, StartRead, StartWrite, Asleep, Free, Sleepers
    <2>2. \A u \in Threads \ {t} : call'[u] = call[u]
      BY <1>1 DEF ReadEof, StartRead, StartWrite, TInv, TypeOK
    <2>3. UNCHANGED <<read_pos, write_pos, waiting>>
      BY <1>1 DEF ReadEof, StartRead, StartWrite, pipeVars
    <2> QED BY <2>1, <2>2, <2>3, CallSleepers
  <1>2. ASSUME NEW t \in Threads, Freed(t) PROVE Sleepers'
    BY <1>2, FreedSleepers
  <1>3. ASSUME NEW t \in Threads, Read(t) PROVE Sleepers'
    <2> DEFINE n == Min({Lag, call[t].size})
    <2>1. /\ call[t].op = "read"
          /\ n # 0 => waiting' = <<>>
          /\ n = 0 => waiting' = <<t>> /\ call' = call
      BY <1>3 DEF Read
    <2>2. /\ n \in Nat /\ Lag \in Nat /\ n <= Lag /\ Lag' = Lag - n
          /\ n = 0 => Lag = 0 \/ call[t].size = 0
      BY <1>3, ReadStep
    <2>3. call[t].size # 0
      BY <2>1 DEF TInv, CallsOK
    <2> HIDE DEF n, Lag
    <2>4. CASE n = 0
      <3>1. waiting' = <<t>> /\ call' = call /\ Lag' = 0
        BY <2>1, <2>2, <2>3, <2>4
      <3> QED BY <2>1, <3>1, OneSleeper DEF Sleepers
    <2>5. CASE n # 0
      BY <2>1, <2>5, NoSleeper
    <2> QED BY <2>4, <2>5
  <1>4. ASSUME NEW t \in Threads, Write(t) PROVE Sleepers'
    <2> DEFINE k == Len(call[t].data)
               n == Room(k)
    <2>1. /\ call[t].op = "write"
          /\ ~ (n < k) => waiting' = <<>>
          /\ n < k => /\ waiting' = <<t>>
                      /\ call' = [call EXCEPT ![t].data = SubSeq(call[t].data, n + 1, k)]
      BY <1>4 DEF Write
    <2>2. readers # 0 => (n < k => Lag' >= Size)
      BY <1>4, WriteStep
    <2>3. readers = 0 => ~ (n < k)
      <3>1. call[t].data \in Data
        BY DEF TInv, TypeOK, Calls
      <3>2. k \in Nat
        BY <3>1, DataSeq
      <3> QED BY <3>2, RoomValue DEF TInv, TypeOK
    <2>4. n < k => call'[t].op = "write"
      BY <2>1 DEF TInv, TypeOK, Calls
    <2> HIDE DEF n, k, Lag
    <2>5. CASE n < k
      <3>1. waiting' = <<t>> /\ call'[t].op = "write" /\ Lag' >= Size
        BY <2>1, <2>2, <2>3, <2>4, <2>5
      <3> QED BY <3>1, OneSleeper DEF Sleepers
    <2>6. CASE ~ (n < k)
      BY <2>1, <2>6, NoSleeper
    <2> QED BY <2>5, <2>6
  <1>5. ASSUME OpenRead \/ OpenWrite \/ CloseRead \/ CloseWrite \/ UNCHANGED vars
        PROVE  Sleepers'
    <2>1. UNCHANGED <<read_pos, write_pos, waiting, call>>
      BY <1>5 DEF OpenRead, OpenWrite, CloseRead, CloseWrite, vars, pipeVars
    <2>2. Lag' = Lag
      BY <2>1, LagKept
    <2> HIDE DEF Lag
    <2> QED BY <2>1, <2>2 DEF Sleepers
  <1> QED BY <1>1, <1>2, <1>3, <1>4, <1>5 DEF Next, Step

\* No thread sleeps in a pipe on work it could do, however many threads use
\* it, provided that nobody reads zero bytes (such a read sleeps whatever the
\* pipe holds): the one list is enough for readers and writers.
THEOREM PipeNoLostWakeup == ASSUME 0 \notin ReadSizes PROVE Spec => []NoLostWakeup
  <1>1. Init => Sleepers
    BY NoSleeper DEF Init
  <1>2. Sleepers => NoLostWakeup
    BY DEF Sleepers, NoLostWakeup
  <1> QED BY <1>1, <1>2, InitTInv, NextTInv, SleepersStep, PTL DEF Spec

-----------------------------------------------------------------------------
(* A pipe is a channel *)

\* Slots do not notice the wrap around.
LEMMA SlotWrap ==
    ASSUME NEW a \in Int, NEW b \in Int
    PROVE  Slot((a % Wrap) + b) = Slot(a + b)
  <1>1. ((a % Wrap) + b) % Wrap = (a + b) % Wrap
    BY WrapSize, ModDiff
  <1> QED BY <1>1 DEF Slot

\* The byte that goes to write_pos + j is number Lag + j of the unread ones.
LEMMA SlotWrite ==
    ASSUME read_pos \in 0..(Wrap - 1), write_pos \in 0..(Wrap - 1), NEW j \in Int
    PROVE  Slot(write_pos + j) = Slot(read_pos + (Lag + j))
  <1>1. /\ read_pos \in Int /\ write_pos \in Int /\ Lag \in Int
        /\ \/ write_pos = read_pos + Lag
           \/ write_pos = read_pos + Lag - Wrap
    BY LagValue, WrapSize
  <1> HIDE DEF Lag
  <1> DEFINE a == read_pos + (Lag + j)
  <1>2. a \in Int /\ (write_pos + j = a \/ write_pos + j = (-1) * Wrap + a)
    BY <1>1, WrapSize
  <1> HIDE DEF a
  <1>3. ((-1) * Wrap + a) % Wrap = a % Wrap
    <2> DEFINE m == -1
    <2>1. m \in Int
      OBVIOUS
    <2> HIDE DEF m
    <2>2. (m * Wrap + a) % Wrap = a % Wrap
      BY <1>2, <2>1, WrapSize, ModShift
    <2> QED BY <2>2 DEF m
  <1>4. Slot(write_pos + j) = Slot(a)
    BY <1>2, <1>3 DEF Slot
  <1> QED BY <1>4 DEF a

\* The unread bytes.
ContentsAre ==
    /\ Contents \in Seq(Byte) /\ Len(Contents) = Lag /\ Lag \in Nat
    /\ \A i \in 1..Lag : Contents[i] = buffer[Slot(read_pos + i - 1)]

\* The unread bytes are the slots from the reading position on.
LEMMA ContentsSeq == TypeOK => ContentsAre
  <1> SUFFICES ASSUME TypeOK PROVE ContentsAre
    OBVIOUS
  <1>1. Lag \in Nat
    <2>1. Lag \in 0..(Wrap - 1)
      BY LagValue DEF TypeOK
    <2> HIDE DEF Lag
    <2> QED BY <2>1
  <1> HIDE DEF Lag
  <1>2. \A i \in 1..Lag : Contents[i] = buffer[Slot(read_pos + i - 1)]
    BY <1>1 DEF Contents, Unread
  <1> QED BY <1>1, <1>2, UnreadType DEF Contents, ContentsAre

\* The unread bytes after a step.
LEMMA ContentsNext == TypeOK' => ContentsAre'
  BY ContentsSeq, PTL

\* An iteration of pipe_read takes the first n unread bytes and returns them.
LEMMA ContentsRead ==
    ASSUME TInv, TInv', NEW t \in Threads, Read(t)
    PROVE  LET n == Min({Lag, call[t].size})
           IN  /\ Contents' = SubSeq(Contents, n + 1, Len(Contents))
               /\ Unread(n) = SubSeq(Contents, 1, n)
  <1> DEFINE n == Min({Lag, call[t].size})
  <1>1. n \in Nat /\ Lag \in Nat /\ n <= Lag /\ Lag' = Lag - n
    BY ReadStep
  <1>2. read_pos' = (read_pos + n) % Wrap /\ buffer' = buffer
    BY DEF Read
  <1>3. read_pos \in Int
    BY WrapSize DEF TInv, TypeOK
  <1> HIDE DEF n
  <1>4. /\ Contents \in Seq(Byte) /\ Len(Contents) = Lag
        /\ \A i \in 1..Lag : Contents[i] = buffer[Slot(read_pos + i - 1)]
    BY ContentsSeq DEF TInv, ContentsAre
  <1>5. /\ Contents' \in Seq(Byte) /\ Len(Contents') = Lag'
        /\ \A i \in 1..Lag' : Contents'[i] = buffer'[Slot(read_pos' + i - 1)]
    BY ContentsNext DEF TInv, ContentsAre
  <1> HIDE DEF Lag, Contents
  <1>6. Contents' = SubSeq(Contents, n + 1, Len(Contents))
    <2> DEFINE rest == SubSeq(Contents, n + 1, Len(Contents))
    <2>1. /\ rest \in Seq(Byte) /\ Len(rest) = Lag - n
          /\ \A i \in 1..(Lag - n) : rest[i] = Contents[n + i]
      BY <1>1, <1>4
    <2>2. ASSUME NEW i \in 1..(Lag - n) PROVE Contents'[i] = rest[i]
      <3>1. n + i \in 1..Lag /\ i - 1 \in Int /\ i \in 1..Lag'
        BY <1>1
      <3>2. Slot(((read_pos + n) % Wrap) + (i - 1)) = Slot((read_pos + n) + (i - 1))
        BY <1>1, <1>3, <3>1, SlotWrap
      <3>3. /\ read_pos' + i - 1 = ((read_pos + n) % Wrap) + (i - 1)
            /\ (read_pos + n) + (i - 1) = read_pos + (n + i) - 1
        <4>1. (read_pos + n) % Wrap \in Int
          BY <1>1, <1>3, WrapSize, DivMod
        <4> QED BY <1>1, <1>2, <1>3, <3>1, <4>1
      <3>4. Contents'[i] = buffer[Slot(read_pos + (n + i) - 1)]
        BY <1>2, <1>5, <3>1, <3>2, <3>3
      <3>5. Contents[n + i] = buffer[Slot(read_pos + (n + i) - 1)]
        BY <1>4, <3>1
      <3> QED BY <2>1, <3>4, <3>5
    <2> HIDE DEF rest
    <2>3. Contents' = rest
      BY <1>1, <1>5, <2>1, <2>2
    <2> QED BY <2>3 DEF rest
  <1>7. Unread(n) = SubSeq(Contents, 1, n)
    <2> DEFINE first == SubSeq(Contents, 1, n)
    <2>1. /\ first \in Seq(Byte) /\ Len(first) = n
          /\ \A i \in 1..n : first[i] = Contents[i]
      BY <1>1, <1>4
    <2>2. Unread(n) \in Seq(Byte) /\ Len(Unread(n)) = n
      BY <1>1, UnreadType DEF TInv
    <2>3. \A i \in 1..n : Unread(n)[i] = Contents[i]
      BY <1>1, <1>4 DEF Unread
    <2> HIDE DEF first
    <2>4. Unread(n) = first
      BY <2>1, <2>2, <2>3
    <2> QED BY <2>4 DEF first
  <1> QED BY <1>6, <1>7 DEF n

\* An iteration of pipe_write adds the first n bytes it has at the end: they
\* go, in order, to slots that hold no unread byte.
LEMMA ContentsWrite ==
    ASSUME TInv, TInv', NoOverrun, readers > 0, NEW t \in Threads, Write(t)
    PROVE  LET n == Room(Len(call[t].data))
           IN  Contents' = Contents \o SubSeq(call[t].data, 1, n)
  <1> DEFINE d == call[t].data
             n == Room(Len(d))
             s == SubSeq(d, 1, n)
  <1>1. n \in Nat /\ Len(d) \in Nat /\ n <= Len(d) /\ Lag \in Nat /\ Lag' = Lag + n
    BY WriteStep
  <1>2. Lag + n <= Size
    <2>1. n > 0 => Lag' <= Size
      BY WriteStep
    <2>2. Lag <= Size
      BY DEF NoOverrun
    <2> HIDE DEF n, Lag
    <2> QED BY <1>1, <2>1, <2>2
  <1>3. buffer' = Stored(s) /\ read_pos' = read_pos
    BY DEF Write
  <1>4. read_pos \in 0..(Wrap - 1) /\ write_pos \in 0..(Wrap - 1)
    BY DEF TInv, TypeOK
  <1>5. s \in Seq(Byte) /\ Len(s) = n
    <2>1. d \in Data
      BY DEF TInv, TypeOK, Calls
    <2> HIDE DEF n, d
    <2> QED BY <1>1, <2>1, DataRest
  <1> HIDE DEF n, d, s
  <1>6. /\ Contents \in Seq(Byte) /\ Len(Contents) = Lag
        /\ \A i \in 1..Lag : Contents[i] = buffer[Slot(read_pos + i - 1)]
    BY ContentsSeq DEF TInv, ContentsAre
  <1>7. /\ Contents' \in Seq(Byte) /\ Len(Contents') = Lag'
        /\ \A i \in 1..Lag' : Contents'[i] = buffer'[Slot(read_pos' + i - 1)]
    BY ContentsNext DEF TInv, ContentsAre
  <1>8. read_pos \in Int /\ write_pos \in Int /\ Size \in Int
    BY <1>4, Sizes
  \* Position k of s and position i of the contents, less than a size apart.
  <1>9. ASSUME NEW k \in 1..n, NEW i \in Int, Lag + k # i, Lag + k - i < Size, i - (Lag + k) < Size
        PROVE  Slot(write_pos + k - 1) # Slot(read_pos + i - 1)
    <2> DEFINE a == read_pos + (Lag + (k - 1))
               b == read_pos + i - 1
    <2>1. k - 1 \in Int /\ write_pos + k - 1 = write_pos + (k - 1)
      BY <1>8
    <2>2. Slot(write_pos + k - 1) = Slot(a)
      BY <1>4, <2>1, SlotWrite
    <2>3. a \in Int /\ b \in Int /\ ((a < b /\ b < a + Size) \/ (b < a /\ a < b + Size))
      BY <1>1, <1>8, <1>9, <2>1
    <2> HIDE DEF a, b, Lag
    <2>4. a % Size # b % Size
      BY <2>3, Sizes, ModApart
    <2>5. Slot(a) # Slot(b)
      BY <2>3, <2>4, SlotMod
    <2> QED BY <2>2, <2>5 DEF b
  <1>10. ASSUME NEW k \in 1..n
         PROVE  Slot(write_pos + k - 1) = Slot(read_pos + (Lag + k) - 1)
    <2>1. k - 1 \in Int /\ write_pos + k - 1 = write_pos + (k - 1)
      BY <1>8
    <2>2. Slot(write_pos + (k - 1)) = Slot(read_pos + (Lag + (k - 1)))
      BY <1>4, <2>1, SlotWrite
    <2>3. read_pos + (Lag + (k - 1)) = read_pos + (Lag + k) - 1
      BY <1>1, <1>8
    <2> QED BY <2>1, <2>2, <2>3
  <1> HIDE DEF Lag, Contents
  <1>11. ASSUME NEW i \in 1..Lag PROVE Contents'[i] = Contents[i]
    <2> DEFINE x == Slot(read_pos + i - 1)
    <2>1. x \in 0..(Size - 1)
      <3>1. read_pos + i - 1 \in Int
        BY <1>8
      <3> QED BY <3>1, SlotMod
    <2>2. \A k \in 1..Len(s) : Slot(write_pos + k - 1) # x
      <3> SUFFICES ASSUME NEW k \in 1..n PROVE Slot(write_pos + k - 1) # x
        BY <1>5
      <3>1. i \in Int /\ Lag + k # i /\ Lag + k - i < Size /\ i - (Lag + k) < Size
        BY <1>1, <1>2, <1>8
      <3> HIDE DEF x
      <3> QED BY <1>9, <3>1 DEF x
    <2> HIDE DEF x
    <2>3. Stored(s)[x] = buffer[x]
      BY <1>5, <2>1, <2>2, StoredMiss
    <2>4. i \in 1..Lag'
      BY <1>1
    <2> QED BY <1>3, <1>6, <1>7, <2>3, <2>4 DEF x
  <1>12. ASSUME NEW k \in 1..n PROVE Contents'[Lag + k] = s[k]
    <2>1. Lag + k \in 1..Lag'
      BY <1>1
    <2>2. Contents'[Lag + k] = Stored(s)[Slot(write_pos + k - 1)]
      BY <1>3, <1>7, <1>10, <2>1
    <2>3. \A m \in 1..Len(s) : m > k => Slot(write_pos + m - 1) # Slot(write_pos + k - 1)
      <3> SUFFICES ASSUME NEW m \in 1..n, m > k
                   PROVE  Slot(write_pos + m - 1) # Slot(write_pos + k - 1)
        BY <1>5
      <3> DEFINE i == Lag + k
      <3>1. i \in Int /\ Lag + m # i /\ Lag + m - i < Size /\ i - (Lag + m) < Size
        BY <1>1, <1>2, <1>8
      <3> HIDE DEF i
      <3>2. Slot(write_pos + m - 1) # Slot(read_pos + i - 1)
        BY <1>9, <3>1
      <3> QED BY <1>10, <3>2 DEF i
    <2>4. k \in 1..Len(s) /\ write_pos \in Int
      BY <1>5, <1>8
    <2>5. Stored(s)[Slot(write_pos + k - 1)] = s[k]
      BY <1>5, <2>3, <2>4, StoredHit
    <2> QED BY <2>2, <2>5
  <1>13. Contents' = Contents \o s
    <2> DEFINE both == Contents \o s
    <2>1. /\ both \in Seq(Byte) /\ Len(both) = Lag + n
          /\ \A i \in 1..(Lag + n) : both[i] = IF i <= Lag THEN Contents[i] ELSE s[i - Lag]
      BY <1>1, <1>5, <1>6, ConcatProperties
    <2> HIDE DEF both
    <2>2. ASSUME NEW i \in 1..(Lag + n) PROVE Contents'[i] = both[i]
      <3>1. CASE i <= Lag
        BY <1>11, <2>1, <3>1
      <3>2. CASE i > Lag
        <4>1. i - Lag \in 1..n /\ Lag + (i - Lag) = i
          BY <1>1, <3>2
        <4>2. Contents'[i] = s[i - Lag]
          BY <1>12, <4>1
        <4> QED BY <1>1, <2>1, <3>2, <4>2
      <3> QED BY <1>1, <3>1, <3>2
    <2>3. Contents' = both
      BY <1>1, <1>7, <2>1, <2>2
    <2> QED BY <2>3 DEF both
  <1> QED BY <1>13 DEF s, n, d

\* What a thread still has to write, the channel's variable `pending`.
Left == [t \in Threads |-> call[t].data]

\* The bytes in the pipe change with the buffer and the counters only.
LEMMA ContentsKept ==
    ASSUME UNCHANGED pipeVars PROVE Contents' = Contents
  BY DEF Contents, Unread, Lag, pipeVars

\* An iteration of pipe_read receives from the channel, or does nothing.
LEMMA ReadImplements ==
    ASSUME TInv, TInv', NoOverrun, readers > 0, NEW t \in Threads, Read(t)
    PROVE  [Ch!CNext]_(Ch!cvars)
  <1> DEFINE n == Min({Lag, call[t].size})
  <1>1. n \in Nat /\ Lag \in Nat /\ n <= Lag /\ Lag <= Size
    BY ReadStep DEF NoOverrun
  <1>2. /\ Contents' = SubSeq(Contents, n + 1, Len(Contents))
        /\ Unread(n) = SubSeq(Contents, 1, n)
    BY ContentsRead
  <1>3. Contents \in Seq(Byte) /\ Len(Contents) = Lag
    BY ContentsSeq DEF TInv, ContentsAre
  <1>4. /\ readers' = readers
        /\ n = 0 => call' = call /\ result' = result
        /\ n # 0 => call' = [call EXCEPT ![t] = NoCall] /\ result' = Unread(n)
        /\ call[t].data = <<>>
    BY DEF Read, endVars, TInv, CallsOK
  <1>5. Left' = Left
    BY <1>4 DEF Left, NoCall, TInv, TypeOK
  <1> HIDE DEF n, Lag, Contents
  <1>6. CASE n = 0
    <2>1. Contents' = Contents
      BY <1>2, <1>3, <1>6
    <2> QED BY <1>4, <1>5, <1>6, <2>1 DEF Ch!cvars, Left
  <1>7. CASE n # 0
    <2>1. n \in 1..Size /\ n <= Len(Contents)
      BY <1>1, <1>3, <1>7, Sizes
    <2>2. Ch!Receive(n)
      BY <1>2, <1>4, <1>5, <1>7, <2>1 DEF Ch!Receive, Left
    <2> QED BY <2>1, <2>2 DEF Ch!CNext
  <1> QED BY <1>6, <1>7

\* An iteration of pipe_write sends to the channel, or does nothing.
LEMMA WriteImplements ==
    ASSUME TInv, TInv', NoOverrun, readers > 0, NEW t \in Threads, Write(t)
    PROVE  [Ch!CNext]_(Ch!cvars)
  <1> DEFINE d == call[t].data
             n == Room(Len(d))
  <1>1. /\ n \in Nat /\ Len(d) \in Nat /\ n <= Len(d) /\ Lag \in Nat /\ Lag' = Lag + n
        /\ n > 0 => Lag' <= Size
    BY WriteStep
  <1>2. Contents' = Contents \o SubSeq(d, 1, n)
    BY ContentsWrite
  <1>3. Contents \in Seq(Byte) /\ Len(Contents) = Lag
    BY ContentsSeq DEF TInv, ContentsAre
  <1>4. /\ readers' = readers /\ result' = result
        /\ n < Len(d) => call' = [call EXCEPT ![t].data = SubSeq(d, n + 1, Len(d))]
        /\ ~ (n < Len(d)) => call' = [call EXCEPT ![t] = NoCall]
    BY DEF Write, endVars
  <1>5. d \in Seq(Byte)
    <2>1. d \in Data
      BY DEF TInv, TypeOK, Calls
    <2> HIDE DEF d
    <2> QED BY <2>1, DataSeq
  <1> HIDE DEF n, Lag, Contents
  <1>6. Left' = [Left EXCEPT ![t] = SubSeq(d, n + 1, Len(d))]
    <2>1. CASE n < Len(d)
      <3>1. call' = [call EXCEPT ![t].data = SubSeq(d, n + 1, Len(d))]
        BY <1>4, <2>1
      <3> HIDE DEF d
      <3> QED BY <3>1 DEF Left, TInv, TypeOK, Calls
    <2>2. CASE ~ (n < Len(d))
      <3>1. call' = [call EXCEPT ![t] = NoCall]
        BY <1>4, <2>2
      <3>2. SubSeq(d, n + 1, Len(d)) = <<>>
        <4>1. n + 1 > Len(d) /\ n + 1 \in Int
          BY <1>1, <2>2
        <4> HIDE DEF d
        <4> QED BY <1>5, <4>1, SubSeqEmpty
      <3> QED BY <3>1, <3>2 DEF Left, NoCall, TInv, TypeOK
    <2> QED BY <2>1, <2>2
  <1>7. Left[t] = d
    BY DEF Left
  <1> HIDE DEF d
  <1>8. CASE n = 0
    <2>1. SubSeq(d, 1, n) = <<>> /\ SubSeq(d, n + 1, Len(d)) = d
      BY <1>5, <1>8
    <2>2. Contents' = Contents
      <3>1. Contents \o <<>> = Contents
        BY <1>3, ConcatEmptySeq
      <3> QED BY <1>2, <2>1, <3>1, Zenon
    <2>3. Left' = Left
      BY <1>6, <1>7, <2>1 DEF Left
    <2> QED BY <1>4, <2>2, <2>3 DEF Ch!cvars, Left
  <1>9. CASE n # 0
    <2>1. n \in 1..Size /\ n <= Len(d) /\ Len(Contents) + n <= Size
      BY <1>1, <1>3, <1>9, Sizes
    <2>2. Ch!Send(t, n)
      BY <1>2, <1>4, <1>6, <1>7, <2>1 DEF Ch!Send, Left
    <2> QED BY <2>1, <2>2, Zenon DEF Ch!CNext, Ch!Send
  <1> QED BY <1>8, <1>9

\* The other steps of a thread start, end or give up a call.
LEMMA CallImplements ==
    ASSUME TInv, readers > 0, NEW t \in Threads,
           \/ ReadEof(t) \/ Freed(t)
           \/ \E n \in ReadSizes : StartRead(t, n)
           \/ \E d \in Data : StartWrite(t, d)
    PROVE  [Ch!CNext]_(Ch!cvars)
  <1>1. Contents' = Contents /\ readers' = readers
    BY ContentsKept DEF ReadEof, Freed, StartRead, StartWrite, endVars
  <1> HIDE DEF Contents
  <1>2. CASE ReadEof(t)
    <2>1. Left' = Left
      BY <1>2 DEF ReadEof, Left, NoCall, TInv, TypeOK, CallsOK
    <2>2. Ch!End
      BY <1>1, <1>2, <2>1 DEF ReadEof, Ch!End, Left
    <2> QED BY <2>2 DEF Ch!CNext
  <1>3. CASE \E n \in ReadSizes : StartRead(t, n)
    <2>1. Left' = Left /\ result' = result
      BY <1>3 DEF StartRead, Left, NoCall, Free, TInv, TypeOK, CallsOK
    <2> QED BY <1>1, <2>1 DEF Ch!cvars, Left
  <1>4. CASE Freed(t) \/ \E d \in Data : StartWrite(t, d)
    <2>1. Left' = [Left EXCEPT ![t] = Left'[t]] /\ result' = result
      BY <1>4 DEF Freed, StartWrite, Left, TInv, TypeOK
    <2>2. Ch!Submit(t)
      BY <1>1, <2>1 DEF Ch!Submit, Left
    <2> QED BY <2>2 DEF Ch!CNext
  <1> QED BY <1>2, <1>3, <1>4

\* Every step of a pipe is a step of the channel.
LEMMA StepImplements ==
    ASSUME LateOpen = FALSE, TInv, TInv', NoOverrun, [Next]_vars
    PROVE  [Ch!CNext]_(Ch!cvars)
  <1>1. CASE readers = 0
    <2>1. readers' = 0
      BY <1>1, StaysClosed
    <2>2. (readers > 0) = FALSE /\ (readers' > 0) = FALSE
      BY <1>1, <2>1
    <2> QED BY <2>2 DEF Ch!CNext
  <1>2. CASE readers > 0
    <2>1. ASSUME OpenRead \/ OpenWrite \/ CloseRead \/ CloseWrite PROVE [Ch!CNext]_(Ch!cvars)
      <3>1. Contents' = Contents /\ call' = call /\ result' = result
        BY <2>1, ContentsKept DEF OpenRead, OpenWrite, CloseRead, CloseWrite
      <3> HIDE DEF Contents
      <3>2. readers' \in Nat
        BY DEF TInv, TypeOK
      <3>3. CASE readers' > 0
        <4>1. (readers' > 0) = (readers > 0)
          BY <1>2, <3>3
        <4> QED BY <3>1, <4>1 DEF Ch!cvars
      <3>4. CASE readers' = 0
        <4>1. (readers' > 0) = FALSE
          BY <3>4
        <4> QED BY <1>2, <4>1 DEF Ch!CNext, Ch!HangUp
      <3> QED BY <3>2, <3>3, <3>4
    <2>2. CASE UNCHANGED vars
      <3>1. Contents' = Contents /\ call' = call /\ result' = result /\ readers' = readers
        BY <2>2, ContentsKept DEF vars, endVars
      <3> HIDE DEF Contents
      <3> QED BY <3>1 DEF Ch!cvars
    <2> QED
      BY <1>2, <2>1, <2>2, ReadImplements, WriteImplements, CallImplements DEF Next, Step
  <1>3. readers \in Nat
    BY DEF TInv, TypeOK
  <1> QED BY <1>1, <1>2, <1>3

\* While somebody can read from it, a pipe of any size is a bounded first in,
\* first out channel, whoever writes in whatever pieces and however often the
\* counters wrap around: pipe_read and pipe_write lose, repeat and reorder
\* nothing.
THEOREM PipeIsChannel == ASSUME LateOpen = FALSE PROVE Spec => ImplementsChannel
  <1>1. ASSUME Init PROVE Ch!CInit /\ NoOverrun
    <2>1. Lag = 0
      BY <1>1, WrapSize, ModIs DEF Init, Lag
    <2>2. Contents = <<>>
      <3>1. Contents \in Seq(Byte) /\ Len(Contents) = 0
        BY <1>1, <2>1, InitTInv, ContentsSeq DEF TInv, ContentsAre
      <3> HIDE DEF Contents
      <3> QED BY <3>1
    <2> HIDE DEF Lag, Contents
    <2>3. NoOverrun
      BY <2>1, Sizes DEF NoOverrun
    <2>4. [t \in Threads |-> call[t].data] = [t \in Threads |-> <<>>]
      BY <1>1 DEF Init, NoCall
    <2>5. (readers > 0) = TRUE /\ result = <<>>
      BY <1>1 DEF Init
    <2> QED BY <2>2, <2>3, <2>4, <2>5 DEF Ch!CInit
  <1>2. TInv /\ TInv' /\ NoOverrun /\ [Next]_vars => [Ch!CNext]_(Ch!cvars)
    BY StepImplements
  <1> QED
    BY <1>1, <1>2, InitTInv, NextTInv, OverrunStep, PTL DEF Spec, ImplementsChannel, Ch!CSpec

=============================================================================
