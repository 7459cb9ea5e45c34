---------------------------- MODULE KernelProofs ----------------------------
(***************************************************************************)
(* Proofs about the copy of a match, for every dictionary, match and width *)
(* of the machine: whichever loops copy it, the result is that of copying  *)
(* byte after byte, and no store leaves the match.                         *)
(***************************************************************************)
EXTENDS Kernel, TLAPS

\* A distance below 2^31, which arm64's sign extension does not change.
NoSignBit == \A b \in BufSizes : 2 * b < Half

GoodMatch(m) ==
  /\ m.dicBufSize \in BufSizes
  /\ m.start \in Nat /\ m.limit \in Nat /\ m.rep0 \in Nat /\ m.len \in Nat
  /\ m.start < m.limit /\ m.limit <= m.dicBufSize
  /\ 1 <= m.rep0 /\ m.rep0 <= m.dicBufSize /\ 1 <= m.len

----------------------------------------------------------------------------
(* Arithmetic. *)

\* Division with remainder.
LEMMA DivMod ==
  ASSUME NEW x \in Int, NEW m \in Nat, m > 0
  PROVE  /\ x \div m \in Int /\ x % m \in 0 .. m - 1
         /\ x = m * (x \div m) + (x % m)
  BY SMT

LEMMA DivUnique ==
  ASSUME NEW x \in Int, NEW m \in Nat, m > 0,
         NEW d \in Int, NEW k \in 0 .. m - 1, x = m * d + k
  PROVE  x \div m = d /\ x % m = k
  BY SMTT(30)

\* Remainders within a turn of zero.
LEMMA Turn ==
  ASSUME NEW m \in Nat, m > 0, NEW x \in Int
  PROVE  /\ 0 <= x /\ x < m => x % m = x
         /\ m <= x /\ x < 2 * m => x % m = x - m
         /\ 0 - m <= x /\ x < 0 => x % m = x + m
  <1>1. ASSUME 0 <= x, x < m PROVE x % m = x
    <2>1. x = m * 0 + x /\ x \in 0 .. m - 1
      BY <1>1
    <2> QED
      BY <2>1, DivUnique
  <1>2. ASSUME m <= x, x < 2 * m PROVE x % m = x - m
    <2>1. x = m * 1 + (x - m) /\ x - m \in 0 .. m - 1
      BY <1>2
    <2> QED
      BY <2>1, DivUnique
  <1>3. ASSUME 0 - m <= x, x < 0 PROVE x % m = x + m
    <2>1. x = m * (0 - 1) + (x + m) /\ x + m \in 0 .. m - 1 /\ 0 - 1 \in Int
      BY <1>3
    <2> QED
      BY <2>1, DivUnique
  <1> QED
    BY <1>1, <1>2, <1>3

\* A multiple of m that is less than m is 0.
LEMMA Multiple ==
  ASSUME NEW m \in Nat, m > 0, NEW x \in Nat, x % m = 0, x > 0
  PROVE  x >= m
  BY Turn

LEMMA Periodic ==
  ASSUME NEW r \in Nat, r > 0, NEW i \in Nat, i >= r
  PROVE  (i - r) % r = i % r
  <1>1. i - r \in Int
    OBVIOUS
  <1>2. PICK d \in Int, k \in 0 .. r - 1 : i - r = r * d + k /\ k = (i - r) % r
    BY <1>1, DivMod
  <1>3. r * (d + 1) = r * d + r
    OBVIOUS
  <1>4. i = r * (d + 1) + k /\ d + 1 \in Int
    BY <1>2, <1>3
  <1>5. i % r = k
    BY <1>4, DivUnique
  <1> QED
    BY <1>2, <1>5

LEMMA Sizes ==
  /\ Full \in Nat /\ Half \in Nat /\ Half > 0 /\ Full >= 2 * Half /\ Full > 0
  /\ Full % 4 = 0 /\ Dic \in Nat /\ Wide \in Nat /\ Wide > 0
  /\ \A b \in BufSizes : b \in Nat /\ 0 < b /\ Dic + b < Full /\ 2 * b < Full /\ b < Half
  <1>1. Full \in Nat /\ Half \in Nat /\ Half > 1 /\ Full > Half /\ Full % Half = 0
    BY MachineAssumption
  <1>2. Full >= 2 * Half
    <2>1. Full - Half \in Nat /\ Full - Half > 0
      BY <1>1
    <2>2. Full = Half * (Full \div Half) + 0 /\ Full \div Half \in Int
      BY <1>1, DivMod
    <2>3. PICK d \in Int : d = Full \div Half
      BY <2>2
    <2>4. Full - Half = Half * (d - 1) + 0 /\ d - 1 \in Int /\ 0 \in 0 .. Half - 1
      BY <1>1, <2>2, <2>3
    <2>5. (Full - Half) % Half = 0
      BY <1>1, <2>1, <2>4, DivUnique
    <2>6. Full - Half >= Half
      BY <1>1, <2>1, <2>5, Multiple
    <2> QED
      BY <1>1, <2>6
  <1>3. Full % 4 = 0 /\ Dic \in Nat /\ Wide \in Nat /\ Wide > 0
        /\ \A b \in BufSizes : b \in Nat \ {0} /\ Dic + b < Full /\ b < Half
    BY CopyAssumption
  <1> QED
    BY <1>1, <1>2, <1>3

LEMMA PlusFits ==
  ASSUME NEW x \in Int, NEW y \in Int, 0 <= x + y, x + y < Full
  PROVE  Plus(x, y) = x + y
  BY Sizes, Turn DEF Plus

LEMMA PlusWraps ==
  ASSUME NEW x \in Int, NEW y \in Int, Full <= x + y, x + y < 2 * Full
  PROVE  Plus(x, y) = x + y - Full
  BY Sizes, Turn DEF Plus

LEMMA MinusFits ==
  ASSUME NEW x \in Int, NEW y \in Int, 0 <= x - y, x - y < Full
  PROVE  Minus(x, y) = x - y
  BY Sizes, Turn DEF Minus

LEMMA MinusWraps ==
  ASSUME NEW x \in Int, NEW y \in Int, 0 - Full <= x - y, x - y < 0
  PROVE  Minus(x, y) = x - y + Full
  BY Sizes, Turn DEF Minus

----------------------------------------------------------------------------
(* What a match means. *)

LEMMA MatchFacts ==
  ASSUME NEW m, GoodMatch(m)
  PROVE  /\ m.dicBufSize \in Nat /\ m.start \in Nat /\ m.rep0 \in Nat /\ Count(m) \in Nat
         /\ 1 <= Count(m) /\ m.start + Count(m) <= m.dicBufSize
         /\ m.start < m.dicBufSize /\ 1 <= m.rep0 /\ m.rep0 <= m.dicBufSize
         /\ 2 * m.dicBufSize < Full /\ Dic + m.dicBufSize < Full /\ m.dicBufSize < Half
         /\ Dic \in Nat /\ Full \in Nat
  BY Sizes DEF GoodMatch, Count, Room

LEMMA SourceFacts ==
  ASSUME NEW m, GoodMatch(m), NEW i \in Nat, i < Count(m)
  PROVE  /\ Source(m, i) = IF m.rep0 <= m.start + i THEN m.start + i - m.rep0
                           ELSE m.start + i - m.rep0 + m.dicBufSize
         /\ Source(m, i) \in Nat /\ Source(m, i) < m.dicBufSize
  <1> DEFINE b == m.dicBufSize
             x == m.start + i - m.rep0
  <1>1. b \in Nat /\ b > 0 /\ x \in Int /\ 0 - b <= x /\ x < b
    BY MatchFacts
  <1>2. x % b = IF 0 <= x THEN x ELSE x + b
    BY <1>1, Turn
  <1>3. Source(m, i) = x % b
    BY DEF Source
  <1> QED
    BY <1>1, <1>2, <1>3, MatchFacts

\* The next byte comes from the next slot, around the end of the dictionary.
LEMMA SourceNext ==
  ASSUME NEW m, GoodMatch(m), NEW i \in Nat, i + 1 < Count(m)
  PROVE  /\ Source(m, i) + 1 < m.dicBufSize => Source(m, i + 1) = Source(m, i) + 1
         /\ Source(m, i) + 1 = m.dicBufSize => Source(m, i + 1) = 0
  BY SourceFacts, MatchFacts

\* The recursion of Bytewise has a solution: the bytes from rep0 behind, over
\* and over.
LEMMA ByteAfterByte ==
  ASSUME NEW m, GoodMatch(m)
  PROVE  \A i \in 0 .. Count(m) - 1 :
           Bytewise(m)[i] = IF Source(m, i) >= m.start /\ Source(m, i) < m.start + i
                            THEN Bytewise(m)[Source(m, i) - m.start] ELSE Source(m, i)
  <1> DEFINE L == Count(m)
             P(g) == g = [i \in 0 .. L - 1 |->
                            LET s == Source(m, i) IN
                            IF s >= m.start /\ s < m.start + i THEN g[s - m.start] ELSE s]
             r == m.rep0
             f == [i \in 0 .. L - 1 |-> Source(m, i % r)]
  <1>1. P(f)
    <2>1. ASSUME NEW i \in 0 .. L - 1
          PROVE  Source(m, i % r) =
                   LET s == Source(m, i) IN
                   IF s >= m.start /\ s < m.start + i THEN f[s - m.start] ELSE s
      <3>1. i \in Nat /\ i < L /\ L \in Nat /\ r \in Nat /\ r > 0 /\ m.start \in Nat
        BY MatchFacts
      <3>2. CASE i < r
        <4>1. i % r = i
          BY <3>1, <3>2, Turn
        <4>2. ~(Source(m, i) >= m.start /\ Source(m, i) < m.start + i)
          BY <3>1, <3>2, SourceFacts, MatchFacts
        <4> QED
          BY <4>1, <4>2
      <3>3. CASE i >= r
        <4>1. PICK j \in Nat : j = i - r
          BY <3>1, <3>3
        <4>2. j % r = i % r
          BY <3>1, <3>3, <4>1, Periodic
        <4>3. Source(m, i) = m.start + j /\ j < i /\ j \in 0 .. L - 1
          BY <3>1, <3>3, <4>1, SourceFacts
        <4>4. Source(m, i) - m.start = j /\ f[j] = Source(m, j % r)
          BY <3>1, <4>3
        <4> QED
          BY <3>1, <4>2, <4>3, <4>4
      <3> QED
        BY <3>1, <3>2, <3>3
    <2> QED
      BY <2>1
  <1>2. Bytewise(m) = CHOOSE g : P(g)
    BY DEF Bytewise
  <1> HIDE DEF P
  <1>3. P(CHOOSE g : P(g))
    BY <1>1
  <1>4. P(Bytewise(m))
    BY <1>2, <1>3
  <1> QED
    BY <1>4 DEF P

\* The address of byte i, and of the byte it is copied from.
Slot(m, i) == Dic + m.start + i
From(m, i) == Dic + Source(m, i)

\* A byte whose source is not among the next ones to be written is there.
LEMMA ByteAhead ==
  ASSUME NEW m, GoodMatch(m), NEW n \in Nat, NEW j \in Nat,
         n + j < Count(m), j < m.rep0
  PROVE  Copied(m, n)[From(m, n + j)] = Bytewise(m)[n + j]
  <1>1. PICK q \in Nat : q = Source(m, n + j)
    BY SourceFacts
  <1>2. PICK b \in Nat, s \in Nat, r \in Nat, L \in Nat :
          b = m.dicBufSize /\ s = m.start /\ r = m.rep0 /\ L = Count(m)
    BY MatchFacts
  <1>3. /\ q = IF r <= s + n + j THEN s + n + j - r ELSE s + n + j - r + b
        /\ q < b /\ r <= b /\ s + L <= b
    BY <1>1, <1>2, SourceFacts, MatchFacts
  <1>4. Bytewise(m)[n + j] = IF q >= s /\ q < s + n + j THEN Bytewise(m)[q - s] ELSE q
    BY <1>1, <1>2, ByteAfterByte
  <1>5. Copied(m, n)[Dic + q] = IF q - s \in 0 .. n - 1 THEN Bytewise(m)[q - s] ELSE q
    <2>1. Dic + q \in Dic .. Dic + b - 1 /\ (Dic + q) - Dic - s = q - s
          /\ (Dic + q) - Dic = q
      BY <1>2, <1>3, MatchFacts
    <2> QED
      BY <1>2, <2>1 DEF Copied
  <1>6. q - s \in 0 .. n - 1 <=> (q >= s /\ q < s + n + j)
    BY <1>2, <1>3
  <1> QED
    BY <1>1, <1>4, <1>5, <1>6 DEF From

LEMMA Period ==
  ASSUME NEW m, GoodMatch(m), NEW i \in Nat, i + m.rep0 < Count(m)
  PROVE  Bytewise(m)[i + m.rep0] = Bytewise(m)[i]
  <1>1. PICK k \in Nat : k = i + m.rep0
    BY MatchFacts
  <1>2. Source(m, k) = m.start + i
    BY <1>1, SourceFacts, MatchFacts
  <1>3. Source(m, k) >= m.start /\ Source(m, k) < m.start + k /\ Source(m, k) - m.start = i
    BY <1>1, <1>2, MatchFacts
  <1>4. k \in 0 .. Count(m) - 1
    BY <1>1, MatchFacts
  <1> QED
    BY <1>1, <1>3, <1>4, ByteAfterByte

\* What is in a slot that was written.
LEMMA Written ==
  ASSUME NEW m, GoodMatch(m), NEW n \in Nat, NEW i \in Nat, i < n, n <= Count(m)
  PROVE  Copied(m, n)[Slot(m, i)] = Bytewise(m)[i]
  <1>1. PICK a \in Nat : a = Slot(m, i)
    BY MatchFacts DEF Slot
  <1>2. a \in Dic .. Dic + m.dicBufSize - 1 /\ a - Dic - m.start = i /\ i \in 0 .. n - 1
    BY <1>1, MatchFacts DEF Slot
  <1> QED
    BY <1>1, <1>2 DEF Copied

LEMMA Loaded ==
  ASSUME NEW m, GoodMatch(m), NEW n, NEW a \in Nat, NEW k \in Nat,
         Dic <= a, a + k <= Dic + m.dicBufSize
  PROVE  Load(Copied(m, n), a, k, Wild) = [i \in 1 .. k |-> Copied(m, n)[a + i - 1]]
  <1>1. DOMAIN Copied(m, n) = Dic .. Dic + m.dicBufSize - 1
    BY DEF Copied
  <1>2. ASSUME NEW i \in 1 .. k
        PROVE  Plus(a, i - 1) = a + i - 1 /\ a + i - 1 \in DOMAIN Copied(m, n)
    <2>1. i - 1 \in Int /\ 0 <= a + (i - 1) /\ a + (i - 1) < Full
      BY MatchFacts
    <2>2. Plus(a, i - 1) = a + (i - 1)
      BY <2>1, PlusFits
    <2> QED
      BY <1>1, <2>1, <2>2, MatchFacts
  <1> QED
    BY <1>2 DEF Load

\* The next k bytes of a match from byte p.
Right(m, p, k, bytes) ==
  Len(bytes) = k /\ \A j \in 1 .. k : bytes[j] = Bytewise(m)[p + j - 1]

\* A store of the right bytes over the next slots, and maybe some before them.
LEMMA Stored ==
  ASSUME NEW m, GoodMatch(m), NEW n \in Nat, NEW p \in Nat, NEW k \in Nat, NEW bytes,
         k > 0, p <= n, n <= p + k, p + k <= Count(m), Right(m, p, k, bytes)
  PROVE  Store(Copied(m, n), Slot(m, p), bytes) = Copied(m, p + k)
  <1>1. PICK b \in Nat, s \in Nat, L \in Nat :
          /\ b = m.dicBufSize /\ s = m.start /\ L = Count(m)
          /\ s + L <= b /\ 2 * b < Full /\ Dic + b < Full
    BY MatchFacts
  <1> DEFINE A == Dic .. Dic + b - 1
             Old(x) == IF x - Dic - s \in 0 .. n - 1
                       THEN Bytewise(m)[x - Dic - s] ELSE x - Dic
             New(x) == IF x - Dic - s \in 0 .. p + k - 1
                       THEN Bytewise(m)[x - Dic - s] ELSE x - Dic
  <1>2. Copied(m, n) = [x \in A |-> Old(x)] /\ Copied(m, p + k) = [x \in A |-> New(x)]
    BY <1>1 DEF Copied
  <1>3. ASSUME NEW x \in A, NEW i, i = Minus(x, Dic + s + p) + 1
        PROVE  (IF i <= k THEN bytes[i] ELSE Old(x)) = New(x)
    <2>1. x \in Int /\ Dic <= x /\ x < Dic + b /\ s + p + k <= b
      BY <1>1, MatchFacts
    <2>2. PICK o \in Int, y \in Int : o = x - Dic - s /\ y = o - p
      <3>1. x - Dic - s \in Int /\ x - Dic - s - p \in Int
        BY <2>1, Sizes
      <3> QED
        BY <3>1
    <2>3. /\ i <= k => i \in 1 .. k /\ p + i - 1 = o /\ o \in 0 .. p + k - 1
          /\ ~(i <= k) => (o \in 0 .. p + k - 1 <=> o \in 0 .. n - 1)
      <3>1. /\ Dic \in Nat /\ Full \in Nat /\ 0 - b < y /\ y < b
            /\ x - (Dic + s + p) = y /\ Dic + s + p \in Int
        BY <1>1, <2>1, <2>2, MatchFacts
      <3>2. CASE 0 <= y
        <4>1. Minus(x, Dic + s + p) = y
          BY <1>1, <2>1, <3>1, <3>2, MinusFits
        <4> QED
          BY <1>3, <2>2, <3>1, <3>2, <4>1
      <3>3. CASE y < 0
        <4>0. 0 - Full <= x - (Dic + s + p) /\ x - (Dic + s + p) < 0
          BY <1>1, <2>1, <3>1, <3>3
        <4>1. Minus(x, Dic + s + p) = y + Full
          BY <4>0, <1>1, <2>1, <3>1, <3>3, MinusWraps
        <4>2. ~(i <= k)
          BY <1>1, <1>3, <2>1, <3>1, <4>1
        <4> QED
          BY <2>2, <3>3, <4>2
      <3> QED
        BY <3>2, <3>3
    <2>4. CASE i <= k
      <3>1. bytes[i] = Bytewise(m)[o]
        BY <2>3, <2>4 DEF Right
      <3> QED
        BY <2>2, <2>3, <2>4, <3>1
    <2>5. CASE ~(i <= k)
      BY <2>2, <2>3, <2>5
    <2> QED
      BY <2>4, <2>5
  <1> HIDE DEF Old, New
  <1>4. DOMAIN Copied(m, n) = A /\ \A x \in A : Copied(m, n)[x] = Old(x)
    BY <1>2
  <1>5. Store(Copied(m, n), Slot(m, p), bytes)
          = [x \in A |-> IF Minus(x, Slot(m, p)) + 1 <= k
                         THEN bytes[Minus(x, Slot(m, p)) + 1] ELSE Old(x)]
    BY <1>4 DEF Store, Right
  <1>6. Slot(m, p) = Dic + s + p
    BY <1>1 DEF Slot
  <1> QED
    BY <1>2, <1>3, <1>5, <1>6

LEMMA SourceRun ==
  ASSUME NEW m, GoodMatch(m), NEW n \in Nat, NEW i \in Nat,
         n + i < Count(m), Source(m, n) + i < m.dicBufSize
  PROVE  Source(m, n + i) = Source(m, n) + i
  BY SourceFacts, MatchFacts

----------------------------------------------------------------------------
(* The invariant: after n bytes, what each loop has in its registers. *)

Slots(m) == {Slot(m, i) : i \in 0 .. Count(m) - 1}

IsRegs ==
  reg = [t0 |-> reg.t0, cnt |-> reg.cnt, dicPos |-> reg.dicPos, rep0 |-> reg.rep0,
         dst |-> reg.dst, left |-> reg.left, sym |-> reg.sym]

\* k bytes are left to a count that runs up to zero.
Left(k) == reg.cnt = Full - k

\* The source does not reach the end of the dictionary any more.
Straight(m, n) == Source(m, n) + (Count(m) - n) <= m.dicBufSize

AtWide(m, n) ==
  /\ pc = "copy_wide_loop" /\ n < Count(m) /\ Straight(m, n) /\ m.rep0 >= Count(m)
  /\ reg.t0 = From(m, n) /\ reg.dst = Slot(m, n) /\ reg.cnt = Count(m)
  /\ reg.dicPos = Slot(m, Count(m))
  /\ reg.left \in Nat /\ reg.left > 0 /\ reg.left % Wide = 0
  /\ n + reg.left = Count(m) - (Count(m) % Wide)

AtTail(m, n) ==
  /\ pc = "copy_wide_tail" /\ n < Count(m) /\ Straight(m, n) /\ m.rep0 >= Count(m)
  /\ reg.t0 = From(m, n) /\ reg.dst = Slot(m, n) /\ reg.left = Count(m) - n
  /\ reg.dicPos = Slot(m, Count(m))

AtDone(m, n) ==
  /\ pc = "copy_wide_done" /\ n = Count(m)
  /\ reg.dst = Slot(m, n) /\ reg.dicPos = Slot(m, n)

AtCross(m, n) ==
  /\ pc = "copy_cross_loop" /\ n < Count(m) /\ n + (m.dicBufSize - Source(m, n)) < Count(m)
  /\ reg.t0 = Source(m, n) /\ Left(Count(m) - n) /\ reg.dicPos = Slot(m, Count(m))
  /\ reg.rep0 = m.rep0

AtNoWrap(m, n) ==
  /\ pc = "copy_no_wrap_byte" /\ n = 0 /\ Straight(m, n)
  /\ reg.t0 = From(m, n) /\ reg.cnt = Count(m) /\ reg.dicPos = Slot(m, Count(m))
  /\ reg.rep0 = m.rep0

\* From here on, t0 is where the source ends.
AtCommon(m, n) ==
  /\ pc = "copy_common" /\ n < Count(m) /\ Straight(m, n)
  /\ reg.t0 = From(m, n) + (Count(m) - n) /\ Left(Count(m) - n)
  /\ reg.dicPos = Slot(m, Count(m)) /\ reg.rep0 = m.rep0 /\ reg.sym = Bytewise(m)[n]

\* The byte loops keep the last byte for the end, and the next one in sym.
Looping(m, n) ==
  /\ n + 1 < Count(m) /\ Straight(m, n) /\ Left(Count(m) - n - 1)
  /\ reg.dicPos = Slot(m, Count(m) - 1)

AtBytes(m, n) ==
  /\ pc = "copy_byte_loop" /\ Looping(m, n)
  /\ reg.t0 = From(m, n) + (Count(m) - n) /\ reg.sym = Bytewise(m)[n]

AtFlush(m, n) ==
  /\ pc = "copy_flush" /\ Looping(m, n) /\ m.rep0 >= 4 /\ n + 5 <= Count(m)
  /\ reg.t0 = From(m, n) + (Count(m) - n) /\ reg.sym = Bytewise(m)[n]

AtWords(m, n) ==
  /\ pc \in {"copy_word_align", "copy_word_loop"} /\ Looping(m, n) /\ m.rep0 >= 4
  /\ reg.t0 = From(m, n) + (Count(m) - n - 1)
  /\ pc = "copy_word_loop" => (Count(m) - n - 1) % 4 = 0

AtFill(m, n) ==
  /\ pc = "copy_match_0" /\ Looping(m, n) /\ m.rep0 = 1
  /\ reg.left \in 1 .. 3 /\ n + reg.left >= 3 /\ reg.sym = Bytewise(m)[n]

\* Rounded up, the words begin over bytes that are there already.
AtFillWords(m, n) ==
  /\ pc = "copy_match_0_small" /\ m.rep0 = 1 /\ reg.dicPos = Slot(m, Count(m) - 1)
  /\ \E p \in Nat :
       /\ p <= n /\ n < p + 4 /\ p + 1 < Count(m) /\ (Count(m) - p - 1) % 4 = 0
       /\ Left(Count(m) - p - 1) /\ reg.sym = Bytewise(m)[p]

AtEnd(m, n) ==
  /\ pc = "copy_end" /\ n + 1 = Count(m)
  /\ reg.dicPos = Slot(m, n) /\ reg.sym = Bytewise(m)[n]

\* decodeLoop counts up.
Counting(m, n) ==
  /\ arch = "go" /\ n < Count(m)
  /\ reg.cnt = n /\ reg.left = Count(m) - n /\ reg.dicPos = Slot(m, 0)

AtSeed(m, n) ==
  /\ pc = "go_seed" /\ Counting(m, n) /\ n = 0 /\ Straight(m, n) /\ reg.t0 = From(m, n)
  /\ reg.rep0 = m.rep0

\* What is there is repeated by what follows.
AtDouble(m, n) ==
  /\ pc = "go_double" /\ Counting(m, n) /\ n > 0
  /\ \A i \in Nat : i + n < Count(m) => Bytewise(m)[i + n] = Bytewise(m)[i]

AtGoByte(m, n) == pc = "go_byte" /\ Counting(m, n) /\ reg.t0 = From(m, n)

AtCopied(m, n) ==
  /\ pc = "copied" /\ n = Count(m) /\ reg.dicPos = Slot(m, n)
  /\ arch # "go" => reg.sym = Bytewise(m)[n - 1]

Place(m, n) ==
  \/ AtWide(m, n) \/ AtTail(m, n) \/ AtDone(m, n) \/ AtCross(m, n) \/ AtNoWrap(m, n)
  \/ AtCommon(m, n) \/ AtBytes(m, n) \/ AtFlush(m, n) \/ AtWords(m, n) \/ AtFill(m, n)
  \/ AtFillWords(m, n) \/ AtEnd(m, n) \/ AtSeed(m, n) \/ AtDouble(m, n)
  \/ AtGoByte(m, n) \/ AtCopied(m, n)

\* The state of a copy after n bytes, wherever it is.
Has(m, n) ==
  /\ GoodMatch(m) /\ n \in Nat /\ n <= Count(m)
  /\ match = m /\ mem = Copied(m, n) /\ touched \subseteq Slots(m) /\ IsRegs

Underway == \E m, n : Has(m, n) /\ Place(m, n)

CopyPcs ==
  {"copy_wide_loop", "copy_wide_tail", "copy_wide_done", "copy_cross_loop", "copy_no_wrap_byte",
   "copy_common", "copy_byte_loop", "copy_flush", "copy_word_align", "copy_word_loop",
   "copy_match_0", "copy_match_0_small", "copy_end", "go_seed", "go_double", "go_byte", "copied"}

Idle == pc \notin CopyPcs /\ NoCopy /\ (pc = "decodeLoop" <=> arch = "go")

\* arm64 needs it that no distance has the sign bit of its 32 bit load.
CopyInv ==
  /\ arch \in {"amd64", "arm64", "go"}
  /\ NoSignBit \/ arch # "arm64" => Idle \/ Underway

----------------------------------------------------------------------------
(* Loads and stores of a copy under way. *)

\* A store of the next bytes of the match.
LEMMA Puts ==
  ASSUME NEW m, NEW n, Has(m, n), NEW p \in Nat, NEW k \in Nat, NEW bytes,
         k > 0, p <= n, n <= p + k, p + k <= Count(m), Right(m, p, k, bytes),
         Put(Slot(m, p), bytes)
  PROVE  mem' = Copied(m, p + k) /\ touched' \subseteq Slots(m)
  <1>1. GoodMatch(m) /\ n \in Nat /\ mem = Copied(m, n) /\ touched \subseteq Slots(m)
    BY DEF Has
  <1>2. mem' = Copied(m, p + k)
    BY <1>1, Stored DEF Put
  <1>3. ASSUME NEW i \in 0 .. k - 1
        PROVE  Plus(Slot(m, p), i) \in Slots(m)
    <2>1. PICK q \in Nat : q = p + i
      OBVIOUS
    <2>2. q \in 0 .. Count(m) - 1 /\ Slot(m, p) + i = Slot(m, q)
      BY <1>1, <2>1, MatchFacts DEF Slot
    <2>3. Slot(m, p) \in Int /\ 0 <= Slot(m, p) + i /\ Slot(m, p) + i < Full
      BY <1>1, MatchFacts DEF Slot
    <2>4. Plus(Slot(m, p), i) = Slot(m, q)
      BY <2>2, <2>3, PlusFits
    <2> QED
      BY <2>2, <2>4 DEF Slots
  <1>4. touched' \subseteq Slots(m)
    <2>1. touched' = touched \union {Plus(Slot(m, p), i) : i \in 0 .. k - 1}
      BY DEF Put, Right
    <2> QED
      BY <1>1, <1>3, <2>1
  <1> QED
    BY <1>2, <1>4

\* What is loaded from the source of byte n, while it is ahead.
LEMMA RunLoaded ==
  ASSUME NEW m, GoodMatch(m), NEW n \in Nat, NEW k \in Nat, k > 0,
         n + k <= Count(m), k <= m.rep0, Source(m, n) + k <= m.dicBufSize
  PROVE  Right(m, n, k, Load(Copied(m, n), From(m, n), k, Wild))
  <1>1. n < Count(m)
    BY MatchFacts
  <1>2. PICK a \in Nat : a = From(m, n) /\ Dic <= a /\ a + k <= Dic + m.dicBufSize
    BY <1>1, SourceFacts, MatchFacts DEF From
  <1>3. Load(Copied(m, n), a, k, Wild) = [i \in 1 .. k |-> Copied(m, n)[a + i - 1]]
    BY <1>2, Loaded
  <1>4. ASSUME NEW i \in 1 .. k
        PROVE  Copied(m, n)[a + i - 1] = Bytewise(m)[n + i - 1]
    <2>1. PICK j \in Nat : i = j + 1 /\ j < k
      <3>1. i - 1 \in Nat
        OBVIOUS
      <3> QED
        BY <3>1
    <2>2. Source(m, n + j) = Source(m, n) + j
      <3>1. n + j < Count(m) /\ Source(m, n) + j < m.dicBufSize
        BY <1>1, <2>1, SourceFacts, MatchFacts
      <3> QED
        BY <3>1, SourceRun
    <2>3. a + i - 1 = From(m, n + j) /\ n + i - 1 = n + j
      BY <1>1, <1>2, <2>1, <2>2, SourceFacts, MatchFacts DEF From
    <2>4. n + j < Count(m) /\ j < m.rep0
      BY <2>1, MatchFacts
    <2>5. Copied(m, n)[From(m, n + j)] = Bytewise(m)[n + j]
      BY <2>1, <2>4, ByteAhead
    <2> QED
      BY <2>3, <2>5
  <1>5. ASSUME NEW f, f = [i \in 1 .. k |-> Copied(m, n)[a + i - 1]]
        PROVE  Len(f) = k /\ \A i \in 1 .. k : f[i] = Bytewise(m)[n + i - 1]
    <2>1. Len(f) = k
      BY <1>5
    <2>2. ASSUME NEW i \in 1 .. k PROVE f[i] = Copied(m, n)[a + i - 1]
      BY <1>5
    <2> QED
      BY <1>4, <2>1, <2>2
  <1> QED
    BY <1>2, <1>3, <1>5 DEF Right

LEMMA OneRight ==
  ASSUME NEW m, NEW n \in Nat, NEW b, b = Bytewise(m)[n]
  PROVE  Right(m, n, 1, <<b>>)
  <1>1. ASSUME NEW i \in 1 .. 1 PROVE n + i - 1 = n /\ i = 1
    OBVIOUS
  <1> QED
    BY <1>1 DEF Right

LEMMA NextLoaded ==
  ASSUME NEW m, GoodMatch(m), NEW n \in Nat, n < Count(m)
  PROVE  Load(Copied(m, n), From(m, n), 1, Wild)[1] = Bytewise(m)[n]
  <1>1. n + 1 <= Count(m) /\ 1 <= m.rep0 /\ Source(m, n) + 1 <= m.dicBufSize
    BY SourceFacts, MatchFacts
  <1>2. Right(m, n, 1, Load(Copied(m, n), From(m, n), 1, Wild))
    BY <1>1, RunLoaded
  <1>3. 1 \in 1 .. 1 /\ n + 1 - 1 = n
    OBVIOUS
  <1> QED
    BY <1>2, <1>3 DEF Right

LEMMA NextByte ==
  ASSUME NEW m, NEW n, Has(m, n), n < Count(m)
  PROVE  Byte(From(m, n)) = Bytewise(m)[n]
  BY NextLoaded DEF Has, Byte

LEMMA LastByte ==
  ASSUME NEW m, NEW n, Has(m, n), n > 0
  PROVE  Byte(Slot(m, n - 1)) = Bytewise(m)[n - 1]
  <1>1. GoodMatch(m) /\ n \in Nat /\ mem = Copied(m, n) /\ n <= Count(m)
    BY DEF Has
  <1>2. PICK i \in Nat : i = n - 1
    BY <1>1
  <1>3. PICK a \in Nat : a = Slot(m, i) /\ Dic <= a /\ a + 1 <= Dic + m.dicBufSize
    BY <1>1, <1>2, MatchFacts DEF Slot
  <1>4. PICK k \in Nat : k = 1
    OBVIOUS
  <1>5. Load(mem, a, k, Wild)[1] = mem[a]
    <2>1. a + k <= Dic + m.dicBufSize
      BY <1>3, <1>4
    <2>2. Load(mem, a, k, Wild) = [j \in 1 .. k |-> mem[a + j - 1]]
      BY <1>1, <1>3, <2>1, Loaded
    <2>3. 1 \in 1 .. k /\ a + 1 - 1 = a
      BY <1>4
    <2> QED
      BY <2>2, <2>3
  <1>6. mem[a] = Bytewise(m)[i]
    BY <1>1, <1>2, <1>3, Written
  <1> QED
    BY <1>2, <1>3, <1>4, <1>5, <1>6 DEF Byte

\* A count that runs up to zero.
LEMMA Back ==
  ASSUME NEW x \in Nat, NEW k \in Nat, 0 < k, k <= x, x < Full
  PROVE  Plus(x, Full - k) = x - k
  <1>1. Full - k \in Int /\ Full <= x + (Full - k) /\ x + (Full - k) < 2 * Full
    BY Sizes
  <1>2. Plus(x, Full - k) = x + (Full - k) - Full
    BY <1>1, PlusWraps
  <1> QED
    BY <1>2, Sizes

LEMMA CountUp ==
  ASSUME NEW k \in Nat, NEW j \in Nat, k < Full, 0 < j, j <= k
  PROVE  /\ j < k => Plus(Full - k, j) = Full - (k - j) /\ Plus(Full - k, j) # 0
         /\ j = k => Plus(Full - k, j) = 0
  <1>1. Full - k \in Int /\ Full \in Nat /\ Full > 0
    BY Sizes
  <1>2. ASSUME j < k PROVE Plus(Full - k, j) = Full - (k - j)
    <2>1. 0 <= (Full - k) + j /\ (Full - k) + j < Full
      BY <1>1, <1>2
    <2>2. Plus(Full - k, j) = (Full - k) + j
      BY <1>1, <2>1, PlusFits
    <2> QED
      BY <1>1, <2>2
  <1>3. ASSUME j = k PROVE Plus(Full - k, j) = 0
    <2>1. Full <= (Full - k) + j /\ (Full - k) + j < 2 * Full
      BY <1>1, <1>3
    <2>2. Plus(Full - k, j) = (Full - k) + j - Full
      BY <1>1, <2>1, PlusWraps
    <2> QED
      BY <1>1, <1>3, <2>2
  <1> QED
    BY <1>1, <1>2, <1>3

\* Addresses of the dictionary are added up without a carry.
LEMMA Address ==
  ASSUME NEW x \in Nat, NEW k \in Nat, x + k < Full
  PROVE  Plus(x, k) = x + k
  BY PlusFits

LEMMA Places ==
  ASSUME NEW m, GoodMatch(m), NEW n \in Nat, n <= Count(m)
  PROVE  /\ Slot(m, n) \in Nat /\ Slot(m, n) < Full /\ Slot(m, n) = Dic + m.start + n
         /\ n < Count(m) => From(m, n) \in Nat /\ From(m, n) < Dic + m.dicBufSize
                            /\ From(m, n) >= Dic
         /\ \A k \in Nat : n + k <= Count(m) => Slot(m, n) + k = Slot(m, n + k)
         /\ \A k \in Nat : n + k < Count(m) /\ Source(m, n) + k < m.dicBufSize
                             => From(m, n) + k = From(m, n + k)
  <1>1. n < Count(m) => Source(m, n) \in Nat /\ Source(m, n) < m.dicBufSize
    BY SourceFacts
  <1>2. \A k \in Nat : n + k < Count(m) /\ Source(m, n) + k < m.dicBufSize
                         => From(m, n) + k = From(m, n + k)
    <2> TAKE k \in Nat
    <2> HAVE n + k < Count(m) /\ Source(m, n) + k < m.dicBufSize
    <2>1. Source(m, n + k) = Source(m, n) + k
      BY SourceRun
    <2>2. n < Count(m) /\ Dic \in Nat
      BY MatchFacts
    <2> QED
      BY <1>1, <2>1, <2>2 DEF From
  <1>3. \A k \in Nat : n + k <= Count(m) => Slot(m, n) + k = Slot(m, n + k)
    BY MatchFacts DEF Slot
  <1>4. n < Count(m) => From(m, n) \in Nat /\ From(m, n) < Dic + m.dicBufSize
                        /\ From(m, n) >= Dic
    BY <1>1, MatchFacts DEF From
  <1>5. Slot(m, n) \in Nat /\ Slot(m, n) < Full /\ Slot(m, n) = Dic + m.start + n
    BY MatchFacts DEF Slot
  <1> QED
    BY <1>2, <1>3, <1>4, <1>5

\* What a step of the copy has to show.
LEMMA Arrive ==
  ASSUME NEW m, NEW n, Has(m, n), NEW k \in Nat, k <= Count(m),
         match' = match, mem' = Copied(m, k), touched' \subseteq Slots(m), IsRegs', Place(m, k)'
  PROVE  Underway'
  <1>1. Has(m, k)'
    BY DEF Has
  <1> QED
    BY <1>1 DEF Underway

----------------------------------------------------------------------------
(* The steps of the copy, one lemma for each loop. *)

LEMMA TailTurn ==
  ASSUME NEW m, NEW n, Has(m, n), AtTail(m, n), WideTail
  PROVE  Underway'
  <1>1. /\ GoodMatch(m) /\ n \in Nat /\ match = m /\ IsRegs /\ n < Count(m) /\ Count(m) \in Nat
        /\ Straight(m, n) /\ reg.t0 = From(m, n) /\ reg.dst = Slot(m, n)
        /\ reg.left = Count(m) - n /\ reg.dicPos = Slot(m, Count(m)) /\ m.rep0 >= Count(m)
    BY MatchFacts DEF Has, AtTail
  <1>2. PICK k \in Nat : k = n + 1
    BY <1>1
  <1>3. Right(m, n, 1, <<Byte(reg.t0)>>) /\ Put(Slot(m, n), <<Byte(reg.t0)>>)
    BY <1>1, NextByte, OneRight DEF WideTail
  <1>4. k <= Count(m) /\ mem' = Copied(m, k) /\ touched' \subseteq Slots(m)
    BY <1>1, <1>2, <1>3, Puts
  <1>5. /\ match' = match /\ pc' = (IF reg.left = 1 THEN "copy_wide_done" ELSE "copy_wide_tail")
        /\ reg' = [reg EXCEPT !.t0 = Plus(@, 1), !.dst = Plus(@, 1), !.left = @ - 1]
    BY DEF WideTail, Then
  <1>6. /\ IsRegs' /\ reg'.t0 = Plus(reg.t0, 1) /\ reg'.dst = Plus(reg.dst, 1)
        /\ reg'.left = reg.left - 1 /\ reg'.dicPos = reg.dicPos
    BY <1>1, <1>5 DEF IsRegs
  <1>7. reg'.dst = Slot(m, k)
    <2>1. Slot(m, n) \in Nat /\ Slot(m, n) + 1 < Full /\ Slot(m, n) + 1 = Slot(m, k)
      BY <1>1, <1>2, Places, MatchFacts
    <2> QED
      BY <1>1, <1>6, <2>1, Address
  <1>8. CASE reg.left = 1
    <2>1. AtDone(m, k)'
      BY <1>1, <1>2, <1>5, <1>6, <1>7, <1>8 DEF AtDone
    <2> QED
      BY <1>2, <1>4, <1>5, <1>6, <2>1, Arrive DEF Place
  <1>9. CASE reg.left # 1
    <2>1. k < Count(m) /\ Source(m, n) + 1 < m.dicBufSize /\ Source(m, k) = Source(m, n) + 1
      <3>1. Source(m, n) \in Nat /\ n + 1 < Count(m) /\ Source(m, n) + 1 < m.dicBufSize
        BY <1>1, <1>9, SourceFacts, MatchFacts DEF Straight
      <3> QED
        BY <1>1, <1>2, <3>1, SourceRun
    <2>2. From(m, n) \in Nat /\ From(m, n) + 1 < Full /\ From(m, n) + 1 = From(m, k)
      BY <1>1, <1>2, <2>1, Places, MatchFacts DEF From
    <2>3. reg'.t0 = From(m, k)
      BY <1>1, <1>6, <2>2, Address
    <2>4. Straight(m, k) /\ reg.left - 1 = Count(m) - k
      BY <1>1, <1>2, <2>1, SourceFacts, MatchFacts DEF Straight
    <2>5. AtTail(m, k)'
      BY <1>1, <1>5, <1>6, <1>7, <1>9, <2>1, <2>3, <2>4 DEF AtTail
    <2> QED
      BY <1>2, <1>4, <1>5, <1>6, <2>5, Arrive DEF Place
  <1> QED
    BY <1>8, <1>9

LEMMA WideTurn ==
  ASSUME NEW m, NEW n, Has(m, n), AtWide(m, n), WideLoop
  PROVE  Underway'
  <1>1. /\ GoodMatch(m) /\ n \in Nat /\ mem = Copied(m, n) /\ match = m /\ IsRegs
        /\ n < Count(m) /\ Count(m) \in Nat /\ Straight(m, n) /\ m.rep0 >= Count(m)
        /\ reg.t0 = From(m, n) /\ reg.dst = Slot(m, n) /\ reg.cnt = Count(m)
        /\ reg.dicPos = Slot(m, Count(m)) /\ Wide \in Nat /\ Wide > 0
    BY MatchFacts, Sizes DEF Has, AtWide
  <1>2. PICK d \in Nat, e \in Nat :
          d = reg.left /\ d > 0 /\ d % Wide = 0 /\ e = Count(m) % Wide
          /\ e < Wide /\ n + d = Count(m) - e
    <2>1. Count(m) % Wide \in Nat /\ Count(m) % Wide < Wide
      BY <1>1, DivMod
    <2> QED
      BY <2>1 DEF AtWide
  <1>3. d >= Wide
    BY <1>1, <1>2, Multiple
  <1>4. PICK k \in Nat, g \in Nat : k = n + Wide /\ g = d - Wide
    <2>1. n + Wide \in Nat /\ d - Wide \in Nat
      BY <1>1, <1>3
    <2> QED
      BY <2>1
  <1>5. g % Wide = 0
    BY <1>1, <1>2, <1>3, <1>4, Periodic
  <1>6. k <= Count(m) /\ k + g = Count(m) - e /\ (g # 0 => k < Count(m)) /\ (e # 0 => k < Count(m))
    <2>1. PICK c \in Nat : c = Count(m)
      BY <1>1
    <2>2. n + d = c - e
      BY <1>2, <2>1
    <2>3. k <= c /\ k + g = c - e /\ (g # 0 => k < c) /\ (e # 0 => k < c)
      BY <1>1, <1>4, <2>2
    <2> QED
      BY <2>1, <2>3
  <1>7. /\ Source(m, n) \in Nat /\ Source(m, n) + Wide <= m.dicBufSize
        /\ k < Count(m) => Source(m, n) + Wide < m.dicBufSize
    BY <1>1, <1>4, <1>6, SourceFacts, MatchFacts DEF Straight
  <1>8. Right(m, n, Wide, Load(mem, reg.t0, Wide, Wild))
    <2>1. n + Wide <= Count(m) /\ Wide <= m.rep0
      BY <1>1, <1>4, <1>6, MatchFacts
    <2> QED
      BY <1>1, <1>7, <2>1, RunLoaded
  <1>9. Put(Slot(m, n), Load(mem, reg.t0, Wide, Wild))
    BY <1>1 DEF WideLoop
  <1>10. mem' = Copied(m, k) /\ touched' \subseteq Slots(m)
    BY <1>1, <1>4, <1>6, <1>8, <1>9, Puts
  <1>11. /\ match' = match
         /\ g # 0 => pc' = "copy_wide_loop" /\ reg' = [reg EXCEPT !.t0 = Plus(@, Wide),
                       !.dst = Plus(@, Wide), !.left = @ - Wide]
         /\ g = 0 => /\ pc' = IF e = 0 THEN "copy_wide_done" ELSE "copy_wide_tail"
                     /\ reg' = [reg EXCEPT !.t0 = Plus(@, Wide), !.dst = Plus(@, Wide), !.left = e]
    <2> DEFINE r == [reg EXCEPT !.t0 = Plus(@, Wide), !.dst = Plus(@, Wide), !.left = @ - Wide]
    <2>1. /\ IF r.left # 0 THEN Then(pc, r)
             ELSE Then(IF r.cnt % Wide = 0 THEN "copy_wide_done" ELSE "copy_wide_tail",
                       [r EXCEPT !.left = r.cnt % Wide])
          /\ pc = "copy_wide_loop"
      BY DEF WideLoop
    <2>2. r.left = g /\ r.cnt = Count(m)
      BY <1>1, <1>2, <1>4 DEF IsRegs
    <2>3. [r EXCEPT !.left = e]
            = [reg EXCEPT !.t0 = Plus(@, Wide), !.dst = Plus(@, Wide), !.left = e]
      BY <1>1 DEF IsRegs
    <2>4. r.cnt % Wide = e
      BY <1>2, <2>2
    <2> HIDE DEF r
    <2>5. CASE g # 0
      BY <2>1, <2>2, <2>5 DEF r, Then
    <2>6. CASE g = 0
      BY <2>1, <2>2, <2>3, <2>4, <2>6 DEF Then
    <2> QED
      BY <2>5, <2>6
  <1>12. /\ IsRegs' /\ reg'.t0 = Plus(reg.t0, Wide) /\ reg'.dst = Plus(reg.dst, Wide)
         /\ reg'.cnt = reg.cnt /\ reg'.dicPos = reg.dicPos
         /\ reg'.left = IF g # 0 THEN g ELSE e
    BY <1>1, <1>2, <1>4, <1>11 DEF IsRegs
  <1>13. reg'.dst = Slot(m, k)
    <2>1. Slot(m, n) \in Nat /\ Slot(m, n) + Wide < Full /\ Slot(m, n) + Wide = Slot(m, k)
      BY <1>1, <1>4, <1>6, Places, MatchFacts
    <2> QED
      BY <1>1, <1>12, <2>1, Address
  <1>14. k < Count(m) => reg'.t0 = From(m, k) /\ Straight(m, k)
    <2> SUFFICES ASSUME k < Count(m) PROVE reg'.t0 = From(m, k) /\ Straight(m, k)
      OBVIOUS
    <2>1. Source(m, k) = Source(m, n) + Wide
      BY <1>1, <1>4, <1>7, SourceRun
    <2>2. From(m, n) \in Nat /\ From(m, n) + Wide < Full /\ From(m, n) + Wide = From(m, k)
      BY <1>1, <1>4, <1>7, <2>1, Places, MatchFacts DEF From
    <2>3. Straight(m, k)
      BY <1>1, <1>4, <1>7, <2>1 DEF Straight
    <2> QED
      BY <1>1, <1>12, <2>2, <2>3, Address
  <1>15. CASE g # 0
    <2>1. AtWide(m, k)'
      BY <1>1, <1>2, <1>5, <1>6, <1>11, <1>12, <1>13, <1>14, <1>15 DEF AtWide
    <2> QED
      BY <1>6, <1>10, <1>11, <1>12, <2>1, Arrive DEF Place
  <1>16. CASE g = 0 /\ e # 0
    <2>1. AtTail(m, k)'
      BY <1>1, <1>2, <1>6, <1>11, <1>12, <1>13, <1>14, <1>16 DEF AtTail
    <2> QED
      BY <1>6, <1>10, <1>11, <1>12, <2>1, Arrive DEF Place
  <1>17. CASE g = 0 /\ e = 0
    <2>1. AtDone(m, k)'
      BY <1>1, <1>2, <1>6, <1>11, <1>12, <1>13, <1>17 DEF AtDone
    <2> QED
      BY <1>6, <1>10, <1>11, <1>12, <2>1, Arrive DEF Place
  <1> QED
    BY <1>15, <1>16, <1>17

LEMMA DoneTurn ==
  ASSUME NEW m, NEW n, Has(m, n), AtDone(m, n), WideDone
  PROVE  Underway'
  <1>1. /\ GoodMatch(m) /\ n \in Nat /\ mem = Copied(m, n) /\ match = m /\ IsRegs
        /\ touched \subseteq Slots(m) /\ n = Count(m) /\ n > 0
        /\ reg.dst = Slot(m, n) /\ reg.dicPos = Slot(m, n)
    BY MatchFacts DEF Has, AtDone
  <1>2. /\ mem' = mem /\ touched' = touched /\ match' = match /\ pc' = "copied"
        /\ reg' = [reg EXCEPT !.sym = Byte(Minus(reg.dst, 1)), !.dicPos = IF Amd THEN reg.dst ELSE @]
    BY DEF WideDone, NoPut, Then
  <1>3. IsRegs' /\ reg'.dicPos = Slot(m, n) /\ reg'.sym = Byte(Minus(reg.dst, 1))
    BY <1>1, <1>2 DEF IsRegs
  <1>4. Minus(reg.dst, 1) = Slot(m, n - 1)
    <2>1. Slot(m, n) \in Nat /\ 0 <= Slot(m, n) - 1 /\ Slot(m, n) - 1 < Full
          /\ Slot(m, n) - 1 = Slot(m, n - 1)
      BY <1>1, MatchFacts DEF Slot
    <2> QED
      BY <1>1, <2>1, MinusFits
  <1>5. Byte(Slot(m, n - 1)) = Bytewise(m)[n - 1]
    BY <1>1, LastByte
  <1>6. AtCopied(m, n)'
    BY <1>1, <1>2, <1>3, <1>4, <1>5 DEF AtCopied
  <1> QED
    BY <1>1, <1>2, <1>3, <1>6, Arrive DEF Place

\* The address that a count running up to zero leads to.
LEMMA Before ==
  ASSUME NEW m, GoodMatch(m), NEW e \in Nat, NEW n \in Nat, n < e, e <= Count(m),
         reg.dicPos = Slot(m, e), Left(e - n)
  PROVE  At = Slot(m, n)
  <1>1. PICK x \in Nat, k \in Nat : x = Slot(m, e) /\ k = e - n /\ 0 < k /\ k <= x /\ x < Full
    BY MatchFacts DEF Slot
  <1>2. Plus(x, Full - k) = x - k
    BY <1>1, Back
  <1>3. x - k = Slot(m, n)
    BY <1>1, MatchFacts DEF Slot
  <1> QED
    BY <1>1, <1>2, <1>3 DEF At, Left

LEMMA CrossTurn ==
  ASSUME NEW m, NEW n, Has(m, n), AtCross(m, n), CrossLoop
  PROVE  Underway'
  <1>1. /\ GoodMatch(m) /\ n \in Nat /\ mem = Copied(m, n) /\ match = m /\ IsRegs
        /\ Count(m) \in Nat /\ reg.t0 = Source(m, n) /\ reg.dicPos = Slot(m, Count(m))
        /\ reg.cnt = Full - (Count(m) - n) /\ Left(Count(m) - n) /\ reg.rep0 = m.rep0
    BY MatchFacts DEF Has, AtCross, Left
  <1>2. n + (m.dicBufSize - Source(m, n)) < Count(m)
    BY DEF AtCross
  <1>3. PICK b \in Nat, s \in Nat, L \in Nat, k \in Nat :
          /\ b = m.dicBufSize /\ s = Source(m, n) /\ L = Count(m) /\ k = n + 1
          /\ s < b /\ n + (b - s) < L /\ k < L /\ L <= b /\ Dic + b < Full /\ b < Full
    <2>1. n < Count(m)
      BY DEF AtCross
    <2>2. Source(m, n) \in Nat /\ Source(m, n) < m.dicBufSize
      BY <1>1, <2>1, SourceFacts
    <2> QED
      BY <1>1, <1>2, <2>1, <2>2, MatchFacts
  <1>4. Plus(Dic, reg.t0) = From(m, n)
    BY <1>1, <1>3, Address, MatchFacts DEF From
  <1> DEFINE x == Byte(Plus(Dic, reg.t0))
  <1>5. x = Bytewise(m)[n]
    BY <1>1, <1>3, <1>4, NextByte
  <1> HIDE DEF x
  <1>6. At = Slot(m, n)
    BY <1>1, <1>3, Before
  <1>7. Put(Slot(m, n), <<x>>) /\ Right(m, n, 1, <<x>>)
    BY <1>1, <1>5, <1>6, OneRight DEF CrossLoop, x
  <1>8. mem' = Copied(m, k) /\ touched' \subseteq Slots(m)
    <2>1. n <= n + 1 /\ n + 1 <= Count(m) /\ 1 \in Nat /\ 1 > 0
      BY <1>1, <1>3
    <2>2. mem' = Copied(m, n + 1) /\ touched' \subseteq Slots(m)
      BY <1>1, <1>7, <2>1, Puts
    <2> QED
      BY <1>3, <2>2
  <1>9. Plus(reg.t0, 1) = s + 1 /\ Plus(reg.cnt, 1) = Full - (L - k)
    <2>1. Plus(reg.t0, 1) = s + 1
      <3>1. s + 1 < Full
        BY <1>1, <1>3, MatchFacts
      <3> QED
        BY <1>1, <1>3, <3>1, Address
    <2>2. PICK g \in Nat : g = L - n /\ 1 < g /\ g < Full /\ g - 1 = L - k
      BY <1>1, <1>3, MatchFacts
    <2>3. Plus(Full - g, 1) = Full - (g - 1)
      BY <2>2, CountUp
    <2> QED
      BY <1>1, <1>3, <2>1, <2>2, <2>3
  <1>10. /\ match' = match
         /\ s + 1 # b => pc' = "copy_cross_loop" /\ reg' = [reg EXCEPT !.t0 = s + 1,
                       !.cnt = Full - (L - k), !.sym = x]
         /\ s + 1 = b => pc' = "copy_common" /\ reg' = [reg EXCEPT !.t0 = Minus(Dic, Full - (L - k)),
                       !.cnt = Full - (L - k), !.sym = ByteAfter(Dic)]
    <2> DEFINE r == [reg EXCEPT !.t0 = Plus(@, 1), !.cnt = Plus(@, 1), !.sym = x]
    <2>1. /\ IF r.t0 # match.dicBufSize THEN Then(pc, r)
             ELSE Then("copy_common", [r EXCEPT !.sym = ByteAfter(Dic), !.t0 = Minus(Dic, r.cnt)])
          /\ pc = "copy_cross_loop"
      BY DEF CrossLoop, x
    <2>2. r.t0 = s + 1 /\ r.cnt = Full - (L - k) /\ match.dicBufSize = b
      BY <1>1, <1>3, <1>9 DEF IsRegs
    <2>3. r = [reg EXCEPT !.t0 = s + 1, !.cnt = Full - (L - k), !.sym = x]
      BY <1>1, <1>9 DEF IsRegs
    <2>4. [r EXCEPT !.sym = ByteAfter(Dic), !.t0 = Minus(Dic, r.cnt)]
            = [reg EXCEPT !.t0 = Minus(Dic, Full - (L - k)), !.cnt = Full - (L - k), !.sym = ByteAfter(Dic)]
      BY <1>1, <2>2, <2>3 DEF IsRegs
    <2> HIDE DEF r
    <2> QED
      BY <2>1, <2>2, <2>3, <2>4 DEF Then
  <1>11. CASE s + 1 # b
    <2>1. Source(m, k) = s + 1 /\ k + (b - (s + 1)) < L
      BY <1>1, <1>3, <1>11, SourceNext
    <2>2. IsRegs' /\ reg'.t0 = s + 1 /\ reg'.cnt = Full - (L - k) /\ reg'.dicPos = reg.dicPos
          /\ reg'.rep0 = reg.rep0
      BY <1>1, <1>10, <1>11 DEF IsRegs
    <2>3. AtCross(m, k)'
      BY <1>1, <1>3, <1>10, <1>11, <2>1, <2>2 DEF AtCross, Left
    <2> QED
      BY <1>3, <1>8, <1>10, <2>2, <2>3, Arrive DEF Place
  <1>12. CASE s + 1 = b
    <2>1. Source(m, k) = 0
      BY <1>1, <1>3, <1>12, SourceNext
    <2>2. From(m, k) = Dic /\ Straight(m, k)
      BY <1>3, <2>1, MatchFacts, <1>1 DEF From, Straight
    <2>3. Minus(Dic, Full - (L - k)) = Dic + (L - k)
      <3>1. PICK g \in Nat : g = L - k /\ 0 < g /\ Dic + g < Full
        BY <1>1, <1>3, MatchFacts
      <3>2. Full - g \in Int /\ 0 - Full <= Dic - (Full - g) /\ Dic - (Full - g) < 0
        BY <3>1, Sizes
      <3>3. Minus(Dic, Full - g) = Dic - (Full - g) + Full
        BY <3>2, MinusWraps, Sizes
      <3> QED
        BY <3>1, <3>3, Sizes
    <2>4. ByteAfter(Dic) = Bytewise(m)[k]
      BY <1>1, <1>3, <1>8, <2>2, NextLoaded DEF ByteAfter
    <2>5. /\ IsRegs' /\ reg'.t0 = Dic + (L - k) /\ reg'.cnt = Full - (L - k)
          /\ reg'.dicPos = reg.dicPos /\ reg'.rep0 = reg.rep0 /\ reg'.sym = Bytewise(m)[k]
      BY <1>1, <1>10, <1>12, <2>3, <2>4 DEF IsRegs
    <2>6. AtCommon(m, k)'
      BY <1>1, <1>3, <1>10, <1>12, <2>2, <2>5 DEF AtCommon, Left
    <2> QED
      BY <1>3, <1>8, <1>10, <2>5, <2>6, Arrive DEF Place
  <1> QED
    BY <1>11, <1>12

LEMMA NoWrapTurn ==
  ASSUME NEW m, NEW n, Has(m, n), AtNoWrap(m, n), NoWrapByte
  PROVE  Underway'
  <1>1. /\ GoodMatch(m) /\ n \in Nat /\ mem = Copied(m, n) /\ match = m /\ IsRegs
        /\ touched \subseteq Slots(m) /\ Count(m) \in Nat /\ n = 0 /\ n < Count(m) /\ Straight(m, n)
        /\ reg.t0 = From(m, n) /\ reg.cnt = Count(m) /\ reg.dicPos = Slot(m, Count(m))
        /\ reg.rep0 = m.rep0
    BY MatchFacts DEF Has, AtNoWrap
  <1>2. /\ mem' = mem /\ touched' = touched /\ match' = match /\ pc' = "copy_common"
        /\ reg' = [reg EXCEPT !.sym = Byte(reg.t0), !.t0 = Plus(@, reg.cnt), !.cnt = Negated(@)]
    BY DEF NoWrapByte, NoPut, Then
  <1>3. /\ IsRegs' /\ reg'.sym = Byte(reg.t0) /\ reg'.t0 = Plus(reg.t0, reg.cnt)
        /\ reg'.cnt = Negated(reg.cnt) /\ reg'.dicPos = reg.dicPos /\ reg'.rep0 = reg.rep0
    BY <1>1, <1>2 DEF IsRegs
  <1>4. Plus(reg.t0, reg.cnt) = From(m, n) + Count(m)
    <2>1. From(m, n) \in Nat /\ From(m, n) + Count(m) < Full
      BY <1>1, SourceFacts, MatchFacts DEF From, Straight
    <2> QED
      BY <1>1, <2>1, Address
  <1>5. Negated(reg.cnt) = Full - Count(m)
    <2>1. PICK c \in Nat : c = Count(m) /\ 0 < c /\ c < Full
      BY <1>1, MatchFacts
    <2>2. 0 - Full <= 0 - c /\ 0 - c < 0
      BY <2>1, Sizes
    <2>3. Minus(0, c) = 0 - c + Full
      BY <2>1, <2>2, MinusWraps
    <2> QED
      BY <1>1, <2>1, <2>3, Sizes DEF Negated
  <1>6. Byte(reg.t0) = Bytewise(m)[n]
    BY <1>1, NextByte
  <1>7. AtCommon(m, n)'
    <2>1. Count(m) - n = Count(m)
      BY <1>1
    <2> QED
      BY <1>1, <1>2, <1>3, <1>4, <1>5, <1>6, <2>1 DEF AtCommon, Left
  <1> QED
    BY <1>1, <1>2, <1>3, <1>7, Arrive DEF Place

LEMMA CommonTurn ==
  ASSUME NEW m, NEW n, Has(m, n), AtCommon(m, n), Common
  PROVE  Underway'
  <1>1. /\ GoodMatch(m) /\ n \in Nat /\ mem = Copied(m, n) /\ match = m /\ IsRegs
        /\ touched \subseteq Slots(m) /\ Count(m) \in Nat /\ n < Count(m) /\ Straight(m, n)
        /\ reg.t0 = From(m, n) + (Count(m) - n) /\ reg.cnt = Full - (Count(m) - n)
        /\ reg.dicPos = Slot(m, Count(m)) /\ reg.rep0 = m.rep0 /\ reg.sym = Bytewise(m)[n]
    BY MatchFacts DEF Has, AtCommon, Left
  <1>2. PICK g \in Nat : g = Count(m) - n /\ 0 < g /\ g < Full /\ g - 1 = Count(m) - n - 1
    BY <1>1, MatchFacts
  <1>0. PICK r : r = [reg EXCEPT !.dicPos = Minus(@, 1), !.cnt = Plus(@, 1), !.left = WordSize - 1]
    OBVIOUS
  <1>3. /\ mem' = mem /\ touched' = touched /\ match' = match /\ reg' = r
        /\ pc' = IF r.cnt = 0 THEN "copy_end"
                 ELSE IF Amd THEN "copy_byte_loop"
                 ELSE IF r.rep0 = 1 THEN "copy_match_0"
                 ELSE IF CanBeWords(Low(r.rep0), r.cnt) THEN "copy_flush" ELSE "copy_byte_loop"
    BY <1>0 DEF Common, NoPut, Then
  <1>4. /\ r = [t0 |-> r.t0, cnt |-> r.cnt, dicPos |-> r.dicPos, rep0 |-> r.rep0,
                dst |-> r.dst, left |-> r.left, sym |-> r.sym]
        /\ r.dicPos = Minus(Slot(m, Count(m)), 1) /\ r.cnt = Plus(Full - g, 1) /\ r.left = 3
        /\ r.t0 = From(m, n) + (Count(m) - n) /\ r.rep0 = m.rep0 /\ r.sym = Bytewise(m)[n]
    <2>1. reg.cnt = Full - g /\ WordSize - 1 = 3
      BY <1>1, <1>2 DEF WordSize
    <2>2. /\ r.dicPos = Minus(reg.dicPos, 1) /\ r.cnt = Plus(reg.cnt, 1) /\ r.left = WordSize - 1
          /\ r.t0 = reg.t0 /\ r.rep0 = reg.rep0 /\ r.sym = reg.sym /\ r.dst = reg.dst
      BY <1>0, <1>1 DEF IsRegs
    <2>3. r = [t0 |-> r.t0, cnt |-> r.cnt, dicPos |-> r.dicPos, rep0 |-> r.rep0,
               dst |-> r.dst, left |-> r.left, sym |-> r.sym]
      BY <1>0, <1>1 DEF IsRegs
    <2> QED
      BY <1>1, <2>1, <2>2, <2>3
  <1>5. r.dicPos = Slot(m, Count(m) - 1)
    <2>1. PICK x \in Nat : x = Slot(m, Count(m)) /\ 0 <= x - 1 /\ x - 1 < Full
          /\ x - 1 = Slot(m, Count(m) - 1)
      BY <1>1, MatchFacts DEF Slot
    <2> QED
      BY <1>4, <2>1, MinusFits
  <1>6. CASE g = 1
    <2>1. r.cnt = 0
      BY <1>2, <1>4, <1>6, CountUp
    <2>2. n + 1 = Count(m) /\ Count(m) - 1 = n
      BY <1>1, <1>2, <1>6
    <2>3. AtEnd(m, n)'
      BY <1>1, <1>3, <1>4, <1>5, <2>1, <2>2 DEF AtEnd
    <2>4. IsRegs'
      BY <1>3, <1>4 DEF IsRegs
    <2> QED
      BY <1>1, <1>3, <2>3, <2>4, Arrive DEF Place
  <1>7. CASE g # 1
    <2>1. r.cnt # 0 /\ r.cnt = Full - (Count(m) - n - 1)
      <3>1. 1 < g
        BY <1>2, <1>7
      <3>2. r.cnt # 0 /\ r.cnt = Full - (g - 1)
        BY <1>2, <1>4, <3>1, CountUp
      <3> QED
        BY <1>2, <3>2
    <2>2. n + 1 < Count(m)
      BY <1>1, <1>2, <1>7
    <2>3. IsRegs'
      BY <1>3, <1>4 DEF IsRegs
    <2>4. Looping(m, n)'
      BY <1>1, <1>3, <1>5, <2>1, <2>2 DEF Looping, Left
    <2>5. CASE pc' = "copy_byte_loop"
      <3>1. AtBytes(m, n)'
        BY <1>3, <1>4, <2>4, <2>5 DEF AtBytes
      <3> QED
        BY <1>1, <1>3, <2>3, <3>1, Arrive DEF Place
    <2>6. CASE pc' = "copy_match_0" /\ m.rep0 = 1
      <3>1. r.left \in 1 .. 3 /\ n + r.left >= 3
        BY <1>1, <1>4
      <3>2. AtFill(m, n)'
        BY <1>3, <1>4, <2>4, <2>6, <3>1 DEF AtFill
      <3> QED
        BY <1>1, <1>3, <2>3, <3>2, Arrive DEF Place
    <2>7. CASE pc' = "copy_flush" /\ CanBeWords(Low(m.rep0), r.cnt)
      <3>1. Low(m.rep0) = m.rep0
        BY <1>1, Sizes, MatchFacts, Turn DEF Low
      <3>2. m.rep0 >= 4 /\ ~(4 + r.cnt > Full)
        BY <2>7, <3>1 DEF CanBeWords, WordSize, CarryAbove
      <3>3. n + 5 <= Count(m)
        BY <1>1, <2>1, <3>2, Sizes
      <3>4. AtFlush(m, n)'
        BY <1>3, <1>4, <2>4, <2>7, <3>2, <3>3 DEF AtFlush
      <3> QED
        BY <1>1, <1>3, <2>3, <3>4, Arrive DEF Place
    <2> QED
      BY <1>3, <1>4, <2>1, <2>5, <2>6, <2>7
  <1> QED
    BY <1>6, <1>7

\* A source that does not cross the end is followed by adding.
LEMMA Ahead ==
  ASSUME NEW m, GoodMatch(m), NEW n \in Nat, NEW k \in Nat, n + k < Count(m), Straight(m, n)
  PROVE  /\ Source(m, n) \in Nat /\ Source(m, n) + k < m.dicBufSize
         /\ From(m, n) \in Nat /\ From(m, n) + k = From(m, n + k)
         /\ Straight(m, n + k) /\ From(m, n) + (Count(m) - n) < Full
  <1>1. PICK s \in Nat, L \in Nat, b \in Nat :
          /\ s = Source(m, n) /\ L = Count(m) /\ b = m.dicBufSize /\ s + (L - n) <= b
          /\ Dic + b < Full /\ Dic \in Nat
    <2>1. Source(m, n) \in Nat
      BY MatchFacts, SourceFacts
    <2> QED
      BY <2>1, MatchFacts DEF Straight
  <1>2. s + k < b
    BY <1>1
  <1>3. Source(m, n + k) = s + k
    BY <1>1, <1>2, SourceRun
  <1>4. From(m, n) = Dic + s /\ From(m, n + k) = Dic + (s + k)
    BY <1>1, <1>3 DEF From
  <1>5. Straight(m, n + k)
    BY <1>1, <1>3 DEF Straight
  <1>6. Dic + s + (L - n) < Full
    BY <1>1, MatchFacts
  <1> QED
    BY <1>1, <1>2, <1>4, <1>5, <1>6

\* What the loops before the last byte have in common.
LEMMA LoopFacts ==
  ASSUME NEW m, NEW n, Has(m, n), Looping(m, n)
  PROVE  /\ GoodMatch(m) /\ n \in Nat /\ mem = Copied(m, n) /\ match = m /\ IsRegs
         /\ touched \subseteq Slots(m) /\ Count(m) \in Nat /\ n + 1 < Count(m) /\ Straight(m, n)
         /\ reg.cnt = Full - (Count(m) - n - 1) /\ reg.dicPos = Slot(m, Count(m) - 1)
         /\ Count(m) - n - 1 \in Nat /\ Count(m) - n - 1 < Full
         /\ At = Slot(m, n)
  <1>1. /\ GoodMatch(m) /\ n \in Nat /\ mem = Copied(m, n) /\ match = m /\ IsRegs
        /\ touched \subseteq Slots(m) /\ Count(m) \in Nat /\ n + 1 < Count(m) /\ Straight(m, n)
        /\ reg.cnt = Full - (Count(m) - n - 1) /\ reg.dicPos = Slot(m, Count(m) - 1)
    BY MatchFacts DEF Has, Looping, Left
  <1>2. Count(m) - n - 1 \in Nat /\ Count(m) - n - 1 < Full
    BY <1>1, MatchFacts
  <1>3. PICK e \in Nat : e = Count(m) - 1 /\ n < e /\ e <= Count(m) /\ e - n = Count(m) - n - 1
    BY <1>1
  <1>4. At = Slot(m, n)
    BY <1>1, <1>3, Before DEF Left
  <1> QED
    BY <1>1, <1>2, <1>4

\* One byte of the match more.
LEMMA OnePut ==
  ASSUME NEW m, NEW n, Has(m, n), n < Count(m), NEW b, b = Bytewise(m)[n], Put(Slot(m, n), <<b>>)
  PROVE  mem' = Copied(m, n + 1) /\ touched' \subseteq Slots(m)
  <1>1. n \in Nat /\ Count(m) \in Nat
    BY MatchFacts DEF Has
  <1>2. n <= n + 1 /\ n + 1 <= Count(m) /\ n <= n /\ 1 > 0 /\ 1 \in Nat
    BY <1>1
  <1>3. Right(m, n, 1, <<b>>)
    BY <1>1, OneRight
  <1> QED
    BY <1>1, <1>2, <1>3, Puts

LEMMA BytesTurn ==
  ASSUME NEW m, NEW n, Has(m, n), AtBytes(m, n), ByteLoop
  PROVE  Underway'
  <1>1. /\ GoodMatch(m) /\ n \in Nat /\ IsRegs /\ Count(m) \in Nat /\ n + 1 < Count(m)
        /\ n < Count(m) /\ Straight(m, n) /\ reg.dicPos = Slot(m, Count(m) - 1)
        /\ reg.cnt = Full - (Count(m) - n - 1) /\ At = Slot(m, n)
        /\ reg.t0 = From(m, n) + (Count(m) - n) /\ reg.sym = Bytewise(m)[n]
    BY LoopFacts DEF AtBytes
  <1>2. PICK k \in Nat, g \in Nat :
          k = n + 1 /\ g = Count(m) - n - 1 /\ 0 < g /\ g < Full /\ k < Count(m)
          /\ Count(m) - k = g
    BY <1>1, LoopFacts DEF AtBytes
  <1>3. mem' = Copied(m, k) /\ touched' \subseteq Slots(m)
    BY <1>1, <1>2, OnePut DEF ByteLoop
  <1>4. /\ match' = match
        /\ pc' = (IF Plus(reg.cnt, 1) = 0 THEN "copy_end" ELSE "copy_byte_loop")
        /\ reg' = [reg EXCEPT !.cnt = Plus(@, 1), !.sym = ByteAfter(Plus(reg.t0, reg.cnt))]
    BY DEF ByteLoop, Then
  <1>5. /\ IsRegs' /\ reg'.cnt = Plus(reg.cnt, 1) /\ reg'.t0 = reg.t0 /\ reg'.dicPos = reg.dicPos
        /\ reg'.sym = ByteAfter(Plus(reg.t0, reg.cnt))
    BY <1>1, <1>4 DEF IsRegs
  <1>6. /\ From(m, n) \in Nat /\ From(m, n) + 1 = From(m, k) /\ Straight(m, k)
        /\ From(m, n) + (Count(m) - n) < Full
    BY <1>1, <1>2, Ahead
  <1>7. reg'.t0 = From(m, k) + (Count(m) - k)
    <2>1. From(m, n) + (Count(m) - n) = From(m, n) + 1 + (Count(m) - (n + 1))
      BY <1>1, <1>6
    <2> QED
      BY <1>1, <1>2, <1>5, <1>6, <2>1
  <1>8. reg'.sym = Bytewise(m)[k]
    <2>1. PICK x \in Nat : x = From(m, k) + g /\ x < Full /\ x = reg.t0 /\ x - g = From(m, k)
          /\ g <= x
      BY <1>1, <1>2, <1>5, <1>6, <1>7
    <2>2. Plus(x, Full - g) = From(m, k)
      BY <1>2, <2>1, Back
    <2>3. Plus(reg.t0, reg.cnt) = From(m, k)
      BY <1>1, <1>2, <2>1, <2>2
    <2> QED
      BY <1>1, <1>2, <1>3, <1>5, <2>3, NextLoaded DEF ByteAfter
  <1>9. CASE g = 1
    <2>1. Plus(reg.cnt, 1) = 0 /\ k + 1 = Count(m) /\ Count(m) - 1 = k
      BY <1>1, <1>2, <1>9, CountUp
    <2>2. AtEnd(m, k)'
      BY <1>1, <1>4, <1>5, <1>8, <2>1 DEF AtEnd
    <2> QED
      BY <1>1, <1>2, <1>3, <1>4, <1>5, <2>2, Arrive DEF Place
  <1>10. CASE g # 1
    <2>1. /\ Plus(reg.cnt, 1) # 0 /\ Plus(reg.cnt, 1) = Full - (Count(m) - k - 1)
          /\ k + 1 < Count(m)
      <3>1. 1 < g /\ g - 1 = Count(m) - k - 1 /\ 1 \in Nat
        BY <1>1, <1>2, <1>10
      <3>2. Plus(Full - g, 1) = Full - (g - 1) /\ Plus(Full - g, 1) # 0
        BY <1>2, <3>1, CountUp
      <3> QED
        BY <1>1, <1>2, <3>1, <3>2
    <2>2. AtBytes(m, k)'
      BY <1>1, <1>4, <1>5, <1>6, <1>7, <1>8, <2>1 DEF AtBytes, Looping, Left
    <2> QED
      BY <1>1, <1>2, <1>3, <1>4, <1>5, <2>2, Arrive DEF Place
  <1> QED
    BY <1>9, <1>10

LEMMA FlushTurn ==
  ASSUME NEW m, NEW n, Has(m, n), AtFlush(m, n), Flush
  PROVE  Underway'
  <1>1. /\ GoodMatch(m) /\ n \in Nat /\ IsRegs /\ Count(m) \in Nat /\ n + 5 <= Count(m)
        /\ n < Count(m) /\ Straight(m, n) /\ reg.dicPos = Slot(m, Count(m) - 1)
        /\ reg.cnt = Full - (Count(m) - n - 1) /\ At = Slot(m, n) /\ m.rep0 >= 4
        /\ reg.t0 = From(m, n) + (Count(m) - n) /\ reg.sym = Bytewise(m)[n]
    BY LoopFacts DEF AtFlush
  <1>2. PICK k \in Nat, g \in Nat :
          /\ k = n + 1 /\ g = Count(m) - n - 1 /\ 1 < g /\ g < Full /\ k + 1 < Count(m)
          /\ Count(m) - k - 1 = g - 1 /\ n + 1 < Count(m)
    BY <1>1, LoopFacts DEF AtFlush
  <1>3. mem' = Copied(m, k) /\ touched' \subseteq Slots(m)
    BY <1>1, <1>2, OnePut DEF Flush
  <1>4. /\ match' = match /\ pc' = "copy_word_align"
        /\ reg' = [reg EXCEPT !.cnt = Plus(@, 1), !.t0 = Minus(@, 1)]
    BY DEF Flush, Then
  <1>5. /\ IsRegs' /\ reg'.cnt = Plus(reg.cnt, 1) /\ reg'.t0 = Minus(reg.t0, 1)
        /\ reg'.dicPos = reg.dicPos
    BY <1>1, <1>4 DEF IsRegs
  <1>6. /\ From(m, n) \in Nat /\ From(m, n) + 1 = From(m, k) /\ Straight(m, k)
        /\ From(m, n) + (Count(m) - n) < Full
    BY <1>1, <1>2, Ahead
  <1>7. reg'.t0 = From(m, k) + (Count(m) - k - 1)
    <2>1. PICK x \in Nat : x = From(m, n) + (Count(m) - n) /\ x < Full /\ 0 <= x - 1
          /\ x - 1 < Full /\ x - 1 = From(m, n) + 1 + (Count(m) - (n + 1) - 1)
      BY <1>1, <1>2, <1>6, MatchFacts
    <2>2. Minus(x, 1) = x - 1
      BY <2>1, MinusFits
    <2> QED
      BY <1>1, <1>2, <1>5, <1>6, <2>1, <2>2
  <1>8. reg'.cnt = Full - (Count(m) - k - 1)
    <2>1. Plus(Full - g, 1) = Full - (g - 1)
      BY <1>2, CountUp
    <2> QED
      BY <1>1, <1>2, <1>5, <2>1
  <1>9. AtWords(m, k)'
    BY <1>1, <1>2, <1>4, <1>5, <1>6, <1>7, <1>8 DEF AtWords, Looping, Left
  <1> QED
    BY <1>1, <1>2, <1>3, <1>4, <1>5, <1>9, Arrive DEF Place

\* A count and its negation are multiples of 4 together.
LEMMA Words ==
  ASSUME NEW q \in Nat, q < Full, q > 0
  PROVE  /\ (Full - q) % 4 = 0 <=> q % 4 = 0
         /\ Full - q \in Nat /\ (q + ((Full - q) % 4)) % 4 = 0
         /\ (Full - q) % 4 \in Nat /\ (Full - q) % 4 < 4
  <1>1. PICK f \in Int : Full = 4 * f + 0
    <2>1. Full = 4 * (Full \div 4) + 0 /\ Full \div 4 \in Int
      BY Sizes, DivMod
    <2> QED
      BY <2>1, Zenon
  <1> QED
    BY <1>1, Sizes

\* The words, and the bytes up to them.
LEMMA AheadTurn ==
  ASSUME NEW m, NEW n, Has(m, n), Looping(m, n), m.rep0 >= 4,
         reg.t0 = From(m, n) + (Count(m) - n - 1), pc \in {"copy_word_align", "copy_word_loop"},
         NEW c \in Nat, 0 < c, c <= 4, n + c + 1 <= Count(m), CopyAhead(c),
         pc = "copy_word_loop" => (Count(m) - (n + c) - 1) % 4 = 0
  PROVE  Underway'
  <1>1. /\ GoodMatch(m) /\ n \in Nat /\ IsRegs /\ Count(m) \in Nat /\ mem = Copied(m, n)
        /\ n < Count(m) /\ Straight(m, n) /\ reg.dicPos = Slot(m, Count(m) - 1)
        /\ reg.cnt = Full - (Count(m) - n - 1) /\ At = Slot(m, n)
    BY LoopFacts
  <1>2. PICK k \in Nat, g \in Nat, h \in Nat :
          /\ k = n + c /\ g = Count(m) - n - 1 /\ 0 < g /\ g < Full /\ c <= g /\ h = g - c
          /\ h = Count(m) - k - 1 /\ k + 1 <= Count(m) /\ k < Count(m)
    <2>1. Count(m) - n - 1 \in Nat /\ n + c \in Nat /\ Count(m) - n - 1 < Full
      BY <1>1, LoopFacts
    <2>2. Count(m) - n - 1 - c \in Nat
      BY <1>1, <2>1
    <2> QED
      BY <1>1, <2>1, <2>2
  <1>3. /\ Source(m, n) \in Nat /\ Source(m, n) + c < m.dicBufSize /\ From(m, n) \in Nat
        /\ From(m, n) + c = From(m, k) /\ Straight(m, k) /\ From(m, n) + (Count(m) - n) < Full
    BY <1>1, <1>2, Ahead
  <1>4. Plus(reg.t0, reg.cnt) = From(m, n)
    <2>1. PICK x \in Nat : x = From(m, n) + g /\ x = reg.t0 /\ x < Full /\ x - g = From(m, n) /\ g <= x
      BY <1>1, <1>2, <1>3, MatchFacts
    <2>2. Plus(x, Full - g) = From(m, n)
      BY <1>2, <2>1, Back
    <2> QED
      BY <1>1, <1>2, <2>1, <2>2
  <1>5. Right(m, n, c, Load(mem, From(m, n), c, Wild))
    <2>1. n + c <= Count(m) /\ c <= m.rep0 /\ Source(m, n) + c <= m.dicBufSize
      BY <1>1, <1>2, <1>3, MatchFacts
    <2> QED
      BY <1>1, <2>1, RunLoaded
  <1>6. Put(Slot(m, n), Load(mem, From(m, n), c, Wild))
    BY <1>1, <1>4 DEF CopyAhead
  <1>7. mem' = Copied(m, k) /\ touched' \subseteq Slots(m)
    BY <1>1, <1>2, <1>5, <1>6, Puts
  <1>8. PICK r : r = [reg EXCEPT !.cnt = Plus(@, c)]
    OBVIOUS
  <1>9. IF r.cnt # 0 THEN Then(pc, r) ELSE Then("copy_end", [r EXCEPT !.sym = ByteAfter(reg.t0)])
    BY <1>8 DEF CopyAhead
  <1>10. /\ r = [t0 |-> r.t0, cnt |-> r.cnt, dicPos |-> r.dicPos, rep0 |-> r.rep0,
                 dst |-> r.dst, left |-> r.left, sym |-> r.sym]
         /\ r.cnt = Plus(Full - g, c) /\ r.t0 = reg.t0 /\ r.dicPos = reg.dicPos
    <2>1. reg.cnt = Full - g
      BY <1>1, <1>2
    <2>2. r.cnt = Plus(reg.cnt, c) /\ r.t0 = reg.t0 /\ r.dicPos = reg.dicPos
      BY <1>1, <1>8 DEF IsRegs
    <2>3. r = [t0 |-> r.t0, cnt |-> r.cnt, dicPos |-> r.dicPos, rep0 |-> r.rep0,
               dst |-> r.dst, left |-> r.left, sym |-> r.sym]
      BY <1>1, <1>8 DEF IsRegs
    <2> QED
      BY <2>1, <2>2, <2>3
  <1>11. reg.t0 = From(m, k) + (Count(m) - k - 1)
    <2>1. From(m, n) + (Count(m) - n - 1) = From(m, n) + c + (Count(m) - (n + c) - 1)
      BY <1>1, <1>3
    <2> QED
      BY <1>2, <1>3, <2>1
  <1>12. CASE c < g
    <2>1. r.cnt = Full - h /\ r.cnt # 0
      BY <1>2, <1>10, <1>12, CountUp
    <2>2. pc' = pc /\ reg' = r /\ match' = match
      BY <1>9, <2>1 DEF Then
    <2>3. k + 1 < Count(m)
      BY <1>1, <1>2, <1>12
    <2>4. IsRegs'
      BY <1>10, <2>2 DEF IsRegs
    <2>5. AtWords(m, k)'
      BY <1>1, <1>2, <1>3, <1>10, <1>11, <2>1, <2>2, <2>3 DEF AtWords, Looping, Left
    <2> QED
      BY <1>1, <1>2, <1>7, <2>2, <2>4, <2>5, Arrive DEF Place
  <1>13. CASE c = g
    <2>1. r.cnt = 0
      BY <1>2, <1>10, <1>13, CountUp
    <2>2. pc' = "copy_end" /\ reg' = [r EXCEPT !.sym = ByteAfter(reg.t0)] /\ match' = match
      BY <1>9, <2>1 DEF Then
    <2>3. k + 1 = Count(m) /\ Count(m) - 1 = k /\ Count(m) - k - 1 = 0
      BY <1>1, <1>2, <1>13
    <2>4. reg.t0 = From(m, k)
      <3>1. From(m, k) \in Nat
        BY <1>3
      <3> QED
        BY <1>11, <2>3, <3>1
    <2>5. ByteAfter(reg.t0) = Bytewise(m)[k]
      BY <1>1, <1>2, <1>7, <2>4, NextLoaded DEF ByteAfter
    <2>6. IsRegs' /\ reg'.dicPos = reg.dicPos /\ reg'.sym = Bytewise(m)[k]
      BY <1>10, <2>2, <2>5 DEF IsRegs
    <2>7. AtEnd(m, k)'
      BY <1>1, <2>2, <2>3, <2>6 DEF AtEnd
    <2> QED
      BY <1>1, <1>2, <1>7, <2>2, <2>6, <2>7, Arrive DEF Place
  <1> QED
    BY <1>2, <1>12, <1>13

LEMMA WordsTurn ==
  ASSUME NEW m, NEW n, Has(m, n), AtWords(m, n), WordAlign \/ WordLoop
  PROVE  Underway'
  <1>1. /\ GoodMatch(m) /\ n \in Nat /\ IsRegs /\ Count(m) \in Nat /\ mem = Copied(m, n)
        /\ n + 1 < Count(m) /\ Looping(m, n) /\ reg.cnt = Full - (Count(m) - n - 1) /\ m.rep0 >= 4
        /\ touched \subseteq Slots(m) /\ reg.t0 = From(m, n) + (Count(m) - n - 1)
        /\ pc \in {"copy_word_align", "copy_word_loop"}
        /\ pc = "copy_word_loop" => (Count(m) - n - 1) % 4 = 0
    BY LoopFacts DEF AtWords
  <1>2. PICK g \in Nat : g = Count(m) - n - 1 /\ 0 < g /\ g < Full
    BY <1>1, LoopFacts
  <1>3. CASE WordAlign /\ reg.cnt % 4 = 0
    <2>1. /\ mem' = mem /\ touched' = touched /\ match' = match /\ reg' = reg
          /\ pc' = "copy_word_loop"
      BY <1>3 DEF WordAlign, WordSize, NoPut, Then
    <2>2. (Count(m) - n - 1) % 4 = 0
      BY <1>1, <1>2, <1>3, Words
    <2>3. Looping(m, n)' /\ IsRegs'
      BY <1>1, <2>1 DEF Looping, Left, IsRegs
    <2>4. AtWords(m, n)'
      BY <1>1, <2>1, <2>2, <2>3 DEF AtWords
    <2>5. n <= Count(m)
      BY <1>1
    <2> QED
      BY <1>1, <2>1, <2>3, <2>4, <2>5, Arrive DEF Place
  <1>4. CASE WordAlign /\ reg.cnt % 4 # 0
    <2>1. pc = "copy_word_align" /\ CopyAhead(1)
      BY <1>4 DEF WordAlign, WordSize
    <2>2. n + 1 + 1 <= Count(m)
      BY <1>1
    <2> QED
      BY <1>1, <2>1, <2>2, AheadTurn
  <1>5. CASE WordLoop
    <2>1. pc = "copy_word_loop" /\ CopyAhead(4)
      BY <1>5 DEF WordLoop, WordSize
    <2>2. g % 4 = 0 /\ g >= 4
      BY <1>1, <1>2, <2>1, Multiple
    <2>3. (g - 4) % 4 = 0
      BY <2>2, Periodic
    <2>4. g - 4 = Count(m) - (n + 4) - 1 /\ n + 4 + 1 <= Count(m)
      BY <1>1, <1>2, <2>2
    <2> QED
      BY <1>1, <2>1, <2>3, <2>4, AheadTurn
  <1> QED
    BY <1>3, <1>4, <1>5

\* Behind distance 1 every byte is the one before it.
LEMMA SameByte ==
  ASSUME NEW m, GoodMatch(m), m.rep0 = 1, NEW p \in Nat, NEW e \in Nat, e <= 4, p + e < Count(m)
  PROVE  Bytewise(m)[p + e] = Bytewise(m)[p]
  <1>1. Count(m) \in Nat
    BY MatchFacts
  <1>2. \A i \in Nat : i + 1 < Count(m) => Bytewise(m)[i + 1] = Bytewise(m)[i]
    BY Period
  <1>3. ASSUME NEW a \in Nat, NEW b \in Nat, b = a + 1, b < Count(m)
        PROVE  Bytewise(m)[b] = Bytewise(m)[a]
    BY <1>2, <1>3
  <1>4. PICK p1 \in Nat, p2 \in Nat, p3 \in Nat, p4 \in Nat :
          p1 = p + 1 /\ p2 = p1 + 1 /\ p3 = p2 + 1 /\ p4 = p3 + 1
    OBVIOUS
  <1>5. p1 < Count(m) => Bytewise(m)[p1] = Bytewise(m)[p]
    BY <1>3, <1>4
  <1>6. p2 < Count(m) => p1 < Count(m) /\ Bytewise(m)[p2] = Bytewise(m)[p1]
    BY <1>1, <1>3, <1>4
  <1>7. p3 < Count(m) => p2 < Count(m) /\ Bytewise(m)[p3] = Bytewise(m)[p2]
    BY <1>1, <1>3, <1>4
  <1>8. p4 < Count(m) => p3 < Count(m) /\ Bytewise(m)[p4] = Bytewise(m)[p3]
    BY <1>1, <1>3, <1>4
  <1>9. PICK q \in Nat : q = p + e
    OBVIOUS
  <1>10. q \in {p, p1, p2, p3, p4}
    BY <1>4, <1>9
  <1> QED
    BY <1>5, <1>6, <1>7, <1>8, <1>9, <1>10

\* A store of the same byte c times.
LEMMA FillRight ==
  ASSUME NEW m, GoodMatch(m), m.rep0 = 1, NEW p \in Nat, NEW c \in Nat, c <= 4, p + c <= Count(m),
         NEW b, b = Bytewise(m)[p]
  PROVE  Right(m, p, c, [i \in 1 .. c |-> b])
  <1>1. ASSUME NEW j \in 1 .. c
        PROVE  Bytewise(m)[p + j - 1] = b
    <2>1. PICK e \in Nat : e = j - 1 /\ e <= 4 /\ p + e < Count(m)
      BY MatchFacts
    <2>2. p + j - 1 = p + e
      BY <2>1
    <2> QED
      BY <2>1, <2>2, SameByte
  <1>2. ASSUME NEW f, f = [i \in 1 .. c |-> b]
        PROVE  Len(f) = c /\ \A j \in 1 .. c : f[j] = b
    BY <1>2
  <1> QED
    BY <1>1, <1>2 DEF Right

\* What a fill with n bytes over the slots from p does.
LEMMA Filled ==
  ASSUME NEW m, NEW n, Has(m, n), m.rep0 = 1, NEW p \in Nat, NEW c \in Nat, 0 < c, c <= 4,
         p <= n, n <= p + c, p + c < Count(m), reg.sym = Bytewise(m)[p],
         reg.dicPos = Slot(m, Count(m) - 1), Left(Count(m) - p - 1),
         NEW then \in BOOLEAN, Fill(c, then)
  PROVE  /\ mem' = Copied(m, p + c) /\ touched' \subseteq Slots(m)
         /\ Bytewise(m)[p + c] = reg.sym
         /\ Plus(reg.cnt, c) = 0 => AtEnd(m, p + c)' /\ IsRegs' /\ match' = match
         /\ Plus(reg.cnt, c) # 0 => /\ Plus(reg.cnt, c) = Full - (Count(m) - (p + c) - 1)
                                    /\ p + c + 1 < Count(m) /\ then
  <1>1. /\ GoodMatch(m) /\ n \in Nat /\ IsRegs /\ Count(m) \in Nat /\ mem = Copied(m, n)
        /\ reg.cnt = Full - (Count(m) - p - 1)
    BY MatchFacts DEF Has, Left
  <1>2. PICK k \in Nat, g \in Nat :
          /\ k = p + c /\ g = Count(m) - p - 1 /\ c <= g /\ g < Full /\ k < Count(m)
          /\ g - c = Count(m) - k - 1
    <2>1. p + c \in Nat /\ Count(m) - p - 1 \in Nat
      BY <1>1
    <2> QED
      BY <1>1, <2>1, MatchFacts
  <1>3. At = Slot(m, p)
    <2>1. PICK e \in Nat : e = Count(m) - 1 /\ p < e /\ e <= Count(m) /\ e - p = Count(m) - p - 1
      BY <1>1
    <2> QED
      BY <1>1, <2>1, Before
  <1>4. Right(m, p, c, [i \in 1 .. c |-> reg.sym])
    <2>1. p + c <= Count(m)
      BY <1>1
    <2>2. PICK b : b = reg.sym
      OBVIOUS
    <2>3. Right(m, p, c, [i \in 1 .. c |-> b])
      BY <1>1, <2>1, <2>2, FillRight
    <2> QED
      BY <2>2, <2>3
  <1>5. Put(Slot(m, p), [i \in 1 .. c |-> reg.sym])
    BY <1>3 DEF Fill
  <1>6. mem' = Copied(m, k) /\ touched' \subseteq Slots(m)
    <2>1. p + c <= Count(m)
      BY <1>1
    <2>2. PICK bytes : bytes = [i \in 1 .. c |-> reg.sym]
      OBVIOUS
    <2>3. Right(m, p, c, bytes) /\ Put(Slot(m, p), bytes)
      BY <1>4, <1>5, <2>2
    <2>4. mem' = Copied(m, p + c) /\ touched' \subseteq Slots(m)
      BY <1>1, <2>1, <2>3, Puts
    <2> QED
      BY <1>2, <2>4
  <1>7. Bytewise(m)[k] = reg.sym
    BY <1>1, <1>2, SameByte
  <1>8. Plus(reg.cnt, c) = 0 => c = g
    BY <1>1, <1>2, CountUp
  <1>9. ASSUME Plus(reg.cnt, c) = 0
        PROVE  AtEnd(m, k)' /\ IsRegs' /\ match' = match
    <2>1. [reg EXCEPT !.cnt = Plus(@, c)].cnt = Plus(reg.cnt, c)
      BY <1>1 DEF IsRegs
    <2>2. pc' = "copy_end" /\ reg' = [reg EXCEPT !.cnt = Plus(@, c)] /\ match' = match
      BY <1>9, <2>1 DEF Fill, Then
    <2>3. IsRegs' /\ reg'.dicPos = reg.dicPos /\ reg'.sym = reg.sym
      BY <1>1, <2>2 DEF IsRegs
    <2>4. k + 1 = Count(m) /\ Count(m) - 1 = k
      BY <1>1, <1>2, <1>8, <1>9
    <2>5. AtEnd(m, k)'
      BY <1>1, <1>7, <2>2, <2>3, <2>4 DEF AtEnd
    <2> QED
      BY <2>2, <2>3, <2>5
  <1>10. ASSUME Plus(reg.cnt, c) # 0
         PROVE  /\ Plus(reg.cnt, c) = Full - (Count(m) - k - 1)
                /\ k + 1 < Count(m) /\ then
    <2>1. c < g
      BY <1>1, <1>2, <1>10, CountUp
    <2>2. Plus(reg.cnt, c) = Full - (g - c)
      BY <1>1, <1>2, <2>1, CountUp
    <2>3. [reg EXCEPT !.cnt = Plus(@, c)].cnt = Plus(reg.cnt, c)
      BY <1>1 DEF IsRegs
    <2>4. then
      BY <1>10, <2>3 DEF Fill
    <2>5. k + 1 < Count(m)
      BY <1>1, <1>2, <2>1
    <2> QED
      BY <1>2, <2>2, <2>4, <2>5
  <1> QED
    BY <1>2, <1>6, <1>7, <1>9, <1>10

LEMMA FillTurn ==
  ASSUME NEW m, NEW n, Has(m, n), AtFill(m, n), Match0
  PROVE  Underway'
  <1> DEFINE more == Then(pc, [reg EXCEPT !.cnt = Plus(@, 1), !.left = @ - 1])
             last == Then("copy_match_0_small", [reg EXCEPT !.cnt = FillFrom(Plus(@, 1))])
             next == IF reg.left > 1 THEN more ELSE last
  <1>1. /\ GoodMatch(m) /\ n \in Nat /\ IsRegs /\ Count(m) \in Nat /\ n + 1 < Count(m)
        /\ Straight(m, n) /\ reg.dicPos = Slot(m, Count(m) - 1) /\ Left(Count(m) - n - 1)
        /\ m.rep0 = 1 /\ reg.left \in 1 .. 3 /\ n + reg.left >= 3 /\ reg.sym = Bytewise(m)[n]
        /\ pc = "copy_match_0"
    BY LoopFacts DEF AtFill, Looping
  <1>2. Fill(1, next)
    BY DEF Match0
  <1>3. PICK k \in Nat : k = n + 1 /\ k < Count(m)
    BY <1>1
  <1>4. next \in BOOLEAN
    BY DEF Then
  <1> HIDE DEF next
  <1>5. /\ mem' = Copied(m, k) /\ touched' \subseteq Slots(m) /\ Bytewise(m)[k] = reg.sym
        /\ Plus(reg.cnt, 1) = 0 => AtEnd(m, k)' /\ IsRegs' /\ match' = match
        /\ Plus(reg.cnt, 1) # 0 => /\ Plus(reg.cnt, 1) = Full - (Count(m) - k - 1)
                                   /\ k + 1 < Count(m) /\ next
    <2>1. 0 < 1 /\ 1 <= 4 /\ n <= n /\ n <= n + 1 /\ n + 1 < Count(m) /\ 1 \in Nat
      BY <1>1
    <2> QED
      BY <1>1, <1>2, <1>3, <1>4, <2>1, Filled
  <1>6. CASE Plus(reg.cnt, 1) = 0
    BY <1>1, <1>3, <1>5, <1>6, Arrive DEF Place
  <1>7. CASE Plus(reg.cnt, 1) # 0 /\ reg.left > 1
    <2>1. /\ pc' = "copy_match_0" /\ match' = match
          /\ reg' = [reg EXCEPT !.cnt = Plus(@, 1), !.left = @ - 1]
      BY <1>1, <1>5, <1>7 DEF next, Then
    <2>2. /\ IsRegs' /\ reg'.cnt = Plus(reg.cnt, 1) /\ reg'.left = reg.left - 1
          /\ reg'.dicPos = reg.dicPos /\ reg'.sym = reg.sym
      BY <1>1, <2>1 DEF IsRegs
    <2>3. Straight(m, k)
      BY <1>1, <1>3, Ahead
    <2>4. reg.left - 1 \in 1 .. 3 /\ k + (reg.left - 1) >= 3
      BY <1>1, <1>3, <1>7
    <2>5. AtFill(m, k)'
      BY <1>1, <1>5, <1>7, <2>1, <2>2, <2>3, <2>4 DEF AtFill, Looping, Left
    <2> QED
      BY <1>1, <1>3, <1>5, <2>1, <2>2, <2>5, Arrive DEF Place
  <1>8. CASE Plus(reg.cnt, 1) # 0 /\ ~(reg.left > 1)
    <2>1. /\ pc' = "copy_match_0_small" /\ match' = match
          /\ reg' = [reg EXCEPT !.cnt = FillFrom(Plus(@, 1))]
      BY <1>5, <1>8 DEF next, Then
    <2>2. /\ IsRegs' /\ reg'.cnt = FillFrom(Plus(reg.cnt, 1))
          /\ reg'.dicPos = reg.dicPos /\ reg'.sym = reg.sym
      BY <1>1, <2>1 DEF IsRegs
    <2>3. PICK q \in Nat : q = Count(m) - k - 1 /\ 0 < q /\ q < Full
      <3>1. Count(m) - k - 1 \in Nat
        BY <1>1, <1>5, <1>8
      <3> QED
        BY <1>1, <1>3, <1>5, <1>8, <3>1, MatchFacts
    <2>4. PICK e \in Nat : e = (Full - q) % 4 /\ e < 4 /\ (q + e) % 4 = 0
      BY <2>3, Words
    <2>5. reg'.cnt = (Full - q) - e
      BY <1>5, <1>8, <2>2, <2>3, <2>4 DEF FillFrom, Aligned, WordSize
    <2>6. PICK p \in Nat : p = k - e
      <3>1. k >= 3
        BY <1>1, <1>3, <1>8
      <3>2. k - e \in Nat
        BY <2>4, <3>1
      <3> QED
        BY <3>2
    <2>7. p <= k /\ k < p + 4 /\ p + 1 < Count(m) /\ k = p + e /\ q + e = Count(m) - p - 1
      BY <1>1, <1>3, <1>5, <1>8, <2>3, <2>4, <2>6
    <2>8. (Count(m) - p - 1) % 4 = 0 /\ reg'.cnt = Full - (Count(m) - p - 1)
      <3>1. (Count(m) - p - 1) % 4 = 0
        BY <2>4, <2>7
      <3>2. (Full - q) - e = Full - (q + e)
        BY <2>3, <2>4, Sizes
      <3> QED
        BY <2>5, <2>7, <3>1, <3>2
    <2>9. reg'.sym = Bytewise(m)[p]
      <3>1. Bytewise(m)[p + e] = Bytewise(m)[p]
        BY <1>1, <1>3, <2>4, <2>7, SameByte
      <3> QED
        BY <1>5, <2>2, <2>7, <3>1
    <2>10. AtFillWords(m, k)'
      BY <1>1, <2>1, <2>2, <2>7, <2>8, <2>9 DEF AtFillWords, Left
    <2> QED
      BY <1>1, <1>3, <1>5, <2>1, <2>2, <2>10, Arrive DEF Place
  <1> QED
    BY <1>6, <1>7, <1>8

LEMMA FillWordsTurn ==
  ASSUME NEW m, NEW n, Has(m, n), AtFillWords(m, n), Match0Small
  PROVE  Underway'
  <1> DEFINE next == Then(pc, [reg EXCEPT !.cnt = Plus(@, WordSize)])
  <1>1. /\ GoodMatch(m) /\ n \in Nat /\ IsRegs /\ Count(m) \in Nat
        /\ reg.dicPos = Slot(m, Count(m) - 1) /\ m.rep0 = 1 /\ pc = "copy_match_0_small"
    BY MatchFacts DEF Has, AtFillWords
  <1>2. PICK p \in Nat :
          /\ p <= n /\ n < p + 4 /\ p + 1 < Count(m) /\ (Count(m) - p - 1) % 4 = 0
          /\ Left(Count(m) - p - 1) /\ reg.sym = Bytewise(m)[p]
    BY DEF AtFillWords
  <1>3. PICK g \in Nat : g = Count(m) - p - 1 /\ 0 < g
    <2>1. Count(m) - p - 1 \in Nat /\ 0 < Count(m) - p - 1
      BY <1>1, <1>2
    <2> QED
      BY <2>1
  <1>4. g >= 4 /\ (g - 4) % 4 = 0
    <2>1. g % 4 = 0
      BY <1>2, <1>3
    <2>2. g >= 4
      BY <1>3, <2>1, Multiple
    <2> QED
      BY <2>1, <2>2, Periodic
  <1>5. PICK k \in Nat : k = p + 4 /\ k < Count(m) /\ n <= k /\ Count(m) - k - 1 = g - 4
    BY <1>1, <1>2, <1>3, <1>4
  <1>6. Fill(4, next)
    BY DEF Match0Small, WordSize
  <1>7. next \in BOOLEAN
    BY DEF Then
  <1> HIDE DEF next
  <1>8. /\ mem' = Copied(m, k) /\ touched' \subseteq Slots(m) /\ Bytewise(m)[k] = reg.sym
        /\ Plus(reg.cnt, 4) = 0 => AtEnd(m, k)' /\ IsRegs' /\ match' = match
        /\ Plus(reg.cnt, 4) # 0 => /\ Plus(reg.cnt, 4) = Full - (Count(m) - k - 1)
                                   /\ k + 1 < Count(m) /\ next
    <2>1. 0 < 4 /\ 4 <= 4 /\ n <= p + 4 /\ p + 4 < Count(m) /\ 4 \in Nat
      BY <1>1, <1>5
    <2> QED
      BY <1>1, <1>2, <1>5, <1>6, <1>7, <2>1, Filled
  <1>9. CASE Plus(reg.cnt, 4) = 0
    BY <1>1, <1>5, <1>8, <1>9, Arrive DEF Place
  <1>10. CASE Plus(reg.cnt, 4) # 0
    <2>1. /\ pc' = "copy_match_0_small" /\ match' = match
          /\ reg' = [reg EXCEPT !.cnt = Plus(@, 4)]
      BY <1>1, <1>8, <1>10 DEF next, Then, WordSize
    <2>2. IsRegs' /\ reg'.cnt = Plus(reg.cnt, 4) /\ reg'.dicPos = reg.dicPos /\ reg'.sym = reg.sym
      BY <1>1, <2>1 DEF IsRegs
    <2>3. (Count(m) - k - 1) % 4 = 0
      BY <1>4, <1>5
    <2>4. k <= k /\ k < k + 4
      OBVIOUS
    <2>5. AtFillWords(m, k)'
      BY <1>1, <1>8, <1>10, <2>1, <2>2, <2>3, <2>4 DEF AtFillWords, Left
    <2> QED
      BY <1>1, <1>5, <1>8, <2>1, <2>2, <2>5, Arrive DEF Place
  <1> QED
    BY <1>9, <1>10

LEMMA EndTurn ==
  ASSUME NEW m, NEW n, Has(m, n), AtEnd(m, n), CopyEnd
  PROVE  Underway'
  <1>1. /\ GoodMatch(m) /\ n \in Nat /\ IsRegs /\ Count(m) \in Nat /\ n + 1 = Count(m)
        /\ n < Count(m) /\ reg.dicPos = Slot(m, n) /\ reg.sym = Bytewise(m)[n]
    BY MatchFacts DEF Has, AtEnd
  <1>2. PICK k \in Nat : k = n + 1 /\ k = Count(m) /\ k - 1 = n
    BY <1>1
  <1>3. mem' = Copied(m, k) /\ touched' \subseteq Slots(m)
    BY <1>1, <1>2, OnePut DEF CopyEnd
  <1>4. match' = match /\ pc' = "copied" /\ reg' = [reg EXCEPT !.dicPos = Plus(@, 1)]
    BY DEF CopyEnd, Then
  <1>5. IsRegs' /\ reg'.dicPos = Plus(Slot(m, n), 1) /\ reg'.sym = Bytewise(m)[n]
    BY <1>1, <1>4 DEF IsRegs
  <1>6. Plus(Slot(m, n), 1) = Slot(m, k)
    <2>1. Slot(m, n) \in Nat /\ Slot(m, n) + 1 < Full /\ Slot(m, n) + 1 = Slot(m, k)
      BY <1>1, <1>2, MatchFacts DEF Slot
    <2> QED
      BY <2>1, Address
  <1>7. AtCopied(m, k)'
    BY <1>2, <1>4, <1>5, <1>6 DEF AtCopied
  <1>8. k <= Count(m)
    BY <1>2
  <1> QED
    BY <1>3, <1>4, <1>5, <1>7, <1>8, Arrive DEF Place

\* What a step of decodeLoop that copies c bytes does.
LEMMA Counted ==
  ASSUME NEW m, NEW n, Has(m, n), Counting(m, n), NEW c \in Nat, 0 < c, c <= reg.left,
         NEW from, NEW source, GoBytes(c, from, source),
         Right(m, n, c, Load(mem, from, c, Wild)), arch' = arch
  PROVE  /\ mem' = Copied(m, n + c) /\ touched' \subseteq Slots(m) /\ match' = match /\ IsRegs'
         /\ n + c <= Count(m) /\ n + c \in Nat
         /\ n + c = Count(m) => AtCopied(m, n + c)'
         /\ n + c # Count(m) => /\ Counting(m, n + c)' /\ reg'.t0 = source
                                /\ pc' = IF pc = "go_byte" THEN pc ELSE "go_double"
  <1>1. /\ GoodMatch(m) /\ n \in Nat /\ IsRegs /\ Count(m) \in Nat /\ n < Count(m)
        /\ arch = "go" /\ reg.cnt = n /\ reg.left = Count(m) - n /\ reg.dicPos = Slot(m, 0)
    BY MatchFacts DEF Has, Counting
  <1>2. PICK k \in Nat : k = n + c /\ k <= Count(m) /\ reg.left - c = Count(m) - k
    BY <1>1
  <1>3. At = Slot(m, n)
    <2>1. Slot(m, 0) \in Nat /\ Slot(m, 0) + n < Full /\ Slot(m, 0) + n = Slot(m, n)
      BY <1>1, MatchFacts DEF Slot
    <2> QED
      BY <1>1, <2>1, Address DEF At
  <1>4. Put(Slot(m, n), Load(mem, from, c, Wild))
    BY <1>3 DEF GoBytes
  <1>5. mem' = Copied(m, k) /\ touched' \subseteq Slots(m)
    BY <1>1, <1>2, <1>4, Puts
  <1>6. PICK r : r = [reg EXCEPT !.cnt = @ + c, !.left = @ - c, !.t0 = source]
    OBVIOUS
  <1>7. IF r.left # 0 THEN Then(IF pc = "go_byte" THEN pc ELSE "go_double", r)
        ELSE Then("copied", [r EXCEPT !.dicPos = @ + r.cnt])
    BY <1>6 DEF GoBytes
  <1>8. /\ r.cnt = n + c /\ r.left = reg.left - c /\ r.t0 = source /\ r.dicPos = Slot(m, 0)
        /\ r = [t0 |-> r.t0, cnt |-> r.cnt, dicPos |-> r.dicPos, rep0 |-> r.rep0,
                dst |-> r.dst, left |-> r.left, sym |-> r.sym]
    BY <1>1, <1>6 DEF IsRegs
  <1>9. CASE k = Count(m)
    <2>1. r.left = 0
      BY <1>2, <1>8, <1>9
    <2>2. match' = match /\ pc' = "copied" /\ reg' = [r EXCEPT !.dicPos = @ + r.cnt]
      BY <1>7, <2>1 DEF Then
    <2>3. IsRegs' /\ reg'.dicPos = Slot(m, 0) + k
      BY <1>2, <1>8, <2>2 DEF IsRegs
    <2>4. Slot(m, 0) + k = Slot(m, k)
      BY <1>1, <1>2, MatchFacts DEF Slot
    <2>5. AtCopied(m, k)'
      BY <1>1, <1>9, <2>2, <2>3, <2>4 DEF AtCopied
    <2> QED
      BY <1>2, <1>5, <1>9, <2>2, <2>3, <2>5
  <1>10. CASE k # Count(m)
    <2>1. r.left # 0 /\ k < Count(m)
      BY <1>1, <1>2, <1>8, <1>10
    <2>2. match' = match /\ reg' = r /\ pc' = (IF pc = "go_byte" THEN pc ELSE "go_double")
      BY <1>7, <2>1 DEF Then
    <2>3. IsRegs'
      BY <1>8, <2>2 DEF IsRegs
    <2>4. Counting(m, k)'
      BY <1>1, <1>2, <1>8, <2>1, <2>2 DEF Counting
    <2> QED
      BY <1>2, <1>5, <1>8, <1>10, <2>2, <2>3, <2>4
  <1> QED
    BY <1>9, <1>10

LEMMA SeedTurn ==
  ASSUME NEW m, NEW n, Has(m, n), AtSeed(m, n), GoSeed, arch' = arch
  PROVE  Underway'
  <1>1. /\ GoodMatch(m) /\ n \in Nat /\ Count(m) \in Nat /\ mem = Copied(m, n)
        /\ n = 0 /\ n < Count(m) /\ Straight(m, n) /\ reg.t0 = From(m, n) /\ Counting(m, n)
        /\ reg.left = Count(m) - n /\ pc = "go_seed" /\ m.rep0 \in Nat /\ 1 <= m.rep0
        /\ Source(m, n) \in Nat /\ reg.rep0 = m.rep0
    BY MatchFacts, SourceFacts DEF Has, AtSeed, Counting
  <1>2. PICK c \in Nat : c = AtMost(reg.rep0)
    BY <1>1 DEF AtMost
  <1>3. /\ 0 < c /\ c <= m.rep0 /\ c <= reg.left /\ n + c <= Count(m) /\ n + c = c
        /\ c # Count(m) => c = m.rep0
    BY <1>1, <1>2 DEF AtMost
  <1>4. Right(m, n, c, Load(mem, reg.t0, c, Wild))
    <2>1. Source(m, n) + c <= m.dicBufSize
      BY <1>1, <1>3, MatchFacts DEF Straight
    <2> QED
      BY <1>1, <1>3, <2>1, RunLoaded
  <1>5. GoBytes(c, reg.t0, reg.t0)
    BY <1>2 DEF GoSeed
  <1>6. /\ mem' = Copied(m, c) /\ touched' \subseteq Slots(m) /\ match' = match /\ IsRegs'
        /\ c = Count(m) => AtCopied(m, c)'
        /\ c # Count(m) => Counting(m, c)' /\ pc' = "go_double"
    <2>1. PICK from : from = reg.t0
      OBVIOUS
    <2>2. GoBytes(c, from, from) /\ Right(m, n, c, Load(mem, from, c, Wild))
      BY <1>4, <1>5, <2>1
    <2> QED
      BY <1>1, <1>3, <2>2, Counted
  <1>7. ASSUME c # Count(m) PROVE AtDouble(m, c)'
    <2>1. \A i \in Nat : i + c < Count(m) => Bytewise(m)[i + c] = Bytewise(m)[i]
      BY <1>1, <1>3, <1>7, Period
    <2> QED
      BY <1>3, <1>6, <1>7, <2>1 DEF AtDouble
  <1> QED
    BY <1>3, <1>6, <1>7, Arrive DEF Place

LEMMA DoubleTurn ==
  ASSUME NEW m, NEW n, Has(m, n), AtDouble(m, n), GoDouble, arch' = arch
  PROVE  Underway'
  <1>1. /\ GoodMatch(m) /\ n \in Nat /\ Count(m) \in Nat /\ mem = Copied(m, n)
        /\ n > 0 /\ n < Count(m) /\ Counting(m, n) /\ reg.cnt = n /\ reg.dicPos = Slot(m, 0)
        /\ reg.left = Count(m) - n /\ pc = "go_double"
    BY MatchFacts DEF Has, AtDouble, Counting
  <1>2. \A i \in Nat : i + n < Count(m) => Bytewise(m)[i + n] = Bytewise(m)[i]
    BY DEF AtDouble
  <1>3. PICK c \in Nat, k \in Nat :
          /\ c = AtMost(reg.cnt) /\ 0 < c /\ c <= n /\ c <= reg.left /\ k = n + c /\ k <= Count(m)
          /\ k # Count(m) => c = n
    <2>1. AtMost(reg.cnt) \in Nat /\ n + AtMost(reg.cnt) \in Nat
      BY <1>1 DEF AtMost
    <2> QED
      BY <1>1, <2>1 DEF AtMost
  <1>4. Right(m, n, c, Load(mem, Slot(m, 0), c, Wild))
    <2>1. PICK a \in Nat : a = Slot(m, 0) /\ Dic <= a /\ a + c <= Dic + m.dicBufSize
      BY <1>1, <1>3, MatchFacts DEF Slot
    <2>2. Load(mem, a, c, Wild) = [i \in 1 .. c |-> mem[a + i - 1]]
      BY <1>1, <2>1, Loaded
    <2>3. ASSUME NEW i \in 1 .. c
          PROVE  mem[a + i - 1] = Bytewise(m)[n + i - 1]
      <3>1. PICK j \in Nat : j = i - 1 /\ j < c
        <4>1. i - 1 \in Nat /\ i - 1 < c
          OBVIOUS
        <4> QED
          BY <4>1
      <3>2. a + i - 1 = Slot(m, j) /\ n + i - 1 = j + n /\ j < n /\ j + n < Count(m)
        BY <1>1, <1>3, <2>1, <3>1, MatchFacts DEF Slot
      <3>3. mem[Slot(m, j)] = Bytewise(m)[j]
        BY <1>1, <3>1, <3>2, Written
      <3>4. Bytewise(m)[j + n] = Bytewise(m)[j]
        BY <1>2, <3>1, <3>2
      <3> QED
        BY <3>2, <3>3, <3>4
    <2>4. ASSUME NEW f, f = [i \in 1 .. c |-> mem[a + i - 1]]
          PROVE  Len(f) = c /\ \A i \in 1 .. c : f[i] = Bytewise(m)[n + i - 1]
      <3>1. Len(f) = c
        BY <2>4
      <3>2. ASSUME NEW i \in 1 .. c PROVE f[i] = mem[a + i - 1]
        BY <2>4
      <3> QED
        BY <2>3, <3>1, <3>2
    <2> QED
      BY <2>1, <2>2, <2>4 DEF Right
  <1>5. GoBytes(c, Slot(m, 0), reg.t0)
    BY <1>1, <1>3 DEF GoDouble
  <1>6. /\ mem' = Copied(m, k) /\ touched' \subseteq Slots(m) /\ match' = match /\ IsRegs'
        /\ k = Count(m) => AtCopied(m, k)'
        /\ k # Count(m) => Counting(m, k)' /\ pc' = "go_double"
    <2>1. PICK from, source : from = Slot(m, 0) /\ source = reg.t0
      OBVIOUS
    <2>2. GoBytes(c, from, source) /\ Right(m, n, c, Load(mem, from, c, Wild))
      BY <1>4, <1>5, <2>1
    <2> QED
      BY <1>1, <1>3, <2>2, Counted
  <1>7. ASSUME k # Count(m) PROVE AtDouble(m, k)'
    <2>1. ASSUME NEW i \in Nat, i + k < Count(m)
          PROVE  Bytewise(m)[i + k] = Bytewise(m)[i]
      <3>1. PICK j \in Nat : j = i + n /\ j + n = i + k /\ j < Count(m) /\ j + n < Count(m)
        BY <1>1, <1>3, <1>7, <2>1
      <3>2. Bytewise(m)[j + n] = Bytewise(m)[j]
        BY <1>2, <3>1
      <3>3. Bytewise(m)[i + n] = Bytewise(m)[i]
        BY <1>2, <3>1
      <3> QED
        BY <3>1, <3>2, <3>3
    <2>2. k > 0
      BY <1>1, <1>3
    <2> QED
      BY <1>6, <1>7, <2>1, <2>2 DEF AtDouble
  <1> QED
    BY <1>3, <1>6, <1>7, Arrive DEF Place

LEMMA GoByteTurn ==
  ASSUME NEW m, NEW n, Has(m, n), AtGoByte(m, n), GoByte, arch' = arch
  PROVE  Underway'
  <1>1. /\ GoodMatch(m) /\ n \in Nat /\ Count(m) \in Nat /\ mem = Copied(m, n) /\ match = m
        /\ n < Count(m) /\ reg.t0 = From(m, n) /\ Counting(m, n)
        /\ reg.left = Count(m) - n /\ pc = "go_byte"
    BY MatchFacts DEF Has, AtGoByte, Counting
  <1>2. PICK k \in Nat : k = n + 1
    BY <1>1
  <1>3. PICK from, source :
          /\ from = reg.t0
          /\ source = IF reg.t0 + 1 = Dic + m.dicBufSize THEN Dic ELSE reg.t0 + 1
    OBVIOUS
  <1>4. GoBytes(1, from, source)
    BY <1>1, <1>3 DEF GoByte
  <1>5. Right(m, n, 1, Load(mem, from, 1, Wild))
    <2>1. n + 1 <= Count(m) /\ 1 <= m.rep0 /\ Source(m, n) + 1 <= m.dicBufSize
      BY <1>1, SourceFacts, MatchFacts
    <2> QED
      BY <1>1, <1>3, <2>1, RunLoaded
  <1>6. /\ mem' = Copied(m, k) /\ touched' \subseteq Slots(m) /\ match' = match /\ IsRegs'
        /\ k <= Count(m)
        /\ k = Count(m) => AtCopied(m, k)'
        /\ k # Count(m) => Counting(m, k)' /\ reg'.t0 = source /\ pc' = "go_byte"
    <2>1. 0 < 1 /\ 1 <= reg.left /\ 1 \in Nat
      BY <1>1
    <2> QED
      BY <1>1, <1>2, <1>4, <1>5, <2>1, Counted
  <1>7. ASSUME k # Count(m) PROVE AtGoByte(m, k)'
    <2>1. n + 1 < Count(m)
      BY <1>1, <1>2, <1>6, <1>7
    <2>2. source = From(m, k)
      <3>1. PICK s \in Nat : s = Source(m, n) /\ s < m.dicBufSize /\ reg.t0 = Dic + s
        BY <1>1, SourceFacts DEF From
      <3>2. (reg.t0 + 1 = Dic + m.dicBufSize) <=> s + 1 = m.dicBufSize
        BY <1>1, <3>1, MatchFacts
      <3>3. CASE s + 1 = m.dicBufSize
        <4>1. Source(m, k) = 0 /\ source = Dic
          BY <1>1, <1>2, <1>3, <2>1, <3>1, <3>2, <3>3, SourceNext
        <4> QED
          BY <4>1, <1>1, MatchFacts DEF From
      <3>4. CASE s + 1 # m.dicBufSize
        <4>1. s + 1 < m.dicBufSize
          BY <1>1, <3>1, <3>4, MatchFacts
        <4>2. Source(m, k) = s + 1 /\ source = Dic + s + 1
          BY <1>1, <1>2, <1>3, <2>1, <3>1, <3>2, <3>4, <4>1, SourceNext
        <4> QED
          BY <4>2, <1>1, <3>1, MatchFacts DEF From
      <3> QED
        BY <3>3, <3>4
    <2> QED
      BY <1>6, <1>7, <2>2 DEF AtGoByte
  <1> QED
    BY <1>2, <1>6, <1>7, Arrive DEF Place

----------------------------------------------------------------------------
(* Where a copy begins. *)

LEMMA LegalGood ==
  ASSUME NEW m \in LegalMatches, m.start < m.limit
  PROVE  GoodMatch(m)
  <1>1. PICK b \in BufSizes :
          m \in [dicBufSize : {b}, start : 0 .. b - 1, limit : 0 .. b, rep0 : 1 .. b, len : 2 .. MaxLen]
    BY DEF LegalMatches, Matches
  <1>2. b \in Nat /\ MaxLen \in Nat
    BY CopyAssumption
  <1> QED
    BY <1>1, <1>2 DEF GoodMatch

\* A kernel has the distance itself, however it was loaded.
LEMMA Rep0Held ==
  ASSUME NoSignBit \/ Amd, NEW m, GoodMatch(m), NEW loaded
  PROVE  Rep0(m, loaded) = m.rep0
  <1>1. m.rep0 \in Nat /\ m.rep0 < Half /\ Half \in Nat /\ Half > 0
    BY MatchFacts, Sizes
  <1>2. Low(m.rep0) = m.rep0
    BY <1>1, Turn DEF Low
  <1>3. NoSignBit => SignExtended(m.rep0) = m.rep0
    <2>1. NoSignBit => 2 * m.rep0 < Half
      BY <1>1, MatchFacts DEF NoSignBit, GoodMatch
    <2> QED
      BY <1>2, <2>1 DEF SignExtended
  <1> QED
    BY <1>2, <1>3 DEF Rep0

\* Both kernels compute the source, and see whether it crosses the end.
LEMMA SourceHeld ==
  ASSUME NEW m, GoodMatch(m)
  PROVE  /\ SourceOffset(m, m.rep0) = Source(m, 0)
         /\ Crosses(m, m.rep0, Count(m)) => m.dicBufSize - Source(m, 0) < Count(m)
         /\ ~Crosses(m, m.rep0, Count(m)) => Straight(m, 0)
  <1>1. PICK b \in Nat, s \in Nat, r \in Nat, L \in Nat, q \in Nat :
          /\ b = m.dicBufSize /\ s = m.start /\ r = m.rep0 /\ L = Count(m) /\ q = Source(m, 0)
          /\ 1 <= L /\ s + L <= b /\ r <= b /\ 2 * b < Full /\ Full \in Nat /\ q < b
          /\ q = IF r <= s THEN s - r ELSE s - r + b
    <2>1. 0 < Count(m) /\ m.start + 0 - m.rep0 = m.start - m.rep0 /\ m.start + 0 = m.start
      BY MatchFacts
    <2>2. Source(m, 0) \in Nat /\ Source(m, 0) < m.dicBufSize
          /\ Source(m, 0) = IF m.rep0 <= m.start THEN m.start - m.rep0
                            ELSE m.start - m.rep0 + m.dicBufSize
      BY <2>1, SourceFacts
    <2> QED
      BY <2>2, MatchFacts
  <1>2. CASE r <= s
    <2>1. ~Wrapped(m, r)
      BY <1>1, <1>2 DEF Wrapped, NoBorrow
    <2>2. Minus(s, r) = s - r
      <3>1. 0 <= s - r /\ s - r < Full
        BY <1>1, <1>2
      <3> QED
        BY <3>1, MinusFits
    <2>3. SourceOffset(m, r) = q /\ ~Crosses(m, r, L)
      BY <1>1, <1>2, <2>1, <2>2 DEF SourceOffset, Crosses
    <2>4. q + (L - 0) <= b
      BY <1>1, <1>2
    <2> QED
      BY <1>1, <2>3, <2>4 DEF Straight
  <1>3. CASE ~(r <= s)
    <2>1. Wrapped(m, r)
      BY <1>1, <1>3 DEF Wrapped, NoBorrow
    <2>2. Minus(s, r) = s - r + Full
      <3>1. 0 - Full <= s - r /\ s - r < 0
        BY <1>1, <1>3
      <3> QED
        BY <3>1, MinusWraps
    <2>3. Plus(s - r + Full, b) = q
      <3>1. s - r + Full \in Int /\ Full <= (s - r + Full) + b /\ (s - r + Full) + b < 2 * Full
        BY <1>1, <1>3
      <3> QED
        BY <1>1, <1>3, <3>1, PlusWraps
    <2>4. SourceOffset(m, r) = q
      BY <1>1, <2>1, <2>2, <2>3 DEF SourceOffset
    <2>5. Minus(b, q) = b - q
      BY <1>1, MinusFits
    <2>6. Crosses(m, r, L) <=> L > b - q
      <3>1. CarryAbove(L, s - r + Full) <=> L > b - q
        BY <1>1, <1>3 DEF CarryAbove
      <3> QED
        BY <1>1, <2>1, <2>2, <2>4, <2>5, <3>1 DEF Crosses
    <2>7. ~(L > b - q) => q + (L - 0) <= b
      BY <1>1
    <2> QED
      BY <1>1, <2>4, <2>6, <2>7 DEF Straight
  <1> QED
    BY <1>2, <1>3

LEMMA Begin ==
  ASSUME NEW m, GoodMatch(m), NEW regs, NEW label, Enter(m, regs, label),
         IsRegs', Place(m, 0)'
  PROVE  Underway'
  <1>1. Has(m, 0)'
    BY MatchFacts DEF Has, Enter
  <1> QED
    BY <1>1 DEF Underway

\* What the wide loop has to copy.
LEMMA Whole ==
  ASSUME NEW x \in Nat, NEW w \in Nat, w > 0, x >= w
  PROVE  Aligned(x, w) \in Nat /\ Aligned(x, w) > 0 /\ Aligned(x, w) % w = 0
  <1>1. PICK q \in Int, e \in Int : q = x \div w /\ e = x % w
    BY DivMod
  <1>2. x = w * q + e /\ e \in 0 .. w - 1
    BY <1>1, DivMod
  <1>3. PICK d \in Nat : d = x - e /\ d > 0
    <2>1. x - e \in Nat /\ x - e > 0
      BY <1>2
    <2> QED
      BY <2>1
  <1>4. d = w * q + 0 /\ 0 \in 0 .. w - 1
    BY <1>2, <1>3
  <1>5. d % w = 0
    BY <1>4, DivUnique
  <1>6. Aligned(x, w) = d
    BY <1>1, <1>3 DEF Aligned
  <1> QED
    BY <1>3, <1>5, <1>6

LEMMA CopyMatchTurn ==
  ASSUME NoSignBit \/ Amd, NEW m, GoodMatch(m), NEW loaded, CopyMatch(m, loaded)
  PROVE  Underway'
  <1>1. PICK off \in Nat, L \in Nat :
          /\ off = Source(m, 0) /\ L = Count(m) /\ 0 < L /\ off < m.dicBufSize /\ L < Full
          /\ off = SourceOffset(m, m.rep0)
    BY MatchFacts, SourceFacts, SourceHeld
  <1>2. Plus(Dic, off) = From(m, 0)
    BY <1>1, Address, MatchFacts DEF From
  <1>3. Plus(Dic, m.start + L) = Slot(m, L)
    <2>1. m.start + L \in Nat /\ Dic + (m.start + L) < Full /\ Slot(m, L) = Dic + (m.start + L)
      BY <1>1, MatchFacts DEF Slot
    <2> QED
      BY <2>1, Address, MatchFacts
  <1>4. PICK r : r = Regs(From(m, 0), L, Slot(m, L), m.rep0)
    OBVIOUS
  <1>5. \/ /\ Crosses(m, m.rep0, L)
           /\ Enter(m, [r EXCEPT !.t0 = off, !.cnt = Negated(L)], "copy_cross_loop")
        \/ /\ ~Crosses(m, m.rep0, L) /\ CanBeWide(m.rep0, L)
           /\ Enter(m, [r EXCEPT !.dst = Minus(r.dicPos, L), !.left = Aligned(L, Wide)], "copy_wide_loop")
        \/ ~Crosses(m, m.rep0, L) /\ Enter(m, r, "copy_no_wrap_byte")
    BY <1>1, <1>2, <1>3, <1>4, Rep0Held DEF CopyMatch
  <1>6. /\ r = [t0 |-> From(m, 0), cnt |-> L, dicPos |-> Slot(m, L), rep0 |-> m.rep0,
                dst |-> 0, left |-> 0, sym |-> 0]
    BY <1>4 DEF Regs
  <1>7. CASE /\ Crosses(m, m.rep0, L)
             /\ Enter(m, [r EXCEPT !.t0 = off, !.cnt = Negated(L)], "copy_cross_loop")
    <2>1. pc' = "copy_cross_loop" /\ reg' = [r EXCEPT !.t0 = off, !.cnt = Negated(L)]
      BY <1>7 DEF Enter
    <2>2. /\ IsRegs' /\ reg'.t0 = off /\ reg'.cnt = Negated(L) /\ reg'.dicPos = Slot(m, L)
          /\ reg'.rep0 = m.rep0
      BY <1>6, <2>1 DEF IsRegs
    <2>3. Negated(L) = Full - (L - 0)
      <3>1. 0 - Full <= 0 - L /\ 0 - L < 0
        BY <1>1, Sizes
      <3>2. Minus(0, L) = 0 - L + Full
        BY <1>1, <3>1, MinusWraps
      <3> QED
        BY <1>1, <3>2, Sizes DEF Negated
    <2>4. 0 + (m.dicBufSize - Source(m, 0)) < L
      BY <1>1, <1>7, SourceHeld, MatchFacts
    <2>5. AtCross(m, 0)'
      BY <1>1, <2>1, <2>2, <2>3, <2>4 DEF AtCross, Left
    <2> QED
      BY <1>7, <2>2, <2>5, Begin DEF Place
  <1>8. CASE /\ ~Crosses(m, m.rep0, L) /\ CanBeWide(m.rep0, L)
             /\ Enter(m, [r EXCEPT !.dst = Minus(r.dicPos, L), !.left = Aligned(L, Wide)], "copy_wide_loop")
    <2>1. pc' = "copy_wide_loop" /\ reg' = [r EXCEPT !.dst = Minus(r.dicPos, L), !.left = Aligned(L, Wide)]
      BY <1>8 DEF Enter
    <2>2. /\ IsRegs' /\ reg'.t0 = From(m, 0) /\ reg'.cnt = L /\ reg'.dicPos = Slot(m, L)
          /\ reg'.dst = Minus(Slot(m, L), L) /\ reg'.left = Aligned(L, Wide)
      BY <1>6, <2>1 DEF IsRegs
    <2>3. Minus(Slot(m, L), L) = Slot(m, 0)
      <3>1. Slot(m, L) \in Nat /\ Slot(m, L) - L = Slot(m, 0) /\ 0 <= Slot(m, L) - L
            /\ Slot(m, L) - L < Full
        BY <1>1, MatchFacts DEF Slot
      <3> QED
        BY <1>1, <3>1, MinusFits
    <2>4. L >= Wide /\ Wide \in Nat /\ Wide > 0
      BY <1>8, Sizes DEF CanBeWide
    <2>5. PICK d \in Nat : d = Aligned(L, Wide) /\ d > 0 /\ d % Wide = 0
      BY <2>4, Whole
    <2>6. 0 + d = L - (L % Wide)
      <3>1. 0 + d = d
        OBVIOUS
      <3> QED
        BY <2>5, <3>1 DEF Aligned
    <2>8. m.rep0 >= L /\ Straight(m, 0)
      BY <1>1, <1>8, SourceHeld DEF CanBeWide
    <2>9. AtWide(m, 0)'
      BY <1>1, <2>1, <2>2, <2>3, <2>5, <2>6, <2>8 DEF AtWide
    <2> QED
      BY <1>8, <2>2, <2>9, Begin DEF Place
  <1>9. CASE ~Crosses(m, m.rep0, L) /\ Enter(m, r, "copy_no_wrap_byte")
    <2>1. pc' = "copy_no_wrap_byte" /\ reg' = r
      BY <1>9 DEF Enter
    <2>2. /\ IsRegs' /\ reg'.t0 = From(m, 0) /\ reg'.cnt = L /\ reg'.dicPos = Slot(m, L)
          /\ reg'.rep0 = m.rep0
      BY <1>6, <2>1 DEF IsRegs
    <2>3. AtNoWrap(m, 0)'
      BY <1>1, <1>9, <2>1, <2>2, SourceHeld DEF AtNoWrap
    <2> QED
      BY <1>9, <2>2, <2>3, Begin DEF Place
  <1> QED
    BY <1>5, <1>7, <1>8, <1>9

\* A short rep: what StartShort copies is a match of one byte.
LEMMA CopyShortTurn ==
  ASSUME NoSignBit \/ Amd, NEW m, GoodMatch(m), m.len = 1, NEW loaded, CopyShort(m, loaded)
  PROVE  Underway'
  <1>1. Count(m) = 1 /\ Source(m, 0) \in Nat /\ Source(m, 0) < m.dicBufSize
    <2>1. Count(m) = 1
      BY DEF GoodMatch, Count, Room
    <2> QED
      BY <2>1, SourceFacts
  <1>2. Plus(Dic, SourceOffset(m, m.rep0)) = From(m, 0)
    BY <1>1, SourceHeld, Address, MatchFacts DEF From
  <1>3. Plus(Dic, m.start) = Slot(m, 0)
    <2>1. Dic + m.start < Full /\ Slot(m, 0) = Dic + m.start
      BY MatchFacts DEF Slot
    <2> QED
      BY <2>1, Address, MatchFacts
  <1>4. PICK x : x = Load(Copied(m, 0), From(m, 0), 1, Wild)[1]
    OBVIOUS
  <1>5. x = Bytewise(m)[0]
    BY <1>1, <1>4, NextLoaded
  <1>6. Enter(m, [Regs(0, 0, Slot(m, 0), m.rep0) EXCEPT !.sym = x], "copy_end")
    BY <1>2, <1>3, <1>4, Rep0Held DEF CopyShort
  <1>7. pc' = "copy_end" /\ reg' = [Regs(0, 0, Slot(m, 0), m.rep0) EXCEPT !.sym = x]
    BY <1>6 DEF Enter
  <1>8. IsRegs' /\ reg'.dicPos = Slot(m, 0) /\ reg'.sym = x
    BY <1>7 DEF IsRegs, Regs
  <1>9. AtEnd(m, 0)'
    BY <1>1, <1>5, <1>7, <1>8 DEF AtEnd
  <1> QED
    BY <1>6, <1>8, <1>9, Begin DEF Place

LEMMA GoCopyTurn ==
  ASSUME NEW m, GoodMatch(m), GoCopy(m), arch = "go", arch' = arch
  PROVE  Underway'
  <1>1. PICK off \in Nat, L \in Nat :
          /\ off = Source(m, 0) /\ L = Count(m) /\ 0 < L /\ off < m.dicBufSize
          /\ L - 0 = L
    <2>1. 0 < Count(m)
      BY MatchFacts
    <2>2. Source(m, 0) \in Nat /\ Source(m, 0) < m.dicBufSize
      BY <2>1, SourceFacts
    <2> QED
      BY <2>1, <2>2, MatchFacts
  <1>2. Plus(Dic, off) = From(m, 0) /\ Dic + m.start = Slot(m, 0)
    BY <1>1, Address, MatchFacts DEF From, Slot
  <1>3. PICK fits \in BOOLEAN : fits = (L <= m.dicBufSize - off /\ m.rep0 <= m.dicBufSize - off)
    OBVIOUS
  <1>4. Enter(m, [Regs(From(m, 0), 0, Slot(m, 0), m.rep0) EXCEPT !.left = L],
              IF fits THEN "go_seed" ELSE "go_byte")
    BY <1>1, <1>2, <1>3 DEF GoCopy
  <1>5. /\ pc' = IF fits THEN "go_seed" ELSE "go_byte"
        /\ reg' = [Regs(From(m, 0), 0, Slot(m, 0), m.rep0) EXCEPT !.left = L]
    BY <1>4 DEF Enter
  <1>6. /\ IsRegs' /\ reg'.t0 = From(m, 0) /\ reg'.cnt = 0 /\ reg'.dicPos = Slot(m, 0)
        /\ reg'.rep0 = m.rep0 /\ reg'.left = L
    BY <1>5 DEF IsRegs, Regs
  <1>7. Counting(m, 0)'
    BY <1>1, <1>6 DEF Counting
  <1>8. CASE fits
    <2>1. Straight(m, 0)
      <3>1. L <= m.dicBufSize - off
        BY <1>3, <1>8, Zenon
      <3> QED
        BY <1>1, <3>1, MatchFacts DEF Straight
    <2>2. AtSeed(m, 0)'
      BY <1>5, <1>6, <1>7, <1>8, <2>1 DEF AtSeed
    <2> QED
      BY <1>4, <1>6, <2>2, Begin DEF Place
  <1>9. CASE ~fits
    <2>1. AtGoByte(m, 0)'
      BY <1>5, <1>6, <1>7, <1>9 DEF AtGoByte
    <2> QED
      BY <1>4, <1>6, <2>1, Begin DEF Place
  <1> QED
    BY <1>8, <1>9

----------------------------------------------------------------------------
(* The blocks that copy nothing. *)

Elsewhere == CopyPcs \union {"decodeLoop"}
Outside(block) == block.to \cap Elsewhere = {}

\* No block of the amd64 kernel goes on inside the copy.
LEMMA AmdOutside ==
  \A label \in DOMAIN AmdBlocks : Outside(AmdBlocks[label])
  <1> USE DEF Outside, Elsewhere, CopyPcs, Block, AmdDecodes, AmdLen, AmdTurned
  <1>1. DOMAIN AmdBlocks =
          {"entry", "lit_end", "lit_start", "lit_start_2", "IsMatch_label", "new_match",
           "len_decode_match", "len_decode_rep", "decode_distance", "direct", "short_dist",
           "slot_is_distance", "decode_dist_end", "new_distance", "copy_match",
           "fin_dicPos_LIMIT", "lz_check_limits", "lz_end", "lit_matched", "lit_matched_store",
           "lit_matched_end", "lit_after_matched", "IsRep_label", "IsRep0Long",
           "IsRep0Short_label", "IsRepG0_label", "take_rep1", "IsRepG1_label", "take_rep2",
           "IsRepG2_label", "end_of_payload", "fin_ERROR", "end_marker", "fin_OK", "fin"}
    BY DEF AmdBlocks
  <1>2. /\ Outside(AmdBlocks.entry) /\ Outside(AmdBlocks.lit_end)
        /\ Outside(AmdBlocks.lit_start) /\ Outside(AmdBlocks.lit_start_2)
    BY DEF AmdBlocks
  <1>3. /\ Outside(AmdBlocks.IsMatch_label) /\ Outside(AmdBlocks.new_match)
        /\ Outside(AmdBlocks.len_decode_match) /\ Outside(AmdBlocks.len_decode_rep)
    BY DEF AmdBlocks
  <1>4. /\ Outside(AmdBlocks.decode_distance) /\ Outside(AmdBlocks.direct)
        /\ Outside(AmdBlocks.short_dist) /\ Outside(AmdBlocks.slot_is_distance)
    BY DEF AmdBlocks
  <1>5. /\ Outside(AmdBlocks.decode_dist_end) /\ Outside(AmdBlocks.new_distance)
        /\ Outside(AmdBlocks.copy_match) /\ Outside(AmdBlocks.fin_dicPos_LIMIT)
    BY DEF AmdBlocks
  <1>6. /\ Outside(AmdBlocks.lz_check_limits) /\ Outside(AmdBlocks.lz_end)
        /\ Outside(AmdBlocks.lit_matched) /\ Outside(AmdBlocks.lit_matched_store)
    BY DEF AmdBlocks
  <1>7. /\ Outside(AmdBlocks.lit_matched_end) /\ Outside(AmdBlocks.lit_after_matched)
        /\ Outside(AmdBlocks.IsRep_label) /\ Outside(AmdBlocks.IsRep0Long)
    BY DEF AmdBlocks
  <1>8. /\ Outside(AmdBlocks.IsRep0Short_label) /\ Outside(AmdBlocks.IsRepG0_label)
        /\ Outside(AmdBlocks.take_rep1) /\ Outside(AmdBlocks.IsRepG1_label)
    BY DEF AmdBlocks
  <1>9. /\ Outside(AmdBlocks.take_rep2) /\ Outside(AmdBlocks.IsRepG2_label)
        /\ Outside(AmdBlocks.end_of_payload) /\ Outside(AmdBlocks.fin_ERROR)
    BY DEF AmdBlocks
  <1>10. /\ Outside(AmdBlocks.end_marker) /\ Outside(AmdBlocks.fin_OK)
         /\ Outside(AmdBlocks.fin)
    BY DEF AmdBlocks
  <1> HIDE DEF Outside
  <1> QED
    BY <1>1, <1>2, <1>3, <1>4, <1>5, <1>6, <1>7, <1>8, <1>9, <1>10

\* No block of the arm64 kernel goes on inside the copy.
LEMMA ArmOutside ==
  \A label \in DOMAIN ArmBlocks : Outside(ArmBlocks[label])
  <1> USE DEF Outside, Elsewhere, CopyPcs, Block, ArmDecodes, ArmLen, ArmTurned
  <1>1. DOMAIN ArmBlocks =
          {"entry", "lit_end", "lit_start", "lit_start_2", "IsMatch_label", "new_match",
           "len_decode_match", "len_decode_rep", "decode_distance", "direct", "short_dist",
           "slot_is_distance", "decode_dist_end", "new_distance", "copy_match",
           "fin_dicPos_LIMIT", "lz_check_limits", "lz_end", "lit_matched", "lit_matched_end",
           "lit_after_matched", "IsRep_label", "IsRep0Long", "IsRep0Short_label",
           "IsRepG0_label", "IsRepG1_label", "take_rep1", "take_rep2", "IsRepG2_label",
           "end_of_payload", "fin_ERROR", "end_marker", "fin_OK", "fin"}
    BY DEF ArmBlocks
  <1>2. /\ Outside(ArmBlocks.entry) /\ Outside(ArmBlocks.lit_end)
        /\ Outside(ArmBlocks.lit_start) /\ Outside(ArmBlocks.lit_start_2)
    BY DEF ArmBlocks
  <1>3. /\ Outside(ArmBlocks.IsMatch_label) /\ Outside(ArmBlocks.new_match)
        /\ Outside(ArmBlocks.len_decode_match) /\ Outside(ArmBlocks.len_decode_rep)
    BY DEF ArmBlocks
  <1>4. /\ Outside(ArmBlocks.decode_distance) /\ Outside(ArmBlocks.direct)
        /\ Outside(ArmBlocks.short_dist) /\ Outside(ArmBlocks.slot_is_distance)
    BY DEF ArmBlocks
  <1>5. /\ Outside(ArmBlocks.decode_dist_end) /\ Outside(ArmBlocks.new_distance)
        /\ Outside(ArmBlocks.copy_match) /\ Outside(ArmBlocks.fin_dicPos_LIMIT)
    BY DEF ArmBlocks
  <1>6. /\ Outside(ArmBlocks.lz_check_limits) /\ Outside(ArmBlocks.lz_end)
        /\ Outside(ArmBlocks.lit_matched) /\ Outside(ArmBlocks.lit_matched_end)
    BY DEF ArmBlocks
  <1>7. /\ Outside(ArmBlocks.lit_after_matched) /\ Outside(ArmBlocks.IsRep_label)
        /\ Outside(ArmBlocks.IsRep0Long) /\ Outside(ArmBlocks.IsRep0Short_label)
    BY DEF ArmBlocks
  <1>8. /\ Outside(ArmBlocks.IsRepG0_label) /\ Outside(ArmBlocks.IsRepG1_label)
        /\ Outside(ArmBlocks.take_rep1) /\ Outside(ArmBlocks.take_rep2)
    BY DEF ArmBlocks
  <1>9. /\ Outside(ArmBlocks.IsRepG2_label) /\ Outside(ArmBlocks.end_of_payload)
        /\ Outside(ArmBlocks.fin_ERROR) /\ Outside(ArmBlocks.end_marker)
    BY DEF ArmBlocks
  <1>10. /\ Outside(ArmBlocks.fin_OK) /\ Outside(ArmBlocks.fin)
    BY DEF ArmBlocks
  <1> HIDE DEF Outside
  <1> QED
    BY <1>1, <1>2, <1>3, <1>4, <1>5, <1>6, <1>7, <1>8, <1>9, <1>10

LEMMA BlocksOutside ==
  ASSUME pc \in DOMAIN Blocks
  PROVE  pc \notin Elsewhere /\ Outside(Blocks[pc])
  <1>1. pc \notin Elsewhere
    <2>1. \A label \in DOMAIN AmdBlocks : label \notin Elsewhere
      BY DEF AmdBlocks, Elsewhere, CopyPcs
    <2>2. \A label \in DOMAIN ArmBlocks : label \notin Elsewhere
      BY DEF ArmBlocks, Elsewhere, CopyPcs
    <2> QED
      BY <2>1, <2>2 DEF Blocks
  <1> QED
    BY <1>1, AmdOutside, ArmOutside DEF Blocks

----------------------------------------------------------------------------
(* The invariant holds. *)

\* While a copy is under way, pc is in it.
LEMMA UnderwayPc ==
  ASSUME Underway PROVE pc \in CopyPcs
  <1>1. PICK m, n : Place(m, n)
    BY DEF Underway
  <1> QED
    BY <1>1 DEF Place, AtWide, AtTail, AtDone, AtCross, AtNoWrap, AtCommon, AtBytes, AtFlush,
                AtWords, AtFill, AtFillWords, AtEnd, AtSeed, AtDouble, AtGoByte, AtCopied, CopyPcs

\* Each step of a copy is that of its place.
LEMMA CopyTurn ==
  ASSUME Underway, CopyStep, arch' = arch
  PROVE  Underway'
  <1>1. PICK m, n : Has(m, n) /\ Place(m, n)
    BY DEF Underway
  <1>2. /\ WideLoop => pc = "copy_wide_loop"
        /\ WideTail => pc = "copy_wide_tail"
        /\ WideDone => pc = "copy_wide_done"
        /\ CrossLoop => pc = "copy_cross_loop"
        /\ NoWrapByte => pc = "copy_no_wrap_byte"
        /\ Common => pc = "copy_common"
        /\ ByteLoop => pc = "copy_byte_loop"
        /\ Flush => pc = "copy_flush"
        /\ WordAlign => pc = "copy_word_align"
        /\ WordLoop => pc = "copy_word_loop"
        /\ Match0 => pc = "copy_match_0"
        /\ Match0Small => pc = "copy_match_0_small"
        /\ CopyEnd => pc = "copy_end"
        /\ GoSeed => pc = "go_seed"
        /\ GoDouble => pc = "go_double"
        /\ GoByte => pc = "go_byte"
    BY DEF WideLoop, WideTail, WideDone, CrossLoop, NoWrapByte, Common, ByteLoop, Flush,
           WordAlign, WordLoop, Match0, Match0Small, CopyEnd, GoSeed, GoDouble, GoByte
  <1>3. /\ AtWide(m, n) => pc = "copy_wide_loop"
        /\ AtTail(m, n) => pc = "copy_wide_tail"
        /\ AtDone(m, n) => pc = "copy_wide_done"
        /\ AtCross(m, n) => pc = "copy_cross_loop"
        /\ AtNoWrap(m, n) => pc = "copy_no_wrap_byte"
        /\ AtCommon(m, n) => pc = "copy_common"
        /\ AtBytes(m, n) => pc = "copy_byte_loop"
        /\ AtFlush(m, n) => pc = "copy_flush"
        /\ AtWords(m, n) => pc \in {"copy_word_align", "copy_word_loop"}
        /\ AtFill(m, n) => pc = "copy_match_0"
        /\ AtFillWords(m, n) => pc = "copy_match_0_small"
        /\ AtEnd(m, n) => pc = "copy_end"
        /\ AtSeed(m, n) => pc = "go_seed"
        /\ AtDouble(m, n) => pc = "go_double"
        /\ AtGoByte(m, n) => pc = "go_byte"
        /\ AtCopied(m, n) => pc = "copied"
    BY DEF AtWide, AtTail, AtDone, AtCross, AtNoWrap, AtCommon, AtBytes, AtFlush,
           AtWords, AtFill, AtFillWords, AtEnd, AtSeed, AtDouble, AtGoByte, AtCopied
  <1>4. CASE WideLoop
    BY <1>1, <1>2, <1>3, <1>4, WideTurn DEF Place
  <1>5. CASE WideTail
    BY <1>1, <1>2, <1>3, <1>5, TailTurn DEF Place
  <1>6. CASE WideDone
    BY <1>1, <1>2, <1>3, <1>6, DoneTurn DEF Place
  <1>7. CASE CrossLoop
    BY <1>1, <1>2, <1>3, <1>7, CrossTurn DEF Place
  <1>8. CASE NoWrapByte
    BY <1>1, <1>2, <1>3, <1>8, NoWrapTurn DEF Place
  <1>9. CASE Common
    BY <1>1, <1>2, <1>3, <1>9, CommonTurn DEF Place
  <1>10. CASE ByteLoop
    BY <1>1, <1>2, <1>3, <1>10, BytesTurn DEF Place
  <1>11. CASE Flush
    BY <1>1, <1>2, <1>3, <1>11, FlushTurn DEF Place
  <1>12. CASE WordAlign \/ WordLoop
    BY <1>1, <1>2, <1>3, <1>12, WordsTurn DEF Place
  <1>13. CASE Match0
    BY <1>1, <1>2, <1>3, <1>13, FillTurn DEF Place
  <1>14. CASE Match0Small
    BY <1>1, <1>2, <1>3, <1>14, FillWordsTurn DEF Place
  <1>15. CASE CopyEnd
    BY <1>1, <1>2, <1>3, <1>15, EndTurn DEF Place
  <1>16. CASE GoSeed
    BY <1>1, <1>2, <1>3, <1>16, SeedTurn DEF Place
  <1>17. CASE GoDouble
    BY <1>1, <1>2, <1>3, <1>17, DoubleTurn DEF Place
  <1>18. CASE GoByte
    BY <1>1, <1>2, <1>3, <1>18, GoByteTurn DEF Place
  <1> QED
    BY <1>4, <1>5, <1>6, <1>7, <1>8, <1>9, <1>10, <1>11, <1>12, <1>13, <1>14, <1>15, <1>16,
       <1>17, <1>18 DEF CopyStep

LEMMA CopyInvInit ==
  Init => CopyInv
  BY DEF Init, CopyInv, CopyPcs, Idle

LEMMA CopyInvNext ==
  ASSUME CopyInv, [Next]_vars
  PROVE  CopyInv'
  <1>0. arch' = arch /\ arch \in {"amd64", "arm64", "go"}
    BY DEF CopyInv, Next, Step, StartMatch, NoRoom, StartShort, GoMatch, Copy, LeaveCopy, CallAgain, vars
  <1> SUFFICES ASSUME NoSignBit \/ arch # "arm64" PROVE Idle' \/ Underway'
    BY <1>0 DEF CopyInv
  <1>a. Idle \/ Underway
    BY DEF CopyInv
  <1>b. pc \notin CopyPcs => Idle
    BY <1>a, UnderwayPc
  <1>1. CASE Step
    <2>1. pc \notin Elsewhere /\ pc' \notin Elsewhere
      BY <1>1, BlocksOutside DEF Step, Outside
    <2>2. Idle
      BY <1>b, <2>1 DEF Elsewhere
    <2>3. NoCopy' /\ arch # "go"
      BY <1>1, <2>1, <2>2 DEF Step, copyVars, NoCopy, Idle, Elsewhere
    <2> QED
      BY <1>0, <2>1, <2>3 DEF Idle, Elsewhere
  <1>2. CASE StartMatch
    <2>1. PICK m \in LegalMatches, loaded \in BOOLEAN : Room(m) > 0 /\ CopyMatch(m, loaded)
      BY <1>2 DEF StartMatch
    <2>2. GoodMatch(m)
      <3>1. m.start \in Int /\ m.limit \in Int
        BY CopyAssumption DEF LegalMatches, Matches
      <3> QED
        BY <2>1, <3>1, LegalGood DEF Room
    <2>3. NoSignBit \/ Amd
      BY <1>0, <1>2, <1>b DEF StartMatch, Idle, CopyPcs, Amd
    <2> QED
      BY <2>1, <2>2, <2>3, CopyMatchTurn
  <1>3. CASE NoRoom
    BY <1>3, <1>b DEF NoRoom, Idle, CopyPcs, copyVars, NoCopy
  <1>4. CASE StartShort
    <2>1. PICK m \in LegalMatches, loaded \in BOOLEAN :
            m.len = 2 /\ m.limit = m.start + 1 /\ CopyShort([m EXCEPT !.len = 1], loaded)
      BY <1>4 DEF StartShort
    <2>2. GoodMatch([m EXCEPT !.len = 1]) /\ [m EXCEPT !.len = 1].len = 1
      <3>1. PICK b \in BufSizes :
              m \in [dicBufSize : {b}, start : 0 .. b - 1, limit : 0 .. b, rep0 : 1 .. b, len : 2 .. MaxLen]
        BY DEF LegalMatches, Matches
      <3>2. b \in Nat
        BY CopyAssumption
      <3> QED
        BY <2>1, <3>1, <3>2 DEF GoodMatch
    <2>3. NoSignBit \/ Amd
      BY <1>0, <1>4, <1>b DEF StartShort, Idle, CopyPcs, Amd
    <2> QED
      BY <2>1, <2>2, <2>3, CopyShortTurn
  <1>5. CASE GoMatch
    <2>1. PICK m \in LegalMatches : Room(m) > 0 /\ GoCopy(m)
      BY <1>5 DEF GoMatch
    <2>2. GoodMatch(m)
      <3>1. m.start \in Int /\ m.limit \in Int
        BY CopyAssumption DEF LegalMatches, Matches
      <3> QED
        BY <2>1, <3>1, LegalGood DEF Room
    <2>3. arch = "go"
      BY <1>5, <1>b DEF GoMatch, Idle, CopyPcs
    <2> QED
      BY <1>0, <2>1, <2>2, <2>3, GoCopyTurn
  <1>6. CASE Copy
    <2>1. pc \in CopyPcs
      BY <1>6 DEF Copy, CopyStep, CopyPcs, WideLoop, WideTail, WideDone, CrossLoop, NoWrapByte,
             Common, ByteLoop, Flush, WordAlign, WordLoop, Match0, Match0Small, CopyEnd, GoSeed,
             GoDouble, GoByte
    <2>2. Underway
      BY <1>a, <2>1 DEF Idle
    <2> QED
      BY <1>6, <2>2, CopyTurn DEF Copy
  <1>7. CASE LeaveCopy
    BY <1>7 DEF LeaveCopy, Idle, CopyPcs, NoCopy
  <1>8. CASE CallAgain
    BY <1>8, <1>b DEF CallAgain, Idle, CopyPcs, copyVars, NoCopy
  <1>9. CASE UNCHANGED vars
    <2>1. Underway => Underway'
      BY <1>9 DEF vars, Underway, Has, Place, AtWide, AtTail, AtDone, AtCross, AtNoWrap, AtCommon,
             AtBytes, AtFlush, AtWords, AtFill, AtFillWords, AtEnd, AtSeed, AtDouble, AtGoByte,
             AtCopied, Looping, Counting, Left, IsRegs
    <2> QED
      BY <1>9, <1>a, <2>1 DEF Idle, NoCopy, vars, copyVars
  <1> QED
    BY <1>1, <1>2, <1>3, <1>4, <1>5, <1>6, <1>7, <1>8, <1>9 DEF Next

LEMMA InvImpliesBytewise ==
  CopyInv => (NoSignBit \/ arch # "arm64" => BytewiseCopy)
  <1> SUFFICES ASSUME CopyInv, NoSignBit \/ arch # "arm64", pc = "copied"
               PROVE  /\ mem = Copied(match, Count(match))
                      /\ reg.dicPos = Dic + match.start + Count(match)
                      /\ arch # "go" => reg.sym = mem[reg.dicPos - 1]
    BY DEF BytewiseCopy
  <1>1. PICK m, n : Has(m, n) /\ AtCopied(m, n)
    <2>1. PICK m, n : Has(m, n) /\ Place(m, n)
      BY DEF CopyInv, Idle, CopyPcs, Underway
    <2>2. AtCopied(m, n)
      BY <2>1 DEF Place, AtWide, AtTail, AtDone, AtCross, AtNoWrap, AtCommon, AtBytes, AtFlush,
             AtWords, AtFill, AtFillWords, AtEnd, AtSeed, AtDouble, AtGoByte
    <2> QED
      BY <2>1, <2>2
  <1>2. /\ GoodMatch(m) /\ match = m /\ n \in Nat /\ n = Count(m) /\ n > 0 /\ mem = Copied(m, n)
        /\ reg.dicPos = Slot(m, n)
        /\ arch # "go" => reg.sym = Bytewise(m)[n - 1]
    BY <1>1, MatchFacts DEF Has, AtCopied
  <1>3. PICK i \in Nat : i = n - 1 /\ i < n
    <2>1. n - 1 \in Nat
      BY <1>2
    <2> QED
      BY <1>2, <2>1
  <1>4. mem[Slot(m, i)] = Bytewise(m)[i]
    BY <1>2, <1>3, Written
  <1>5. Slot(m, n) - 1 = Slot(m, i) /\ Slot(m, n) = Dic + m.start + n
    BY <1>2, <1>3, MatchFacts DEF Slot
  <1> QED
    BY <1>2, <1>3, <1>4, <1>5

LEMMA InvImpliesStores ==
  CopyInv => (NoSignBit \/ arch # "arm64" => StoresInMatch)
  <1> SUFFICES ASSUME CopyInv, NoSignBit \/ arch # "arm64", NEW a \in touched
               PROVE  Minus(a, Dic + match.start) < Count(match)
    BY DEF StoresInMatch
  <1>1. PICK m, n : Has(m, n)
    BY DEF CopyInv, Idle, NoCopy, Underway
  <1>2. PICK i \in Nat : i < Count(m) /\ a = Slot(m, i)
    <2>1. a \in Slots(m) /\ Count(m) \in Nat
      BY <1>1, MatchFacts DEF Has
    <2> QED
      BY <2>1 DEF Slots
  <1>3. GoodMatch(m) /\ match = m
    BY <1>1 DEF Has
  <1>4. PICK d \in Nat : d = Dic + m.start
    BY <1>3, MatchFacts
  <1>5. a \in Int /\ a - d = i /\ 0 <= a - d /\ a - d < Full
    BY <1>2, <1>3, <1>4, MatchFacts DEF Slot
  <1>6. Minus(a, d) = i
    BY <1>5, MinusFits
  <1> QED
    BY <1>2, <1>3, <1>4, <1>6

----------------------------------------------------------------------------

\* Whichever way the three engines copy a match (wide, byte by byte, by words,
\* filling, doubling, across the end of the dictionary), the dictionary is in
\* the end what writeRem would have made of it, and a kernel has the last byte
\* in its register.  arm64 needs every distance below 2^31, as its MOVW copies
\* the sign of the loaded rep0: the run kernel_distance shows it without.
THEOREM CopiesAgree ==
  Spec => [](NoSignBit \/ arch # "arm64" => BytewiseCopy)
  <1>1. CopyInv /\ [Next]_vars => CopyInv'
    BY CopyInvNext
  <1> QED
    BY <1>1, CopyInvInit, InvImpliesBytewise, PTL DEF Spec

\* No store of a copy falls outside the slots of the match, at no moment: what
\* later matches refer to, and what the caller is not given yet, is untouched.
THEOREM StoresStayInside ==
  Spec => [](NoSignBit \/ arch # "arm64" => StoresInMatch)
  <1>1. CopyInv /\ [Next]_vars => CopyInv'
    BY CopyInvNext
  <1> QED
    BY <1>1, CopyInvInit, InvImpliesStores, PTL DEF Spec
=============================================================================
