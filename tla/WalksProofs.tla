---------------------------- MODULE WalksProofs ----------------------------
(***************************************************************************)
(* The three engines agree on every decision of a symbol, for every input  *)
(* and every sequence of bits.  First what the operators of words do with  *)
(* the masks in use, then the invariant that relates the registers of the  *)
(* engines, by the kind of the next decision, then one lemma for each kind *)
(* of decision, then the theorems.                                         *)
(***************************************************************************)
EXTENDS Walks, TLAPS

----------------------------------------------------------------------------
(* Words. *)

\* What division with remainder gives.
LEMMA DivMod ==
  ASSUME NEW x \in Int, NEW m \in Nat, m > 0
  PROVE  /\ x \div m \in Int /\ x % m \in 0 .. m - 1
         /\ x = m * (x \div m) + (x % m)
  BY SMT

\* Quotient and remainder are what fits.
LEMMA DivUnique ==
  ASSUME NEW x \in Int, NEW m \in Nat, m > 0,
         NEW d \in Int, NEW k \in Int, 0 <= k, k < m, x = m * d + k
  PROVE  x \div m = d /\ x % m = k
  BY SMTT(30)

\* The remainder of a number written in the base B.
Splits(B, M, q, l) ==
  B > 0 /\ M > 0 /\ l < B => (B * q + l) % (B * M) = B * (q % M) + l

\* The remainder of a number written in the base B, by a multiple of B.
LEMMA Split ==
  \A B, M, q, l : B \in Nat /\ M \in Nat /\ q \in Nat /\ l \in Nat => Splits(B, M, q, l)
  <1> SUFFICES ASSUME NEW B \in Nat, NEW M \in Nat, NEW q \in Nat, NEW l \in Nat
               PROVE  Splits(B, M, q, l)
    BY Zenon
  <1> SUFFICES ASSUME B > 0, M > 0, l < B
               PROVE  (B * q + l) % (B * M) = B * (q % M) + l
    BY DEF Splits
  <1>1. PICK d \in Int, r \in Nat : q = M * d + r /\ r < M /\ r = q % M
    BY SMT, DivMod
  <1> DEFINE k == B * r + l
             m == B * M
             x == B * q + l
  <1>2. x = m * d + k
    <2>1. B * q = B * (M * d) + B * r
      BY SMT, <1>1
    <2>2. B * (M * d) = m * d
      BY SMT, <1>1
    <2> QED
      BY SMT, <1>1, <2>1, <2>2
  <1>3. k < m
    <2>1. r + 1 <= M
      BY SMT, <1>1
    <2>2. B * (r + 1) <= B * M
      BY SMT, <2>1, <1>1
    <2>3. B * (r + 1) = B * r + B
      BY SMT, <1>1
    <2> QED
      BY SMT, <1>1, <2>2, <2>3
  <1>4. k \in Nat /\ m \in Nat /\ m > 0 /\ x \in Int
    BY SMT, <1>1
  <1> HIDE DEF k, m, x
  <1>5. x % m = k
    BY SMT, <1>1, <1>2, <1>3, <1>4, DivUnique
  <1> QED
    BY SMT, <1>1, <1>5 DEF k, m, x

\* Remainders of a number by a divisor of the base.
LEMMA Low ==
  ASSUME NEW q \in Nat, NEW l \in Nat, l < 256
  PROVE  /\ (256 * q + l) % 256 = l /\ (256 * q + l) % 128 = l % 128 /\ (256 * q + l) % 64 = l % 64
         /\ (256 * q + l) % 32 = l % 32 /\ (256 * q + l) % 16 = l % 16 /\ (256 * q + l) % 8 = l % 8
         /\ (256 * q + l) % 4 = l % 4 /\ (256 * q + l) % 2 = l % 2
  BY SMT
\* A byte has no bit in common with 0.
LEMMA Zero8 == \A x \in Int : And8(x, 0) = 0
  BY SMT DEF And8, And4, And2, And1

\* A number that is written in bytes.
Word(h, m, l) == 65536 * h + 256 * m + l

\* A word and a mask of three bytes.
AndOne(x, c, b, a) ==
  And(x, Word(c, b, a))
    = 65536 * And8((x \div 65536) % 256, c) + 256 * And8((x \div 256) % 256, b) + And8(x % 256, a)

\* The operator & of two words, byte by byte.
LEMMA Bytes ==
  \A x, a, b, c :
    x \in Nat /\ a \in Nat /\ a < 256 /\ b \in Nat /\ b < 256 /\ c \in Nat /\ c < 256 =>
      AndOne(x, c, b, a)
  <1> SUFFICES ASSUME NEW x \in Nat, NEW a \in Nat, a < 256, NEW b \in Nat, b < 256,
                      NEW c \in Nat, c < 256
               PROVE  AndOne(x, c, b, a)
    BY SMT
  <1> DEFINE y == Word(c, b, a)
  <1>1. y \div 65536 = c /\ y % 65536 = 256 * b + a
    BY SMT, DivUnique DEF Word
  <1>2. c % 65536 = c /\ c \div 256 = 0 /\ c % 256 = c
    BY SMT, DivUnique
  <1>3. (256 * b + a) \div 256 = b /\ (256 * b + a) % 256 = a
    BY SMT, DivUnique
  <1>4. PICK h \in Nat, m \in Nat, l \in Nat, g \in Nat, f \in Nat :
          /\ x = 65536 * h + 256 * m + l /\ m < 256 /\ l < 256
          /\ h = 65536 * f + g /\ g < 65536 /\ h = x \div 65536 /\ f = h \div 65536
    <2>1. PICK h \in Nat, r \in Nat : h = x \div 65536 /\ x = 65536 * h + r /\ r < 65536
      BY SMT, DivMod
    <2> r < 65536
      BY SMT, <2>1
    <2>2. PICK m \in Nat, l \in Nat : r = 256 * m + l /\ m < 256 /\ l < 256
      <3> USE DivMod
      <3>1. r \in Int /\ 256 \in Nat /\ 256 > 0
        BY SMT
      <3>2. r = 256 * (r \div 256) + (r % 256) /\ r \div 256 \in Int /\ r % 256 \in 0 .. 256 - 1
        BY SMT, <3>1
      <3> HIDE DivMod
      <3> QED
        BY SMT, <3>2
    <2>3. PICK f \in Nat, g \in Nat : f = h \div 65536 /\ h = 65536 * f + g /\ g < 65536
      BY SMT, DivMod
    <2> QED
      BY SMT, <2>1, <2>2, <2>3
  <1>5. /\ x \div 65536 = h /\ x % 65536 = 256 * m + l /\ (256 * m + l) \div 256 = m
        /\ (256 * m + l) % 256 = l
    BY SMT, <1>4, DivUnique
  <1>6. x \div 256 = 256 * h + m /\ x % 256 = l /\ (256 * h + m) % 256 = m
    BY SMT, <1>4, DivUnique
  <1>7. PICK i \in Nat, j \in Nat : g = 256 * i + j /\ j < 256 /\ i = g \div 256 /\ j = g % 256
    BY SMT, DivMod
  <1>8. h % 65536 = g /\ h % 256 = j
    <2>1. h = 256 * (256 * f + i) + j
      BY SMT, <1>4, <1>7
    <2> QED
      BY SMT, <1>4, <1>7, <2>1, DivUnique
  <1>9. And16(g, c) = And8(j, c)
    <2>1. And16(g, c) = 256 * And8(g \div 256, c \div 256) + And8(g % 256, c % 256)
      BY SMT DEF And16
    <2>4. g \div 256 = i /\ g % 256 = j /\ c \div 256 = 0 /\ c % 256 = c
      BY SMT, <1>2, <1>7
    <2>2. And16(g, c) = 256 * And8(i, 0) + And8(j, c)
      BY SMT, <2>1, <2>4
    <2>3. And8(i, 0) = 0 /\ And8(j, c) \in Int
      BY SMT, <1>7, Zero8 DEF And8, And4, And2, And1
    <2> QED
      BY SMT, <2>2, <2>3
  <1>10. And16(256 * m + l, 256 * b + a) = 256 * And8(m, b) + And8(l, a)
    BY SMT, <1>3, <1>5 DEF And16
  <1>0. y \in Nat
    BY SMT DEF Word
  <1> HIDE DEF y
  <1>11. And(x, y) = 65536 * And16(g, c) + And16(256 * m + l, 256 * b + a)
    <2>1. And(x, y) = 65536 * And16((x \div 65536) % 65536, (y \div 65536) % 65536)
                        + And16(x % 65536, y % 65536)
      BY SMT DEF And
    <2>2. (x \div 65536) % 65536 = g /\ (y \div 65536) % 65536 = c
      BY SMT, <1>1, <1>2, <1>5, <1>8
    <2> QED
      BY SMT, <2>1, <2>2, <1>1, <1>5
  <1>12. (x \div 65536) % 256 = j /\ (x \div 256) % 256 = m /\ x % 256 = l
    BY SMT, <1>4, <1>6, <1>8
  <1>13. And8(j, c) \in Int /\ And8(m, b) \in Int /\ And8(l, a) \in Int
    BY SMT DEF And8, And4, And2, And1
  <1>14. And(x, y) = 65536 * And8(j, c) + 256 * And8(m, b) + And8(l, a)
    BY SMT, <1>9, <1>10, <1>11, <1>13
  <1> QED
    BY SMT, <1>12, <1>14 DEF y, AndOne

\* The bits two bytes share are a natural number.
LEMMA Byte8 == \A x, y : x \in Nat /\ y \in Nat => And8(x, y) \in Nat
  BY SMT DEF And8, And4, And2, And1

\* The powers of two that shifts and masks are made of.
LEMMA Powers ==
  /\ 2^0 = 1 /\ 2^1 = 2 /\ 2^2 = 4 /\ 2^3 = 8 /\ 2^4 = 16 /\ 2^5 = 32 /\ 2^6 = 64
  /\ 2^7 = 128 /\ 2^8 = 256 /\ 2^9 = 512 /\ 2^10 = 1024 /\ 2^11 = 2048 /\ 2^12 = 4096
  BY SMT

\* The bytes of a word, taken out again.
Parts(h, m, l) ==
  /\ Word(h, m, l) \in Nat
  /\ Word(h, m, l) \div 65536 = h
  /\ (Word(h, m, l) \div 256) % 256 = m
  /\ Word(h, m, l) % 256 = l

\* A word has the bytes it was put together from.
LEMMA WordParts ==
  \A h, m, l : h \in Nat /\ m \in Nat /\ m < 256 /\ l \in Nat /\ l < 256 => Parts(h, m, l)
  <1> SUFFICES ASSUME NEW h \in Nat, NEW m \in Nat, m < 256, NEW l \in Nat, l < 256
               PROVE  Parts(h, m, l)
    BY SMT
  <1>1. Word(h, m, l) \in Nat /\ Word(h, m, l) \div 65536 = h
    BY SMT, DivUnique DEF Word
  <1>2. Word(h, m, l) = 256 * (256 * h + m) + l
    BY SMT DEF Word
  <1>3. Word(h, m, l) \div 256 = 256 * h + m /\ Word(h, m, l) % 256 = l
    BY SMT, <1>2, DivUnique
  <1>4. (256 * h + m) % 256 = m
    BY SMT, DivUnique
  <1> QED
    BY SMT, <1>1, <1>3, <1>4 DEF Parts

\* A mask of the lowest bits of a byte.
MaskedLow(c, i) == And8(c, 2^i - 1) = c % 2^i

\* The masks of up to five low bits.
LEMMA LowMask ==
  \A c, j : c \in Nat /\ c < 256 /\ j \in Nat /\ j <= 5 => MaskedLow(c, j)
  <1> SUFFICES ASSUME NEW c \in Nat, c < 256, NEW j \in Nat, j <= 5
               PROVE  MaskedLow(c, j)
    BY SMT
  <1>1. /\ And8(c, 0) = 0 /\ And8(c, 1) = c % 2 /\ And8(c, 3) = c % 4
        /\ And8(c, 7) = c % 8 /\ And8(c, 15) = c % 16 /\ And8(c, 31) = c % 32
    BY SMTT(30) DEF And8, And4, And2, And1
  <1>2. c % 1 = 0
    BY SMT
  <1>c0. MaskedLow(c, 0)
    BY SMT, <1>1, <1>2, Powers DEF MaskedLow
  <1>c1. MaskedLow(c, 1)
    BY SMT, <1>1, <1>2, Powers DEF MaskedLow
  <1>c2. MaskedLow(c, 2)
    BY SMT, <1>1, <1>2, Powers DEF MaskedLow
  <1>c3. MaskedLow(c, 3)
    BY SMT, <1>1, <1>2, Powers DEF MaskedLow
  <1>c4. MaskedLow(c, 4)
    BY SMT, <1>1, <1>2, Powers DEF MaskedLow
  <1>c5. MaskedLow(c, 5)
    BY SMT, <1>1, <1>2, Powers DEF MaskedLow
  <1>3. j = 0 \/ j = 1 \/ j = 2 \/ j = 3 \/ j = 4 \/ j = 5
    BY SMT
  <1> QED
    BY SMT, <1>3, <1>c0, <1>c1, <1>c2, <1>c3, <1>c4, <1>c5

\* A mask of the highest bits.
MaskedHigh(c, i) == And8(c, 256 - 2^i) = c - (c % 2^i)

\* The masks of up to eight high bits.
LEMMA HighMask ==
  \A c, j : c \in Nat /\ c < 256 /\ j \in Nat /\ j <= 8 => MaskedHigh(c, j)
  <1> SUFFICES ASSUME NEW c \in Nat, c < 256, NEW j \in Nat, j <= 8
               PROVE  MaskedHigh(c, j)
    BY SMT
  <1>1. /\ And8(c, 128) = c - (c % 128) /\ And8(c, 192) = c - (c % 64)
        /\ And8(c, 224) = c - (c % 32)
        /\ And8(c, 240) = c - (c % 16) /\ And8(c, 248) = c - (c % 8) /\ And8(c, 252) = c - (c % 4)
        /\ And8(c, 254) = c - (c % 2) /\ And8(c, 255) = c /\ And8(c, 0) = 0
    BY SMTT(30) DEF And8, And4, And2, And1
  <1>2. c % 1 = 0 /\ c % 256 = c
    BY SMT
  <1>c0. MaskedHigh(c, 0)
    BY SMT, <1>1, <1>2, Powers DEF MaskedHigh
  <1>c1. MaskedHigh(c, 1)
    BY SMT, <1>1, <1>2, Powers DEF MaskedHigh
  <1>c2. MaskedHigh(c, 2)
    BY SMT, <1>1, <1>2, Powers DEF MaskedHigh
  <1>c3. MaskedHigh(c, 3)
    BY SMT, <1>1, <1>2, Powers DEF MaskedHigh
  <1>c4. MaskedHigh(c, 4)
    BY SMT, <1>1, <1>2, Powers DEF MaskedHigh
  <1>c5. MaskedHigh(c, 5)
    BY SMT, <1>1, <1>2, Powers DEF MaskedHigh
  <1>c6. MaskedHigh(c, 6)
    BY SMT, <1>1, <1>2, Powers DEF MaskedHigh
  <1>c7. MaskedHigh(c, 7)
    BY SMT, <1>1, <1>2, Powers DEF MaskedHigh
  <1>c8. MaskedHigh(c, 8)
    BY SMT, <1>1, <1>2, Powers DEF MaskedHigh
  <1>3. j = 0 \/ j = 1 \/ j = 2 \/ j = 3 \/ j = 4 \/ j = 5 \/ j = 6 \/ j = 7 \/ j = 8
    BY SMT
  <1> QED
    BY SMT, <1>3, <1>c0, <1>c1, <1>c2, <1>c3, <1>c4, <1>c5, <1>c6, <1>c7, <1>c8

\* A mask of bits above the first.
MaskedMid(c, i) == And8(c, 2 * 2^i - 2) = (c % (2 * 2^i)) - (c % 2)

\* The masks of the bits from the second on.
LEMMA MidMask ==
  \A c, j : c \in Nat /\ c < 256 /\ j \in Nat /\ j <= 7 => MaskedMid(c, j)
  <1> SUFFICES ASSUME NEW c \in Nat, c < 256, NEW j \in Nat, j <= 7
               PROVE  MaskedMid(c, j)
    BY SMT
  <1>1. /\ And8(c, 2) = (c % 4) - (c % 2) /\ And8(c, 6) = (c % 8) - (c % 2)
        /\ And8(c, 14) = (c % 16) - (c % 2) /\ And8(c, 30) = (c % 32) - (c % 2)
        /\ And8(c, 62) = (c % 64) - (c % 2) /\ And8(c, 126) = (c % 128) - (c % 2)
        /\ And8(c, 254) = c - (c % 2) /\ And8(c, 0) = 0
    BY SMTT(30) DEF And8, And4, And2, And1
  <1>2. c % 256 = c
    BY SMT
  <1>c0. MaskedMid(c, 0)
    BY SMT, <1>1, <1>2, Powers DEF MaskedMid
  <1>c1. MaskedMid(c, 1)
    BY SMT, <1>1, <1>2, Powers DEF MaskedMid
  <1>c2. MaskedMid(c, 2)
    BY SMT, <1>1, <1>2, Powers DEF MaskedMid
  <1>c3. MaskedMid(c, 3)
    BY SMT, <1>1, <1>2, Powers DEF MaskedMid
  <1>c4. MaskedMid(c, 4)
    BY SMT, <1>1, <1>2, Powers DEF MaskedMid
  <1>c5. MaskedMid(c, 5)
    BY SMT, <1>1, <1>2, Powers DEF MaskedMid
  <1>c6. MaskedMid(c, 6)
    BY SMT, <1>1, <1>2, Powers DEF MaskedMid
  <1>c7. MaskedMid(c, 7)
    BY SMT, <1>1, <1>2, Powers DEF MaskedMid
  <1>3. j = 0 \/ j = 1 \/ j = 2 \/ j = 3 \/ j = 4 \/ j = 5 \/ j = 6 \/ j = 7
    BY SMT
  <1> QED
    BY SMT, <1>3, <1>c0, <1>c1, <1>c2, <1>c3, <1>c4, <1>c5, <1>c6, <1>c7

\* The lowest bits of arm64's mask hold its shift, and meet bits which that
\* shift has cleared.
MaskedShift(l, i) == l % 2^(i + 1) = 0 => And8(l, i + 1) = 0

\* The mask of a byte whose low bits are 0.
LEMMA ShiftMask ==
  \A l, j : l \in Nat /\ l < 256 /\ j \in Nat /\ j <= 8 => MaskedShift(l, j)
  <1> SUFFICES ASSUME NEW l \in Nat, l < 256, NEW j \in Nat, j <= 8
               PROVE  MaskedShift(l, j)
    BY SMT
  <1>1. /\ l % 2 = 0 => And8(l, 1) = 0
        /\ l % 4 = 0 => And8(l, 2) = 0
        /\ l % 8 = 0 => And8(l, 3) = 0
        /\ l % 16 = 0 => And8(l, 4) = 0
        /\ l % 32 = 0 => And8(l, 5) = 0
        /\ l % 64 = 0 => And8(l, 6) = 0
        /\ l % 128 = 0 => And8(l, 7) = 0
        /\ l % 256 = 0 => And8(l, 8) = 0
        /\ l % 512 = 0 => And8(l, 9) = 0
    BY SMTT(30) DEF And8, And4, And2, And1
  <1>2. 1 + 1 = 2
    BY SMT
  <1>c0. MaskedShift(l, 0)
    BY SMT, <1>1, <1>2, Powers DEF MaskedShift
  <1>c1. MaskedShift(l, 1)
    BY SMT, <1>1, <1>2, Powers DEF MaskedShift
  <1>c2. MaskedShift(l, 2)
    BY SMT, <1>1, <1>2, Powers DEF MaskedShift
  <1>c3. MaskedShift(l, 3)
    BY SMT, <1>1, <1>2, Powers DEF MaskedShift
  <1>c4. MaskedShift(l, 4)
    BY SMT, <1>1, <1>2, Powers DEF MaskedShift
  <1>c5. MaskedShift(l, 5)
    BY SMT, <1>1, <1>2, Powers DEF MaskedShift
  <1>c6. MaskedShift(l, 6)
    BY SMT, <1>1, <1>2, Powers DEF MaskedShift
  <1>c7. MaskedShift(l, 7)
    BY SMT, <1>1, <1>2, Powers DEF MaskedShift
  <1>c8. MaskedShift(l, 8)
    BY SMT, <1>1, <1>2, Powers DEF MaskedShift
  <1>3. j = 0 \/ j = 1 \/ j = 2 \/ j = 3 \/ j = 4 \/ j = 5 \/ j = 6 \/ j = 7 \/ j = 8
    BY SMT
  <1> QED
    BY SMT, <1>3, <1>c0, <1>c1, <1>c2, <1>c3, <1>c4, <1>c5, <1>c6, <1>c7, <1>c8

\* The mask of arm64: k bits from the ninth up, and n below them.
InField(h, m, l, k, n) ==
  m < 256 /\ l < 256 /\ And8(l, n) = 0 =>
    And(Word(h, m, l), 512 * 2^k - 512 + n)
      = (Word(h, m, l) % (512 * 2^k)) - (Word(h, m, l) % 512)

\* A mask of n bits cuts the bits from k on out of a word.
LEMMA Field ==
  \A h, m, l, k, n :
    h \in Nat /\ m \in Nat /\ l \in Nat /\ k \in 0 .. 12 /\ n \in 0 .. 9 => InField(h, m, l, k, n)
  <1> SUFFICES ASSUME NEW h \in Nat, NEW m \in Nat, NEW l \in Nat,
                      NEW k \in 0 .. 12, NEW n \in 0 .. 9
               PROVE  InField(h, m, l, k, n)
    BY Zenon
  <1> SUFFICES ASSUME m < 256, l < 256, And8(l, n) = 0
               PROVE  And(Word(h, m, l), 512 * 2^k - 512 + n)
                        = (Word(h, m, l) % (512 * 2^k)) - (Word(h, m, l) % 512)
    BY SMT DEF InField
  <1> DEFINE s == Word(h, m, l)
  <1>1. n \in Nat /\ n < 256 /\ 256 * h + m \in Nat /\ m % 2 \in Nat
        /\ s = 256 * (256 * h + m) + l /\ s = 65536 * h + (256 * m + l)
    BY SMT DEF Word
  <1>2. s % 512 = 256 * (m % 2) + l
    <2>1. (256 * (256 * h + m) + l) % (256 * 2) = 256 * ((256 * h + m) % 2) + l
      <3>1. Splits(256, 2, 256 * h + m, l)
        BY SMT, <1>1, Split
      <3> QED
        BY SMT, <3>1 DEF Splits
    <2>2. (256 * h + m) % 2 = m % 2
      BY SMT
    <2> QED
      BY SMT, <1>1, <2>1, <2>2
  <1>5. s \in Nat /\ s \div 65536 = h /\ (s \div 256) % 256 = m /\ s % 256 = l
    <2>1. Parts(h, m, l)
      BY SMT, WordParts
    <2> QED
      BY SMT, <2>1 DEF Parts
  <1> HIDE DEF s
  <1>3. CASE k \in 0 .. 7
    <2> DEFINE M == 2^k
               P(i) == 2^i \in Nat /\ 2^i > 0 /\ 2^i <= 128 /\ (256 * h + m) % (2 * 2^i) = m % (2 * 2^i)
    <2>1. M \in Nat /\ M > 0 /\ M <= 128 /\ (256 * h + m) % (2 * M) = m % (2 * M)
      <3>1. P(0) /\ P(1) /\ P(2) /\ P(3)
        BY SMT, Powers
      <3>2. P(4) /\ P(5) /\ P(6) /\ P(7)
        BY SMT, Powers
      <3>3. k = 0 \/ k = 1 \/ k = 2 \/ k = 3 \/ k = 4 \/ k = 5 \/ k = 6 \/ k = 7
        BY SMT, <1>3
      <3> HIDE DEF P
      <3>4. P(k)
        BY SMT, <3>1, <3>2, <3>3
      <3> QED
        BY SMT, <3>4 DEF P
    <2>2. And8(m, 2 * M - 2) = (m % (2 * M)) - (m % 2)
      <3>1. MaskedMid(m, k)
        BY SMT, <1>3, MidMask
      <3> QED
        BY SMT, <3>1 DEF MaskedMid
    <2> HIDE DEF M
    <2>3. m % (2 * M) \in Nat /\ 2 * M - 2 \in Nat /\ 2 * M - 2 < 256 /\ 2 * M \in Nat /\ 2 * M > 0
      BY SMT, <2>1
    <2>4. And(s, Word(0, 2 * M - 2, n))
            = 65536 * And8(h % 256, 0) + 256 * And8(m, 2 * M - 2) + And8(l, n)
      <3>1. AndOne(s, 0, 2 * M - 2, n)
        BY SMT, <1>1, <1>5, <2>3, Bytes
      <3> QED
        BY SMT, <1>5, <3>1 DEF AndOne
    <2>5. And8(h % 256, 0) = 0
      BY SMT, Zero8
    <2>6. (256 * (256 * h + m) + l) % (256 * (2 * M)) = 256 * ((256 * h + m) % (2 * M)) + l
      <3>1. Splits(256, 2 * M, 256 * h + m, l)
        BY SMT, <1>1, <2>3, Split
      <3> QED
        BY SMT, <2>3, <3>1 DEF Splits
    <2>7. And(s, Word(0, 2 * M - 2, n)) = 256 * ((m % (2 * M)) - (m % 2))
      BY SMT, <2>2, <2>3, <2>4, <2>5, <1>1
    <2>8. s % (512 * M) = 256 * (m % (2 * M)) + l
      <3>1. 512 * M = 256 * (2 * M)
        BY SMT, <2>1
      <3> QED
        BY SMT, <1>1, <2>1, <2>3, <2>6, <3>1
    <2>9. Word(0, 2 * M - 2, n) = 512 * M - 512 + n
      BY SMT, <2>1, <1>1 DEF Word
    <2> QED
      BY SMT, <1>1, <1>2, <2>3, <2>7, <2>8, <2>9 DEF M, s
  <1>4. CASE k \in 8 .. 12
    <2> DEFINE M == 2^(k - 7)
               P(i) == 2^(i - 7) \in Nat /\ 2^(i - 7) > 0 /\ 2^(i - 7) <= 32 /\ 2^i = 128 * 2^(i - 7)
                       /\ (h % 256) % 2^(i - 7) = h % 2^(i - 7)
    <2>1. M \in Nat /\ M > 0 /\ M <= 32 /\ 2^k = 128 * M /\ (h % 256) % M = h % M
      <3>1. P(8) /\ P(9) /\ P(10) /\ P(11) /\ P(12)
        BY SMT, Powers
      <3>2. k = 8 \/ k = 9 \/ k = 10 \/ k = 11 \/ k = 12
        BY SMT, <1>4
      <3> HIDE DEF P
      <3>3. P(k)
        BY SMT, <3>1, <3>2
      <3> QED
        BY SMT, <3>3 DEF P
    <2>2. And8(h % 256, M - 1) = (h % 256) % M
      <3>1. k - 7 \in Nat /\ k - 7 <= 5 /\ h % 256 \in Nat /\ h % 256 < 256
        BY SMT, <1>4
      <3>2. MaskedLow(h % 256, k - 7)
        BY SMT, <3>1, LowMask
      <3> QED
        BY SMT, <3>2 DEF MaskedLow
    <2> HIDE DEF M
    <2>3. And8(m, 254) = m - (m % 2)
      BY SMTT(30) DEF And8, And4, And2, And1
    <2>4. M - 1 \in Nat /\ M - 1 < 256 /\ 254 \in Nat /\ 254 < 256 /\ h % M \in Nat
      BY SMT, <2>1
    <2>5. And(s, Word(M - 1, 254, n))
            = 65536 * And8(h % 256, M - 1) + 256 * And8(m, 254) + And8(l, n)
      <3>1. AndOne(s, M - 1, 254, n)
        BY SMT, <1>1, <1>5, <2>4, Bytes
      <3> QED
        BY SMT, <1>5, <3>1 DEF AndOne
    <2>6. (65536 * h + (256 * m + l)) % (65536 * M) = 65536 * (h % M) + (256 * m + l)
      <3>1. 65536 \in Nat /\ 65536 > 0 /\ 256 * m + l \in Nat /\ 256 * m + l < 65536
        BY SMT
      <3>2. Splits(65536, M, h, 256 * m + l)
        BY SMT, <2>1, <3>1, Split
      <3> QED
        BY SMT, <2>1, <3>1, <3>2 DEF Splits
    <2>7. And(s, Word(M - 1, 254, n)) = 65536 * (h % M) + 256 * (m - (m % 2))
      <3>1. And8(h % 256, M - 1) = h % M
        BY SMT, <2>1, <2>2
      <3>2. And(s, Word(M - 1, 254, n)) = 65536 * (h % M) + 256 * And8(m, 254) + 0
        BY SMT, <2>5, <3>1
      <3> QED
        BY SMT, <1>1, <2>3, <2>4, <3>2
    <2>8. s % (512 * (128 * M)) = 65536 * (h % M) + (256 * m + l)
      <3>1. 512 * (128 * M) = 65536 * M
        BY SMT, <2>1
      <3> QED
        BY SMT, <1>1, <2>6, <3>1
    <2>9. Word(M - 1, 254, n) = 512 * (128 * M) - 512 + n
      BY SMT, <2>1, <1>1 DEF Word
    <2> QED
      BY SMT, <1>1, <1>2, <2>1, <2>4, <2>7, <2>8, <2>9 DEF s
  <1> QED
    BY SMT, <1>3, <1>4 DEF s

\* What the powers of lc and lp have to do with each other.
PowersAt(lc, lp) ==
  /\ 2^lc \in Nat /\ 2^lc > 0 /\ 2^lp \in Nat /\ 2^lp > 0 /\ 2^lp <= 16
  /\ 2^(lc + 1) = 2 * 2^lc /\ 2^(8 - lc) \in Nat /\ 2^(8 - lc) > 0 /\ 2^(8 - lc) <= 256
  /\ 2^lc * 2^(8 - lc) = 256 /\ 256 \div 2^lc = 2^(8 - lc)
  /\ 2^(lc + lp) = 2^lc * 2^lp

\* The powers are related for every lc and lp of a stream.
LEMMA PowersOf ==
  ASSUME NEW lc \in 0 .. 8, NEW lp \in 0 .. 4
  PROVE  PowersAt(lc, lp)
  <1>c0. PowersAt(0, 0) /\ PowersAt(0, 1) /\ PowersAt(0, 2) /\ PowersAt(0, 3) /\ PowersAt(0, 4)
    BY SMT, Powers DEF PowersAt
  <1>c1. PowersAt(1, 0) /\ PowersAt(1, 1) /\ PowersAt(1, 2) /\ PowersAt(1, 3) /\ PowersAt(1, 4)
    BY SMT, Powers DEF PowersAt
  <1>c2. PowersAt(2, 0) /\ PowersAt(2, 1) /\ PowersAt(2, 2) /\ PowersAt(2, 3) /\ PowersAt(2, 4)
    BY SMT, Powers DEF PowersAt
  <1>c3. PowersAt(3, 0) /\ PowersAt(3, 1) /\ PowersAt(3, 2) /\ PowersAt(3, 3) /\ PowersAt(3, 4)
    BY SMT, Powers DEF PowersAt
  <1>c4. PowersAt(4, 0) /\ PowersAt(4, 1) /\ PowersAt(4, 2) /\ PowersAt(4, 3) /\ PowersAt(4, 4)
    BY SMT, Powers DEF PowersAt
  <1>c5. PowersAt(5, 0) /\ PowersAt(5, 1) /\ PowersAt(5, 2) /\ PowersAt(5, 3) /\ PowersAt(5, 4)
    BY SMT, Powers DEF PowersAt
  <1>c6. PowersAt(6, 0) /\ PowersAt(6, 1) /\ PowersAt(6, 2) /\ PowersAt(6, 3) /\ PowersAt(6, 4)
    BY SMT, Powers DEF PowersAt
  <1>c7. PowersAt(7, 0) /\ PowersAt(7, 1) /\ PowersAt(7, 2) /\ PowersAt(7, 3) /\ PowersAt(7, 4)
    BY SMT, Powers DEF PowersAt
  <1>c8. PowersAt(8, 0) /\ PowersAt(8, 1) /\ PowersAt(8, 2) /\ PowersAt(8, 3) /\ PowersAt(8, 4)
    BY SMT, Powers DEF PowersAt
  <1>1. lc = 0 \/ lc = 1 \/ lc = 2 \/ lc = 3 \/ lc = 4 \/ lc = 5 \/ lc = 6 \/ lc = 7 \/ lc = 8
    BY SMT
  <1>2. lp = 0 \/ lp = 1 \/ lp = 2 \/ lp = 3 \/ lp = 4
    BY SMT
  <1> QED
    BY SMT, <1>1, <1>2, <1>c0, <1>c1, <1>c2, <1>c3, <1>c4, <1>c5, <1>c6, <1>c7, <1>c8

\* What a byte and a higher part have to do with the powers of lc.
LowBits(q, c, lc) ==
  /\ (256 * q + c) % 2^(8 - lc) = c % 2^(8 - lc)
  /\ c % 2^(8 - lc) \in Nat /\ c % 2^(8 - lc) <= c
  /\ c - (c % 2^(8 - lc)) <= 256 - 2^(8 - lc)
  /\ (((256 * q + c) * 2^(lc + 1)) % 256) % 2^(lc + 1) = 0

\* It holds for every lc.
LEMMA LowBitsOf ==
  ASSUME NEW q \in Nat, NEW c \in Nat, c < 256, NEW lc \in 0 .. 8
  PROVE  LowBits(q, c, lc)
  <1>c0. LowBits(q, c, 0)
    BY SMT, Powers DEF LowBits
  <1>c1. LowBits(q, c, 1)
    BY SMT, Powers DEF LowBits
  <1>c2. LowBits(q, c, 2)
    BY SMT, Powers DEF LowBits
  <1>c3. LowBits(q, c, 3)
    BY SMT, Powers DEF LowBits
  <1>c4. LowBits(q, c, 4)
    BY SMT, Powers DEF LowBits
  <1>c5. LowBits(q, c, 5)
    BY SMT, Powers DEF LowBits
  <1>c6. LowBits(q, c, 6)
    BY SMT, Powers DEF LowBits
  <1>c7. LowBits(q, c, 7)
    BY SMT, Powers DEF LowBits
  <1>c8. LowBits(q, c, 8)
    BY SMT, Powers DEF LowBits
  <1>1. lc = 0 \/ lc = 1 \/ lc = 2 \/ lc = 3 \/ lc = 4 \/ lc = 5 \/ lc = 6 \/ lc = 7 \/ lc = 8
    BY SMT
  <1> QED
    BY SMT, <1>1, <1>c0, <1>c1, <1>c2, <1>c3, <1>c4, <1>c5, <1>c6, <1>c7, <1>c8

\* The same for the position and lp.
LowPos(h, m, lp) == (256 * h + m) % 2^lp = m % 2^lp /\ m % 2^lp \in Nat /\ m % 2^lp <= 2^lp - 1

\* It holds for every lp.
LEMMA LowPosOf ==
  ASSUME NEW h \in Nat, NEW m \in Nat, NEW lp \in 0 .. 4
  PROVE  LowPos(h, m, lp)
  <1>c0. LowPos(h, m, 0)
    BY SMT, Powers DEF LowPos
  <1>c1. LowPos(h, m, 1)
    BY SMT, Powers DEF LowPos
  <1>c2. LowPos(h, m, 2)
    BY SMT, Powers DEF LowPos
  <1>c3. LowPos(h, m, 3)
    BY SMT, Powers DEF LowPos
  <1>c4. LowPos(h, m, 4)
    BY SMT, Powers DEF LowPos
  <1>1. lp = 0 \/ lp = 1 \/ lp = 2 \/ lp = 3 \/ lp = 4
    BY SMT
  <1> QED
    BY SMT, <1>1, <1>c0, <1>c1, <1>c2, <1>c3, <1>c4

----------------------------------------------------------------------------
(* The literal coder and the masked position. *)

\* What the three masks leave of a position and a byte.
Context(p, c, lc, lp) == 256 * (p % 2^lp) + (c - (c % 2^(8 - lc)))

\* The mask of decodeLoop.
GoMasked(p, c, lc, lp) == And(p * 256 + c, 256 * 2^lp - 2^(8 - lc)) = Context(p, c, lc, lp)

\* The mask of decodeLoop keeps the context of the literal.
LEMMA GoMask ==
  ASSUME NEW p \in Nat, NEW c \in Nat, c < 256, NEW lc \in 0 .. 8, NEW lp \in 0 .. 4
  PROVE  GoMasked(p, c, lc, lp)
  <1> SUFFICES And(p * 256 + c, 256 * 2^lp - 2^(8 - lc)) = Context(p, c, lc, lp)
    BY DEF GoMasked
  <1> DEFINE P == 2^lp
             C == 2^(8 - lc)
  <1>1. P \in Nat /\ P > 0 /\ P <= 16 /\ C \in Nat /\ C > 0 /\ C <= 256
    <2>1. PowersAt(lc, lp)
      BY SMT, PowersOf
    <2> QED
      BY SMT, <2>1 DEF PowersAt
  <1>2. PICK h \in Nat, m \in Nat : h = p \div 256 /\ p = 256 * h + m /\ m < 256
    BY SMT, DivMod
  <1>3. (p % P) = m % P /\ m % P \in Nat
    <2>1. LowPos(h, m, lp)
      BY SMT, LowPosOf
    <2> QED
      BY SMT, <1>2, <2>1 DEF LowPos
  <1>4. And8(m, P - 1) = m % P
    <2>1. lp \in Nat /\ lp <= 5
      BY SMT
    <2>2. MaskedLow(m, lp)
      BY SMT, <1>2, <2>1, LowMask
    <2> QED
      BY SMT, <2>2 DEF MaskedLow
  <1>5. And8(c, 256 - C) = c - (c % C)
    <2>1. 8 - lc \in Nat /\ 8 - lc <= 8
      BY SMT
    <2>2. MaskedHigh(c, 8 - lc)
      BY SMT, <2>1, HighMask
    <2> QED
      BY SMT, <2>2 DEF MaskedHigh
  <1>6. Context(p, c, lc, lp) = 256 * (p % P) + (c - (c % C))
    BY DEF Context
  <1> HIDE DEF P, C
  <1> DEFINE s == Word(h, m, c)
  <1>7. s \in Nat /\ s \div 65536 = h /\ (s \div 256) % 256 = m /\ s % 256 = c
    <2>1. Parts(h, m, c)
      BY SMT, <1>2, WordParts
    <2> QED
      BY SMT, <2>1 DEF Parts
  <1>8. s = p * 256 + c /\ Word(0, P - 1, 256 - C) = 256 * P - C
    BY SMT, <1>1, <1>2 DEF Word
  <1> HIDE DEF s
  <1>9. And(s, Word(0, P - 1, 256 - C))
          = 65536 * And8(h % 256, 0) + 256 * And8(m, P - 1) + And8(c, 256 - C)
    <2>1. P - 1 \in Nat /\ P - 1 < 256 /\ 256 - C \in Nat /\ 256 - C < 256
      BY SMT, <1>1
    <2>2. AndOne(s, 0, P - 1, 256 - C)
      BY SMT, <1>7, <2>1, Bytes
    <2> QED
      BY SMT, <1>7, <2>2 DEF AndOne
  <1>10. And8(h % 256, 0) = 0
    BY SMT, Zero8
  <1>11. c % C \in Nat
    BY SMT, <1>1
  <1>12. And(s, Word(0, P - 1, 256 - C)) = 256 * (p % P) + (c - (c % C))
    BY SMT, <1>3, <1>4, <1>5, <1>9, <1>10, <1>11
  <1> QED
    BY SMT, <1>6, <1>8, <1>12 DEF P, C

\* The shifted mask of arm64, of which the low five bits are the shift.
ArmMask(lc, lp) == 512 * 2^(lc + lp) + lc - 511

\* What the shifted mask makes of a position and a byte.
ArmMaskedTo(p, c, lc, lp) ==
  /\ ArmMask(lc, lp) % 32 = lc + 1
  /\ And((c + p * 256) * 2^(lc + 1), ArmMask(lc, lp)) = 2 * 2^lc * Context(p, c, lc, lp)

\* The shifted mask of arm64 keeps the same context.
LEMMA ArmMasked ==
  ASSUME NEW p \in Nat, NEW c \in Nat, c < 256, NEW lc \in 0 .. 8, NEW lp \in 0 .. 4
  PROVE  ArmMaskedTo(p, c, lc, lp)
  <1> SUFFICES /\ ArmMask(lc, lp) % 32 = lc + 1
               /\ And((c + p * 256) * 2^(lc + 1), ArmMask(lc, lp)) = 2 * 2^lc * Context(p, c, lc, lp)
    BY DEF ArmMaskedTo
  <1> DEFINE P == 2^lp
             C == 2^(8 - lc)
             B == 2^(lc + 1)
             K == 2^(lc + lp)
             X == 256 * p + c
             S == X * B
  <1>1. /\ P \in Nat /\ P > 0 /\ P <= 16 /\ C \in Nat /\ C > 0 /\ C <= 256
        /\ B \in Nat /\ B > 0 /\ K \in Nat /\ K > 0 /\ B * C = 512 /\ B = 2 * 2^lc
        /\ 512 * K = B * (256 * P)
    <2> DEFINE D == 2^lc
    <2>1. PowersAt(lc, lp)
      BY SMT, PowersOf
    <2>2. /\ D \in Nat /\ D > 0 /\ P \in Nat /\ P > 0 /\ P <= 16 /\ B = 2 * D /\ C \in Nat
          /\ C > 0 /\ C <= 256
          /\ D * C = 256 /\ K = D * P
      BY SMT, <2>1 DEF PowersAt
    <2> HIDE DEF D, P, C, B, K
    <2>3. B * C = 512
      BY SMT, <2>2
    <2>4. K \in Nat /\ K > 0
      BY SMT, <2>2
    <2>5. 512 * K = B * (256 * P)
      BY SMT, <2>2
    <2> QED
      BY SMT, <2>2, <2>3, <2>4, <2>5 DEF D
  <1>2. /\ X % C = c % C /\ c % C \in Nat /\ c % C <= c /\ (S % 256) % B = 0
    <2>1. LowBits(p, c, lc)
      BY SMT, LowBitsOf
    <2> QED
      BY SMT, <2>1 DEF LowBits
  <1>3. Context(p, c, lc, lp) = 256 * (p % P) + (c - (c % C))
    BY DEF Context
  <1>4. ArmMask(lc, lp) = 512 * K - 512 + (lc + 1)
    BY SMT, <1>1 DEF ArmMask
  <1>x. X \in Nat
    BY SMT
  <1>b. X * B = (c + p * 256) * 2^(lc + 1)
    BY SMT
  <1> HIDE DEF P, C, B, K, X
  <1>5. ArmMask(lc, lp) % 32 = lc + 1
    <2> DEFINE d == 16 * K - 16
               k == lc + 1
               y == ArmMask(lc, lp)
    <2>1. y = 32 * d + k /\ d \in Int /\ k \in Int /\ 0 <= k /\ k < 32 /\ y \in Int
      BY SMT, <1>1, <1>4
    <2> HIDE DEF d, k, y
    <2>2. y % 32 = k
      BY SMT, <2>1, DivUnique
    <2> QED
      BY SMT, <2>2 DEF k, y
  <1>6. S \in Nat
    BY SMT, <1>1, <1>x
  <1> HIDE DEF S
  <1>7. PICK h \in Nat, m \in Nat, l \in Nat :
          S = Word(h, m, l) /\ m < 256 /\ l < 256 /\ l = S % 256
    <2>1. PICK q \in Nat, l \in Nat : q = S \div 256 /\ l = S % 256 /\ S = 256 * q + l /\ l < 256
      BY SMT, <1>6, DivMod
    <2>2. PICK h \in Nat, m \in Nat : h = q \div 256 /\ q = 256 * h + m /\ m < 256
      BY SMT, DivMod
    <2> QED
      BY SMT, <2>1, <2>2 DEF Word
  <1>8. And8(l, lc + 1) = 0
    <2>1. lc \in Nat /\ lc <= 8
      BY SMT
    <2>2. MaskedShift(l, lc)
      BY SMT, <1>7, <2>1, ShiftMask
    <2> QED
      BY SMT, <1>2, <1>7, <2>2 DEF MaskedShift, B
  <1>9. And(S, ArmMask(lc, lp)) = (S % (512 * K)) - (S % 512)
    <2>1. lc + lp \in 0 .. 12 /\ lc + 1 \in 0 .. 9
      BY SMT
    <2> DEFINE k == lc + lp
               n == lc + 1
    <2>2. k \in 0 .. 12 /\ n \in 0 .. 9 /\ And8(l, n) = 0
      BY <1>8, <2>1
    <2> HIDE DEF k, n
    <2>3. InField(h, m, l, k, n)
      BY Zenon, <2>2, Field
    <2>4. And(S, 512 * 2^k - 512 + n) = (S % (512 * 2^k)) - (S % 512)
      BY SMT, <1>7, <2>2, <2>3 DEF InField
    <2> QED
      BY SMT, <1>4, <2>4 DEF k, n, K
  <1>10. S % 512 = B * (c % C)
    <2>1. Splits(B, C, X, 0)
      BY SMT, <1>1, <1>x, Split
    <2>2. (B * X + 0) % (B * C) = B * (X % C) + 0
      BY SMT, <1>1, <2>1 DEF Splits
    <2>3. B * X + 0 = S /\ B * (X % C) + 0 = B * (c % C)
      BY SMT, <1>1, <1>2, <1>x DEF S
    <2> QED
      BY SMT, <1>1, <2>2, <2>3
  <1>11. S % (512 * K) = B * (256 * (p % P) + c)
    <2>1. Splits(B, 256 * P, X, 0)
      <3>1. 256 * P \in Nat
        BY SMT, <1>1
      <3> QED
        BY SMT, <1>1, <1>x, <3>1, Split
    <2>2. (B * X + 0) % (B * (256 * P)) = B * (X % (256 * P)) + 0
      BY SMT, <1>1, <2>1 DEF Splits
    <2>3. Splits(256, P, p, c)
      BY SMT, <1>1, Split
    <2>4. X % (256 * P) = 256 * (p % P) + c
      BY SMT, <1>1, <2>3 DEF Splits, X
    <2>5. B * X + 0 = S
      BY SMT, <1>1, <1>x DEF S
    <2>6. p % P \in Nat
      BY SMT, <1>1
    <2> QED
      BY SMT, <1>1, <2>2, <2>4, <2>5, <2>6
  <1>12. And(S, ArmMask(lc, lp)) = B * Context(p, c, lc, lp)
    <2>1. p % P \in Nat
      BY SMT, <1>1
    <2>2. B * (256 * (p % P) + c) - B * (c % C) = B * (256 * (p % P) + (c - (c % C)))
      BY SMT, <1>1, <1>2, <2>1
    <2> QED
      BY SMT, <1>3, <1>9, <1>10, <1>11, <2>2
  <1> QED
    BY SMT, <1>1, <1>5, <1>12, <1>b DEF S

\* The end of the literal coder that a context selects.
LEMMA ContextBound ==
  ASSUME NEW p \in Nat, NEW c \in Nat, c < 256, NEW lc \in 0 .. 8, NEW lp \in 0 .. 4
  PROVE  /\ Context(p, c, lc, lp) \in Nat /\ 2^lc \in Nat /\ 2^(lc + lp) \in Nat
         /\ Context(p, c, lc, lp) * 2^lc + 256 <= 256 * 2^(lc + lp)
  <1> DEFINE D == 2^lc
             P == 2^lp
             C == 2^(8 - lc)
             x == p % P
             r == c % C
  <1>1. D \in Nat /\ D > 0 /\ P \in Nat /\ P > 0 /\ C \in Nat /\ D * C = 256 /\ 2^(lc + lp) = D * P
    <2>1. PowersAt(lc, lp)
      BY SMT, PowersOf
    <2> QED
      BY SMT, <2>1 DEF PowersAt
  <1>2. r \in Nat /\ r <= c /\ c - r <= 256 - C
    <2>1. LowBits(p, c, lc)
      BY SMT, LowBitsOf
    <2> QED
      BY SMT, <2>1 DEF LowBits
  <1>3. x \in Nat /\ x <= P - 1
    <2>1. PICK h \in Nat, m \in Nat : h = p \div 256 /\ p = 256 * h + m /\ m < 256
      BY SMT, DivMod
    <2>2. LowPos(h, m, lp)
      BY SMT, <2>1, LowPosOf
    <2> QED
      BY SMT, <2>1, <2>2 DEF LowPos
  <1>4. Context(p, c, lc, lp) = 256 * x + (c - r)
    BY DEF Context
  <1> HIDE DEF D, P, C, x, r
  <1> DEFINE z == 256 * x + (c - r)
  <1>5. z \in Nat /\ z + C <= 256 * P
    BY SMT, <1>1, <1>2, <1>3
  <1> HIDE DEF z
  <1>6. (z + C) * D <= (256 * P) * D
    BY SMT, <1>1, <1>5
  <1>7. (z + C) * D = z * D + 256 /\ (256 * P) * D = 256 * (D * P) /\ D * P \in Nat
    BY SMT, <1>1, <1>5
  <1>8. z * D + 256 <= 256 * (D * P)
    BY SMT, <1>1, <1>5, <1>6, <1>7
  <1> QED
    BY SMT, <1>1, <1>4, <1>5, <1>7, <1>8 DEF D, z

\* What the three engines make of a position and a byte.
Masked(p, c, lc, lp) ==
  /\ And(p * 256 + c, 256 * 2^lp - 2^(8 - lc)) = Context(p, c, lc, lp)
  /\ ArmMask(lc, lp) % 32 = lc + 1
  /\ And((c + p * 256) * 2^(lc + 1), ArmMask(lc, lp)) = 2 * 2^lc * Context(p, c, lc, lp)
  /\ Context(p, c, lc, lp) \in Nat /\ 2^lc \in Nat /\ 2^(lc + lp) \in Nat
  /\ Context(p, c, lc, lp) * 2^lc + 256 <= 256 * 2^(lc + lp)
  /\ PowersAt(lc, lp)
  /\ (p = 0 /\ c = 0 => Context(p, c, lc, lp) = 0)

\* The three masks keep the same context, for every lc and lp.
LEMMA Masks ==
  \A p, c, lc, lp :
    p \in Nat /\ c \in 0 .. 255 /\ lc \in 0 .. 8 /\ lp \in 0 .. 4 => Masked(p, c, lc, lp)
  <1> SUFFICES ASSUME NEW p \in Nat, NEW c \in 0 .. 255, NEW lc \in 0 .. 8, NEW lp \in 0 .. 4
               PROVE  Masked(p, c, lc, lp)
    BY Zenon
  <1>1. c \in Nat /\ c < 256
    BY SMT
  <1>2. GoMasked(p, c, lc, lp)
    BY Zenon, <1>1, GoMask
  <1>3. ArmMaskedTo(p, c, lc, lp)
    BY Zenon, <1>1, ArmMasked
  <1>4. /\ Context(p, c, lc, lp) \in Nat /\ 2^lc \in Nat /\ 2^(lc + lp) \in Nat
        /\ Context(p, c, lc, lp) * 2^lc + 256 <= 256 * 2^(lc + lp)
    BY ZenonT(60), <1>1, ContextBound
  <1>5. PowersAt(lc, lp)
    BY SMT, PowersOf
  <1>6. p = 0 /\ c = 0 => Context(p, c, lc, lp) = 0
    <2>1. 2^lp \in Nat /\ 2^lp > 0 /\ 2^(8 - lc) \in Nat /\ 2^(8 - lc) > 0
      BY SMT, <1>5 DEF PowersAt
    <2> DEFINE P == 2^lp
               C == 2^(8 - lc)
    <2>2. Context(p, c, lc, lp) = 256 * (p % P) + (c - (c % C))
      BY DEF Context
    <2> HIDE DEF P, C
    <2>3. 0 % P = 0 /\ 0 % C = 0
      BY SMT, <2>1 DEF P, C
    <2> QED
      BY SMT, <2>2, <2>3
  <1> QED
    BY Zenon, <1>2, <1>3, <1>4, <1>5, <1>6 DEF Masked, GoMasked, ArmMaskedTo

\* The position in arm64, masked while it is shifted.
MaskedPosition(p, pb) ==
  And(p * 32, 32 * 2^pb - 32) = 32 * (p % 2^pb) /\ (p % 2^pb) \in 0 .. 15

\* The position masked after the shift is the position masked before it.
LEMMA PosMask == \A p, pb : p \in Nat /\ pb \in 0 .. 4 => MaskedPosition(p, pb)
  <1> SUFFICES ASSUME NEW p \in Nat, NEW pb \in 0 .. 4
               PROVE  MaskedPosition(p, pb)
    BY Zenon
  <1>1. PICK q \in Nat, r \in Nat : q = p \div 8 /\ p = 8 * q + r /\ r < 8
    BY SMT, DivMod
  <1>2. PICK h \in Nat, m \in Nat : h = q \div 256 /\ q = 256 * h + m /\ m < 256
    BY SMT, DivMod
  <1> DEFINE l == 32 * r
             s == Word(h, m, l)
  <1>3. l \in Nat /\ l < 256 /\ s = p * 32
    BY SMT, <1>1, <1>2 DEF Word
  <1>4. s \in Nat /\ s \div 65536 = h /\ (s \div 256) % 256 = m /\ s % 256 = l
    <2> HIDE DEF l
    <2>1. Parts(h, m, l)
      BY SMT, <1>2, <1>3, WordParts
    <2> QED
      BY SMT, <2>1 DEF Parts
  <1> HIDE DEF s
  <1>7. /\ And8(l, 0) = 0 /\ And8(l, 32) = 32 * (r % 2) /\ And8(l, 96) = 32 * (r % 4)
        /\ And8(l, 224) = 32 * r
    BY SMTT(30), <1>1 DEF And8, And4, And2, And1
  <1> HIDE DEF l
  <1>5. ASSUME NEW b \in {0, 1}, NEW a \in Nat, a < 256
        PROVE  And(s, Word(0, b, a)) = 256 * And8(m, b) + And8(l, a)
    <2>1. AndOne(s, 0, b, a)
      BY SMT, <1>4, <1>5, Bytes
    <2>2. And8(h % 256, 0) = 0 /\ And8(m, b) \in Nat /\ And8(l, a) \in Nat
      BY SMT, <1>3, <1>2, Zero8, Byte8
    <2> QED
      BY SMT, <1>4, <2>1, <2>2 DEF AndOne
  <1>6. And8(m, 0) = 0 /\ And8(m, 1) = m % 2
    BY SMTT(30), <1>2 DEF And8, And4, And2, And1
  <1>8. p % 1 = 0 /\ p % 2 = r % 2 /\ p % 4 = r % 4 /\ p % 8 = r
    BY SMT, <1>1
  <1>9. p % 16 = 8 * (m % 2) + r
    BY SMT, <1>1, <1>2
  <1>10. /\ Word(0, 0, 0) = 0 /\ Word(0, 0, 32) = 32 /\ Word(0, 0, 96) = 96
         /\ Word(0, 0, 224) = 224 /\ Word(0, 1, 224) = 480
    BY SMT DEF Word
  <1> DEFINE Q(i) == And(s, 32 * 2^i - 32) = 32 * (p % 2^i)
  <1>c0. Q(0)
    <2>1. And(s, 0) = 256 * And8(m, 0) + And8(l, 0)
      BY SMT, <1>5, <1>10
    <2> QED
      BY SMT, <1>6, <1>7, <1>8, <2>1, Powers
  <1>c1. Q(1)
    <2>1. And(s, 32) = 256 * And8(m, 0) + And8(l, 32)
      BY SMT, <1>5, <1>10
    <2> QED
      BY SMT, <1>6, <1>7, <1>8, <2>1, Powers
  <1>c2. Q(2)
    <2>1. And(s, 96) = 256 * And8(m, 0) + And8(l, 96)
      BY SMT, <1>5, <1>10
    <2> QED
      BY SMT, <1>6, <1>7, <1>8, <2>1, Powers
  <1>c3. Q(3)
    <2>1. And(s, 224) = 256 * And8(m, 0) + And8(l, 224)
      BY SMT, <1>5, <1>10
    <2> QED
      BY SMT, <1>6, <1>7, <1>8, <2>1, Powers
  <1>c4. Q(4)
    <2>1. And(s, 480) = 256 * And8(m, 1) + And8(l, 224)
      BY SMT, <1>5, <1>10
    <2> QED
      BY SMT, <1>6, <1>7, <1>9, <2>1, Powers
  <1>11. pb = 0 \/ pb = 1 \/ pb = 2 \/ pb = 3 \/ pb = 4
    BY SMT
  <1> HIDE DEF Q
  <1>12. Q(pb)
    BY SMT, <1>11, <1>c0, <1>c1, <1>c2, <1>c3, <1>c4
  <1>13. (p % 2^pb) \in 0 .. 15
    <2> DEFINE R(i) == (p % 2^i) \in 0 .. 15
    <2>1. (p % 1) \in 0 .. 15 /\ (p % 2) \in 0 .. 15 /\ (p % 4) \in 0 .. 15
          /\ (p % 8) \in 0 .. 15 /\ (p % 16) \in 0 .. 15
      BY SMT
    <2>2. R(0) /\ R(1) /\ R(2) /\ R(3) /\ R(4)
      BY SMT, <2>1, Powers
    <2> HIDE DEF R
    <2>3. R(pb)
      BY SMT, <1>11, <2>2
    <2> QED
      BY <2>3 DEF R
  <1> QED
    BY SMT, <1>3, <1>12, <1>13 DEF Q, MaskedPosition

----------------------------------------------------------------------------
(* Single bits. *)

\* The operator & does not mind the order.
LEMMA AndSym == \A x, y : x \in Nat /\ y \in Nat => And(x, y) = And(y, x)
  <1>1. \A x, y : x \in Nat /\ y \in Nat => And1(x, y) = And1(y, x)
    BY SMT DEF And1
  <1>2. \A x, y : x \in Nat /\ y \in Nat => And2(x, y) = And2(y, x)
    BY SMT, <1>1 DEF And2
  <1>3. \A x, y : x \in Nat /\ y \in Nat => And4(x, y) = And4(y, x)
    BY SMT, <1>2 DEF And4
  <1>4. \A x, y : x \in Nat /\ y \in Nat => And8(x, y) = And8(y, x)
    BY SMT, <1>3 DEF And8
  <1>5. \A x, y : x \in Nat /\ y \in Nat => And16(x, y) = And16(y, x)
    BY SMT, <1>4 DEF And16
  <1> QED
    BY SMT, <1>5 DEF And

\* A mask below 256.
LEMMA AndByte == \A x, y : x \in Nat /\ y \in Nat /\ y < 256 => And(x, y) = And8(x % 256, y)
  <1> SUFFICES ASSUME NEW x \in Nat, NEW y \in Nat, y < 256
               PROVE  And(x, y) = And8(x % 256, y)
    BY SMT
  <1>1. AndOne(x, 0, 0, y)
    BY SMT, Bytes
  <1>2. Word(0, 0, y) = y
    BY SMT DEF Word
  <1>3. And8((x \div 65536) % 256, 0) = 0 /\ And8((x \div 256) % 256, 0) = 0
    BY SMT, Zero8
  <1>4. And8(x % 256, y) \in Nat
    BY SMT, Byte8
  <1> QED
    BY SMT, <1>1, <1>2, <1>3, <1>4 DEF AndOne

\* The ninth and the tenth bit, and the tree of a literal after a match.
LEMMA NinthBit ==
  ASSUME NEW x \in Nat
  PROVE  /\ And(0, x) = 0 /\ And(x, 0) = 0
         /\ And(256, x) = 256 * ((x \div 256) % 2) /\ And(x, 512) = 512 * ((x \div 512) % 2)
         /\ And(512, x) = And(x, 512)
  <1>1. And(x, 0) = 0
    <2>1. And(x, 0) = And8(x % 256, 0) /\ x % 256 \in Int
      BY SMT, AndByte
    <2> QED
      BY SMT, <2>1, Zero8
  <1>2. And(0, x) = And(x, 0) /\ And(256, x) = And(x, 256) /\ And(512, x) = And(x, 512)
    BY SMT, AndSym
  <1> DEFINE c == (x \div 256) % 256
  <1>3. c \in Nat /\ c < 256 /\ c % 2 = (x \div 256) % 2 /\ (c \div 2) % 2 = (x \div 512) % 2
    BY SMT
  <1>4. And8((x \div 65536) % 256, 0) = 0 /\ And8(x % 256, 0) = 0
    BY SMT, Zero8
  <1>5. AndOne(x, 0, 1, 0) /\ AndOne(x, 0, 2, 0)
    BY SMT, Bytes
  <1>6. Word(0, 1, 0) = 256 /\ Word(0, 2, 0) = 512
    BY SMT DEF Word
  <1> HIDE DEF c
  <1>7. And8(c, 1) = c % 2 /\ And8(c, 2) = 2 * ((c \div 2) % 2)
    BY SMTT(30), <1>3 DEF And8, And4, And2, And1
  <1>8. And(x, 256) = 256 * (c % 2)
    BY SMT, <1>3, <1>4, <1>5, <1>6, <1>7 DEF AndOne, c
  <1>9. And(x, 512) = 256 * (2 * ((c \div 2) % 2))
    BY SMT, <1>3, <1>4, <1>5, <1>6, <1>7 DEF AndOne, c
  <1> QED
    BY SMT, <1>1, <1>2, <1>3, <1>8, <1>9

\* The bits of the byte at the match, twice as high in the assembly.
LEMMA MatchBits ==
  ASSUME NEW x \in Nat
  PROVE  /\ And(0, x) = 0 /\ And(x, 0) = 0
         /\ And(256, x) \in {0, 256}
         /\ And(512, 2 * x) = 2 * And(256, x) /\ And(2 * x, 512) = 2 * And(256, x)
  <1>1. And(0, x) = 0 /\ And(x, 0) = 0 /\ And(256, x) = 256 * ((x \div 256) % 2)
    BY SMT, NinthBit
  <1> DEFINE y == 2 * x
  <1>2. y \in Nat /\ y \div 512 = x \div 256
    BY SMT
  <1> HIDE DEF y
  <1>3. And(y, 512) = 512 * ((y \div 512) % 2) /\ And(512, y) = And(y, 512)
    BY SMT, <1>2, NinthBit
  <1>4. (x \div 256) % 2 = 0 \/ (x \div 256) % 2 = 1
    BY SMT
  <1> QED
    BY SMT, <1>1, <1>2, <1>3, <1>4 DEF y

\* The values the comparison with a match byte moves through.
LEMMA MatchXor ==
  /\ Xor(0, 0) = 0 /\ Xor(0, 256) = 256 /\ Xor(256, 256) = 0
  /\ Xor(512, 0) = 512 /\ Xor(512, 512) = 0
  <1>1. And(0, 0) = 0 /\ And(0, 256) = 0 /\ And(512, 0) = 0
    BY SMT, NinthBit
  <1>2. And(256, 256) = 256 /\ And(512, 512) = 512
    <2>1. And(256, 256) = 256 * ((256 \div 256) % 2)
      BY SMT, NinthBit
    <2>2. And(512, 512) = 512 * ((512 \div 512) % 2)
      BY SMT, NinthBit
    <2> QED
      BY SMT, <2>1, <2>2
  <1> QED
    BY SMT, <1>1, <1>2 DEF Xor

\* The masks of the last bits of a symbol.
LEMMA LastBits ==
  ASSUME NEW x \in Nat
  PROVE  And(x, 255) = x % 256 /\ And(x, 3) = x % 4
  <1> DEFINE c == x % 256
  <1>1. c \in Nat /\ c < 256 /\ c % 4 = x % 4
    BY SMT
  <1>2. And(x, 255) = And8(c, 255) /\ And(x, 3) = And8(c, 3)
    BY SMT, AndByte
  <1> HIDE DEF c
  <1>3. And8(c, 255) = c /\ And8(c, 3) = c % 4
    BY SMTT(30), <1>1 DEF And8, And4, And2, And1
  <1> QED
    BY SMT, <1>1, <1>2, <1>3 DEF c

\* The flags and bits that are set with |.
LEMMA StateFlags ==
  /\ Or(16, 2) = 18 /\ Or(22, 2) = 22
  /\ Or(0, 2) = 2 /\ Or(1, 2) = 3 /\ Or(2, 2) = 2 /\ Or(3, 2) = 3
  <1>1. And(16, 2) = And8(16, 2) /\ And(22, 2) = And8(22, 2)
        /\ And(0, 2) = And8(0, 2) /\ And(1, 2) = And8(1, 2) /\ And(2, 2) = And8(2, 2)
        /\ And(3, 2) = And8(3, 2)
    <2>1. 16 % 256 = 16 /\ 22 % 256 = 22 /\ 0 % 256 = 0 /\ 1 % 256 = 1 /\ 2 % 256 = 2 /\ 3 % 256 = 3
      BY SMT
    <2> QED
      BY SMT, <2>1, AndByte
  <1>2. /\ And8(16, 2) = 0 /\ And8(22, 2) = 2 /\ And8(0, 2) = 0 /\ And8(1, 2) = 0
        /\ And8(2, 2) = 2 /\ And8(3, 2) = 2
    BY SMT DEF And8, And4, And2, And1
  <1> QED
    BY SMT, <1>1, <1>2 DEF Or

\* The flag of a new distance is a bit that no state uses.
LEMMA DistanceFlag ==
  ASSUME NEW s \in Nat, s < 32
  PROVE  Or(s, 32) = s + 32
  <1>1. And(s, 32) = And8(s, 32)
    <2>1. s % 256 = s
      BY SMT
    <2> QED
      BY SMT, <2>1, AndByte
  <1>2. And8(s, 32) = 0
    BY SMTT(30) DEF And8, And4, And2, And1
  <1> QED
    BY SMT, <1>1, <1>2 DEF Or

\* The flag is cleared with ^.
LEMMA FlagOff ==
  ASSUME NEW x \in Nat, x >= 32, x < 64
  PROVE  Xor(x, 32) = x - 32
  <1>1. And(x, 32) = And8(x, 32)
    <2>1. x % 256 = x
      BY SMT
    <2> QED
      BY SMT, <2>1, AndByte
  <1>2. And8(x, 32) = 32
    BY SMTT(30) DEF And8, And4, And2, And1
  <1> QED
    BY SMT, <1>1, <1>2 DEF Xor

\* The align bits of amd64, below a distance.
LEMMA AlignBits ==
  ASSUME NEW d \in Nat, NEW y \in Nat, y < 16
  PROVE  Or(16 * d, y) = 16 * d + y
  <1> DEFINE c == (16 * d) % 256
  <1>1. c \in Nat /\ c < 256 /\ c % 16 = 0 /\ 16 * d \in Nat
    BY SMT
  <1>2. And(16 * d, y) = And8(c, y)
    BY SMT, AndByte
  <1> HIDE DEF c
  <1>3. And8(c, y) = 0
    <2>1. And8(c, y) = 16 * And4(c \div 16, 0) + And4(0, y)
      <3>1. y \div 16 = 0 /\ y % 16 = y
        BY SMT
      <3> QED
        BY SMT, <1>1, <3>1 DEF And8
    <2>2. And4(c \div 16, 0) = 0 /\ And4(0, y) = 0
      BY SMT, <1>1 DEF And4, And2, And1
    <2> QED
      BY SMT, <2>1, <2>2
  <1> QED
    BY SMT, <1>1, <1>2, <1>3 DEF Or

\* The same of arm64, one at a time.
LEMMA AlignBit ==
  ASSUME NEW d \in Nat, NEW t \in Nat, NEW w \in {1, 2, 4, 8}, t < w
  PROVE  Or(16 * d + t, w) = 16 * d + t + w
  <1> DEFINE c == (16 * d + t) % 256
  <1>1. c \in Nat /\ c < 256 /\ c % 16 = t /\ 16 * d + t \in Nat
    BY SMT
  <1>2. And(16 * d + t, w) = And8(c, w)
    BY SMT, AndByte
  <1> HIDE DEF c
  <1>3. /\ And8(c, 1) = c % 2 /\ And8(c, 2) = 2 * ((c \div 2) % 2)
        /\ And8(c, 4) = 4 * ((c \div 4) % 2) /\ And8(c, 8) = 8 * ((c \div 8) % 2)
    BY SMTT(30), <1>1 DEF And8, And4, And2, And1
  <1>4. And8(c, w) = 0
    <2>1. w = 1 => c % 2 = 0
      BY SMT, <1>1
    <2>2. w = 2 => (c \div 2) % 2 = 0
      BY SMT, <1>1
    <2>3. w = 4 => (c \div 4) % 2 = 0
      BY SMT, <1>1
    <2>4. w = 8 => (c \div 8) % 2 = 0
      BY SMT, <1>1
    <2> QED
      BY SMT, <1>3, <2>1, <2>2, <2>3, <2>4
  <1> QED
    BY SMT, <1>1, <1>2, <1>4 DEF Or
----------------------------------------------------------------------------
(* What relates the three engines while they decode a symbol. *)

\* The fields of the three records.
GoFields ==
  DOMAIN go = {"at", "base", "m", "offs", "mbit", "matchByte", "n", "w",
               "length", "distance", "reps", "state", "last", "out"}
AmdFields ==
  DOMAIN amd = {"at", "probs", "st", "pbPos", "state", "sym", "sym2", "offs",
                "match", "len", "rep0", "rep1", "rep2", "rep3", "load",
                "store", "label", "out"}
ArmFields ==
  DOMAIN arm = {"at", "probs", "st", "pbPos", "state", "sym", "sym2", "offs",
                "match", "len", "numBits", "reps", "load", "store", "label",
                "out"}

\* The addresses of an entry: amd64 counts from kStartOffset entries on.
AmdAddress(entry) == 2 * entry - 2 * kStartOffset
\* arm64 counts from the start of the table.
ArmAddress(entry) == 2 * entry
\* The addresses of an entry, or of none.
Addresses(entry, a, r) ==
  \/ entry = None /\ a = None /\ r = None
  \/ entry \in Nat /\ a = AmdAddress(entry) /\ r = ArmAddress(entry)

\* A tree: the same slice of the table, and the same index.
Tree ==
  /\ go.base \in Nat /\ go.m \in Nat /\ go.m >= 1 /\ go.offs = 0 /\ go.mbit = 0
  /\ amd.probs = AmdAddress(go.base) /\ arm.probs = ArmAddress(go.base)
  /\ amd.sym = go.m /\ arm.sym = go.m

\* A single probability.
Single(base) ==
  go.base = base /\ base \in Nat /\ go.m = 0 /\ go.offs = 0 /\ go.mbit = 0

\* The assembly keeps the position state in bytes.
Position == amd.pbPos = 2 * posState /\ arm.pbPos = 2 * posState

\* The state, which the assembly keeps doubled.
States(s) == go.state = s /\ amd.state = 2 * s /\ arm.state = 2 * s

\* The distances are in their order, in decodeLoop and in arm64.
Unmoved == go.reps = <<1, 2, 3, 4>> /\ arm.reps = <<1, 2, 3, 4>>

\* The same of amd64.
AmdUnmoved == amd.rep0 = 1 /\ amd.rep1 = 2 /\ amd.rep2 = 3 /\ amd.rep3 = 4

\* Before the first decision: the registers the entry sets up.
IsMatchInv ==
  /\ Single(probIsMatch + posState + inp.state)
  /\ Position /\ Unmoved /\ AmdUnmoved /\ States(inp.state)
  /\ amd.probs = 0
  /\ amd.st = 2 * inp.state /\ arm.st = probs_IsMatch + 2 * inp.state
  /\ amd.sym = IF inp.first THEN 0 ELSE inp.prevByte
  /\ arm.sym = amd.sym
  /\ amd.label = EntryLabel(amd.state) /\ arm.label = ArmEntryLabel(arm.state)

\* In the tree of a literal.
LiteralInv ==
  /\ Tree /\ go.base = LitBase /\ go.m <= 255
  /\ go.state \in 0 .. 3 /\ States(go.state)

\* The byte at the match and the bit that is still compared with it.
MatchedInv ==
  /\ go.base = LitBase /\ go.base \in Nat /\ go.m \in 1 .. 255 /\ amd.sym = go.m /\ arm.sym = go.m
  /\ amd.probs = AmdAddress(go.base) /\ arm.probs = ArmAddress(go.base)
  /\ go.matchByte \in Nat /\ go.mbit \in {0, 256}
  /\ go.offs = And(go.mbit, go.matchByte)
  /\ amd.offs = 2 * go.mbit /\ arm.offs = 2 * go.mbit
  /\ amd.match = 2 * go.matchByte /\ arm.match = 2 * go.matchByte
  /\ go.state \in 4 .. 6 /\ States(go.state)

\* A repeated distance is looked for: the assembly has set the state.
RepState == IF inp.state < numLitStates THEN 8 ELSE 11

\* What every decision about a repeated distance relies on.
RepInv ==
  /\ go.state = inp.state /\ amd.state = 2 * RepState /\ arm.state = 2 * RepState
  /\ Position /\ Unmoved
  /\ amd.st = 2 * inp.state
  /\ amd.probs = AmdAddress(probRepLenCoder) /\ arm.probs = ArmAddress(probRepLenCoder)

\* A match: is its distance a repeated one?
IsRepInv ==
  /\ Single(probIsRep + inp.state) /\ States(inp.state)
  /\ Position /\ Unmoved /\ AmdUnmoved
  /\ amd.st = 2 * inp.state /\ arm.st = probs_IsMatch + 2 * inp.state
  /\ amd.probs = 0

\* Is it the last distance?
IsRepG0Inv ==
  /\ Single(probIsRepG0 + inp.state) /\ RepInv /\ AmdUnmoved
  /\ arm.st = probs_IsMatch + 2 * inp.state

\* Is it more than one byte?
IsRep0LongInv ==
  /\ Single(probIsRep0Long + posState + inp.state) /\ RepInv /\ AmdUnmoved
  /\ arm.st = ArmAddress(probIsRep0Long) + 2 * inp.state

\* amd64 has moved the first distance already, and keeps the second in sym.
IsRepG1Inv ==
  /\ Single(probIsRepG1 + inp.state) /\ RepInv
  /\ arm.st = probs_IsMatch + 2 * inp.state
  /\ amd.rep1 = 1 /\ amd.sym = 2 /\ amd.rep2 = 3 /\ amd.rep3 = 4

\* Is it the third distance?  amd64 keeps it in sym2.
IsRepG2Inv ==
  /\ Single(probIsRepG2 + inp.state) /\ RepInv
  /\ amd.rep1 = 1 /\ amd.rep2 = 2 /\ amd.sym2 = 3 /\ amd.rep3 = 4

\* A length is decoded: of a repeated distance, or (12 or more) of a new one.
LengthInv ==
  /\ go.state \in {8, 11} \cup 12 .. 23 /\ amd.state = 2 * go.state
  /\ arm.state = 2 * go.state + (IF go.state < numStates THEN 0 ELSE 8)
  /\ arm.reps = go.reps /\ Reps = go.reps
  /\ go.state >= numStates => Unmoved /\ AmdUnmoved

\* Is the length one of the eight shortest?
ChoiceInv ==
  /\ go.base \in LenCoders /\ Single(go.base) /\ LengthInv /\ Position
  /\ amd.probs = AmdAddress(go.base) /\ arm.probs = ArmAddress(go.base)
  /\ amd.len = 5 /\ arm.len = 6

\* Is it one of the next eight?  The assembly has moved probs.
Choice2Inv ==
  /\ go.base \in LenCoders /\ go.m = 8 /\ go.offs = 0 /\ go.mbit = 0
  /\ LengthInv /\ Position
  /\ amd.probs = AmdAddress(go.base + 8) /\ arm.probs = ArmAddress(go.base + 8)
  /\ amd.len = -3 /\ arm.len = -2

\* In the three trees of a length.
LowInv ==
  /\ go.base \in {c + posState : c \in LenCoders} /\ Tree /\ go.m < 8
  /\ LengthInv /\ amd.len = 5 /\ arm.len = 6

MidInv ==
  /\ go.base \in {c + posState + 8 : c \in LenCoders} /\ Tree /\ go.m < 8
  /\ LengthInv /\ amd.len = -3 /\ arm.len = -2

HighInv ==
  /\ go.base \in {c + lenHigh : c \in LenCoders} /\ Tree /\ go.m < 256
  /\ LengthInv /\ amd.len = 237 /\ arm.len = 238

\* A new distance: its length is known.
DistanceInv ==
  /\ go.state \in 12 .. 23 /\ amd.state = 2 * go.state /\ arm.state = 2 * go.state + 8
  /\ Unmoved /\ AmdUnmoved
  /\ go.length \in Nat /\ amd.len = go.length + 2 /\ arm.len = go.length + 2

\* In the tree of a distance slot.
SlotInv ==
  /\ go.base \in {probPosSlot + 64 * i : i \in 0 .. 3} /\ Tree /\ go.m < 64
  /\ DistanceInv

\* The n - 1 bits after this decision add at most 2 w (2^(n - 1) - 1) to the
\* index m.
SpecRoom(m, w, n) == m + 2 * w * (2^(n - 1) - 1) <= 127

\* In a short distance: the assembly keeps the address itself in sym.
SpecInv ==
  /\ go.base = 0 /\ go.m \in Nat /\ go.m >= 1 /\ go.offs = 0 /\ go.mbit = 0
  /\ go.n \in 1 .. 5 /\ go.w \in Nat /\ go.w >= 1
  /\ SpecRoom(go.m, go.w, go.n)
  /\ amd.sym = AmdAddress(go.m) /\ arm.sym = ArmAddress(go.m)
  /\ amd.sym2 = 2 * go.w /\ arm.sym2 = 2 * go.w
  /\ amd.pbPos = go.n /\ arm.numBits = go.n
  /\ DistanceInv

\* In the direct bits: amd64 leaves room for the align bits at once.
DirectInv ==
  /\ go.distance \in Nat /\ go.n \in Nat /\ go.n >= 1 /\ go.offs = 0 /\ go.mbit = 0
  /\ amd.sym = 32 * go.distance /\ arm.sym = go.distance
  /\ amd.pbPos = go.n /\ arm.numBits = go.n
  /\ arm.probs = ArmAddress(probAlign)
  /\ DistanceInv

\* The distance without the align bits: arm64 adds them one by one, amd64
\* collects them in sym2 and adds them with the last.
AlignInv ==
  /\ go.base = probAlign /\ go.w \in {1, 2, 4, 8} /\ go.m \in go.w .. 2 * go.w - 1
  /\ go.offs = 0 /\ go.mbit = 0
  /\ amd.sym \in Nat /\ amd.sym % 16 = 0
  /\ go.distance = amd.sym + (go.m - go.w) /\ arm.sym = go.distance
  /\ (go.w > 1 => amd.sym2 = 2 * go.m) /\ arm.sym2 = 2 * go.m
  /\ amd.pbPos = go.w /\ arm.numBits = go.w
  /\ arm.probs = ArmAddress(probAlign)
  /\ DistanceInv

\* The symbol is complete.
EndInv ==
  /\ amd.out = go.out /\ arm.out = go.out /\ go.state \in 0 .. 11 /\ States(go.state)
  /\ amd.label = IF go.out[1] = "marker" THEN "fin" ELSE EntryLabel(amd.state)
  /\ arm.label = IF go.out[1] = "marker" THEN "fin" ELSE ArmEntryLabel(arm.state)

\* What relates the engines, by the kind of the next decision.
KindInv ==
  /\ go.at = "isMatch" => IsMatchInv
  /\ go.at = "literal" => LiteralInv
  /\ go.at = "matched" => MatchedInv
  /\ go.at = "isRep" => IsRepInv
  /\ go.at = "isRepG0" => IsRepG0Inv
  /\ go.at = "isRep0Long" => IsRep0LongInv
  /\ go.at = "isRepG1" => IsRepG1Inv
  /\ go.at = "isRepG2" => IsRepG2Inv
  /\ go.at = "choice" => ChoiceInv
  /\ go.at = "choice2" => Choice2Inv
  /\ go.at = "low" => LowInv
  /\ go.at = "mid" => MidInv
  /\ go.at = "high" => HighInv
  /\ go.at = "slot" => SlotInv
  /\ go.at = "spec" => SpecInv
  /\ go.at = "direct" => DirectInv
  /\ go.at = "align" => AlignInv
  /\ go.at = "end" => EndInv

\* The kinds of decisions.
Kinds == {"isMatch", "literal", "matched", "isRep", "isRepG0", "isRep0Long",
          "isRepG1", "isRepG2", "choice", "choice2", "low", "mid", "high",
          "slot", "spec", "direct", "align", "end"}

\* The inductive invariant.
Inv ==
  /\ inp \in Inputs
  /\ GoFields /\ AmdFields /\ ArmFields
  /\ go.at \in Kinds /\ amd.at = go.at /\ arm.at = go.at
  /\ Addresses(GoEntry, amd.load, arm.load)
  /\ Addresses(go.last, amd.store, arm.store)
  /\ KindInv

----------------------------------------------------------------------------
(* The layout of the table, and the inputs. *)

\* Where the parts of the table start, in decodeLoop.
LEMMA Table ==
  /\ probSpecPos = 0 /\ probIsRep0Long = 128 /\ probRepLenCoder = 384 /\ probLenCoder = 896
  /\ probIsMatch = 1408 /\ probAlign = 1664 /\ probIsRep = 1680 /\ probIsRepG0 = 1692
  /\ probIsRepG1 = 1704 /\ probIsRepG2 = 1716 /\ probPosSlot = 1728 /\ probLiteral = 1984
  /\ lenHigh = 256 /\ lenChoice = 0 /\ lenChoice2 = 8
  BY SMT DEF probSpecPos, probIsRep0Long, probRepLenCoder, probLenCoder, probIsMatch, probAlign,
             probIsRep, probIsRepG0, probIsRepG1, probIsRepG2, probPosSlot, probLiteral,
             lenHigh, lenChoice, lenChoice2, numFullDistances, numStates2, numPosStatesMax,
             numLenHighSymbols, numLenLowSymbols, alignTableSize, numStates, numPosSlots,
             numLenToPosStates

\* The same offsets in amd64, from the middle of the table.
LEMMA AmdTable ==
  /\ AmdIsRep0Long = -1536 /\ AmdRepLenCoder = -1280 /\ AmdLenCoder = -768
  /\ AmdIsMatch = -256 /\ AmdAlign = 0 /\ AmdIsRep = 16 /\ AmdIsRepG0 = 28
  /\ AmdIsRepG1 = 40 /\ AmdIsRepG2 = 52 /\ AmdPosSlot = 64 /\ AmdLiteral = 320
  /\ AmdSpecPos = -1664 /\ AmdLenHigh = 256 /\ PMULT = 2 /\ kStartOffset = 1664
  BY SMT DEF AmdSpecPos, AmdIsRep0Long, AmdRepLenCoder, AmdLenCoder, AmdIsMatch, AmdAlign,
             AmdIsRep, AmdIsRepG0, AmdIsRepG1, AmdIsRepG2, AmdPosSlot, AmdLiteral, AmdLenHigh,
             PMULT, kStartOffset

\* The same offsets in arm64, and the addresses SET_probs makes of them.
LEMMA ArmTable ==
  /\ ArmSpecPos = 0 /\ ArmIsRep0Long = 128 /\ ArmRepLenCoder = 384 /\ ArmLenCoder = 896
  /\ ArmIsMatch = 1408 /\ ArmAlign = 1664 /\ ArmIsRep = 1680 /\ ArmIsRepG0 = 1692
  /\ ArmIsRepG1 = 1704 /\ ArmIsRepG2 = 1716 /\ ArmPosSlot = 1728 /\ ArmLiteral = 1984
  /\ ArmLenHigh = 256 /\ probs_IsMatch = 2816
  /\ \A o : o \in Int => At(o) = 2 * o
  BY SMT DEF ArmSpecPos, ArmIsRep0Long, ArmRepLenCoder, ArmLenCoder, ArmIsMatch, ArmAlign,
             ArmIsRep, ArmIsRepG0, ArmIsRepG1, ArmIsRepG2, ArmPosSlot, ArmLiteral, ArmLenHigh,
             probs_IsMatch, At

\* The values a symbol is decoded from.
LEMMA InputFacts ==
  ASSUME inp \in Inputs
  PROVE  /\ inp.lc \in 0 .. 8 /\ inp.lp \in 0 .. 4 /\ inp.pb \in 0 .. 4 /\ inp.state \in 0 .. 11
         /\ inp.processedPos \in Nat /\ inp.first \in BOOLEAN /\ inp.prevByte \in 0 .. 255
         /\ inp.matchByte \in 0 .. 255 /\ (inp.first => inp.processedPos = 0)
  BY InputsAssumption, SMT

\* The position state as each engine computes it.
LEMMA PosStates ==
  ASSUME inp \in Inputs
  PROVE  /\ \E p \in 0 .. 15 : posState = 16 * p
         /\ posState \in Nat /\ posState <= 240
         /\ (inp.processedPos % 2^inp.pb) * 32 = 2 * posState
         /\ And(inp.processedPos * 32, 32 * 2^inp.pb - 32) = 2 * posState
  <1> DEFINE x == inp.processedPos
             p == x % 2^inp.pb
  <1>1. x \in Nat /\ inp.pb \in 0 .. 4
    BY InputFacts
  <1>0. MaskedPosition(inp.processedPos, inp.pb)
    BY SMT, <1>1, PosMask
  <1>2. And(x * 32, 32 * 2^inp.pb - 32) = 32 * p
    BY <1>0 DEF MaskedPosition
  <1>3. p \in 0 .. 15
    BY <1>0 DEF MaskedPosition
  <1>4. posState = p * 16
    BY DEF posState
  <1> HIDE DEF p, x
  <1> QED
    BY SMT, <1>2, <1>3, <1>4 DEF p, x

\* The literal coder as decodeLoop selects it, for the byte c before.
LEMMA LiteralContext ==
  ASSUME inp \in Inputs, NEW c, c = IF inp.first THEN 0 ELSE inp.prevByte
  PROVE  /\ c \in Nat /\ c < 256 /\ Masked(inp.processedPos, c, inp.lc, inp.lp)
         /\ LitBase = probLiteral + 3 * (Context(inp.processedPos, c, inp.lc, inp.lp) * 2^inp.lc)
  <1> DEFINE p == inp.processedPos
             D == 2^inp.lc
             ctx == Context(p, c, inp.lc, inp.lp)
  <1>1. /\ inp.lc \in 0 .. 8 /\ inp.lp \in 0 .. 4 /\ p \in Nat /\ inp.first \in BOOLEAN
        /\ (inp.first => p = 0) /\ inp.prevByte \in 0 .. 255
    BY InputFacts
  <1>2. c \in Nat /\ c < 256 /\ (inp.first => c = 0) /\ (~inp.first => c = inp.prevByte)
    BY SMT, <1>1
  <1>3. Masked(p, c, inp.lc, inp.lp)
    <2>1. c \in 0 .. 255
      BY SMT, <1>2
    <2> HIDE DEF p
    <2> QED
      BY SMT, <1>1, <2>1, Masks
  <1>4. ctx \in Nat /\ D \in Nat
    BY <1>3 DEF Masked
  <1>5. inp.first => ctx = 0
    BY <1>1, <1>2, <1>3 DEF Masked
  <1>6. LitBase = probLiteral + 3 * (ctx * D)
    <2>1. CASE inp.first
      BY SMT, <1>4, <1>5, <2>1, Table DEF LitBase
    <2>2. CASE ~inp.first
      <3>1. And(p * 256 + c, 256 * 2^inp.lp - 2^(8 - inp.lc)) = ctx
        BY <1>3 DEF Masked
      <3>2. c = inp.prevByte
        BY <1>2, <2>2
      <3> QED
        BY <2>2, <3>1, <3>2 DEF LitBase
    <2> QED
      BY <2>1, <2>2
  <1> QED
    BY <1>2, <1>3, <1>6

\* A literal coder lies in the table.
LEMMA LiteralRoom ==
  ASSUME inp \in Inputs
  PROVE  LitBase \in Nat /\ LitBase >= 1984 /\ LitBase + 768 <= numProbs /\ numProbs \in Nat
  <1> DEFINE c == IF inp.first THEN 0 ELSE inp.prevByte
             z == Context(inp.processedPos, c, inp.lc, inp.lp) * 2^inp.lc
             K == 2^(inp.lc + inp.lp)
  <1>1. Masked(inp.processedPos, c, inp.lc, inp.lp) /\ LitBase = probLiteral + 3 * z
    BY LiteralContext
  <1>2. /\ Context(inp.processedPos, c, inp.lc, inp.lp) \in Nat /\ 2^inp.lc \in Nat
        /\ K \in Nat /\ z + 256 <= 256 * K
    BY <1>1 DEF Masked
  <1>3. numProbs = 1984 + 768 * K
    BY SMT, Table DEF numProbs, litSize
  <1>4. z \in Nat
    BY SMT, <1>2
  <1> HIDE DEF z, K
  <1> QED
    BY SMT, <1>1, <1>2, <1>3, <1>4, Table

\* The three engines select the same literal coder.
LEMMA SameLiteralCoder ==
  ASSUME inp \in Inputs, amd.sym = IF inp.first THEN 0 ELSE inp.prevByte, arm.sym = amd.sym
  PROVE  /\ LitBase \in Nat /\ LitProbs = AmdAddress(LitBase) /\ ArmLitProbs = ArmAddress(LitBase)
  <1> DEFINE p == inp.processedPos
             c == amd.sym
             D == 2^inp.lc
             ctx == Context(p, c, inp.lc, inp.lp)
  <1>1. inp.lc \in 0 .. 8 /\ inp.lp \in 0 .. 4 /\ p \in Nat
    BY InputFacts
  <1>2. /\ c \in Nat /\ c < 256 /\ Masked(p, c, inp.lc, inp.lp)
        /\ LitBase = probLiteral + 3 * (ctx * D)
    BY LiteralContext
  <1>9. Masked(p, c, inp.lc, inp.lp)
    BY <1>2
  <1>3. ctx \in Nat /\ D \in Nat
    BY <1>9 DEF Masked
  <1>5. LitBase = probLiteral + 3 * (ctx * D)
    BY <1>2
  <1>6. LitProbs = AmdLiteral * PMULT + (3 * ctx) * (2 * D)
    <2>1. PowersAt(inp.lc, inp.lp)
      BY <1>9 DEF Masked
    <2>2. 256 \div 2^inp.lc = 2^(8 - inp.lc) /\ 2^(inp.lc + 1) = 2 * D
      BY <2>1 DEF PowersAt
    <2>3. And(p * 256 + c, 256 * 2^inp.lp - 2^(8 - inp.lc)) = ctx
      BY <1>9 DEF Masked
    <2>4. p * 256 + c = c + p * 256
      BY SMT, <1>1, <1>2
    <2> QED
      BY <2>2, <2>3, <2>4 DEF LitProbs
  <1>7. ArmLitProbs = At(ArmLiteral) + 2 * D * ctx + 2 * (2 * D * ctx)
    <2>1. /\ ArmMask(inp.lc, inp.lp) % 32 = inp.lc + 1
          /\ And((c + p * 256) * 2^(inp.lc + 1), ArmMask(inp.lc, inp.lp)) = 2 * D * ctx
      BY <1>9 DEF Masked
    <2>2. ArmMask(inp.lc, inp.lp) = 512 * 2^(inp.lc + inp.lp) + inp.lc - (512 - 1)
      BY SMT, <1>1, <1>3 DEF ArmMask
    <2> QED
      BY <2>1, <2>2 DEF ArmLitProbs
  <1> HIDE DEF ctx, D
  <1> DEFINE z == ctx * D
  <1>13. z \in Nat /\ (3 * ctx) * (2 * D) = 6 * z /\ 2 * D * ctx = 2 * z
    BY SMT, <1>3
  <1> HIDE DEF z
  <1>10. LitBase = 1984 + 3 * z
    BY SMT, <1>5, <1>13, Table DEF z
  <1>11. LitProbs = 640 + 6 * z
    BY SMT, <1>6, <1>13, AmdTable
  <1>12. ArmLitProbs = 3968 + 2 * z + 2 * (2 * z)
    BY SMT, <1>7, <1>13, ArmTable
  <1> QED
    BY SMT, <1>3, <1>13, <1>10, <1>11, <1>12, Table, AmdTable DEF AmdAddress, ArmAddress

\* The input of a symbol does not change while it is decoded.
LEMMA Same ==
  ASSUME inp' = inp, inp \in Inputs
  PROVE  /\ inp' \in Inputs /\ posState' = posState /\ LitBase' = LitBase /\ RepState' = RepState
  BY DEF posState, LitBase, RepState

\* How a step establishes what relates the engines.
LEMMA Established ==
  ASSUME inp' \in Inputs, GoFields', AmdFields', ArmFields', NEW k \in Kinds,
         go'.at = k, amd'.at = k, arm'.at = k,
         Addresses(GoEntry', amd'.load, arm'.load),
         Addresses(go'.last, amd'.store, arm'.store), KindInv'
  PROVE  Inv'
  BY SMT DEF Inv, Kinds, Addresses

----------------------------------------------------------------------------
(* One decision after the other. *)

\* One step of the comparison with the byte at the match: the bit of x at
\* the mark m, and where the mark goes; the assembly doubles everything.
Compared(m, x) ==
  /\ And(m, x) \in {0, 256} /\ And(2 * m, 2 * x) = 2 * And(m, x)
  /\ And(2 * x, 2 * m) = 2 * And(m, x)
  /\ Xor(And(m, x), m) \in {0, 256} /\ Xor(2 * m, 2 * And(m, x)) = 2 * Xor(And(m, x), m)

\* It holds for every byte, and both marks.
LEMMA Compare == \A m, x : m \in {0, 256} /\ x \in Nat => Compared(m, x)
  <1> SUFFICES ASSUME NEW m \in {0, 256}, NEW x \in Nat
               PROVE  Compared(m, x)
    BY SMT
  <1>1. /\ And(0, x) = 0 /\ And(256, x) \in {0, 256}
        /\ And(512, 2 * x) = 2 * And(256, x) /\ And(2 * x, 512) = 2 * And(256, x)
    BY SMT, MatchBits
  <1>2. And(0, 2 * x) = 0 /\ And(2 * x, 0) = 0
    <2> DEFINE y == 2 * x
    <2>1. y \in Nat
      BY SMT
    <2> HIDE DEF y
    <2>2. And(0, y) = 0 /\ And(y, 0) = 0
      BY SMT, <2>1, MatchBits
    <2> QED
      BY <2>2 DEF y
  <1>3. CASE m = 0
    BY SMT, <1>1, <1>2, <1>3, MatchXor DEF Compared
  <1>4. CASE m = 256
    BY SMT, <1>1, <1>4, MatchXor DEF Compared
  <1> QED
    BY SMT, <1>3, <1>4

\* The first decision: a match, or one of the two kinds of literals.
LEMMA IsMatchStep ==
  ASSUME Inv, NEW b \in {0, 1}, inp' = inp,
         GoIsMatch(b), AmdIsMatchBit(b), ArmIsMatchBit(b)
  PROVE  Inv'
  <1>1. /\ inp \in Inputs /\ GoFields /\ AmdFields /\ ArmFields /\ IsMatchInv /\ go.at = "isMatch"
        /\ Addresses(GoEntry, amd.load, arm.load) /\ 0 # 1 /\ (b = 0 \/ b = 1)
        /\ inp' \in Inputs /\ posState' = posState /\ LitBase' = LitBase /\ RepState' = RepState
    BY SMT, Same DEF Inv, KindInv, GoIsMatch
  <1>2. inp.state \in 0 .. 11
    BY <1>1, InputFacts
  <1> posState \in Nat
    BY <1>1, PosStates
  <1>6. LitBase \in Nat /\ LitProbs = AmdAddress(LitBase) /\ ArmLitProbs = ArmAddress(LitBase)
    BY SMT, <1>1, SameLiteralCoder DEF IsMatchInv
  <1>3. CASE b = 1
    <2>1. go' = Decide("isRep", probIsRep + go.state, 0)
      BY SMT, <1>1, <1>3 DEF GoIsMatch
    <2>2. amd' = Then("isRep", amd.st + AmdIsRep * PMULT)
      BY SMT, <1>1, <1>3 DEF AmdIsMatchBit
    <2>3. arm' = Goto("isRep", arm.st + (ArmIsRep - ArmIsMatch) * 2)
      BY SMT, <1>1, <1>3 DEF ArmIsMatchBit
    <2>4. /\ go'.at = "isRep" /\ go'.base = probIsRep + go.state /\ go'.m = 0
         /\ go'.last = GoEntry /\ go'.offs = go.offs /\ go'.mbit = go.mbit
         /\ go'.state = go.state /\ go'.reps = go.reps /\ GoFields'
      BY SMT, <1>1, <2>1 DEF Decide, GoFields
    <2>5. /\ amd'.at = "isRep" /\ amd'.load = amd.st + AmdIsRep * PMULT /\ amd'.store = amd.load
         /\ amd'.probs = amd.probs /\ amd'.st = amd.st /\ amd'.pbPos = amd.pbPos
         /\ amd'.state = amd.state /\ amd'.rep0 = amd.rep0 /\ amd'.rep1 = amd.rep1
         /\ amd'.rep2 = amd.rep2 /\ amd'.rep3 = amd.rep3 /\ AmdFields'
      BY SMT, <1>1, <2>2 DEF Then, AmdFields
    <2>6. /\ arm'.at = "isRep" /\ arm'.load = arm.st + (ArmIsRep - ArmIsMatch) * 2
         /\ arm'.store = arm.load /\ arm'.st = arm.st /\ arm'.pbPos = arm.pbPos
         /\ arm'.state = arm.state /\ arm'.reps = arm.reps /\ ArmFields'
      BY SMT, <1>1, <2>3 DEF Goto, ArmFields
    <2>7. IsRepInv'
      BY SMT, <1>1, <1>2, <1>3, <2>4, <2>5, <2>6, Table, AmdTable, ArmTable
         DEF IsRepInv, IsMatchInv, Single, Position, Unmoved, AmdUnmoved, States
    <2>8. Addresses(GoEntry', amd'.load, arm'.load)
      BY SMT, <1>1, <1>2, <1>3, <2>4, <2>5, <2>6, Table, AmdTable, ArmTable
         DEF GoEntry, Addresses, AmdAddress, ArmAddress, IsMatchInv, Single, States
    <2>9. Addresses(go'.last, amd'.store, arm'.store)
      BY <1>1, <2>4, <2>5, <2>6
    <2>10. KindInv'
      BY SMT, <2>4, <2>7 DEF KindInv
    <2> QED
      BY SMT, <1>1, <2>4, <2>5, <2>6, <2>8, <2>9, <2>10, Established DEF Kinds
  <1>4. CASE b = 0 /\ inp.state < numLitStates
    <2>p. amd.label # "lz_end" /\ amd.label \in {"lit_end", "lit_matched_end"}
            /\ arm.label # "lz_end" /\ arm.label \in {"lit_end", "lit_matched_end"}
            /\ (amd.label = "lit_end" <=> inp.state < 4) /\ (arm.label = "lit_end" <=> inp.state < 4)
            /\ ~(go.state >= numLitStates) /\ b # 1
      BY SMT, <1>1, <1>2, <1>4, AmdTable
      DEF IsMatchInv, States, EntryLabel, ArmEntryLabel, numLitStates
    <2>1. go' = [Decide("literal", LitBase, 1) EXCEPT !.state = LitState]
      BY Zenon, <2>p DEF GoIsMatch
    <2>2. amd' = [Then("literal", LitProbs + PMULT) EXCEPT
                     !.probs = LitProbs, !.sym = 1,
                     !.state = IF amd.label = "lit_end" THEN 0 ELSE amd.state - 3 * PMULT]
      BY Zenon, <2>p DEF AmdIsMatchBit
    <2>3. arm' = [Goto("literal", ArmLitProbs + 2) EXCEPT
                     !.probs = ArmLitProbs, !.sym = 1,
                     !.state = IF arm.label = "lit_end" THEN 0 ELSE arm.state - 3 * 2]
      BY Zenon, <2>p DEF ArmIsMatchBit
    <2>4. /\ go'.at = "literal" /\ go'.base = LitBase /\ go'.m = 1 /\ go'.state = LitState
         /\ go'.last = GoEntry /\ go'.offs = go.offs /\ go'.mbit = go.mbit /\ GoFields'
      BY SMT, <1>1, <2>1 DEF Decide, GoFields
    <2>5. /\ amd'.at = "literal" /\ amd'.probs = LitProbs /\ amd'.sym = 1
         /\ amd'.state = (IF amd.label = "lit_end" THEN 0 ELSE amd.state - 3 * PMULT)
         /\ amd'.load = LitProbs + PMULT /\ amd'.store = amd.load /\ AmdFields'
      BY SMT, <1>1, <2>2 DEF Then, AmdFields
    <2>6. /\ arm'.at = "literal" /\ arm'.probs = ArmLitProbs /\ arm'.sym = 1
         /\ arm'.state = (IF arm.label = "lit_end" THEN 0 ELSE arm.state - 3 * 2)
         /\ arm'.load = ArmLitProbs + 2 /\ arm'.store = arm.load /\ ArmFields'
      BY SMT, <1>1, <2>3 DEF Goto, ArmFields
    <2>0. LitBase \in Nat /\ LitProbs = AmdAddress(LitBase) /\ ArmLitProbs = ArmAddress(LitBase)
      BY <1>6
    <2>00. amd.label = "lit_end" <=> inp.state < 4
      BY <2>p
    <2>000. arm.label = "lit_end" <=> inp.state < 4
      BY <2>p
    <2>7. LiteralInv'
      BY SMT, <1>1, <1>2, <1>4, <2>4, <2>5, <2>6, <2>0, <2>00, <2>000, Table, AmdTable, ArmTable
         DEF LiteralInv, IsMatchInv, Tree, Single, States, LitState, numLitStates,
             AmdAddress, ArmAddress
    <2>8. Addresses(GoEntry', amd'.load, arm'.load)
      BY SMT, <1>1, <1>2, <1>4, <2>4, <2>5, <2>6, <2>0, <2>00, <2>000, Table, AmdTable, ArmTable
         DEF GoEntry, Addresses, AmdAddress, ArmAddress, IsMatchInv, Single
    <2>9. Addresses(go'.last, amd'.store, arm'.store)
      BY <1>1, <2>4, <2>5, <2>6
    <2>10. KindInv'
      BY SMT, <2>4, <2>7 DEF KindInv
    <2> QED
      BY SMT, <1>1, <2>4, <2>5, <2>6, <2>8, <2>9, <2>10, Established DEF Kinds
  <1>5. CASE b = 0 /\ inp.state >= numLitStates
    <2>p. amd.label = "lz_end" /\ amd.label \notin {"lit_end", "lit_matched_end"}
            /\ arm.label = "lz_end" /\ arm.label \notin {"lit_end", "lit_matched_end"}
            /\ ~(go.state < numLitStates) /\ b # 1
      BY SMT, <1>1, <1>2, <1>5, AmdTable
      DEF IsMatchInv, States, EntryLabel, ArmEntryLabel, numLitStates
    <2>1. go' = [Decide("matched", LitBase, 1) EXCEPT
                    !.state = LitState, !.matchByte = 2 * inp.matchByte,
                    !.mbit = 256, !.offs = And(256, 2 * inp.matchByte)]
      BY Zenon, <2>p DEF GoIsMatch
    <2>2. amd' = [Then("matched", LitProbs + 256 * PMULT
                                        + And(256 * PMULT, inp.matchByte * 4) + PMULT)
                    EXCEPT !.probs = LitProbs, !.sym = 1,
                           !.match = inp.matchByte * 4, !.offs = 256 * PMULT,
                           !.state = IF amd.state - 3 * PMULT >= 7 * PMULT THEN amd.state - 6 * PMULT
                                     ELSE amd.state - 3 * PMULT]
      BY Zenon, <2>p DEF AmdIsMatchBit
    <2>3. arm' = [Goto("matched", ArmLitProbs + (256 * 2 + 2)
                                        + And(256 * 2, inp.matchByte * 4))
                    EXCEPT !.probs = ArmLitProbs, !.sym = 1,
                           !.match = inp.matchByte * 4, !.offs = 256 * 2,
                           !.state = IF arm.state >= 10 * 2 THEN arm.state - 6 * 2
                                     ELSE arm.state - 3 * 2]
      BY Zenon, <2>p DEF ArmIsMatchBit
    <2>4. /\ go'.at = "matched" /\ go'.base = LitBase /\ go'.m = 1 /\ go'.state = LitState
         /\ go'.matchByte = 2 * inp.matchByte /\ go'.mbit = 256
         /\ go'.offs = And(256, 2 * inp.matchByte) /\ go'.last = GoEntry /\ GoFields'
      BY SMT, <1>1, <2>1 DEF Decide, GoFields
    <2>5. /\ amd'.at = "matched" /\ amd'.probs = LitProbs /\ amd'.sym = 1
         /\ amd'.match = inp.matchByte * 4 /\ amd'.offs = 256 * PMULT
         /\ amd'.state = (IF amd.state - 3 * PMULT >= 7 * PMULT THEN amd.state - 6 * PMULT
                          ELSE amd.state - 3 * PMULT)
         /\ amd'.load = LitProbs + 256 * PMULT + And(256 * PMULT, inp.matchByte * 4) + PMULT
         /\ amd'.store = amd.load /\ AmdFields'
      BY SMT, <1>1, <2>2 DEF Then, AmdFields
    <2>6. /\ arm'.at = "matched" /\ arm'.probs = ArmLitProbs /\ arm'.sym = 1
         /\ arm'.match = inp.matchByte * 4 /\ arm'.offs = 256 * 2
         /\ arm'.state = (IF arm.state >= 10 * 2 THEN arm.state - 6 * 2 ELSE arm.state - 3 * 2)
         /\ arm'.load = ArmLitProbs + (256 * 2 + 2) + And(256 * 2, inp.matchByte * 4)
         /\ arm'.store = arm.load /\ ArmFields'
      BY SMT, <1>1, <2>3 DEF Goto, ArmFields
    <2>0. LitBase \in Nat /\ LitProbs = AmdAddress(LitBase) /\ ArmLitProbs = ArmAddress(LitBase)
      BY <1>6
    <2>00. /\ inp.matchByte \in Nat /\ And(256, 2 * inp.matchByte) \in {0, 256}
             /\ And(256 * PMULT, inp.matchByte * 4) = 2 * And(256, 2 * inp.matchByte)
             /\ And(256 * 2, inp.matchByte * 4) = 2 * And(256, 2 * inp.matchByte)
      <3> DEFINE x == 2 * inp.matchByte
      <3>1. x \in Nat /\ inp.matchByte * 4 = 2 * x /\ inp.matchByte \in Nat
        BY SMT, <1>1, InputFacts
      <3> HIDE DEF x
      <3>2. And(256, x) \in {0, 256} /\ And(512, 2 * x) = 2 * And(256, x)
        BY SMT, <3>1, MatchBits
      <3>3. 256 * PMULT = 512 /\ 256 * 2 = 512
        BY SMT, AmdTable
      <3> QED
        BY <3>1, <3>2, <3>3 DEF x
    <2>7. MatchedInv'
      BY SMT, <1>1, <1>2, <1>5, <2>4, <2>5, <2>6, <2>0, <2>00, Table, AmdTable, ArmTable
         DEF MatchedInv, IsMatchInv, Single, States, LitState, numLitStates,
             AmdAddress, ArmAddress
    <2>8. Addresses(GoEntry', amd'.load, arm'.load)
      BY SMT, <1>1, <1>2, <1>5, <2>4, <2>5, <2>6, <2>0, <2>00, Table, AmdTable, ArmTable
         DEF GoEntry, Addresses, AmdAddress, ArmAddress, IsMatchInv, Single
    <2>9. Addresses(go'.last, amd'.store, arm'.store)
      BY <1>1, <2>4, <2>5, <2>6
    <2>10. KindInv'
      BY SMT, <2>4, <2>7 DEF KindInv
    <2> QED
      BY SMT, <1>1, <2>4, <2>5, <2>6, <2>8, <2>9, <2>10, Established DEF Kinds
  <1> QED
    BY SMT, <1>1, <1>2, <1>3, <1>4, <1>5 DEF numLitStates

\* A bit of a literal.
LEMMA LiteralStep ==
  ASSUME Inv, NEW b \in {0, 1}, inp' = inp,
         GoLiteral(b), AmdLiteralBit(b), ArmLiteralBit(b)
  PROVE  Inv'
  <1>1. /\ inp \in Inputs /\ GoFields /\ AmdFields /\ ArmFields /\ LiteralInv /\ go.at = "literal"
        /\ Addresses(GoEntry, amd.load, arm.load) /\ 0 # 1 /\ (b = 0 \/ b = 1)
        /\ inp' \in Inputs /\ posState' = posState /\ LitBase' = LitBase /\ RepState' = RepState
    BY SMT, Same DEF Inv, KindInv, GoLiteral
  <1>2. inp.state \in 0 .. 11
    BY <1>1, InputFacts
  <1> posState \in Nat
    BY <1>1, PosStates
  <1>5. go.m < 128 \/ go.m >= 128
    BY SMT, <1>1 DEF LiteralInv, Tree
  <1>3. CASE go.m < 128
    <2>1. go' = Decide("literal", go.base, 2 * go.m + b)
      BY SMT, <1>1, <1>3 DEF GoLiteral, LiteralInv, Tree
    <2>2. amd' = Branch("literal", b)
      BY SMT, <1>1, <1>3 DEF AmdLiteralBit, LiteralInv, Tree
    <2>3. arm' = ArmBranch("literal", b)
      BY SMT, <1>1, <1>3 DEF ArmLiteralBit, LiteralInv, Tree
    <2>4. /\ go'.at = "literal" /\ go'.m = 2 * go.m + b /\ go'.last = GoEntry
         /\ go'.base = go.base /\ go'.offs = go.offs /\ go'.mbit = go.mbit
         /\ go'.state = go.state /\ go'.reps = go.reps /\ go'.length = go.length /\ GoFields'
      BY SMT, <1>1, <2>1 DEF Decide, GoFields
    <2>5. /\ amd'.at = "literal" /\ amd'.sym = 2 * amd.sym + b
         /\ amd'.load = (IF b = 0 THEN amd.probs + amd.sym * 4
                         ELSE amd.probs + 2 * amd.sym * PMULT + PMULT)
         /\ amd'.store = amd.probs + 2 * amd.sym /\ amd'.probs = amd.probs
         /\ amd'.state = amd.state /\ amd'.len = amd.len /\ amd'.rep0 = amd.rep0
         /\ amd'.rep1 = amd.rep1 /\ amd'.rep2 = amd.rep2 /\ amd'.rep3 = amd.rep3 /\ AmdFields'
      BY SMT, <1>1, <2>2 DEF Branch, Stored, Then, AmdFields
    <2>6. /\ arm'.at = "literal" /\ arm'.sym = 2 * arm.sym + b
         /\ arm'.load = (IF b = 0 THEN arm.probs + 2 * arm.sym * 2 ELSE probs_PMULT + 2 * arm.sym * 2)
         /\ arm'.store = arm.probs + 2 * arm.sym /\ arm'.probs = arm.probs
         /\ arm'.state = arm.state /\ arm'.len = arm.len /\ arm'.reps = arm.reps /\ ArmFields'
      BY SMT, <1>1, <2>3 DEF ArmBranch, StoredAt, Goto, ArmFields
    <2>7. LiteralInv'
      BY SMT, <1>1, <1>2, <1>3, <2>4, <2>5, <2>6, Table, AmdTable, ArmTable
         DEF LiteralInv, Tree, AmdAddress, ArmAddress, States
    <2>8. Addresses(GoEntry', amd'.load, arm'.load)
      BY SMT, <1>1, <1>2, <1>3, <2>4, <2>5, <2>6, Table, AmdTable, ArmTable
         DEF GoEntry, Addresses, AmdAddress, ArmAddress, LiteralInv,
             Tree, probs_PMULT
    <2>9. Addresses(go'.last, amd'.store, arm'.store)
      BY SMT, <1>1, <1>2, <1>3, <2>4, <2>5, <2>6, Table, AmdTable, ArmTable
         DEF GoEntry, Addresses, AmdAddress, ArmAddress, LiteralInv, Tree
    <2>10. KindInv'
      BY SMT, <2>4, <2>7 DEF KindInv
    <2> QED
      BY SMT, <1>1, <2>4, <2>5, <2>6, <2>8, <2>9, <2>10, Established DEF Kinds
  <1>4. CASE go.m >= 128
    <2>1. Finish(<<"literal", (2 * go.m + b) % 256>>, go.state)
      BY SMT, <1>1, <1>4 DEF GoLiteral, LiteralInv, Tree
    <2>2. AmdFinish(<<"literal", Leaf(256 - 1, b)>>, amd.state, "lit_end", LeafStore)
      BY SMT, <1>1, <1>4 DEF AmdLiteralBit, LiteralInv, Tree
    <2>3. ArmFinish(<<"literal", And(ArmLeaf(b), 255)>>, arm.state, "lit_end", ArmLeafStore)
      BY SMT, <1>1, <1>4 DEF ArmLiteralBit, LiteralInv, Tree
    <2>4. /\ go'.at = "end" /\ go'.out = <<"literal", (2 * go.m + b) % 256>>
         /\ go'.last = GoEntry /\ go'.state = go.state /\ GoFields'
      BY SMT, <1>1, <2>1 DEF Finish, GoFields
    <2>5. /\ amd'.at = "end" /\ amd'.out = <<"literal", Leaf(256 - 1, b)>>
         /\ amd'.label = "lit_end" /\ amd'.store = LeafStore /\ amd'.load = None
         /\ amd'.state = amd.state /\ AmdFields'
      BY SMT, <1>1, <2>2 DEF AmdFinish, AmdFields
    <2>6. /\ arm'.at = "end" /\ arm'.out = <<"literal", And(ArmLeaf(b), 255)>>
         /\ arm'.label = "lit_end" /\ arm'.store = ArmLeafStore /\ arm'.load = None
         /\ arm'.state = arm.state /\ ArmFields'
      BY SMT, <1>1, <2>3 DEF ArmFinish, ArmFields
    <2>0. /\ Leaf(256 - 1, b) = (2 * go.m + b) % 256
            /\ And(ArmLeaf(b), 255) = (2 * go.m + b) % 256
      <3> DEFINE x == 2 * go.m + b
      <3>1. x \in Nat /\ x >= 256 /\ x < 512 /\ ArmLeaf(b) = x /\ Leaf(256 - 1, b) = x - 256
        BY SMT, <1>1, <1>4 DEF LiteralInv, Tree, Leaf, ArmLeaf
      <3> HIDE DEF x
      <3>2. x % 256 = x - 256 /\ And(x, 255) = x % 256
        BY SMT, <3>1, LastBits
      <3> QED
        BY SMT, <3>1, <3>2 DEF x
    <2>7. EndInv'
      BY SMT, <1>1, <1>2, <1>4, <2>4, <2>5, <2>6, <2>0, Table, AmdTable, ArmTable
         DEF EndInv, States, LiteralInv, EntryLabel, ArmEntryLabel
    <2>8. Addresses(GoEntry', amd'.load, arm'.load)
      BY SMT, <1>1, <1>2, <1>4, <2>4, <2>5, <2>6, <2>0, Table, AmdTable, ArmTable
         DEF GoEntry, Addresses, AmdAddress, ArmAddress
    <2>9. Addresses(go'.last, amd'.store, arm'.store)
      BY SMT, <1>1, <1>2, <1>4, <2>4, <2>5, <2>6, <2>0, Table, AmdTable, ArmTable
         DEF GoEntry, Addresses, AmdAddress, ArmAddress, LiteralInv, Tree, LeafStore,
             ArmLeafStore
    <2>10. KindInv'
      BY SMT, <2>4, <2>7 DEF KindInv
    <2> QED
      BY SMT, <1>1, <2>4, <2>5, <2>6, <2>8, <2>9, <2>10, Established DEF Kinds
  <1> QED
    BY <1>3, <1>4, <1>5

\* A bit of a literal after a match.
LEMMA MatchedStep ==
  ASSUME Inv, NEW b \in {0, 1}, inp' = inp,
         GoMatched(b), AmdMatchedBit(b), ArmMatchedBit(b)
  PROVE  Inv'
  <1>1. /\ inp \in Inputs /\ GoFields /\ AmdFields /\ ArmFields /\ MatchedInv /\ go.at = "matched"
        /\ Addresses(GoEntry, amd.load, arm.load) /\ 0 # 1 /\ (b = 0 \/ b = 1)
        /\ inp' \in Inputs /\ posState' = posState /\ LitBase' = LitBase /\ RepState' = RepState
    BY SMT, Same DEF Inv, KindInv, GoMatched
  <1>2. inp.state \in 0 .. 11
    BY <1>1, InputFacts
  <1> posState \in Nat
    BY <1>1, PosStates
  <1> DEFINE o == IF b = 0 THEN Xor(go.offs, go.mbit) ELSE go.offs
             x == go.matchByte
             q == IF b = 1 THEN And(amd.offs, amd.match) ELSE Xor(amd.offs, And(amd.offs, amd.match))
             r == IF b = 1 THEN And(arm.match, arm.offs) ELSE Xor(arm.offs, And(arm.match, arm.offs))
  <1>5. /\ go.offs \in {0, 256} /\ go.offs = And(go.mbit, x) /\ x \in Nat
        /\ And(amd.offs, amd.match) = 2 * go.offs /\ And(arm.match, arm.offs) = 2 * go.offs
        /\ o \in {0, 256}
        /\ q = 2 * o /\ r = 2 * o
    <2>1. Compared(go.mbit, x)
      BY SMT, <1>1, Compare DEF MatchedInv
    <2> QED
      BY SMT, <1>1, <2>1 DEF MatchedInv, Compared
  <1>6. /\ And(o, 2 * x) \in {0, 256}
        /\ And(2 * o, 2 * (2 * x)) = 2 * And(o, 2 * x)
        /\ And(2 * (2 * x), 2 * o) = 2 * And(o, 2 * x)
    <2> HIDE DEF o, x, q, r
    <2>1. 2 * x \in Nat
      BY SMT, <1>5
    <2>2. Compared(o, 2 * x)
      BY SMT, <1>5, <2>1, Compare
    <2> QED
      BY <2>2 DEF Compared
  <1> HIDE DEF o, x, q, r
  <1>8. /\ GoEntry \in Nat
        /\ amd.probs + amd.offs + And(amd.offs, amd.match) + 2 * amd.sym = AmdAddress(GoEntry)
        /\ arm.probs + arm.offs + And(arm.match, arm.offs) + arm.sym * 2 = ArmAddress(GoEntry)
    <2>1. go.offs \in Nat /\ go.mbit \in Nat
      BY SMT, <1>1, <1>5 DEF MatchedInv
    <2>2. GoEntry = go.base + go.offs + go.mbit + go.m
      BY SMT, <1>1 DEF GoEntry
    <2>3. /\ go.base \in Nat /\ go.m \in Nat /\ amd.sym = go.m /\ arm.sym = go.m
          /\ amd.probs = AmdAddress(go.base) /\ arm.probs = ArmAddress(go.base)
          /\ amd.offs = 2 * go.mbit /\ arm.offs = 2 * go.mbit
      BY SMT, <1>1 DEF MatchedInv
    <2>4. And(amd.offs, amd.match) = 2 * go.offs /\ And(arm.match, arm.offs) = 2 * go.offs
      BY <1>5
    <2> QED
      BY SMT, <2>1, <2>2, <2>3, <2>4, AmdTable DEF AmdAddress, ArmAddress
  <1>7. go.m < 128 \/ go.m >= 128
    BY SMT, <1>1 DEF MatchedInv
  <1>3. CASE go.m < 128
    <2>p. ~(2 * go.m + b >= 256) /\ amd.sym < 128 /\ arm.sym < 128
      BY SMT, <1>1, <1>3 DEF MatchedInv
    <2>1. go' = [Decide("matched", go.base, 2 * go.m + b) EXCEPT
                    !.matchByte = 2 * x, !.mbit = o, !.offs = And(o, 2 * x)]
      BY Zenon, <2>p DEF GoMatched, o, x
    <2>2. amd' = [Stored(Then("matched", amd.probs + q + And(q, 2 * amd.match)
                                                 + (2 * amd.sym + b) * PMULT),
                           amd.probs + amd.offs + And(amd.offs, amd.match) + 2 * amd.sym)
                    EXCEPT !.offs = q, !.match = 2 * amd.match, !.sym = 2 * amd.sym + b]
      BY Zenon, <2>p DEF AmdMatchedBit, q
    <2>3. arm' = [StoredAt(Goto("matched", arm.probs + r + And(2 * arm.match, r)
                                                   + ArmLeaf(b) * 2),
                             arm.probs + arm.offs + And(arm.match, arm.offs) + arm.sym * 2)
                    EXCEPT !.offs = r, !.match = 2 * arm.match, !.sym = ArmLeaf(b)]
      BY Zenon, <2>p DEF ArmMatchedBit, r
    <2>4. /\ go'.at = "matched" /\ go'.m = 2 * go.m + b /\ go'.matchByte = 2 * x /\ go'.mbit = o
         /\ go'.offs = And(o, 2 * x) /\ go'.last = GoEntry /\ go'.base = go.base
         /\ go'.state = go.state /\ GoFields'
      BY SMT, <1>1, <2>1 DEF Decide, GoFields
    <2>5. /\ amd'.at = "matched"
         /\ amd'.load = amd.probs + q + And(q, 2 * amd.match) + (2 * amd.sym + b) * PMULT
         /\ amd'.store = amd.probs + amd.offs + And(amd.offs, amd.match) + 2 * amd.sym
         /\ amd'.offs = q /\ amd'.match = 2 * amd.match /\ amd'.sym = 2 * amd.sym + b
         /\ amd'.probs = amd.probs /\ amd'.state = amd.state /\ AmdFields'
      BY SMT, <1>1, <2>2 DEF Stored, Then, AmdFields
    <2>6. /\ arm'.at = "matched"
         /\ arm'.load = arm.probs + r + And(2 * arm.match, r) + ArmLeaf(b) * 2
         /\ arm'.store = arm.probs + arm.offs + And(arm.match, arm.offs) + arm.sym * 2
         /\ arm'.offs = r /\ arm'.match = 2 * arm.match /\ arm'.sym = ArmLeaf(b)
         /\ arm'.probs = arm.probs /\ arm'.state = arm.state /\ ArmFields'
      BY SMT, <1>1, <2>3 DEF StoredAt, Goto, ArmFields
    <2>0. /\ And(q, 2 * amd.match) = 2 * And(o, 2 * x) /\ And(2 * arm.match, r) = 2 * And(o, 2 * x)
            /\ q = 2 * o /\ r = 2 * o
            /\ amd.match = 2 * x /\ arm.match = 2 * x /\ o \in {0, 256} /\ x \in Nat
            /\ And(o, 2 * x) \in {0, 256}
            /\ go.offs \in {0, 256}
      BY <1>1, <1>5, <1>6 DEF MatchedInv, x
    <2>00. /\ go.base \in Nat /\ go.m \in Nat /\ amd.sym = go.m /\ arm.sym = go.m /\ (b = 0 \/ b = 1)
             /\ amd.probs = AmdAddress(go.base) /\ arm.probs = ArmAddress(go.base) /\ o \in Nat
             /\ And(o, 2 * x) \in Nat
      BY SMT, <1>1, <2>0 DEF MatchedInv
    <2>7. MatchedInv'
      BY SMT, <1>1, <1>3, <2>0, <2>4, <2>5, <2>6
         DEF MatchedInv, States, ArmLeaf, AmdAddress, ArmAddress
    <2>8. Addresses(GoEntry', amd'.load, arm'.load)
      <3> DEFINE g == And(o, 2 * x)
      <3>1. GoEntry' = go.base + g + o + (2 * go.m + b)
        BY <2>4 DEF GoEntry
      <3>2. amd'.load = AmdAddress(go.base) + 2 * o + 2 * g + (2 * go.m + b) * PMULT
        BY <2>00, <2>0, <2>5
      <3>3. arm'.load = ArmAddress(go.base) + 2 * o + 2 * g + (2 * go.m + b) * 2
        <4>1. ArmLeaf(b) = 2 * go.m + b
          BY <2>00 DEF ArmLeaf
        <4> QED
          BY <2>00, <2>0, <2>6, <4>1
      <3>4. g \in Nat
        BY <2>00
      <3> HIDE DEF g, o
      <3> QED
        BY SMT, <2>00, <3>1, <3>2, <3>3, <3>4, AmdTable DEF Addresses, AmdAddress, ArmAddress
    <2>9. Addresses(go'.last, amd'.store, arm'.store)
      BY SMT, <1>8, <2>4, <2>5, <2>6
         DEF Addresses
    <2>10. KindInv'
      BY SMT, <2>4, <2>7 DEF KindInv
    <2> QED
      BY SMT, <1>1, <2>4, <2>5, <2>6, <2>8, <2>9, <2>10, Established DEF Kinds
  <1>4. CASE go.m >= 128
    <2>p. 2 * go.m + b >= 256 /\ ~(amd.sym < 128) /\ ~(arm.sym < 128)
      BY SMT, <1>1, <1>4 DEF MatchedInv
    <2>1. Finish(<<"literal", (2 * go.m + b) % 256>>, go.state)
      BY Zenon, <2>p DEF GoMatched
    <2>2. AmdFinish(<<"literal", Leaf(256 - 1, b)>>, amd.state, "lit_matched_end",
                   amd.probs + amd.offs + And(amd.offs, amd.match) + 2 * amd.sym)
      BY Zenon, <2>p DEF AmdMatchedBit
    <2>3. ArmFinish(<<"literal", And(ArmLeaf(b), 255)>>, arm.state, "lit_matched_end",
                   arm.probs + arm.offs + And(arm.match, arm.offs) + arm.sym * 2)
      BY Zenon, <2>p DEF ArmMatchedBit
    <2>4. /\ go'.at = "end" /\ go'.out = <<"literal", (2 * go.m + b) % 256>>
         /\ go'.last = GoEntry /\ go'.state = go.state /\ GoFields'
      BY SMT, <1>1, <2>1 DEF Finish, GoFields
    <2>5. /\ amd'.at = "end" /\ amd'.out = <<"literal", Leaf(256 - 1, b)>>
         /\ amd'.label = "lit_matched_end"
         /\ amd'.store = amd.probs + amd.offs + And(amd.offs, amd.match) + 2 * amd.sym
         /\ amd'.load = None /\ amd'.state = amd.state /\ AmdFields'
      BY SMT, <1>1, <2>2 DEF AmdFinish, AmdFields
    <2>6. /\ arm'.at = "end" /\ arm'.out = <<"literal", And(ArmLeaf(b), 255)>>
         /\ arm'.label = "lit_matched_end"
         /\ arm'.store = arm.probs + arm.offs + And(arm.match, arm.offs) + arm.sym * 2
         /\ arm'.load = None /\ arm'.state = arm.state /\ ArmFields'
      BY SMT, <1>1, <2>3 DEF ArmFinish, ArmFields
    <2>0. /\ Leaf(256 - 1, b) = (2 * go.m + b) % 256
            /\ And(ArmLeaf(b), 255) = (2 * go.m + b) % 256
      <3> DEFINE y == 2 * go.m + b
      <3>1. y \in Nat /\ y >= 256 /\ y < 512 /\ ArmLeaf(b) = y /\ Leaf(256 - 1, b) = y - 256
        BY SMT, <1>1, <1>4 DEF MatchedInv, Leaf, ArmLeaf
      <3> HIDE DEF y
      <3>2. y % 256 = y - 256 /\ And(y, 255) = y % 256
        BY SMT, <3>1, LastBits
      <3> QED
        BY SMT, <3>1, <3>2 DEF y
    <2>00. /\ go.offs \in {0, 256} /\ And(amd.offs, amd.match) = 2 * go.offs
           /\ And(arm.match, arm.offs) = 2 * go.offs
      BY <1>5
    <2>7. EndInv'
      BY SMT, <1>1, <1>2, <1>4, <2>4, <2>5, <2>6, <2>0, <2>00, Table, AmdTable, ArmTable
         DEF EndInv, States, MatchedInv, EntryLabel, ArmEntryLabel, numLitStates
    <2>8. Addresses(GoEntry', amd'.load, arm'.load)
      BY SMT, <1>1, <1>2, <1>4, <2>4, <2>5, <2>6, <2>0, <2>00, Table, AmdTable, ArmTable
         DEF GoEntry, Addresses, AmdAddress, ArmAddress
    <2>9. Addresses(go'.last, amd'.store, arm'.store)
      BY SMT, <1>8, <2>4, <2>5, <2>6
         DEF Addresses
    <2>10. KindInv'
      BY SMT, <2>4, <2>7 DEF KindInv
    <2> QED
      BY SMT, <1>1, <2>4, <2>5, <2>6, <2>8, <2>9, <2>10, Established DEF Kinds
  <1> QED
    BY <1>3, <1>4, <1>7

\* A match: a new distance, or a repeated one.
LEMMA IsRepStep ==
  ASSUME Inv, NEW b \in {0, 1}, inp' = inp,
         GoIsRep(b), AmdIsRepBit(b), ArmIsRepBit(b)
  PROVE  Inv'
  <1>1. /\ inp \in Inputs /\ GoFields /\ AmdFields /\ ArmFields /\ IsRepInv /\ go.at = "isRep"
        /\ Addresses(GoEntry, amd.load, arm.load) /\ 0 # 1 /\ (b = 0 \/ b = 1)
        /\ inp' \in Inputs /\ posState' = posState /\ LitBase' = LitBase /\ RepState' = RepState
    BY SMT, Same DEF Inv, KindInv, GoIsRep
  <1>2. inp.state \in 0 .. 11
    BY <1>1, InputFacts
  <1>3. CASE b = 0
    <2>1. go' = [Decide("choice", probLenCoder, lenChoice) EXCEPT !.state = go.state + numStates]
      BY SMT, <1>1, <1>3 DEF GoIsRep
    <2>2. LenDecode([Then("choice", None) EXCEPT
                       !.probs = amd.probs + AmdLenCoder * PMULT,
                       !.state = amd.state + numStates * PMULT])
      BY SMT, <1>1, <1>3 DEF AmdIsRepBit
    <2>3. ArmLenDecode([Goto("choice", None) EXCEPT
                          !.probs = At(ArmLenCoder), !.state = Or(arm.state, NewDistance)])
      BY SMT, <1>1, <1>3 DEF ArmIsRepBit
    <2>4. /\ go'.at = "choice" /\ go'.base = probLenCoder /\ go'.m = lenChoice
         /\ go'.state = go.state + numStates /\ go'.last = GoEntry /\ go'.offs = go.offs
         /\ go'.mbit = go.mbit /\ go'.reps = go.reps /\ GoFields'
      BY SMT, <1>1, <2>1 DEF Decide, GoFields
    <2>5. /\ amd'.at = "choice" /\ amd'.probs = amd.probs + AmdLenCoder * PMULT
         /\ amd'.load = amd.probs + AmdLenCoder * PMULT /\ amd'.store = amd.load /\ amd'.len = 5
         /\ amd'.state = amd.state + numStates * PMULT /\ amd'.pbPos = amd.pbPos
         /\ amd'.rep0 = amd.rep0 /\ amd'.rep1 = amd.rep1 /\ amd'.rep2 = amd.rep2
         /\ amd'.rep3 = amd.rep3 /\ AmdFields'
      BY SMT, <1>1, <2>2 DEF LenDecode, Then, AmdFields
    <2>6. /\ arm'.at = "choice" /\ arm'.probs = At(ArmLenCoder) /\ arm'.load = At(ArmLenCoder)
         /\ arm'.store = arm.load /\ arm'.len = 6 /\ arm'.state = Or(arm.state, NewDistance)
         /\ arm'.pbPos = arm.pbPos /\ arm'.reps = arm.reps /\ ArmFields'
      BY SMT, <1>1, <2>3 DEF ArmLenDecode, Goto, ArmFields
    <2>0. Or(2 * inp.state, 32) = 2 * inp.state + 32
      BY SMT, <1>2, DistanceFlag
    <2>7. ChoiceInv'
      BY SMT, <1>1, <1>2, <1>3, <2>4, <2>5, <2>6, <2>0, Table, AmdTable, ArmTable
         DEF ChoiceInv, LenCoders, Single, LengthInv, Position, Unmoved, AmdUnmoved, Reps,
             States, AmdAddress, ArmAddress, IsRepInv, NewDistance, At, numStates
    <2>8. Addresses(GoEntry', amd'.load, arm'.load)
      BY SMT, <1>1, <1>2, <1>3, <2>4, <2>5, <2>6, <2>0, Table, AmdTable, ArmTable
         DEF GoEntry, Addresses, AmdAddress, ArmAddress, IsRepInv, Single, At
    <2>9. Addresses(go'.last, amd'.store, arm'.store)
      BY <1>1, <2>4, <2>5, <2>6
    <2>10. KindInv'
      BY SMT, <2>4, <2>7 DEF KindInv
    <2> QED
      BY SMT, <1>1, <2>4, <2>5, <2>6, <2>8, <2>9, <2>10, Established DEF Kinds
  <1>4. CASE b = 1
    <2>1. go' = Decide("isRepG0", probIsRepG0 + go.state, 0)
      BY SMT, <1>1, <1>4 DEF GoIsRep
    <2>2. amd' = [Then("isRepG0", amd.st + AmdIsRepG0 * PMULT) EXCEPT
                     !.probs = amd.probs + AmdRepLenCoder * PMULT,
                     !.state = IF amd.state < numLitStates * PMULT
                               THEN 8 * PMULT ELSE 11 * PMULT]
      BY SMT, <1>1, <1>4 DEF AmdIsRepBit
    <2>3. arm' = [Goto("isRepG0", arm.st + (ArmIsRepG0 - ArmIsMatch) * 2) EXCEPT
                     !.probs = At(ArmRepLenCoder),
                     !.state = IF arm.state >= 7 * 2 THEN 11 * 2 ELSE 8 * 2]
      BY SMT, <1>1, <1>4 DEF ArmIsRepBit
    <2>4. /\ go'.at = "isRepG0" /\ go'.base = probIsRepG0 + go.state /\ go'.m = 0
         /\ go'.last = GoEntry /\ go'.offs = go.offs /\ go'.mbit = go.mbit /\ go'.reps = go.reps
         /\ go'.state = go.state /\ GoFields'
      BY SMT, <1>1, <2>1 DEF Decide, GoFields
    <2>5. /\ amd'.at = "isRepG0" /\ amd'.load = amd.st + AmdIsRepG0 * PMULT
         /\ amd'.probs = amd.probs + AmdRepLenCoder * PMULT /\ amd'.store = amd.load
         /\ amd'.state = (IF amd.state < numLitStates * PMULT THEN 8 * PMULT ELSE 11 * PMULT)
         /\ amd'.st = amd.st /\ amd'.pbPos = amd.pbPos /\ amd'.rep0 = amd.rep0
         /\ amd'.rep1 = amd.rep1 /\ amd'.rep2 = amd.rep2 /\ amd'.rep3 = amd.rep3 /\ AmdFields'
      BY SMT, <1>1, <2>2 DEF Then, AmdFields
    <2>6. /\ arm'.at = "isRepG0" /\ arm'.load = arm.st + (ArmIsRepG0 - ArmIsMatch) * 2
         /\ arm'.probs = At(ArmRepLenCoder) /\ arm'.store = arm.load
         /\ arm'.state = (IF arm.state >= 7 * 2 THEN 11 * 2 ELSE 8 * 2) /\ arm'.st = arm.st
         /\ arm'.pbPos = arm.pbPos /\ arm'.reps = arm.reps /\ ArmFields'
      BY SMT, <1>1, <2>3 DEF Goto, ArmFields
    <2>7. IsRepG0Inv'
      BY SMT, <1>1, <1>2, <1>4, <2>4, <2>5, <2>6, Table, AmdTable, ArmTable
         DEF IsRepG0Inv, RepInv, RepState, Single, Position, Unmoved, AmdUnmoved,
             States, AmdAddress, ArmAddress, IsRepInv, At, numLitStates
    <2>8. Addresses(GoEntry', amd'.load, arm'.load)
      BY SMT, <1>1, <1>2, <1>4, <2>4, <2>5, <2>6, Table, AmdTable, ArmTable
         DEF GoEntry, Addresses, AmdAddress, ArmAddress, IsRepInv, Single, States
    <2>9. Addresses(go'.last, amd'.store, arm'.store)
      BY <1>1, <2>4, <2>5, <2>6
    <2>10. KindInv'
      BY SMT, <2>4, <2>7 DEF KindInv
    <2> QED
      BY SMT, <1>1, <2>4, <2>5, <2>6, <2>8, <2>9, <2>10, Established DEF Kinds
  <1> QED
    BY <1>1, <1>3, <1>4

\* The last distance, or an older one.
LEMMA IsRepG0Step ==
  ASSUME Inv, NEW b \in {0, 1}, inp' = inp,
         GoIsRepG0(b), AmdIsRepG0Bit(b), ArmIsRepG0Bit(b)
  PROVE  Inv'
  <1>1. /\ inp \in Inputs /\ GoFields /\ AmdFields /\ ArmFields /\ IsRepG0Inv /\ go.at = "isRepG0"
        /\ Addresses(GoEntry, amd.load, arm.load) /\ 0 # 1 /\ (b = 0 \/ b = 1)
        /\ inp' \in Inputs /\ posState' = posState /\ LitBase' = LitBase /\ RepState' = RepState
    BY SMT, Same DEF Inv, KindInv, GoIsRepG0
  <1>2. inp.state \in 0 .. 11
    BY <1>1, InputFacts
  <1> posState \in Nat
    BY <1>1, PosStates
  <1>3. CASE b = 0
    <2>1. go' = Decide("isRep0Long", probIsRep0Long + posState + go.state, 0)
      BY SMT, <1>1, <1>3 DEF GoIsRepG0
    <2>2. amd' = Then("isRep0Long", amd.st + amd.pbPos + AmdIsRep0Long * PMULT)
      BY SMT, <1>1, <1>3 DEF AmdIsRepG0Bit
    <2>3. arm' = [Goto("isRep0Long", arm.st - (ArmIsMatch - ArmIsRep0Long) * 2 + arm.pbPos)
                     EXCEPT !.st = arm.st - (ArmIsMatch - ArmIsRep0Long) * 2]
      BY SMT, <1>1, <1>3 DEF ArmIsRepG0Bit
    <2>4. /\ go'.at = "isRep0Long" /\ go'.base = probIsRep0Long + posState + go.state
         /\ go'.m = 0 /\ go'.last = GoEntry /\ go'.offs = go.offs /\ go'.mbit = go.mbit
         /\ go'.reps = go.reps /\ go'.state = go.state /\ GoFields'
      BY SMT, <1>1, <2>1 DEF Decide, GoFields
    <2>5. /\ amd'.at = "isRep0Long" /\ amd'.load = amd.st + amd.pbPos + AmdIsRep0Long * PMULT
         /\ amd'.store = amd.load /\ amd'.probs = amd.probs /\ amd'.st = amd.st
         /\ amd'.pbPos = amd.pbPos /\ amd'.state = amd.state /\ amd'.rep0 = amd.rep0
         /\ amd'.rep1 = amd.rep1 /\ amd'.rep2 = amd.rep2 /\ amd'.rep3 = amd.rep3 /\ AmdFields'
      BY SMT, <1>1, <2>2 DEF Then, AmdFields
    <2>6. /\ arm'.at = "isRep0Long"
         /\ arm'.load = arm.st - (ArmIsMatch - ArmIsRep0Long) * 2 + arm.pbPos
         /\ arm'.st = arm.st - (ArmIsMatch - ArmIsRep0Long) * 2 /\ arm'.store = arm.load
         /\ arm'.probs = arm.probs /\ arm'.pbPos = arm.pbPos /\ arm'.state = arm.state
         /\ arm'.reps = arm.reps /\ ArmFields'
      BY SMT, <1>1, <2>3 DEF Goto, ArmFields
    <2>7. IsRep0LongInv'
      BY SMT, <1>1, <1>2, <1>3, <2>4, <2>5, <2>6, Table, AmdTable, ArmTable
         DEF IsRep0LongInv, IsRepG0Inv, RepInv, Single, Position, Unmoved, AmdUnmoved,
             AmdAddress, ArmAddress
    <2>8. Addresses(GoEntry', amd'.load, arm'.load)
      BY SMT, <1>1, <1>2, <1>3, <2>4, <2>5, <2>6, Table, AmdTable, ArmTable
         DEF GoEntry, Addresses, AmdAddress, ArmAddress, IsRepG0Inv, RepInv,
             Single, Position
    <2>9. Addresses(go'.last, amd'.store, arm'.store)
      BY <1>1, <2>4, <2>5, <2>6
    <2>10. KindInv'
      BY SMT, <2>4, <2>7 DEF KindInv
    <2> QED
      BY SMT, <1>1, <2>4, <2>5, <2>6, <2>8, <2>9, <2>10, Established DEF Kinds
  <1>4. CASE b = 1
    <2>1. go' = Decide("isRepG1", probIsRepG1 + go.state, 0)
      BY SMT, <1>1, <1>4 DEF GoIsRepG0
    <2>2. amd' = [Then("isRepG1", amd.st + AmdIsRepG1 * PMULT) EXCEPT
                     !.sym = amd.rep1, !.rep1 = amd.rep0]
      BY SMT, <1>1, <1>4 DEF AmdIsRepG0Bit
    <2>3. arm' = Goto("isRepG1", arm.st + (ArmIsRepG1 - ArmIsMatch) * 2)
      BY SMT, <1>1, <1>4 DEF ArmIsRepG0Bit
    <2>4. /\ go'.at = "isRepG1" /\ go'.base = probIsRepG1 + go.state /\ go'.m = 0
         /\ go'.last = GoEntry /\ go'.offs = go.offs /\ go'.mbit = go.mbit /\ go'.reps = go.reps
         /\ go'.state = go.state /\ GoFields'
      BY SMT, <1>1, <2>1 DEF Decide, GoFields
    <2>5. /\ amd'.at = "isRepG1" /\ amd'.load = amd.st + AmdIsRepG1 * PMULT
         /\ amd'.store = amd.load /\ amd'.sym = amd.rep1 /\ amd'.rep1 = amd.rep0
         /\ amd'.probs = amd.probs /\ amd'.st = amd.st /\ amd'.pbPos = amd.pbPos
         /\ amd'.state = amd.state /\ amd'.rep2 = amd.rep2 /\ amd'.rep3 = amd.rep3 /\ AmdFields'
      BY SMT, <1>1, <2>2 DEF Then, AmdFields
    <2>6. /\ arm'.at = "isRepG1" /\ arm'.load = arm.st + (ArmIsRepG1 - ArmIsMatch) * 2
         /\ arm'.store = arm.load /\ arm'.probs = arm.probs /\ arm'.st = arm.st
         /\ arm'.pbPos = arm.pbPos /\ arm'.state = arm.state /\ arm'.reps = arm.reps
         /\ ArmFields'
      BY SMT, <1>1, <2>3 DEF Goto, ArmFields
    <2>7. IsRepG1Inv'
      BY SMT, <1>1, <1>2, <1>4, <2>4, <2>5, <2>6, Table, AmdTable, ArmTable
         DEF IsRepG1Inv, IsRepG0Inv, RepInv, Single, Position, Unmoved, AmdUnmoved,
             AmdAddress, ArmAddress
    <2>8. Addresses(GoEntry', amd'.load, arm'.load)
      BY SMT, <1>1, <1>2, <1>4, <2>4, <2>5, <2>6, Table, AmdTable, ArmTable
         DEF GoEntry, Addresses, AmdAddress, ArmAddress, IsRepG0Inv, RepInv, Single
    <2>9. Addresses(go'.last, amd'.store, arm'.store)
      BY <1>1, <2>4, <2>5, <2>6
    <2>10. KindInv'
      BY SMT, <2>4, <2>7 DEF KindInv
    <2> QED
      BY SMT, <1>1, <2>4, <2>5, <2>6, <2>8, <2>9, <2>10, Established DEF Kinds
  <1> QED
    BY <1>1, <1>3, <1>4

\* One byte at the last distance, or a length.
LEMMA IsRep0LongStep ==
  ASSUME Inv, NEW b \in {0, 1}, inp' = inp,
         GoIsRep0Long(b), AmdIsRep0LongBit(b), ArmIsRep0LongBit(b)
  PROVE  Inv'
  <1>1. /\ inp \in Inputs /\ GoFields /\ AmdFields /\ ArmFields /\ IsRep0LongInv
        /\ go.at = "isRep0Long"
        /\ Addresses(GoEntry, amd.load, arm.load) /\ 0 # 1 /\ (b = 0 \/ b = 1)
        /\ inp' \in Inputs /\ posState' = posState /\ LitBase' = LitBase /\ RepState' = RepState
    BY SMT, Same DEF Inv, KindInv, GoIsRep0Long
  <1>2. inp.state \in 0 .. 11
    BY <1>1, InputFacts
  <1> posState \in Nat
    BY <1>1, PosStates
  <1>3. CASE b = 0
    <2>1. Finish(<<"short", go.reps>>, IF go.state < numLitStates THEN 9 ELSE 11)
      BY SMT, <1>1, <1>3 DEF GoIsRep0Long
    <2>2. AmdFinish(<<"short", Reps>>, Or(amd.state, 2), "lz_end", amd.load)
      BY SMT, <1>1, <1>3, AmdTable DEF AmdIsRep0LongBit
    <2>3. ArmFinish(<<"short", arm.reps>>, Or(arm.state, 2), "lz_end", arm.st + arm.pbPos)
      BY SMT, <1>1, <1>3 DEF ArmIsRep0LongBit
    <2>4. /\ go'.at = "end" /\ go'.out = <<"short", go.reps>>
         /\ go'.state = (IF go.state < numLitStates THEN 9 ELSE 11) /\ go'.last = GoEntry
         /\ GoFields'
      BY SMT, <1>1, <2>1 DEF Finish, GoFields
    <2>5. /\ amd'.at = "end" /\ amd'.out = <<"short", Reps>> /\ amd'.state = Or(amd.state, 2)
         /\ amd'.label = "lz_end" /\ amd'.store = amd.load /\ amd'.load = None /\ AmdFields'
      BY SMT, <1>1, <2>2 DEF AmdFinish, AmdFields
    <2>6. /\ arm'.at = "end" /\ arm'.out = <<"short", arm.reps>> /\ arm'.state = Or(arm.state, 2)
         /\ arm'.label = "lz_end" /\ arm'.store = arm.st + arm.pbPos /\ arm'.load = None
         /\ ArmFields'
      BY SMT, <1>1, <2>3 DEF ArmFinish, ArmFields
    <2>7. EndInv'
      BY SMT, <1>1, <1>2, <1>3, <2>4, <2>5, <2>6, Table, AmdTable, ArmTable, StateFlags
         DEF EndInv, States, IsRep0LongInv, RepInv, RepState, Unmoved, AmdUnmoved, Reps,
             EntryLabel, ArmEntryLabel, numLitStates
    <2>8. Addresses(GoEntry', amd'.load, arm'.load)
      BY SMT, <1>1, <1>2, <1>3, <2>4, <2>5, <2>6, Table, AmdTable, ArmTable, StateFlags
         DEF GoEntry, Addresses, AmdAddress, ArmAddress
    <2>9. Addresses(go'.last, amd'.store, arm'.store)
      BY SMT, <1>1, <1>2, <1>3, <2>4, <2>5, <2>6, Table, AmdTable, ArmTable, StateFlags
         DEF GoEntry, Addresses, AmdAddress, ArmAddress, None, IsRep0LongInv, RepInv,
             Single, Position
    <2>10. KindInv'
      BY SMT, <2>4, <2>7 DEF KindInv
    <2> QED
      BY SMT, <1>1, <2>4, <2>5, <2>6, <2>8, <2>9, <2>10, Established DEF Kinds
  <1>4. CASE b = 1
    <2>1. RepLength(go.reps)
      BY SMT, <1>1, <1>4 DEF GoIsRep0Long
    <2>2. LenDecode(Then("choice", None))
      BY SMT, <1>1, <1>4 DEF AmdIsRep0LongBit
    <2>3. ArmLenDecode(Goto("choice", None))
      BY SMT, <1>1, <1>4 DEF ArmIsRep0LongBit
    <2>4. /\ go'.at = "choice" /\ go'.base = probRepLenCoder /\ go'.m = lenChoice
         /\ go'.reps = go.reps /\ go'.state = (IF go.state < numLitStates THEN 8 ELSE 11)
         /\ go'.last = GoEntry /\ go'.offs = go.offs /\ go'.mbit = go.mbit /\ GoFields'
      BY SMT, <1>1, <2>1 DEF RepLength, Decide, GoFields
    <2>5. /\ amd'.at = "choice" /\ amd'.load = amd.probs /\ amd'.len = 5 /\ amd'.store = amd.load
         /\ amd'.probs = amd.probs /\ amd'.pbPos = amd.pbPos /\ amd'.state = amd.state
         /\ amd'.rep0 = amd.rep0 /\ amd'.rep1 = amd.rep1 /\ amd'.rep2 = amd.rep2
         /\ amd'.rep3 = amd.rep3 /\ AmdFields'
      BY SMT, <1>1, <2>2 DEF LenDecode, Then, AmdFields
    <2>6. /\ arm'.at = "choice" /\ arm'.load = arm.probs /\ arm'.len = 6 /\ arm'.store = arm.load
         /\ arm'.probs = arm.probs /\ arm'.pbPos = arm.pbPos /\ arm'.state = arm.state
         /\ arm'.reps = arm.reps /\ ArmFields'
      BY SMT, <1>1, <2>3 DEF ArmLenDecode, Goto, ArmFields
    <2>7. ChoiceInv'
      BY SMT, <1>1, <1>2, <1>4, <2>4, <2>5, <2>6, Table, AmdTable, ArmTable
         DEF ChoiceInv, LengthInv, LenCoders, Single, Position, Unmoved, AmdUnmoved, Reps,
             AmdAddress, ArmAddress, RepInv, RepState, numStates, numLitStates, IsRep0LongInv
    <2>8. Addresses(GoEntry', amd'.load, arm'.load)
      BY SMT, <1>1, <1>2, <1>4, <2>4, <2>5, <2>6, Table, AmdTable, ArmTable
         DEF GoEntry, Addresses, AmdAddress, ArmAddress, RepInv, Single, IsRep0LongInv
    <2>9. Addresses(go'.last, amd'.store, arm'.store)
      BY <1>1, <2>4, <2>5, <2>6
    <2>10. KindInv'
      BY SMT, <2>4, <2>7 DEF KindInv
    <2> QED
      BY SMT, <1>1, <2>4, <2>5, <2>6, <2>8, <2>9, <2>10, Established DEF Kinds
  <1> QED
    BY <1>1, <1>3, <1>4

\* The second distance, or an older one.
LEMMA IsRepG1Step ==
  ASSUME Inv, NEW b \in {0, 1}, inp' = inp,
         GoIsRepG1(b), AmdIsRepG1Bit(b), ArmIsRepG1Bit(b)
  PROVE  Inv'
  <1>1. /\ inp \in Inputs /\ GoFields /\ AmdFields /\ ArmFields /\ IsRepG1Inv /\ go.at = "isRepG1"
        /\ Addresses(GoEntry, amd.load, arm.load) /\ 0 # 1 /\ (b = 0 \/ b = 1)
        /\ inp' \in Inputs /\ posState' = posState /\ LitBase' = LitBase /\ RepState' = RepState
    BY SMT, Same DEF Inv, KindInv, GoIsRepG1
  <1>2. inp.state \in 0 .. 11
    BY <1>1, InputFacts
  <1> posState \in Nat
    BY <1>1, PosStates
  <1>3. CASE b = 0
    <2>1. RepLength(<<2, 1, 3, 4>>)
      BY SMT, <1>1, <1>3 DEF GoIsRepG1
    <2>2. LenDecode([Then("choice", None) EXCEPT !.rep0 = amd.sym])
      BY SMT, <1>1, <1>3 DEF AmdIsRepG1Bit
    <2>3. ArmLenDecode([Goto("choice", None) EXCEPT !.reps = <<2, 1, 3, 4>>])
      BY SMT, <1>1, <1>3 DEF ArmIsRepG1Bit
    <2>4. /\ go'.at = "choice" /\ go'.base = probRepLenCoder /\ go'.m = lenChoice
         /\ go'.reps = <<2, 1, 3, 4>> /\ go'.state = (IF go.state < numLitStates THEN 8 ELSE 11)
         /\ go'.last = GoEntry /\ go'.offs = go.offs /\ go'.mbit = go.mbit /\ GoFields'
      BY SMT, <1>1, <2>1 DEF RepLength, Decide, GoFields
    <2>5. /\ amd'.at = "choice" /\ amd'.load = amd.probs /\ amd'.len = 5 /\ amd'.store = amd.load
         /\ amd'.rep0 = amd.sym /\ amd'.probs = amd.probs /\ amd'.pbPos = amd.pbPos
         /\ amd'.state = amd.state /\ amd'.rep1 = amd.rep1 /\ amd'.rep2 = amd.rep2
         /\ amd'.rep3 = amd.rep3 /\ AmdFields'
      BY SMT, <1>1, <2>2 DEF LenDecode, Then, AmdFields
    <2>6. /\ arm'.at = "choice" /\ arm'.load = arm.probs /\ arm'.len = 6 /\ arm'.store = arm.load
         /\ arm'.reps = <<2, 1, 3, 4>> /\ arm'.probs = arm.probs /\ arm'.pbPos = arm.pbPos
         /\ arm'.state = arm.state /\ ArmFields'
      BY SMT, <1>1, <2>3 DEF ArmLenDecode, Goto, ArmFields
    <2>7. ChoiceInv'
      BY SMT, <1>1, <1>2, <1>3, <2>4, <2>5, <2>6, Table, AmdTable, ArmTable
         DEF ChoiceInv, LengthInv, LenCoders, Single, Position, Unmoved, AmdUnmoved, Reps,
             AmdAddress, ArmAddress, RepInv, RepState, numStates, numLitStates, IsRepG1Inv
    <2>8. Addresses(GoEntry', amd'.load, arm'.load)
      BY SMT, <1>1, <1>2, <1>3, <2>4, <2>5, <2>6, Table, AmdTable, ArmTable
         DEF GoEntry, Addresses, AmdAddress, ArmAddress, RepInv, Single, IsRepG1Inv
    <2>9. Addresses(go'.last, amd'.store, arm'.store)
      BY <1>1, <2>4, <2>5, <2>6
    <2>10. KindInv'
      BY SMT, <2>4, <2>7 DEF KindInv
    <2> QED
      BY SMT, <1>1, <2>4, <2>5, <2>6, <2>8, <2>9, <2>10, Established DEF Kinds
  <1>4. CASE b = 1
    <2>1. go' = Decide("isRepG2", probIsRepG2 + go.state, 0)
      BY SMT, <1>1, <1>4 DEF GoIsRepG1
    <2>2. amd' = [Then("isRepG2", amd.st + AmdIsRepG2 * PMULT) EXCEPT
                     !.sym2 = amd.rep2, !.rep2 = amd.sym]
      BY SMT, <1>1, <1>4 DEF AmdIsRepG1Bit
    <2>3. arm' = Goto("isRepG2", arm.st + (ArmIsRepG2 - ArmIsMatch) * 2)
      BY SMT, <1>1, <1>4 DEF ArmIsRepG1Bit
    <2>4. /\ go'.at = "isRepG2" /\ go'.base = probIsRepG2 + go.state /\ go'.m = 0
         /\ go'.last = GoEntry /\ go'.offs = go.offs /\ go'.mbit = go.mbit /\ go'.reps = go.reps
         /\ go'.state = go.state /\ GoFields'
      BY SMT, <1>1, <2>1 DEF Decide, GoFields
    <2>5. /\ amd'.at = "isRepG2" /\ amd'.load = amd.st + AmdIsRepG2 * PMULT
         /\ amd'.store = amd.load /\ amd'.sym2 = amd.rep2 /\ amd'.rep2 = amd.sym
         /\ amd'.probs = amd.probs /\ amd'.st = amd.st /\ amd'.pbPos = amd.pbPos
         /\ amd'.state = amd.state /\ amd'.rep1 = amd.rep1 /\ amd'.rep3 = amd.rep3 /\ AmdFields'
      BY SMT, <1>1, <2>2 DEF Then, AmdFields
    <2>6. /\ arm'.at = "isRepG2" /\ arm'.load = arm.st + (ArmIsRepG2 - ArmIsMatch) * 2
         /\ arm'.store = arm.load /\ arm'.probs = arm.probs /\ arm'.st = arm.st
         /\ arm'.pbPos = arm.pbPos /\ arm'.state = arm.state /\ arm'.reps = arm.reps
         /\ ArmFields'
      BY SMT, <1>1, <2>3 DEF Goto, ArmFields
    <2>7. IsRepG2Inv'
      BY SMT, <1>1, <1>2, <1>4, <2>4, <2>5, <2>6, Table, AmdTable, ArmTable
         DEF IsRepG2Inv, IsRepG1Inv, RepInv, Single, Position, Unmoved,
             AmdAddress, ArmAddress
    <2>8. Addresses(GoEntry', amd'.load, arm'.load)
      BY SMT, <1>1, <1>2, <1>4, <2>4, <2>5, <2>6, Table, AmdTable, ArmTable
         DEF GoEntry, Addresses, AmdAddress, ArmAddress, IsRepG1Inv, RepInv, Single
    <2>9. Addresses(go'.last, amd'.store, arm'.store)
      BY <1>1, <2>4, <2>5, <2>6
    <2>10. KindInv'
      BY SMT, <2>4, <2>7 DEF KindInv
    <2> QED
      BY SMT, <1>1, <2>4, <2>5, <2>6, <2>8, <2>9, <2>10, Established DEF Kinds
  <1> QED
    BY <1>1, <1>3, <1>4

\* The third or the fourth distance.
LEMMA IsRepG2Step ==
  ASSUME Inv, NEW b \in {0, 1}, inp' = inp,
         GoIsRepG2(b), AmdIsRepG2Bit(b), ArmIsRepG2Bit(b)
  PROVE  Inv'
  <1>1. /\ inp \in Inputs /\ GoFields /\ AmdFields /\ ArmFields /\ IsRepG2Inv /\ go.at = "isRepG2"
        /\ Addresses(GoEntry, amd.load, arm.load) /\ 0 # 1 /\ (b = 0 \/ b = 1)
        /\ inp' \in Inputs /\ posState' = posState /\ LitBase' = LitBase /\ RepState' = RepState
    BY SMT, Same DEF Inv, KindInv, GoIsRepG2
  <1>2. inp.state \in 0 .. 11
    BY <1>1, InputFacts
  <1> posState \in Nat
    BY <1>1, PosStates
  <1>3. CASE b = 0
    <2>1. RepLength(<<3, 1, 2, 4>>)
      BY SMT, <1>1, <1>3 DEF GoIsRepG2
    <2>2. LenDecode([Then("choice", None) EXCEPT !.rep0 = amd.sym2])
      BY SMT, <1>1, <1>3 DEF AmdIsRepG2Bit
    <2>3. ArmLenDecode([Goto("choice", None) EXCEPT !.reps = <<3, 1, 2, 4>>])
      BY SMT, <1>1, <1>3 DEF ArmIsRepG2Bit
    <2>4. /\ go'.at = "choice" /\ go'.base = probRepLenCoder /\ go'.m = lenChoice
         /\ go'.reps = <<3, 1, 2, 4>> /\ go'.state = (IF go.state < numLitStates THEN 8 ELSE 11)
         /\ go'.last = GoEntry /\ go'.offs = go.offs /\ go'.mbit = go.mbit /\ GoFields'
      BY SMT, <1>1, <2>1 DEF RepLength, Decide, GoFields
    <2>5. /\ amd'.at = "choice" /\ amd'.load = amd.probs /\ amd'.len = 5 /\ amd'.store = amd.load
         /\ amd'.rep0 = amd.sym2 /\ amd'.probs = amd.probs /\ amd'.pbPos = amd.pbPos
         /\ amd'.state = amd.state /\ amd'.rep1 = amd.rep1 /\ amd'.rep2 = amd.rep2
         /\ amd'.rep3 = amd.rep3 /\ AmdFields'
      BY SMT, <1>1, <2>2 DEF LenDecode, Then, AmdFields
    <2>6. /\ arm'.at = "choice" /\ arm'.load = arm.probs /\ arm'.len = 6 /\ arm'.store = arm.load
         /\ arm'.reps = <<3, 1, 2, 4>> /\ arm'.probs = arm.probs /\ arm'.pbPos = arm.pbPos
         /\ arm'.state = arm.state /\ ArmFields'
      BY SMT, <1>1, <2>3 DEF ArmLenDecode, Goto, ArmFields
    <2>7. ChoiceInv'
      BY SMT, <1>1, <1>2, <1>3, <2>4, <2>5, <2>6, Table, AmdTable, ArmTable
         DEF ChoiceInv, LengthInv, LenCoders, Single, Position, Unmoved, AmdUnmoved, Reps,
             AmdAddress, ArmAddress, RepInv, RepState, numStates, numLitStates, IsRepG2Inv
    <2>8. Addresses(GoEntry', amd'.load, arm'.load)
      BY SMT, <1>1, <1>2, <1>3, <2>4, <2>5, <2>6, Table, AmdTable, ArmTable
         DEF GoEntry, Addresses, AmdAddress, ArmAddress, RepInv, Single, IsRepG2Inv
    <2>9. Addresses(go'.last, amd'.store, arm'.store)
      BY <1>1, <2>4, <2>5, <2>6
    <2>10. KindInv'
      BY SMT, <2>4, <2>7 DEF KindInv
    <2> QED
      BY SMT, <1>1, <2>4, <2>5, <2>6, <2>8, <2>9, <2>10, Established DEF Kinds
  <1>4. CASE b = 1
    <2>1. RepLength(<<4, 1, 2, 3>>)
      BY SMT, <1>1, <1>4 DEF GoIsRepG2
    <2>2. LenDecode([Then("choice", None) EXCEPT !.rep0 = amd.rep3, !.rep3 = amd.sym2])
      BY SMT, <1>1, <1>4 DEF AmdIsRepG2Bit
    <2>3. ArmLenDecode([Goto("choice", None) EXCEPT !.reps = <<4, 1, 2, 3>>])
      BY SMT, <1>1, <1>4 DEF ArmIsRepG2Bit
    <2>4. /\ go'.at = "choice" /\ go'.base = probRepLenCoder /\ go'.m = lenChoice
         /\ go'.reps = <<4, 1, 2, 3>> /\ go'.state = (IF go.state < numLitStates THEN 8 ELSE 11)
         /\ go'.last = GoEntry /\ go'.offs = go.offs /\ go'.mbit = go.mbit /\ GoFields'
      BY SMT, <1>1, <2>1 DEF RepLength, Decide, GoFields
    <2>5. /\ amd'.at = "choice" /\ amd'.load = amd.probs /\ amd'.len = 5 /\ amd'.store = amd.load
         /\ amd'.rep0 = amd.rep3 /\ amd'.rep3 = amd.sym2 /\ amd'.probs = amd.probs
         /\ amd'.pbPos = amd.pbPos /\ amd'.state = amd.state /\ amd'.rep1 = amd.rep1
         /\ amd'.rep2 = amd.rep2 /\ AmdFields'
      BY SMT, <1>1, <2>2 DEF LenDecode, Then, AmdFields
    <2>6. /\ arm'.at = "choice" /\ arm'.load = arm.probs /\ arm'.len = 6 /\ arm'.store = arm.load
         /\ arm'.reps = <<4, 1, 2, 3>> /\ arm'.probs = arm.probs /\ arm'.pbPos = arm.pbPos
         /\ arm'.state = arm.state /\ ArmFields'
      BY SMT, <1>1, <2>3 DEF ArmLenDecode, Goto, ArmFields
    <2>7. ChoiceInv'
      BY SMT, <1>1, <1>2, <1>4, <2>4, <2>5, <2>6, Table, AmdTable, ArmTable
         DEF ChoiceInv, LengthInv, LenCoders, Single, Position, Unmoved, AmdUnmoved, Reps,
             AmdAddress, ArmAddress, RepInv, RepState, numStates, numLitStates, IsRepG2Inv
    <2>8. Addresses(GoEntry', amd'.load, arm'.load)
      BY SMT, <1>1, <1>2, <1>4, <2>4, <2>5, <2>6, Table, AmdTable, ArmTable
         DEF GoEntry, Addresses, AmdAddress, ArmAddress, RepInv, Single, IsRepG2Inv
    <2>9. Addresses(go'.last, amd'.store, arm'.store)
      BY <1>1, <2>4, <2>5, <2>6
    <2>10. KindInv'
      BY SMT, <2>4, <2>7 DEF KindInv
    <2> QED
      BY SMT, <1>1, <2>4, <2>5, <2>6, <2>8, <2>9, <2>10, Established DEF Kinds
  <1> QED
    BY <1>1, <1>3, <1>4

\* A short length, or a longer one.
LEMMA ChoiceStep ==
  ASSUME Inv, NEW b \in {0, 1}, inp' = inp,
         GoChoice(b), AmdChoiceBit(b), ArmChoiceBit(b)
  PROVE  Inv'
  <1>1. /\ inp \in Inputs /\ GoFields /\ AmdFields /\ ArmFields /\ ChoiceInv /\ go.at = "choice"
        /\ Addresses(GoEntry, amd.load, arm.load) /\ 0 # 1 /\ (b = 0 \/ b = 1)
        /\ inp' \in Inputs /\ posState' = posState /\ LitBase' = LitBase /\ RepState' = RepState
    BY SMT, Same DEF Inv, KindInv, GoChoice
  <1>2. inp.state \in 0 .. 11
    BY <1>1, InputFacts
  <1> posState \in Nat
    BY <1>1, PosStates
  <1>3. CASE b = 0
    <2>1. go' = Decide("low", go.base + posState, 1)
      BY SMT, <1>1, <1>3 DEF GoChoice
    <2>2. ShortTree("low", Then("low", None))
      BY SMT, <1>1, <1>3 DEF AmdChoiceBit
    <2>3. ArmShortTree("low", Goto("low", None))
      BY SMT, <1>1, <1>3 DEF ArmChoiceBit
    <2>4. /\ go'.at = "low" /\ go'.base = go.base + posState /\ go'.m = 1 /\ go'.last = GoEntry
         /\ go'.offs = go.offs /\ go'.mbit = go.mbit /\ go'.reps = go.reps
         /\ go'.state = go.state /\ GoFields'
      BY SMT, <1>1, <2>1 DEF Decide, GoFields
    <2>5. /\ amd'.at = "low" /\ amd'.probs = amd.probs + amd.pbPos /\ amd'.sym = 1
         /\ amd'.load = amd.probs + amd.pbPos + PMULT /\ amd'.store = amd.load
         /\ amd'.state = amd.state /\ amd'.len = amd.len /\ amd'.rep0 = amd.rep0
         /\ amd'.rep1 = amd.rep1 /\ amd'.rep2 = amd.rep2 /\ amd'.rep3 = amd.rep3 /\ AmdFields'
      BY SMT, <1>1, <2>2 DEF ShortTree, Then, AmdFields
    <2>6. /\ arm'.at = "low" /\ arm'.probs = arm.probs + arm.pbPos /\ arm'.sym = 1
         /\ arm'.load = arm.probs + arm.pbPos + 2 /\ arm'.store = arm.load
         /\ arm'.state = arm.state /\ arm'.len = arm.len /\ arm'.reps = arm.reps /\ ArmFields'
      BY SMT, <1>1, <2>3 DEF ArmShortTree, Goto, ArmFields
    <2>7. LowInv'
      BY SMT, <1>1, <1>2, <1>3, <2>4, <2>5, <2>6, Table, AmdTable, ArmTable
         DEF LowInv, ChoiceInv, Tree, Single, Position, LengthInv, Unmoved, AmdUnmoved, Reps, numStates,
             LenCoders, AmdAddress, ArmAddress
    <2>8. Addresses(GoEntry', amd'.load, arm'.load)
      BY SMT, <1>1, <1>2, <1>3, <2>4, <2>5, <2>6, Table, AmdTable, ArmTable
         DEF GoEntry, Addresses, AmdAddress, ArmAddress, ChoiceInv,
             LenCoders, Single, Position
    <2>9. Addresses(go'.last, amd'.store, arm'.store)
      BY <1>1, <2>4, <2>5, <2>6
    <2>10. KindInv'
      BY SMT, <2>4, <2>7 DEF KindInv
    <2> QED
      BY SMT, <1>1, <2>4, <2>5, <2>6, <2>8, <2>9, <2>10, Established DEF Kinds
  <1>4. CASE b = 1
    <2>1. go' = Decide("choice2", go.base, lenChoice2)
      BY SMT, <1>1, <1>4 DEF GoChoice
    <2>2. amd' = [Then("choice2", amd.probs + 16) EXCEPT !.probs = amd.probs + 16, !.len = -3]
      BY SMT, <1>1, <1>4 DEF AmdChoiceBit
    <2>3. arm' = [Goto("choice2", arm.probs + 16) EXCEPT !.probs = arm.probs + 16, !.len = -2]
      BY SMT, <1>1, <1>4 DEF ArmChoiceBit
    <2>4. /\ go'.at = "choice2" /\ go'.m = lenChoice2 /\ go'.last = GoEntry /\ go'.base = go.base
         /\ go'.offs = go.offs /\ go'.mbit = go.mbit /\ go'.reps = go.reps
         /\ go'.state = go.state /\ GoFields'
      BY SMT, <1>1, <2>1 DEF Decide, GoFields
    <2>5. /\ amd'.at = "choice2" /\ amd'.probs = amd.probs + 16 /\ amd'.len = -3
         /\ amd'.load = amd.probs + 16 /\ amd'.store = amd.load /\ amd'.pbPos = amd.pbPos
         /\ amd'.state = amd.state /\ amd'.rep0 = amd.rep0 /\ amd'.rep1 = amd.rep1
         /\ amd'.rep2 = amd.rep2 /\ amd'.rep3 = amd.rep3 /\ AmdFields'
      BY SMT, <1>1, <2>2 DEF Then, AmdFields
    <2>6. /\ arm'.at = "choice2" /\ arm'.probs = arm.probs + 16 /\ arm'.len = -2
         /\ arm'.load = arm.probs + 16 /\ arm'.store = arm.load /\ arm'.pbPos = arm.pbPos
         /\ arm'.state = arm.state /\ arm'.reps = arm.reps /\ ArmFields'
      BY SMT, <1>1, <2>3 DEF Goto, ArmFields
    <2>7. Choice2Inv'
      BY SMT, <1>1, <1>2, <1>4, <2>4, <2>5, <2>6, Table, AmdTable, ArmTable
         DEF Choice2Inv, ChoiceInv, Single, Position, LengthInv, Unmoved, AmdUnmoved, Reps, numStates,
             LenCoders, AmdAddress, ArmAddress
    <2>8. Addresses(GoEntry', amd'.load, arm'.load)
      BY SMT, <1>1, <1>2, <1>4, <2>4, <2>5, <2>6, Table, AmdTable, ArmTable
         DEF GoEntry, Addresses, AmdAddress, ArmAddress, ChoiceInv,
             LenCoders, Single
    <2>9. Addresses(go'.last, amd'.store, arm'.store)
      BY <1>1, <2>4, <2>5, <2>6
    <2>10. KindInv'
      BY SMT, <2>4, <2>7 DEF KindInv
    <2> QED
      BY SMT, <1>1, <2>4, <2>5, <2>6, <2>8, <2>9, <2>10, Established DEF Kinds
  <1> QED
    BY <1>1, <1>3, <1>4

\* A length of 10 or more, and one of 18 or more.
LEMMA Choice2Step ==
  ASSUME Inv, NEW b \in {0, 1}, inp' = inp,
         GoChoice2(b), AmdChoice2Bit(b), ArmChoice2Bit(b)
  PROVE  Inv'
  <1>1. /\ inp \in Inputs /\ GoFields /\ AmdFields /\ ArmFields /\ Choice2Inv /\ go.at = "choice2"
        /\ Addresses(GoEntry, amd.load, arm.load) /\ 0 # 1 /\ (b = 0 \/ b = 1)
        /\ inp' \in Inputs /\ posState' = posState /\ LitBase' = LitBase /\ RepState' = RepState
    BY SMT, Same DEF Inv, KindInv, GoChoice2
  <1>2. inp.state \in 0 .. 11
    BY <1>1, InputFacts
  <1> posState \in Nat
    BY <1>1, PosStates
  <1>3. CASE b = 0
    <2>1. go' = Decide("mid", go.base + posState + 8, 1)
      BY SMT, <1>1, <1>3 DEF GoChoice2
    <2>2. ShortTree("mid", Then("mid", None))
      BY SMT, <1>1, <1>3 DEF AmdChoice2Bit
    <2>3. ArmShortTree("mid", Goto("mid", None))
      BY SMT, <1>1, <1>3 DEF ArmChoice2Bit
    <2>4. /\ go'.at = "mid" /\ go'.base = go.base + posState + 8 /\ go'.m = 1
         /\ go'.last = GoEntry /\ go'.offs = go.offs /\ go'.mbit = go.mbit /\ go'.reps = go.reps
         /\ go'.state = go.state /\ GoFields'
      BY SMT, <1>1, <2>1 DEF Decide, GoFields
    <2>5. /\ amd'.at = "mid" /\ amd'.probs = amd.probs + amd.pbPos /\ amd'.sym = 1
         /\ amd'.load = amd.probs + amd.pbPos + PMULT /\ amd'.store = amd.load
         /\ amd'.state = amd.state /\ amd'.len = amd.len /\ amd'.rep0 = amd.rep0
         /\ amd'.rep1 = amd.rep1 /\ amd'.rep2 = amd.rep2 /\ amd'.rep3 = amd.rep3 /\ AmdFields'
      BY SMT, <1>1, <2>2 DEF ShortTree, Then, AmdFields
    <2>6. /\ arm'.at = "mid" /\ arm'.probs = arm.probs + arm.pbPos /\ arm'.sym = 1
         /\ arm'.load = arm.probs + arm.pbPos + 2 /\ arm'.store = arm.load
         /\ arm'.state = arm.state /\ arm'.len = arm.len /\ arm'.reps = arm.reps /\ ArmFields'
      BY SMT, <1>1, <2>3 DEF ArmShortTree, Goto, ArmFields
    <2>7. MidInv'
      BY SMT, <1>1, <1>2, <1>3, <2>4, <2>5, <2>6, Table, AmdTable, ArmTable
         DEF MidInv, Choice2Inv, Tree, Position, LengthInv, Unmoved, AmdUnmoved, Reps, numStates,
             LenCoders, AmdAddress, ArmAddress
    <2>8. Addresses(GoEntry', amd'.load, arm'.load)
      BY SMT, <1>1, <1>2, <1>3, <2>4, <2>5, <2>6, Table, AmdTable, ArmTable
         DEF GoEntry, Addresses, AmdAddress, ArmAddress, Choice2Inv,
             LenCoders, Position
    <2>9. Addresses(go'.last, amd'.store, arm'.store)
      BY <1>1, <2>4, <2>5, <2>6
    <2>10. KindInv'
      BY SMT, <2>4, <2>7 DEF KindInv
    <2> QED
      BY SMT, <1>1, <2>4, <2>5, <2>6, <2>8, <2>9, <2>10, Established DEF Kinds
  <1>4. CASE b = 1
    <2>1. go' = Decide("high", go.base + lenHigh, 1)
      BY SMT, <1>1, <1>4 DEF GoChoice2
    <2>2. amd' = [Then("high", amd.probs + AmdLenHigh * PMULT - 16 + PMULT) EXCEPT
                     !.probs = amd.probs + AmdLenHigh * PMULT - 16, !.sym = 1, !.len = 256 - 16 - 3]
      BY SMT, <1>1, <1>4 DEF AmdChoice2Bit
    <2>3. arm' = [Goto("high", arm.probs + ArmLenHigh * 2 - 16 + 2) EXCEPT
                     !.probs = arm.probs + ArmLenHigh * 2 - 16, !.sym = 1, !.len = 256 - 16 - 2]
      BY SMT, <1>1, <1>4 DEF ArmChoice2Bit
    <2>4. /\ go'.at = "high" /\ go'.base = go.base + lenHigh /\ go'.m = 1 /\ go'.last = GoEntry
         /\ go'.offs = go.offs /\ go'.mbit = go.mbit /\ go'.reps = go.reps
         /\ go'.state = go.state /\ GoFields'
      BY SMT, <1>1, <2>1 DEF Decide, GoFields
    <2>5. /\ amd'.at = "high" /\ amd'.probs = amd.probs + AmdLenHigh * PMULT - 16 /\ amd'.sym = 1
         /\ amd'.len = 256 - 16 - 3 /\ amd'.load = amd.probs + AmdLenHigh * PMULT - 16 + PMULT
         /\ amd'.store = amd.load /\ amd'.state = amd.state /\ amd'.rep0 = amd.rep0
         /\ amd'.rep1 = amd.rep1 /\ amd'.rep2 = amd.rep2 /\ amd'.rep3 = amd.rep3 /\ AmdFields'
      BY SMT, <1>1, <2>2 DEF Then, AmdFields
    <2>6. /\ arm'.at = "high" /\ arm'.probs = arm.probs + ArmLenHigh * 2 - 16 /\ arm'.sym = 1
         /\ arm'.len = 256 - 16 - 2 /\ arm'.load = arm.probs + ArmLenHigh * 2 - 16 + 2
         /\ arm'.store = arm.load /\ arm'.state = arm.state /\ arm'.reps = arm.reps
         /\ ArmFields'
      BY SMT, <1>1, <2>3 DEF Goto, ArmFields
    <2>7. HighInv'
      BY SMT, <1>1, <1>2, <1>4, <2>4, <2>5, <2>6, Table, AmdTable, ArmTable
         DEF HighInv, Choice2Inv, Tree, Position, LengthInv, Unmoved, AmdUnmoved, Reps, numStates,
             LenCoders, AmdAddress, ArmAddress
    <2>8. Addresses(GoEntry', amd'.load, arm'.load)
      BY SMT, <1>1, <1>2, <1>4, <2>4, <2>5, <2>6, Table, AmdTable, ArmTable
         DEF GoEntry, Addresses, AmdAddress, ArmAddress, Choice2Inv,
             LenCoders
    <2>9. Addresses(go'.last, amd'.store, arm'.store)
      BY <1>1, <2>4, <2>5, <2>6
    <2>10. KindInv'
      BY SMT, <2>4, <2>7 DEF KindInv
    <2> QED
      BY SMT, <1>1, <2>4, <2>5, <2>6, <2>8, <2>9, <2>10, Established DEF Kinds
  <1> QED
    BY <1>1, <1>3, <1>4

\* The slot tree of a length, as decodeLoop and the assembly number them.
LenState(length) ==
  IF length < numLenToPosStates THEN length ELSE numLenToPosStates - 1
LenSlot(len) == IF len < 5 THEN len ELSE 5
AmdSlotProbs(len) == AmdPosSlot * PMULT - 2 * 128 + LenSlot(len) * 128
ArmSlotProbs(len) == At(ArmPosSlot - 2 * 64) + LenSlot(len) * 128

\* A bit of one of the eight shortest lengths.
LEMMA LowStep ==
  ASSUME Inv, NEW b \in {0, 1}, inp' = inp,
         LenTree("low", 8, 0, b), AmdLenBit("low", b), ArmLenBit("low", b)
  PROVE  Inv'
  <1>1. /\ inp \in Inputs /\ GoFields /\ AmdFields /\ ArmFields /\ LowInv /\ go.at = "low"
        /\ Addresses(GoEntry, amd.load, arm.load) /\ 0 # 1 /\ (b = 0 \/ b = 1)
        /\ inp' \in Inputs /\ posState' = posState /\ LitBase' = LitBase /\ RepState' = RepState
    BY SMT, Same DEF Inv, KindInv, LenTree
  <1>2. inp.state \in 0 .. 11
    BY <1>1, InputFacts
  <1> posState \in Nat
    BY <1>1, PosStates
  <1>6. \/ go.m < 4
        \/ go.m >= 4 /\ go.state < numStates
        \/ go.m >= 4 /\ go.state >= numStates
    BY SMT, <1>1 DEF LowInv, Tree, LengthInv, numStates
  <1>3. CASE go.m < 4
    <2>1. go' = Decide("low", go.base, 2 * go.m + b)
      BY SMT, <1>1, <1>3 DEF LenTree, LowInv, Tree
    <2>2. amd' = Branch("low", b)
      BY SMT, <1>1, <1>3 DEF AmdLenBit, LowInv, Tree
    <2>3. arm' = ArmBranch("low", b)
      BY SMT, <1>1, <1>3 DEF ArmLenBit, LowInv, Tree
    <2>4. /\ go'.at = "low" /\ go'.m = 2 * go.m + b /\ go'.last = GoEntry /\ go'.base = go.base
         /\ go'.offs = go.offs /\ go'.mbit = go.mbit /\ go'.state = go.state
         /\ go'.reps = go.reps /\ go'.length = go.length /\ GoFields'
      BY SMT, <1>1, <2>1 DEF Decide, GoFields
    <2>5. /\ amd'.at = "low" /\ amd'.sym = 2 * amd.sym + b
         /\ amd'.load = (IF b = 0 THEN amd.probs + amd.sym * 4
                         ELSE amd.probs + 2 * amd.sym * PMULT + PMULT)
         /\ amd'.store = amd.probs + 2 * amd.sym /\ amd'.probs = amd.probs
         /\ amd'.state = amd.state /\ amd'.len = amd.len /\ amd'.rep0 = amd.rep0
         /\ amd'.rep1 = amd.rep1 /\ amd'.rep2 = amd.rep2 /\ amd'.rep3 = amd.rep3 /\ AmdFields'
      BY SMT, <1>1, <2>2 DEF Branch, Stored, Then, AmdFields
    <2>6. /\ arm'.at = "low" /\ arm'.sym = 2 * arm.sym + b
         /\ arm'.load = (IF b = 0 THEN arm.probs + 2 * arm.sym * 2 ELSE probs_PMULT + 2 * arm.sym * 2)
         /\ arm'.store = arm.probs + 2 * arm.sym /\ arm'.probs = arm.probs
         /\ arm'.state = arm.state /\ arm'.len = arm.len /\ arm'.reps = arm.reps /\ ArmFields'
      BY SMT, <1>1, <2>3 DEF ArmBranch, StoredAt, Goto, ArmFields
    <2>7. LowInv'
      BY SMT, <1>1, <1>2, <1>3, <2>4, <2>5, <2>6, Table, AmdTable, ArmTable
         DEF LowInv, Tree, AmdAddress, ArmAddress, LengthInv, Unmoved, AmdUnmoved, Reps, numStates,
             LenCoders
    <2>8. Addresses(GoEntry', amd'.load, arm'.load)
      BY SMT, <1>1, <1>2, <1>3, <2>4, <2>5, <2>6, Table, AmdTable, ArmTable
         DEF GoEntry, Addresses, AmdAddress, ArmAddress, LowInv,
             Tree, probs_PMULT
    <2>9. Addresses(go'.last, amd'.store, arm'.store)
      BY SMT, <1>1, <1>2, <1>3, <2>4, <2>5, <2>6, Table, AmdTable, ArmTable
         DEF GoEntry, Addresses, AmdAddress, ArmAddress, LowInv, Tree
    <2>10. KindInv'
      BY SMT, <2>4, <2>7 DEF KindInv
    <2> QED
      BY SMT, <1>1, <2>4, <2>5, <2>6, <2>8, <2>9, <2>10, Established DEF Kinds
  <1>4. CASE go.m >= 4 /\ go.state < numStates
    <2>p. /\ ~(2 * go.m + b < 8) /\ (go.state < numStates)
            /\ ~(amd.sym < (IF "low" = "high" THEN 128 ELSE 4)) /\ (amd.state < numStates * PMULT)
            /\ ~(arm.sym < (IF "low" = "high" THEN 128 ELSE 4)) /\ (arm.state < NewDistance)
      BY SMT, <1>1, <1>4, AmdTable DEF LowInv, Tree, LengthInv, NewDistance, numStates
    <2>1. Finish(<<"match", (2 * go.m + b) - 8 + 0 + matchMinLen, go.reps>>, go.state)
      BY SMT, <2>p DEF LenTree, AfterLength
    <2>2. AmdFinish(<<"match", Leaf(amd.len, b), Reps>>, amd.state, "lz_end", LeafStore)
      BY Zenon, <2>p DEF AmdLenBit, AfterLen
    <2>3. ArmFinish(<<"match", ArmLeaf(b) - arm.len, arm.reps>>, arm.state, "lz_end", ArmLeafStore)
      BY Zenon, <2>p DEF ArmLenBit, ArmAfterLen
    <2>4. /\ go'.at = "end"
         /\ go'.out = <<"match", (2 * go.m + b) - 8 + 0 + matchMinLen, go.reps>>
         /\ go'.last = GoEntry /\ go'.state = go.state /\ GoFields'
      BY SMT, <1>1, <2>1 DEF Finish, GoFields
    <2>5. /\ amd'.at = "end" /\ amd'.out = <<"match", Leaf(amd.len, b), Reps>>
         /\ amd'.label = "lz_end" /\ amd'.store = LeafStore /\ amd'.load = None
         /\ amd'.state = amd.state /\ AmdFields'
      BY SMT, <1>1, <2>2 DEF AmdFinish, AmdFields
    <2>6. /\ arm'.at = "end" /\ arm'.out = <<"match", ArmLeaf(b) - arm.len, arm.reps>>
         /\ arm'.label = "lz_end" /\ arm'.store = ArmLeafStore /\ arm'.load = None
         /\ arm'.state = arm.state /\ ArmFields'
      BY SMT, <1>1, <2>3 DEF ArmFinish, ArmFields
    <2>0. /\ ((2 * go.m + b) - 8 + 0) \in Nat /\ Leaf(amd.len, b) = (2 * go.m + b) - 8 + 0 + 2
            /\ ArmLeaf(b) - arm.len = (2 * go.m + b) - 8 + 0 + 2
      BY SMT, <1>1, <1>4 DEF LowInv, Tree, LengthInv, Leaf, ArmLeaf
    <2>7. EndInv'
      BY SMT, <1>1, <1>2, <1>4, <2>4, <2>5, <2>6, <2>0, Table, AmdTable, ArmTable
         DEF EndInv, States, LowInv, LengthInv, EntryLabel, ArmEntryLabel,
             matchMinLen, numStates, numLitStates
    <2>8. Addresses(GoEntry', amd'.load, arm'.load)
      BY SMT, <1>1, <1>2, <1>4, <2>4, <2>5, <2>6, <2>0, Table, AmdTable, ArmTable
         DEF GoEntry, Addresses, AmdAddress, ArmAddress
    <2>9. Addresses(go'.last, amd'.store, arm'.store)
      BY SMT, <1>1, <1>2, <1>4, <2>4, <2>5, <2>6, <2>0, Table, AmdTable, ArmTable
         DEF GoEntry, Addresses, AmdAddress, ArmAddress, LowInv, Tree, LeafStore,
             ArmLeafStore
    <2>10. KindInv'
      BY SMT, <2>4, <2>7 DEF KindInv
    <2> QED
      BY SMT, <1>1, <2>4, <2>5, <2>6, <2>8, <2>9, <2>10, Established DEF Kinds
  <1>5. CASE go.m >= 4 /\ go.state >= numStates
    <2>p. /\ ~(2 * go.m + b < 8) /\ ~(go.state < numStates)
            /\ ~(amd.sym < (IF "low" = "high" THEN 128 ELSE 4)) /\ ~(amd.state < numStates * PMULT)
            /\ ~(arm.sym < (IF "low" = "high" THEN 128 ELSE 4)) /\ ~(arm.state < NewDistance)
      BY SMT, <1>1, <1>5, AmdTable DEF LowInv, Tree, LengthInv, NewDistance, numStates
    <2>1. go' = [Decide("slot", probPosSlot + LenState((2 * go.m + b) - 8 + 0) * numPosSlots, 1)
                   EXCEPT !.length = (2 * go.m + b) - 8 + 0]
      BY SMT, <2>p DEF LenTree, AfterLength, LenState
    <2>2. amd' = [Stored(Then("slot", AmdSlotProbs(Leaf(amd.len, b)) + PMULT), LeafStore)
                    EXCEPT !.probs = AmdSlotProbs(Leaf(amd.len, b)), !.sym = 1,
                           !.len = Leaf(amd.len, b)]
      BY Zenon, <2>p DEF AmdLenBit, AfterLen, AmdSlotProbs, LenSlot
    <2>3. arm' = [StoredAt(Goto("slot", ArmSlotProbs(ArmLeaf(b) - arm.len) + 2), ArmLeafStore)
                    EXCEPT !.probs = ArmSlotProbs(ArmLeaf(b) - arm.len), !.sym = 1,
                           !.len = ArmLeaf(b) - arm.len]
      BY Zenon, <2>p DEF ArmLenBit, ArmAfterLen, ArmSlotProbs, LenSlot
    <2>4. /\ go'.at = "slot"
         /\ go'.base = probPosSlot + LenState((2 * go.m + b) - 8 + 0) * numPosSlots /\ go'.m = 1
         /\ go'.length = (2 * go.m + b) - 8 + 0 /\ go'.last = GoEntry /\ go'.offs = go.offs
         /\ go'.mbit = go.mbit /\ go'.state = go.state /\ go'.reps = go.reps /\ GoFields'
      BY SMT, <1>1, <2>1 DEF Decide, GoFields
    <2>5. /\ amd'.at = "slot" /\ amd'.probs = AmdSlotProbs(Leaf(amd.len, b))
         /\ amd'.load = AmdSlotProbs(Leaf(amd.len, b)) + PMULT /\ amd'.sym = 1
         /\ amd'.len = Leaf(amd.len, b) /\ amd'.store = LeafStore /\ amd'.state = amd.state
         /\ amd'.rep0 = amd.rep0 /\ amd'.rep1 = amd.rep1 /\ amd'.rep2 = amd.rep2
         /\ amd'.rep3 = amd.rep3 /\ AmdFields'
      BY SMT, <1>1, <2>2 DEF Stored, Then, AmdFields
    <2>6. /\ arm'.at = "slot" /\ arm'.probs = ArmSlotProbs(ArmLeaf(b) - arm.len)
         /\ arm'.load = ArmSlotProbs(ArmLeaf(b) - arm.len) + 2 /\ arm'.sym = 1
         /\ arm'.len = ArmLeaf(b) - arm.len /\ arm'.store = ArmLeafStore
         /\ arm'.state = arm.state /\ arm'.reps = arm.reps /\ ArmFields'
      BY SMT, <1>1, <2>3 DEF StoredAt, Goto, ArmFields
    <2>0. /\ ((2 * go.m + b) - 8 + 0) \in Nat /\ Leaf(amd.len, b) = (2 * go.m + b) - 8 + 0 + 2
            /\ ArmLeaf(b) - arm.len = (2 * go.m + b) - 8 + 0 + 2
      BY SMT, <1>1, <1>5 DEF LowInv, Tree, LengthInv, Leaf, ArmLeaf
    <2>00. /\ LenState((2 * go.m + b) - 8 + 0) \in 0 .. 3
           /\ LenSlot(Leaf(amd.len, b)) = LenState((2 * go.m + b) - 8 + 0) + 2
             /\ LenSlot(ArmLeaf(b) - arm.len) = LenState((2 * go.m + b) - 8 + 0) + 2
      BY SMT, <2>0 DEF LenState, LenSlot, numLenToPosStates
    <2>7. SlotInv'
      BY SMT, <1>1, <1>2, <1>5, <2>4, <2>5, <2>6, <2>0, <2>00, Table, AmdTable, ArmTable
         DEF SlotInv, DistanceInv, Tree, LowInv, LengthInv, Unmoved, AmdUnmoved,
             AmdAddress, ArmAddress, AmdSlotProbs, ArmSlotProbs, At, numStates, numPosSlots
    <2>8. Addresses(GoEntry', amd'.load, arm'.load)
      BY SMT, <1>1, <1>2, <1>5, <2>4, <2>5, <2>6, <2>0, <2>00, Table, AmdTable, ArmTable
         DEF GoEntry, Addresses, AmdAddress, ArmAddress, AmdSlotProbs, ArmSlotProbs,
             At, numPosSlots, LowInv, Tree
    <2>9. Addresses(go'.last, amd'.store, arm'.store)
      BY SMT, <1>1, <1>2, <1>5, <2>4, <2>5, <2>6, <2>0, <2>00, Table, AmdTable, ArmTable
         DEF GoEntry, Addresses, AmdAddress, ArmAddress, LowInv, Tree, LeafStore,
             ArmLeafStore
    <2>10. KindInv'
      BY SMT, <2>4, <2>7 DEF KindInv
    <2> QED
      BY SMT, <1>1, <2>4, <2>5, <2>6, <2>8, <2>9, <2>10, Established DEF Kinds
  <1> QED
    BY <1>3, <1>4, <1>5, <1>6

\* A bit of one of the next eight lengths.
LEMMA MidStep ==
  ASSUME Inv, NEW b \in {0, 1}, inp' = inp,
         LenTree("mid", 8, 8, b), AmdLenBit("mid", b), ArmLenBit("mid", b)
  PROVE  Inv'
  <1>1. /\ inp \in Inputs /\ GoFields /\ AmdFields /\ ArmFields /\ MidInv /\ go.at = "mid"
        /\ Addresses(GoEntry, amd.load, arm.load) /\ 0 # 1 /\ (b = 0 \/ b = 1)
        /\ inp' \in Inputs /\ posState' = posState /\ LitBase' = LitBase /\ RepState' = RepState
    BY SMT, Same DEF Inv, KindInv, LenTree
  <1>2. inp.state \in 0 .. 11
    BY <1>1, InputFacts
  <1> posState \in Nat
    BY <1>1, PosStates
  <1>6. \/ go.m < 4
        \/ go.m >= 4 /\ go.state < numStates
        \/ go.m >= 4 /\ go.state >= numStates
    BY SMT, <1>1 DEF MidInv, Tree, LengthInv, numStates
  <1>3. CASE go.m < 4
    <2>1. go' = Decide("mid", go.base, 2 * go.m + b)
      BY SMT, <1>1, <1>3 DEF LenTree, MidInv, Tree
    <2>2. amd' = Branch("mid", b)
      BY SMT, <1>1, <1>3 DEF AmdLenBit, MidInv, Tree
    <2>3. arm' = ArmBranch("mid", b)
      BY SMT, <1>1, <1>3 DEF ArmLenBit, MidInv, Tree
    <2>4. /\ go'.at = "mid" /\ go'.m = 2 * go.m + b /\ go'.last = GoEntry /\ go'.base = go.base
         /\ go'.offs = go.offs /\ go'.mbit = go.mbit /\ go'.state = go.state
         /\ go'.reps = go.reps /\ go'.length = go.length /\ GoFields'
      BY SMT, <1>1, <2>1 DEF Decide, GoFields
    <2>5. /\ amd'.at = "mid" /\ amd'.sym = 2 * amd.sym + b
         /\ amd'.load = (IF b = 0 THEN amd.probs + amd.sym * 4
                         ELSE amd.probs + 2 * amd.sym * PMULT + PMULT)
         /\ amd'.store = amd.probs + 2 * amd.sym /\ amd'.probs = amd.probs
         /\ amd'.state = amd.state /\ amd'.len = amd.len /\ amd'.rep0 = amd.rep0
         /\ amd'.rep1 = amd.rep1 /\ amd'.rep2 = amd.rep2 /\ amd'.rep3 = amd.rep3 /\ AmdFields'
      BY SMT, <1>1, <2>2 DEF Branch, Stored, Then, AmdFields
    <2>6. /\ arm'.at = "mid" /\ arm'.sym = 2 * arm.sym + b
         /\ arm'.load = (IF b = 0 THEN arm.probs + 2 * arm.sym * 2 ELSE probs_PMULT + 2 * arm.sym * 2)
         /\ arm'.store = arm.probs + 2 * arm.sym /\ arm'.probs = arm.probs
         /\ arm'.state = arm.state /\ arm'.len = arm.len /\ arm'.reps = arm.reps /\ ArmFields'
      BY SMT, <1>1, <2>3 DEF ArmBranch, StoredAt, Goto, ArmFields
    <2>7. MidInv'
      BY SMT, <1>1, <1>2, <1>3, <2>4, <2>5, <2>6, Table, AmdTable, ArmTable
         DEF MidInv, Tree, AmdAddress, ArmAddress, LengthInv, Unmoved, AmdUnmoved, Reps, numStates,
             LenCoders
    <2>8. Addresses(GoEntry', amd'.load, arm'.load)
      BY SMT, <1>1, <1>2, <1>3, <2>4, <2>5, <2>6, Table, AmdTable, ArmTable
         DEF GoEntry, Addresses, AmdAddress, ArmAddress, MidInv,
             Tree, probs_PMULT
    <2>9. Addresses(go'.last, amd'.store, arm'.store)
      BY SMT, <1>1, <1>2, <1>3, <2>4, <2>5, <2>6, Table, AmdTable, ArmTable
         DEF GoEntry, Addresses, AmdAddress, ArmAddress, MidInv, Tree
    <2>10. KindInv'
      BY SMT, <2>4, <2>7 DEF KindInv
    <2> QED
      BY SMT, <1>1, <2>4, <2>5, <2>6, <2>8, <2>9, <2>10, Established DEF Kinds
  <1>4. CASE go.m >= 4 /\ go.state < numStates
    <2>p. /\ ~(2 * go.m + b < 8) /\ (go.state < numStates)
            /\ ~(amd.sym < (IF "mid" = "high" THEN 128 ELSE 4)) /\ (amd.state < numStates * PMULT)
            /\ ~(arm.sym < (IF "mid" = "high" THEN 128 ELSE 4)) /\ (arm.state < NewDistance)
      BY SMT, <1>1, <1>4, AmdTable DEF MidInv, Tree, LengthInv, NewDistance, numStates
    <2>1. Finish(<<"match", (2 * go.m + b) - 8 + 8 + matchMinLen, go.reps>>, go.state)
      BY SMT, <2>p DEF LenTree, AfterLength
    <2>2. AmdFinish(<<"match", Leaf(amd.len, b), Reps>>, amd.state, "lz_end", LeafStore)
      BY Zenon, <2>p DEF AmdLenBit, AfterLen
    <2>3. ArmFinish(<<"match", ArmLeaf(b) - arm.len, arm.reps>>, arm.state, "lz_end", ArmLeafStore)
      BY Zenon, <2>p DEF ArmLenBit, ArmAfterLen
    <2>4. /\ go'.at = "end"
         /\ go'.out = <<"match", (2 * go.m + b) - 8 + 8 + matchMinLen, go.reps>>
         /\ go'.last = GoEntry /\ go'.state = go.state /\ GoFields'
      BY SMT, <1>1, <2>1 DEF Finish, GoFields
    <2>5. /\ amd'.at = "end" /\ amd'.out = <<"match", Leaf(amd.len, b), Reps>>
         /\ amd'.label = "lz_end" /\ amd'.store = LeafStore /\ amd'.load = None
         /\ amd'.state = amd.state /\ AmdFields'
      BY SMT, <1>1, <2>2 DEF AmdFinish, AmdFields
    <2>6. /\ arm'.at = "end" /\ arm'.out = <<"match", ArmLeaf(b) - arm.len, arm.reps>>
         /\ arm'.label = "lz_end" /\ arm'.store = ArmLeafStore /\ arm'.load = None
         /\ arm'.state = arm.state /\ ArmFields'
      BY SMT, <1>1, <2>3 DEF ArmFinish, ArmFields
    <2>0. /\ ((2 * go.m + b) - 8 + 8) \in Nat /\ Leaf(amd.len, b) = (2 * go.m + b) - 8 + 8 + 2
            /\ ArmLeaf(b) - arm.len = (2 * go.m + b) - 8 + 8 + 2
      BY SMT, <1>1, <1>4 DEF MidInv, Tree, LengthInv, Leaf, ArmLeaf
    <2>7. EndInv'
      BY SMT, <1>1, <1>2, <1>4, <2>4, <2>5, <2>6, <2>0, Table, AmdTable, ArmTable
         DEF EndInv, States, MidInv, LengthInv, EntryLabel, ArmEntryLabel,
             matchMinLen, numStates, numLitStates
    <2>8. Addresses(GoEntry', amd'.load, arm'.load)
      BY SMT, <1>1, <1>2, <1>4, <2>4, <2>5, <2>6, <2>0, Table, AmdTable, ArmTable
         DEF GoEntry, Addresses, AmdAddress, ArmAddress
    <2>9. Addresses(go'.last, amd'.store, arm'.store)
      BY SMT, <1>1, <1>2, <1>4, <2>4, <2>5, <2>6, <2>0, Table, AmdTable, ArmTable
         DEF GoEntry, Addresses, AmdAddress, ArmAddress, MidInv, Tree, LeafStore,
             ArmLeafStore
    <2>10. KindInv'
      BY SMT, <2>4, <2>7 DEF KindInv
    <2> QED
      BY SMT, <1>1, <2>4, <2>5, <2>6, <2>8, <2>9, <2>10, Established DEF Kinds
  <1>5. CASE go.m >= 4 /\ go.state >= numStates
    <2>p. /\ ~(2 * go.m + b < 8) /\ ~(go.state < numStates)
            /\ ~(amd.sym < (IF "mid" = "high" THEN 128 ELSE 4)) /\ ~(amd.state < numStates * PMULT)
            /\ ~(arm.sym < (IF "mid" = "high" THEN 128 ELSE 4)) /\ ~(arm.state < NewDistance)
      BY SMT, <1>1, <1>5, AmdTable DEF MidInv, Tree, LengthInv, NewDistance, numStates
    <2>1. go' = [Decide("slot", probPosSlot + LenState((2 * go.m + b) - 8 + 8) * numPosSlots, 1)
                   EXCEPT !.length = (2 * go.m + b) - 8 + 8]
      BY SMT, <2>p DEF LenTree, AfterLength, LenState
    <2>2. amd' = [Stored(Then("slot", AmdSlotProbs(Leaf(amd.len, b)) + PMULT), LeafStore)
                    EXCEPT !.probs = AmdSlotProbs(Leaf(amd.len, b)), !.sym = 1,
                           !.len = Leaf(amd.len, b)]
      BY Zenon, <2>p DEF AmdLenBit, AfterLen, AmdSlotProbs, LenSlot
    <2>3. arm' = [StoredAt(Goto("slot", ArmSlotProbs(ArmLeaf(b) - arm.len) + 2), ArmLeafStore)
                    EXCEPT !.probs = ArmSlotProbs(ArmLeaf(b) - arm.len), !.sym = 1,
                           !.len = ArmLeaf(b) - arm.len]
      BY Zenon, <2>p DEF ArmLenBit, ArmAfterLen, ArmSlotProbs, LenSlot
    <2>4. /\ go'.at = "slot"
         /\ go'.base = probPosSlot + LenState((2 * go.m + b) - 8 + 8) * numPosSlots /\ go'.m = 1
         /\ go'.length = (2 * go.m + b) - 8 + 8 /\ go'.last = GoEntry /\ go'.offs = go.offs
         /\ go'.mbit = go.mbit /\ go'.state = go.state /\ go'.reps = go.reps /\ GoFields'
      BY SMT, <1>1, <2>1 DEF Decide, GoFields
    <2>5. /\ amd'.at = "slot" /\ amd'.probs = AmdSlotProbs(Leaf(amd.len, b))
         /\ amd'.load = AmdSlotProbs(Leaf(amd.len, b)) + PMULT /\ amd'.sym = 1
         /\ amd'.len = Leaf(amd.len, b) /\ amd'.store = LeafStore /\ amd'.state = amd.state
         /\ amd'.rep0 = amd.rep0 /\ amd'.rep1 = amd.rep1 /\ amd'.rep2 = amd.rep2
         /\ amd'.rep3 = amd.rep3 /\ AmdFields'
      BY SMT, <1>1, <2>2 DEF Stored, Then, AmdFields
    <2>6. /\ arm'.at = "slot" /\ arm'.probs = ArmSlotProbs(ArmLeaf(b) - arm.len)
         /\ arm'.load = ArmSlotProbs(ArmLeaf(b) - arm.len) + 2 /\ arm'.sym = 1
         /\ arm'.len = ArmLeaf(b) - arm.len /\ arm'.store = ArmLeafStore
         /\ arm'.state = arm.state /\ arm'.reps = arm.reps /\ ArmFields'
      BY SMT, <1>1, <2>3 DEF StoredAt, Goto, ArmFields
    <2>0. /\ ((2 * go.m + b) - 8 + 8) \in Nat /\ Leaf(amd.len, b) = (2 * go.m + b) - 8 + 8 + 2
            /\ ArmLeaf(b) - arm.len = (2 * go.m + b) - 8 + 8 + 2
      BY SMT, <1>1, <1>5 DEF MidInv, Tree, LengthInv, Leaf, ArmLeaf
    <2>00. /\ LenState((2 * go.m + b) - 8 + 8) \in 0 .. 3
           /\ LenSlot(Leaf(amd.len, b)) = LenState((2 * go.m + b) - 8 + 8) + 2
             /\ LenSlot(ArmLeaf(b) - arm.len) = LenState((2 * go.m + b) - 8 + 8) + 2
      BY SMT, <2>0 DEF LenState, LenSlot, numLenToPosStates
    <2>7. SlotInv'
      BY SMT, <1>1, <1>2, <1>5, <2>4, <2>5, <2>6, <2>0, <2>00, Table, AmdTable, ArmTable
         DEF SlotInv, DistanceInv, Tree, MidInv, LengthInv, Unmoved, AmdUnmoved,
             AmdAddress, ArmAddress, AmdSlotProbs, ArmSlotProbs, At, numStates, numPosSlots
    <2>8. Addresses(GoEntry', amd'.load, arm'.load)
      BY SMT, <1>1, <1>2, <1>5, <2>4, <2>5, <2>6, <2>0, <2>00, Table, AmdTable, ArmTable
         DEF GoEntry, Addresses, AmdAddress, ArmAddress, AmdSlotProbs, ArmSlotProbs,
             At, numPosSlots, MidInv, Tree
    <2>9. Addresses(go'.last, amd'.store, arm'.store)
      BY SMT, <1>1, <1>2, <1>5, <2>4, <2>5, <2>6, <2>0, <2>00, Table, AmdTable, ArmTable
         DEF GoEntry, Addresses, AmdAddress, ArmAddress, MidInv, Tree, LeafStore,
             ArmLeafStore
    <2>10. KindInv'
      BY SMT, <2>4, <2>7 DEF KindInv
    <2> QED
      BY SMT, <1>1, <2>4, <2>5, <2>6, <2>8, <2>9, <2>10, Established DEF Kinds
  <1> QED
    BY <1>3, <1>4, <1>5, <1>6

\* A bit of one of the longest lengths.
LEMMA HighStep ==
  ASSUME Inv, NEW b \in {0, 1}, inp' = inp,
         LenTree("high", 256, 16, b), AmdLenBit("high", b), ArmLenBit("high", b)
  PROVE  Inv'
  <1>1. /\ inp \in Inputs /\ GoFields /\ AmdFields /\ ArmFields /\ HighInv /\ go.at = "high"
        /\ Addresses(GoEntry, amd.load, arm.load) /\ 0 # 1 /\ (b = 0 \/ b = 1)
        /\ inp' \in Inputs /\ posState' = posState /\ LitBase' = LitBase /\ RepState' = RepState
    BY SMT, Same DEF Inv, KindInv, LenTree
  <1>2. inp.state \in 0 .. 11
    BY <1>1, InputFacts
  <1> posState \in Nat
    BY <1>1, PosStates
  <1>6. \/ go.m < 128
        \/ go.m >= 128 /\ go.state < numStates
        \/ go.m >= 128 /\ go.state >= numStates
    BY SMT, <1>1 DEF HighInv, Tree, LengthInv, numStates
  <1>3. CASE go.m < 128
    <2>1. go' = Decide("high", go.base, 2 * go.m + b)
      BY SMT, <1>1, <1>3 DEF LenTree, HighInv, Tree
    <2>2. amd' = Branch("high", b)
      BY SMT, <1>1, <1>3 DEF AmdLenBit, HighInv, Tree
    <2>3. arm' = ArmBranch("high", b)
      BY SMT, <1>1, <1>3 DEF ArmLenBit, HighInv, Tree
    <2>4. /\ go'.at = "high" /\ go'.m = 2 * go.m + b /\ go'.last = GoEntry /\ go'.base = go.base
         /\ go'.offs = go.offs /\ go'.mbit = go.mbit /\ go'.state = go.state
         /\ go'.reps = go.reps /\ go'.length = go.length /\ GoFields'
      BY SMT, <1>1, <2>1 DEF Decide, GoFields
    <2>5. /\ amd'.at = "high" /\ amd'.sym = 2 * amd.sym + b
         /\ amd'.load = (IF b = 0 THEN amd.probs + amd.sym * 4
                         ELSE amd.probs + 2 * amd.sym * PMULT + PMULT)
         /\ amd'.store = amd.probs + 2 * amd.sym /\ amd'.probs = amd.probs
         /\ amd'.state = amd.state /\ amd'.len = amd.len /\ amd'.rep0 = amd.rep0
         /\ amd'.rep1 = amd.rep1 /\ amd'.rep2 = amd.rep2 /\ amd'.rep3 = amd.rep3 /\ AmdFields'
      BY SMT, <1>1, <2>2 DEF Branch, Stored, Then, AmdFields
    <2>6. /\ arm'.at = "high" /\ arm'.sym = 2 * arm.sym + b
         /\ arm'.load = (IF b = 0 THEN arm.probs + 2 * arm.sym * 2 ELSE probs_PMULT + 2 * arm.sym * 2)
         /\ arm'.store = arm.probs + 2 * arm.sym /\ arm'.probs = arm.probs
         /\ arm'.state = arm.state /\ arm'.len = arm.len /\ arm'.reps = arm.reps /\ ArmFields'
      BY SMT, <1>1, <2>3 DEF ArmBranch, StoredAt, Goto, ArmFields
    <2>7. HighInv'
      BY SMT, <1>1, <1>2, <1>3, <2>4, <2>5, <2>6, Table, AmdTable, ArmTable
         DEF HighInv, Tree, AmdAddress, ArmAddress, LengthInv, Unmoved, AmdUnmoved, Reps, numStates,
             LenCoders
    <2>8. Addresses(GoEntry', amd'.load, arm'.load)
      BY SMT, <1>1, <1>2, <1>3, <2>4, <2>5, <2>6, Table, AmdTable, ArmTable
         DEF GoEntry, Addresses, AmdAddress, ArmAddress, HighInv,
             Tree, probs_PMULT
    <2>9. Addresses(go'.last, amd'.store, arm'.store)
      BY SMT, <1>1, <1>2, <1>3, <2>4, <2>5, <2>6, Table, AmdTable, ArmTable
         DEF GoEntry, Addresses, AmdAddress, ArmAddress, HighInv, Tree
    <2>10. KindInv'
      BY SMT, <2>4, <2>7 DEF KindInv
    <2> QED
      BY SMT, <1>1, <2>4, <2>5, <2>6, <2>8, <2>9, <2>10, Established DEF Kinds
  <1>4. CASE go.m >= 128 /\ go.state < numStates
    <2>p. /\ ~(2 * go.m + b < 256) /\ (go.state < numStates)
            /\ ~(amd.sym < (IF "high" = "high" THEN 128 ELSE 4)) /\ (amd.state < numStates * PMULT)
            /\ ~(arm.sym < (IF "high" = "high" THEN 128 ELSE 4)) /\ (arm.state < NewDistance)
      BY SMT, <1>1, <1>4, AmdTable DEF HighInv, Tree, LengthInv, NewDistance, numStates
    <2>1. Finish(<<"match", (2 * go.m + b) - 256 + 16 + matchMinLen, go.reps>>, go.state)
      BY SMT, <2>p DEF LenTree, AfterLength
    <2>2. AmdFinish(<<"match", Leaf(amd.len, b), Reps>>, amd.state, "lz_end", LeafStore)
      BY Zenon, <2>p DEF AmdLenBit, AfterLen
    <2>3. ArmFinish(<<"match", ArmLeaf(b) - arm.len, arm.reps>>, arm.state, "lz_end", ArmLeafStore)
      BY Zenon, <2>p DEF ArmLenBit, ArmAfterLen
    <2>4. /\ go'.at = "end"
         /\ go'.out = <<"match", (2 * go.m + b) - 256 + 16 + matchMinLen, go.reps>>
         /\ go'.last = GoEntry /\ go'.state = go.state /\ GoFields'
      BY SMT, <1>1, <2>1 DEF Finish, GoFields
    <2>5. /\ amd'.at = "end" /\ amd'.out = <<"match", Leaf(amd.len, b), Reps>>
         /\ amd'.label = "lz_end" /\ amd'.store = LeafStore /\ amd'.load = None
         /\ amd'.state = amd.state /\ AmdFields'
      BY SMT, <1>1, <2>2 DEF AmdFinish, AmdFields
    <2>6. /\ arm'.at = "end" /\ arm'.out = <<"match", ArmLeaf(b) - arm.len, arm.reps>>
         /\ arm'.label = "lz_end" /\ arm'.store = ArmLeafStore /\ arm'.load = None
         /\ arm'.state = arm.state /\ ArmFields'
      BY SMT, <1>1, <2>3 DEF ArmFinish, ArmFields
    <2>0. /\ ((2 * go.m + b) - 256 + 16) \in Nat /\ Leaf(amd.len, b) = (2 * go.m + b) - 256 + 16 + 2
            /\ ArmLeaf(b) - arm.len = (2 * go.m + b) - 256 + 16 + 2
      BY SMT, <1>1, <1>4 DEF HighInv, Tree, LengthInv, Leaf, ArmLeaf
    <2>7. EndInv'
      BY SMT, <1>1, <1>2, <1>4, <2>4, <2>5, <2>6, <2>0, Table, AmdTable, ArmTable
         DEF EndInv, States, HighInv, LengthInv, EntryLabel, ArmEntryLabel,
             matchMinLen, numStates, numLitStates
    <2>8. Addresses(GoEntry', amd'.load, arm'.load)
      BY SMT, <1>1, <1>2, <1>4, <2>4, <2>5, <2>6, <2>0, Table, AmdTable, ArmTable
         DEF GoEntry, Addresses, AmdAddress, ArmAddress
    <2>9. Addresses(go'.last, amd'.store, arm'.store)
      BY SMT, <1>1, <1>2, <1>4, <2>4, <2>5, <2>6, <2>0, Table, AmdTable, ArmTable
         DEF GoEntry, Addresses, AmdAddress, ArmAddress, HighInv, Tree, LeafStore,
             ArmLeafStore
    <2>10. KindInv'
      BY SMT, <2>4, <2>7 DEF KindInv
    <2> QED
      BY SMT, <1>1, <2>4, <2>5, <2>6, <2>8, <2>9, <2>10, Established DEF Kinds
  <1>5. CASE go.m >= 128 /\ go.state >= numStates
    <2>p. /\ ~(2 * go.m + b < 256) /\ ~(go.state < numStates)
            /\ ~(amd.sym < (IF "high" = "high" THEN 128 ELSE 4)) /\ ~(amd.state < numStates * PMULT)
            /\ ~(arm.sym < (IF "high" = "high" THEN 128 ELSE 4)) /\ ~(arm.state < NewDistance)
      BY SMT, <1>1, <1>5, AmdTable DEF HighInv, Tree, LengthInv, NewDistance, numStates
    <2>1. go' = [Decide("slot", probPosSlot + LenState((2 * go.m + b) - 256 + 16) * numPosSlots, 1)
                   EXCEPT !.length = (2 * go.m + b) - 256 + 16]
      BY SMT, <2>p DEF LenTree, AfterLength, LenState
    <2>2. amd' = [Stored(Then("slot", AmdSlotProbs(Leaf(amd.len, b)) + PMULT), LeafStore)
                    EXCEPT !.probs = AmdSlotProbs(Leaf(amd.len, b)), !.sym = 1,
                           !.len = Leaf(amd.len, b)]
      BY Zenon, <2>p DEF AmdLenBit, AfterLen, AmdSlotProbs, LenSlot
    <2>3. arm' = [StoredAt(Goto("slot", ArmSlotProbs(ArmLeaf(b) - arm.len) + 2), ArmLeafStore)
                    EXCEPT !.probs = ArmSlotProbs(ArmLeaf(b) - arm.len), !.sym = 1,
                           !.len = ArmLeaf(b) - arm.len]
      BY Zenon, <2>p DEF ArmLenBit, ArmAfterLen, ArmSlotProbs, LenSlot
    <2>4. /\ go'.at = "slot"
         /\ go'.base = probPosSlot + LenState((2 * go.m + b) - 256 + 16) * numPosSlots
         /\ go'.m = 1 /\ go'.length = (2 * go.m + b) - 256 + 16 /\ go'.last = GoEntry
         /\ go'.offs = go.offs /\ go'.mbit = go.mbit /\ go'.state = go.state
         /\ go'.reps = go.reps /\ GoFields'
      BY SMT, <1>1, <2>1 DEF Decide, GoFields
    <2>5. /\ amd'.at = "slot" /\ amd'.probs = AmdSlotProbs(Leaf(amd.len, b))
         /\ amd'.load = AmdSlotProbs(Leaf(amd.len, b)) + PMULT /\ amd'.sym = 1
         /\ amd'.len = Leaf(amd.len, b) /\ amd'.store = LeafStore /\ amd'.state = amd.state
         /\ amd'.rep0 = amd.rep0 /\ amd'.rep1 = amd.rep1 /\ amd'.rep2 = amd.rep2
         /\ amd'.rep3 = amd.rep3 /\ AmdFields'
      BY SMT, <1>1, <2>2 DEF Stored, Then, AmdFields
    <2>6. /\ arm'.at = "slot" /\ arm'.probs = ArmSlotProbs(ArmLeaf(b) - arm.len)
         /\ arm'.load = ArmSlotProbs(ArmLeaf(b) - arm.len) + 2 /\ arm'.sym = 1
         /\ arm'.len = ArmLeaf(b) - arm.len /\ arm'.store = ArmLeafStore
         /\ arm'.state = arm.state /\ arm'.reps = arm.reps /\ ArmFields'
      BY SMT, <1>1, <2>3 DEF StoredAt, Goto, ArmFields
    <2>0. /\ ((2 * go.m + b) - 256 + 16) \in Nat /\ Leaf(amd.len, b) = (2 * go.m + b) - 256 + 16 + 2
            /\ ArmLeaf(b) - arm.len = (2 * go.m + b) - 256 + 16 + 2
      BY SMT, <1>1, <1>5 DEF HighInv, Tree, LengthInv, Leaf, ArmLeaf
    <2>00. /\ LenState((2 * go.m + b) - 256 + 16) \in 0 .. 3
           /\ LenSlot(Leaf(amd.len, b)) = LenState((2 * go.m + b) - 256 + 16) + 2
             /\ LenSlot(ArmLeaf(b) - arm.len) = LenState((2 * go.m + b) - 256 + 16) + 2
      BY SMT, <2>0 DEF LenState, LenSlot, numLenToPosStates
    <2>7. SlotInv'
      BY SMT, <1>1, <1>2, <1>5, <2>4, <2>5, <2>6, <2>0, <2>00, Table, AmdTable, ArmTable
         DEF SlotInv, DistanceInv, Tree, HighInv, LengthInv, Unmoved, AmdUnmoved,
             AmdAddress, ArmAddress, AmdSlotProbs, ArmSlotProbs, At, numStates, numPosSlots
    <2>8. Addresses(GoEntry', amd'.load, arm'.load)
      BY SMT, <1>1, <1>2, <1>5, <2>4, <2>5, <2>6, <2>0, <2>00, Table, AmdTable, ArmTable
         DEF GoEntry, Addresses, AmdAddress, ArmAddress, AmdSlotProbs, ArmSlotProbs,
             At, numPosSlots, HighInv, Tree
    <2>9. Addresses(go'.last, amd'.store, arm'.store)
      BY SMT, <1>1, <1>2, <1>5, <2>4, <2>5, <2>6, <2>0, <2>00, Table, AmdTable, ArmTable
         DEF GoEntry, Addresses, AmdAddress, ArmAddress, HighInv, Tree, LeafStore,
             ArmLeafStore
    <2>10. KindInv'
      BY SMT, <2>4, <2>7 DEF KindInv
    <2> QED
      BY SMT, <1>1, <2>4, <2>5, <2>6, <2>8, <2>9, <2>10, Established DEF Kinds
  <1> QED
    BY <1>3, <1>4, <1>5, <1>6

\* The last two bits of a slot, as each engine takes them.
Slot(b) == (2 * go.m + b) - numPosSlots

\* What the last bit of a slot makes of it.
LEMMA SlotBits ==
  ASSUME NEW b \in {0, 1}, SlotInv, go.m >= 32
  PROVE  /\ Slot(b) \in 0 .. 63 /\ Slot(b) \div 2 = go.m - 32 /\ Slot(b) % 2 = b
         /\ Leaf(64 - 1, b) % 4 = Slot(b) % 4 /\ And(ArmLeaf(b), 3) = Slot(b) % 4
         /\ Or(Slot(b) % 4, 2) = 2 + b /\ (Slot(b) < 4 => Slot(b) % 4 = Slot(b))
  <1> DEFINE x == 2 * go.m + b
             s == x - 64
  <1>1. /\ s \in 0 .. 63 /\ x \in Nat /\ x = s + 64 /\ Slot(b) = s
        /\ Leaf(64 - 1, b) = s /\ ArmLeaf(b) = x
    BY SMT DEF SlotInv, Tree, Slot, Leaf, ArmLeaf, numPosSlots
  <1>2. PICK h \in Nat : s = 2 * h + b /\ h = go.m - 32
    BY SMT DEF SlotInv, Tree
  <1> HIDE DEF x, s
  <1>3. And(x, 3) = x % 4 /\ x % 4 = s % 4
    BY SMT, <1>1, LastBits
  <1>4. s \div 2 = h /\ s % 2 = b /\ (s < 4 => s % 4 = s)
    <2>1. s \in Nat /\ h \in Nat /\ (b = 0 \/ b = 1)
      BY SMT, <1>1, <1>2
    <2>2. s \div 2 = h /\ s % 2 = b
      BY SMT, <2>1, <1>2
    <2>3. s < 4 => s % 4 = s
      BY SMT, <2>1
    <2> QED
      BY <2>2, <2>3
  <1>5. Or(s % 4, 2) = 2 + b
    <2>0. s \in Nat /\ (b = 0 \/ b = 1)
      BY SMT, <1>1
    <2>1. (s % 4) \in 0 .. 3 /\ (s % 4) % 2 = s % 2
      BY SMT, <2>0
    <2>2. \/ s % 4 = 0 /\ b = 0
          \/ s % 4 = 1 /\ b = 1
          \/ s % 4 = 2 /\ b = 0
          \/ s % 4 = 3 /\ b = 1
      BY SMT, <2>0, <2>1, <1>4
    <2> QED
      BY SMT, <2>2, StateFlags
  <1> QED
    BY SMT, <1>1, <1>2, <1>3, <1>4, <1>5

\* What a bit of a short distance leaves of the room.
Roomy(m, w, n) ==
  /\ SpecRoom(m, w, n) => m <= 127
  /\ n > 1 /\ SpecRoom(m, w, n) =>
       SpecRoom(m + w, 2 * w, n - 1) /\ SpecRoom(m + 2 * w, 2 * w, n - 1)

\* A short distance stays inside its 127 entries.
LEMMA Rooms == \A m, w, n : m \in Nat /\ w \in Nat /\ n \in 1 .. 5 => Roomy(m, w, n)
  <1> SUFFICES ASSUME NEW m \in Nat, NEW w \in Nat, NEW n \in 1 .. 5
               PROVE  Roomy(m, w, n)
    BY Zenon
  <1>1. Roomy(m, w, 1) /\ Roomy(m, w, 2) /\ Roomy(m, w, 3)
    BY SMT, Powers DEF Roomy, SpecRoom
  <1>2. Roomy(m, w, 4) /\ Roomy(m, w, 5)
    BY SMT, Powers DEF Roomy, SpecRoom
  <1>3. n = 1 \/ n = 2 \/ n = 3 \/ n = 4 \/ n = 5
    BY SMT
  <1> QED
    BY SMT, <1>1, <1>2, <1>3

\* The first index of a short distance.
FirstIndex(t, n) ==
  t * 2^n \in Nat /\ t * 2^n >= 1 /\ SpecRoom(t * 2^n + 1, 1, n)

\* It starts inside them.
LEMMA FirstIndexes == \A t, n : t \in 2 .. 3 /\ n \in 1 .. 5 => FirstIndex(t, n)
  <1> SUFFICES ASSUME NEW t \in 2 .. 3, NEW n \in 1 .. 5
               PROVE  FirstIndex(t, n)
    BY Zenon
  <1>1. FirstIndex(t, 1) /\ FirstIndex(t, 2) /\ FirstIndex(t, 3)
    BY SMT, Powers DEF FirstIndex, SpecRoom
  <1>2. FirstIndex(t, 4) /\ FirstIndex(t, 5)
    BY SMT, Powers DEF FirstIndex, SpecRoom
  <1>3. n = 1 \/ n = 2 \/ n = 3 \/ n = 4 \/ n = 5
    BY SMT
  <1> QED
    BY SMT, <1>1, <1>2, <1>3

\* The first address of a short distance.
AmdFirst(b) ==
  Or(Leaf(64 - 1, b) % 4, 2) * 2^(amd.sym - 33) * PMULT + AmdSpecPos * PMULT + PMULT
ArmFirst(b) ==
  Or(And(ArmLeaf(b), 3), 2) * 2^(arm.sym - 33) * 2 + (ArmSpecPos * 2 + 2)

\* A bit of a distance slot.
LEMMA SlotStep ==
  ASSUME Inv, NEW b \in {0, 1}, inp' = inp,
         GoSlot(b), AmdSlotBit(b), ArmSlotBit(b)
  PROVE  Inv'
  <1>1. /\ inp \in Inputs /\ GoFields /\ AmdFields /\ ArmFields /\ SlotInv /\ go.at = "slot"
        /\ Addresses(GoEntry, amd.load, arm.load) /\ 0 # 1 /\ (b = 0 \/ b = 1)
        /\ inp' \in Inputs /\ posState' = posState /\ LitBase' = LitBase /\ RepState' = RepState
    BY SMT, Same DEF Inv, KindInv, GoSlot
  <1>2. inp.state \in 0 .. 11
    BY <1>1, InputFacts
  <1> posState \in Nat
    BY <1>1, PosStates
  <1>7. go.m >= 32 =>
          /\ Slot(b) \in 0 .. 63 /\ Slot(b) \div 2 = go.m - 32 /\ Slot(b) % 2 = b
          /\ Leaf(64 - 1, b) % 4 = Slot(b) % 4 /\ And(ArmLeaf(b), 3) = Slot(b) % 4
          /\ Or(Slot(b) % 4, 2) = 2 + b /\ (Slot(b) < 4 => Slot(b) % 4 = Slot(b))
    BY <1>1, SlotBits
  <1>8. go.m < 32 \/ go.m \in 32 .. 33 \/ go.m \in 34 .. 38 \/ go.m >= 39
    BY SMT, <1>1 DEF SlotInv, Tree
  <1>3. CASE go.m < 32
    <2>p. /\ 2 * go.m + b < numPosSlots /\ ~(2 * go.m + b >= numPosSlots)
          /\ ~(Slot(b) \in 4 .. 13) /\ ~(Slot(b) >= 14)
            /\ amd.sym < 32 /\ ~(amd.sym \in 32 .. 33) /\ ~(amd.sym \in 34 .. 38)
            /\ ~(amd.sym >= 39)
            /\ arm.sym < 32 /\ ~(arm.sym \in 32 .. 33) /\ ~(arm.sym \in 34 .. 38)
            /\ ~(arm.sym >= 39)
      BY SMT, <1>1, <1>3 DEF SlotInv, Tree, Slot, numPosSlots
    <2>1. go' = Decide("slot", go.base, 2 * go.m + b)
      BY Zenon, <2>p DEF GoSlot, Slot
    <2>2. amd' = Branch("slot", b)
      BY Zenon, <2>p DEF AmdSlotBit
    <2>3. arm' = ArmBranch("slot", b)
      BY Zenon, <2>p DEF ArmSlotBit
    <2>4. /\ go'.at = "slot" /\ go'.m = 2 * go.m + b /\ go'.last = GoEntry /\ go'.base = go.base
         /\ go'.offs = go.offs /\ go'.mbit = go.mbit /\ go'.state = go.state
         /\ go'.reps = go.reps /\ go'.length = go.length /\ GoFields'
      BY SMT, <1>1, <2>1 DEF Decide, GoFields
    <2>5. /\ amd'.at = "slot" /\ amd'.sym = 2 * amd.sym + b
         /\ amd'.load = (IF b = 0 THEN amd.probs + amd.sym * 4
                         ELSE amd.probs + 2 * amd.sym * PMULT + PMULT)
         /\ amd'.store = amd.probs + 2 * amd.sym /\ amd'.probs = amd.probs
         /\ amd'.state = amd.state /\ amd'.len = amd.len /\ amd'.rep0 = amd.rep0
         /\ amd'.rep1 = amd.rep1 /\ amd'.rep2 = amd.rep2 /\ amd'.rep3 = amd.rep3 /\ AmdFields'
      BY SMT, <1>1, <2>2 DEF Branch, Stored, Then, AmdFields
    <2>6. /\ arm'.at = "slot" /\ arm'.sym = 2 * arm.sym + b
         /\ arm'.load = (IF b = 0 THEN arm.probs + 2 * arm.sym * 2 ELSE probs_PMULT + 2 * arm.sym * 2)
         /\ arm'.store = arm.probs + 2 * arm.sym /\ arm'.probs = arm.probs
         /\ arm'.state = arm.state /\ arm'.len = arm.len /\ arm'.reps = arm.reps /\ ArmFields'
      BY SMT, <1>1, <2>3 DEF ArmBranch, StoredAt, Goto, ArmFields
    <2>7. SlotInv'
      BY SMT, <1>1, <1>2, <1>3, <2>4, <2>5, <2>6, Table, AmdTable, ArmTable
         DEF SlotInv, Tree, AmdAddress, ArmAddress, DistanceInv, Unmoved, AmdUnmoved
    <2>8. Addresses(GoEntry', amd'.load, arm'.load)
      BY SMT, <1>1, <1>2, <1>3, <2>4, <2>5, <2>6, Table, AmdTable, ArmTable
         DEF GoEntry, Addresses, AmdAddress, ArmAddress, SlotInv,
             Tree, probs_PMULT
    <2>9. Addresses(go'.last, amd'.store, arm'.store)
      BY SMT, <1>1, <1>2, <1>3, <2>4, <2>5, <2>6, Table, AmdTable, ArmTable
         DEF GoEntry, Addresses, AmdAddress, ArmAddress, SlotInv, Tree
    <2>10. KindInv'
      BY SMT, <2>4, <2>7 DEF KindInv
    <2> QED
      BY SMT, <1>1, <2>4, <2>5, <2>6, <2>8, <2>9, <2>10, Established DEF Kinds
  <1>4. CASE go.m \in 32 .. 33
    <2>p. /\ ~(2 * go.m + b < numPosSlots) /\ 2 * go.m + b >= numPosSlots /\ Slot(b) < 4
          /\ ~(Slot(b) \in 4 .. 13) /\ ~(Slot(b) >= 14)
            /\ ~(amd.sym < 32) /\ amd.sym \in 32 .. 33 /\ ~(amd.sym \in 34 .. 38)
            /\ ~(amd.sym >= 39)
            /\ ~(arm.sym < 32) /\ arm.sym \in 32 .. 33 /\ ~(arm.sym \in 34 .. 38)
            /\ ~(arm.sym >= 39)
      BY SMT, <1>1, <1>4 DEF SlotInv, Tree, Slot, numPosSlots
    <2>0. Slot(b) \in Nat /\ Leaf(64 - 1, b) % 4 = Slot(b) /\ And(ArmLeaf(b), 3) = Slot(b)
      BY SMT, <1>4, <1>7, <2>p
    <2>n. /\ Slot(b) # EndDistance /\ Leaf(64 - 1, b) % 4 # EndDistance
            /\ And(ArmLeaf(b), 3) # EndDistance
      BY SMT, <2>p, <2>0, EndDistanceAssumption
    <2>1. EndMatch(Slot(b))
      BY Zenon, <2>p DEF GoSlot, Slot
    <2>2. DistEnd((Leaf(64 - 1, b) % 4), LeafStore)
      BY Zenon, <2>p DEF AmdSlotBit
    <2>3. ArmDistEnd(And(ArmLeaf(b), 3), ArmLeafStore)
      BY Zenon, <2>p DEF ArmSlotBit
    <2>4. /\ go'.at = "end"
         /\ go'.state = (IF go.state < numStates + numLitStates THEN 7 ELSE 10)
         /\ go'.last = GoEntry
         /\ go'.out = <<"match", go.length + matchMinLen, <<Slot(b) + 1, 1, 2, 3>> >>
         /\ GoFields'
      BY SMT, <1>1, <2>1 DEF EndMatch, Finish, GoFields
    <2>q. AmdFinish(<<"match", amd.len, <<(Leaf(64 - 1, b) % 4) + 1, amd.rep0, amd.rep1, amd.rep2>> >>,
                    IF amd.state < (numStates + numLitStates) * PMULT THEN 7 * PMULT ELSE 10 * PMULT,
                    "lz_end", LeafStore)
      BY Zenon, <2>2, <2>n DEF DistEnd
    <2>r. ArmFinish(<<"match", arm.len, <<And(ArmLeaf(b), 3) + 1, arm.reps[1], arm.reps[2], arm.reps[3]>> >>,
                    IF arm.state >= 7 * 2 + NewDistance THEN 10 * 2 ELSE 7 * 2, "lz_end", ArmLeafStore)
      BY Zenon, <2>3, <2>n DEF ArmDistEnd
    <2>5. /\ amd'.at = "end"
         /\ amd'.state = (IF amd.state < (numStates + numLitStates) * PMULT THEN 7 * PMULT
                          ELSE 10 * PMULT)
         /\ amd'.label = "lz_end" /\ amd'.store = LeafStore /\ amd'.load = None
         /\ amd'.out = <<"match", amd.len,
                         <<(Leaf(64 - 1, b) % 4) + 1, amd.rep0, amd.rep1, amd.rep2>> >>
         /\ AmdFields'
      BY SMT, <1>1, <2>q DEF AmdFinish, AmdFields
    <2>6. /\ arm'.at = "end"
         /\ arm'.state = (IF arm.state >= 7 * 2 + NewDistance THEN 10 * 2 ELSE 7 * 2)
         /\ arm'.label = "lz_end" /\ arm'.store = ArmLeafStore /\ arm'.load = None
         /\ arm'.out = <<"match", arm.len,
                         <<And(ArmLeaf(b), 3) + 1, arm.reps[1], arm.reps[2], arm.reps[3]>> >>
         /\ ArmFields'
      BY SMT, <1>1, <2>r DEF ArmFinish, ArmFields
    <2>7. EndInv'
      BY SMT, <1>1, <1>4, <2>4, <2>5, <2>6, <2>0, AmdTable
         DEF EndInv, States, SlotInv, DistanceInv, Unmoved, AmdUnmoved, EntryLabel,
             ArmEntryLabel, matchMinLen, numStates, numLitStates, NewDistance
    <2>8. Addresses(GoEntry', amd'.load, arm'.load)
      BY SMT, <2>4, <2>5, <2>6
         DEF GoEntry, Addresses, AmdAddress, ArmAddress
    <2>9. Addresses(go'.last, amd'.store, arm'.store)
      BY SMT, <1>1, <2>4, <2>5, <2>6, AmdTable
         DEF GoEntry, Addresses, AmdAddress, ArmAddress, SlotInv, Tree, LeafStore,
             ArmLeafStore
    <2>10. KindInv'
      BY SMT, <2>4, <2>7 DEF KindInv
    <2> QED
      BY SMT, <1>1, <2>4, <2>5, <2>6, <2>8, <2>9, <2>10, Established DEF Kinds
  <1>5. CASE go.m \in 34 .. 38
    <2> DEFINE n == go.m - 33
               z == (2 + b) * 2^n
    <2>p. /\ ~(2 * go.m + b < numPosSlots) /\ 2 * go.m + b >= numPosSlots /\ ~(Slot(b) < 4)
          /\ Slot(b) \in 4 .. 13 /\ ~(Slot(b) >= 14)
            /\ ~(amd.sym < 32) /\ ~(amd.sym \in 32 .. 33) /\ amd.sym \in 34 .. 38
            /\ ~(amd.sym >= 39)
            /\ ~(arm.sym < 32) /\ ~(arm.sym \in 32 .. 33) /\ arm.sym \in 34 .. 38
            /\ ~(arm.sym >= 39)
      BY SMT, <1>1, <1>5, <1>7 DEF SlotInv, Tree, Slot, numPosSlots
    <2>1. go' = [Decide("spec", probSpecPos, (2 + (Slot(b) % 2)) * 2^(Slot(b) \div 2 - 1) + 1)
                   EXCEPT !.n = Slot(b) \div 2 - 1, !.w = 1]
      BY Zenon, <2>p DEF GoSlot, Slot
    <2>2. amd' = [Stored(Then("spec", AmdFirst(b)), LeafStore)
                    EXCEPT !.probs = 0, !.sym = AmdFirst(b), !.sym2 = PMULT, !.pbPos = amd.sym - 33]
      BY Zenon, <2>p DEF AmdSlotBit, AmdFirst
    <2>3. arm' = [StoredAt(Goto("spec", ArmFirst(b)), ArmLeafStore)
                    EXCEPT !.sym = ArmFirst(b), !.sym2 = 2, !.numBits = arm.sym - 33]
      BY Zenon, <2>p DEF ArmSlotBit, ArmFirst
    <2>4. /\ go'.at = "spec" /\ go'.base = probSpecPos
         /\ go'.m = (2 + (Slot(b) % 2)) * 2^(Slot(b) \div 2 - 1) + 1
         /\ go'.n = Slot(b) \div 2 - 1 /\ go'.w = 1 /\ go'.last = GoEntry /\ go'.offs = go.offs
         /\ go'.mbit = go.mbit /\ go'.state = go.state /\ go'.reps = go.reps
         /\ go'.length = go.length /\ GoFields'
      BY SMT, <1>1, <2>1 DEF Decide, GoFields
    <2>5. /\ amd'.at = "spec" /\ amd'.load = AmdFirst(b) /\ amd'.store = LeafStore
         /\ amd'.sym = AmdFirst(b) /\ amd'.sym2 = PMULT /\ amd'.pbPos = amd.sym - 33
         /\ amd'.state = amd.state /\ amd'.len = amd.len /\ amd'.rep0 = amd.rep0
         /\ amd'.rep1 = amd.rep1 /\ amd'.rep2 = amd.rep2 /\ amd'.rep3 = amd.rep3 /\ AmdFields'
      BY SMT, <1>1, <2>2 DEF Stored, Then, AmdFields
    <2>6. /\ arm'.at = "spec" /\ arm'.load = ArmFirst(b) /\ arm'.store = ArmLeafStore
         /\ arm'.sym = ArmFirst(b) /\ arm'.sym2 = 2 /\ arm'.numBits = arm.sym - 33
         /\ arm'.state = arm.state /\ arm'.len = arm.len /\ arm'.reps = arm.reps /\ ArmFields'
      BY SMT, <1>1, <2>3 DEF StoredAt, Goto, ArmFields
    <2>0. /\ (2 + (Slot(b) % 2)) * 2^(Slot(b) \div 2 - 1) = z /\ Slot(b) \div 2 - 1 = n
          /\ n \in 1 .. 5
            /\ z \in Nat /\ z >= 1 /\ SpecRoom(z + 1, 1, n)
            /\ AmdFirst(b) = AmdAddress(z + 1) /\ ArmFirst(b) = ArmAddress(z + 1)
            /\ amd.sym - 33 = n /\ arm.sym - 33 = n
      <3>1. /\ n \in 1 .. 5 /\ 2 + b \in 2 .. 3 /\ Slot(b) \div 2 - 1 = n
            /\ 2 + (Slot(b) % 2) = 2 + b
            /\ amd.sym = go.m /\ arm.sym = go.m
        BY SMT, <1>1, <1>5, <1>7 DEF SlotInv, Tree
      <3> HIDE DEF n
      <3>2. FirstIndex(2 + b, n)
        BY SMT, <3>1, FirstIndexes
      <3>3. z \in Nat /\ z >= 1 /\ SpecRoom(z + 1, 1, n)
        BY <3>2 DEF FirstIndex
      <3>4. Or(Leaf(64 - 1, b) % 4, 2) = 2 + b /\ Or(And(ArmLeaf(b), 3), 2) = 2 + b
        BY SMT, <1>5, <1>7
      <3>5. /\ AmdFirst(b) = z * PMULT + AmdSpecPos * PMULT + PMULT
            /\ ArmFirst(b) = z * 2 + (ArmSpecPos * 2 + 2)
        BY <3>1, <3>4 DEF AmdFirst, ArmFirst, n
      <3> HIDE DEF z
      <3>6. AmdFirst(b) = AmdAddress(z + 1) /\ ArmFirst(b) = ArmAddress(z + 1)
        BY SMT, <3>3, <3>5, AmdTable, ArmTable DEF AmdAddress, ArmAddress
      <3> QED
        BY SMT, <3>1, <3>3, <3>6 DEF z, n
    <2>00. go'.m = z + 1 /\ go'.n = n /\ SpecRoom(go'.m, go'.w, go'.n)
      BY <2>0, <2>4
    <2>a. /\ go'.m \in Nat /\ go'.m >= 1 /\ go'.n \in 1 .. 5 /\ amd'.sym = AmdAddress(go'.m)
          /\ arm'.sym = ArmAddress(go'.m)
      BY SMT, <2>0, <2>00, <2>5, <2>6
    <2>b. DistanceInv'
      BY SMT, <1>1, <2>4, <2>5, <2>6 DEF SlotInv, DistanceInv, Unmoved, AmdUnmoved
    <2>c. /\ go'.base = 0 /\ go'.offs = 0 /\ go'.mbit = 0 /\ go'.w = 1 /\ amd'.sym2 = 2
          /\ arm'.sym2 = 2
            /\ amd'.pbPos = go'.n /\ arm'.numBits = go'.n
      BY <1>1, <2>4, <2>5, <2>6, <2>0, <2>00, Table, AmdTable DEF SlotInv, Tree
    <2> HIDE DEF n, z
    <2>7. SpecInv'
      BY SMT, <2>00, <2>a, <2>b, <2>c
         DEF SpecInv
    <2>8. Addresses(GoEntry', amd'.load, arm'.load)
      BY SMT, <1>1, <2>4, <2>5, <2>6, <2>0, Table
         DEF GoEntry, Addresses, AmdAddress, ArmAddress, SlotInv, Tree
    <2>9. Addresses(go'.last, amd'.store, arm'.store)
      BY SMT, <1>1, <2>4, <2>5, <2>6, AmdTable
         DEF GoEntry, Addresses, AmdAddress, ArmAddress, SlotInv, Tree, LeafStore,
             ArmLeafStore
    <2>10. KindInv'
      BY SMT, <2>4, <2>7 DEF KindInv
    <2> QED
      BY SMT, <1>1, <2>4, <2>5, <2>6, <2>8, <2>9, <2>10, Established DEF Kinds
  <1>6. CASE go.m >= 39
    <2>p. /\ ~(2 * go.m + b < numPosSlots) /\ 2 * go.m + b >= numPosSlots /\ ~(Slot(b) < 4)
          /\ ~(Slot(b) \in 4 .. 13) /\ Slot(b) >= 14
            /\ ~(amd.sym < 32) /\ ~(amd.sym \in 32 .. 33) /\ ~(amd.sym \in 34 .. 38)
            /\ amd.sym >= 39
            /\ ~(arm.sym < 32) /\ ~(arm.sym \in 32 .. 33) /\ ~(arm.sym \in 34 .. 38)
            /\ arm.sym >= 39
      BY SMT, <1>1, <1>6, <1>7 DEF SlotInv, Tree, Slot, numPosSlots
    <2>1. go' = [Decide("direct", 0, 0) EXCEPT !.n = Slot(b) \div 2 - 1 - 4, !.distance = 2 + (Slot(b) % 2)]
      BY Zenon, <2>p DEF GoSlot, Slot
    <2>2. amd' = [Stored(Then("direct", None), LeafStore)
                    EXCEPT !.probs = 0, !.sym = Or(Leaf(64 - 1, b) % 4, 2) * 32,
                           !.sym2 = 2 * PMULT, !.pbPos = amd.sym - 33 - 4]
      BY Zenon, <2>p DEF AmdSlotBit
    <2>3. arm' = [StoredAt(Goto("direct", None), ArmLeafStore)
                    EXCEPT !.probs = At(ArmAlign), !.sym = Or(And(ArmLeaf(b), 3), 2),
                           !.numBits = arm.sym - 33 - 4]
      BY Zenon, <2>p DEF ArmSlotBit
    <2>4. /\ go'.at = "direct" /\ go'.m = 0 /\ go'.n = Slot(b) \div 2 - 1 - 4
         /\ go'.distance = 2 + (Slot(b) % 2) /\ go'.last = GoEntry /\ go'.offs = go.offs
         /\ go'.mbit = go.mbit /\ go'.state = go.state /\ go'.reps = go.reps
         /\ go'.length = go.length /\ GoFields'
      BY SMT, <1>1, <2>1 DEF Decide, GoFields
    <2>5. /\ amd'.at = "direct" /\ amd'.load = None /\ amd'.store = LeafStore
         /\ amd'.sym = Or(Leaf(64 - 1, b) % 4, 2) * 32 /\ amd'.pbPos = amd.sym - 33 - 4
         /\ amd'.state = amd.state /\ amd'.len = amd.len /\ amd'.rep0 = amd.rep0
         /\ amd'.rep1 = amd.rep1 /\ amd'.rep2 = amd.rep2 /\ amd'.rep3 = amd.rep3 /\ AmdFields'
      BY SMT, <1>1, <2>2 DEF Stored, Then, AmdFields
    <2>6. /\ arm'.at = "direct" /\ arm'.load = None /\ arm'.store = ArmLeafStore
         /\ arm'.probs = At(ArmAlign) /\ arm'.sym = Or(And(ArmLeaf(b), 3), 2)
         /\ arm'.numBits = arm.sym - 33 - 4 /\ arm'.state = arm.state /\ arm'.len = arm.len
         /\ arm'.reps = arm.reps /\ ArmFields'
      BY SMT, <1>1, <2>3 DEF StoredAt, Goto, ArmFields
    <2>0. /\ 2 + (Slot(b) % 2) = 2 + b /\ Slot(b) \div 2 - 1 - 4 = go.m - 37
            /\ Or(Leaf(64 - 1, b) % 4, 2) = 2 + b /\ Or(And(ArmLeaf(b), 3), 2) = 2 + b
      BY SMT, <1>1, <1>6, <1>7 DEF SlotInv, Tree
    <2>7. DirectInv'
      BY SMT, <1>1, <1>6, <2>4, <2>5, <2>6, <2>0, Table, ArmTable
         DEF DirectInv, SlotInv, Tree, DistanceInv, Unmoved, AmdUnmoved, ArmAddress, At
    <2>8. Addresses(GoEntry', amd'.load, arm'.load)
      BY SMT, <2>4, <2>5, <2>6
         DEF GoEntry, Addresses, AmdAddress, ArmAddress
    <2>9. Addresses(go'.last, amd'.store, arm'.store)
      BY SMT, <1>1, <2>4, <2>5, <2>6, AmdTable
         DEF GoEntry, Addresses, AmdAddress, ArmAddress, SlotInv, Tree, LeafStore,
             ArmLeafStore
    <2>10. KindInv'
      BY SMT, <2>4, <2>7 DEF KindInv
    <2> QED
      BY SMT, <1>1, <2>4, <2>5, <2>6, <2>8, <2>9, <2>10, Established DEF Kinds
  <1> QED
    BY <1>3, <1>4, <1>5, <1>6, <1>8

\* A bit of a short distance, in reverse.
LEMMA SpecStep ==
  ASSUME Inv, NEW b \in {0, 1}, inp' = inp,
         GoSpec(b), AmdSpecBit(b), ArmSpecBit(b)
  PROVE  Inv'
  <1>1. /\ inp \in Inputs /\ GoFields /\ AmdFields /\ ArmFields /\ SpecInv /\ go.at = "spec"
        /\ Addresses(GoEntry, amd.load, arm.load) /\ 0 # 1 /\ (b = 0 \/ b = 1)
        /\ inp' \in Inputs /\ posState' = posState /\ LitBase' = LitBase /\ RepState' = RepState
    BY SMT, Same DEF Inv, KindInv, GoSpec
  <1>2. inp.state \in 0 .. 11
    BY <1>1, InputFacts
  <1> posState \in Nat
    BY <1>1, PosStates
  <1> DEFINE m == IF b = 0 THEN go.m + go.w ELSE go.m + 2 * go.w
             x == amd.sym + (1 + b) * amd.sym2
             y == arm.sym + (1 + b) * arm.sym2
  <1>5. m \in Nat /\ m >= 1 /\ x = AmdAddress(m) /\ y = ArmAddress(m)
    <2>1. /\ go.w \in Nat /\ go.m \in Nat /\ go.m >= 1 /\ amd.sym2 = 2 * go.w /\ arm.sym2 = 2 * go.w
          /\ amd.sym = AmdAddress(go.m) /\ arm.sym = ArmAddress(go.m)
      BY <1>1 DEF SpecInv
    <2> DEFINE u == (1 + b) * amd.sym2
               v == (1 + b) * arm.sym2
    <2>2. u = (IF b = 0 THEN 2 * go.w ELSE 4 * go.w) /\ v = u
      <3>1. 1 + 0 = 1 /\ 1 + 1 = 2
        BY SMT
      <3>2. 1 * (2 * go.w) = 2 * go.w /\ 2 * (2 * go.w) = 4 * go.w
        BY SMT, <2>1
      <3> QED
        BY SMT, <1>1, <2>1, <3>1, <3>2
    <2>3. x = amd.sym + u /\ y = arm.sym + v
      OBVIOUS
    <2> HIDE DEF u, v, x, y
    <2> QED
      BY SMT, <1>1, <2>1, <2>2, <2>3, AmdTable DEF AmdAddress, ArmAddress, m
  <1>6. go.m <= 127 /\ (go.n > 1 => SpecRoom(m, 2 * go.w, go.n - 1))
    <2>1. Roomy(go.m, go.w, go.n)
      BY SMT, <1>1, Rooms DEF SpecInv
    <2> QED
      BY <1>1, <2>1 DEF Roomy, SpecInv
  <1> HIDE DEF m, x, y
  <1>7. go.n > 1 \/ go.n = 1
    BY SMT, <1>1 DEF SpecInv
  <1>3. CASE go.n > 1
    <2>p. go.n > 1 /\ amd.pbPos > 1 /\ arm.numBits > 1
      BY SMT, <1>1, <1>3 DEF SpecInv
    <2>1. go' = [Decide("spec", go.base, m) EXCEPT !.n = go.n - 1, !.w = 2 * go.w]
      BY Zenon, <2>p DEF GoSpec, m
    <2>2. amd' = [Stored(Then("spec", x), amd.sym)
                    EXCEPT !.sym = x, !.sym2 = 2 * amd.sym2, !.pbPos = amd.pbPos - 1]
      BY Zenon, <2>p DEF AmdSpecBit, x
    <2>3. arm' = [StoredAt(Goto("spec", y), arm.sym)
                    EXCEPT !.sym = y, !.sym2 = 2 * arm.sym2, !.numBits = arm.numBits - 1]
      BY Zenon, <2>p DEF ArmSpecBit, y
    <2>4. /\ go'.at = "spec" /\ go'.m = m /\ go'.n = go.n - 1 /\ go'.w = 2 * go.w
         /\ go'.last = GoEntry /\ go'.base = go.base /\ go'.offs = go.offs /\ go'.mbit = go.mbit
         /\ go'.state = go.state /\ go'.reps = go.reps /\ go'.length = go.length /\ GoFields'
      BY SMT, <1>1, <2>1 DEF Decide, GoFields
    <2>5. /\ amd'.at = "spec" /\ amd'.load = x /\ amd'.store = amd.sym /\ amd'.sym = x
         /\ amd'.sym2 = 2 * amd.sym2 /\ amd'.pbPos = amd.pbPos - 1 /\ amd'.state = amd.state
         /\ amd'.len = amd.len /\ amd'.rep0 = amd.rep0 /\ amd'.rep1 = amd.rep1
         /\ amd'.rep2 = amd.rep2 /\ amd'.rep3 = amd.rep3 /\ AmdFields'
      BY SMT, <1>1, <2>2 DEF Stored, Then, AmdFields
    <2>6. /\ arm'.at = "spec" /\ arm'.load = y /\ arm'.store = arm.sym /\ arm'.sym = y
         /\ arm'.sym2 = 2 * arm.sym2 /\ arm'.numBits = arm.numBits - 1 /\ arm'.state = arm.state
         /\ arm'.len = arm.len /\ arm'.reps = arm.reps /\ ArmFields'
      BY SMT, <1>1, <2>3 DEF StoredAt, Goto, ArmFields
    <2>0. SpecRoom(go'.m, go'.w, go'.n)
      BY <1>3, <1>6, <2>4
    <2>a. DistanceInv'
      BY SMT, <1>1, <2>4, <2>5, <2>6 DEF SpecInv, DistanceInv, Unmoved, AmdUnmoved
    <2>7. SpecInv'
      BY SMT, <1>1, <1>3, <1>5, <2>4, <2>5, <2>6, <2>0, <2>a
         DEF SpecInv
    <2>8. Addresses(GoEntry', amd'.load, arm'.load)
      BY SMT, <1>1, <1>5, <2>4, <2>5, <2>6, AmdTable
         DEF GoEntry, Addresses, AmdAddress, ArmAddress, SpecInv
    <2>9. Addresses(go'.last, amd'.store, arm'.store)
      BY SMT, <1>1, <2>4, <2>5, <2>6, AmdTable
         DEF GoEntry, Addresses, AmdAddress, ArmAddress, SpecInv
    <2>10. KindInv'
      BY SMT, <2>4, <2>7 DEF KindInv
    <2> QED
      BY SMT, <1>1, <2>4, <2>5, <2>6, <2>8, <2>9, <2>10, Established DEF Kinds
  <1>4. CASE go.n = 1
    <2>p. ~(go.n > 1) /\ ~(amd.pbPos > 1) /\ ~(arm.numBits > 1)
      BY SMT, <1>1, <1>4 DEF SpecInv
    <2>0. /\ (x - 2 * amd.sym2 - AmdSpecPos * PMULT) \div 2 = m - 2 * go.w
            /\ (y - 2 * arm.sym2) \div 2 = m - 2 * go.w
      BY SMT, <1>1, <1>5, AmdTable DEF SpecInv, AmdAddress, ArmAddress
    <2>n. /\ m - 2 * go.w # EndDistance
            /\ (x - 2 * amd.sym2 - AmdSpecPos * PMULT) \div 2 # EndDistance
            /\ (y - 2 * arm.sym2) \div 2 # EndDistance
      <3>1. m - 2 * go.w <= 127
        BY SMT, <1>1, <1>6 DEF SpecInv, m
      <3> QED
        BY SMT, <1>1, <1>5, <2>0, <3>1, EndDistanceAssumption DEF SpecInv
    <2>1. EndMatch(m - 2 * go.w)
      BY Zenon, <2>p DEF GoSpec, m
    <2>2. DistEnd((x - 2 * amd.sym2 - AmdSpecPos * PMULT) \div 2, amd.sym)
      BY Zenon, <2>p DEF AmdSpecBit, x
    <2>3. ArmDistEnd((y - 2 * arm.sym2) \div 2, arm.sym)
      BY Zenon, <2>p DEF ArmSpecBit, y
    <2>4. /\ go'.at = "end"
         /\ go'.state = (IF go.state < numStates + numLitStates THEN 7 ELSE 10)
         /\ go'.last = GoEntry
         /\ go'.out = <<"match", go.length + matchMinLen, <<m - 2 * go.w + 1, 1, 2, 3>> >>
         /\ GoFields'
      BY SMT, <1>1, <2>1 DEF EndMatch, Finish, GoFields
    <2>q. AmdFinish(<<"match", amd.len, <<(x - 2 * amd.sym2 - AmdSpecPos * PMULT) \div 2 + 1, amd.rep0, amd.rep1, amd.rep2>> >>,
                    IF amd.state < (numStates + numLitStates) * PMULT THEN 7 * PMULT ELSE 10 * PMULT,
                    "lz_end", amd.sym)
      BY Zenon, <2>2, <2>n DEF DistEnd
    <2>r. ArmFinish(<<"match", arm.len, <<(y - 2 * arm.sym2) \div 2 + 1, arm.reps[1], arm.reps[2], arm.reps[3]>> >>,
                    IF arm.state >= 7 * 2 + NewDistance THEN 10 * 2 ELSE 7 * 2, "lz_end", arm.sym)
      BY Zenon, <2>3, <2>n DEF ArmDistEnd
    <2>5. /\ amd'.at = "end"
         /\ amd'.state = (IF amd.state < (numStates + numLitStates) * PMULT THEN 7 * PMULT
                          ELSE 10 * PMULT)
         /\ amd'.label = "lz_end" /\ amd'.store = amd.sym /\ amd'.load = None
         /\ amd'.out = <<"match", amd.len,
                         <<(x - 2 * amd.sym2 - AmdSpecPos * PMULT) \div 2 + 1,
                           amd.rep0, amd.rep1, amd.rep2>> >>
         /\ AmdFields'
      BY SMT, <1>1, <2>q DEF AmdFinish, AmdFields
    <2>6. /\ arm'.at = "end"
         /\ arm'.state = (IF arm.state >= 7 * 2 + NewDistance THEN 10 * 2 ELSE 7 * 2)
         /\ arm'.label = "lz_end" /\ arm'.store = arm.sym /\ arm'.load = None
         /\ arm'.out = <<"match", arm.len,
                         <<(y - 2 * arm.sym2) \div 2 + 1, arm.reps[1], arm.reps[2], arm.reps[3]>> >>
         /\ ArmFields'
      BY SMT, <1>1, <2>r DEF ArmFinish, ArmFields
    <2>7. EndInv'
      BY SMT, <1>1, <2>4, <2>5, <2>6, <2>0, AmdTable
         DEF EndInv, States, SpecInv, DistanceInv, Unmoved, AmdUnmoved, EntryLabel,
             ArmEntryLabel, matchMinLen, numStates, numLitStates, NewDistance
    <2>8. Addresses(GoEntry', amd'.load, arm'.load)
      BY SMT, <2>4, <2>5, <2>6
         DEF GoEntry, Addresses, AmdAddress, ArmAddress
    <2>9. Addresses(go'.last, amd'.store, arm'.store)
      BY SMT, <1>1, <2>4, <2>5, <2>6, AmdTable
         DEF GoEntry, Addresses, AmdAddress, ArmAddress, SpecInv
    <2>10. KindInv'
      BY SMT, <2>4, <2>7 DEF KindInv
    <2> QED
      BY SMT, <1>1, <2>4, <2>5, <2>6, <2>8, <2>9, <2>10, Established DEF Kinds
  <1> QED
    BY <1>3, <1>4, <1>7

\* A bit of a long distance, without a probability.
LEMMA DirectStep ==
  ASSUME Inv, NEW b \in {0, 1}, inp' = inp,
         GoDirect(b), AmdDirectBit(b), ArmDirectBit(b)
  PROVE  Inv'
  <1>1. /\ inp \in Inputs /\ GoFields /\ AmdFields /\ ArmFields /\ DirectInv /\ go.at = "direct"
        /\ Addresses(GoEntry, amd.load, arm.load) /\ 0 # 1 /\ (b = 0 \/ b = 1)
        /\ inp' \in Inputs /\ posState' = posState /\ LitBase' = LitBase /\ RepState' = RepState
    BY SMT, Same DEF Inv, KindInv, GoDirect
  <1>2. inp.state \in 0 .. 11
    BY <1>1, InputFacts
  <1> posState \in Nat
    BY <1>1, PosStates
  <1>7. go.n > 1 \/ go.n = 1
    BY SMT, <1>1 DEF DirectInv
  <1>3. CASE go.n > 1
    <2>p. go.n > 1 /\ amd.pbPos > 1 /\ arm.numBits > 1
      BY SMT, <1>1, <1>3 DEF DirectInv
    <2>1. go' = [go EXCEPT !.n = go.n - 1, !.distance = 2 * go.distance + b, !.last = None]
      BY Zenon, <2>p DEF GoDirect
    <2>2. amd' = [Then("direct", None) EXCEPT !.sym = 2 * (amd.sym + 16 * b), !.pbPos = amd.pbPos - 1]
      BY Zenon, <2>p DEF AmdDirectBit
    <2>3. arm' = [Goto("direct", None) EXCEPT !.sym = 2 * arm.sym + b, !.numBits = arm.numBits - 1]
      BY Zenon, <2>p DEF ArmDirectBit
    <2>4. /\ go'.at = "direct" /\ go'.n = go.n - 1 /\ go'.distance = 2 * go.distance + b
         /\ go'.last = None /\ go'.base = go.base /\ go'.m = go.m /\ go'.offs = go.offs
         /\ go'.mbit = go.mbit /\ go'.state = go.state /\ go'.reps = go.reps
         /\ go'.length = go.length /\ GoFields'
      BY SMT, <1>1, <2>1 DEF GoFields
    <2>5. /\ amd'.at = "direct" /\ amd'.load = None /\ amd'.store = amd.load
         /\ amd'.sym = 2 * (amd.sym + 16 * b) /\ amd'.pbPos = amd.pbPos - 1
         /\ amd'.state = amd.state /\ amd'.len = amd.len /\ amd'.rep0 = amd.rep0
         /\ amd'.rep1 = amd.rep1 /\ amd'.rep2 = amd.rep2 /\ amd'.rep3 = amd.rep3 /\ AmdFields'
      BY SMT, <1>1, <2>2 DEF Then, AmdFields
    <2>6. /\ arm'.at = "direct" /\ arm'.load = None /\ arm'.store = arm.load
         /\ arm'.sym = 2 * arm.sym + b /\ arm'.numBits = arm.numBits - 1
         /\ arm'.probs = arm.probs /\ arm'.state = arm.state /\ arm'.len = arm.len
         /\ arm'.reps = arm.reps /\ ArmFields'
      BY SMT, <1>1, <2>3 DEF Goto, ArmFields
    <2>7. DirectInv'
      BY SMT, <1>1, <1>3, <2>4, <2>5, <2>6
         DEF DirectInv, DistanceInv, Unmoved, AmdUnmoved
    <2>8. Addresses(GoEntry', amd'.load, arm'.load)
      BY SMT, <1>1, <2>4, <2>5, <2>6
         DEF GoEntry, Addresses, AmdAddress, ArmAddress, None
    <2>9. Addresses(go'.last, amd'.store, arm'.store)
      BY SMT, <1>1, <2>4, <2>5, <2>6
         DEF GoEntry, Addresses, AmdAddress, ArmAddress, None
    <2>10. KindInv'
      BY SMT, <2>4, <2>7 DEF KindInv
    <2> QED
      BY SMT, <1>1, <2>4, <2>5, <2>6, <2>8, <2>9, <2>10, Established DEF Kinds
  <1>4. CASE go.n = 1
    <2>p. ~(go.n > 1) /\ ~(amd.pbPos > 1) /\ ~(arm.numBits > 1)
      BY SMT, <1>1, <1>4 DEF DirectInv
    <2>1. go' = [Decide("align", probAlign, 1) EXCEPT
                   !.w = 1, !.distance = 16 * (2 * go.distance + b)]
      BY Zenon, <2>p DEF GoDirect
    <2>2. amd' = [Then("align", PMULT) EXCEPT !.sym = amd.sym + 16 * b, !.pbPos = 1]
      BY Zenon, <2>p DEF AmdDirectBit
    <2>3. arm' = [Goto("align", arm.probs + 2) EXCEPT
                    !.sym = (2 * arm.sym + b) * 16, !.sym2 = 2, !.numBits = 1]
      BY Zenon, <2>p DEF ArmDirectBit
    <2>4. /\ go'.at = "align" /\ go'.base = probAlign /\ go'.m = 1 /\ go'.w = 1
         /\ go'.distance = 16 * (2 * go.distance + b) /\ go'.last = GoEntry
         /\ go'.offs = go.offs /\ go'.mbit = go.mbit /\ go'.state = go.state
         /\ go'.reps = go.reps /\ go'.length = go.length /\ GoFields'
      BY SMT, <1>1, <2>1 DEF Decide, GoFields
    <2>5. /\ amd'.at = "align" /\ amd'.load = PMULT /\ amd'.store = amd.load
         /\ amd'.sym = amd.sym + 16 * b /\ amd'.pbPos = 1 /\ amd'.state = amd.state
         /\ amd'.len = amd.len /\ amd'.rep0 = amd.rep0 /\ amd'.rep1 = amd.rep1
         /\ amd'.rep2 = amd.rep2 /\ amd'.rep3 = amd.rep3 /\ AmdFields'
      BY SMT, <1>1, <2>2 DEF Then, AmdFields
    <2>6. /\ arm'.at = "align" /\ arm'.load = arm.probs + 2 /\ arm'.store = arm.load
         /\ arm'.sym = (2 * arm.sym + b) * 16 /\ arm'.sym2 = 2 /\ arm'.numBits = 1
         /\ arm'.probs = arm.probs /\ arm'.state = arm.state /\ arm'.len = arm.len
         /\ arm'.reps = arm.reps /\ ArmFields'
      BY SMT, <1>1, <2>3 DEF Goto, ArmFields
    <2>0. /\ amd'.sym = 16 * (2 * go.distance + b) /\ amd'.sym \in Nat /\ arm'.sym = amd'.sym
            /\ amd'.sym % 16 = 0 /\ go'.distance = amd'.sym
      <3> DEFINE e == 2 * go.distance + b
      <3>1. e \in Nat /\ amd.sym + 16 * b = 16 * e /\ (2 * arm.sym + b) * 16 = 16 * e
        BY SMT, <1>1 DEF DirectInv
      <3>2. go'.distance = 16 * e /\ amd'.sym = 16 * e /\ arm'.sym = 16 * e
        BY <2>4, <2>5, <2>6, <3>1
      <3> HIDE DEF e
      <3>3. (16 * e) % 16 = 0 /\ 16 * e \in Nat
        BY SMT, <3>1
      <3> QED
        BY <3>2, <3>3 DEF e
    <2>b. DistanceInv'
      BY SMT, <1>1, <2>4, <2>5, <2>6 DEF DirectInv, DistanceInv, Unmoved, AmdUnmoved
    <2>c. /\ go'.base = probAlign /\ go'.w = 1 /\ go'.m = 1 /\ go'.offs = 0 /\ go'.mbit = 0
          /\ arm'.sym2 = 2
            /\ amd'.pbPos = 1 /\ arm'.numBits = 1 /\ arm'.probs = ArmAddress(probAlign)
      BY <1>1, <2>4, <2>5, <2>6 DEF DirectInv
    <2>7. AlignInv'
      BY SMT, <2>0, <2>b, <2>c
         DEF AlignInv
    <2>8. Addresses(GoEntry', amd'.load, arm'.load)
      BY SMT, <1>1, <2>4, <2>5, <2>6, Table, AmdTable
         DEF GoEntry, Addresses, AmdAddress, ArmAddress, DirectInv
    <2>9. Addresses(go'.last, amd'.store, arm'.store)
      BY SMT, <1>1, <2>4, <2>5, <2>6
         DEF GoEntry, Addresses, AmdAddress, ArmAddress, None
    <2>10. KindInv'
      BY SMT, <2>4, <2>7 DEF KindInv
    <2> QED
      BY SMT, <1>1, <2>4, <2>5, <2>6, <2>8, <2>9, <2>10, Established DEF Kinds
  <1> QED
    BY <1>3, <1>4, <1>7

\* One of the last four bits of a long distance, in reverse.
LEMMA AlignStep ==
  ASSUME Inv, NEW b \in {0, 1}, inp' = inp,
         GoAlign(b), AmdAlignBit(b), ArmAlignBit(b)
  PROVE  Inv'
  <1>1. /\ inp \in Inputs /\ GoFields /\ AmdFields /\ ArmFields /\ AlignInv /\ go.at = "align"
        /\ Addresses(GoEntry, amd.load, arm.load) /\ 0 # 1 /\ (b = 0 \/ b = 1)
        /\ inp' \in Inputs /\ posState' = posState /\ LitBase' = LitBase /\ RepState' = RepState
    BY SMT, Same DEF Inv, KindInv, GoAlign
  <1>2. inp.state \in 0 .. 11
    BY <1>1, InputFacts
  <1> posState \in Nat
    BY <1>1, PosStates
  <1>6. PICK k \in Nat : amd.sym = 16 * k
    <2>1. amd.sym \in Nat /\ amd.sym % 16 = 0
      BY <1>1 DEF AlignInv
    <2>2. amd.sym = 16 * (amd.sym \div 16) /\ amd.sym \div 16 \in Nat
      BY SMT, <2>1
    <2> QED
      BY <2>2
  <1> DEFINE t == go.m - go.w
             d == IF b = 1 THEN go.w ELSE 0
             x == IF b = 1 THEN Or(arm.sym, arm.numBits) ELSE arm.sym
             y == arm.sym2 + (IF b = 1 THEN 4 ELSE 2) * arm.numBits
  <1>7. /\ t \in Nat /\ t < go.w /\ go.distance = 16 * k + t /\ go.m = t + go.w
        /\ arm.sym = 16 * k + t /\ arm.numBits = go.w /\ arm.sym2 = 2 * go.m
        /\ go.w \in {1, 2, 4, 8} /\ amd.pbPos = go.w /\ (go.w > 1 => amd.sym2 = 2 * go.m)
    <2>1. /\ go.w \in {1, 2, 4, 8} /\ go.m \in go.w .. 2 * go.w - 1
          /\ go.distance = amd.sym + (go.m - go.w)
          /\ arm.sym = go.distance /\ arm.numBits = go.w /\ arm.sym2 = 2 * go.m
          /\ amd.pbPos = go.w /\ (go.w > 1 => amd.sym2 = 2 * go.m)
      BY <1>1 DEF AlignInv
    <2>2. go.w \in Nat /\ go.m \in Nat /\ go.w <= go.m /\ go.m < 2 * go.w
      <3>1. go.w \in Nat
        BY SMT, <2>1
      <3>2. go.m \in go.w .. 2 * go.w - 1
        BY <2>1
      <3> QED
        BY SMT, <3>1, <3>2
    <2>3. /\ t \in Nat /\ t < go.w /\ go.distance = 16 * k + t /\ go.m = t + go.w
          /\ arm.sym = 16 * k + t
      <3>1. t \in Nat /\ t < go.w /\ go.m = t + go.w
        BY SMT, <2>2
      <3> QED
        BY <2>1, <3>1, <1>6
    <2> QED
      BY <2>1, <2>3
  <1>8. b * go.w = d /\ (1 + b) * go.w = d + go.w /\ d \in Nat
    <2>1. go.w \in Nat
      BY SMT, <1>7
    <2>2. CASE b = 0
      BY SMT, <2>1, <2>2
    <2>3. CASE b = 1
      BY SMT, <2>1, <2>3
    <2> QED
      BY <1>1, <2>2, <2>3
  <1>9. x = 16 * k + t + d
    <2>1. Or(16 * k + t, go.w) = 16 * k + t + go.w
      <3> HIDE DEF t
      <3> QED
        BY <1>6, <1>7, AlignBit
    <2> QED
      BY SMT, <2>1, <1>6, <1>7
  <1>10. y = 2 * go.m + 2 * (d + go.w) /\ d <= go.w
    BY SMT, <1>1, <1>7
  <1>11. go.w = 1 \/ go.w \in {2, 4} \/ go.w = 8
    BY <1>7
  <1>12. /\ GoEntry = 1664 + go.m /\ go.m \in Nat /\ go.base = 1664 /\ go.offs = 0 /\ go.mbit = 0
         /\ arm.probs = 3328 /\ arm.sym2 = 2 * go.m /\ go.w \in Nat
    <2>1. /\ go.base = 1664 /\ go.offs = 0 /\ go.mbit = 0 /\ arm.probs = ArmAddress(1664)
      BY <1>1, Table DEF AlignInv
    <2>2. go.m \in Nat /\ go.w \in Nat
      BY SMT, <1>7
    <2> QED
      BY SMT, <1>1, <1>7, <2>1, <2>2 DEF GoEntry, ArmAddress
  <1>13. DistanceInv
    BY <1>1 DEF AlignInv
  <1> HIDE DEF t, d, x, y
  <1>3. CASE go.w = 1
    <2>p. /\ go.w < 8 /\ arm.numBits < 8
            /\ amd.pbPos = 1 /\ ~(amd.pbPos \in {2, 4}) /\ ~(amd.pbPos = 8)
      BY SMT, <1>7, <1>3
    <2>1. go' = [Decide("align", go.base, go.m + (1 + b) * go.w) EXCEPT
                   !.w = 2 * go.w, !.distance = go.distance + b * go.w]
      BY Zenon, <2>p DEF GoAlign
    <2>2. amd' = [Stored(Then("align", (2 + b) * PMULT), PMULT)
                    EXCEPT !.sym2 = (2 + b) * PMULT, !.pbPos = 2]
      BY Zenon, <2>p DEF AmdAlignBit
    <2>3. arm' = [StoredAt(Goto("align", arm.probs + y), arm.probs + arm.sym2)
                    EXCEPT !.sym = x, !.sym2 = y, !.numBits = 2 * arm.numBits]
      BY Zenon, <2>p DEF ArmAlignBit, x, y
    <2>4. /\ go'.at = "align" /\ go'.m = go.m + (1 + b) * go.w /\ go'.w = 2 * go.w
         /\ go'.distance = go.distance + b * go.w /\ go'.last = GoEntry /\ go'.base = go.base
         /\ go'.offs = go.offs /\ go'.mbit = go.mbit /\ go'.state = go.state
         /\ go'.reps = go.reps /\ go'.length = go.length /\ GoFields'
      BY SMT, <1>1, <2>1 DEF Decide, GoFields
    <2>5. /\ amd'.at = "align" /\ amd'.load = (2 + b) * PMULT /\ amd'.store = PMULT
         /\ amd'.sym2 = (2 + b) * PMULT /\ amd'.pbPos = 2 /\ amd'.sym = amd.sym
         /\ amd'.state = amd.state /\ amd'.len = amd.len /\ amd'.rep0 = amd.rep0
         /\ amd'.rep1 = amd.rep1 /\ amd'.rep2 = amd.rep2 /\ amd'.rep3 = amd.rep3 /\ AmdFields'
      BY SMT, <1>1, <2>2 DEF Stored, Then, AmdFields
    <2>6. /\ arm'.at = "align" /\ arm'.load = arm.probs + y /\ arm'.store = arm.probs + arm.sym2
         /\ arm'.sym = x /\ arm'.sym2 = y /\ arm'.numBits = 2 * arm.numBits
         /\ arm'.probs = arm.probs /\ arm'.state = arm.state /\ arm'.len = arm.len
         /\ arm'.reps = arm.reps /\ ArmFields'
      BY SMT, <1>1, <2>3 DEF StoredAt, Goto, ArmFields
    <2>0. /\ PMULT = 2 * go.m /\ (2 + b) * PMULT = 2 * (2 + b)
      BY SMT, <1>1, <1>3, <1>7, AmdTable
    <2>00. t = 0 /\ d = b /\ 2 + b = t + 2 * go.w + d
      BY SMT, <1>1, <1>3, <1>7 DEF d
    <2>a. /\ go'.m = t + 2 * go.w + d /\ go'.distance = 16 * k + t + d
            /\ amd'.sym2 = 2 * go'.m /\ arm'.sym2 = 2 * go'.m /\ arm'.sym = 16 * k + t + d
            /\ amd'.sym = 16 * k /\ amd'.pbPos = 2 * go.w /\ arm'.numBits = 2 * go.w
      BY SMT, <1>1, <1>6, <1>7, <1>8, <1>9, <1>10, <1>3, <2>4, <2>5, <2>6, AmdTable
    <2>b. DistanceInv'
      BY SMT, <1>1, <2>4, <2>5, <2>6 DEF AlignInv, DistanceInv, Unmoved, AmdUnmoved
    <2>c. /\ t + d \in Nat /\ t + d < 2 * go.w /\ go.w \in {1, 2, 4} /\ (16 * k) % 16 = 0
            /\ d \in Nat /\ t \in Nat
      BY SMT, <1>6, <1>7, <1>8, <1>10, <1>3
    <2>d. /\ amd'.store = 2 * go.m /\ arm'.store = 3328 + 2 * go.m /\ go'.last = 1664 + go.m
            /\ go'.base = 1664 /\ go'.offs = 0 /\ go'.mbit = 0 /\ amd'.load = 2 * go'.m
            /\ arm'.load = 3328 + y /\ y = 2 * go'.m
      BY <2>4, <2>5, <2>6, <2>a, <1>12, <2>0, <2>00
    <2>e. go'.m \in Nat
      BY SMT, <1>12, <2>a, <2>c
    <2>7. AlignInv'
      BY SMT, <1>1, <1>6, <2>4, <2>5, <2>6, <2>a, <2>b, <2>c
         DEF AlignInv
    <2>8. Addresses(GoEntry', amd'.load, arm'.load)
      BY SMT, <2>4, <2>d, <2>e, AmdTable
         DEF GoEntry, Addresses, AmdAddress, ArmAddress
    <2>9. Addresses(go'.last, amd'.store, arm'.store)
      BY SMT, <1>12, <2>d, AmdTable
         DEF Addresses, AmdAddress, ArmAddress
    <2>10. KindInv'
      BY SMT, <2>4, <2>7 DEF KindInv
    <2> QED
      BY SMT, <1>1, <2>4, <2>5, <2>6, <2>8, <2>9, <2>10, Established DEF Kinds
  <1>4. CASE go.w \in {2, 4}
    <2> DEFINE s == amd.sym2 + amd.pbPos * PMULT
               z == IF b = 1 THEN s + amd.pbPos * PMULT ELSE s
    <2>p. /\ go.w < 8 /\ arm.numBits < 8
            /\ ~(amd.pbPos = 1) /\ amd.pbPos \in {2, 4} /\ ~(amd.pbPos = 8)
      BY SMT, <1>7, <1>4
    <2>1. go' = [Decide("align", go.base, go.m + (1 + b) * go.w) EXCEPT
                   !.w = 2 * go.w, !.distance = go.distance + b * go.w]
      BY Zenon, <2>p DEF GoAlign
    <2>2. amd' = [Stored(Then("align", z), s - amd.pbPos * PMULT)
                    EXCEPT !.sym2 = z, !.pbPos = 2 * amd.pbPos]
      BY Zenon, <2>p DEF AmdAlignBit, s, z
    <2>3. arm' = [StoredAt(Goto("align", arm.probs + y), arm.probs + arm.sym2)
                    EXCEPT !.sym = x, !.sym2 = y, !.numBits = 2 * arm.numBits]
      BY Zenon, <2>p DEF ArmAlignBit, x, y
    <2>4. /\ go'.at = "align" /\ go'.m = go.m + (1 + b) * go.w /\ go'.w = 2 * go.w
         /\ go'.distance = go.distance + b * go.w /\ go'.last = GoEntry /\ go'.base = go.base
         /\ go'.offs = go.offs /\ go'.mbit = go.mbit /\ go'.state = go.state
         /\ go'.reps = go.reps /\ go'.length = go.length /\ GoFields'
      BY SMT, <1>1, <2>1 DEF Decide, GoFields
    <2>5. /\ amd'.at = "align" /\ amd'.load = z /\ amd'.store = s - amd.pbPos * PMULT
         /\ amd'.sym2 = z /\ amd'.pbPos = 2 * amd.pbPos /\ amd'.sym = amd.sym
         /\ amd'.state = amd.state /\ amd'.len = amd.len /\ amd'.rep0 = amd.rep0
         /\ amd'.rep1 = amd.rep1 /\ amd'.rep2 = amd.rep2 /\ amd'.rep3 = amd.rep3 /\ AmdFields'
      BY SMT, <1>1, <2>2 DEF Stored, Then, AmdFields
    <2>6. /\ arm'.at = "align" /\ arm'.load = arm.probs + y /\ arm'.store = arm.probs + arm.sym2
         /\ arm'.sym = x /\ arm'.sym2 = y /\ arm'.numBits = 2 * arm.numBits
         /\ arm'.probs = arm.probs /\ arm'.state = arm.state /\ arm'.len = arm.len
         /\ arm'.reps = arm.reps /\ ArmFields'
      BY SMT, <1>1, <2>3 DEF StoredAt, Goto, ArmFields
    <2>0. z = 2 * go.m + 2 * (d + go.w) /\ s - amd.pbPos * PMULT = 2 * go.m
      BY SMT, <1>1, <1>7, <1>4, <1>12, AmdTable DEF d
    <2> HIDE DEF s, z
    <2>a. /\ go'.m = t + 2 * go.w + d /\ go'.distance = 16 * k + t + d
            /\ amd'.sym2 = 2 * go'.m /\ arm'.sym2 = 2 * go'.m /\ arm'.sym = 16 * k + t + d
            /\ amd'.sym = 16 * k /\ amd'.pbPos = 2 * go.w /\ arm'.numBits = 2 * go.w
      <3>1. go'.m = t + 2 * go.w + d /\ go'.distance = 16 * k + t + d
        BY SMT, <1>7, <1>8, <1>12, <2>4
      <3>2. amd'.sym2 = 2 * go'.m /\ amd'.sym = 16 * k /\ amd'.pbPos = 2 * go.w
        <4>1. go'.m = t + 2 * go.w + d /\ 2 * go.m + 2 * (d + go.w) = 2 * (t + 2 * go.w + d)
          BY SMT, <1>7, <1>8, <1>12, <3>1
        <4> QED
          BY <1>6, <1>7, <2>5, <2>0, <4>1
      <3>3. arm'.sym2 = 2 * go'.m /\ arm'.sym = 16 * k + t + d /\ arm'.numBits = 2 * go.w
        <4>1. go'.m = t + 2 * go.w + d /\ 2 * go.m + 2 * (d + go.w) = 2 * (t + 2 * go.w + d)
          BY SMT, <1>7, <1>8, <1>12, <3>1
        <4> QED
          BY <1>7, <1>9, <1>10, <2>6, <4>1
      <3> QED
        BY <3>1, <3>2, <3>3
    <2>b. DistanceInv'
      BY SMT, <1>1, <2>4, <2>5, <2>6 DEF AlignInv, DistanceInv, Unmoved, AmdUnmoved
    <2>c. /\ t + d \in Nat /\ t + d < 2 * go.w /\ go.w \in {1, 2, 4} /\ (16 * k) % 16 = 0
            /\ d \in Nat /\ t \in Nat
      BY SMT, <1>6, <1>7, <1>8, <1>10, <1>4
    <2>d. /\ amd'.store = 2 * go.m /\ arm'.store = 3328 + 2 * go.m /\ go'.last = 1664 + go.m
            /\ go'.base = 1664 /\ go'.offs = 0 /\ go'.mbit = 0 /\ amd'.load = 2 * go'.m
            /\ arm'.load = 3328 + y /\ y = 2 * go'.m
      BY <2>4, <2>5, <2>6, <2>a, <1>12, <2>0
    <2>e. go'.m \in Nat
      BY SMT, <1>12, <2>a, <2>c
    <2>7. AlignInv'
      BY SMT, <1>1, <1>6, <2>4, <2>5, <2>6, <2>a, <2>b, <2>c
         DEF AlignInv
    <2>8. Addresses(GoEntry', amd'.load, arm'.load)
      BY SMT, <2>4, <2>d, <2>e, AmdTable
         DEF GoEntry, Addresses, AmdAddress, ArmAddress
    <2>9. Addresses(go'.last, amd'.store, arm'.store)
      BY SMT, <1>12, <2>d, AmdTable
         DEF Addresses, AmdAddress, ArmAddress
    <2>10. KindInv'
      BY SMT, <2>4, <2>7 DEF KindInv
    <2> QED
      BY SMT, <1>1, <2>4, <2>5, <2>6, <2>8, <2>9, <2>10, Established DEF Kinds
  <1>5. CASE go.w = 8
    <2> DEFINE e == go.distance + 8 * b
               u == IF b = 0 THEN Or(amd.sym, amd.sym2 \div 2) - 8
                    ELSE Or(amd.sym, amd.sym2 \div 2)
    <2>p. /\ ~(go.w < 8) /\ ~(arm.numBits < 8) /\ ~(amd.pbPos = 1) /\ ~(amd.pbPos \in {2, 4})
          /\ amd.pbPos = 8
      BY SMT, <1>7, <1>5
    <2>1. (e = EndDistance /\ GoMarker) \/ (e # EndDistance /\ EndMatch(e))
      BY Zenon, <2>p DEF GoAlign, e
    <2>2. DistEnd(u, (amd.sym2 \div 2) * PMULT)
      BY Zenon, <2>p DEF AmdAlignBit, u
    <2>3. ArmDistEnd(x, arm.probs + arm.sym2)
      BY Zenon, <2>p DEF ArmAlignBit, x
    <2>0. u = e /\ x = e /\ amd.sym2 \div 2 = go.m
      <3>1. amd.sym2 \div 2 = go.m /\ go.m \in Nat /\ go.m < 16
        BY SMT, <1>7, <1>5
      <3>2. Or(amd.sym, go.m) = 16 * k + go.m
        BY <1>6, <3>1, AlignBits
      <3> QED
        BY SMT, <1>1, <1>5, <1>6, <1>7, <1>9, <3>1, <3>2 DEF d
    <2> HIDE DEF e, u
    <2>a. /\ amd.len = go.length + matchMinLen /\ arm.len = go.length + matchMinLen
            /\ amd.rep0 = 1 /\ amd.rep1 = 2 /\ amd.rep2 = 3 /\ amd.rep3 = 4
            /\ arm.reps = <<1, 2, 3, 4>> /\ go.reps = <<1, 2, 3, 4>>
      BY SMT, <1>1 DEF AlignInv, DistanceInv, Unmoved, AmdUnmoved, matchMinLen
    <2>b. /\ go'.at = "end" /\ go'.last = GoEntry /\ GoFields'
          /\ amd'.at = "end" /\ amd'.store = (amd.sym2 \div 2) * PMULT /\ amd'.load = None
          /\ AmdFields'
          /\ arm'.at = "end" /\ arm'.store = arm.probs + arm.sym2 /\ arm'.load = None
          /\ ArmFields' /\ EndInv'
      <3>1. CASE e # EndDistance
        <4>p. EndMatch(e)
          BY Zenon, <2>1, <3>1
        <4>q. AmdFinish(<<"match", amd.len, <<u + 1, amd.rep0, amd.rep1, amd.rep2>> >>,
                        IF amd.state < (numStates + numLitStates) * PMULT THEN 7 * PMULT ELSE 10 * PMULT,
                        "lz_end", (amd.sym2 \div 2) * PMULT)
          BY Zenon, <2>2, <2>0, <3>1 DEF DistEnd
        <4>r. ArmFinish(<<"match", arm.len, <<x + 1, arm.reps[1], arm.reps[2], arm.reps[3]>> >>,
                        IF arm.state >= 7 * 2 + NewDistance THEN 10 * 2 ELSE 7 * 2,
                        "lz_end", arm.probs + arm.sym2)
          BY Zenon, <2>3, <2>0, <3>1 DEF ArmDistEnd
        <4>4. /\ go'.at = "end"
             /\ go'.state = (IF go.state < numStates + numLitStates THEN 7 ELSE 10)
             /\ go'.last = GoEntry
             /\ go'.out = <<"match", go.length + matchMinLen, <<e + 1, 1, 2, 3>> >>
             /\ GoFields'
          BY SMT, <1>1, <4>p DEF EndMatch, Finish, GoFields
        <4>5. /\ amd'.at = "end"
             /\ amd'.state = (IF amd.state < (numStates + numLitStates) * PMULT THEN 7 * PMULT
                              ELSE 10 * PMULT)
             /\ amd'.label = "lz_end" /\ amd'.store = (amd.sym2 \div 2) * PMULT
             /\ amd'.load = None
             /\ amd'.out = <<"match", amd.len, <<u + 1, amd.rep0, amd.rep1, amd.rep2>> >>
             /\ AmdFields'
          BY SMT, <1>1, <4>q DEF AmdFinish, AmdFields
        <4>6. /\ arm'.at = "end"
             /\ arm'.state = (IF arm.state >= 7 * 2 + NewDistance THEN 10 * 2 ELSE 7 * 2)
             /\ arm'.label = "lz_end" /\ arm'.store = arm.probs + arm.sym2 /\ arm'.load = None
             /\ arm'.out = <<"match", arm.len,
                             <<x + 1, arm.reps[1], arm.reps[2], arm.reps[3]>> >>
             /\ ArmFields'
          BY SMT, <1>1, <4>r DEF ArmFinish, ArmFields
        <4>a. arm.reps[1] = 1 /\ arm.reps[2] = 2 /\ arm.reps[3] = 3
          BY SMT, <2>a
        <4>b. amd'.out = go'.out /\ arm'.out = go'.out
          BY <4>4, <4>5, <4>6, <2>0, <2>a, <4>a
        <4>c. /\ go'.state \in {7, 10} /\ amd'.state = 2 * go'.state /\ arm'.state = 2 * go'.state
                /\ amd'.label = "lz_end" /\ arm'.label = "lz_end"
          BY SMT, <1>13, <4>4, <4>5, <4>6, AmdTable
             DEF DistanceInv, numStates, numLitStates, NewDistance
        <4>d. go'.out[1] # "marker"
          BY SMT, <4>4
        <4>7. EndInv'
          BY SMT, <4>b, <4>c, <4>d, AmdTable
             DEF EndInv, States, EntryLabel, ArmEntryLabel, numLitStates
        <4> QED
          BY <4>4, <4>5, <4>6, <4>7
      <3>2. CASE e = EndDistance
        <4>p. GoMarker
          BY Zenon, <2>1, <3>2
        <4>q. AmdFinish(<<"marker", Reps>>, amd.state - numStates * PMULT, "fin",
                        (amd.sym2 \div 2) * PMULT)
          BY Zenon, <2>2, <2>0, <3>2 DEF DistEnd
        <4>r. ArmFinish(<<"marker", arm.reps>>, Xor(arm.state, NewDistance), "fin",
                        arm.probs + arm.sym2)
          BY Zenon, <2>3, <2>0, <3>2 DEF ArmDistEnd
        <4>4. /\ go'.at = "end" /\ go'.state = go.state - numStates /\ go'.last = GoEntry
             /\ go'.out = <<"marker", go.reps>> /\ GoFields'
          BY SMT, <1>1, <4>p DEF GoMarker, Finish, GoFields
        <4>5. /\ amd'.at = "end" /\ amd'.state = amd.state - numStates * PMULT
             /\ amd'.label = "fin" /\ amd'.store = (amd.sym2 \div 2) * PMULT
             /\ amd'.load = None /\ amd'.out = <<"marker", Reps>> /\ AmdFields'
          BY SMT, <1>1, <4>q DEF AmdFinish, AmdFields
        <4>6. /\ arm'.at = "end" /\ arm'.state = Xor(arm.state, NewDistance)
             /\ arm'.label = "fin" /\ arm'.store = arm.probs + arm.sym2 /\ arm'.load = None
             /\ arm'.out = <<"marker", arm.reps>> /\ ArmFields'
          BY SMT, <1>1, <4>r DEF ArmFinish, ArmFields
        <4>b. amd'.out = go'.out /\ arm'.out = go'.out
          BY <4>4, <4>5, <4>6, <2>a DEF Reps
        <4>c. arm'.state = arm.state - 32
          <5>1. arm.state \in Nat /\ arm.state >= 32 /\ arm.state < 64
            BY SMT, <1>13 DEF DistanceInv
          <5> QED
            BY SMT, <4>6, <5>1, FlagOff DEF NewDistance
        <4>d. /\ go'.state \in 0 .. 11 /\ amd'.state = 2 * go'.state /\ arm'.state = 2 * go'.state
          BY SMT, <1>13, <4>4, <4>5, <4>c, AmdTable DEF DistanceInv, numStates
        <4>e. go'.out[1] = "marker"
          BY SMT, <4>4
        <4>7. EndInv'
          BY <4>b, <4>5, <4>6, <4>d, <4>e DEF EndInv, States
        <4> QED
          BY <4>4, <4>5, <4>6, <4>7
      <3> QED
        BY <3>1, <3>2
    <2>8. Addresses(GoEntry', amd'.load, arm'.load)
      BY SMT, <2>b
         DEF GoEntry, Addresses, AmdAddress, ArmAddress
    <2>9. Addresses(go'.last, amd'.store, arm'.store)
      BY SMT, <1>1, <1>5, <1>7, <2>b, <2>0, Table, AmdTable
         DEF GoEntry, Addresses, AmdAddress, ArmAddress, AlignInv
    <2>10. KindInv'
      BY SMT, <2>b DEF KindInv
    <2> QED
      BY SMT, <1>1, <2>b, <2>8, <2>9, <2>10, Established DEF Kinds
  <1> QED
    BY <1>3, <1>4, <1>5, <1>11

----------------------------------------------------------------------------
(* All decisions together. *)

\* The kind of decision tells which step decodeLoop takes.
LEMMA GoBitKinds ==
  ASSUME NEW b \in {0, 1}, GoBit(b)
  PROVE  /\ go.at \in Kinds \ {"end"}
         /\ go.at = "isMatch" => GoIsMatch(b)
         /\ go.at = "literal" => GoLiteral(b)
         /\ go.at = "matched" => GoMatched(b)
         /\ go.at = "isRep" => GoIsRep(b)
         /\ go.at = "isRepG0" => GoIsRepG0(b)
         /\ go.at = "isRep0Long" => GoIsRep0Long(b)
         /\ go.at = "isRepG1" => GoIsRepG1(b)
         /\ go.at = "isRepG2" => GoIsRepG2(b)
         /\ go.at = "choice" => GoChoice(b)
         /\ go.at = "choice2" => GoChoice2(b)
         /\ go.at = "low" => GoLow(b)
         /\ go.at = "mid" => GoMid(b)
         /\ go.at = "high" => GoHigh(b)
         /\ go.at = "slot" => GoSlot(b)
         /\ go.at = "spec" => GoSpec(b)
         /\ go.at = "direct" => GoDirect(b)
         /\ go.at = "align" => GoAlign(b)
  <1>1. /\ GoIsMatch(b) => go.at = "isMatch"
        /\ GoLiteral(b) => go.at = "literal"
        /\ GoMatched(b) => go.at = "matched"
        /\ GoIsRep(b) => go.at = "isRep"
        /\ GoIsRepG0(b) => go.at = "isRepG0"
        /\ GoIsRep0Long(b) => go.at = "isRep0Long"
        /\ GoIsRepG1(b) => go.at = "isRepG1"
        /\ GoIsRepG2(b) => go.at = "isRepG2"
        /\ GoChoice(b) => go.at = "choice"
        /\ GoChoice2(b) => go.at = "choice2"
        /\ GoLow(b) => go.at = "low"
        /\ GoMid(b) => go.at = "mid"
        /\ GoHigh(b) => go.at = "high"
        /\ GoSlot(b) => go.at = "slot"
        /\ GoSpec(b) => go.at = "spec"
        /\ GoDirect(b) => go.at = "direct"
        /\ GoAlign(b) => go.at = "align"
    BY DEF GoIsMatch, GoLiteral, GoMatched, GoIsRep, GoIsRepG0, GoIsRep0Long, GoIsRepG1,
           GoIsRepG2, GoChoice, GoChoice2, GoLow, GoMid, GoHigh, GoSlot, GoSpec, GoDirect,
           GoAlign, LenTree
  <1>2. GoIsMatch(b) \/ GoLiteral(b) \/ GoMatched(b) \/ GoIsRep(b) \/ GoIsRepG0(b) \/
        GoIsRep0Long(b) \/ GoIsRepG1(b) \/ GoIsRepG2(b) \/ GoChoice(b) \/ GoChoice2(b) \/
        GoLow(b) \/ GoMid(b) \/ GoHigh(b) \/ GoSlot(b) \/ GoSpec(b) \/ GoDirect(b) \/ GoAlign(b)
    BY DEF GoBit
  <1> QED
    BY SMT, <1>1, <1>2 DEF Kinds

\* The kind of decision tells which step amd64 takes.
LEMMA AmdStepKinds ==
  ASSUME NEW b \in {0, 1}, AmdStep(b)
  PROVE  /\ amd.at \in Kinds \ {"end"}
         /\ amd.at = "isMatch" => AmdIsMatchBit(b)
         /\ amd.at = "literal" => AmdLiteralBit(b)
         /\ amd.at = "matched" => AmdMatchedBit(b)
         /\ amd.at = "isRep" => AmdIsRepBit(b)
         /\ amd.at = "isRepG0" => AmdIsRepG0Bit(b)
         /\ amd.at = "isRep0Long" => AmdIsRep0LongBit(b)
         /\ amd.at = "isRepG1" => AmdIsRepG1Bit(b)
         /\ amd.at = "isRepG2" => AmdIsRepG2Bit(b)
         /\ amd.at = "choice" => AmdChoiceBit(b)
         /\ amd.at = "choice2" => AmdChoice2Bit(b)
         /\ amd.at = "low" => AmdLenBit("low", b)
         /\ amd.at = "mid" => AmdLenBit("mid", b)
         /\ amd.at = "high" => AmdLenBit("high", b)
         /\ amd.at = "slot" => AmdSlotBit(b)
         /\ amd.at = "spec" => AmdSpecBit(b)
         /\ amd.at = "direct" => AmdDirectBit(b)
         /\ amd.at = "align" => AmdAlignBit(b)
  <1>1. /\ AmdIsMatchBit(b) => amd.at = "isMatch"
        /\ AmdLiteralBit(b) => amd.at = "literal"
        /\ AmdMatchedBit(b) => amd.at = "matched"
        /\ AmdIsRepBit(b) => amd.at = "isRep"
        /\ AmdIsRepG0Bit(b) => amd.at = "isRepG0"
        /\ AmdIsRep0LongBit(b) => amd.at = "isRep0Long"
        /\ AmdIsRepG1Bit(b) => amd.at = "isRepG1"
        /\ AmdIsRepG2Bit(b) => amd.at = "isRepG2"
        /\ AmdChoiceBit(b) => amd.at = "choice"
        /\ AmdChoice2Bit(b) => amd.at = "choice2"
        /\ AmdLenBit("low", b) => amd.at = "low"
        /\ AmdLenBit("mid", b) => amd.at = "mid"
        /\ AmdLenBit("high", b) => amd.at = "high"
        /\ AmdSlotBit(b) => amd.at = "slot"
        /\ AmdSpecBit(b) => amd.at = "spec"
        /\ AmdDirectBit(b) => amd.at = "direct"
        /\ AmdAlignBit(b) => amd.at = "align"
    BY DEF AmdIsMatchBit, AmdLiteralBit, AmdMatchedBit, AmdIsRepBit, AmdIsRepG0Bit,
           AmdIsRep0LongBit, AmdIsRepG1Bit, AmdIsRepG2Bit, AmdChoiceBit, AmdChoice2Bit,
           AmdLenBit, AmdSlotBit, AmdSpecBit, AmdDirectBit, AmdAlignBit
  <1>2. AmdIsMatchBit(b) \/ AmdLiteralBit(b) \/ AmdMatchedBit(b) \/ AmdIsRepBit(b) \/
        AmdIsRepG0Bit(b) \/ AmdIsRep0LongBit(b) \/ AmdIsRepG1Bit(b) \/ AmdIsRepG2Bit(b) \/
        AmdChoiceBit(b) \/ AmdChoice2Bit(b) \/ AmdLenBit("low", b) \/ AmdLenBit("mid", b) \/
        AmdLenBit("high", b) \/ AmdSlotBit(b) \/ AmdSpecBit(b) \/ AmdDirectBit(b) \/
        AmdAlignBit(b)
    BY DEF AmdStep
  <1> QED
    BY SMT, <1>1, <1>2 DEF Kinds

\* The kind of decision tells which step arm64 takes.
LEMMA ArmStepKinds ==
  ASSUME NEW b \in {0, 1}, ArmStep(b)
  PROVE  /\ arm.at \in Kinds \ {"end"}
         /\ arm.at = "isMatch" => ArmIsMatchBit(b)
         /\ arm.at = "literal" => ArmLiteralBit(b)
         /\ arm.at = "matched" => ArmMatchedBit(b)
         /\ arm.at = "isRep" => ArmIsRepBit(b)
         /\ arm.at = "isRepG0" => ArmIsRepG0Bit(b)
         /\ arm.at = "isRep0Long" => ArmIsRep0LongBit(b)
         /\ arm.at = "isRepG1" => ArmIsRepG1Bit(b)
         /\ arm.at = "isRepG2" => ArmIsRepG2Bit(b)
         /\ arm.at = "choice" => ArmChoiceBit(b)
         /\ arm.at = "choice2" => ArmChoice2Bit(b)
         /\ arm.at = "low" => ArmLenBit("low", b)
         /\ arm.at = "mid" => ArmLenBit("mid", b)
         /\ arm.at = "high" => ArmLenBit("high", b)
         /\ arm.at = "slot" => ArmSlotBit(b)
         /\ arm.at = "spec" => ArmSpecBit(b)
         /\ arm.at = "direct" => ArmDirectBit(b)
         /\ arm.at = "align" => ArmAlignBit(b)
  <1>1. /\ ArmIsMatchBit(b) => arm.at = "isMatch"
        /\ ArmLiteralBit(b) => arm.at = "literal"
        /\ ArmMatchedBit(b) => arm.at = "matched"
        /\ ArmIsRepBit(b) => arm.at = "isRep"
        /\ ArmIsRepG0Bit(b) => arm.at = "isRepG0"
        /\ ArmIsRep0LongBit(b) => arm.at = "isRep0Long"
        /\ ArmIsRepG1Bit(b) => arm.at = "isRepG1"
        /\ ArmIsRepG2Bit(b) => arm.at = "isRepG2"
        /\ ArmChoiceBit(b) => arm.at = "choice"
        /\ ArmChoice2Bit(b) => arm.at = "choice2"
        /\ ArmLenBit("low", b) => arm.at = "low"
        /\ ArmLenBit("mid", b) => arm.at = "mid"
        /\ ArmLenBit("high", b) => arm.at = "high"
        /\ ArmSlotBit(b) => arm.at = "slot"
        /\ ArmSpecBit(b) => arm.at = "spec"
        /\ ArmDirectBit(b) => arm.at = "direct"
        /\ ArmAlignBit(b) => arm.at = "align"
    BY DEF ArmIsMatchBit, ArmLiteralBit, ArmMatchedBit, ArmIsRepBit, ArmIsRepG0Bit,
           ArmIsRep0LongBit, ArmIsRepG1Bit, ArmIsRepG2Bit, ArmChoiceBit, ArmChoice2Bit,
           ArmLenBit, ArmSlotBit, ArmSpecBit, ArmDirectBit, ArmAlignBit
  <1>2. ArmIsMatchBit(b) \/ ArmLiteralBit(b) \/ ArmMatchedBit(b) \/ ArmIsRepBit(b) \/
        ArmIsRepG0Bit(b) \/ ArmIsRep0LongBit(b) \/ ArmIsRepG1Bit(b) \/ ArmIsRepG2Bit(b) \/
        ArmChoiceBit(b) \/ ArmChoice2Bit(b) \/ ArmLenBit("low", b) \/ ArmLenBit("mid", b) \/
        ArmLenBit("high", b) \/ ArmSlotBit(b) \/ ArmSpecBit(b) \/ ArmDirectBit(b) \/
        ArmAlignBit(b)
    BY DEF ArmStep
  <1> QED
    BY SMT, <1>1, <1>2 DEF Kinds

\* A bit that all three engines take keeps what relates them.
LEMMA DecisionStep ==
  ASSUME Inv, NEW b \in {0, 1}, Decision(b)
  PROVE  Inv'
  <1>1. GoBit(b) /\ AmdStep(b) /\ ArmStep(b) /\ inp' = inp /\ amd.at = go.at /\ arm.at = go.at
    BY DEF Decision, Inv
  <1>2. CASE go.at = "isMatch"
    <2>1. GoIsMatch(b) /\ AmdIsMatchBit(b) /\ ArmIsMatchBit(b)
      BY <1>1, <1>2, GoBitKinds, AmdStepKinds, ArmStepKinds
    <2> QED
      BY <1>1, <2>1, IsMatchStep
  <1>3. CASE go.at = "literal"
    <2>1. GoLiteral(b) /\ AmdLiteralBit(b) /\ ArmLiteralBit(b)
      BY <1>1, <1>3, GoBitKinds, AmdStepKinds, ArmStepKinds
    <2> QED
      BY <1>1, <2>1, LiteralStep
  <1>4. CASE go.at = "matched"
    <2>1. GoMatched(b) /\ AmdMatchedBit(b) /\ ArmMatchedBit(b)
      BY <1>1, <1>4, GoBitKinds, AmdStepKinds, ArmStepKinds
    <2> QED
      BY <1>1, <2>1, MatchedStep
  <1>5. CASE go.at = "isRep"
    <2>1. GoIsRep(b) /\ AmdIsRepBit(b) /\ ArmIsRepBit(b)
      BY <1>1, <1>5, GoBitKinds, AmdStepKinds, ArmStepKinds
    <2> QED
      BY <1>1, <2>1, IsRepStep
  <1>6. CASE go.at = "isRepG0"
    <2>1. GoIsRepG0(b) /\ AmdIsRepG0Bit(b) /\ ArmIsRepG0Bit(b)
      BY <1>1, <1>6, GoBitKinds, AmdStepKinds, ArmStepKinds
    <2> QED
      BY <1>1, <2>1, IsRepG0Step
  <1>7. CASE go.at = "isRep0Long"
    <2>1. GoIsRep0Long(b) /\ AmdIsRep0LongBit(b) /\ ArmIsRep0LongBit(b)
      BY <1>1, <1>7, GoBitKinds, AmdStepKinds, ArmStepKinds
    <2> QED
      BY <1>1, <2>1, IsRep0LongStep
  <1>8. CASE go.at = "isRepG1"
    <2>1. GoIsRepG1(b) /\ AmdIsRepG1Bit(b) /\ ArmIsRepG1Bit(b)
      BY <1>1, <1>8, GoBitKinds, AmdStepKinds, ArmStepKinds
    <2> QED
      BY <1>1, <2>1, IsRepG1Step
  <1>9. CASE go.at = "isRepG2"
    <2>1. GoIsRepG2(b) /\ AmdIsRepG2Bit(b) /\ ArmIsRepG2Bit(b)
      BY <1>1, <1>9, GoBitKinds, AmdStepKinds, ArmStepKinds
    <2> QED
      BY <1>1, <2>1, IsRepG2Step
  <1>10. CASE go.at = "choice"
    <2>1. GoChoice(b) /\ AmdChoiceBit(b) /\ ArmChoiceBit(b)
      BY <1>1, <1>10, GoBitKinds, AmdStepKinds, ArmStepKinds
    <2> QED
      BY <1>1, <2>1, ChoiceStep
  <1>11. CASE go.at = "choice2"
    <2>1. GoChoice2(b) /\ AmdChoice2Bit(b) /\ ArmChoice2Bit(b)
      BY <1>1, <1>11, GoBitKinds, AmdStepKinds, ArmStepKinds
    <2> QED
      BY <1>1, <2>1, Choice2Step
  <1>12. CASE go.at = "low"
    <2>1. GoLow(b) /\ AmdLenBit("low", b) /\ ArmLenBit("low", b)
      BY <1>1, <1>12, GoBitKinds, AmdStepKinds, ArmStepKinds
    <2> QED
      BY <1>1, <2>1, LowStep DEF GoLow
  <1>13. CASE go.at = "mid"
    <2>1. GoMid(b) /\ AmdLenBit("mid", b) /\ ArmLenBit("mid", b)
      BY <1>1, <1>13, GoBitKinds, AmdStepKinds, ArmStepKinds
    <2> QED
      BY <1>1, <2>1, MidStep DEF GoMid
  <1>14. CASE go.at = "high"
    <2>1. GoHigh(b) /\ AmdLenBit("high", b) /\ ArmLenBit("high", b)
      BY <1>1, <1>14, GoBitKinds, AmdStepKinds, ArmStepKinds
    <2> QED
      BY <1>1, <2>1, HighStep DEF GoHigh
  <1>15. CASE go.at = "slot"
    <2>1. GoSlot(b) /\ AmdSlotBit(b) /\ ArmSlotBit(b)
      BY <1>1, <1>15, GoBitKinds, AmdStepKinds, ArmStepKinds
    <2> QED
      BY <1>1, <2>1, SlotStep
  <1>16. CASE go.at = "spec"
    <2>1. GoSpec(b) /\ AmdSpecBit(b) /\ ArmSpecBit(b)
      BY <1>1, <1>16, GoBitKinds, AmdStepKinds, ArmStepKinds
    <2> QED
      BY <1>1, <2>1, SpecStep
  <1>17. CASE go.at = "direct"
    <2>1. GoDirect(b) /\ AmdDirectBit(b) /\ ArmDirectBit(b)
      BY <1>1, <1>17, GoBitKinds, AmdStepKinds, ArmStepKinds
    <2> QED
      BY <1>1, <2>1, DirectStep
  <1>18. CASE go.at = "align"
    <2>1. GoAlign(b) /\ AmdAlignBit(b) /\ ArmAlignBit(b)
      BY <1>1, <1>18, GoBitKinds, AmdStepKinds, ArmStepKinds
    <2> QED
      BY <1>1, <2>1, AlignStep
  <1>19. go.at \in Kinds \ {"end"}
    BY <1>1, GoBitKinds
  <1> QED
    BY SMT, <1>2, <1>3, <1>4, <1>5, <1>6, <1>7, <1>8, <1>9, <1>10, <1>11, <1>12, <1>13, <1>14, <1>15,
       <1>16, <1>17, <1>18, <1>19 DEF Kinds

\* A symbol starts with what relates the engines.
LEMMA InitInv ==
  ASSUME Init
  PROVE  Inv
  <1>1. inp \in Inputs /\ GoInit /\ AmdInit /\ ArmInit
    BY DEF Init
  <1>2. /\ inp.state \in 0 .. 11 /\ posState \in Nat
        /\ (inp.processedPos % 2^inp.pb) * 32 = 2 * posState
        /\ And(inp.processedPos * 32, 32 * 2^inp.pb - 32) = 2 * posState
    BY <1>1, InputFacts, PosStates
  <1>3. /\ go.at = "isMatch" /\ go.base = probIsMatch + posState + inp.state /\ go.m = 0
        /\ go.offs = 0 /\ go.mbit = 0 /\ go.reps = <<1, 2, 3, 4>> /\ go.state = inp.state
        /\ go.last = None /\ GoFields
    BY SMT, <1>1 DEF GoInit, GoFields
  <1>4. amd = [at |-> "isMatch", probs |-> 0, st |-> inp.state * PMULT, pbPos |-> 2 * posState,
               state |-> inp.state * PMULT, sym |-> IF inp.first THEN 0 ELSE inp.prevByte,
               sym2 |-> 0, offs |-> 0, match |-> 0, len |-> 0,
               rep0 |-> 1, rep1 |-> 2, rep2 |-> 3, rep3 |-> 4,
               load |-> inp.state * PMULT + 2 * posState + AmdIsMatch * PMULT, store |-> None,
               label |-> EntryLabel(inp.state * PMULT), out |-> <<>>]
    BY Zenon, <1>1, <1>2 DEF AmdInit
  <1>5. /\ amd.at = "isMatch" /\ amd.probs = 0 /\ amd.st = inp.state * PMULT
        /\ amd.pbPos = 2 * posState /\ amd.state = inp.state * PMULT
        /\ amd.sym = (IF inp.first THEN 0 ELSE inp.prevByte)
        /\ amd.rep0 = 1 /\ amd.rep1 = 2 /\ amd.rep2 = 3 /\ amd.rep3 = 4
        /\ amd.load = inp.state * PMULT + 2 * posState + AmdIsMatch * PMULT
        /\ amd.store = None /\ amd.label = EntryLabel(amd.state) /\ AmdFields
    BY SMT, <1>4 DEF AmdFields
  <1>6. arm = [at |-> "isMatch", probs |-> 0, st |-> probs_IsMatch + inp.state * 2,
               pbPos |-> 2 * posState, state |-> inp.state * 2,
               sym |-> IF inp.first THEN 0 ELSE inp.prevByte, sym2 |-> 0,
               offs |-> 0, match |-> 0, len |-> 0, numBits |-> 0, reps |-> <<1, 2, 3, 4>>,
               load |-> probs_IsMatch + inp.state * 2 + 2 * posState, store |-> None,
               label |-> ArmEntryLabel(inp.state * 2), out |-> <<>>]
    BY Zenon, <1>1, <1>2 DEF ArmInit
  <1>7. /\ arm.at = "isMatch" /\ arm.st = probs_IsMatch + inp.state * 2
        /\ arm.pbPos = 2 * posState /\ arm.state = inp.state * 2
        /\ arm.sym = (IF inp.first THEN 0 ELSE inp.prevByte) /\ arm.reps = <<1, 2, 3, 4>>
        /\ arm.load = probs_IsMatch + inp.state * 2 + 2 * posState
        /\ arm.store = None /\ arm.label = ArmEntryLabel(arm.state) /\ ArmFields
    BY SMT, <1>6 DEF ArmFields
  <1>8. IsMatchInv
    BY SMT, <1>2, <1>3, <1>5, <1>7, Table, AmdTable, ArmTable
       DEF IsMatchInv, Single, Position, Unmoved, AmdUnmoved, States
  <1>9. Addresses(GoEntry, amd.load, arm.load)
    <2> DEFINE e == 1408 + posState + inp.state
    <2>1. e \in Nat /\ 2 * inp.state + 2 * posState - 512 = 2 * e - 3328
          /\ 2816 + inp.state * 2 + 2 * posState = 2 * e
      BY SMT, <1>2
    <2>2. GoEntry = e
      BY SMT, <1>2, <1>3, Table DEF GoEntry
    <2>3. amd.load = 2 * inp.state + 2 * posState - 512
      <3>1. AmdIsMatch * PMULT = -512 /\ inp.state * PMULT = 2 * inp.state
        BY SMT, <1>2, AmdTable
      <3> QED
        BY SMT, <1>2, <1>5, <3>1
    <2>4. arm.load = 2816 + inp.state * 2 + 2 * posState
      BY <1>7, ArmTable
    <2> HIDE DEF e
    <2>5. amd.load = AmdAddress(e) /\ arm.load = ArmAddress(e)
      BY SMT, <2>1, <2>3, <2>4, AmdTable DEF AmdAddress, ArmAddress
    <2> QED
      BY <2>1, <2>2, <2>5 DEF Addresses
  <1>10. Addresses(go.last, amd.store, arm.store)
    BY <1>3, <1>5, <1>7 DEF Addresses
  <1>11. KindInv
    BY SMT, <1>3, <1>8 DEF KindInv
  <1> QED
    BY SMT, <1>1, <1>3, <1>5, <1>7, <1>9, <1>10, <1>11 DEF Inv, Kinds

\* Nothing moves once the symbol is complete.
LEMMA Unchanged ==
  ASSUME Inv, UNCHANGED walkVars
  PROVE  Inv'
  <1>1. inp' = inp /\ go' = go /\ amd' = amd /\ arm' = arm
    BY DEF walkVars
  <1>2. inp \in Inputs /\ posState' = posState /\ LitBase' = LitBase /\ RepState' = RepState
    BY <1>1, Same DEF Inv
  <1>3. KindInv'
    BY <1>1, <1>2 DEF Inv, KindInv, Tree, Single, Position, States, Unmoved, AmdUnmoved, IsMatchInv,
                LiteralInv, MatchedInv, RepInv, IsRepInv, IsRepG0Inv, IsRep0LongInv, IsRepG1Inv,
                IsRepG2Inv, LengthInv, ChoiceInv, Choice2Inv, LowInv, MidInv, HighInv,
                DistanceInv, SlotInv, SpecInv, DirectInv, AlignInv, EndInv, Reps
  <1> QED
    BY <1>1, <1>2, <1>3 DEF Inv, GoFields, AmdFields, ArmFields, Addresses, GoEntry

\* What an address denotes is the entry it is the address of.
LEMMA AddressEntries ==
  ASSUME NEW e, NEW a, NEW r, Addresses(e, a, r)
  PROVE  AmdEntry(a) = e /\ ArmEntry(r) = e
  <1>1. CASE e = None /\ a = None /\ r = None
    BY <1>1 DEF AmdEntry, ArmEntry
  <1>2. CASE e \in Nat /\ a = AmdAddress(e) /\ r = ArmAddress(e)
    <2>1. a = 2 * e - 3328 /\ r = 2 * e
      BY SMT, <1>2, AmdTable DEF AmdAddress, ArmAddress
    <2>2. a # None /\ r # None /\ (a + 3328) \div 2 = e /\ r \div 2 = e
      BY SMT, <1>2, <2>1 DEF None
    <2>3. kStartOffset * PMULT = 3328 /\ PMULT = 2
      BY SMT, AmdTable
    <2> QED
      BY <2>2, <2>3 DEF AmdEntry, ArmEntry
  <1> QED
    BY <1>1, <1>2 DEF Addresses

\* What relates the engines makes them use the same entries.
LEMMA InvProbability ==
  ASSUME Inv
  PROVE  SameProbability
  BY AddressEntries DEF Inv, SameProbability

\* It makes them decode the same symbol.
LEMMA InvSymbol ==
  ASSUME Inv
  PROVE  SameSymbol
  <1>1. go.at = "end" => EndInv
    BY DEF Inv, KindInv
  <1> QED
    BY <1>1 DEF Inv, EndInv, States, SameSymbol

\* The parts of the table.
LEMMA Regions ==

  /\ Region("isMatch") = 1408 .. 1663
  /\ Region("isRep") = 1680 .. 1691
  /\ Region("isRepG0") = 1692 .. 1703
  /\ Region("isRepG1") = 1704 .. 1715
  /\ Region("isRepG2") = 1716 .. 1727
  /\ Region("isRep0Long") = 128 .. 383
  /\ Region("slot") = 1729 .. 1983
  /\ Region("spec") = 1 .. 127
  /\ Region("align") = 1665 .. 1679
  /\ Region("literal") = probLiteral .. numProbs - 1
  /\ Region("matched") = probLiteral .. numProbs - 1
  /\ Region("choice") = {c + lenChoice : c \in LenCoders}
  /\ Region("choice2") = {c + lenChoice2 : c \in LenCoders}
  /\ Region("low") = UNION {LowTree(c) : c \in LenCoders}
  /\ Region("mid") = UNION {MidTree(c) : c \in LenCoders}
  /\ Region("high") = UNION {c + lenHigh + 1 .. c + lenHigh + 255 : c \in LenCoders}
  /\ Region("direct") = {None} /\ Region("end") = {None}
  BY SMT, Table DEF Region

\* Every kind of decision keeps to its own part of the table.
LEMMA InvRegion ==
  ASSUME Inv
  PROVE  OwnRegion
  <1>1. inp \in Inputs /\ go.at \in Kinds
    BY DEF Inv
  <1>2. /\ inp.state \in 0 .. 11 /\ posState \in Nat /\ posState <= 240
    BY <1>1, InputFacts, PosStates
  <1>3. PICK p \in 0 .. 15 : posState = 16 * p
    BY <1>1, PosStates
  <1>4. CASE go.at = "isMatch"
    <2>1. IsMatchInv
      BY <1>4 DEF Inv, KindInv
    <2>3. go.base = 1408 + posState + inp.state /\ go.m = 0 /\ go.offs = 0 /\ go.mbit = 0
      BY <2>1, Table DEF IsMatchInv, Single
    <2>4. GoEntry = 1408 + posState + inp.state
      BY SMT, <1>2, <1>4, <2>3 DEF GoEntry
    <2>2. GoEntry \in 1408 .. 1663
      BY SMT, <1>2, <2>4
    <2>8. Region("isMatch") = 1408 .. 1663
      BY Regions
    <2> QED
      BY SMT, <1>4, <2>2, <2>8 DEF OwnRegion
  <1>5. CASE go.at = "isRep"
    <2>1. IsRepInv
      BY <1>5 DEF Inv, KindInv
    <2>3. go.base = 1680 + inp.state /\ go.m = 0 /\ go.offs = 0 /\ go.mbit = 0
      BY <2>1, Table DEF IsRepInv, Single
    <2>4. GoEntry = 1680 + inp.state
      BY SMT, <1>2, <1>5, <2>3 DEF GoEntry
    <2>2. GoEntry \in 1680 .. 1691
      BY SMT, <1>2, <2>4
    <2>8. Region("isRep") = 1680 .. 1691
      BY Regions
    <2> QED
      BY SMT, <1>5, <2>2, <2>8 DEF OwnRegion
  <1>6. CASE go.at = "isRepG0"
    <2>1. IsRepG0Inv
      BY <1>6 DEF Inv, KindInv
    <2>3. go.base = 1692 + inp.state /\ go.m = 0 /\ go.offs = 0 /\ go.mbit = 0
      BY <2>1, Table DEF IsRepG0Inv, Single
    <2>4. GoEntry = 1692 + inp.state
      BY SMT, <1>2, <1>6, <2>3 DEF GoEntry
    <2>2. GoEntry \in 1692 .. 1703
      BY SMT, <1>2, <2>4
    <2>8. Region("isRepG0") = 1692 .. 1703
      BY Regions
    <2> QED
      BY SMT, <1>6, <2>2, <2>8 DEF OwnRegion
  <1>7. CASE go.at = "isRepG1"
    <2>1. IsRepG1Inv
      BY <1>7 DEF Inv, KindInv
    <2>3. go.base = 1704 + inp.state /\ go.m = 0 /\ go.offs = 0 /\ go.mbit = 0
      BY <2>1, Table DEF IsRepG1Inv, Single
    <2>4. GoEntry = 1704 + inp.state
      BY SMT, <1>2, <1>7, <2>3 DEF GoEntry
    <2>2. GoEntry \in 1704 .. 1715
      BY SMT, <1>2, <2>4
    <2>8. Region("isRepG1") = 1704 .. 1715
      BY Regions
    <2> QED
      BY SMT, <1>7, <2>2, <2>8 DEF OwnRegion
  <1>8. CASE go.at = "isRepG2"
    <2>1. IsRepG2Inv
      BY <1>8 DEF Inv, KindInv
    <2>3. go.base = 1716 + inp.state /\ go.m = 0 /\ go.offs = 0 /\ go.mbit = 0
      BY <2>1, Table DEF IsRepG2Inv, Single
    <2>4. GoEntry = 1716 + inp.state
      BY SMT, <1>2, <1>8, <2>3 DEF GoEntry
    <2>2. GoEntry \in 1716 .. 1727
      BY SMT, <1>2, <2>4
    <2>8. Region("isRepG2") = 1716 .. 1727
      BY Regions
    <2> QED
      BY SMT, <1>8, <2>2, <2>8 DEF OwnRegion
  <1>9. CASE go.at = "isRep0Long"
    <2>1. IsRep0LongInv
      BY <1>9 DEF Inv, KindInv
    <2>3. go.base = 128 + posState + inp.state /\ go.m = 0 /\ go.offs = 0 /\ go.mbit = 0
      BY <2>1, Table DEF IsRep0LongInv, Single
    <2>4. GoEntry = 128 + posState + inp.state
      BY SMT, <1>2, <1>9, <2>3 DEF GoEntry
    <2>2. GoEntry \in 128 .. 383
      BY SMT, <1>2, <2>4
    <2>8. Region("isRep0Long") = 128 .. 383
      BY Regions
    <2> QED
      BY SMT, <1>9, <2>2, <2>8 DEF OwnRegion
  <1>10. CASE go.at = "literal"
    <2>1. LiteralInv
      BY <1>10 DEF Inv, KindInv
    <2>2. GoEntry \in probLiteral .. numProbs - 1
      <3>1. LitBase \in Nat /\ LitBase >= 1984 /\ LitBase + 768 <= numProbs /\ numProbs \in Nat
        BY <1>1, LiteralRoom
      <3>2. /\ go.base = LitBase /\ go.offs = 0 /\ go.mbit = 0 /\ go.m <= 255
            /\ go.m \in Nat /\ go.m >= 1
        BY <2>1 DEF LiteralInv, Tree
      <3>3. GoEntry = LitBase + go.m
        BY SMT, <1>10, <3>1, <3>2 DEF GoEntry
      <3> QED
        BY SMT, <3>1, <3>2, <3>3, Table
    <2>7. Region(go.at) = probLiteral .. numProbs - 1
      BY <1>10, Regions
    <2> QED
      BY Zenon, <2>2, <2>7 DEF OwnRegion
  <1>11. CASE go.at = "matched"
    <2>1. MatchedInv
      BY <1>11 DEF Inv, KindInv
    <2>2. GoEntry \in probLiteral .. numProbs - 1
      <3>1. go.offs \in {0, 256}
        <4>1. Compared(go.mbit, go.matchByte)
          BY SMT, <2>1, Compare DEF MatchedInv
        <4> QED
          BY <2>1, <4>1 DEF MatchedInv, Compared
      <3>2. LitBase \in Nat /\ LitBase >= 1984 /\ LitBase + 768 <= numProbs /\ numProbs \in Nat
        BY <1>1, LiteralRoom
      <3>3. GoEntry = LitBase + go.offs + go.mbit + go.m
        BY <1>11, <2>1 DEF GoEntry, MatchedInv
      <3>4. go.mbit \in {0, 256} /\ go.m \in 1 .. 255
        BY <2>1 DEF MatchedInv
      <3>5. /\ go.offs \in Nat /\ go.offs <= 256 /\ go.mbit \in Nat /\ go.mbit <= 256
            /\ go.m \in Nat /\ 1 <= go.m /\ go.m <= 255
        BY SMT, <3>1, <3>4
      <3>6. probLiteral = 1984
        BY Table
      <3> QED
        BY SMT, <3>2, <3>3, <3>5, <3>6
    <2>7. Region(go.at) = probLiteral .. numProbs - 1
      BY <1>11, Regions
    <2> QED
      BY Zenon, <2>2, <2>7 DEF OwnRegion
  <1>12. CASE go.at = "choice"
    <2>1. ChoiceInv
      BY <1>12 DEF Inv, KindInv
    <2>2. GoEntry = go.base + lenChoice /\ go.base \in LenCoders
      BY SMT, <1>12, <2>1, Table DEF GoEntry, ChoiceInv, Single, LenCoders
    <2> QED
      BY <1>12, <2>2, Regions DEF OwnRegion
  <1>13. CASE go.at = "choice2"
    <2>1. Choice2Inv
      BY <1>13 DEF Inv, KindInv
    <2>2. GoEntry = go.base + lenChoice2 /\ go.base \in LenCoders
      BY SMT, <1>13, <2>1, Table DEF GoEntry, Choice2Inv, Single, LenCoders
    <2> QED
      BY <1>13, <2>2, Regions DEF OwnRegion
  <1>14. CASE go.at = "low"
    <2>1. LowInv
      BY <1>14 DEF Inv, KindInv
    <2>2. PICK c \in LenCoders : go.base = c + posState
      BY <2>1 DEF LowInv
    <2>3. GoEntry = c + 16 * p + go.m /\ go.m \in 1 .. 7
      BY SMT, <1>3, <1>14, <2>1, <2>2 DEF GoEntry, LowInv, Tree, LenCoders
    <2>4. GoEntry \in LowTree(c)
      BY <1>3, <2>3 DEF LowTree
    <2> QED
      BY <1>14, <2>4, Regions DEF OwnRegion
  <1>15. CASE go.at = "mid"
    <2>1. MidInv
      BY <1>15 DEF Inv, KindInv
    <2>2. PICK c \in LenCoders : go.base = c + posState + 8
      BY <2>1 DEF MidInv
    <2>3. GoEntry = c + 16 * p + 8 + go.m /\ go.m \in 1 .. 7
      BY SMT, <1>3, <1>15, <2>1, <2>2 DEF GoEntry, MidInv, Tree, LenCoders
    <2>4. GoEntry \in MidTree(c)
      BY <1>3, <2>3 DEF MidTree
    <2> QED
      BY <1>15, <2>4, Regions DEF OwnRegion
  <1>16. CASE go.at = "high"
    <2>1. HighInv
      BY <1>16 DEF Inv, KindInv
    <2>2. PICK c \in LenCoders : go.base = c + lenHigh
      BY <2>1 DEF HighInv
    <2>3. GoEntry \in c + lenHigh + 1 .. c + lenHigh + 255
      BY SMT, <1>16, <2>1, <2>2, Table DEF GoEntry, HighInv, Tree, LenCoders
    <2> QED
      BY <1>16, <2>3, Regions DEF OwnRegion
  <1>17. CASE go.at = "slot"
    <2>1. SlotInv
      BY <1>17 DEF Inv, KindInv
    <2>2. /\ go.base \in {1728, 1792, 1856, 1920} /\ go.m \in Nat /\ go.m >= 1 /\ go.m < 64
          /\ go.offs = 0 /\ go.mbit = 0
      BY SMT, <2>1, Table DEF SlotInv, Tree
    <2>3. GoEntry \in 1729 .. 1983
      BY SMT, <1>17, <2>2 DEF GoEntry
    <2>8. Region("slot") = 1729 .. 1983
      BY Regions
    <2> QED
      BY SMT, <1>17, <2>3, <2>8 DEF OwnRegion
  <1>18. CASE go.at = "spec"
    <2>1. SpecInv
      BY <1>18 DEF Inv, KindInv
    <2>2. Roomy(go.m, go.w, go.n)
      BY SMT, <2>1, Rooms DEF SpecInv
    <2>3. go.m <= 127
      BY <2>1, <2>2 DEF Roomy, SpecInv
    <2>4. GoEntry \in 1 .. 127
      BY SMT, <1>18, <2>1, <2>3 DEF GoEntry, SpecInv
    <2>8. Region("spec") = 1 .. 127
      BY Regions
    <2> QED
      BY SMT, <1>18, <2>4, <2>8 DEF OwnRegion
  <1>19. CASE go.at = "align"
    <2>1. AlignInv
      BY <1>19 DEF Inv, KindInv
    <2>2. /\ go.base = 1664 /\ go.w \in {1, 2, 4, 8} /\ go.m \in go.w .. 2 * go.w - 1
          /\ go.offs = 0 /\ go.mbit = 0
      BY <2>1, Table DEF AlignInv
    <2>3. GoEntry \in 1665 .. 1679
      <3>1. go.w \in Nat /\ go.w >= 1 /\ go.w <= 8
        BY SMT, <2>2
      <3>2. go.m \in Nat /\ go.m >= 1 /\ go.m <= 15
        BY SMT, <2>2, <3>1
      <3> QED
        BY SMT, <1>19, <2>2, <3>2 DEF GoEntry
    <2>8. Region("align") = 1665 .. 1679
      BY Regions
    <2> QED
      BY SMT, <1>19, <2>3, <2>8 DEF OwnRegion
  <1>20. CASE go.at \in {"direct", "end"}
    <2>1. GoEntry = None
      BY <1>20 DEF GoEntry
    <2> QED
      BY <1>20, <2>1, Regions DEF OwnRegion
  <1> QED
    BY SMT, <1>1, <1>4, <1>5, <1>6, <1>7, <1>8, <1>9, <1>10, <1>11, <1>12, <1>13, <1>14, <1>15, <1>16,
       <1>17, <1>18, <1>19, <1>20 DEF Kinds

----------------------------------------------------------------------------
\* What relates the engines holds from the first bit of a symbol to its end.
THEOREM Related == Spec => []Inv
  <1>1. Init => Inv
    BY InitInv
  <1>2. Inv /\ [Next]_walkVars => Inv'
    <2> SUFFICES ASSUME Inv, [Next]_walkVars
                 PROVE  Inv'
      OBVIOUS
    <2>1. CASE \E b \in {0, 1} : Decision(b)
      BY <2>1, DecisionStep
    <2>2. CASE UNCHANGED walkVars
      BY <2>2, Unchanged
    <2> QED
      BY <2>1, <2>2 DEF Next, Complete
  <1> QED
    BY <1>1, <1>2, PTL DEF Spec

\* For every input and whatever the bits are, the three engines load the
\* same entry of the table for every decision, and store back to it: the
\* table means the same to each of them when another one takes over.
THEOREM WalksSameProbability == Spec => []SameProbability
  BY Related, InvProbability, PTL

\* For every input and whatever the bits are, the three engines take the same
\* decisions and agree on the symbol, on the state, and on where the loop
\* goes on.
THEOREM WalksSameSymbol == Spec => []SameSymbol
  BY Related, InvSymbol, PTL

\* For every input, no decision uses an entry that another kind of decision
\* uses, nor one outside the table.
THEOREM WalksOwnRegion == Spec => []OwnRegion
  BY Related, InvRegion, PTL

----------------------------------------------------------------------------
(* A step of an engine has guards besides the kind of its decision, which  *)
(* come in pairs that exclude each other but for those below: the assembly *)
(* dispatches on a label, on a slot, and on the bit of a distance.         *)

Dispatched ==
  /\ go.at = "isMatch" => /\ amd.label \in {"lit_end", "lit_matched_end", "lz_end"}
                          /\ arm.label \in {"lit_end", "lit_matched_end", "lz_end"}
  /\ go.at = "slot" => amd.sym \in 1 .. 63 /\ arm.sym \in 1 .. 63
  /\ go.at = "align" => amd.pbPos \in {1, 2, 4, 8}

\* What the invariant says of labels, slots and bits.
LEMMA InvDispatched ==
  ASSUME Inv
  PROVE  Dispatched
  <1>1. CASE go.at = "isMatch"
    <2>1. amd.label = EntryLabel(amd.state) /\ arm.label = ArmEntryLabel(arm.state)
      BY <1>1 DEF Inv, KindInv, IsMatchInv
    <2> QED
      BY <1>1, <2>1 DEF Dispatched, EntryLabel, ArmEntryLabel
  <1>2. CASE go.at = "slot"
    <2>1. amd.sym = go.m /\ arm.sym = go.m /\ go.m \in Nat /\ go.m >= 1 /\ go.m < 64
      BY <1>2 DEF Inv, KindInv, SlotInv, Tree
    <2>2. go.m \in 1 .. 63
      BY SMT, <2>1
    <2> QED
      BY <1>2, <2>1, <2>2 DEF Dispatched
  <1>3. CASE go.at = "align"
    <2>1. amd.pbPos = go.w /\ go.w \in {1, 2, 4, 8}
      BY <1>3 DEF Inv, KindInv, AlignInv
    <2> QED
      BY <1>3, <2>1 DEF Dispatched
  <1> QED
    BY <1>1, <1>2, <1>3 DEF Dispatched

\* For every input and whatever the bits are, the three engines wait for the
\* same kind of decision until the symbol is complete, and no dispatch of the
\* assembly meets a label, a slot or a bit that it has no branch for.
THEOREM WalksDispatched == Spec => [](SameSymbol /\ Dispatched)
  <1>1. Inv => SameSymbol /\ Dispatched
    BY InvSymbol, InvDispatched
  <1> QED
    BY <1>1, Related, PTL
=============================================================================
