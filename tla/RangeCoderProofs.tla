-------------------------- MODULE RangeCoderProofs --------------------------
(***************************************************************************)
(* Proofs about the range coder, for every word and every width of the     *)
(* probabilities that satisfies CoderAssumption; the program's values do.  *)
(* The invariant is inductive as the conjunction of three properties of    *)
(* the runs: each of them needs the bounds that the other two give.        *)
(* The second part is about the direct bits of a distance, for every       *)
(* number of bits in a byte and every number of direct bits.               *)
(***************************************************************************)
EXTENDS DirectBits, TLAPS

CoderInv == RangeNeverEmpty /\ OneByteSuffices /\ CodeBelowRange

----------------------------------------------------------------------------
(* Arithmetic. *)

LEMMA ConstantTypes ==
  /\ Total \in Nat /\ Move \in Nat /\ Top \in Nat /\ Byte \in Nat
  /\ Move > 1 /\ 2 * Move <= Total /\ Total <= Top /\ Byte > 3
  BY CoderAssumption

\* Division with remainder.
LEMMA DivMod ==
  ASSUME NEW x \in Int, NEW m \in Nat, m > 0
  PROVE  /\ x \div m \in Int /\ x % m \in 0 .. m - 1
         /\ x = m * (x \div m) + (x % m)
  BY SMT

\* Quotient and remainder are unique.
LEMMA DivUnique ==
  ASSUME NEW x \in Int, NEW m \in Nat, m > 0,
         NEW d \in Int, NEW k \in 0 .. m - 1, x = m * d + k
  PROVE  x \div m = d /\ x % m = k
  BY SMTT(30)

\* Multiplication is monotone.
LEMMA Mono ==
  ASSUME NEW a \in Nat, NEW b \in Nat, NEW c \in Nat, a <= b
  PROVE  a * c <= b * c /\ c * a <= c * b
  BY SMT

\* The same products, written the way the next lemmas need them.
LEMMA Products ==
  ASSUME NEW m \in Int, NEW d \in Int
  PROVE  /\ m * (0 - d) = 0 - m * d
         /\ (m - 1) * d = m * d - d
  BY SMT

\* The assembly's arithmetic shift of a negative difference rounds to the
\* same value as the shift of decodeBit: floor((Move-1-x)/Move) = -(x div Move).
LEMMA NegatedShift ==
  ASSUME NEW x \in Nat
  PROVE  (Move - 1 - x) \div Move = 0 - (x \div Move)
<1>1. /\ x \div Move \in Int /\ x % Move \in 0 .. Move - 1
      /\ x = Move * (x \div Move) + (x % Move)
  BY DivMod, ConstantTypes
<1>2. PICK d \in Int, k \in 0 .. Move - 1 :
        d = x \div Move /\ x = Move * d + k
  BY <1>1
<1>3. Move - 1 - x = Move * (0 - d) + (Move - 1 - k)
  BY <1>2, Products, ConstantTypes
<1>4. (Move - 1 - x) \div Move = 0 - d
  BY <1>2, <1>3, DivUnique, ConstantTypes
<1>5. QED
  BY <1>2, <1>4

\* A probability, or its complement, that is at least Move - 1 stays so when
\* a share of 1 / Move is taken away.
LEMMA Shrink ==
  ASSUME NEW x \in Nat, x >= Move - 1
  PROVE  /\ x \div Move \in Nat
         /\ x - (x \div Move) >= Move - 1 /\ x - (x \div Move) <= x
<1>1. /\ x \div Move \in Int /\ x % Move \in 0 .. Move - 1
      /\ x = Move * (x \div Move) + (x % Move)
  BY DivMod, ConstantTypes
<1>2. PICK d \in Int, k \in 0 .. Move - 1 :
        d = x \div Move /\ x = Move * d + k
  BY <1>1
<1>3. d \in Nat
  BY <1>2, ConstantTypes
<1>4. CASE d = 0
  BY <1>2, <1>4, ConstantTypes
<1>5. CASE d >= 1
  <2>1. (Move - 1) * d = Move * d - d
    BY <1>2, Products, ConstantTypes
  <2>2. (Move - 1) * 1 <= (Move - 1) * d
    BY <1>3, <1>5, Mono, ConstantTypes
  <2>3. x - d = (Move * d - d) + k
    BY <1>2, ConstantTypes
  <2>4. QED
    BY <1>2, <1>3, <2>1, <2>2, <2>3, ConstantTypes
<1>6. QED
  BY <1>3, <1>4, <1>5

LEMMA WordFacts ==
  /\ Word \in Nat /\ Word > 3 /\ Top < Word
  /\ Word % Byte = 0
<1>1. Top > 3 /\ Top * 3 <= Top * Byte
  BY Mono, ConstantTypes
<1>2. Word = Byte * Top + 0 /\ Top \in Int /\ 0 \in 0 .. Byte - 1
  BY ConstantTypes DEF Word
<1>3. Word \in Int /\ Word % Byte = 0
  BY <1>2, DivUnique, ConstantTypes
<1>4. QED
  BY <1>1, <1>3, ConstantTypes DEF Word

----------------------------------------------------------------------------
(* Arithmetic modulo the word. *)

LEMMA ModStays ==
  ASSUME NEW x \in 0 .. Word - 1
  PROVE  x % Word = x
<1>1. x = Word * 0 + x
  BY WordFacts
<1>2. QED
  BY <1>1, WordFacts, DivUnique

LEMMA SubFacts ==
  ASSUME NEW a \in 0 .. Word - 1, NEW b \in 0 .. Word - 1
  PROVE  /\ Sub(a, b) \in 0 .. Word - 1
         /\ b <= a => Sub(a, b) = a - b
<1>1. Sub(a, b) \in 0 .. Word - 1
  BY DivMod, WordFacts DEF Sub
<1>2. b <= a => Sub(a, b) = a - b
  BY ModStays, WordFacts DEF Sub
<1>3. QED
  BY <1>1, <1>2

\* Shifting a value below Top by a byte leaves room for the byte.
LEMMA ShiftBelowTop ==
  ASSUME NEW x \in 0 .. Top - 1
  PROVE  /\ x * Byte \in Nat
         /\ x * Byte <= Word - Byte /\ (x * Byte) % Word = x * Byte
<1>1. x * Byte \in Nat /\ x * Byte <= (Top - 1) * Byte
  BY Mono, ConstantTypes
<1>2. (Top - 1) * Byte = Word - Byte
  BY ConstantTypes, Products DEF Word
<1>3. x * Byte \in 0 .. Word - 1
  BY <1>1, <1>2, WordFacts, ConstantTypes
<1>4. QED
  BY <1>1, <1>2, <1>3, ModStays

\* So does shifting any word, since the top byte is lost.
LEMMA ShiftWord ==
  ASSUME NEW x \in 0 .. Word - 1, NEW b \in 0 .. Byte - 1
  PROVE  ((x * Byte) % Word) + b \in 0 .. Word - 1
<1>1. /\ (x * Byte) \div Word \in Int /\ (x * Byte) % Word \in 0 .. Word - 1
      /\ x * Byte = Word * ((x * Byte) \div Word) + ((x * Byte) % Word)
  BY DivMod, WordFacts, ConstantTypes
<1>2. PICK q \in Int, k \in 0 .. Word - 1 :
        k = (x * Byte) % Word /\ x * Byte = Word * q + k
  BY <1>1
<1>3. PICK y \in Int : y = x - Top * q
  BY ConstantTypes, WordFacts
<1>4. k = Byte * y
  <2>1. Byte * (x - Top * q) = Byte * x - (Top * Byte) * q
    BY ConstantTypes, WordFacts
  <2>2. QED
    BY <1>2, <1>3, <2>1, ConstantTypes, WordFacts DEF Word
<1>5. y <= Top - 1
  <2>1. SUFFICES ASSUME y >= Top PROVE FALSE
    BY <1>3, ConstantTypes
  <2>2. Byte * Top <= Byte * y
    BY <1>3, <2>1, Mono, ConstantTypes
  <2>3. QED
    BY <1>2, <1>4, <2>2, ConstantTypes, WordFacts DEF Word
<1>6. Byte * y <= Byte * (Top - 1)
  <2>1. CASE y >= 0
    BY <1>3, <1>5, <2>1, Mono, ConstantTypes
  <2>2. CASE y < 0
    BY <1>2, <1>3, <1>4, <2>2, ConstantTypes
  <2>3. QED
    BY <1>3, <2>1, <2>2
<1>7. Byte * (Top - 1) = Word - Byte
  BY ConstantTypes, Products DEF Word
<1>8. k <= Word - Byte
  BY <1>4, <1>6, <1>7, WordFacts
<1>9. QED
  BY <1>2, <1>8, ConstantTypes, WordFacts

----------------------------------------------------------------------------
(* What a decision finds after at most one byte. *)

LEMMA NormalisedRange ==
  ASSUME RangeNeverEmpty, OneByteSuffices
  PROVE  NormRng \in Top .. Word - 1
<1>1. CASE rng < Top
  <2>1. (rng * Byte) % Word = rng * Byte /\ rng * Byte <= Word - Byte
    BY <1>1, ShiftBelowTop, ConstantTypes, WordFacts DEF RangeNeverEmpty
  <2>2. QED
    BY <1>1, <2>1, ConstantTypes, WordFacts DEF NormRng, RangeNeverEmpty, OneByteSuffices
<1>2. CASE ~(rng < Top)
  BY <1>2, ConstantTypes, WordFacts DEF NormRng, RangeNeverEmpty
<1>3. QED
  BY <1>1, <1>2

LEMMA NormalisedCode ==
  ASSUME RangeNeverEmpty, OneByteSuffices, CodeBelowRange, NEW b \in 0 .. Byte - 1
  PROVE  /\ NormCode(b) \in 0 .. Word - 1
         /\ legal => NormCode(b) < NormRng
<1>1. NormCode(b) \in 0 .. Word - 1
  BY ShiftWord DEF NormCode, RangeNeverEmpty
<1>2. ASSUME legal PROVE NormCode(b) < NormRng
  <2>1. code < rng
    BY <1>2 DEF CodeBelowRange
  <2>2. CASE rng < Top
    <3>1. /\ (rng * Byte) % Word = rng * Byte /\ (code * Byte) % Word = code * Byte
          /\ rng * Byte \in Nat /\ code * Byte \in Nat
      BY <2>1, <2>2, ShiftBelowTop, ConstantTypes, WordFacts DEF RangeNeverEmpty
    <3>2. code * Byte <= (rng - 1) * Byte
      BY <2>1, Mono, ConstantTypes, WordFacts DEF RangeNeverEmpty
    <3>3. (rng - 1) * Byte = rng * Byte - Byte
      BY ConstantTypes, WordFacts, Products DEF RangeNeverEmpty
    <3>4. code * Byte + b < rng * Byte
      BY <3>1, <3>2, <3>3, ConstantTypes
    <3>5. QED
      BY <2>2, <3>1, <3>4 DEF NormCode, NormRng
  <2>3. CASE ~(rng < Top)
    BY <2>1, <2>3 DEF NormCode, NormRng
  <2>4. QED
    BY <2>2, <2>3
<1>3. QED
  BY <1>1, <1>2

----------------------------------------------------------------------------
(* One decision. *)

\* The part of the range that a probability gets is neither empty nor all of
\* it, and each part is large enough that one byte normalises it.
LEMMA Split ==
  ASSUME NEW r \in Top .. Word - 1, NEW p \in Move - 1 .. Total - Move + 1
  PROVE  LET bound == (r \div Total) * p
         IN  /\ bound \in 1 .. r - 1
             /\ bound * Byte >= Top /\ (r - bound) * Byte >= Top
<1>1. PICK q \in Int, k \in 0 .. Total - 1 :
        q = r \div Total /\ r = Total * q + k
  BY DivMod, ConstantTypes, WordFacts
<1>2. PICK q0 \in Int, k0 \in 0 .. Total - 1 :
        q0 = Top \div Total /\ Top = Total * q0 + k0
  BY DivMod, ConstantTypes
<1>3. q >= q0 /\ q0 >= 1
  <2>1. ASSUME q0 < 1 PROVE FALSE
    <3>1. Total * q0 <= 0
      BY <1>2, <2>1, ConstantTypes
    <3>2. QED
      BY <1>2, <3>1, ConstantTypes
  <2>2. ASSUME q < q0 PROVE FALSE
    <3>1. Total * q <= Total * (q0 - 1)
      BY <1>1, <1>2, <2>2, ConstantTypes
    <3>2. Total * (q0 - 1) = Total * q0 - Total
      BY <1>2, ConstantTypes
    <3>3. r < Top
      <4>1. PICK u \in Int, v \in Int : u = Total * q /\ v = Total * q0
        BY <1>1, <1>2, ConstantTypes
      <4>2. QED
        BY <1>1, <1>2, <3>1, <3>2, <4>1, ConstantTypes
    <3>4. QED
      BY <3>3, ConstantTypes, WordFacts
  <2>3. QED
    BY <1>1, <1>2, <2>1, <2>2
<1>4. /\ q \in Nat /\ q0 \in Nat /\ p \in Nat /\ Total - p \in Nat
      /\ Move - 1 \in Nat /\ Move - 1 <= p /\ Move - 1 <= Total - p
  BY <1>1, <1>2, <1>3, ConstantTypes
<1>5. q0 * (Move - 1) * Byte >= Top
  BY <1>2, CoderAssumption
<1>6. ASSUME NEW x \in Nat, Move - 1 <= x
      PROVE  q * x \in Nat /\ q * x >= 1 /\ (q * x) * Byte >= Top
  <2>1. q0 * (Move - 1) \in Nat /\ q * (Move - 1) \in Nat /\ q * x \in Nat
    BY <1>4, <1>6
  <2>2. q0 * (Move - 1) <= q * (Move - 1)
    BY <1>3, <1>4, Mono
  <2>3. q * (Move - 1) <= q * x
    BY <1>4, <1>6, Mono
  <2>4. q0 * (Move - 1) <= q * x
    BY <2>1, <2>2, <2>3
  <2>5. q0 * (Move - 1) * Byte <= (q * x) * Byte
    BY <2>1, <2>4, Mono, ConstantTypes
  <2>6. q * x >= 1
    <3>1. 1 * 1 <= q * 1 /\ q * 1 <= q * x
      BY <1>3, <1>4, <1>6, Mono, ConstantTypes
    <3>2. QED
      BY <2>1, <3>1, <1>4
  <2>7. PICK z \in Nat : z = (q * x) * Byte
    BY <2>1, ConstantTypes
  <2>8. PICK w \in Nat : w = q0 * (Move - 1) * Byte
    BY <2>1, ConstantTypes
  <2>9. QED
    BY <2>1, <2>5, <2>6, <2>7, <2>8, <1>5, ConstantTypes
<1>7. /\ q * p \in Nat /\ q * p >= 1 /\ (q * p) * Byte >= Top
      /\ q * (Total - p) \in Nat /\ q * (Total - p) >= 1
      /\ (q * (Total - p)) * Byte >= Top
  BY <1>4, <1>6
<1>8. q * (Total - p) = Total * q - q * p
  BY <1>4, ConstantTypes
<1>9. PICK u \in Nat, v \in Nat : u = q * p /\ v = q * (Total - p)
  BY <1>7
<1>10. r - u = v + k
  <2>1. PICK t \in Int : t = Total * q
    BY <1>4, ConstantTypes
  <2>2. QED
    BY <1>1, <1>8, <1>9, <2>1, ConstantTypes, WordFacts
<1>11. (r - u) * Byte >= Top
  <2>1. v * Byte <= (v + k) * Byte
    BY <1>9, <1>1, Mono, ConstantTypes
  <2>2. PICK a \in Nat, c \in Nat : a = v * Byte /\ c = (v + k) * Byte
    BY <1>9, <1>1, ConstantTypes
  <2>3. a >= Top
    BY <1>7, <1>9, <2>2
  <2>4. QED
    BY <1>10, <2>1, <2>2, <2>3, ConstantTypes
<1>12. u \in 1 .. r - 1 /\ u * Byte >= Top
  BY <1>1, <1>7, <1>9, <1>10, ConstantTypes, WordFacts
<1>13. QED
  BY <1>1, <1>9, <1>11, <1>12

\* A probability stays in its interval whichever bit it predicts.
LEMMA ProbStays ==
  ASSUME NEW p \in Move - 1 .. Total - Move + 1
  PROVE  /\ p + ((Total - p) \div Move) \in Move - 1 .. Total - Move + 1
         /\ p - (p \div Move) \in Move - 1 .. Total - Move + 1
<1>1. PICK x \in Nat : x = Total - p /\ x >= Move - 1
  BY ConstantTypes
<1>2. /\ x \div Move \in Nat
      /\ x - (x \div Move) >= Move - 1 /\ x - (x \div Move) <= x
  BY <1>1, Shrink
<1>3. /\ p \in Nat /\ p \div Move \in Nat
      /\ p - (p \div Move) >= Move - 1 /\ p - (p \div Move) <= p
  BY Shrink, ConstantTypes
<1>4. QED
  BY <1>1, <1>2, <1>3, ConstantTypes

\* What decodeBit leaves behind.
LEMMA DecodeFacts ==
  ASSUME NEW r \in Top .. Word - 1, NEW c \in 0 .. Word - 1,
         NEW p \in Move - 1 .. Total - Move + 1
  PROVE  LET d == GoDecode(r, c, p)
         IN  /\ d.rng \in 1 .. Word - 1 /\ d.rng * Byte >= Top
             /\ d.code \in 0 .. Word - 1 /\ (c < r => d.code < d.rng)
             /\ d.prob \in Move - 1 .. Total - Move + 1
<1> DEFINE bound == (r \div Total) * p
<1>1. bound \in 1 .. r - 1 /\ bound * Byte >= Top /\ (r - bound) * Byte >= Top
  BY Split
<1> HIDE DEF bound
<1>2. r \in 0 .. Word - 1 /\ bound \in 0 .. Word - 1
  BY <1>1, ConstantTypes, WordFacts
<1>3. CASE c < bound
  <2>1. GoDecode(r, c, p) = [bit |-> 0, rng |-> bound, code |-> c,
                             prob |-> p + ((Total - p) \div Move)]
    BY <1>3 DEF GoDecode, bound
  <2>2. QED
    BY <1>1, <1>2, <1>3, <2>1, ProbStays, WordFacts
<1>4. CASE ~(c < bound)
  <2>1. GoDecode(r, c, p) = [bit |-> 1, rng |-> Sub(r, bound),
                             code |-> Sub(c, bound), prob |-> p - (p \div Move)]
    BY <1>4 DEF GoDecode, bound
  <2>2. Sub(r, bound) = r - bound /\ Sub(c, bound) = c - bound
    BY <1>1, <1>2, <1>4, SubFacts, WordFacts
  <2>3. r - bound \in 1 .. Word - 1 /\ c - bound \in 0 .. Word - 1
    BY <1>1, <1>2, <1>4, WordFacts
  <2>4. c < r => c - bound < r - bound
    BY <1>2, WordFacts
  <2>5. QED
    BY <1>1, <2>1, <2>2, <2>3, <2>4, ProbStays
<1>5. QED
  BY <1>3, <1>4

\* A normalised range needs no byte, and one more does no harm.
LEMMA LargeEnough ==
  ASSUME NEW x \in Top .. Word - 1
  PROVE  x * Byte >= Top
<1>1. x \in Nat /\ x >= Top
  BY ConstantTypes, WordFacts
<1>2. x * 1 <= x * Byte
  BY <1>1, Mono, ConstantTypes
<1>3. x * 1 = x /\ x * Byte \in Nat
  BY <1>1, ConstantTypes
<1>4. QED
  BY <1>1, <1>2, <1>3, ConstantTypes

\* Half of a normalised range.
LEMMA HalfFacts ==
  ASSUME NEW r \in Top .. Word - 1
  PROVE  r \div 2 \in 1 .. Word - 1 /\ (r \div 2) * Byte >= Top
<1>1. PICK h \in Nat : h = r \div 2 /\ 2 * h >= r - 1 /\ 2 * h <= r
  BY ConstantTypes, WordFacts
<1>2. h * 4 <= h * Byte
  BY <1>1, Mono, ConstantTypes
<1>3. h * 4 >= Top /\ h >= 1
  BY <1>1, ConstantTypes, WordFacts
<1>4. h * Byte \in Nat
  BY <1>1, ConstantTypes
<1>5. QED
  BY <1>1, <1>2, <1>3, <1>4, ConstantTypes, WordFacts

\* Adding the half back undoes its subtraction, wrapped or not.
LEMMA AddBack ==
  ASSUME NEW c \in 0 .. Word - 1, NEW h \in 0 .. Word - 1
  PROVE  Add(Sub(c, h), h) = c
<1>1. /\ (c - h) \div Word \in Int /\ (c - h) % Word \in 0 .. Word - 1
      /\ c - h = Word * ((c - h) \div Word) + ((c - h) % Word)
  BY DivMod, WordFacts
<1>2. PICK q \in Int, k \in 0 .. Word - 1 :
        k = (c - h) % Word /\ c - h = Word * q + k
  BY <1>1
<1>3. Word * (0 - q) = 0 - Word * q
  BY <1>2, Products, WordFacts
<1>4. k + h = Word * (0 - q) + c
  <2>1. PICK w \in Int : w = Word * q
    BY <1>2, WordFacts
  <2>2. QED
    BY <1>2, <1>3, <2>1, WordFacts, SMTT(30)
<1>5. (k + h) % Word = c
  BY <1>2, <1>4, DivUnique, WordFacts
<1>6. QED
  BY <1>2, <1>5 DEF Add, Sub

LEMMA SameDirectBit ==
  ASSUME NEW r \in Top .. Word - 1, NEW c \in 0 .. Word - 1
  PROVE  /\ AsmDirectBit(r, c) = GoDirectBit(r, c)
         /\ GoDirectBit(r, c).rng \in 1 .. Word - 1
         /\ GoDirectBit(r, c).rng * Byte >= Top
         /\ GoDirectBit(r, c).code \in 0 .. Word - 1
<1> DEFINE half == r \div 2
           diff == Sub(c, half)
<1>1. half \in 1 .. Word - 1 /\ half * Byte >= Top
  BY HalfFacts
<1>2. diff \in 0 .. Word - 1 /\ Add(diff, half) = c
  BY <1>1, SubFacts, AddBack, WordFacts
<1>3. Add(Word - 1, 1) = 0 /\ Add(0, 1) = 1
  <2>1. Word = Word * 1 + 0 /\ 1 = Word * 0 + 1
    BY WordFacts
  <2>2. Word % Word = 0 /\ 1 % Word = 1
    BY <2>1, DivUnique, WordFacts
  <2>3. QED
    BY <2>2, WordFacts DEF Add
<1>4. Word - 1 # 0
  BY WordFacts
<1> HIDE DEF half, diff
<1>5. CASE Negative(diff)
  <2>1. GoDirectBit(r, c) = [bit |-> 0, rng |-> half, code |-> c]
    BY <1>2, <1>3, <1>4, <1>5 DEF GoDirectBit, half, diff
  <2>2. AsmDirectBit(r, c) = [bit |-> 0, rng |-> half, code |-> c]
    BY <1>5 DEF AsmDirectBit, half, diff
  <2>3. QED
    BY <1>1, <2>1, <2>2
<1>6. CASE ~Negative(diff)
  <2>1. GoDirectBit(r, c) = [bit |-> 1, rng |-> half, code |-> diff]
    BY <1>3, <1>6 DEF GoDirectBit, half, diff
  <2>2. AsmDirectBit(r, c) = [bit |-> 1, rng |-> half, code |-> diff]
    BY <1>6 DEF AsmDirectBit, half, diff
  <2>3. QED
    BY <1>1, <1>2, <2>1, <2>2
<1>7. QED
  BY <1>5, <1>6

\* The branchless forms of the assembly, and its branches.
LEMMA SameDecode ==
  ASSUME NEW r \in Top .. Word - 1, NEW c \in 0 .. Word - 1,
         NEW p \in Move - 1 .. Total - Move + 1
  PROVE  /\ AmdBranchDecode(r, c, p) = GoDecode(r, c, p)
         /\ AmdDecode(r, c, p) = GoDecode(r, c, p)
         /\ ArmDecode(r, c, p) = GoDecode(r, c, p)
<1>1. PICK x \in Nat : x = Total - p
  BY ConstantTypes
<1>2. PICK d \in Int : d = x \div Move
  BY <1>1, DivMod, ConstantTypes
<1>3. (Move - 1 - x) \div Move = 0 - d
  BY <1>1, <1>2, NegatedShift
<1>4. p - (Total - Move + 1) = Move - 1 - x
  BY <1>1, ConstantTypes
<1>5. /\ p - ((p - (Total - Move + 1)) \div Move) = p + ((Total - p) \div Move)
      /\ ((Total - p) \div Move) + p = p + ((Total - p) \div Move)
  BY <1>1, <1>2, <1>3, <1>4, ConstantTypes
<1>6. PICK e \in Int : e = p \div Move /\ p \in Nat
  BY DivMod, ConstantTypes
<1>7. p + ((Move - 1 - p) \div Move) = p - (p \div Move)
  <2>1. (Move - 1 - p) \div Move = 0 - e
    BY <1>6, NegatedShift
  <2>2. p + (0 - e) = p - e
    BY <1>6
  <2>3. QED
    BY <1>6, <2>1, <2>2
<1>8. CASE c < (r \div Total) * p
  BY <1>5, <1>8 DEF GoDecode, AmdBranchDecode, AmdDecode, ArmDecode
<1>9. CASE ~(c < (r \div Total) * p)
  BY <1>7, <1>9 DEF GoDecode, AmdBranchDecode, AmdDecode, ArmDecode
<1>10. QED
  BY <1>8, <1>9

----------------------------------------------------------------------------
(* The theorems. *)

LEMMA InitInv == Init => CoderInv
<1> SUFFICES ASSUME Init PROVE CoderInv
  OBVIOUS
<1>1. Total \div 2 \in Move - 1 .. Total - Move + 1
  BY ConstantTypes
<1>2. RangeNeverEmpty
  BY <1>1, WordFacts DEF Init, RangeNeverEmpty
<1>3. OneByteSuffices
  <2>1. (Word - 1) * 1 <= (Word - 1) * Byte
    BY Mono, ConstantTypes, WordFacts
  <2>2. QED
    BY <2>1, ConstantTypes, WordFacts DEF Init, OneByteSuffices
<1>4. QED
  BY <1>2, <1>3 DEF Init, CoderInv, CodeBelowRange

\* The byte that may be shifted in is a byte.
LEMMA BytesAreBytes == Bytes \subseteq 0 .. Byte - 1
  BY ConstantTypes DEF Bytes

LEMMA NextInv == CoderInv /\ [Next]_coderVars => CoderInv'
<1> SUFFICES ASSUME CoderInv, [Next]_coderVars PROVE CoderInv'
  OBVIOUS
<1> USE DEF CoderInv
<1>1. NormRng \in Top .. Word - 1
  BY NormalisedRange
<1>2. ASSUME NEW b \in Bytes
      PROVE  NormCode(b) \in 0 .. Word - 1 /\ (legal => NormCode(b) < NormRng)
  BY NormalisedCode, BytesAreBytes
<1>3. CASE DecodeBit
  <2>1. PICK b \in Bytes :
          LET d == GoDecode(NormRng, NormCode(b), prob)
          IN  rng' = d.rng /\ code' = d.code /\ prob' = d.prob
    BY <1>3 DEF DecodeBit
  <2>2. legal' = legal
    BY <1>3 DEF DecodeBit
  <2>3. /\ rng' \in 1 .. Word - 1 /\ rng' * Byte >= Top
        /\ code' \in 0 .. Word - 1 /\ (NormCode(b) < NormRng => code' < rng')
        /\ prob' \in Move - 1 .. Total - Move + 1
    BY <1>1, <1>2, <2>1, DecodeFacts DEF RangeNeverEmpty
  <2>4. QED
    BY <1>2, <2>2, <2>3 DEF RangeNeverEmpty, OneByteSuffices, CodeBelowRange
<1>4. CASE DirectBit
  <2>1. PICK b \in Bytes :
          LET d == GoDirectBit(NormRng, NormCode(b))
          IN  rng' = d.rng /\ code' = d.code
    BY <1>4 DEF DirectBit
  <2>2. legal' = (legal /\ code' < rng') /\ prob' = prob
    BY <1>4 DEF DirectBit
  <2>3. /\ rng' \in 1 .. Word - 1 /\ rng' * Byte >= Top
        /\ code' \in 0 .. Word - 1
    BY <1>1, <1>2, <2>1, SameDirectBit
  <2>4. QED
    BY <2>2, <2>3 DEF RangeNeverEmpty, OneByteSuffices, CodeBelowRange
<1>5. CASE Fin
  <2>1. PICK b \in Bytes : rng' = NormRng /\ code' = NormCode(b)
    BY <1>5 DEF Fin
  <2>2. legal' = legal /\ prob' = prob
    BY <1>5 DEF Fin
  <2>3. PICK x \in Top .. Word - 1 : x = rng'
    BY <1>1, <2>1
  <2>4. rng' \in 1 .. Word - 1
    BY <2>3, ConstantTypes, WordFacts
  <2>5. rng' * Byte >= Top
    BY <2>3, LargeEnough
  <2>6. QED
    BY <1>2, <2>1, <2>2, <2>4, <2>5 DEF RangeNeverEmpty, OneByteSuffices, CodeBelowRange
<1>6. CASE UNCHANGED coderVars
  BY <1>6 DEF coderVars, RangeNeverEmpty, OneByteSuffices, CodeBelowRange
<1>7. QED
  BY <1>3, <1>4, <1>5, <1>6 DEF Next

LEMMA Always == Spec => []CoderInv
<1>1. QED
  BY InitInv, NextInv, PTL DEF Spec

\* Whatever the input, the coder never degenerates: the range is never empty
\* and no probability reaches 0 or 1, so that both values of every bit can
\* be decoded (decodeBit and the direct bits, range_decoder.go).
THEOREM CoderSound == Spec => []RangeNeverEmpty
<1>1. CoderInv => RangeNeverEmpty
  BY DEF CoderInv
<1>2. QED
  BY <1>1, Always, PTL

\* Whatever the input, one byte normalises the range after any decision:
\* decodeBit, NORM and the direct bits test it once, where the format asks
\* for a loop.
THEOREM OneByteEnough == Spec => []OneByteSuffices
<1>1. CoderInv => OneByteSuffices
  BY DEF CoderInv
<1>2. QED
  BY <1>1, Always, PTL

\* On an encoder's input the value stays below the range, through every
\* decision and every byte: no subtraction of an engine wraps.
THEOREM CodeStaysBelow == Spec => []CodeBelowRange
<1>1. CoderInv => CodeBelowRange
  BY DEF CoderInv
<1>2. QED
  BY <1>1, Always, PTL

\* The engines may take turns at any decision: in every reachable state the
\* branching and branchless decisions of both assembly loops, and their
\* direct bits, have the outcome of decodeLoop's.
THEOREM EnginesAgree == Spec => []SameOutcome
<1>1. CoderInv => SameOutcome
  <2> SUFFICES ASSUME CoderInv, NEW b \in Bytes
               PROVE  LET r == NormRng
                          c == NormCode(b)
                      IN  /\ AmdBranchDecode(r, c, prob) = GoDecode(r, c, prob)
                          /\ AmdDecode(r, c, prob) = GoDecode(r, c, prob)
                          /\ ArmDecode(r, c, prob) = GoDecode(r, c, prob)
                          /\ AsmDirectBit(r, c) = GoDirectBit(r, c)
    BY DEF SameOutcome
  <2>1. NormRng \in Top .. Word - 1 /\ NormCode(b) \in 0 .. Word - 1
    BY NormalisedRange, NormalisedCode, BytesAreBytes DEF CoderInv
  <2>2. prob \in Move - 1 .. Total - Move + 1
    BY DEF CoderInv, RangeNeverEmpty
  <2>3. QED
    BY <2>1, <2>2, SameDecode, SameDirectBit
<1>2. QED
  BY <1>1, Always, PTL

----------------------------------------------------------------------------
(* The direct bits.  Why arm64 may read late: from its first byte on, the  *)
(* range is a number shifted by a whole byte, and halving it until the     *)
(* next byte is due loses no bit.                                          *)

Together == armRng = rng /\ armCode = code /\ owed = <<>>

\* Before the first byte the engines are level, and the range was halved so
\* often that it is below Top when the untested read is due.
Tested ==
  /\ Together
  /\ rng * Pow2(Unroll - run) < Word
  /\ 2 * rng >= Top \/ legal

\* decodeLoop has read a byte, and arm64 is to make it up.
OneBehind ==
  /\ legal /\ armRng < Top /\ armCode \in Nat
  /\ \E b \in 0 .. Byte - 1 :
       owed = <<b>> /\ rng = armRng * Byte /\ code = armCode * Byte + b

\* From the first byte on, run halvings are left until the next, and the range
\* will then be what it was before the first.
Untested(q) ==
  /\ q * Byte >= Top /\ armRng = q * Pow2(run)
  /\ (Together /\ (2 * q >= Top \/ legal)) \/ OneBehind

DirectInv ==
  /\ CoderInv
  /\ done \in Int /\ done >= -1 /\ checked \in BOOLEAN /\ run \in 0 .. Unroll
  /\ bits[1] = bits[2]
  /\ done = -1 => Together
  /\ done >= 0 /\ checked => Tested
  /\ done >= 0 /\ ~checked => run < Unroll /\ \E q \in 1 .. Top - 1 : Untested(q)

----------------------------------------------------------------------------
(* Arithmetic. *)

LEMMA PowerFacts ==
  /\ Unroll \in Nat /\ Unroll >= 1
  /\ Pow2(0) = 1
  /\ \A n \in 0 .. Unroll : Pow2(n) \in Nat /\ Pow2(n) >= 1
  /\ \A n \in 1 .. Unroll : Pow2(n) = 2 * Pow2(n - 1)
  /\ Byte = Pow2(Unroll)
<1>1. Unroll \in Nat /\ Byte = Pow2(Unroll) /\ Pow2(0) = 1
  BY UnrollAssumption, Doubling
<1>2. Unroll # 0
  BY <1>1, ConstantTypes
<1>3. ASSUME NEW n \in 0 .. Unroll PROVE Pow2(n) \in Nat /\ Pow2(n) >= 1
  BY <1>3, Doubling
<1>4. ASSUME NEW n \in 1 .. Unroll PROVE Pow2(n) = 2 * Pow2(n - 1)
  <2>1. n - 1 \in 0 .. Unroll /\ (n - 1) + 1 = n
    BY <1>1
  <2> QED
    BY <2>1, Doubling
<1> QED
  BY <1>1, <1>2, <1>3, <1>4

\* A product halved.
LEMMA Halved ==
  ASSUME NEW q \in Nat, NEW n \in 1 .. Unroll
  PROVE  /\ q * Pow2(n - 1) \in Nat
         /\ q * Pow2(n) = 2 * (q * Pow2(n - 1))
<1>1. PICK p \in Nat : p = Pow2(n - 1) /\ Pow2(n) = 2 * p
  BY PowerFacts
<1> QED
  BY <1>1

LEMMA HalfOf ==
  ASSUME NEW h \in Nat
  PROVE  (2 * h) \div 2 = h
  OBVIOUS

\* Halving an even range: no bit of it is lost, and the value stays below it.
LEMMA EvenHalf ==
  ASSUME NEW h \in Nat, NEW c \in Nat, c < 2 * h, 2 * h < Word
  PROVE  AsmDirectBit(2 * h, c) =
           IF c < h THEN [bit |-> 0, rng |-> h, code |-> c]
                    ELSE [bit |-> 1, rng |-> h, code |-> c - h]
<1>1. (2 * h) \div 2 = h
  BY HalfOf
<1>2. PICK w \in Nat : Word = 2 * w /\ Word \div 2 = w
  <2>1. Word % 2 = 0
    BY CoderAssumption
  <2> QED
    BY <2>1, WordFacts
<1>3. CASE c < h
  <2>1. Sub(c, h) = c - h + Word
    <3>1. c - h = Word * (0 - 1) + (c - h + Word)
      BY WordFacts
    <3>2. c - h + Word \in 0 .. Word - 1
      BY <1>3, WordFacts
    <3> QED
      BY <3>1, <3>2, DivUnique, WordFacts DEF Sub
  <2>2. Negative(Sub(c, h))
    BY <1>2, <1>3, <2>1, WordFacts DEF Negative
  <2> QED
    BY <1>1, <1>3, <2>2 DEF AsmDirectBit
<1>4. CASE ~(c < h)
  <2>1. Sub(c, h) = c - h
    BY <1>4, SubFacts, WordFacts
  <2>2. ~Negative(Sub(c, h))
    BY <1>2, <1>4, <2>1, WordFacts DEF Negative
  <2> QED
    BY <1>1, <1>4, <2>1, <2>2 DEF AsmDirectBit
<1> QED
  BY <1>3, <1>4

\* Digits compare from the first.
LEMMA Digits ==
  ASSUME NEW x \in Nat, NEW y \in Nat, NEW b \in 0 .. Byte - 1
  PROVE  x * Byte + b < y * Byte <=> x < y
<1>1. x * Byte \in Nat /\ y * Byte \in Nat /\ (x + 1) * Byte = x * Byte + Byte
  BY ConstantTypes
<1>2. CASE x < y
  <2>1. (x + 1) * Byte <= y * Byte
    BY <1>2, Mono, ConstantTypes
  <2> QED
    BY <1>1, <1>2, <2>1, ConstantTypes
<1>3. CASE ~(x < y)
  <2>1. y * Byte <= x * Byte
    BY <1>3, Mono, ConstantTypes
  <2> QED
    BY <1>1, <1>3, <2>1, ConstantTypes
<1> QED
  BY <1>2, <1>3

LEMMA OneByte ==
  ASSUME NEW b
  PROVE  /\ Append(<<>>, b) = <<b>> /\ Head(<<b>>) = b /\ Tail(<<b>>) = <<>>
         /\ <<b>> # <<>> /\ Len(<<b>>) = 1
  OBVIOUS

----------------------------------------------------------------------------
(* One direct bit. *)

LEMMA GoRangeNorm ==
  ASSUME NEW b
  PROVE  GoRange(b)[1] = NormRng /\ GoRange(b)[2] = NormCode(b)
<1>1. CASE rng < Top
  BY <1>1 DEF GoRange, Shift, NormRng, NormCode
<1>2. CASE ~(rng < Top)
  BY <1>2 DEF GoRange, NormRng, NormCode
<1> QED
  BY <1>1, <1>2

\* A byte shifted in below Top loses nothing of the range, and nothing of a
\* code below it.
LEMMA ShiftExact ==
  ASSUME NEW r \in 1 .. Top - 1, NEW c \in Nat, NEW b
  PROVE  /\ Shift(r, c, b)[1] = r * Byte
         /\ c < Top => Shift(r, c, b)[2] = c * Byte + b
  BY ShiftBelowTop, ConstantTypes DEF Shift

\* What decodeLoop finds and leaves.
LEMMA GoBit ==
  ASSUME CoderInv, NEW b \in Bytes
  PROVE  /\ NormRng \in Top .. Word - 1 /\ NormCode(b) \in 0 .. Word - 1
         /\ legal => NormCode(b) < NormRng
         /\ GoDirectBit(NormRng, NormCode(b)) = AsmDirectBit(NormRng, NormCode(b))
         /\ b \in 0 .. Byte - 1
<1>1. NormRng \in Top .. Word - 1
  BY NormalisedRange DEF CoderInv
<1>2. b \in 0 .. Byte - 1
  BY BytesAreBytes
<1>3. NormCode(b) \in 0 .. Word - 1 /\ (legal => NormCode(b) < NormRng)
  BY <1>2, NormalisedCode DEF CoderInv
<1> QED
  BY <1>1, <1>2, <1>3, SameDirectBit

\* A bit as both engines decode it: the byte that decodeLoop may read, and the
\* range and code that arm64 halves.
LEMMA Bit ==
  ASSUME CoderInv, ArmDirectBit
  PROVE  \E b \in Bytes :
           LET range == ArmRange(ArmReads, Arrived(b))
               go    == AsmDirectBit(NormRng, NormCode(b))
               late  == AsmDirectBit(range[1], range[2])
           IN  /\ ArmReads => Arrived(b) # <<>>
               /\ rng' = go.rng /\ code' = go.code
               /\ armRng' = late.rng /\ armCode' = late.code
               /\ owed' = IF ArmReads THEN Tail(Arrived(b)) ELSE Arrived(b)
               /\ bits' = <<go.bit, late.bit>>
<1>1. PICK b \in Bytes :
        LET bytes == Arrived(b)
            go    == GoDirectBit(GoRange(b)[1], GoRange(b)[2])
            range == ArmRange(ArmReads, bytes)
            late  == AsmDirectBit(range[1], range[2])
        IN  /\ ArmReads => bytes # <<>>
            /\ rng' = go.rng /\ code' = go.code
            /\ armRng' = late.rng /\ armCode' = late.code
            /\ owed' = IF ArmReads THEN Tail(bytes) ELSE bytes
            /\ bits' = <<go.bit, late.bit>>
  BY DEF ArmDirectBit
<1>2. GoDirectBit(GoRange(b)[1], GoRange(b)[2]) = AsmDirectBit(NormRng, NormCode(b))
  BY GoRangeNorm, GoBit
<1> QED
  BY <1>1, <1>2

\* Level engines that read, or do not read, at the same bit stay level.
LEMMA StayTogether ==
  ASSUME CoderInv, ArmDirectBit, Together, ArmReads <=> rng < Top
  PROVE  Together' /\ bits'[1] = bits'[2] /\ rng' = NormRng \div 2
<1>1. PICK b \in Bytes :
        LET range == ArmRange(ArmReads, Arrived(b))
            go    == AsmDirectBit(NormRng, NormCode(b))
            late  == AsmDirectBit(range[1], range[2])
        IN  /\ rng' = go.rng /\ code' = go.code
            /\ armRng' = late.rng /\ armCode' = late.code
            /\ owed' = IF ArmReads THEN Tail(Arrived(b)) ELSE Arrived(b)
            /\ bits' = <<go.bit, late.bit>>
  BY Bit
<1>2. /\ ArmRange(ArmReads, Arrived(b))[1] = NormRng
      /\ ArmRange(ArmReads, Arrived(b))[2] = NormCode(b)
  <2>1. CASE rng < Top
    BY <2>1, OneByte DEF Together, Arrived, ArmRange, Shift, NormRng, NormCode
  <2>2. CASE ~(rng < Top)
    BY <2>2 DEF Together, ArmRange, NormRng, NormCode
  <2> QED
    BY <2>1, <2>2
<1>3. owed' = <<>>
  BY <1>1, OneByte DEF Together, Arrived
<1>4. AsmDirectBit(NormRng, NormCode(b)).rng = NormRng \div 2
  BY DEF AsmDirectBit
<1> QED
  BY <1>1, <1>2, <1>3, <1>4 DEF Together

\* On an encoder's input an even range keeps the input legal.
LEMMA LegalHalf ==
  ASSUME CoderInv, ArmDirectBit, legal, NEW h \in Nat, NormRng = 2 * h
  PROVE  rng' = h /\ legal'
<1>1. PICK b \in Bytes : /\ rng' = AsmDirectBit(NormRng, NormCode(b)).rng
                         /\ code' = AsmDirectBit(NormRng, NormCode(b)).code
  BY Bit
<1>2. NormCode(b) \in Nat /\ NormCode(b) < 2 * h /\ 2 * h < Word
  BY GoBit, WordFacts, ConstantTypes
<1>3. PICK c \in Nat : c = NormCode(b) /\ c < 2 * h
  BY <1>2
<1>4. rng' = h /\ code' = IF c < h THEN c ELSE c - h
  <2>1. rng' = AsmDirectBit(2 * h, c).rng /\ code' = AsmDirectBit(2 * h, c).code
    BY <1>1, <1>3
  <2>2. AsmDirectBit(2 * h, c) = IF c < h THEN [bit |-> 0, rng |-> h, code |-> c]
                                 ELSE [bit |-> 1, rng |-> h, code |-> c - h]
    BY <1>2, <1>3, EvenHalf
  <2> QED
    BY <2>1, <2>2
<1>5. code' < rng'
  <2>1. PICK d \in Nat : d = (IF c < h THEN c ELSE c - h) /\ d < h
    BY <1>3
  <2> QED
    BY <1>4, <2>1
<1> QED
  BY <1>4, <1>5 DEF ArmDirectBit

----------------------------------------------------------------------------
(* Steps of a distance. *)

\* Both read: from here on the halvings are exact.
LEMMA BothRead ==
  ASSUME CoderInv, ArmDirectBit, Together, ArmReads, rng < Top, 2 * rng >= Top \/ legal
  PROVE  /\ bits'[1] = bits'[2] /\ run' = Unroll - 1 /\ ~checked'
         /\ \E q \in 1 .. Top - 1 : Untested(q)'
<1>1. Together' /\ bits'[1] = bits'[2] /\ rng' = NormRng \div 2
  BY StayTogether
<1>2. run' = Unroll - 1 /\ ~checked'
  BY DEF ArmDirectBit
<1>3. rng \in 1 .. Top - 1 /\ rng * Byte >= Top
  BY ConstantTypes DEF CoderInv, RangeNeverEmpty, OneByteSuffices
<1>4. PICK q \in Nat, h \in Nat :
        q = rng /\ h = q * Pow2(Unroll - 1) /\ q * Byte = 2 * h
  <2>1. rng * Pow2(Unroll) = 2 * (rng * Pow2(Unroll - 1)) /\ rng * Pow2(Unroll - 1) \in Nat
    BY <1>3, PowerFacts, Halved
  <2> QED
    BY <1>3, <2>1, PowerFacts
<1>5. NormRng = 2 * h
  BY <1>3, <1>4, ShiftBelowTop DEF NormRng
<1>6. rng' = h
  BY <1>1, <1>5, HalfOf
<1>7. 2 * q >= Top \/ legal'
  BY <1>4, <1>5, LegalHalf
<1>8. armRng' = q * Pow2(Unroll - 1) /\ q * Byte >= Top
  BY <1>1, <1>3, <1>4, <1>6 DEF Together
<1>9. q \in 1 .. Top - 1 /\ Untested(q)'
  BY <1>1, <1>2, <1>3, <1>4, <1>7, <1>8 DEF Untested
<1> QED
  BY <1>1, <1>2, <1>9

\* Neither reads before the first byte: the range is halved.
LEMMA NoneReads ==
  ASSUME DirectInv, ArmDirectBit, done >= 0, checked, ~(rng < Top)
  PROVE  ~ArmReads /\ run > 0 /\ bits'[1] = bits'[2] /\ Tested'
<1>1. Tested /\ CoderInv /\ run \in 0 .. Unroll /\ rng \in 1 .. Word - 1
  BY DEF DirectInv, CoderInv, RangeNeverEmpty
<1>2. run > 0
  <2>1. SUFFICES ASSUME run = 0 PROVE FALSE
    BY <1>1
  <2>2. rng * Byte < Top * Byte
    BY <1>1, <2>1, PowerFacts DEF Tested, Word
  <2>3. Top * Byte <= rng * Byte
    BY <1>1, Mono, ConstantTypes, WordFacts
  <2>4. PICK x \in Nat, y \in Nat : x = rng * Byte /\ y = Top * Byte
    BY <1>1, ConstantTypes, WordFacts
  <2> QED
    BY <2>2, <2>3, <2>4
<1>3. ~ArmReads
  BY <1>1, <1>2 DEF ArmReads, Tested, Together
<1>4. Together' /\ bits'[1] = bits'[2] /\ rng' = NormRng \div 2
  BY <1>1, <1>3, StayTogether DEF Tested
<1>5. PICK h \in Nat : rng' = h /\ 2 * h <= rng /\ 2 * h >= Top
  <2>1. PICK r \in Nat : r = rng /\ r >= Top
    BY <1>1, ConstantTypes, WordFacts
  <2>2. PICK t \in Nat : Top = 2 * t
    BY UnrollAssumption, ConstantTypes
  <2>3. NormRng = r
    BY <2>1 DEF NormRng
  <2>4. PICK h \in Nat : h = r \div 2 /\ 2 * h >= r - 1 /\ 2 * h <= r
    BY <2>1
  <2> QED
    BY <1>4, <2>1, <2>2, <2>3, <2>4
<1>6. run' = run - 1
  BY <1>3 DEF ArmDirectBit
<1>7. rng' * Pow2(Unroll - run') < Word
  <2>1. PICK n \in 1 .. Unroll : n = Unroll - run + 1
    BY <1>1, <1>2, PowerFacts
  <2>2. PICK p \in Nat : p = Pow2(n - 1) /\ Pow2(n) = 2 * p
    BY PowerFacts
  <2>3. Unroll - run' = n /\ Unroll - run = n - 1
    BY <1>1, <1>6, <2>1, PowerFacts
  <2>4. rng * p < Word
    BY <1>1, <2>2, <2>3 DEF Tested
  <2>5. (2 * h) * p <= rng * p
    BY <1>1, <1>5, <2>2, Mono, WordFacts
  <2>6. h * (2 * p) = (2 * h) * p
    BY <1>5, <2>2
  <2>7. PICK x \in Nat, y \in Nat : x = (2 * h) * p /\ y = rng * p
    BY <1>1, <1>5, <2>2, WordFacts
  <2>8. h * (2 * p) < Word
    BY <2>4, <2>5, <2>6, <2>7, WordFacts
  <2> QED
    BY <1>5, <2>2, <2>3, <2>8
<1> QED
  BY <1>2, <1>3, <1>4, <1>5, <1>7 DEF Tested

\* decodeLoop is a byte ahead, or gets ahead: both halve without loss, and
\* arm64's value is decodeLoop's without the last byte.
LEMMA StaysBehind ==
  ASSUME CoderInv, ArmDirectBit, legal,
         NEW h \in Nat, NEW c \in Nat, NEW d \in 0 .. Byte - 1, NEW b \in Bytes,
         h >= 1, 2 * h < Top,
         NormRng = (2 * h) * Byte, NormCode(b) = c * Byte + d,
         owed' = <<d>>,
         LET go   == AsmDirectBit(NormRng, NormCode(b))
             late == AsmDirectBit(2 * h, c)
         IN  /\ rng' = go.rng /\ code' = go.code
             /\ armRng' = late.rng /\ armCode' = late.code
             /\ bits' = <<go.bit, late.bit>>
  PROVE  bits'[1] = bits'[2] /\ OneBehind' /\ armRng' = h
<1>1. PICK H \in Nat : H = h * Byte /\ NormRng = 2 * H
  BY ConstantTypes
<1>2. PICK C \in Nat : C = c * Byte + d /\ C = NormCode(b)
  BY ConstantTypes
<1>3. C < 2 * H /\ 2 * H < Word
  BY <1>1, <1>2, GoBit, WordFacts, ConstantTypes
<1>4. c < 2 * h /\ 2 * h < Word
  <2>1. c * Byte + d < (2 * h) * Byte
    BY <1>1, <1>2, <1>3
  <2> QED
    BY <2>1, Digits, WordFacts, ConstantTypes
<1>5. C < H <=> c < h
  BY <1>1, <1>2, Digits
<1>6. AsmDirectBit(NormRng, NormCode(b)) =
        IF C < H THEN [bit |-> 0, rng |-> H, code |-> C]
                 ELSE [bit |-> 1, rng |-> H, code |-> C - H]
  BY <1>1, <1>2, <1>3, EvenHalf
<1>7. AsmDirectBit(2 * h, c) =
        IF c < h THEN [bit |-> 0, rng |-> h, code |-> c]
                 ELSE [bit |-> 1, rng |-> h, code |-> c - h]
  BY <1>4, EvenHalf
<1>8. legal'
  BY <1>1, LegalHalf
<1>9. h < Top
  BY ConstantTypes
<1>10. CASE c < h
  <2>1. /\ rng' = H /\ code' = C /\ armRng' = h /\ armCode' = c
        /\ bits' = <<0, 0>>
    BY <1>5, <1>6, <1>7, <1>10
  <2> QED
    BY <1>1, <1>2, <1>8, <1>9, <2>1 DEF OneBehind
<1>11. CASE ~(c < h)
  <2>1. /\ rng' = H /\ code' = C - H /\ armRng' = h /\ armCode' = c - h
        /\ bits' = <<1, 1>>
    BY <1>5, <1>6, <1>7, <1>11
  <2>2. PICK e \in Nat : e = c - h
    BY <1>11
  <2>3. C - H = e * Byte + d
    <3>1. c * Byte = (h + e) * Byte
      BY <2>2
    <3>2. (h + e) * Byte = h * Byte + e * Byte
      BY <2>2, ConstantTypes
    <3>3. PICK x \in Nat, y \in Nat : x = h * Byte /\ y = e * Byte
      BY <2>2, ConstantTypes
    <3> QED
      BY <1>1, <1>2, <3>1, <3>2, <3>3
  <2> QED
    BY <1>1, <1>8, <1>9, <2>1, <2>2, <2>3 DEF OneBehind
<1> QED
  BY <1>10, <1>11

\* No byte is due to arm64, which is level or behind.
LEMMA NoneDue ==
  ASSUME DirectInv, ArmDirectBit, done >= 0, ~checked, run > 0
  PROVE  bits'[1] = bits'[2] /\ ~checked' /\ run' = run - 1
         /\ \E q \in 1 .. Top - 1 : Untested(q)'
<1>1. ~ArmReads
  BY DEF ArmReads
<1>2. ~checked' /\ run' = run - 1
  BY <1>1 DEF ArmDirectBit
<1>3. CoderInv /\ run \in 1 .. Unroll /\ rng \in 1 .. Word - 1 /\ code \in 0 .. Word - 1
  BY PowerFacts DEF DirectInv, CoderInv, RangeNeverEmpty
<1>4. PICK q \in 1 .. Top - 1 : Untested(q)
  BY DEF DirectInv
<1>5. PICK h \in Nat : h = q * Pow2(run - 1) /\ armRng = 2 * h /\ h >= q
  <2>1. q \in Nat /\ q * Pow2(run - 1) \in Nat /\ armRng = 2 * (q * Pow2(run - 1))
    BY <1>3, <1>4, Halved DEF Untested
  <2>2. PICK p \in Nat : p = Pow2(run - 1) /\ p >= 1
    BY <1>3, PowerFacts
  <2>3. q * 1 <= q * p
    BY <2>1, <2>2, Mono
  <2> QED
    BY <2>1, <2>2, <2>3
<1>6. h >= 1 /\ q \in Nat
  BY <1>5
<1>7. ASSUME armRng' = h, OneBehind' \/ (Together' /\ (2 * q >= Top \/ legal'))
      PROVE  \E r \in 1 .. Top - 1 : Untested(r)'
  <2>1. armRng' = q * Pow2(run') /\ q * Byte >= Top
    BY <1>2, <1>4, <1>5, <1>7 DEF Untested
  <2>2. Untested(q)'
    BY <1>7, <2>1 DEF Untested
  <2> QED
    BY <2>2
<1>8. CASE Together /\ ~(rng < Top)
  <2>1. Together' /\ bits'[1] = bits'[2] /\ rng' = NormRng \div 2
    BY <1>1, <1>3, <1>8, StayTogether
  <2>2. NormRng = 2 * h
    BY <1>5, <1>8 DEF NormRng, Together
  <2>3. rng' = h
    BY <2>1, <2>2, HalfOf
  <2>4. legal => legal'
    BY <1>3, <2>2, LegalHalf
  <2>5. 2 * q >= Top \/ legal
    BY <1>4 DEF Untested, OneBehind
  <2> QED
    BY <1>2, <1>7, <2>1, <2>3, <2>4, <2>5 DEF Together
<1>9. CASE Together /\ rng < Top
  <2>1. legal
    <3>1. rng = 2 * h /\ 2 * q < Top
      BY <1>5, <1>6, <1>9, ConstantTypes DEF Together
    <3> QED
      BY <1>4, <1>6, <3>1, ConstantTypes DEF Untested, OneBehind
  <2>2. PICK c \in Nat : c = code /\ c < rng
    BY <1>3, <2>1 DEF CoderInv, CodeBelowRange
  <2>3. PICK b \in Bytes :
          LET range == ArmRange(ArmReads, Arrived(b))
              go    == AsmDirectBit(NormRng, NormCode(b))
              late  == AsmDirectBit(range[1], range[2])
          IN  /\ rng' = go.rng /\ code' = go.code
              /\ armRng' = late.rng /\ armCode' = late.code
              /\ owed' = IF ArmReads THEN Tail(Arrived(b)) ELSE Arrived(b)
              /\ bits' = <<go.bit, late.bit>>
    BY <1>3, Bit
  <2>4. b \in 0 .. Byte - 1
    BY BytesAreBytes
  <2>5. NormRng = (2 * h) * Byte /\ NormCode(b) = c * Byte + b
    <3>1. rng \in 0 .. Top - 1 /\ code \in 0 .. Top - 1 /\ rng = 2 * h
      BY <1>3, <1>5, <1>9, <2>2, ConstantTypes DEF Together
    <3>2. (rng * Byte) % Word = rng * Byte /\ (code * Byte) % Word = code * Byte
      BY <3>1, ShiftBelowTop
    <3> QED
      BY <1>9, <2>2, <3>1, <3>2 DEF NormRng, NormCode
  <2>6. owed' = <<b>>
    BY <1>1, <1>9, <2>3, OneByte DEF Arrived, Together
  <2>7. ArmRange(ArmReads, Arrived(b))[1] = 2 * h /\ ArmRange(ArmReads, Arrived(b))[2] = c
    BY <1>1, <1>5, <1>9, <2>2 DEF ArmRange, Together
  <2>8. 2 * h < Top
    BY <1>5, <1>9 DEF Together
  <2>9. bits'[1] = bits'[2] /\ OneBehind' /\ armRng' = h
    BY <1>3, <1>6, <2>1, <2>3, <2>4, <2>5, <2>6, <2>7, <2>8, StaysBehind
  <2> QED
    BY <1>2, <1>7, <2>9
<1>10. CASE OneBehind
  <2>1. PICK d \in 0 .. Byte - 1 :
          owed = <<d>> /\ rng = armRng * Byte /\ code = armCode * Byte + d
    BY <1>10 DEF OneBehind
  <2>2. ~(rng < Top)
    <3>1. q * Byte <= armRng * Byte
      BY <1>5, <1>6, Mono, ConstantTypes
    <3>2. PICK x \in Nat, y \in Nat : x = q * Byte /\ y = armRng * Byte
      BY <1>5, <1>6, ConstantTypes
    <3> QED
      BY <1>4, <2>1, <3>1, <3>2, ConstantTypes DEF Untested
  <2>3. PICK b \in Bytes :
          LET range == ArmRange(ArmReads, Arrived(b))
              go    == AsmDirectBit(NormRng, NormCode(b))
              late  == AsmDirectBit(range[1], range[2])
          IN  /\ rng' = go.rng /\ code' = go.code
              /\ armRng' = late.rng /\ armCode' = late.code
              /\ owed' = IF ArmReads THEN Tail(Arrived(b)) ELSE Arrived(b)
              /\ bits' = <<go.bit, late.bit>>
    BY <1>3, Bit
  <2>4. PICK c \in Nat : c = armCode
    BY <1>10 DEF OneBehind
  <2>5. NormRng = (2 * h) * Byte /\ NormCode(b) = c * Byte + d
    BY <1>5, <2>1, <2>2, <2>4 DEF NormRng, NormCode
  <2>6. owed' = <<d>>
    BY <1>1, <2>1, <2>2, <2>3 DEF Arrived
  <2>7. ArmRange(ArmReads, Arrived(b))[1] = 2 * h /\ ArmRange(ArmReads, Arrived(b))[2] = c
    BY <1>1, <1>5, <2>4 DEF ArmRange
  <2>8. 2 * h < Top /\ legal
    BY <1>5, <1>10 DEF OneBehind
  <2>9. bits'[1] = bits'[2] /\ OneBehind' /\ armRng' = h
    BY <1>3, <1>6, <2>3, <2>5, <2>6, <2>7, <2>8, StaysBehind
  <2> QED
    BY <1>2, <1>7, <2>9
<1> QED
  BY <1>4, <1>8, <1>9, <1>10 DEF Untested

\* arm64 reads the byte that it owes, and is level again.
LEMMA CatchesUp ==
  ASSUME DirectInv, ArmDirectBit, done >= 0, ~checked, run = 0, OneBehind
  PROVE  bits'[1] = bits'[2] /\ ~checked' /\ run' = Unroll - 1
         /\ \E q \in 1 .. Top - 1 : Untested(q)'
<1>1. ArmReads
  BY DEF ArmReads
<1>2. ~checked' /\ run' = Unroll - 1
  BY <1>1 DEF ArmDirectBit
<1>3. CoderInv /\ rng \in 1 .. Word - 1 /\ code \in 0 .. Word - 1 /\ legal
  BY DEF DirectInv, CoderInv, RangeNeverEmpty, OneBehind
<1>4. PICK q \in 1 .. Top - 1 : q * Byte >= Top /\ armRng = q
  <2>1. PICK q \in 1 .. Top - 1 : Untested(q)
    BY DEF DirectInv
  <2> QED
    BY <2>1, PowerFacts DEF Untested
<1>5. PICK d \in 0 .. Byte - 1 :
        owed = <<d>> /\ rng = armRng * Byte /\ code = armCode * Byte + d
  BY DEF OneBehind
<1>6. ~(rng < Top) /\ q \in Nat
  BY <1>3, <1>4, <1>5, ConstantTypes
<1>7. PICK b \in Bytes :
        LET range == ArmRange(ArmReads, Arrived(b))
            go    == AsmDirectBit(NormRng, NormCode(b))
            late  == AsmDirectBit(range[1], range[2])
        IN  /\ rng' = go.rng /\ code' = go.code
            /\ armRng' = late.rng /\ armCode' = late.code
            /\ owed' = IF ArmReads THEN Tail(Arrived(b)) ELSE Arrived(b)
            /\ bits' = <<go.bit, late.bit>>
  BY <1>3, Bit
<1>8. NormRng = rng /\ NormCode(b) = code /\ Arrived(b) = <<d>>
  BY <1>5, <1>6 DEF NormRng, NormCode, Arrived
<1>9. Shift(armRng, armCode, d)[1] = rng /\ Shift(armRng, armCode, d)[2] = code
  <2>1. PICK c \in Nat : c = armCode /\ c < q
    <3>1. PICK c \in Nat : c = armCode
      BY DEF OneBehind
    <3>2. c * Byte + d < q * Byte
      BY <1>3, <1>4, <1>5, <3>1 DEF CoderInv, CodeBelowRange
    <3> QED
      BY <1>6, <3>1, <3>2, Digits
  <2>2. c < Top
    BY <1>4, <2>1, ConstantTypes
  <2> QED
    BY <1>4, <1>5, <2>1, <2>2, ShiftExact
<1>10. ArmRange(ArmReads, Arrived(b))[1] = rng /\ ArmRange(ArmReads, Arrived(b))[2] = code
  BY <1>1, <1>8, <1>9, OneByte DEF ArmRange
<1>11. Together' /\ bits'[1] = bits'[2]
  BY <1>1, <1>7, <1>8, <1>10, OneByte DEF Together
<1>12. PICK h \in Nat : h = q * Pow2(Unroll - 1) /\ NormRng = 2 * h
  <2>1. q * Pow2(Unroll) = 2 * (q * Pow2(Unroll - 1)) /\ q * Pow2(Unroll - 1) \in Nat
    BY <1>6, PowerFacts, Halved
  <2> QED
    BY <1>4, <1>5, <1>8, <2>1, PowerFacts
<1>13. rng' = h /\ legal'
  BY <1>3, <1>12, LegalHalf
<1>14. Untested(q)'
  BY <1>2, <1>4, <1>11, <1>12, <1>13 DEF Untested, Together
<1> QED
  BY <1>2, <1>11, <1>14

LEMMA BitInv ==
  ASSUME DirectInv, ArmDirectBit
  PROVE  DirectInv'
<1>1. done \in Nat /\ done' = done + 1 /\ CoderInv /\ checked \in BOOLEAN /\ run \in 0 .. Unroll
  BY DEF DirectInv, ArmDirectBit
<1>2. CoderInv'
  <2>1. DirectBit
    BY GoRangeNorm DEF ArmDirectBit, DirectBit
  <2> QED
    BY <1>1, <2>1, NextInv DEF Next
<1>3. done' \in Int /\ done' >= 0 /\ done' # -1 /\ done' >= -1
  BY <1>1
<1>a. checked' \in BOOLEAN
  BY DEF ArmDirectBit
<1>4. CASE checked /\ ~(rng < Top)
  <2>1. ~ArmReads /\ run > 0 /\ bits'[1] = bits'[2] /\ Tested'
    BY <1>1, <1>4, NoneReads
  <2>2. checked' /\ run' = run - 1
    BY <1>4, <2>1 DEF ArmDirectBit
  <2>3. PICK n \in 0 .. Unroll : run' = n
    BY <1>1, <2>1, <2>2, PowerFacts
  <2> QED
    BY <1>2, <1>3, <1>a, <2>1, <2>2, <2>3 DEF DirectInv
<1>5. CASE ~checked' /\ bits'[1] = bits'[2] /\ run' \in 0 .. Unroll - 1
           /\ \E q \in 1 .. Top - 1 : Untested(q)'
  <2>1. PICK n \in 0 .. Unroll : run' = n /\ n < Unroll
    BY <1>5, PowerFacts
  <2> QED
    BY <1>2, <1>3, <1>5, <1>a, <2>1 DEF DirectInv
<1>6. CASE checked /\ rng < Top
  <2>1. Tested /\ ArmReads
    BY <1>1, <1>6 DEF DirectInv, Tested, Together, ArmReads
  <2> QED
    BY <1>1, <1>5, <1>6, <2>1, BothRead, PowerFacts DEF Tested
<1>7. CASE ~checked /\ run > 0
  BY <1>1, <1>5, <1>7, NoneDue, PowerFacts
<1>8. CASE ~checked /\ run = 0
  <2>1. CASE OneBehind
    BY <1>1, <1>5, <1>8, <2>1, CatchesUp, PowerFacts
  <2>2. CASE ~OneBehind
    <3>1. PICK q \in 1 .. Top - 1 : Untested(q)
      BY <1>1, <1>8 DEF DirectInv
    <3>2. Together /\ rng = q /\ (2 * q >= Top \/ legal)
      BY <1>8, <2>2, <3>1, PowerFacts DEF Untested, Together
    <3>3. ArmReads /\ rng < Top
      BY <1>8, <3>2, ConstantTypes DEF ArmReads
    <3> QED
      BY <1>1, <1>5, <3>2, <3>3, BothRead, PowerFacts
  <2> QED
    BY <2>1, <2>2
<1> QED
  BY <1>1, <1>4, <1>6, <1>7, <1>8

\* The normalisation before the align bits makes up what arm64 owes.
LEMMA AlignInv ==
  ASSUME DirectInv, Align
  PROVE  DirectInv'
<1>1. /\ CoderInv /\ checked \in BOOLEAN /\ run \in 0 .. Unroll /\ bits[1] = bits[2] /\ done > 0
      /\ done' = -1 /\ UNCHANGED loop
  BY DEF DirectInv, Align
<1>2. PICK b \in Bytes :
        LET bytes == Arrived(b)
            range == ArmRange(armRng < Top, bytes)
        IN  /\ rng' = GoRange(b)[1] /\ code' = GoRange(b)[2]
            /\ armRng' = range[1] /\ armCode' = range[2]
            /\ owed' = IF armRng < Top THEN Tail(bytes) ELSE bytes
  BY DEF Align
<1>3. rng' = NormRng /\ code' = NormCode(b)
  BY <1>2, GoRangeNorm
<1>4. CoderInv'
  <2>1. Fin
    BY <1>3 DEF Fin, Align
  <2> QED
    BY <1>1, <2>1, NextInv DEF Next
<1>5. CASE Together
  <2>1. /\ ArmRange(armRng < Top, Arrived(b))[1] = NormRng
        /\ ArmRange(armRng < Top, Arrived(b))[2] = NormCode(b)
    <3>1. CASE rng < Top
      BY <1>5, <3>1, OneByte DEF Together, Arrived, ArmRange, Shift, NormRng, NormCode
    <3>2. CASE ~(rng < Top)
      BY <1>5, <3>2 DEF Together, ArmRange, NormRng, NormCode
    <3> QED
      BY <3>1, <3>2
  <2>2. owed' = <<>>
    BY <1>2, <1>5, OneByte DEF Together, Arrived
  <2>3. Together'
    BY <1>2, <1>3, <2>1, <2>2 DEF Together
  <2> QED
    BY <1>1, <1>4, <2>3 DEF DirectInv, loop
<1>6. CASE ~Together
  <2>1. PICK q \in 1 .. Top - 1 : Untested(q) /\ OneBehind
    BY <1>1, <1>6 DEF DirectInv, Tested, Untested
  <2>2. PICK d \in 0 .. Byte - 1 :
          owed = <<d>> /\ rng = armRng * Byte /\ code = armCode * Byte + d
    BY <2>1 DEF OneBehind
  <2>3. PICK a \in 1 .. Top - 1 : a = armRng /\ q <= a
    <3>1. PICK p \in Nat : p = Pow2(run) /\ p >= 1
      BY <1>1, PowerFacts
    <3>2. q \in Nat /\ armRng = q * p /\ armRng < Top
      BY <2>1, <3>1, ConstantTypes DEF Untested, OneBehind
    <3>3. q * 1 <= q * p
      BY <3>1, <3>2, Mono
    <3> QED
      BY <3>1, <3>2, <3>3, ConstantTypes
  <2>4. ~(rng < Top)
    <3>1. q * Byte <= a * Byte
      BY <2>3, Mono, ConstantTypes
    <3>2. PICK x \in Nat, y \in Nat : x = q * Byte /\ y = a * Byte
      BY <2>3, ConstantTypes
    <3> QED
      BY <2>1, <2>2, <2>3, <3>1, <3>2, ConstantTypes DEF Untested
  <2>5. PICK c \in Nat : c = armCode /\ c < Top
    <3>1. PICK c \in Nat : c = armCode
      BY <2>1 DEF OneBehind
    <3>2. c * Byte + d < a * Byte
      BY <1>1, <2>1, <2>2, <2>3, <3>1 DEF OneBehind, CoderInv, CodeBelowRange
    <3>3. c < a
      BY <2>3, <3>1, <3>2, Digits, ConstantTypes
    <3> QED
      BY <2>3, <3>1, <3>3, ConstantTypes
  <2>6. Shift(a, c, d)[1] = rng /\ Shift(a, c, d)[2] = code
    BY <2>2, <2>3, <2>5, ShiftExact
  <2>7. NormRng = rng /\ NormCode(b) = code /\ Arrived(b) = <<d>> /\ armRng < Top
    BY <2>2, <2>3, <2>4, ConstantTypes DEF NormRng, NormCode, Arrived
  <2>8. /\ ArmRange(armRng < Top, Arrived(b))[1] = rng
        /\ ArmRange(armRng < Top, Arrived(b))[2] = code
    BY <2>3, <2>5, <2>6, <2>7, OneByte DEF ArmRange
  <2>9. Together'
    BY <1>2, <1>3, <2>7, <2>8, OneByte DEF Together
  <2> QED
    BY <1>1, <1>4, <2>9 DEF DirectInv, loop
<1> QED
  BY <1>5, <1>6

LEMMA BeginInv ==
  ASSUME DirectInv, Begin
  PROVE  DirectInv'
<1>1. CoderInv /\ Together /\ rng \in 1 .. Word - 1
  BY DEF DirectInv, CoderInv, RangeNeverEmpty, Begin
<1>2. UNCHANGED <<rng, code, prob, legal, armRng, armCode, owed>> /\ legal
  BY DEF Begin, coderVars, arm
<1>3. CoderInv'
  BY <1>1, <1>2 DEF CoderInv, RangeNeverEmpty, OneByteSuffices, CodeBelowRange
<1>4. /\ done' = 0 /\ checked' = TRUE /\ run' = Unroll /\ bits' = <<0, 0>>
  BY DEF Begin
<1>5. Unroll - Unroll = 0 /\ rng * 1 = rng /\ rng < Word
  BY <1>1, PowerFacts, WordFacts
<1>6. rng * Pow2(Unroll - Unroll) < Word
  BY <1>5, PowerFacts
<1>7. Tested'
  BY <1>1, <1>2, <1>4, <1>6 DEF Tested, Together
<1> QED
  BY <1>3, <1>4, <1>7, PowerFacts DEF DirectInv

LEMMA LevelInv ==
  ASSUME DirectInv, Level
  PROVE  DirectInv'
<1>1. CoderInv /\ Together
  BY DEF DirectInv, Level
<1>2. CoderInv'
  BY <1>1, NextInv DEF Level
<1>3. Together'
  BY <1>1 DEF Level, Together
<1> QED
  BY <1>2, <1>3 DEF DirectInv, Level, loop

LEMMA StutterInv ==
  ASSUME DirectInv, UNCHANGED directVars
  PROVE  DirectInv'
<1>1. UNCHANGED <<rng, code, prob, legal, armRng, armCode, owed, checked, run, bits, done>>
  BY DEF directVars, coderVars, arm, loop
<1>2. CoderInv'
  BY <1>1 DEF DirectInv, CoderInv, RangeNeverEmpty, OneByteSuffices, CodeBelowRange
<1> QED
  BY <1>1, <1>2 DEF DirectInv, Together, Tested, Untested, OneBehind

LEMMA AlwaysDirect == DirectSpec => []DirectInv
<1>1. DirectInit => DirectInv
  <2> SUFFICES ASSUME DirectInit PROVE DirectInv
    OBVIOUS
  <2>1. CoderInv
    BY InitInv DEF DirectInit
  <2> QED
    BY <2>1, PowerFacts DEF DirectInit, DirectInv, Together
<1>2. DirectInv /\ [DirectNext]_directVars => DirectInv'
  BY LevelInv, BeginInv, BitInv, AlignInv, StutterInv DEF DirectNext
<1> QED
  BY <1>1, <1>2, PTL DEF DirectSpec

----------------------------------------------------------------------------
(* The theorems. *)

\* On an encoder's input up to the distance, and whatever follows, for any
\* number of direct bits: arm64, which reads its bytes late and untested, gets
\* decodeLoop's bits, and at the align bits it has the same range and code
\* (decoder.go:432-455; gen_lzmadec_arm64.py:540-556, 810-820).
THEOREM LateReadsHarmless == DirectSpec => []LateReadsAgree
<1>1. DirectInv => LateReadsAgree
  BY DEF DirectInv, LateReadsAgree, Together
<1> QED
  BY <1>1, AlwaysDirect, PTL

\* arm64 owes at most one byte, in any distance, and its range and code are
\* decodeLoop's while it owes none: one normalisation makes up for all of it
\* (gen_lzmadec_arm64.py:149-153, 810-820).
THEOREM OneByteBehind == DirectSpec => []AtMostOneBehind
<1>1. DirectInv => AtMostOneBehind
  <2> SUFFICES ASSUME DirectInv PROVE AtMostOneBehind
    OBVIOUS
  <2>1. Together \/ OneBehind
    BY DEF DirectInv, Tested, Untested
  <2>2. CASE Together
    BY <2>2 DEF Together, AtMostOneBehind
  <2>3. CASE OneBehind
    BY <2>3, OneByte DEF OneBehind, AtMostOneBehind
  <2> QED
    BY <2>1, <2>2, <2>3
<1> QED
  BY <1>1, AlwaysDirect, PTL
=============================================================================
