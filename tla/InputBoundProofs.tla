-------------------------- MODULE InputBoundProofs --------------------------
(***************************************************************************)
(* A proof that 20 bytes suffice for a symbol, from every normalised       *)
(* range.  Along the longest symbol, the least range that a decision can   *)
(* find is what the least range before it leaves.  Each place of a symbol  *)
(* is given a row of that table which no way to it can fall short of.      *)
(***************************************************************************)
EXTENDS InputBound, TLAPS

\* The ranges of the run are some of these.
Normalised ==
  \A start \in Ranges :
    /\ start[1] \in Nat /\ kTop <= start[1] /\ start[1] < 2^21
    /\ start[2] \in Nat /\ start[2] < 2^11

Rng == hi * 2048 + lo

\* Bytes read, counted up to 21: the first symbol of a call has one less.
Used == bytes + requiredInputMax + 1 - avail

Normal(r)   == IF r < 2^24 THEN 256 * r ELSE r
Reads(r)    == IF r < 2^24 THEN 1 ELSE 0
Decided(r)  == 31 * (Normal(r) \div 2048)
HalfLeft(r) == Normal(r) \div 2

\* How many bytes were read and what range is left, before each step of the
\* longest symbol, from the least normalised range of a first symbol: 18
\* decisions, 26 direct bits (from entry 19), 4 align bits (from entry 45);
\* from entry 50, what follows the slot if the distance is short: 5 decisions.
Floor == <<
    <<1, 16777216>>, <<1, 253952>>, <<2, 984064>>, <<3, 3813248>>,
    <<4, 14776336>>, <<5, 57258302>>, <<5, 866698>>, <<6, 3358447>>,
    <<7, 13013955>>, <<8, 50429064>>, <<8, 763313>>, <<9, 2957834>>,
    <<10, 11461599>>, <<11, 44413669>>, <<11, 672266>>, <<12, 2605023>>,
    <<13, 10094437>>, <<14, 39115924>>,
    <<14, 592069>>, <<15, 75784832>>, <<15, 37892416>>, <<15, 18946208>>,
    <<15, 9473104>>, <<16, 1212557312>>, <<16, 606278656>>, <<16, 303139328>>,
    <<16, 151569664>>, <<16, 75784832>>, <<16, 37892416>>, <<16, 18946208>>,
    <<16, 9473104>>, <<17, 1212557312>>, <<17, 606278656>>, <<17, 303139328>>,
    <<17, 151569664>>, <<17, 75784832>>, <<17, 37892416>>, <<17, 18946208>>,
    <<17, 9473104>>, <<18, 1212557312>>, <<18, 606278656>>, <<18, 303139328>>,
    <<18, 151569664>>, <<18, 75784832>>,
    <<18, 37892416>>, <<18, 573562>>, <<19, 2222545>>, <<20, 8612358>>,
    <<21, 33372864>>,
    <<15, 2294248>>, <<16, 8890211>>, <<17, 34449556>>, <<17, 521451>>,
    <<18, 2020611>> >>

Rows == 1 .. 54

\* With u bytes read and r left of the range, a step stands no worse than with
\* k bytes read and m left: a byte that is not read yet is worth a factor 256.
Reached(u, r, k, m) ==
  \/ u <= k - 2
  \/ u = k - 1 /\ 256 * r >= m
  \/ u = k /\ r >= m

AtFloor(i) == Reached(Used, Rng, Floor[i][1], Floor[i][2])

Types ==
  /\ hi \in Nat /\ lo \in Nat /\ lo < 2048 /\ bytes \in Nat
  /\ avail \in {requiredInputMax, requiredInputMax + 1}
  /\ Rng >= 65536

\* The parts of a symbol, with n of their decisions left.
Flags == {"isMatch", "isRep", "isRepG0", "isRep0Long", "isRepG1", "isRepG2",
          "length", "length2", "repLength", "repLength2"}

IsPlace(a, n) ==
  \/ a \in Flags /\ n = 1
  \/ a \in {"literal", "tree", "repTree"} /\ n \in 1 .. 8
  \/ a = "slot" /\ n \in 1 .. 6
  \/ a = "spec" /\ n \in 1 .. 5
  \/ a = "direct" /\ n \in 1 .. 26
  \/ a = "align" /\ n \in 1 .. 4
  \/ a = "done" /\ n = 0

Entry(a, n) ==
  CASE a = "isMatch" -> 1
    [] a = "isRep" -> 2
    [] a \in {"length", "isRepG0"} -> 3
    [] a \in {"length2", "isRep0Long", "isRepG1"} -> 4
    [] a = "isRepG2" -> 5
    [] a = "repLength" -> 6
    [] a = "repLength2" -> 7
    [] a = "literal" -> 10 - n
    [] a = "tree" -> 13 - n
    [] a = "repTree" -> 16 - n
    [] a = "slot" -> 19 - n
    [] a = "spec" -> IF n = 5 THEN 19 ELSE 54 - n
    [] a = "direct" -> 45 - n
    [] a = "align" -> 49 - n
    [] a = "done" -> 49

Place ==
  \/ IsPlace(at, left) /\ AtFloor(Entry(at, left))
  \/ at = "end" /\ Used <= 21

BoundInv == Types /\ Place

----------------------------------------------------------------------------
(* The table. *)

LEMMA Entries ==
  /\ \A i \in Rows : Floor[i][1] \in Nat /\ Floor[i][2] \in Nat
  /\ \A i \in Rows : Floor[i][1] <= 21 /\ Floor[i][2] < 2^32
  BY SMT DEF Floor, Rows

\* Each entry is what a step makes of the one before.
LEMMA Decisions ==
  \A i \in (1 .. 18) \cup (45 .. 48) \cup (50 .. 53) :
    /\ Floor[i + 1][1] = Floor[i][1] + Reads(Floor[i][2])
    /\ Floor[i + 1][2] = Decided(Floor[i][2])
  BY SMT DEF Floor, Reads, Decided, Normal

LEMMA ShortDistance ==
  /\ Floor[50][1] = Floor[19][1] + Reads(Floor[19][2])
  /\ Floor[50][2] = Decided(Floor[19][2])
  BY SMT DEF Floor, Reads, Decided, Normal

LEMMA Halvings ==
  \A i \in 19 .. 44 :
    /\ Floor[i + 1][1] = Floor[i][1] + Reads(Floor[i][2])
    /\ Floor[i + 1][2] = HalfLeft(Floor[i][2])
  <1> DEFINE Halves(i) == /\ Floor[i + 1][1] = Floor[i][1] + Reads(Floor[i][2])
                          /\ Floor[i + 1][2] = HalfLeft(Floor[i][2])
  <1>1. \A i \in 19 .. 25 : Halves(i)
    BY SMT DEF Floor, Reads, HalfLeft, Normal
  <1>2. \A i \in 26 .. 32 : Halves(i)
    BY SMT DEF Floor, Reads, HalfLeft, Normal
  <1>3. \A i \in 33 .. 38 : Halves(i)
    BY SMT DEF Floor, Reads, HalfLeft, Normal
  <1>4. \A i \in 39 .. 44 : Halves(i)
    BY SMTT(20) DEF Floor, Reads, HalfLeft, Normal
  <1> HIDE DEF Halves
  <1>5. \A i \in 19 .. 44 : Halves(i)
    BY <1>1, <1>2, <1>3, <1>4
  <1> QED
    BY <1>5 DEF Halves

\* One entry is no stronger than another: a shorter way to the same place.
Weaker(i, j) ==
  \/ Floor[j][1] >= Floor[i][1] + 2
  \/ Floor[j][1] = Floor[i][1] + 1 /\ Floor[j][2] <= 256 * Floor[i][2]
  \/ Floor[j][1] = Floor[i][1] /\ Floor[j][2] <= Floor[i][2]

LEMMA Shorter ==
  /\ Weaker(5, 6) /\ Weaker(7, 13) /\ Weaker(8, 13)
  /\ Weaker(4, 10) /\ Weaker(5, 10)
  /\ \A i \in {5, 10, 16, 19, 54} : Weaker(i, 49)
  /\ \A j \in (20 .. 43) \cup (50 .. 53) : Weaker(19, j)
  BY SMT DEF Floor, Weaker

LEMMA Implied ==
  ASSUME NEW u \in Int, NEW r \in Nat, NEW i \in Rows, NEW j \in Rows,
         Weaker(i, j), Reached(u, r, Floor[i][1], Floor[i][2])
  PROVE  Reached(u, r, Floor[j][1], Floor[j][2])
  <1> DEFINE k == Floor[i][1]
             m == Floor[i][2]
             k1 == Floor[j][1]
             m1 == Floor[j][2]
  <1>1. k \in Nat /\ m \in Nat /\ k1 \in Nat /\ m1 \in Nat
    BY Entries
  <1>2. Reached(u, r, k, m)
    OBVIOUS
  <1>3. k1 >= k + 2 \/ (k1 = k + 1 /\ m1 <= 256 * m) \/ (k1 = k /\ m1 <= m)
    BY DEF Weaker
  <1> HIDE DEF k, m, k1, m1
  <1>4. Reached(u, r, k1, m1)
    BY <1>1, <1>2, <1>3 DEF Reached
  <1> QED
    BY <1>4 DEF k1, m1

\* A step from no worse than (k, m) arrives no worse than what the step makes
\* of (k, m), if it leaves more of a larger range and 256 times what it leaves
\* of the least normalised range is more than all it leaves of any.
LEMMA NoWorse ==
  ASSUME NEW u \in Int, NEW r \in Nat, NEW r1 \in Nat,
         NEW k \in Nat, NEW m \in Nat, NEW d \in Nat,
         r >= 65536, Reached(u, r, k, m),
         256 * r1 >= d, Normal(r) >= Normal(m) => r1 >= d
  PROVE  Reached(u + Reads(r), r1, k + Reads(m), d)
  BY DEF Reached, Reads, Normal

----------------------------------------------------------------------------
(* The steps, on the range as one number. *)

LEMMA Normalising ==
  ASSUME NEW h \in Nat, NEW l \in Nat, l < 2048
  PROVE  /\ Norm(h, l)[1] \in Nat /\ Norm(h, l)[2] \in Nat /\ Norm(h, l)[2] < 2048
         /\ Norm(h, l)[1] * 2048 + Norm(h, l)[2] = Normal(h * 2048 + l)
  BY DEF Norm, Normal, kTop

LEMMA Reading ==
  ASSUME NEW h \in Nat, NEW l \in Nat, l < 2048
  PROVE  Read(h) = Reads(h * 2048 + l)
  BY DEF Read, Reads, kTop

LEMMA SmallestPart ==
  ASSUME NEW h \in Nat, NEW l \in Nat, l < 2048, NEW p
  PROVE  /\ Smallest(h, l, p)[1] \in Nat
         /\ Smallest(h, l, p)[2] \in Nat /\ Smallest(h, l, p)[2] < 2048
         /\ Smallest(h, l, p)[1] * 2048 + Smallest(h, l, p)[2]
              >= 31 * ((h * 2048 + l) \div 2048)
  BY DEF Smallest, Least

LEMMA Halving ==
  ASSUME NEW h \in Nat, NEW l \in Nat, l < 2048
  PROVE  /\ h \div 2 \in Nat /\ (h % 2) * 2^10 + (l \div 2) \in Nat
         /\ (h % 2) * 2^10 + (l \div 2) < 2048
         /\ (h \div 2) * 2048 + ((h % 2) * 2^10 + (l \div 2))
              = (h * 2048 + l) \div 2
  OBVIOUS

\* What Shrink makes of a range that is still wide enough.
LEMMA Shrinks ==
  ASSUME Types, NEW h \in Nat, NEW l \in Nat, l < 2048, h * 2048 + l >= 65536,
         Shrink(<<h, l>>)
  PROVE  Types' /\ Rng' = h * 2048 + l /\ Used' = Used + Reads(Rng)
  <1>1. hi' = h /\ lo' = l /\ avail' = avail /\ bytes' = bytes + Read(hi)
    BY DEF Shrink
  <1>2. hi \in Nat /\ lo \in Nat /\ lo < 2048 /\ bytes \in Nat
    BY DEF Types
  <1>3. avail \in {20, 21}
    BY DEF Types, requiredInputMax
  <1>4. Read(hi) = Reads(Rng) /\ Reads(Rng) \in {0, 1}
    <2>1. Read(hi) = Reads(Rng)
      BY <1>2, Reading DEF Rng
    <2>2. Reads(Rng) \in {0, 1}
      BY DEF Reads
    <2> QED
      BY <2>1, <2>2
  <1>5. bytes' = bytes + Reads(Rng) /\ bytes' \in Nat
    BY <1>1, <1>2, <1>4
  <1>6. Rng' = h * 2048 + l
    BY <1>1 DEF Rng
  <1>7. Used' = Used + Reads(Rng)
    BY <1>1, <1>2, <1>3, <1>4, <1>5 DEF Used, requiredInputMax
  <1>8. Types'
    BY <1>1, <1>3, <1>5, <1>6 DEF Types, requiredInputMax
  <1> QED
    BY <1>6, <1>7, <1>8

\* A decision leaves at least 31 of every 2048.
LEMMA DecisionLeaves ==
  ASSUME Types, Decision
  PROVE  Types' /\ Rng' >= Decided(Rng) /\ Used' = Used + Reads(Rng)
  <1>1. hi \in Nat /\ lo \in Nat /\ lo < 2048
    BY DEF Types
  <1>2. PICK h \in Nat, l \in Nat :
          l < 2048 /\ Norm(hi, lo) = <<h, l>> /\ h * 2048 + l = Normal(Rng)
    <2>1. Norm(hi, lo) = <<Norm(hi, lo)[1], Norm(hi, lo)[2]>>
      BY DEF Norm
    <2> QED
      BY <1>1, <2>1, Normalising DEF Rng
  <1>3. PICK h1 \in Nat, l1 \in Nat :
          /\ l1 < 2048 /\ Smallest(h, l, part) = <<h1, l1>>
          /\ h1 * 2048 + l1 >= 31 * ((h * 2048 + l) \div 2048)
    <2>1. Smallest(h, l, part)
            = <<Smallest(h, l, part)[1], Smallest(h, l, part)[2]>>
      BY DEF Smallest
    <2> QED
      BY <1>2, <2>1, SmallestPart
  <1>4. h1 * 2048 + l1 >= Decided(Rng)
    BY <1>2, <1>3 DEF Decided
  <1>5. Decided(Rng) >= 65536
    <2>1. Rng \in Nat /\ Rng >= 65536
      BY <1>1 DEF Types, Rng
    <2> QED
      BY <2>1 DEF Decided, Normal
  <1>6. Decided(Rng) \in Int
    BY <1>2 DEF Decided
  <1>7. h1 * 2048 + l1 >= 65536
    BY <1>4, <1>5, <1>6
  <1>8. Shrink(<<h1, l1>>)
    BY <1>2, <1>3 DEF Decision
  <1>9. Types' /\ Rng' = h1 * 2048 + l1 /\ Used' = Used + Reads(Rng)
    BY <1>3, <1>7, <1>8, Shrinks
  <1> QED
    BY <1>4, <1>9

\* A direct bit leaves half.
LEMMA DirectBitLeaves ==
  ASSUME Types, DirectBit
  PROVE  Types' /\ Rng' = HalfLeft(Rng) /\ Used' = Used + Reads(Rng)
  <1>1. hi \in Nat /\ lo \in Nat /\ lo < 2048
    BY DEF Types
  <1>2. PICK h \in Nat, l \in Nat :
          l < 2048 /\ Norm(hi, lo) = <<h, l>> /\ h * 2048 + l = Normal(Rng)
    <2>1. Norm(hi, lo) = <<Norm(hi, lo)[1], Norm(hi, lo)[2]>>
      BY DEF Norm
    <2> QED
      BY <1>1, <2>1, Normalising DEF Rng
  <1>3. PICK h1 \in Nat, l1 \in Nat :
          /\ l1 < 2048 /\ h1 = h \div 2 /\ l1 = (h % 2) * 2^10 + (l \div 2)
          /\ h1 * 2048 + l1 = HalfLeft(Rng)
    BY <1>2, Halving DEF HalfLeft
  <1>4. HalfLeft(Rng) >= 65536
    <2>1. Rng \in Nat /\ Rng >= 65536
      BY <1>1 DEF Types, Rng
    <2> QED
      BY <2>1 DEF HalfLeft, Normal
  <1>5. Shrink(<<h1, l1>>)
    BY <1>2, <1>3 DEF DirectBit
  <1>6. Types' /\ Rng' = h1 * 2048 + l1 /\ Used' = Used + Reads(Rng)
    BY <1>3, <1>4, <1>5, Shrinks
  <1> QED
    BY <1>3, <1>6

----------------------------------------------------------------------------
(* Each step goes from an entry of the table to the next. *)

LEMMA RangeNat ==
  Types' => Rng' \in Nat
  <1> SUFFICES ASSUME Types' PROVE Rng' \in Nat
    OBVIOUS
  <1>1. PICK h \in Nat, l \in Nat : h = hi' /\ l = lo'
    BY DEF Types
  <1>2. Rng' = h * 2048 + l
    BY <1>1 DEF Rng
  <1> QED
    BY <1>2

LEMMA DecisionAdvances ==
  ASSUME Types, Decision,
         NEW i \in Rows, NEW j \in Rows, AtFloor(i),
         Floor[j][1] = Floor[i][1] + Reads(Floor[i][2]),
         Floor[j][2] = Decided(Floor[i][2])
  PROVE  AtFloor(j)'
  <1> DEFINE u == Used
             r == Rng
             k == Floor[i][1]
             m == Floor[i][2]
  <1>1. u \in Int /\ r \in Nat /\ r >= 65536
    BY DEF Types, Used, Rng, requiredInputMax
  <1>2. k \in Nat /\ m \in Nat /\ m < 2^32
    BY Entries
  <1>3. PICK r1 \in Nat : r1 = Rng'
    BY DecisionLeaves, RangeNat
  <1>4. r1 >= Decided(r) /\ Used' = u + Reads(r)
    BY <1>3, DecisionLeaves
  <1>5. Reached(u, r, k, m)
    BY DEF AtFloor
  <1> HIDE DEF u, r, k, m
  <1>6. Decided(m) \in Nat /\ 256 * r1 >= Decided(m)
    BY <1>1, <1>2, <1>4 DEF Decided, Normal
  <1>7. Normal(r) >= Normal(m) => r1 >= Decided(m)
    BY <1>1, <1>2, <1>4 DEF Decided, Normal
  <1>8. Reached(u + Reads(r), r1, k + Reads(m), Decided(m))
    BY <1>1, <1>2, <1>5, <1>6, <1>7, NoWorse
  <1> QED
    BY <1>3, <1>4, <1>8 DEF AtFloor, k, m

LEMMA DirectBitAdvances ==
  ASSUME Types, DirectBit,
         NEW i \in Rows, NEW j \in Rows, AtFloor(i),
         Floor[j][1] = Floor[i][1] + Reads(Floor[i][2]),
         Floor[j][2] = HalfLeft(Floor[i][2])
  PROVE  AtFloor(j)'
  <1> DEFINE u == Used
             r == Rng
             k == Floor[i][1]
             m == Floor[i][2]
  <1>1. u \in Int /\ r \in Nat /\ r >= 65536
    BY DEF Types, Used, Rng, requiredInputMax
  <1>2. k \in Nat /\ m \in Nat /\ m < 2^32
    BY Entries
  <1>3. PICK r1 \in Nat : r1 = Rng'
    BY DirectBitLeaves, RangeNat
  <1>4. r1 = HalfLeft(r) /\ Used' = u + Reads(r)
    BY <1>3, DirectBitLeaves
  <1>5. Reached(u, r, k, m)
    BY DEF AtFloor
  <1> HIDE DEF u, r, k, m
  <1>6. HalfLeft(m) \in Nat /\ 256 * r1 >= HalfLeft(m)
    BY <1>1, <1>2, <1>4 DEF HalfLeft, Normal
  <1>7. Normal(r) >= Normal(m) => r1 >= HalfLeft(m)
    BY <1>1, <1>2, <1>4 DEF HalfLeft, Normal
  <1>8. Reached(u + Reads(r), r1, k + Reads(m), HalfLeft(m))
    BY <1>1, <1>2, <1>5, <1>6, <1>7, NoWorse
  <1> QED
    BY <1>3, <1>4, <1>8 DEF AtFloor, k, m

LEMMA StillReached ==
  ASSUME Types', NEW i \in Rows, NEW j \in Rows, Weaker(i, j), AtFloor(i)'
  PROVE  AtFloor(j)'
  <1>1. PICK r \in Nat : r = Rng'
    BY RangeNat
  <1>2. PICK u \in Int : u = Used'
    <2>1. PICK b \in Nat, v \in Nat : b = bytes' /\ v = avail'
      BY DEF Types, requiredInputMax
    <2>2. b + 21 - v \in Int
      OBVIOUS
    <2>3. b + 21 - v = Used'
      BY <2>1 DEF Used, requiredInputMax
    <2> QED
      BY <2>2, <2>3, Zenon
  <1>3. Reached(u, r, Floor[i][1], Floor[i][2])
    BY <1>1, <1>2 DEF AtFloor
  <1>4. Reached(u, r, Floor[j][1], Floor[j][2])
    BY <1>3, Implied
  <1> QED
    BY <1>1, <1>2, <1>4 DEF AtFloor

\* One decision leads from entry i to entry j.
Leads(i, j) ==
  \/ i \in (1 .. 18) \cup (45 .. 48) \cup (50 .. 53)
     /\ (j = i + 1 \/ Weaker(i + 1, j))
  \/ i = 19 /\ j = 50

\* The last decision of a symbol.
LEMMA LastLeads ==
  \A i \in {9, 15, 18, 48, 53} : Leads(i, 49)
  <1>1. Weaker(10, 49) /\ Weaker(16, 49) /\ Weaker(19, 49) /\ Weaker(54, 49)
    BY Shorter
  <1> QED
    BY <1>1 DEF Leads

LEMMA DecisionLeads ==
  ASSUME Types, Decision,
         NEW i \in Rows, NEW j \in Rows, AtFloor(i), Leads(i, j)
  PROVE  AtFloor(j)'
  <1>1. CASE /\ i \in (1 .. 18) \cup (45 .. 48) \cup (50 .. 53)
             /\ j = i + 1 \/ Weaker(i + 1, j)
    <2>1. PICK k \in Rows : k = i + 1
      BY <1>1 DEF Rows
    <2>2. AtFloor(k)'
      BY <1>1, <2>1, Decisions, DecisionAdvances
    <2>3. j = k \/ Weaker(k, j)
      BY <1>1, <2>1, Zenon
    <2> QED
      BY <2>2, <2>3, DecisionLeaves, StillReached, Zenon
  <1>2. CASE i = 19 /\ j = 50
    BY <1>2, ShortDistance, DecisionAdvances
  <1> QED
    BY <1>1, <1>2 DEF Leads

----------------------------------------------------------------------------
(* The ways through a symbol follow the table. *)

LEMMA EntryInTable ==
  ASSUME NEW a, NEW n, IsPlace(a, n)
  PROVE  Entry(a, n) \in Rows
  BY DEF IsPlace, Entry, Flags, Rows

LEMMA Stays ==
  ASSUME NEW a, NEW n \in Nat, IsPlace(a, n), n > 1, a # "direct"
  PROVE  IsPlace(a, n - 1) /\ Leads(Entry(a, n), Entry(a, n - 1))
  <1>1. CASE a = "literal"
    BY <1>1 DEF IsPlace, Entry, Leads, Flags
  <1>2. CASE a = "tree"
    BY <1>2 DEF IsPlace, Entry, Leads, Flags
  <1>3. CASE a = "repTree"
    BY <1>3 DEF IsPlace, Entry, Leads, Flags
  <1>4. CASE a = "slot"
    BY <1>4 DEF IsPlace, Entry, Leads, Flags
  <1>5. CASE a = "spec"
    BY <1>5 DEF IsPlace, Entry, Leads, Flags
  <1>6. CASE a = "align"
    BY <1>6 DEF IsPlace, Entry, Leads, Flags
  <1> QED
    BY <1>1, <1>2, <1>3, <1>4, <1>5, <1>6 DEF IsPlace

\* What follows a part leads on, whichever way the symbol goes.
LEMMA Follows ==
  ASSUME IsPlace(at, left), left \in {0, 1}, at \notin {"direct", "done"}, Follow
  PROVE  IsPlace(at', left') /\ Leads(Entry(at, left), Entry(at', left'))
  <1>1. CASE at = "isMatch"
    <2>1. \/ at' = "literal" /\ left' = 8
          \/ at' = "isRep" /\ left' = 1
      BY <1>1 DEF Follow, Enter
    <2> QED
      BY <1>1, <2>1 DEF IsPlace, Entry, Leads, Flags
  <1>2. CASE at = "isRep"
    <2>1. \/ at' = "length" /\ left' = 1
          \/ at' = "isRepG0" /\ left' = 1
      BY <1>2 DEF Follow, Enter
    <2> QED
      BY <1>2, <2>1 DEF IsPlace, Entry, Leads, Flags
  <1>3. CASE at = "isRepG0"
    <2>1. \/ at' = "isRep0Long" /\ left' = 1
          \/ at' = "isRepG1" /\ left' = 1
      BY <1>3 DEF Follow, Enter
    <2> QED
      BY <1>3, <2>1 DEF IsPlace, Entry, Leads, Flags
  <1>4. CASE at = "isRep0Long"
    <2>1. \/ at' = "done" /\ left' = 0
          \/ at' = "repLength" /\ left' = 1
      BY <1>4 DEF Follow, Enter
    <2> QED
      BY <1>4, <2>1, Shorter DEF IsPlace, Entry, Leads, Flags
  <1>5. CASE at = "isRepG1"
    <2>1. \/ at' = "repLength" /\ left' = 1
          \/ at' = "isRepG2" /\ left' = 1
      BY <1>5 DEF Follow, Enter
    <2> QED
      BY <1>5, <2>1, Shorter DEF IsPlace, Entry, Leads, Flags
  <1>6. CASE at = "isRepG2"
    <2>1. at' = "repLength" /\ left' = 1
      BY <1>6 DEF Follow, Enter
    <2> QED
      BY <1>6, <2>1 DEF IsPlace, Entry, Leads, Flags
  <1>7. CASE at = "length"
    <2>1. \/ at' = "tree" /\ left' = 3
          \/ at' = "length2" /\ left' = 1
      BY <1>7 DEF Follow, Enter
    <2> QED
      BY <1>7, <2>1, Shorter DEF IsPlace, Entry, Leads, Flags
  <1>8. CASE at = "length2"
    <2>1. at' = "tree" /\ left' \in {3, 8}
      BY <1>8 DEF Follow, Enter
    <2> QED
      BY <1>8, <2>1, Shorter DEF IsPlace, Entry, Leads, Flags
  <1>9. CASE at = "tree"
    <2>1. at' = "slot" /\ left' = 6
      BY <1>9 DEF Follow, Enter
    <2> QED
      BY <1>9, <2>1 DEF IsPlace, Entry, Leads, Flags
  <1>10. CASE at = "repLength"
    <2>1. \/ at' = "repTree" /\ left' = 3
          \/ at' = "repLength2" /\ left' = 1
      BY <1>10 DEF Follow, Enter
    <2> QED
      BY <1>10, <2>1, Shorter DEF IsPlace, Entry, Leads, Flags
  <1>11. CASE at = "repLength2"
    <2>1. at' = "repTree" /\ left' \in {3, 8}
      BY <1>11 DEF Follow, Enter
    <2> QED
      BY <1>11, <2>1, Shorter DEF IsPlace, Entry, Leads, Flags
  <1>12. CASE at = "slot"
    <2>1. \/ at' = "done" /\ left' = 0
          \/ at' = "spec" /\ left' \in 1 .. 5
          \/ at' = "direct" /\ left' \in 2 .. 26
      BY <1>12 DEF Follow, Enter
    <2>2. Entry(at, left) = 18
      BY <1>12 DEF Entry, IsPlace, Flags
    <2>3. CASE at' = "done" /\ left' = 0
      <3>1. IsPlace(at', left') /\ Entry(at', left') = 49
        BY <2>3 DEF IsPlace, Entry
      <3> QED
        BY <2>2, <3>1, LastLeads
    <2>4. CASE at' = "spec" /\ left' \in 1 .. 5
      <3>1. PICK j \in {19} \cup (50 .. 53) :
              IsPlace(at', left') /\ Entry(at', left') = j
        BY <2>4 DEF IsPlace, Entry, Flags
      <3>2. j = 19 \/ Weaker(19, j)
        BY Shorter
      <3>3. Leads(18, j)
        BY <3>2 DEF Leads
      <3> QED
        BY <2>2, <3>1, <3>3
    <2>5. CASE at' = "direct" /\ left' \in 2 .. 26
      <3>1. PICK j \in 19 .. 43 : IsPlace(at', left') /\ Entry(at', left') = j
        BY <2>5 DEF IsPlace, Entry, Flags
      <3>2. j = 19 \/ Weaker(19, j)
        BY Shorter
      <3>3. Leads(18, j)
        BY <3>2 DEF Leads
      <3> QED
        BY <2>2, <3>1, <3>3
    <2> QED
      BY <2>1, <2>3, <2>4, <2>5
  <1>13. CASE at \in {"literal", "repTree", "spec", "align"}
    <2>1. at' = "done" /\ left' = 0
      BY <1>13 DEF Follow, Enter
    <2>2. Entry(at, left) \in {9, 15, 53, 48}
      BY <1>13 DEF Entry, IsPlace, Flags
    <2>3. IsPlace(at', left') /\ Entry(at', left') = 49
      BY <2>1 DEF IsPlace, Entry
    <2> QED
      BY <2>2, <2>3, LastLeads
  <1> QED
    BY <1>1, <1>2, <1>3, <1>4, <1>5, <1>6, <1>7, <1>8, <1>9, <1>10, <1>11, <1>12,
       <1>13 DEF IsPlace, Flags

\* Direct bits go down the part of the table that halves.
LEMMA DirectBitLeads ==
  ASSUME BoundInv, DirectBit
  PROVE  BoundInv'
  <1>1. Types /\ at = "direct" /\ left \in 1 .. 26 /\ AtFloor(Entry(at, left))
    BY DEF BoundInv, Place, IsPlace, DirectBit, Flags
  <1>2. PICK i \in 19 .. 44 : Entry(at, left) = i /\ i = 45 - left
    BY <1>1 DEF Entry
  <1>3. PICK j \in Rows : j = i + 1
    BY DEF Rows
  <1>4. AtFloor(i)
    BY <1>1, <1>2
  <1>5. AtFloor(j)'
    <2>1. /\ Floor[j][1] = Floor[i][1] + Reads(Floor[i][2])
          /\ Floor[j][2] = HalfLeft(Floor[i][2])
      BY <1>3, Halvings
    <2>2. i \in Rows
      BY DEF Rows
    <2> QED
      BY <1>1, <1>4, <2>1, <2>2, DirectBitAdvances
  <1>6. IsPlace(at', left') /\ Entry(at', left') = j
    <2>1. CASE left > 1
      <3>1. at' = "direct" /\ left' = left - 1
        BY <1>1, <2>1 DEF DirectBit, Stay
      <3> QED
        BY <1>1, <1>2, <1>3, <2>1, <3>1 DEF IsPlace, Entry
    <2>2. CASE left = 1
      <3>1. at' = "align" /\ left' = 4
        BY <2>2 DEF DirectBit, Enter
      <3> QED
        BY <1>2, <1>3, <2>2, <3>1 DEF IsPlace, Entry
    <2> QED
      BY <1>1, <2>1, <2>2
  <1>7. Place'
    BY <1>5, <1>6 DEF Place
  <1> QED
    BY <1>1, <1>7, DirectBitLeaves DEF BoundInv

LEMMA BitLeads ==
  ASSUME BoundInv, Bit
  PROVE  BoundInv'
  <1>1. Types /\ IsPlace(at, left) /\ AtFloor(Entry(at, left)) /\ Decision
        /\ at \notin {"direct", "done"}
    BY DEF BoundInv, Place, Bit
  <1>2. IsPlace(at', left') /\ Leads(Entry(at, left), Entry(at', left'))
    <2>1. left \in Nat
      BY <1>1 DEF IsPlace
    <2>2. CASE left > 1
      <3>1. at' = at /\ left' = left - 1
        BY <2>2 DEF Bit, Stay
      <3> QED
        BY <1>1, <2>1, <2>2, <3>1, Stays
    <2>3. CASE left \in {0, 1}
      <3>1. Follow
        BY <2>3 DEF Bit
      <3> QED
        BY <1>1, <2>3, <3>1, Follows
    <2> QED
      BY <2>1, <2>2, <2>3
  <1>3. PICK i \in Rows : i = Entry(at, left)
    BY <1>1, EntryInTable
  <1>4. PICK j \in Rows : j = Entry(at', left')
    BY <1>2, EntryInTable
  <1>5. AtFloor(j)'
    BY <1>1, <1>2, <1>3, <1>4, DecisionLeads
  <1>6. Place'
    BY <1>2, <1>4, <1>5 DEF Place
  <1> QED
    BY <1>1, <1>6, DecisionLeaves DEF BoundInv

\* When all 21 bytes are read, the range is wide enough not to need another.
LEMMA FinLeads ==
  ASSUME BoundInv, Fin
  PROVE  BoundInv'
  <1>1. Types /\ AtFloor(49) /\ at' = "end" /\ Shrink(Norm(hi, lo))
    BY DEF BoundInv, Place, Fin, Entry
  <1>2. hi \in Nat /\ lo \in Nat /\ lo < 2048
    BY <1>1 DEF Types
  <1>3. PICK h \in Nat, l \in Nat :
          l < 2048 /\ Norm(hi, lo) = <<h, l>> /\ h * 2048 + l = Normal(Rng)
    <2>1. Norm(hi, lo) = <<Norm(hi, lo)[1], Norm(hi, lo)[2]>>
      BY DEF Norm
    <2> QED
      BY <1>2, <2>1, Normalising DEF Rng
  <1>4. Rng \in Nat /\ Rng >= 65536
    BY <1>1, <1>2 DEF Types, Rng
  <1>5. h * 2048 + l >= 65536
    BY <1>3, <1>4 DEF Normal
  <1>6. Types' /\ Used' = Used + Reads(Rng)
    BY <1>1, <1>3, <1>5, Shrinks
  <1>7. Reached(Used, Rng, 21, 33372864)
    BY <1>1 DEF AtFloor, Floor
  <1>8. Used \in Int
    BY <1>1 DEF Types, Used, requiredInputMax
  <1>9. Used + Reads(Rng) <= 21
    BY <1>4, <1>7, <1>8 DEF Reached, Reads
  <1> QED
    BY <1>1, <1>6, <1>9 DEF BoundInv, Place

----------------------------------------------------------------------------
(* The theorem. *)

\* The first symbol of a call begins on the table; a later one has a byte more
\* before it, and a range that is wide enough for that.
LEMMA InitLeads ==
  ASSUME Normalised, ~AfterGo, Init
  PROVE  BoundInv
  <1>1. PICK start \in Ranges, p \in Parts, first \in BOOLEAN :
          LET range == IF first /\ ~AfterGo
                       THEN start ELSE Smallest(start[1], start[2], p)
          IN  /\ hi = range[1] /\ lo = range[2]
              /\ avail = IF first THEN requiredInputMax ELSE requiredInputMax + 1
    BY DEF Init
  <1>2. at = "isMatch" /\ left = 1 /\ bytes = 0
    BY DEF Init
  <1>3. PICK h \in Nat, l \in Nat :
          h = start[1] /\ l = start[2] /\ h >= 8192 /\ l < 2048
    BY DEF Normalised, kTop
  <1>4. CASE first
    <2>1. hi = h /\ lo = l /\ avail = 20
      BY <1>1, <1>3, <1>4 DEF requiredInputMax
    <2>2. Rng \in Nat /\ Rng >= 16777216
      BY <1>3, <2>1 DEF Rng
    <2>3. Types
      BY <1>2, <1>3, <2>1, <2>2 DEF Types, requiredInputMax
    <2>4. Used = 1
      BY <1>2, <2>1 DEF Used, requiredInputMax
    <2>5. Reached(Used, Rng, 1, 16777216)
      BY <2>2, <2>4 DEF Reached
    <2> QED
      BY <1>2, <2>3, <2>5
         DEF BoundInv, Place, IsPlace, Flags, AtFloor, Entry, Floor
  <1>5. CASE ~first
    <2>1. /\ hi = Smallest(h, l, p)[1] /\ lo = Smallest(h, l, p)[2]
          /\ avail = 21
      BY <1>1, <1>3, <1>5 DEF requiredInputMax
    <2>2. hi \in Nat /\ lo \in Nat /\ lo < 2048
      BY <1>3, <2>1, SmallestPart
    <2>3. Rng >= 31 * ((h * 2048 + l) \div 2048)
      BY <1>3, <2>1, SmallestPart DEF Rng
    <2>4. (h * 2048 + l) \div 2048 >= 8192
      BY <1>3
    <2>5. Rng \in Nat /\ Rng >= 253952
      BY <2>2, <2>3, <2>4 DEF Rng
    <2>6. Types
      BY <1>2, <2>1, <2>2, <2>5 DEF Types, requiredInputMax
    <2>7. Used = 0
      BY <1>2, <2>1 DEF Used, requiredInputMax
    <2>8. Reached(Used, Rng, 1, 16777216)
      BY <2>5, <2>7 DEF Reached
    <2> QED
      BY <1>2, <2>6, <2>8
         DEF BoundInv, Place, IsPlace, Flags, AtFloor, Entry, Floor
  <1> QED
    BY <1>4, <1>5

LEMMA NextLeads ==
  ASSUME BoundInv, [Next]_inputVars
  PROVE  BoundInv'
  <1>1. CASE Bit
    BY <1>1, BitLeads
  <1>2. CASE DirectBit
    BY <1>2, DirectBitLeads
  <1>3. CASE Fin
    BY <1>3, FinLeads
  <1>4. CASE UNCHANGED inputVars
    BY <1>4 DEF inputVars, BoundInv, Types, Place, AtFloor, Rng, Used
  <1> QED
    BY <1>1, <1>2, <1>3, <1>4 DEF Next, Returned

LEMMA WithinInput ==
  BoundInv => EnoughInput
  <1> SUFFICES ASSUME BoundInv PROVE bytes <= avail
    BY DEF EnoughInput
  <1>1. bytes \in Nat /\ avail \in {20, 21}
    BY DEF BoundInv, Types, requiredInputMax
  <1>2. Used <= 21
    <2>1. CASE at = "end" /\ Used <= 21
      BY <2>1
    <2>2. CASE IsPlace(at, left) /\ AtFloor(Entry(at, left))
      <3>1. PICK i \in Rows : AtFloor(i)
        BY <2>2, EntryInTable
      <3>2. Floor[i][1] \in Nat /\ Floor[i][1] <= 21
        BY Entries
      <3> QED
        BY <1>1, <3>1, <3>2 DEF AtFloor, Reached, Used, requiredInputMax
    <2> QED
      BY <2>1, <2>2 DEF BoundInv, Place
  <1> QED
    BY <1>1, <1>2 DEF Used, requiredInputMax

\* The 20 bytes that tryDecodeAsm asks for before it starts the assembly are
\* enough for any symbol and the normalisation after it, if the range is
\* normalised when the call begins, as init and the assembly itself leave it.
\* (After decodeLoop it need not be: the run input_bound_mixed.)
THEOREM TwentyBytesSuffice ==
  ASSUME Normalised, ~AfterGo
  PROVE  Spec => []EnoughInput
  <1>1. Init => BoundInv
    BY InitLeads
  <1>2. BoundInv /\ [Next]_inputVars => BoundInv'
    BY NextLeads
  <1>3. BoundInv => EnoughInput
    BY WithinInput
  <1> QED
    BY <1>1, <1>2, <1>3, PTL DEF Spec
=============================================================================
