-------------------------- MODULE RangeInputProofs --------------------------
(***************************************************************************)
(* Proofs about the input buffer, for every size of the buffer, the source, *)
(* the chunks and a symbol's input.  What the runs check of it follows from  *)
(* BufferHolds, which is inductive once it is known where the source stands  *)
(* relative to the end of the chunk (Stands), what left the range (RangeLeft)  *)
(* and that the assembly keeps its limit.                                    *)
(***************************************************************************)
EXTENDS RangeInput, TLAPS

Labels == {"init", "initByte", "decode", "asm", "drain", "header", "uncomp", "fault"}
Using  == {"init", "initByte", "decode", "asm"}

Types ==
  /\ stream \in Nat /\ raw \in Int /\ boundary \in Int /\ wanted \in Int /\ next \in Int
  /\ pc \in Labels /\ kind \in {"lzma", "lzma2"}
  /\ eof \in BOOLEAN /\ wrong \in BOOLEAN /\ lost \in BOOLEAN

\* Nothing past the end is read; the end is noted only there; init starts from
\* an empty buffer.
Stands ==
  /\ pc # "header" => raw <= Limit
  /\ pc \in Using /\ ~lost /\ eof => raw = Limit
  /\ pc = "init" /\ ~lost => pos = end

\* The assembly is entered after init, decodeLoop or its own fin, never in
\* the middle of a call of its own.
RangeLeft ==
  /\ pc = "decode" => rng = "normal" \/ rng = "go"
  /\ pc = "init" => wanted = InitLen
  /\ pc = "initByte" /\ wanted # InitLen => rng = "normal"

InputInv ==
  /\ Types /\ Stands /\ RangeLeft /\ BufferHolds /\ InputInOrder /\ AsmWithinInput /\ EofOnlyAtEnd
  /\ ~DrainFails => ChunkFraming

-----------------------------------------------------------------------------
LEMMA Sizes ==
  /\ BufSize \in Nat /\ Required \in Nat /\ InitLen \in Nat /\ HeaderLen \in Nat /\ SrcLen \in Nat
  /\ BufSize > 0 /\ Required > 0 /\ Required <= BufSize /\ SrcLen > 0
  /\ PackSizes \subseteq Nat \ {0}
  BY InputAssumption

LEMMA Ends ==
  ASSUME NEW s \in Nat
  PROVE  /\ (s + 1) * SrcLen \in Int
         /\ (s + 1 + 1) * SrcLen = (s + 1) * SrcLen + SrcLen
<1>1. SrcLen \in Int
  BY Sizes
<1>2. QED
  BY <1>1

LEMMA LimitType ==
  ASSUME Types
  PROVE  Limit \in Int /\ SrcEnd \in Int /\ Limit <= boundary /\ Limit <= SrcEnd
  BY Ends DEF Types, Limit, SrcEnd, Least

\* Reads return what there is room for and what the source has, and the end
\* only at the end.
LEMMA Returns ==
  ASSUME Types, NEW room \in Nat, raw <= Limit, NEW g \in Got(room)
  PROVE  /\ g.n \in 0 .. room /\ raw + g.n <= Limit
         /\ g.err = "eof" => raw + g.n = Limit
         /\ g.err = "none" \/ g.err = "fail" \/ g.err = "eof"
<1>1. Limit \in Int /\ raw \in Int
  BY LimitType DEF Types
<1> DEFINE most == Least(room, Limit - raw)
<1>2. most \in 0 .. room /\ raw + most <= Limit
  BY <1>1 DEF Least
<1>3. \/ g \in {[n |-> k, err |-> "none"] : k \in 0 .. most}
      \/ g \in {[n |-> k, err |-> "fail"] : k \in 0 .. most}
      \/ g = [n |-> most, err |-> "eof"] /\ raw + most = Limit
  BY DEF Got
<1> HIDE DEF most
<1>4. QED
  BY <1>1, <1>2, <1>3

LEMMA Arrivals ==
  ASSUME NEW b \in [0 .. BufSize - 1 -> Int], NEW n \in Nat, NEW g, g.n \in Nat, raw \in Int
  PROVE  /\ Arrived(b, n, g) \in [0 .. BufSize - 1 -> Int]
         /\ \A i \in 0 .. BufSize - 1 :
              Arrived(b, n, g)[i] = IF i >= n /\ i < n + g.n THEN raw + i - n ELSE b[i]
  BY Sizes DEF Arrived

\* A fill replaces the buffer by the next bytes of the source.
LEMMA Filled ==
  ASSUME Types, BufferHolds, raw <= Limit, NEW g \in Got(BufSize), FillBuffer(g)
  PROVE  /\ buf' \in [0 .. BufSize - 1 -> Int] /\ end' \in 0 .. BufSize
         /\ end' = g.n /\ raw' = raw + end' /\ raw' \in Int /\ raw' <= Limit
         /\ \A i \in 0 .. end' - 1 : buf'[i] = raw + i
         /\ eof' \in BOOLEAN /\ (eof' => raw' = Limit)
         /\ FillFails(g) /\ Error(g) = "unexpectedEOF" => g.n = 0 /\ raw = Limit
<1>1. /\ g.n \in 0 .. BufSize /\ raw + g.n <= Limit
      /\ g.err = "eof" => raw + g.n = Limit
      /\ g.err = "none" \/ g.err = "fail" \/ g.err = "eof"
  BY Returns, Sizes
<1>2. raw \in Int /\ Limit \in Int
  BY LimitType DEF Types
<1>3. buf \in [0 .. BufSize - 1 -> Int] /\ g.n \in Nat
  BY <1>1 DEF BufferHolds
<1>4. /\ Arrived(buf, 0, g) \in [0 .. BufSize - 1 -> Int]
      /\ \A i \in 0 .. BufSize - 1 :
           Arrived(buf, 0, g)[i] = IF i >= 0 /\ i < 0 + g.n THEN raw + i - 0 ELSE buf[i]
  BY <1>2, <1>3, Sizes DEF Arrived
<1>5. /\ buf' = Arrived(buf, 0, g) /\ end' = g.n /\ raw' = raw + g.n /\ eof' = (g.err = "eof")
  BY DEF FillBuffer, Took
<1>6. ASSUME NEW i \in 0 .. end' - 1 PROVE buf'[i] = raw + i
  <2>1. i \in 0 .. BufSize - 1 /\ i >= 0 /\ i < 0 + g.n
    BY <1>1, <1>5, Sizes
  <2>2. QED
    BY <1>2, <1>4, <1>5, <2>1
<1>7. FillFails(g) /\ Error(g) = "unexpectedEOF" => g.n = 0 /\ raw = Limit
  BY <1>1, <1>2 DEF FillFails, Error
<1>8. buf' \in [0 .. BufSize - 1 -> Int]
  BY <1>4, <1>5
<1>9. end' \in 0 .. BufSize /\ raw' = raw + end' /\ raw' \in Int /\ raw' <= Limit
  BY <1>1, <1>2, <1>5, Sizes
<1>10. eof' \in BOOLEAN /\ (eof' => raw' = Limit)
  BY <1>1, <1>5
<1>11. QED
  BY <1>5, <1>6, <1>7, <1>8, <1>9, <1>10

\* Bytes used from a place that holds the next ones are right.
LEMMA UsesRight ==
  ASSUME NEW b, NEW p \in Nat, NEW k \in Nat, next \in Int, wrong \in BOOLEAN, Uses(b, p, k)
  PROVE  /\ pos' = p + k /\ next' \in Int /\ wrong' \in BOOLEAN /\ (wrong => wrong')
         /\ p + k <= BufSize /\ (\A i \in 0 .. k - 1 : b[p + i] = next + i)
              => next' = next + k /\ wrong' = wrong
<1>1. p + k <= BufSize => \A i \in 0 .. k - 1 : p + i < BufSize
  BY Sizes
<1>2. QED
  BY <1>1 DEF Uses

\* Limit depends on the source alone.
LEMMA SameLimit ==
  ASSUME UNCHANGED source
  PROVE  Limit' = Limit /\ SrcEnd' = SrcEnd /\ kind' = kind /\ stream' = stream /\ boundary' = boundary
  BY DEF source, Limit, SrcEnd, Least

\* While the coder uses the buffer and the reader has its place.
Holding ==
  /\ pos <= end /\ raw = next + Held
  /\ \A i \in pos .. end - 1 : buf[i] = next + i - pos
  /\ eof => raw = Limit

Shape ==
  /\ buf \in [0 .. BufSize - 1 -> Int] /\ pos \in 0 .. BufSize + 1 /\ end \in 0 .. BufSize
  /\ raw \in Int /\ next \in Int /\ eof \in BOOLEAN /\ wrong \in BOOLEAN /\ lost \in BOOLEAN

LEMMA Unfold ==
  ASSUME InputInv
  PROVE  Shape /\ Types /\ (pc \in Using /\ ~lost => Holding) /\ (wrong => lost)
         /\ Limit \in Int /\ (pc # "header" => raw <= Limit)
  BY LimitType, SMT DEF InputInv, Types, Stands, BufferHolds, InputInOrder, Shape, Holding, Using

\* A byte read leaves the buffer and the source as the invariant wants them.
LEMMA ReadByteKeeps ==
  ASSUME InputInv, pc \in Using, NEW stale \in BOOLEAN, TakesByte(stale), UNCHANGED source,
         lost' \in BOOLEAN, lost \/ stale => lost'
  PROVE  Shape' /\ raw' <= Limit' /\ (wrong' => lost') /\ (~lost' => Holding')
<1>1. Shape /\ Types /\ (~lost => Holding) /\ (wrong => lost) /\ Limit \in Int /\ raw <= Limit
  BY Unfold DEF Using
<1>2. BufferHolds
  BY DEF InputInv
<1>3. Limit' = Limit
  BY SameLimit
<1>4. CASE pos < end /\ ~stale /\ Uses(buf, pos, 1) /\ UNCHANGED <<raw, buf, end, eof, errors>>
  <2>1. /\ pos' = pos + 1 /\ next' \in Int /\ wrong' \in BOOLEAN /\ (wrong => wrong')
        /\ buf[pos] = next => next' = next + 1 /\ wrong' = wrong
    <3>1. pos \in Nat /\ 1 \in Nat /\ next \in Int /\ wrong \in BOOLEAN /\ pos + 1 <= BufSize
      BY <1>1, <1>4, Sizes DEF Shape
    <3>2. /\ pos' = pos + 1 /\ next' \in Int /\ wrong' \in BOOLEAN /\ (wrong => wrong')
          /\ pos + 1 <= BufSize /\ (\A i \in 0 .. 1 - 1 : buf[pos + i] = next + i)
                => next' = next + 1 /\ wrong' = wrong
      BY <1>4, <3>1, UsesRight
    <3>3. buf[pos] = next => \A i \in 0 .. 1 - 1 : buf[pos + i] = next + i
      BY <3>1
    <3>4. QED
      BY <3>1, <3>2, <3>3
  <2>2. Shape' /\ raw' <= Limit'
    <3>1. pos + 1 \in 0 .. BufSize + 1
      BY <1>1, <1>4, Sizes DEF Shape
    <3>2. QED
      BY <1>1, <1>3, <1>4, <2>1, <3>1 DEF Shape
  <2>3. ~lost' => ~lost
    OBVIOUS
  <2>4. ~lost => next' = next + 1 /\ wrong' = wrong
    BY <1>1, <1>4, <2>1 DEF Shape, Holding
  <2>5. ~lost' => Holding'
    BY <1>1, <1>3, <1>4, <2>1, <2>3, <2>4 DEF Shape, Holding, Held
  <2>6. QED
    BY <1>1, <1>4, <2>2, <2>3, <2>4, <2>5
<1>5. ASSUME pos >= end,
             NEW g \in Got(BufSize), ~FillFails(g), FillBuffer(g), Uses(buf', 0, 1),
             stale = (g.n = 0)
      PROVE  Shape' /\ raw' <= Limit' /\ (wrong' => lost') /\ (~lost' => Holding')
  <2>1. /\ buf' \in [0 .. BufSize - 1 -> Int] /\ end' \in 0 .. BufSize
        /\ end' = g.n /\ raw' = raw + end' /\ raw' \in Int /\ raw' <= Limit
        /\ \A i \in 0 .. end' - 1 : buf'[i] = raw + i
        /\ eof' \in BOOLEAN /\ (eof' => raw' = Limit)
    BY <1>1, <1>2, <1>5, Filled
  <2>2. /\ pos' = 0 + 1 /\ next' \in Int /\ wrong' \in BOOLEAN /\ (wrong => wrong')
        /\ 0 + 1 <= BufSize /\ (\A i \in 0 .. 1 - 1 : buf'[0 + i] = next + i)
              => next' = next + 1 /\ wrong' = wrong
    BY <1>1, <1>5, UsesRight DEF Shape
  <2>3. Shape'
    BY <1>1, <1>5, <2>1, <2>2, Sizes DEF Shape
  <2>4. ~lost' => ~lost /\ g.n # 0
    BY <1>5, Zenon
  <2>5. ~lost' => raw = next /\ end' > 0
    BY <1>1, <1>5, <2>1, <2>4 DEF Shape, Holding, Held
  <2>6. ~lost' => next' = next + 1 /\ wrong' = wrong
    <3>1. ASSUME ~lost' PROVE \A i \in 0 .. 1 - 1 : buf'[0 + i] = next + i
      <4>1. raw = next /\ 0 \in 0 .. end' - 1 /\ next \in Int
        BY <1>1, <2>1, <2>5, <3>1 DEF Shape
      <4>2. buf'[0] = next
        BY <2>1, <4>1
      <4>3. QED
        BY <4>1, <4>2
    <3>2. 0 + 1 <= BufSize
      BY Sizes
    <3>3. QED
      BY <2>2, <3>1, <3>2
  <2>7. ~lost' => Holding'
    BY <1>1, <1>3, <2>1, <2>2, <2>5, <2>6 DEF Shape, Holding, Held
  <2>8. wrong' => lost'
    BY <1>1, <2>4, <2>6 DEF Shape
  <2>9. QED
    BY <1>3, <2>1, <2>3, <2>7, <2>8
<1>6. QED
  BY <1>4, <1>5 DEF TakesByte

LEMMA ReadFailsKeeps ==
  ASSUME InputInv, pc \in Using, NEW got \in Int, ReadFails(got), UNCHANGED source,
         lost' \in BOOLEAN, lost => lost'
  PROVE  /\ Shape' /\ raw' <= Limit' /\ (wrong' => lost') /\ (~lost' => Holding')
         /\ ~lost' /\ result' = "unexpectedEOF" => next' = Limit'
         /\ ~lost' /\ ~(got > 0) => pos' = end'
<1>1. Shape /\ Types /\ (~lost => Holding) /\ (wrong => lost) /\ Limit \in Int /\ raw <= Limit
  BY Unfold DEF Using
<1>2. BufferHolds
  BY DEF InputInv
<1>3. Limit' = Limit /\ next' = next /\ wrong' = wrong /\ pos >= end
  BY SameLimit DEF ReadFails
<1>4. ~lost => raw = next /\ pos = end
  BY <1>1, <1>3 DEF Shape, Holding, Held
<1>5. CASE eof /\ got = 0 /\ UNCHANGED <<raw, buffer, errors>>
  BY <1>1, <1>3, <1>4, <1>5 DEF Shape, Holding, Held, buffer
<1>6. ASSUME NEW g \in Got(BufSize), FillFails(g), g.n = got, FillBuffer(g), pos' = 0,
             result' = Error(g)
      PROVE  /\ Shape' /\ raw' <= Limit' /\ (wrong' => lost') /\ (~lost' => Holding')
             /\ ~lost' /\ result' = "unexpectedEOF" => next' = Limit'
             /\ ~lost' /\ ~(got > 0) => pos' = end'
  <2>1. /\ buf' \in [0 .. BufSize - 1 -> Int] /\ end' \in 0 .. BufSize
        /\ end' = g.n /\ raw' = raw + end' /\ raw' \in Int /\ raw' <= Limit
        /\ \A i \in 0 .. end' - 1 : buf'[i] = raw + i
        /\ eof' \in BOOLEAN /\ (eof' => raw' = Limit)
        /\ FillFails(g) /\ Error(g) = "unexpectedEOF" => g.n = 0 /\ raw = Limit
    BY <1>1, <1>2, <1>6, Filled
  <2>2. Shape'
    BY <1>1, <1>3, <1>6, <2>1, Sizes DEF Shape
  <2>3. ~lost' => Holding'
    BY <1>1, <1>3, <1>4, <1>6, <2>1 DEF Shape, Holding, Held
  <2>4. QED
    BY <1>1, <1>3, <1>4, <1>6, <2>1, <2>2, <2>3
<1>7. QED
  BY <1>5, <1>6 DEF ReadFails

\* What a step has to show.
LEMMA Rebuilt ==
  ASSUME Shape', stream' \in Nat, boundary' \in Int, wanted' \in Int,
         pc' \in Labels, kind' \in {"lzma", "lzma2"},
         pc' # "header" => raw' <= Limit',
         pc' \in Using /\ ~lost' => Holding',
         pc' = "init" /\ ~lost' => pos' = end',
         wrong' => lost', RangeLeft', AsmWithinInput', EofOnlyAtEnd', ~DrainFails => ChunkFraming'
  PROVE  InputInv'
<1>1. Types'
  BY DEF Types, Shape
<1>2. Stands'
  BY DEF Stands, Holding
<1>3. BufferHolds'
  BY DEF BufferHolds, Shape, Holding, Using
<1>4. QED
  BY <1>1, <1>2, <1>3 DEF InputInv, InputInOrder

LEMMA InitFillKeeps == ASSUME InputInv, InitFill PROVE InputInv'
<1>1. Shape /\ Types /\ (~lost => Holding) /\ (wrong => lost) /\ Limit \in Int /\ raw <= Limit
  BY Unfold DEF InitFill, Using
<1>2. BufferHolds /\ Stands
  BY DEF InputInv
<1>3. PICK g \in Got(BufSize) :
        /\ FillBuffer(g) /\ pos' = 0
        /\ \/ ~FillFails(g) /\ pc' = "initByte" /\ result' = "none" /\ UNCHANGED <<source, wanted, lost>>
           \/ FillFails(g) /\ result' = Error(g) /\ Abandon(g.n > 0)
  BY DEF InitFill
<1>4. UNCHANGED source /\ next' = next /\ wrong' = wrong /\ wanted' = wanted
  BY <1>3 DEF InitFill, Abandon
<1>5. /\ kind' = kind /\ stream' = stream /\ boundary' = boundary /\ Limit' = Limit
  BY <1>4, SameLimit
<1>6. /\ buf' \in [0 .. BufSize - 1 -> Int] /\ end' \in 0 .. BufSize
      /\ end' = g.n /\ raw' = raw + end' /\ raw' \in Int /\ raw' <= Limit
      /\ \A i \in 0 .. end' - 1 : buf'[i] = raw + i
      /\ eof' \in BOOLEAN /\ (eof' => raw' = Limit)
      /\ FillFails(g) /\ Error(g) = "unexpectedEOF" => g.n = 0 /\ raw = Limit
  BY <1>1, <1>2, <1>3, Filled
<1>7. /\ pc' \in {"initByte", "header", "init", "decode"} /\ lost' \in BOOLEAN /\ (lost => lost')
      /\ pc' = "header" => lost'
      /\ pc' = "init" => (g.n > 0 => lost')
  <2>1. CASE ~FillFails(g) /\ pc' = "initByte" /\ UNCHANGED lost
    BY <1>1, <2>1 DEF Shape
  <2>2. CASE Abandon(g.n > 0)
    BY <1>1, <2>2, Zenon DEF Abandon
  <2>3. QED
    BY <1>3, <2>1, <2>2
<1>8. ~lost => raw = next /\ pos = end
  BY <1>1, <1>2 DEF Shape, Holding, Held, Stands, InitFill
<1>9. Shape'
  BY <1>1, <1>3, <1>4, <1>6, <1>7, Sizes DEF Shape
<1>10. ~lost' => Holding'
  BY <1>1, <1>3, <1>4, <1>5, <1>6, <1>7, <1>8 DEF Shape, Holding, Held
<1>11. EofOnlyAtEnd'
  BY <1>3, <1>4, <1>5, <1>6, <1>7, <1>8 DEF EofOnlyAtEnd
<1>12. AsmWithinInput' /\ ChunkFraming' /\ RangeLeft'
  <2>1. wanted = InitLen
    BY DEF InitFill, InputInv, RangeLeft
  <2>2. pc' # "decode"
    BY <1>3, <2>1 DEF Abandon
  <2>3. QED
    BY <1>4, <1>7, <2>1, <2>2 DEF AsmWithinInput, ChunkFraming, RangeLeft
<1>13. pc' = "init" /\ ~lost' => pos' = end'
  BY <1>3, <1>6, <1>7, Sizes
<1>14. stream' \in Nat /\ boundary' \in Int /\ wanted' \in Int /\ kind' \in {"lzma", "lzma2"}
  BY <1>1, <1>4, <1>5 DEF Types
<1>15. pc' \in Labels
  BY <1>7 DEF Labels
<1>16. QED
  BY <1>1, <1>4, <1>5, <1>6, <1>7, <1>9, <1>10, <1>11, <1>12, <1>13, <1>14, <1>15, Rebuilt

LEMMA InitAtEndKeeps == ASSUME InputInv, InitAtEnd PROVE InputInv'
<1>1. Shape /\ Types /\ (~lost => Holding) /\ (wrong => lost) /\ Limit \in Int /\ raw <= Limit
  BY Unfold DEF InitAtEnd, Using
<1>2. Stands
  BY DEF InputInv
<1>3. UNCHANGED source /\ UNCHANGED <<raw, buf, pos, end, eof, next, wrong, wanted>> /\ eof
  BY DEF InitAtEnd, Abandon, buffer
<1>4. kind' = kind /\ stream' = stream /\ boundary' = boundary /\ Limit' = Limit
  BY <1>3, SameLimit
<1>5. /\ pc' \in {"header", "init", "decode"} /\ lost' \in BOOLEAN /\ (lost => lost')
      /\ pc' = "header" => lost'
  BY <1>1, Zenon DEF InitAtEnd, Abandon
<1>6. ~lost => pos = end /\ next = Limit
  BY <1>1, <1>2, <1>3 DEF Shape, Holding, Held, Stands, InitAtEnd
<1>7. Shape'
  BY <1>1, <1>3, <1>5 DEF Shape
<1>8. ~lost' => Holding' /\ pos' = end'
  BY <1>1, <1>3, <1>4, <1>5, <1>6 DEF Holding, Held
<1>9. EofOnlyAtEnd' /\ AsmWithinInput' /\ ChunkFraming' /\ RangeLeft' /\ pc' \in Labels
  <2>1. wanted = InitLen
    BY DEF InitAtEnd, InputInv, RangeLeft
  <2>2. pc' # "decode"
    BY <2>1 DEF InitAtEnd, Abandon
  <2>3. QED
    BY <1>3, <1>4, <1>5, <1>6, <2>1, <2>2
    DEF EofOnlyAtEnd, AsmWithinInput, ChunkFraming, RangeLeft, Labels
<1>10. stream' \in Nat /\ boundary' \in Int /\ wanted' \in Int /\ kind' \in {"lzma", "lzma2"}
  BY <1>1, <1>3, <1>4 DEF Types
<1>11. QED
  BY <1>1, <1>3, <1>4, <1>5, <1>7, <1>8, <1>9, <1>10, Rebuilt

LEMMA ByteKeeps == ASSUME InputInv, InitByte \/ DecodeByte PROVE InputInv'
<1>1. Types /\ pc \in Using /\ ReadByte /\ UNCHANGED source
  BY DEF InputInv, InitByte, DecodeByte, Using
<1>2. PICK stale \in BOOLEAN : TakesByte(stale) /\ lost' = (lost \/ stale)
  BY <1>1 DEF ReadByte
<1>3. lost' \in BOOLEAN /\ (lost \/ stale => lost')
  BY <1>2, Zenon
<1>4. Shape' /\ raw' <= Limit' /\ (wrong' => lost') /\ (~lost' => Holding')
  BY <1>1, <1>2, <1>3, ReadByteKeeps
<1>5. wanted' \in Int /\ pc' \in {"initByte", "decode"} /\ result' = "none" /\ rng' \in {"normal", "go"}
  BY <1>1 DEF Types, InitByte, DecodeByte
<1>6. pc' = "initByte" => rng' = "normal"
  BY DEF InitByte, DecodeByte
<1>7. stream' \in Nat /\ boundary' \in Int /\ kind' \in {"lzma", "lzma2"}
  BY <1>1, SameLimit DEF Types
<1>8. AsmWithinInput' /\ EofOnlyAtEnd' /\ ChunkFraming' /\ RangeLeft' /\ pc' \in Labels /\ pc' # "init"
  BY <1>5, <1>6 DEF AsmWithinInput, EofOnlyAtEnd, ChunkFraming, RangeLeft, Labels
<1>9. QED
  BY <1>4, <1>5, <1>7, <1>8, Rebuilt

\* A decision without a byte changes neither buffer nor source.
LEMMA NoByteKeeps == ASSUME InputInv, DecodeNoByte PROVE InputInv'
<1>1. Types /\ Shape /\ (~lost => Holding) /\ (wrong => lost) /\ Limit \in Int /\ raw <= Limit
  BY Unfold DEF DecodeNoByte, Using
<1>2. /\ UNCHANGED <<kind, stream, boundary, raw, buf, pos, end, eof, wanted, next, wrong, lost>>
      /\ pc' = "decode" /\ rng' = "go" /\ result' = "none"
  BY DEF DecodeNoByte, source, buffer
<1>3. Limit' = Limit
  BY <1>2, SameLimit DEF source
<1>4. Shape' /\ raw' <= Limit' /\ (wrong' => lost') /\ (~lost' => Holding')
  BY <1>1, <1>2, <1>3 DEF Shape, Holding, Held
<1>5. AsmWithinInput' /\ EofOnlyAtEnd' /\ ChunkFraming' /\ RangeLeft' /\ pc' \in Labels
  BY <1>2 DEF AsmWithinInput, EofOnlyAtEnd, ChunkFraming, RangeLeft, Labels
<1>6. stream' \in Nat /\ boundary' \in Int /\ wanted' \in Int /\ kind' \in {"lzma", "lzma2"}
  BY <1>1, <1>2 DEF Types
<1>7. QED
  BY <1>2, <1>4, <1>5, <1>6, Rebuilt

LEMMA InitFailsKeeps == ASSUME InputInv, InitFails PROVE InputInv'
<1>1. PICK got \in 0 .. BufSize : ReadFails(got) /\ Abandon(got > 0)
  BY DEF InitFails
<1>2. Types /\ Shape /\ pc \in Using /\ got \in Int /\ UNCHANGED source
  BY <1>1, Unfold, Sizes DEF InitFails, Using, Abandon
<1>3. /\ pc' \in {"header", "init", "decode"} /\ lost' \in BOOLEAN /\ (lost => lost')
      /\ pc' = "header" => lost'
      /\ pc' = "init" => (got > 0 => lost')
  BY <1>1, <1>2, Zenon DEF Abandon, Shape
<1>4. /\ Shape' /\ raw' <= Limit' /\ (wrong' => lost') /\ (~lost' => Holding')
      /\ ~lost' /\ result' = "unexpectedEOF" => next' = Limit'
      /\ ~lost' /\ ~(got > 0) => pos' = end'
  BY <1>1, <1>2, <1>3, ReadFailsKeeps
<1>5. /\ stream' \in Nat /\ boundary' \in Int /\ wanted' \in Int /\ kind' \in {"lzma", "lzma2"}
  BY <1>1, <1>2, SameLimit DEF Types, Abandon
<1>6. AsmWithinInput' /\ EofOnlyAtEnd' /\ ChunkFraming' /\ pc' \in Labels
  BY <1>3, <1>4 DEF AsmWithinInput, EofOnlyAtEnd, ChunkFraming, Labels
<1>7. RangeLeft'
  <2>1. /\ rng' = rng /\ wanted' = wanted /\ (wanted # InitLen => rng = "normal")
        /\ pc' = IF kind = "lzma2" THEN "header" ELSE IF wanted = InitLen THEN "init" ELSE "decode"
    BY <1>1 DEF InitFails, Abandon, InputInv, RangeLeft
  <2>2. QED
    BY <2>1 DEF RangeLeft
<1>8. QED
  BY <1>3, <1>4, <1>5, <1>6, <1>7, Rebuilt

LEMMA DecodeFailsKeeps == ASSUME InputInv, DecodeFails PROVE InputInv'
<1>1. PICK got \in 0 .. BufSize : ReadFails(got)
  BY DEF DecodeFails
<1>2. Types /\ Shape /\ pc \in Using /\ got \in Int /\ UNCHANGED <<source, lost, pc, wanted>> /\ pc = "decode"
  BY <1>1, Unfold, Sizes DEF DecodeFails, Using
<1>3. lost' \in BOOLEAN /\ (lost => lost')
  BY <1>2 DEF Shape
<1>4. /\ Shape' /\ raw' <= Limit' /\ (wrong' => lost') /\ (~lost' => Holding')
      /\ ~lost' /\ result' = "unexpectedEOF" => next' = Limit'
  BY <1>1, <1>2, <1>3, ReadFailsKeeps
<1>5. /\ stream' \in Nat /\ boundary' \in Int /\ wanted' \in Int /\ kind' \in {"lzma", "lzma2"}
  BY <1>1, <1>2, SameLimit DEF Types
<1>6. AsmWithinInput' /\ EofOnlyAtEnd' /\ ChunkFraming' /\ RangeLeft' /\ pc' \in Labels /\ pc' = "decode"
  BY <1>2, <1>4 DEF DecodeFails, AsmWithinInput, EofOnlyAtEnd, ChunkFraming, RangeLeft, Labels
<1>7. QED
  BY <1>4, <1>5, <1>6, Rebuilt

LEMMA InitRefusesKeeps == ASSUME InputInv, InitRefuses PROVE InputInv'
<1>1. Types /\ pc \in Using /\ UNCHANGED source
  BY DEF InputInv, InitRefuses, Using
<1>2. PICK stale \in BOOLEAN : TakesByte(stale)
  BY DEF InitRefuses
<1>3. /\ UNCHANGED <<wanted, rng>> /\ wanted = InitLen
      /\ lost' = TRUE /\ result' = "data" /\ pc' \in {"init", "header"}
  BY DEF InitRefuses
<1>4. Shape' /\ raw' <= Limit' /\ (wrong' => lost') /\ (~lost' => Holding')
  <2>1. lost' \in BOOLEAN /\ (lost \/ stale => lost')
    BY <1>3
  <2>2. QED
    BY <1>1, <1>2, <2>1, ReadByteKeeps
<1>5. stream' \in Nat /\ boundary' \in Int /\ wanted' \in Int /\ kind' \in {"lzma", "lzma2"}
  BY <1>1, <1>3, SameLimit DEF Types
<1>6. AsmWithinInput' /\ EofOnlyAtEnd' /\ ChunkFraming' /\ RangeLeft' /\ pc' \in Labels
  BY <1>3 DEF AsmWithinInput, EofOnlyAtEnd, ChunkFraming, RangeLeft, Labels
<1>7. QED
  BY <1>3, <1>4, <1>5, <1>6, Rebuilt

\* The assembly gets at least Required bytes.
LEMMA Fits ==
  ASSUME Shape', pc' = "asm", rng' = "normal" \/ rng' = "go", Held' >= Required
  PROVE  AsmWithinInput'
<1>1. Held' \in Int
  BY Sizes DEF Shape, Held
<1>2. Held' >= SymbolMax' \/ (rng' = "go" /\ Held' = Required)
  BY <1>1, Sizes DEF SymbolMax
<1>3. QED
  BY <1>2 DEF AsmWithinInput

LEMMA RefillKeeps == ASSUME InputInv, Refill PROVE InputInv'
<1>1. Types /\ Shape /\ (~lost => Holding) /\ (wrong => lost) /\ Limit \in Int /\ raw <= Limit /\ pos <= end
  BY Unfold DEF Refill, Using
<1>2. PICK g \in Got(BufSize - Held) :
       /\ Took(g)
       /\ buf' = Arrived(Kept(buf), Held, g) /\ pos' = 0 /\ end' = Held + g.n
       /\ eof' = (g.err = "eof")
       /\ result' = IF g.err = "fail" THEN "fail" ELSE "none"
       /\ pc' = IF g.err # "fail" /\ Enough(end') THEN "asm" ELSE "decode"
  BY DEF Refill
<1>3. UNCHANGED source /\ wanted' = wanted /\ next' = next /\ wrong' = wrong /\ lost' = lost
  BY DEF Refill
<1>4. Held \in 0 .. BufSize /\ BufSize - Held \in Nat /\ Held = end - pos
  BY <1>1, Sizes DEF Shape, Held
<1>5. /\ g.n \in 0 .. BufSize - Held /\ raw + g.n <= Limit
      /\ g.err = "eof" => raw + g.n = Limit
  BY <1>1, <1>2, <1>4, Returns
<1>6. /\ Kept(buf) \in [0 .. BufSize - 1 -> Int]
      /\ \A i \in 0 .. Held - 1 : Kept(buf)[i] = buf[pos + i]
  <2>1. \A i \in 0 .. BufSize - 1 : i < Held => pos + i \in 0 .. BufSize - 1
    BY <1>1, <1>4, Sizes DEF Shape
  <2>2. buf \in [0 .. BufSize - 1 -> Int]
    BY <1>1 DEF Shape
  <2>3. Kept(buf) = [i \in 0 .. BufSize - 1 |-> IF i < Held THEN buf[pos + i] ELSE buf[i]]
    BY <2>2 DEF Kept
  <2>4. \A i \in 0 .. Held - 1 : i \in 0 .. BufSize - 1
    BY <1>4, Sizes
  <2>5. Kept(buf) \in [0 .. BufSize - 1 -> Int]
    BY <1>4, <2>1, <2>2, <2>3
  <2>6. ASSUME NEW i \in 0 .. Held - 1 PROVE Kept(buf)[i] = buf[pos + i]
    BY <1>4, <2>3, <2>4
  <2>7. QED
    BY <2>5, <2>6
<1>7. raw \in Int /\ g.n \in Nat /\ Held \in Nat
  BY <1>1, <1>4, <1>5 DEF Shape
<1>8. /\ buf' \in [0 .. BufSize - 1 -> Int]
      /\ \A i \in 0 .. BufSize - 1 :
           buf'[i] = IF i >= Held /\ i < Held + g.n THEN raw + i - Held ELSE Kept(buf)[i]
  BY <1>2, <1>6, <1>7, Sizes DEF Arrived
<1>9. raw' = raw + g.n /\ Limit' = Limit /\ kind' = kind /\ stream' = stream /\ boundary' = boundary
  BY <1>2, <1>3, SameLimit DEF Took
<1>10. Shape' /\ raw' <= Limit'
  <2>1. end' \in 0 .. BufSize /\ pos' \in 0 .. BufSize + 1 /\ eof' \in BOOLEAN
    BY <1>2, <1>4, <1>5, Sizes
  <2>2. QED
    BY <1>1, <1>3, <1>5, <1>7, <1>8, <1>9, <2>1 DEF Shape
<1>11. ~lost => Holding'
  <2>1. SUFFICES ASSUME ~lost PROVE Holding'
    OBVIOUS
  <2>2. raw = next + Held /\ \A i \in pos .. end - 1 : buf[i] = next + i - pos
    BY <1>1, <2>1 DEF Holding
  <2>3. \A i \in 0 .. Held - 1 : Kept(buf)[i] = next + i
    <3>1. TAKE i \in 0 .. Held - 1
    <3>2. pos + i \in pos .. end - 1 /\ pos \in Int /\ next \in Int
      BY <1>1, <1>4, Sizes DEF Shape
    <3>3. QED
      BY <1>6, <2>2, <3>2
  <2>4. ASSUME NEW i \in 0 .. Held + g.n - 1 PROVE buf'[i] = next + i
    <3>1. i \in 0 .. BufSize - 1
      BY <1>4, <1>5, Sizes
    <3>2. CASE i < Held
      BY <1>7, <1>8, <2>3, <3>1, <3>2
    <3>3. CASE i >= Held
      <4>1. i < Held + g.n /\ i \in Int /\ next \in Int
        BY <1>1, <1>4, <1>7 DEF Shape
      <4>2. buf'[i] = raw + i - Held
        BY <1>8, <3>1, <3>3, <4>1
      <4>3. QED
        BY <1>7, <2>2, <4>1, <4>2
    <3>4. QED
      BY <1>7, <3>2, <3>3
  <2>5. pos' <= end' /\ raw' = next' + Held'
    BY <1>1, <1>2, <1>3, <1>5, <1>7, <1>9, <2>2 DEF Shape, Held
  <2>6. \A i \in pos' .. end' - 1 : buf'[i] = next' + i - pos'
    BY <1>1, <1>2, <1>3, <1>7, <2>4 DEF Shape
  <2>7. eof' => raw' = Limit'
    BY <1>2, <1>5, <1>9
  <2>8. QED
    BY <2>5, <2>6, <2>7 DEF Holding
<1>12. pc' \in {"asm", "decode"} /\ result' \in {"fail", "none"} /\ AsmWithinInput' /\ RangeLeft'
  <2>1. rng' = rng /\ (rng = "normal" \/ rng = "go")
    BY DEF Refill, InputInv, RangeLeft
  <2>2. pc' \in {"asm", "decode"} /\ result' \in {"fail", "none"}
    BY <1>2
  <2>3. pc' = "asm" => Held' >= Required
    <3>1. Held' = end'
      BY <1>2, <1>10 DEF Held, Shape
    <3>2. QED
      BY <1>2, <3>1 DEF Enough
  <2>4. pc' = "asm" => AsmWithinInput'
    BY <1>10, <2>1, <2>3, Fits
  <2>5. pc' = "decode" => AsmWithinInput'
    BY DEF AsmWithinInput
  <2>6. QED
    BY <2>1, <2>2, <2>4, <2>5 DEF RangeLeft
<1>13. EofOnlyAtEnd' /\ ChunkFraming' /\ pc' \in Labels
  BY <1>12 DEF EofOnlyAtEnd, ChunkFraming, Labels
<1>14. stream' \in Nat /\ boundary' \in Int /\ wanted' \in Int /\ kind' \in {"lzma", "lzma2"}
  BY <1>1, <1>3, <1>9 DEF Types
<1>15. QED
  BY <1>1, <1>3, <1>10, <1>11, <1>12, <1>13, <1>14, Rebuilt

LEMMA EnterKeeps == ASSUME InputInv, RefillFaults \/ AsmEnter PROVE InputInv'
<1>1. Types /\ Shape /\ (~lost => Holding) /\ (wrong => lost) /\ Limit \in Int /\ raw <= Limit
  BY Unfold DEF RefillFaults, AsmEnter, Using
<1>2. UNCHANGED <<kind, stream, boundary, raw, buf, pos, end, eof, wanted, rng, next, wrong, lost>>
  BY DEF RefillFaults, AsmEnter, source, buffer
<1>3. /\ Limit' = Limit
      /\ stream' \in Nat /\ boundary' \in Int /\ wanted' \in Int /\ kind' \in {"lzma", "lzma2"}
  BY <1>1, <1>2, SameLimit DEF Types, source
<1>4. Shape' /\ (~lost => Holding')
  BY <1>1, <1>2, <1>3 DEF Shape, Holding, Held
<1>5. CASE RefillFaults
  <2>1. lost /\ pc' = "fault" /\ result' = result
    BY <1>1, <1>5, Sizes DEF RefillFaults, Shape, Holding
  <2>2. EofOnlyAtEnd' /\ AsmWithinInput' /\ ChunkFraming' /\ RangeLeft' /\ pc' \in Labels
    BY <1>2, <2>1 DEF EofOnlyAtEnd, AsmWithinInput, ChunkFraming, RangeLeft, Labels
  <2>3. QED
    BY <1>1, <1>2, <1>3, <1>4, <2>1, <2>2, Rebuilt
<1>6. CASE AsmEnter
  <2>1. /\ pc' = "asm" /\ result' = "none" /\ Held >= Required
        /\ rng = "normal" \/ rng = "go"
    BY <1>6 DEF AsmEnter, Enough, InputInv, RangeLeft
  <2>2. AsmWithinInput'
    <3>1. Held' >= Required
      BY <1>2, <2>1 DEF Held
    <3>2. QED
      BY <1>2, <1>4, <2>1, <3>1, Fits
  <2>3. EofOnlyAtEnd' /\ ChunkFraming' /\ RangeLeft' /\ pc' \in Labels
    BY <2>1 DEF EofOnlyAtEnd, ChunkFraming, RangeLeft, Labels
  <2>4. QED
    BY <1>1, <1>2, <1>3, <1>4, <2>1, <2>2, <2>3, Rebuilt
<1>7. QED
  BY <1>5, <1>6

LEMMA SymbolKeeps == ASSUME InputInv, AsmSymbol PROVE InputInv'
<1>1. Types /\ Shape /\ (~lost => Holding) /\ (wrong => lost) /\ Limit \in Int /\ raw <= Limit
  BY Unfold DEF AsmSymbol, Using
<1>2. UNCHANGED <<kind, stream, boundary, raw, buf, end, eof, wanted>> /\ result' = "none"
  BY DEF AsmSymbol, source
<1>3. /\ Limit' = Limit
      /\ stream' \in Nat /\ boundary' \in Int /\ wanted' \in Int /\ kind' \in {"lzma", "lzma2"}
  BY <1>1, <1>2, SameLimit DEF Types, source
<1>4. PICK k \in 0 .. SymbolMax :
        /\ Uses(buf, pos, k) /\ lost' = (lost \/ pos + k > end)
        /\ \/ pc' = "decode" /\ rng' = "normal"
           \/ GoesOn(pos + k) /\ pc' = "asm" /\ rng' = "symbol"
  BY DEF AsmSymbol
<1>5. SymbolMax \in Nat /\ SymbolMax <= Required + 1
  BY Sizes DEF SymbolMax
<1>6. k \in Nat /\ pos \in Nat /\ end \in Nat /\ end <= BufSize /\ next \in Int /\ wrong \in BOOLEAN
  BY <1>1, <1>4, <1>5, Sizes DEF Shape
<1>7. pos + k <= end + 1
  <2>1. end - pos >= SymbolMax \/ end - pos = Required
    BY DEF AsmSymbol, InputInv, AsmWithinInput, Held
  <2>2. QED
    BY <1>4, <1>5, <1>6, <2>1, Sizes
<1>8. lost' \in BOOLEAN /\ (lost => lost') /\ (~lost' => ~lost /\ ~(pos + k > end))
  <2>1. lost \in BOOLEAN
    BY <1>1 DEF Shape
  <2>2. QED
    BY <1>4, <2>1, Zenon
<1>9. /\ pos' = pos + k /\ next' \in Int /\ wrong' \in BOOLEAN
      /\ pos + k <= BufSize /\ (\A i \in 0 .. k - 1 : buf[pos + i] = next + i)
            => next' = next + k /\ wrong' = wrong
  BY <1>4, <1>6, UsesRight
<1>10. Shape'
  <2>1. pos + k \in 0 .. BufSize + 1
    BY <1>6, <1>7, Sizes
  <2>2. QED
    BY <1>1, <1>2, <1>8, <1>9, <2>1 DEF Shape
<1>11. ~lost' => pos + k <= end /\ next' = next + k /\ wrong' = wrong
  <2>1. SUFFICES ASSUME ~lost' PROVE pos + k <= end /\ next' = next + k /\ wrong' = wrong
    OBVIOUS
  <2>2. pos + k <= end /\ pos + k <= BufSize
    BY <1>6, <1>8, <2>1, Sizes
  <2>3. ASSUME NEW i \in 0 .. k - 1 PROVE buf[pos + i] = next + i
    <3>1. pos + i \in pos .. end - 1 /\ i \in Int
      BY <1>6, <2>2
    <3>2. buf[pos + i] = next + (pos + i) - pos
      BY <1>1, <1>8, <2>1, <3>1 DEF Holding
    <3>3. QED
      BY <1>6, <3>1, <3>2
  <2>4. QED
    BY <1>9, <2>2, <2>3
<1>12. ~lost' => Holding'
  BY <1>1, <1>2, <1>3, <1>6, <1>8, <1>9, <1>11 DEF Shape, Holding, Held
<1>13. wrong' => lost'
  BY <1>1, <1>8, <1>11
<1>14. AsmWithinInput' /\ RangeLeft'
  <2>1. CASE pc' = "decode" /\ rng' = "normal"
    BY <2>1 DEF AsmWithinInput, RangeLeft
  <2>2. CASE GoesOn(pos + k) /\ pc' = "asm" /\ rng' = "symbol"
    <3>1. Held' >= Required + 1
      BY <1>2, <1>6, <1>9, <2>2, Sizes DEF GoesOn, Held
    <3>2. SymbolMax' = Required + 1
      BY <2>2 DEF SymbolMax
    <3>3. QED
      BY <2>2, <3>1, <3>2 DEF AsmWithinInput, RangeLeft
  <2>3. QED
    BY <1>4, <2>1, <2>2
<1>15. EofOnlyAtEnd' /\ ChunkFraming' /\ pc' \in Labels /\ pc' # "init"
  BY <1>2, <1>4 DEF EofOnlyAtEnd, ChunkFraming, Labels
<1>16. QED
  BY <1>1, <1>2, <1>3, <1>10, <1>12, <1>13, <1>14, <1>15, Rebuilt

LEMMA ChunkKeeps == ASSUME InputInv, ChunkDone \/ Drain \/ Uncompressed PROVE InputInv'
<1>1. Types /\ Shape /\ (wrong => lost) /\ Limit \in Int /\ Limit <= boundary /\ raw <= Limit
  BY Unfold, LimitType DEF ChunkDone, Drain, Uncompressed, Using
<1>2. UNCHANGED <<kind, stream, boundary, buf, pos, end, eof, wanted, next, wrong, lost>>
  BY DEF ChunkDone, Drain, Uncompressed, source, buffer
<1>3. /\ Limit' = Limit
      /\ stream' \in Nat /\ boundary' \in Int /\ wanted' \in Int /\ kind' \in {"lzma", "lzma2"}
  BY <1>1, <1>2, SameLimit DEF Types, source
<1>4. /\ pc' \in {"drain", "header", "uncomp"} /\ raw' \in Int /\ raw' <= Limit
      /\ result' \in {"none", "fail", "eof"}
      /\ pc' = "header" /\ ~DrainFails => raw' = Limit
  <2>1. CASE ChunkDone
    BY <1>1, <2>1 DEF ChunkDone, Types
  <2>2. CASE Drain
    <3>1. PICK g \in Got(BufSize) : (g.err = "fail" => DrainFails) /\ Took(g) /\ pc' = DrainTo(g)
      BY <2>2 DEF Drain
    <3>2. /\ g.n \in 0 .. BufSize /\ raw + g.n <= Limit
          /\ g.err = "eof" => raw + g.n = Limit
          /\ g.err = "none" \/ g.err = "fail" \/ g.err = "eof"
      BY <1>1, Sizes, Returns
    <3>3. raw' = raw + g.n /\ result' = "none" /\ raw \in Int
      BY <1>1, <2>2, <3>1 DEF Took, Drain, Types
    <3>4. QED
      BY <3>1, <3>2, <3>3, Sizes DEF DrainTo
  <2>3. CASE Uncompressed
    <3>1. PICK g \in Got(boundary - raw) :
            /\ Took(g)
            /\ pc' = IF raw' = boundary THEN "header" ELSE "uncomp"
            /\ result' = IF raw' = boundary THEN "none" ELSE g.err
      BY <2>3 DEF Uncompressed
    <3>2. boundary - raw \in Nat /\ raw \in Int /\ boundary \in Int
      BY <1>1 DEF Types
    <3>3. /\ g.n \in 0 .. boundary - raw /\ raw + g.n <= Limit
          /\ g.err = "none" \/ g.err = "fail" \/ g.err = "eof"
      BY <1>1, <3>2, Returns
    <3>4. raw' = raw + g.n
      BY <3>1 DEF Took
    <3>5. QED
      BY <1>1, <3>1, <3>2, <3>3, <3>4
  <2>4. QED
    BY <2>1, <2>2, <2>3
<1>5. Shape' /\ raw' <= Limit' /\ (wrong' => lost')
  BY <1>1, <1>2, <1>3, <1>4 DEF Shape
<1>6. /\ AsmWithinInput' /\ EofOnlyAtEnd' /\ (~DrainFails => ChunkFraming') /\ RangeLeft'
      /\ pc' \in Labels /\ ~(pc' \in Using) /\ pc' # "init"
  BY <1>3, <1>4 DEF RangeLeft, AsmWithinInput, EofOnlyAtEnd, ChunkFraming, Labels, Using
<1>7. QED
  BY <1>3, <1>5, <1>6, Rebuilt

LEMMA HeaderKeeps == ASSUME InputInv, Header PROVE InputInv'
<1>1. Types /\ Shape /\ (wrong => lost)
  BY Unfold
<1>2. /\ raw + HeaderLen <= SrcEnd /\ raw' = raw + HeaderLen /\ result' = "none"
      /\ UNCHANGED <<kind, stream, wrong, lost>>
  BY DEF Header
<1>3. PICK p \in PackSizes : boundary' = raw' + p
  BY DEF Header
<1>4. /\ SrcEnd \in Int /\ SrcEnd' = SrcEnd /\ raw \in Int /\ raw' \in Int /\ raw' <= SrcEnd
      /\ p \in Nat /\ boundary' \in Int /\ raw' <= boundary'
  BY <1>1, <1>2, <1>3, Sizes, LimitType DEF Types, SrcEnd
<1>5. raw' <= Limit'
  BY <1>4 DEF Limit, Least
<1>6. stream' \in Nat /\ kind' \in {"lzma", "lzma2"} /\ (wrong' => lost')
  BY <1>1, <1>2 DEF Types
<1>7. CASE /\ pc' = "init" /\ pos' = 0 /\ end' = 0 /\ eof' = FALSE
           /\ wanted' = InitLen /\ next' = raw' /\ UNCHANGED buf
  <2>1. eof' \in BOOLEAN /\ ~eof'
    BY <1>7, Zenon
  <2>2. Shape' /\ wanted' \in Int
    BY <1>1, <1>2, <1>4, <1>7, <2>1, Sizes DEF Shape
  <2>3. Holding' /\ pos' = end'
    <3> DEFINE r == raw + HeaderLen
    <3>1. r \in Int /\ raw' = r /\ next' = r /\ pos' = 0 /\ end' = 0
      BY <1>2, <1>4, <1>7
    <3> HIDE DEF r
    <3>2. QED
      BY <2>1, <3>1 DEF Holding, Held
  <2>4. EofOnlyAtEnd' /\ AsmWithinInput' /\ ChunkFraming' /\ RangeLeft' /\ pc' \in Labels
    BY <1>2, <1>7 DEF EofOnlyAtEnd, AsmWithinInput, ChunkFraming, RangeLeft, Labels
  <2>5. QED
    BY <1>4, <1>5, <1>6, <1>7, <2>2, <2>3, <2>4, Rebuilt
<1>8. CASE pc' = "uncomp" /\ UNCHANGED <<buffer, wanted, next>>
  <2>1. Shape' /\ wanted' \in Int
    BY <1>1, <1>2, <1>4, <1>8 DEF Shape, Types, buffer
  <2>2. EofOnlyAtEnd' /\ AsmWithinInput' /\ ChunkFraming' /\ RangeLeft' /\ pc' \in Labels /\ ~(pc' \in Using)
    BY <1>2, <1>8 DEF EofOnlyAtEnd, AsmWithinInput, ChunkFraming, RangeLeft, Labels, Using
  <2>3. QED
    BY <1>4, <1>5, <1>6, <1>8, <2>1, <2>2, Rebuilt
<1>9. QED
  BY <1>7, <1>8 DEF Header

LEMMA HeaderFailsKeeps == ASSUME InputInv, HeaderFails PROVE InputInv'
<1>1. Types /\ Shape /\ (wrong => lost) /\ pc = "header" /\ pc' = "header"
  BY Unfold DEF HeaderFails
<1>2. PICK k \in 0 .. HeaderLen :
       /\ raw' = raw + k /\ lost' = (lost \/ k > 0)
       /\ result' = "eof" \/ result' = "fail" \/ result' = "data"
  BY DEF HeaderFails
<1>3. UNCHANGED <<source, buffer, wanted, next, wrong>>
  BY DEF HeaderFails
<1>4. /\ Limit' = Limit /\ kind' = kind /\ stream' = stream /\ boundary' = boundary
  BY <1>3, SameLimit
<1>5. lost' \in BOOLEAN /\ (lost => lost') /\ (~lost' => ~lost /\ ~(k > 0))
  BY <1>2, Zenon
<1>6. raw' \in Int /\ (~lost' => raw' = raw)
  BY <1>1, <1>2, <1>5, Sizes DEF Shape
<1>7. Shape'
  BY <1>1, <1>3, <1>5, <1>6 DEF Shape, buffer
<1>8. ~DrainFails => ChunkFraming'
  BY <1>1, <1>4, <1>5, <1>6 DEF InputInv, ChunkFraming
<1>9. AsmWithinInput' /\ EofOnlyAtEnd' /\ RangeLeft' /\ pc' \in Labels /\ ~(pc' \in Using) /\ pc' # "init"
  BY <1>1, <1>2 DEF AsmWithinInput, EofOnlyAtEnd, RangeLeft, Labels, Using
<1>10. stream' \in Nat /\ boundary' \in Int /\ wanted' \in Int /\ kind' \in {"lzma", "lzma2"}
  BY <1>1, <1>3, <1>4 DEF Types
<1>11. wrong' => lost'
  BY <1>1, <1>3, <1>5
<1>12. QED
  BY <1>1, <1>7, <1>8, <1>9, <1>10, <1>11, Rebuilt

LEMMA ResetKeeps == ASSUME InputInv, Reset PROVE InputInv'
<1>1. Types /\ Shape
  BY Unfold
<1>2. /\ stream' = stream + 1 /\ raw' = SrcEnd /\ next' = SrcEnd /\ boundary' = SrcEnd + SrcLen
      /\ pos' = 0 /\ end' = 0 /\ eof' = FALSE /\ wanted' = InitLen
      /\ pc' = "init" /\ result' = "none" /\ wrong' = FALSE /\ lost' = FALSE
      /\ kind' = kind /\ buf' = buf
  BY DEF Reset
<1>3. SrcEnd \in Int /\ SrcEnd' = SrcEnd + SrcLen /\ SrcLen \in Nat
  BY <1>1, <1>2, Ends, Sizes DEF Types, SrcEnd
<1>4. eof' \in BOOLEAN /\ wrong' \in BOOLEAN /\ lost' \in BOOLEAN /\ ~eof' /\ ~wrong'
  BY <1>2, Zenon
<1>5. Shape' /\ raw' <= Limit'
  BY <1>1, <1>2, <1>3, <1>4, Sizes DEF Shape, Limit, Least
<1>6. Holding' /\ pos' = end'
  BY <1>2, <1>3, <1>4 DEF Holding, Held
<1>7. EofOnlyAtEnd' /\ AsmWithinInput' /\ ChunkFraming' /\ RangeLeft' /\ pc' \in Labels
  BY <1>2 DEF EofOnlyAtEnd, AsmWithinInput, ChunkFraming, RangeLeft, Labels
<1>8. stream' \in Nat /\ boundary' \in Int /\ wanted' \in Int /\ kind' \in {"lzma", "lzma2"}
  BY <1>1, <1>2, <1>3, Sizes DEF Types
<1>9. QED
  BY <1>2, <1>4, <1>5, <1>6, <1>7, <1>8, Rebuilt

LEMMA InitInv == Init => InputInv
<1> SUFFICES ASSUME Init PROVE InputInv
  OBVIOUS
<1>1. SrcEnd = SrcLen /\ SrcLen \in Nat
  BY Sizes DEF Init, SrcEnd
<1>2. eof \in BOOLEAN /\ wrong \in BOOLEAN /\ lost \in BOOLEAN
  BY Zenon DEF Init
<1>3. Types
  BY <1>1, <1>2, Sizes DEF Init, Types, Labels
<1>4. raw = Limit \/ (pc = "init" /\ raw <= Limit)
  BY <1>1 DEF Init, Limit, Least
<1>5. Stands
  BY <1>4 DEF Stands, Init, Using
<1>6. buf \in [0 .. BufSize - 1 -> Int] /\ pos \in 0 .. BufSize + 1 /\ end \in 0 .. BufSize
  BY Sizes DEF Init
<1>7. BufferHolds
  BY <1>6 DEF Init, BufferHolds, Held
<1>8. InputInOrder /\ AsmWithinInput /\ EofOnlyAtEnd /\ ChunkFraming /\ RangeLeft
  BY <1>4 DEF Init, RangeLeft, InputInOrder, AsmWithinInput, EofOnlyAtEnd, ChunkFraming
<1>9. QED
  BY <1>3, <1>5, <1>7, <1>8 DEF InputInv

LEMMA Stutters == ASSUME InputInv, UNCHANGED vars PROVE InputInv'
<1>1. UNCHANGED <<kind, stream, boundary, raw, buf, pos, end, eof, wanted, rng, pc, result, next, wrong, lost>>
  BY DEF vars, source, buffer
<1>2. Types' /\ Stands'
  BY <1>1 DEF InputInv, Types, Stands, Limit, SrcEnd, Least
<1>3. BufferHolds' /\ InputInOrder' /\ AsmWithinInput' /\ RangeLeft'
  BY <1>1 DEF InputInv, BufferHolds, InputInOrder, AsmWithinInput, RangeLeft, SymbolMax, Held
<1>4. EofOnlyAtEnd' /\ (~DrainFails => ChunkFraming')
  BY <1>1 DEF InputInv, EofOnlyAtEnd, ChunkFraming, Limit, SrcEnd, Least
<1>5. QED
  BY <1>2, <1>3, <1>4 DEF InputInv

LEMMA Inductive == InputInv /\ [Next]_vars => InputInv'
<1> SUFFICES ASSUME InputInv, [Next]_vars PROVE InputInv'
  OBVIOUS
<1>1. CASE UNCHANGED vars
  BY <1>1, Stutters
<1>2. CASE InitFill \/ InitAtEnd \/ InitByte \/ InitRefuses \/ InitFails
  BY <1>2, InitFillKeeps, InitAtEndKeeps, ByteKeeps, InitRefusesKeeps, InitFailsKeeps
<1>3. CASE DecodeByte \/ DecodeNoByte \/ DecodeFails \/ Refill \/ RefillFaults \/ AsmEnter \/ AsmSymbol
  BY <1>3, ByteKeeps, NoByteKeeps, DecodeFailsKeeps, RefillKeeps, EnterKeeps, SymbolKeeps
<1>4. CASE ChunkDone \/ Drain \/ Header \/ HeaderFails \/ Uncompressed \/ Reset
  BY <1>4, ChunkKeeps, HeaderKeeps, HeaderFailsKeeps, ResetKeeps
<1>5. QED
  BY <1>1, <1>2, <1>3, <1>4 DEF Next

LEMMA Always == Spec => []InputInv
<1>1. QED
  BY InitInv, Inductive, PTL DEF Spec

-----------------------------------------------------------------------------
\* Whatever the sizes: as long as the reader keeps its place, its buffer holds
\* exactly what the coder has yet to use of what the source gave, through
\* fill, readByte, rcFillAndNorm and tryDecodeAsm's compaction and refill.  It
\* does not keep it when a symbol right after decodeLoop takes the byte past
\* the end (AsmSafe).
THEOREM BufferSafe == Spec => []BufferHolds
<1>1. InputInv => BufferHolds
  BY DEF InputInv
<1>2. QED
  BY <1>1, Always, PTL

\* As long as the reader keeps its place, the coder takes the source's bytes
\* once and in order, through readByte, rcFillAndNorm and tryDecodeAsm; a byte
\* that the assembly takes past the end of its input is where it loses it.
THEOREM OrderSafe == Spec => []InputInOrder
<1>1. InputInv => InputInOrder
  BY DEF InputInv
<1>2. QED
  BY <1>1, Always, PTL

\* The coder is told of the input's end only after it has used the last byte,
\* also when the source returns io.EOF together with bytes (fill, readByte).
THEOREM EndSafe == Spec => []EofOnlyAtEnd
<1>1. InputInv => EofOnlyAtEnd
  BY DEF InputInv
<1>2. QED
  BY <1>1, Always, PTL

\* However small the reads that refill the buffer, tryDecodeAsm lends the
\* assembly what a symbol may take, except that right after decodeLoop it may
\* lend exactly Required bytes to a symbol that may take one more; and its
\* slice fails to exist only after a byte was used that had not come.
THEOREM AsmSafe == Spec => []AsmWithinInput
<1>1. InputInv => AsmWithinInput
  BY DEF InputInv
<1>2. QED
  BY <1>1, Always, PTL

\* If the source does not fail while a chunk is drained, LZMA2Reader takes
\* every header from where the chunk before it ended; range_drain shows that
\* the assumption is needed.
THEOREM FramingSafe == ~DrainFails => (Spec => []ChunkFraming)
<1> SUFFICES ASSUME ~DrainFails PROVE Spec => []ChunkFraming
  OBVIOUS
<1>1. InputInv => ChunkFraming
  BY DEF InputInv
<1>2. QED
  BY <1>1, Always, PTL
=============================================================================
