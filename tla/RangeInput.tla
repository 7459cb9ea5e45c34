----------------------------- MODULE RangeInput -----------------------------
(* The input of the range coder: a buffer that decodeLoop empties byte by   *)
(* byte, refilling it when it is empty, and that tryDecodeAsm moves to the   *)
(* front and tops up before it lends it to the assembly; the chunks of LZMA2 *)
(* that bound it.  Bytes are told apart by their offset in the source.       *)
(* requiredInputMax bytes are lent, enough for a symbol that finds the range *)
(* normalised; decodeLoop does not leave it so, and a symbol right after it   *)
(* may take one byte more (InputBound), past the end of what was lent.        *)
EXTENDS Integers
CONSTANTS
  BufSize,     \* inputBufSize
  Required,    \* requiredInputMax, what a symbol may take from a normalised range
  InitLen,     \* bytes that rangeDecoder.init uses
  HeaderLen,   \* bytes of a chunk's header
  PackSizes,   \* bytes of a chunk's data
  SrcLen,      \* bytes of a source
  MaxStreams,  \* a reader is reused for so many sources
  MaxErrors,   \* a source fails so often
  DrainFails   \* it may do so while a chunk is drained

ASSUME InputAssumption ==
  /\ {BufSize, Required, InitLen, HeaderLen, SrcLen} \subseteq Nat \ {0}
  /\ Required <= BufSize /\ {MaxStreams, MaxErrors} \subseteq Nat
  /\ PackSizes \subseteq Nat \ {0} /\ DrainFails \in BOOLEAN

VARIABLES
  kind,        \* "lzma" or "lzma2"
  stream,      \* which source the reader has
  raw,         \* the byte the source gives next
  boundary,    \* where the chunk's data, or the stream, ends
  buf, pos, end, eof,      \* the fields of rangeDecoder
  wanted,      \* bytes that init still has to use
  rng,         \* what left the range: "normal" init or fin, "go" decodeLoop,
               \* "symbol" the one before in the assembly; "unset" it is zero
  pc,
  result,      \* the error the last step returned to the caller
  next,        \* the byte the coder should use next
  wrong,       \* it used another one
  lost,        \* the reader gave up its place in the source
  errors
buffer == <<buf, pos, end, eof>>
source == <<kind, stream, boundary>>
vars == <<source, raw, buffer, wanted, rng, pc, result, next, wrong, lost, errors>>

Least(x, y) == IF x <= y THEN x ELSE y
SrcEnd == (stream + 1) * SrcLen
Limit  == Least(boundary, SrcEnd)
Held   == end - pos

\* What Read of the source, or of the chunk's LimitedReader, may return for
\* room bytes: some of them, also none, at the end io.EOF, with the last ones
\* or after them, and some with an error that need not come again.
Got(room) ==
  LET most == Least(room, Limit - raw)
      some == {[n |-> n, err |-> "none"] : n \in 0 .. most}
      fail == {[n |-> n, err |-> "fail"] : n \in 0 .. most}
      last == {[n |-> most, err |-> "eof"]}
  IN some \union (IF errors < MaxErrors THEN fail ELSE {})
          \union (IF raw + most = Limit /\ (most = 0 \/ Limit = SrcEnd) THEN last ELSE {})

Took(g) ==
  /\ raw' = raw + g.n
  /\ errors' = IF g.err = "fail" THEN errors + 1 ELSE errors

ArrivedInFront(b, n, g) == [i \in DOMAIN b |-> IF i < g.n THEN raw + i ELSE b[i]]
\* Fresh bytes behind n that stay.
Arrived(b, n, g) == [i \in DOMAIN b |-> IF i >= n /\ i < n + g.n THEN raw + i - n ELSE b[i]]

FillBuffer(g) ==
  /\ Took(g)
  /\ buf' = Arrived(buf, 0, g) /\ end' = g.n /\ eof' = (g.err = "eof")
FillFailsAtLast(g) == g.err # "none"
FillFails(g) == g.err = "fail" \/ (g.err = "eof" /\ g.n = 0)
Error(g) == IF g.err = "fail" THEN "fail" ELSE "unexpectedEOF"

\* The coder uses k bytes of the buffer from p on.  What lies behind the array
\* is no byte of the source.
Uses(b, p, k) ==
  LET right == \A i \in 0 .. k - 1 : p + i < BufSize /\ b[p + i] = next + i IN
  /\ pos' = p + k
  /\ next' = IF right THEN next + k ELSE next
  /\ wrong' = (wrong \/ ~right)

-----------------------------------------------------------------------------
\* readByte and rcFillAndNorm.

\* stale: the fill brought neither bytes nor an error, and an old one is used.
TakesByte(stale) ==
  \/ pos < end /\ ~stale /\ Uses(buf, pos, 1) /\ UNCHANGED <<raw, buf, end, eof, errors>>
  \/ /\ pos >= end /\ ~eof
     /\ \E g \in Got(BufSize) :
          ~FillFails(g) /\ FillBuffer(g) /\ Uses(buf', 0, 1) /\ stale = (g.n = 0)

ReadByte == \E stale \in BOOLEAN : TakesByte(stale) /\ lost' = (lost \/ stale)

\* got: how many bytes came with the error.
ReadFails(got) ==
  /\ pos >= end
  /\ \/ eof /\ got = 0 /\ result' = "unexpectedEOF" /\ UNCHANGED <<raw, buffer, errors>>
     \/ /\ ~eof
        /\ \E g \in Got(BufSize) :
             FillFails(g) /\ g.n = got /\ FillBuffer(g) /\ pos' = 0 /\ result' = Error(g)
  /\ UNCHANGED <<next, wrong>>

\* An error of init.  Decoder.Read calls it again as long as rng is zero, and
\* it begins with a fill, which drops what came with the error; LZMA2Reader
\* goes on to what it takes for a header.
Abandon(dropped) ==
  /\ pc' = IF kind = "lzma2" THEN "header" ELSE IF wanted = InitLen THEN "init" ELSE "decode"
  /\ lost' = (lost \/ kind = "lzma2" \/ (wanted = InitLen /\ dropped))
  /\ UNCHANGED <<source, wanted, rng>>

InitFill ==
  /\ pc = "init" /\ ~eof
  /\ \E g \in Got(BufSize) :
       /\ FillBuffer(g) /\ pos' = 0
       /\ \/ ~FillFails(g) /\ pc' = "initByte" /\ result' = "none" /\ UNCHANGED <<source, wanted, rng, lost>>
          \/ FillFails(g) /\ result' = Error(g) /\ Abandon(g.n > 0)
  /\ UNCHANGED <<next, wrong>>

InitAtEnd ==
  /\ pc = "init" /\ eof
  /\ result' = "unexpectedEOF" /\ Abandon(FALSE)
  /\ UNCHANGED <<raw, buffer, errors, next, wrong>>

InitByte ==
  /\ pc = "initByte" /\ ReadByte
  /\ wanted' = wanted - 1 /\ pc' = IF wanted = 1 THEN "decode" ELSE "initByte"
  /\ rng' = "normal" /\ result' = "none" /\ UNCHANGED source

\* The first byte must be zero.
InitRefuses ==
  /\ pc = "initByte" /\ wanted = InitLen
  /\ \E stale \in BOOLEAN : TakesByte(stale)
  /\ result' = "data"
  /\ pc' = (IF kind = "lzma2" THEN "header" ELSE "init") /\ lost' = TRUE
  /\ UNCHANGED <<source, wanted, rng>>

InitFails ==
  pc = "initByte" /\ \E got \in 0 .. BufSize : ReadFails(got) /\ Abandon(got > 0)

\* decodeLoop reads a byte only before the next decision, so it never leaves
\* the range normalised for certain.
DecodeByte ==
  pc = "decode" /\ ReadByte /\ rng' = "go" /\ result' = "none" /\ UNCHANGED <<source, wanted, pc>>

\* A decision that needs no byte.
DecodeNoByte ==
  /\ pc = "decode" /\ rng' = "go" /\ result' = "none"
  /\ UNCHANGED <<source, raw, buffer, wanted, pc, next, wrong, lost, errors>>

DecodeFails ==
  /\ pc = "decode" /\ \E got \in 0 .. BufSize : ReadFails(got)
  /\ rng' = "go" /\ UNCHANGED <<source, wanted, pc, lost>>

-----------------------------------------------------------------------------
\* tryDecodeAsm.

Enough(held) == held >= Required

KeptInPlace(b) == b
Kept(b) == [i \in DOMAIN b |-> IF i < Held THEN b[pos + i] ELSE b[i]]

Refill ==
  /\ pc = "decode" /\ ~Enough(Held) /\ ~eof /\ pos <= end
  /\ \E g \in Got(BufSize - Held) :
       /\ Took(g)
       /\ buf' = Arrived(Kept(buf), Held, g) /\ pos' = 0 /\ end' = Held + g.n
       /\ eof' = (g.err = "eof")
       /\ result' = IF g.err = "fail" THEN "fail" ELSE "none"
       /\ pc' = IF g.err # "fail" /\ Enough(end') THEN "asm" ELSE "decode"
  /\ UNCHANGED <<source, wanted, rng, next, wrong, lost>>

\* The slice from pos to end does not exist.
RefillFaults ==
  /\ pc = "decode" /\ ~Enough(Held) /\ ~eof /\ pos > end
  /\ pc' = "fault"
  /\ UNCHANGED <<source, raw, buffer, wanted, rng, result, next, wrong, lost, errors>>

AsmEnter ==
  /\ pc = "decode" /\ Enough(Held)
  /\ pc' = "asm" /\ result' = "none"
  /\ UNCHANGED <<source, raw, buffer, wanted, rng, next, wrong, lost, errors>>

\* What a symbol may take, the normalisation at the kernel's end included
\* (InputBound): NORM comes before a decision, so only fin leaves the range
\* normalised.
SymbolMax == IF rng = "normal" THEN Required ELSE Required + 1

GoesOnAtLimit(p) == p <= end - Required
\* The kernel looks at its limit only after each symbol.
GoesOn(p) == p < end - Required

\* A byte taken past the end is an old one, or not even in the buffer.
AsmSymbol ==
  /\ pc = "asm"
  /\ \E k \in 0 .. SymbolMax :
       /\ Uses(buf, pos, k) /\ lost' = (lost \/ pos + k > end)
       /\ \/ pc' = "decode" /\ rng' = "normal"
          \/ GoesOn(pos + k) /\ pc' = "asm" /\ rng' = "symbol"
  /\ result' = "none"
  /\ UNCHANGED <<source, raw, buf, end, eof, wanted, errors>>

-----------------------------------------------------------------------------
\* LZMA2Reader.Read.

\* The chunk has yielded its size: what is left of its data is skipped.
ChunkDone ==
  /\ pc = "decode" /\ kind = "lzma2"
  /\ pc' = "drain" /\ result' = "none"
  /\ UNCHANGED <<source, raw, buffer, wanted, rng, next, wrong, lost, errors>>

DrainOnce(g) == "header"
DrainTo(g) == IF g.err = "none" THEN "drain" ELSE "header"
Drain ==
  /\ pc = "drain"
  /\ \E g \in Got(BufSize) :
       /\ g.err = "fail" => DrainFails
       /\ Took(g) /\ pc' = DrainTo(g)
  /\ result' = "none"
  /\ UNCHANGED <<source, buffer, wanted, rng, next, wrong, lost>>

Header ==
  /\ pc = "header" /\ raw + HeaderLen <= SrcEnd
  /\ raw' = raw + HeaderLen
  /\ \E p \in PackSizes : boundary' = raw' + p
  /\ \/ /\ pc' = "init" /\ pos' = 0 /\ end' = 0 /\ eof' = FALSE
        /\ wanted' = InitLen /\ next' = raw' /\ UNCHANGED buf
     \/ pc' = "uncomp" /\ UNCHANGED <<buffer, wanted, next>>
  /\ result' = "none"
  /\ UNCHANGED <<kind, stream, rng, wrong, lost, errors>>

\* Bytes of the header that came before the error, or were refused, are not
\* read again.
HeaderFails ==
  /\ pc = "header"
  /\ \E k \in 0 .. HeaderLen :
       /\ raw + k <= SrcEnd
       /\ raw' = raw + k /\ lost' = (lost \/ k > 0)
       /\ \/ k < HeaderLen /\ raw' = SrcEnd /\ result' = "eof" /\ UNCHANGED errors
          \/ k < HeaderLen /\ errors < MaxErrors /\ result' = "fail" /\ errors' = errors + 1
          \/ k > 0 /\ result' = "data" /\ UNCHANGED errors
  /\ UNCHANGED <<source, buffer, wanted, rng, pc, next, wrong>>

\* An uncompressed chunk is read past the buffer, and from where an error
\* interrupted it.
Uncompressed ==
  /\ pc = "uncomp"
  /\ \E g \in Got(boundary - raw) :
       /\ Took(g)
       /\ pc' = IF raw' = boundary THEN "header" ELSE "uncomp"
       /\ result' = IF raw' = boundary THEN "none" ELSE g.err
  /\ UNCHANGED <<source, buffer, wanted, rng, next, wrong, lost>>

-----------------------------------------------------------------------------
Init ==
  /\ kind \in {"lzma", "lzma2"} /\ stream = 0 /\ raw = 0 /\ errors = 0
  /\ buf = [i \in 0 .. BufSize - 1 |-> -1] /\ pos = 0 /\ end = 0 /\ eof = FALSE
  /\ wanted = InitLen /\ rng = "unset" /\ next = 0 /\ wrong = FALSE /\ lost = FALSE /\ result = "none"
  /\ \/ kind = "lzma" /\ pc = "init" /\ boundary = SrcLen
     \/ kind = "lzma2" /\ pc = "header" /\ boundary = 0

\* Decoder.Reset, for another source; the buffer keeps the old bytes.
Reset ==
  /\ kind = "lzma" /\ pc \in {"init", "decode"} /\ stream + 1 < MaxStreams
  /\ stream' = stream + 1 /\ raw' = SrcEnd /\ next' = SrcEnd /\ boundary' = SrcEnd + SrcLen
  /\ pos' = 0 /\ end' = 0 /\ eof' = FALSE /\ wanted' = InitLen /\ rng' = "unset"
  /\ pc' = "init" /\ result' = "none" /\ wrong' = FALSE /\ lost' = FALSE /\ errors' = 0
  /\ UNCHANGED <<kind, buf>>

Next ==
  \/ InitFill \/ InitAtEnd \/ InitByte \/ InitRefuses \/ InitFails
  \/ DecodeByte \/ DecodeNoByte \/ DecodeFails \/ Refill \/ RefillFaults \/ AsmEnter \/ AsmSymbol
  \/ ChunkDone \/ Drain \/ Header \/ HeaderFails \/ Uncompressed \/ Reset
Spec == Init /\ [][Next]_vars

-----------------------------------------------------------------------------
\* The reader gives up its place in the source (lost) at an error in the middle
\* of a header or of init, at a read that returns neither bytes nor an error,
\* and when the assembly takes a byte past the end.  Until then the buffer from
\* pos to end holds the bytes between the coder and the source, none missing
\* and none twice.
BufferHolds ==
  /\ buf \in [0 .. BufSize - 1 -> Int] /\ pos \in 0 .. BufSize + 1 /\ end \in 0 .. BufSize
  /\ pc \in {"init", "initByte", "decode", "asm"} /\ ~lost =>
       /\ pos <= end /\ raw = next + Held
       /\ \A i \in pos .. end - 1 : buf[i] = next + i - pos

\* The coder uses every byte once and in order, whichever engine asks for it,
\* through short reads, refills in the middle of what is buffered, errors of
\* the source and reuse of the reader; until the reader gives up its place.
InputInOrder == wrong => lost

\* The assembly has all the input that a symbol may take, save one case: right
\* after decodeLoop, with no more than Required bytes in the buffer, it is one
\* byte short.  The driver's slice fails to exist only where the coder has
\* already used a byte that had not come.
AsmWithinInput ==
  /\ pc = "asm" => Held >= SymbolMax \/ (rng = "go" /\ Held = Required)
  /\ pc = "fault" => lost

\* The input is said to have ended only when all its bytes were used.
EofOnlyAtEnd == result = "unexpectedEOF" /\ ~lost => next = Limit

\* A header is read where the chunk before, or the source, ended, however much
\* of the chunk the coder used, and although errors may have interrupted it.
ChunkFraming == pc = "header" /\ ~lost => raw = Limit
=============================================================================
