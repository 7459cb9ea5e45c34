----------------------------- MODULE LZMA2Proofs -----------------------------
(***************************************************************************)
(* Proofs about LZMA2Reader, for any sequence of chunks, any input, any    *)
(* dictionary and buffer size and any word width.                          *)
(***************************************************************************)
EXTENDS LZMA2Reader, EngineProofs

ChunkTypes ==
  /\ dicBufSize = DicSize
  /\ pc \in {"ready", "loop", "chunk", "decode", "asm", "asmFirst", "asmNext",
             "goEntry", "go", "decoded", "fault"}
  /\ chunkRemain \in Nat /\ announced \in Nat /\ due \in Levels
  /\ inLZMA \in BOOLEAN /\ inUncomp \in BOOLEAN /\ propSet \in BOOLEAN
  /\ eof \in BOOLEAN /\ cut \in BOOLEAN
  /\ want \in Nat /\ total \in Nat /\ errors \in Nat /\ delivered \in Nat

\* An engine runs only within an LZMA chunk, and its limit leaves it no more
\* room than the chunk has bytes left; the next chunk is looked at only when
\* the caller has every byte.
ChunkControl ==
  /\ ~(inLZMA /\ inUncomp)
  /\ inLZMA => due = 0
  /\ InEngine => /\ inLZMA /\ chunkRemain > 0 /\ want > 0
                 /\ limit <= readPos + chunkRemain
  /\ pc = "chunk" => Buffered = 0 /\ dicPos < dicBufSize /\ want > 0
  /\ eof => ~InEngine /\ pc # "chunk" /\ Buffered = 0
  /\ pc = "loop" /\ want = 0 /\ total = 0 => ~eof

Chunks == Core /\ ChunkTypes /\ ChunkControl /\ ChunkAccounting

\* What is left of the chunk under way.
Residue == IF inLZMA \/ inUncomp THEN chunkRemain ELSE 0

LEMMA Constants ==
  /\ SpecLen \in Nat \ {0} /\ Word \in Nat /\ SpecLen + 1 < Word
  /\ DicSize \in Nat \ {0} /\ DicSize < Word
  /\ ChunkSizes \subseteq Nat \ {0} /\ MaxRead \in Nat /\ MaxOut \in Nat
  BY CoreAssumption, CallAssumption, LZMA2Assumption
     DEF CoreAssumption, CallAssumption, LZMA2Assumption

LEMMA InitChunks == Init => Chunks
<1> SUFFICES ASSUME Init PROVE Chunks
  OBVIOUS
<1>1. CoreWindow
  BY Constants DEF Init, InitialReps, CoreWindow, Slots, Garbage
<1>2. CoreFlags
  BY DEF Init, CoreFlags
<1>3. CoreControl
  BY DEF Init, CoreControl, InEngine
<1>4. ChunkTypes
  <2>1. /\ inLZMA \in BOOLEAN /\ inUncomp \in BOOLEAN /\ propSet \in BOOLEAN
        /\ eof \in BOOLEAN /\ cut \in BOOLEAN
    BY DEF Init
  <2>2. dicBufSize = DicSize /\ pc = "ready"
    BY DEF Init
  <2>3. /\ chunkRemain = 0 /\ announced = 0 /\ due = 3
        /\ want = 0 /\ total = 0 /\ errors = 0 /\ delivered = 0
    BY DEF Init, ResetDict
  <2> QED
    BY <2>1, <2>2, <2>3 DEF ChunkTypes, Levels
<1>5. ChunkControl /\ ChunkAccounting
  BY DEF Init, ChunkControl, ChunkAccounting, InEngine, Buffered
<1> QED
  BY <1>1, <1>2, <1>3, <1>4, <1>5 DEF Chunks, Core

----------------------------------------------------------------------------
(* The engines' part of the state, at the steps outside the engines.       *)

\* Between engines only the types of an engine's variables matter.
LEMMA OutsideControl ==
  ASSUME Core, pc' \in {"ready", "loop", "chunk"}, UNCHANGED <<limit, limit2, startDicPos, derr>>
  PROVE  CoreControl'
  BY DEF Core, CoreControl, InEngine

\* The steps that move no byte.
Reporting ==
  \/ \E n \in 0 .. MaxRead : ReadAtEnd(n) \/ ReadBegin(n)
  \/ ReadDone \/ AfterDecode
  \/ ControlError \/ HeaderError \/ BadHeader \/ EndOfStream

LEMMA ReportingStill ==
  ASSUME Reporting
  PROVE  /\ UNCHANGED <<window, engine, dicBufSize, propDicSize, base, readPos, state, reps,
                        ioErr, history, announced, due, delivered>>
         /\ conforming' = conforming \/ conforming' = FALSE
         /\ pc' \in {"ready", "loop"}
<1> USE DEF Return, Fail, format, caller, geometry
<1>1. CASE \E n \in 0 .. MaxRead : ReadAtEnd(n)
  BY <1>1 DEF ReadAtEnd
<1>2. CASE \E n \in 0 .. MaxRead : ReadBegin(n)
  BY <1>2 DEF ReadBegin
<1>3. CASE ReadDone
  BY <1>3 DEF ReadDone
<1>4. CASE AfterDecode
  BY <1>4 DEF AfterDecode
<1>5. CASE HeaderError
  BY <1>5 DEF HeaderError
<1>6. CASE BadHeader
  BY <1>6 DEF BadHeader
<1>7. CASE EndOfStream
  BY <1>7 DEF EndOfStream
<1>8. CASE ControlError
  BY <1>8 DEF ControlError
<1> QED
  BY <1>1, <1>2, <1>3, <1>4, <1>5, <1>6, <1>7, <1>8 DEF Reporting

LEMMA ReportingCore ==
  ASSUME Core, Reporting
  PROVE  Core'
<1>1. /\ UNCHANGED <<window, engine, dicBufSize, propDicSize, base, readPos, state, reps, ioErr,
                     history>>
      /\ pc' \in {"ready", "loop"}
  BY ReportingStill
<1>2. CoreControl'
  BY <1>1, OutsideControl DEF engine
<1>3. CoreWindow'
  BY <1>1 DEF Core, CoreWindow, Slots, window, history
<1>4. CoreFlags'
  BY <1>1 DEF Core, CoreFlags, history
<1> QED
  BY <1>2, <1>3, <1>4 DEF Core

LEMMA LoopCopyCore ==
  ASSUME Core, ChunkTypes, LoopCopy
  PROVE  Core' /\ Lesser(want, Buffered) \in 1 .. want /\ Lesser(want, Buffered) <= Buffered
<1>1. Lesser(want, Buffered) \in 1 .. want /\ Lesser(want, Buffered) <= Buffered
  BY DEF LoopCopy, Lesser, Buffered, Core, CoreWindow, ChunkTypes
<1>2. readPos' = readPos + Lesser(want, Buffered)
  BY DEF LoopCopy, Copy
<1>3. UNCHANGED <<window, engine, dicBufSize, propDicSize, base, conforming,
                  state, reps, ioErr, history, pc>>
  BY DEF LoopCopy
<1>4. readPos' \in 0 .. dicPos
  BY <1>1, <1>2 DEF Core, CoreWindow, Buffered, ChunkTypes
<1>5. CoreWindow'
  BY <1>3, <1>4 DEF Core, CoreWindow, Slots, window, history
<1>6. CoreControl'
  BY <1>3, OutsideControl DEF LoopCopy, engine
<1>7. CoreFlags'
  BY <1>3 DEF Core, CoreFlags, history
<1> QED
  BY <1>1, <1>5, <1>6, <1>7 DEF Core

LEMMA LoopWrapCore ==
  ASSUME Core, LoopWrap
  PROVE  /\ Core' /\ dicPos' \in 0 .. (dicBufSize - 1) /\ readPos' = dicPos'
<1>1. dicPos' \in 0 .. (dicBufSize - 1) /\ readPos' = dicPos'
  BY DEF LoopWrap, Wrap, Wrapped, Buffered, Core, CoreWindow
<1>2. CoreWindow'
  BY <1>1 DEF LoopWrap, Core, CoreWindow, Slots, history
<1>3. CoreControl'
  BY OutsideControl DEF LoopWrap, engine
<1>4. CoreFlags'
  BY DEF LoopWrap, Core, CoreFlags, history
<1> QED
  BY <1>1, <1>2, <1>3, <1>4 DEF Core

\* Where an engine may write: not beyond the chunk.
LEMMA ChunkLimitRange ==
  ASSUME Chunks, pc = "chunk", MidLZMA
  PROVE  /\ ChunkLimit \in Nat /\ dicPos < ChunkLimit /\ ChunkLimit <= dicBufSize
         /\ ChunkLimit <= readPos + chunkRemain
  BY DEF Chunks, ChunkTypes, ChunkControl, Buffered, Core, CoreWindow, MidLZMA, ChunkLimit,
     Lesser

\* The rest of a match is written, or nothing.
LEMMA ContinueLZMACore ==
  ASSUME Chunks, ContinueLZMA
  PROVE  /\ Core' /\ limit' = ChunkLimit /\ InEngine'
         /\ dicPos' \in dicPos .. ChunkLimit
         /\ outPos' = outPos + (dicPos' - dicPos)
<1>1. /\ ChunkLimit \in Nat /\ dicPos < ChunkLimit /\ ChunkLimit <= dicBufSize
  BY ChunkLimitRange DEF ContinueLZMA
<1>2. /\ limit' = ChunkLimit /\ derr' = "nil"
      /\ UNCHANGED <<limit2, startDicPos, geometry, state, reps, ioErr, history>>
  BY DEF ContinueLZMA
<1>3. CASE Pending
  <2>1. WriteRem(ChunkLimit, checkDicSize)
    BY <1>3 DEF ContinueLZMA
  <2>2. Core
    BY DEF Chunks
  <2>3. /\ CoreWindow' /\ dicPos' \in dicPos .. ChunkLimit
        /\ outPos' = outPos + (dicPos' - dicPos)
    BY <1>1, <1>2, <2>1, <2>2, WriteRemCore DEF Core, CoreWindow
  <2>4. /\ pc' \in {"decode", "decoded", "fault"}
        /\ pc' = "decode" => dicPos' < ChunkLimit
    BY <1>3 DEF ContinueLZMA, AfterRem
  <2>5. PICK p \in dicPos .. ChunkLimit : dicPos' = p
    BY <2>3
  <2>6. CoreControl'
    BY <1>1, <1>2, <2>2, <2>4, <2>5 DEF Core, CoreControl, InEngine, geometry
  <2>7. CoreFlags'
    BY <1>2, <2>2 DEF Core, CoreFlags, history
  <2> QED
    BY <1>2, <2>3, <2>4, <2>6, <2>7 DEF Core, InEngine
<1>4. CASE ~Pending
  <2>1. pc' = "decode" /\ UNCHANGED window
    BY <1>4 DEF ContinueLZMA
  <2>2. CoreWindow'
    BY <1>2, <2>1 DEF Chunks, Core, CoreWindow, Slots, window, geometry, history
  <2>3. CoreControl'
    <3>1. PICK l \in Nat : limit' = l /\ dicPos < l /\ l <= dicBufSize
      BY <1>1, <1>2
    <3>2. UNCHANGED <<dicPos, dicBufSize, limit2, startDicPos>>
      BY <1>2, <2>1 DEF geometry, window
    <3> QED
      BY <1>2, <2>1, <3>1, <3>2 DEF Chunks, Core, CoreWindow, CoreControl, InEngine
  <2>4. CoreFlags'
    BY <1>2 DEF Chunks, Core, CoreFlags, history
  <2> QED
    BY <1>1, <1>2, <2>1, <2>2, <2>3, <2>4 DEF Core, InEngine, window, Chunks, CoreWindow
<1> QED
  BY <1>3, <1>4

\* io.ReadFull puts n bytes of the chunk into the dictionary.
LEMMA ContinueUncompCore ==
  ASSUME Chunks, NEW n \in 0 .. dicBufSize, ContinueUncomp(n)
  PROVE  /\ Core' /\ pc' \in {"loop", "ready"}
         /\ n \in Nat /\ n <= chunkRemain /\ n <= dicBufSize - dicPos
<1>1. /\ dicPos \in Nat /\ chunkRemain \in Nat /\ dicBufSize \in Nat
      /\ dicPos < dicBufSize /\ readPos = dicPos
      /\ processedPos \in 0 .. (Word - 1) /\ outPos \in Nat /\ coded \in Nat
      /\ base \in 0 .. outPos
  BY DEF ContinueUncomp, Chunks, ChunkTypes, ChunkControl, Buffered, Core, CoreWindow
<1>2. n \in Nat /\ n <= chunkRemain /\ n <= dicBufSize - dicPos
  BY <1>1 DEF ContinueUncomp, Lesser
<1>3. /\ dicPos' = dicPos + n /\ outPos' = outPos + n /\ coded' = coded + n
      /\ processedPos' = Plus32(processedPos, n)
      /\ checkDicSize' = Checked(checkDicSize, processedPos')
      /\ UNCHANGED <<remainLen, engine, geometry, state, reps, ioErr, tainted>>
  BY DEF ContinueUncomp, Advance
<1>4. processedPos' \in 0 .. (Word - 1)
  BY <1>1, <1>2, <1>3, Constants DEF Plus32, Chunks, Core, CoreWindow
<1>5. checkDicSize' \in {0, propDicSize}
  BY <1>3 DEF Checked, Chunks, Core, CoreWindow
<1>6. dic' \in [Slots -> Nat \cup {Garbage}]
  BY <1>1, <1>2 DEF ContinueUncomp, Slots, Chunks, Core, CoreWindow
<1>7. CoreWindow'
  <2>1. /\ dicPos + n \in 0 .. dicBufSize /\ readPos \in 0 .. (dicPos + n)
        /\ outPos + n \in Nat /\ coded + n \in Nat /\ base \in 0 .. (outPos + n)
    BY <1>1, <1>2
  <2> QED
    BY <1>3, <1>4, <1>5, <1>6, <2>1 DEF Chunks, Core, CoreWindow, Slots, geometry
<1>8. pc' \in {"loop", "ready"}
  BY DEF ContinueUncomp, Fail, Return
<1>9. CoreControl'
  BY <1>3, <1>8, OutsideControl DEF engine, Chunks
<1>10. CoreFlags'
  BY <1>3 DEF Chunks, Core, CoreFlags
<1> QED
  BY <1>2, <1>7, <1>8, <1>9, <1>10 DEF Core

\* The headers that announce a chunk, or fail to begin it.
Beginning ==
  \/ \E sz \in ChunkSizes, reset \in BOOLEAN : UncompHeader(reset, sz)
  \/ \E sz \in ChunkSizes, level \in Levels : LZMAHeader(level, sz)
  \/ \E level \in Levels : LZMAHeaderFails(level)

\* A header may reset the dictionary, the properties and the coder's state.
LEMMA BeginningStill ==
  ASSUME Beginning
  PROVE  /\ UNCHANGED <<dic, outPos, engine, dicBufSize, conforming, ioErr, coded, eof,
                        want, total, delivered>>
         /\ ForgetDictionary \/ KeepDictionary
         /\ propDicSize' \in {propDicSize, dicBufSize}
         /\ UNCHANGED <<state, reps, remainLen>>
              \/ (state' = 0 /\ reps' = InitialReps /\ remainLen' = 0)
         /\ tainted' \in {tainted, TRUE}
         /\ AtHeader /\ pc' \in {"loop", "ready"}
<1> USE DEF Announce, StateAfterHeader, Fail, Return, history, caller
<1>1. CASE \E sz \in ChunkSizes, reset \in BOOLEAN : UncompHeader(reset, sz)
  BY <1>1 DEF UncompHeader
<1>2. CASE \E sz \in ChunkSizes, level \in Levels : LZMAHeader(level, sz)
  BY <1>2 DEF LZMAHeader
<1>3. CASE \E level \in Levels : LZMAHeaderFails(level)
  BY <1>3 DEF LZMAHeaderFails
<1> QED
  BY <1>1, <1>2, <1>3 DEF Beginning

LEMMA BeginningCore ==
  ASSUME Chunks, Beginning
  PROVE  Core' /\ Buffered' = 0
<1>1. /\ UNCHANGED <<dic, outPos, engine, dicBufSize, conforming, ioErr, coded>>
      /\ ForgetDictionary \/ KeepDictionary
      /\ propDicSize' \in {propDicSize, dicBufSize}
      /\ UNCHANGED <<state, reps, remainLen>>
           \/ (state' = 0 /\ reps' = InitialReps /\ remainLen' = 0)
      /\ AtHeader /\ pc' \in {"loop", "ready"}
  BY BeginningStill
<1>2. checkDicSize' \in {0, propDicSize'}
  BY <1>1 DEF ForgetDictionary, KeepDictionary, Chunks, Core, CoreWindow
<1>3. state' \in 0 .. 11 /\ reps' \in [1 .. 4 -> Nat \ {0}] /\ remainLen' \in 0 .. (SpecLen + 1)
  BY <1>1, Constants DEF InitialReps, Chunks, Core, CoreWindow
<1>4. /\ dicPos' \in 0 .. dicBufSize /\ readPos' = dicPos'
      /\ base' \in 0 .. outPos /\ processedPos' \in 0 .. (Word - 1)
  BY <1>1, Constants DEF ForgetDictionary, KeepDictionary, AtHeader, Chunks, ChunkControl, Buffered,
     Core, CoreWindow
<1>5. PICK d \in 0 .. dicBufSize : dicPos' = d /\ readPos' = d
  BY <1>4
<1>6. d \in 0 .. d /\ d - d = 0
  BY <1>5 DEF Chunks, Core, CoreWindow
<1>7. CoreWindow'
  BY <1>1, <1>2, <1>3, <1>4, <1>5, <1>6 DEF Chunks, Core, CoreWindow, Slots
<1>8. CoreControl'
  BY <1>1, OutsideControl DEF engine, Chunks
<1>9. CoreFlags'
  <2>1. tainted' \in {tainted, TRUE}
    BY BeginningStill
  <2> QED
    BY <1>1, <2>1 DEF Chunks, Core, CoreFlags
<1> QED
  BY <1>5, <1>6, <1>7, <1>8, <1>9 DEF Core, Buffered

----------------------------------------------------------------------------
(* The chunks.                                                             *)

\* The steps that begin and end a call.
LEMMA CallChunks ==
  ASSUME Chunks, ReadDone \/ \E n \in 0 .. MaxRead : ReadAtEnd(n) \/ ReadBegin(n)
  PROVE  Chunks'
<1>1. Core'
  BY ReportingCore DEF Reporting, Chunks
<1>2. UNCHANGED <<dicPos, readPos, dicBufSize, outPos, delivered, announced, due, chunk, cut, limit>>
  BY DEF ReadDone, ReadAtEnd, ReadBegin, window, engine, geometry, chunk, format
<1>3. pc \in {"ready", "loop"} /\ pc' \in {"ready", "loop"}
  BY DEF ReadDone, ReadAtEnd, ReadBegin, Called, Return
<1>4. /\ want' \in Nat /\ total' \in Nat
      /\ pc' = "loop" => ~eof
  BY DEF ReadDone, ReadAtEnd, ReadBegin, Called, Return, Chunks, ChunkTypes
<1>5. errors' \in Nat /\ (errors' = 0 => errors = 0)
  BY DEF ReadDone, ReadAtEnd, ReadBegin, Return, Chunks, ChunkTypes
<1>6. ChunkTypes'
  BY <1>2, <1>3, <1>4, <1>5 DEF Chunks, ChunkTypes, chunk
<1>7. ChunkControl'
  BY <1>2, <1>3, <1>4 DEF Chunks, ChunkControl, InEngine, Buffered, chunk
<1>8. ChunkAccounting'
  BY <1>2, <1>3, <1>5 DEF Chunks, ChunkAccounting, InEngine, Buffered, chunk
<1> QED
  BY <1>1, <1>6, <1>7, <1>8 DEF Chunks

LEMMA LoopCopyChunks ==
  ASSUME Chunks, LoopCopy, UNCHANGED <<chunk, format>>
  PROVE  Chunks'
<1>1. Core'
  BY LoopCopyCore DEF Chunks
<1>2. PICK n \in Nat \ {0} : n = Lesser(want, Buffered) /\ n <= want /\ n <= Buffered
  BY LoopCopyCore DEF Chunks, ChunkTypes
<1>3. /\ readPos' = readPos + n /\ delivered' = delivered + n
      /\ want' = want - n /\ total' = total + n
  BY <1>2 DEF LoopCopy, Copy
<1>4. /\ pc = "loop" /\ pc' = "loop" /\ Buffered > 0
      /\ UNCHANGED <<dicPos, dicBufSize, outPos, announced, due, cut, errors, chunk>>
  BY DEF LoopCopy, window, format
<1>5. eof = FALSE
  BY <1>4 DEF Chunks, ChunkControl, ChunkTypes
<1>6. dicPos \in Nat /\ readPos \in Nat /\ delivered = outPos - Buffered /\ outPos \in Nat
  BY DEF Chunks, Core, CoreWindow, ChunkAccounting
<1>7. ChunkTypes'
  BY <1>2, <1>3, <1>4 DEF Chunks, ChunkTypes, chunk
<1>8. ChunkControl'
  BY <1>4, <1>5 DEF Chunks, ChunkControl, InEngine, chunk
<1>9. ChunkAccounting'
  <2>1. delivered' = outPos' - Buffered'
    BY <1>2, <1>3, <1>4, <1>6 DEF Buffered
  <2> QED
    BY <1>4, <2>1 DEF Chunks, ChunkAccounting, InEngine, chunk
<1> QED
  BY <1>1, <1>7, <1>8, <1>9 DEF Chunks

LEMMA LoopWrapChunks ==
  ASSUME Chunks, LoopWrap
  PROVE  Chunks'
<1>1. Core' /\ dicPos' \in 0 .. (dicBufSize - 1) /\ readPos' = dicPos'
  BY LoopWrapCore DEF Chunks
<1>2. PICK d \in 0 .. (dicBufSize - 1) : dicPos' = d /\ readPos' = d
  BY <1>1
<1>3. /\ pc = "loop" /\ pc' = "chunk" /\ want > 0 /\ Buffered = 0 /\ ~eof
      /\ UNCHANGED <<dicBufSize, outPos, delivered, want, total, errors, announced, due,
                     cut, chunk>>
  BY DEF LoopWrap, caller, format
<1>4. Buffered' = 0 /\ d < dicBufSize
  BY <1>2 DEF Buffered, Chunks, Core, CoreWindow
<1>5. ChunkTypes'
  BY <1>3 DEF Chunks, ChunkTypes, chunk
<1>6. ChunkControl'
  BY <1>2, <1>3, <1>4 DEF Chunks, ChunkControl, InEngine, chunk
<1>7. ChunkAccounting'
  BY <1>3, <1>4 DEF Chunks, ChunkAccounting, InEngine, chunk
<1> QED
  BY <1>1, <1>5, <1>6, <1>7 DEF Chunks

LEMMA ContinueLZMAChunks ==
  ASSUME Chunks, ContinueLZMA
  PROVE  Chunks'
<1>1. /\ Core' /\ limit' = ChunkLimit /\ InEngine'
      /\ dicPos' \in dicPos .. ChunkLimit
      /\ outPos' = outPos + (dicPos' - dicPos)
  BY ContinueLZMACore
<1>2. /\ pc = "chunk" /\ inLZMA /\ chunkRemain > 0
      /\ UNCHANGED <<dicBufSize, readPos, delivered, want, total, errors, announced, due,
                     cut, chunk>>
  BY DEF ContinueLZMA, MidLZMA, geometry, caller, format
<1>3. PICK p \in Nat : dicPos' = p
  BY <1>1, <1>2, ChunkLimitRange DEF ContinueLZMA, Chunks, Core, CoreWindow
<1>4. ChunkLimit <= readPos + chunkRemain /\ dicPos = readPos /\ want > 0 /\ ~eof
      /\ readPos \in Nat /\ outPos \in Nat
  BY <1>2, ChunkLimitRange
     DEF ContinueLZMA, Chunks, ChunkControl, Buffered, Core, CoreWindow
<1>5. ChunkTypes'
  BY <1>1, <1>2 DEF Chunks, ChunkTypes, chunk, InEngine
<1>6. ChunkControl'
  BY <1>1, <1>2, <1>4 DEF Chunks, ChunkControl, InEngine, chunk
<1>7. ChunkAccounting'
  <2>1. Buffered = 0 /\ Buffered' = p - readPos /\ outPos' = outPos + (p - readPos)
    BY <1>1, <1>2, <1>3, <1>4 DEF Buffered
  <2>2. delivered = outPos
    BY <1>4, <2>1 DEF Chunks, ChunkAccounting
  <2>3. errors = 0 /\ ~cut => outPos + chunkRemain = announced
    BY <1>2, <1>4, <2>1 DEF Chunks, ChunkAccounting, InEngine, ChunkTypes
  <2>4. announced \in Nat /\ chunkRemain \in Nat
    BY DEF Chunks, ChunkTypes
  <2> QED
    <3>1. (IF inLZMA \/ inUncomp THEN chunkRemain ELSE 0)' = chunkRemain
      BY <1>2 DEF chunk
    <3>2. (IF InEngine THEN Buffered ELSE 0)' = p - readPos
      BY <1>1, <2>1
    <3>3. errors' = 0 /\ ~cut' => outPos + (p - readPos) + chunkRemain = announced + (p - readPos)
      BY <1>2, <1>4, <2>3, <2>4
    <3>4. delivered = outPos + (p - readPos) - (p - readPos)
      BY <1>4, <2>2
    <3> QED
      BY <1>2, <1>4, <2>1, <2>4, <3>1, <3>2, <3>3, <3>4 DEF ChunkAccounting
<1> QED
  BY <1>1, <1>5, <1>6, <1>7 DEF Chunks

LEMMA AfterDecodeChunks ==
  ASSUME Chunks, AfterDecode
  PROVE  Chunks'
<1>1. Core'
  BY ReportingCore DEF Reporting, Chunks
<1>2. /\ pc = "decoded" /\ pc' \in {"loop", "ready"}
      /\ UNCHANGED <<dicPos, readPos, dicBufSize, outPos, delivered, want, total, announced,
                     due, cut, propSet, eof, inUncomp>>
  BY DEF AfterDecode, Fail, Return, window, format, caller
<1>3. /\ inLZMA = TRUE /\ chunkRemain > 0 /\ want > 0 /\ eof = FALSE /\ inUncomp = FALSE
      /\ due = 0
  BY <1>2 DEF Chunks, ChunkControl, ChunkTypes, InEngine
<1>4. /\ Buffered \in Nat /\ Buffered <= chunkRemain /\ chunkRemain \in Nat
      /\ announced \in Nat /\ outPos \in Nat /\ errors \in Nat
  BY <1>2 DEF Chunks, ChunkControl, ChunkTypes, InEngine, Core, CoreWindow, CoreControl, Buffered
<1>5. CASE derr \in {"nil", "EOF"}
  <2>1. /\ chunkRemain' = chunkRemain - Buffered
        /\ inLZMA' = (chunkRemain - Buffered > 0)
        /\ UNCHANGED errors
    BY <1>5 DEF AfterDecode, caller
  <2>2. chunkRemain' \in Nat /\ inLZMA' \in BOOLEAN
    BY <1>4, <2>1
  <2>3. ChunkTypes'
    BY <1>2, <2>1, <2>2 DEF Chunks, ChunkTypes
  <2>4. ChunkControl'
    BY <1>2, <1>3 DEF ChunkControl, InEngine
  <2>5. errors = 0 /\ ~cut => outPos + chunkRemain = announced + Buffered
    BY <1>2, <1>3 DEF Chunks, ChunkAccounting, InEngine
  <2>6. errors = 0 /\ ~cut =>
          outPos + (IF inLZMA' THEN chunkRemain - Buffered ELSE 0) = announced
    <3>1. CASE chunkRemain - Buffered > 0
      <4>1. inLZMA' = TRUE
        BY <2>1, <3>1
      <4> QED
        BY <1>4, <2>5, <4>1
    <3>2. CASE ~(chunkRemain - Buffered > 0)
      <4>1. ~inLZMA'
        BY <2>1, <3>2
      <4> QED
        BY <1>4, <2>5, <3>2, <4>1
    <3> QED
      BY <3>1, <3>2
  <2>7. ChunkAccounting'
    BY <1>2, <1>3, <1>4, <2>1, <2>6 DEF Chunks, ChunkAccounting, InEngine, Buffered
  <2> QED
    BY <1>1, <2>3, <2>4, <2>7 DEF Chunks
<1>6. CASE derr \notin {"nil", "EOF"}
  <2>1. errors' = errors + 1 /\ UNCHANGED <<chunkRemain, inLZMA>>
    BY <1>6 DEF AfterDecode, Fail, Return
  <2>2. errors' \in Nat /\ errors' # 0
    BY <1>4, <2>1
  <2>3. ChunkTypes'
    BY <1>2, <2>1, <2>2 DEF Chunks, ChunkTypes
  <2>4. ChunkControl'
    BY <1>2, <1>3, <2>1 DEF ChunkControl, InEngine
  <2>5. ChunkAccounting'
    BY <1>2, <2>2 DEF Chunks, ChunkAccounting, Buffered
  <2> QED
    BY <1>1, <2>3, <2>4, <2>5 DEF Chunks
<1> QED
  BY <1>5, <1>6

LEMMA ContinueUncompChunks ==
  ASSUME Chunks, NEW n \in 0 .. dicBufSize, ContinueUncomp(n)
  PROVE  Chunks'
<1>1. /\ Core' /\ pc' \in {"loop", "ready"}
      /\ n \in Nat /\ n <= chunkRemain /\ n <= dicBufSize - dicPos
  BY ContinueUncompCore
<1>2. /\ pc = "chunk" /\ inUncomp /\ ~MidLZMA /\ chunkRemain > 0
      /\ dicPos' = dicPos + n /\ outPos' = outPos + n /\ chunkRemain' = chunkRemain - n
      /\ UNCHANGED <<readPos, dicBufSize, announced, due, propSet, eof>>
  BY DEF ContinueUncomp, MidUncomp, Advance, geometry
<1>3. /\ chunkRemain \in Nat /\ announced \in Nat /\ outPos \in Nat
      /\ dicPos \in Nat /\ dicPos = readPos /\ want > 0
      /\ inLZMA = FALSE /\ eof = FALSE
      /\ dicPos < dicBufSize /\ dicBufSize \in Nat
  BY <1>2 DEF Chunks, ChunkTypes, ChunkControl, Buffered, Core, CoreWindow
<1>4. UNCHANGED <<want, total, delivered>>
  BY DEF ContinueUncomp, Fail, caller
<1>5. inLZMA' = FALSE /\ inUncomp' \in BOOLEAN /\ (~inUncomp' => chunkRemain - n = 0)
  <2>1. inLZMA' = FALSE
    BY DEF ContinueUncomp
  <2>2. CASE chunkRemain - n > 0
    <3>1. inUncomp' = TRUE
      BY <1>2, <2>2 DEF ContinueUncomp
    <3> QED
      BY <2>1, <3>1
  <2>3. CASE ~(chunkRemain - n > 0)
    <3>1. inUncomp' \in BOOLEAN
      BY DEF ContinueUncomp
    <3> QED
      BY <1>1, <1>3, <2>1, <2>3, <3>1
  <2> QED
    BY <2>2, <2>3
<1>6. cut' \in BOOLEAN /\ (~cut' => ~cut)
  BY DEF ContinueUncomp
<1>7. /\ errors' \in Nat
      /\ errors' = 0 => errors = 0
  <2>1. errors' \in {errors, errors + 1}
    BY DEF ContinueUncomp, Fail, Return, caller
  <2> QED
    BY <2>1 DEF Chunks, ChunkTypes
<1>8. ChunkTypes'
  <2>1. chunkRemain - n \in Nat
    BY <1>1, <1>3
  <2> QED
    BY <1>1, <1>2, <1>4, <1>5, <1>6, <1>7, <2>1 DEF Chunks, ChunkTypes
<1>9. ChunkControl'
  <2>1. pc' \notin {"decode", "asm", "asmFirst", "asmNext", "goEntry", "go", "decoded", "fault",
                    "chunk"}
    BY <1>1
  <2> QED
    BY <1>2, <1>3, <1>4, <1>5, <2>1 DEF ChunkControl, InEngine
<1>10. ChunkAccounting'
  <2>1. Buffered = 0 /\ Buffered' = n
    BY <1>1, <1>2, <1>3 DEF Buffered
  <2>2. errors = 0 /\ ~cut => outPos + chunkRemain = announced
    BY <1>2, <1>3 DEF Chunks, ChunkAccounting, InEngine
  <2>3. (IF inLZMA \/ inUncomp THEN chunkRemain ELSE 0)' = chunkRemain - n
    BY <1>2, <1>5
  <2>4. (IF InEngine THEN Buffered ELSE 0)' = 0
    BY <1>1 DEF InEngine
  <2>5. errors' = 0 /\ ~cut' => (outPos + n) + (chunkRemain - n) = announced + 0
    BY <1>1, <1>3, <1>6, <1>7, <2>2
  <2>6. delivered = (outPos + n) - n
    BY <1>1, <1>3, <2>1 DEF Chunks, ChunkAccounting
  <2> QED
    BY <1>2, <1>4, <2>1, <2>3, <2>4, <2>5, <2>6 DEF ChunkAccounting
<1> QED
  BY <1>1, <1>8, <1>9, <1>10 DEF Chunks

\* At a header the chunk before is complete.
LEMMA AtHeaderComplete ==
  ASSUME Chunks, AtHeader
  PROVE  /\ pc = "chunk" /\ Residue = 0 /\ Buffered = 0 /\ ~eof /\ want > 0
         /\ errors = 0 /\ ~cut => outPos = announced
         /\ delivered = outPos /\ outPos \in Nat /\ announced \in Nat
  BY DEF AtHeader, MidLZMA, MidUncomp, Residue, Chunks, ChunkTypes, ChunkControl,
     ChunkAccounting, InEngine, Core, CoreWindow

LEMMA NoChunkChunks ==
  ASSUME Chunks, ControlError \/ HeaderError \/ BadHeader \/ EndOfStream
  PROVE  Chunks'
<1>1. Core'
  BY ReportingCore DEF Reporting, Chunks
<1>2. /\ AtHeader /\ pc' \in {"ready", "loop"}
      /\ inLZMA' = FALSE /\ inUncomp' = FALSE
      /\ UNCHANGED <<dicPos, readPos, dicBufSize, outPos, delivered, want, total, announced,
                     due, chunkRemain>>
  BY DEF ControlError, HeaderError, BadHeader, EndOfStream, Fail, Return, window, geometry, caller, format
<1>3. propSet' \in BOOLEAN
  BY DEF ControlError, HeaderError, BadHeader, EndOfStream, Chunks, ChunkTypes
<1>4. eof' \in BOOLEAN
  BY DEF ControlError, HeaderError, BadHeader, EndOfStream, Chunks, ChunkTypes
<1>5. cut' \in BOOLEAN /\ (~cut' => ~cut)
  <2>1. cut' \in {cut, TRUE}
    BY DEF ControlError, HeaderError, BadHeader, EndOfStream, format
  <2> QED
    BY <2>1 DEF Chunks, ChunkTypes
<1>6. errors' \in Nat /\ (errors' = 0 => errors = 0)
  <2>1. errors' \in {errors, errors + 1}
    BY DEF ControlError, HeaderError, BadHeader, EndOfStream, Fail, Return, caller
  <2> QED
    BY <2>1 DEF Chunks, ChunkTypes
<1>7. ChunkTypes'
  BY <1>2, <1>3, <1>4, <1>5, <1>6 DEF Chunks, ChunkTypes
<1>8. ChunkControl'
  BY <1>2, AtHeaderComplete DEF ChunkControl, InEngine, Buffered
<1>9. ChunkAccounting'
  BY <1>2, <1>5, <1>6, AtHeaderComplete DEF ChunkAccounting, InEngine, Buffered
<1> QED
  BY <1>1, <1>7, <1>8, <1>9 DEF Chunks

LEMMA BeginningChunks ==
  ASSUME Chunks, Beginning
  PROVE  Chunks'
<1>1. Core' /\ Buffered' = 0
  BY BeginningCore
<1>2. /\ AtHeader /\ pc' \in {"loop", "ready"}
      /\ UNCHANGED <<dicBufSize, outPos, eof, want, total, delivered>>
  BY BeginningStill
<1>3. /\ pc = "chunk" /\ ~eof /\ want > 0
      /\ errors = 0 /\ ~cut => outPos = announced
      /\ delivered = outPos /\ outPos \in Nat /\ announced \in Nat
  BY <1>2, AtHeaderComplete
<1>4. CASE \E sz \in ChunkSizes, reset \in BOOLEAN : UncompHeader(reset, sz)
  <2>1. PICK sz \in ChunkSizes : /\ announced' = announced + sz /\ chunkRemain' = sz
                                 /\ inLZMA' = FALSE /\ inUncomp' = TRUE
                                 /\ UNCHANGED <<propSet, errors, cut>>
                                 /\ due' \in {ResetState, ResetProps}
    BY <1>4 DEF UncompHeader, Announce, caller
  <2>2. sz \in Nat /\ announced + sz \in Nat
    BY <1>3, Constants
  <2>3. ChunkTypes'
    <3>1. inLZMA' \in BOOLEAN /\ inUncomp' \in BOOLEAN
      BY <2>1
    <3>2. due' \in Levels
      BY <2>1 DEF Levels, ResetState, ResetProps
    <3> QED
      BY <1>2, <2>1, <2>2, <3>1, <3>2 DEF Chunks, ChunkTypes
  <2>4. ChunkControl'
    BY <1>2, <1>3, <2>1 DEF ChunkControl, InEngine
  <2>5. ChunkAccounting'
    BY <1>1, <1>2, <1>3, <2>1, <2>2 DEF ChunkAccounting, InEngine
  <2> QED
    BY <1>1, <2>3, <2>4, <2>5 DEF Chunks
<1>5. CASE \E sz \in ChunkSizes, level \in Levels : LZMAHeader(level, sz)
  <2>1. PICK sz \in ChunkSizes : /\ announced' = announced + sz /\ chunkRemain' = sz
                                 /\ inLZMA' = TRUE /\ inUncomp' = FALSE
                                 /\ propSet' = TRUE /\ UNCHANGED <<errors, cut>>
                                 /\ due' = 0
    BY <1>5 DEF LZMAHeader, Announce, caller
  <2>2. sz \in Nat /\ announced + sz \in Nat
    BY <1>3, Constants
  <2>3. ChunkTypes'
    <3>1. inLZMA' \in BOOLEAN /\ inUncomp' \in BOOLEAN /\ propSet' \in BOOLEAN
      BY <2>1
    <3>2. due' \in Levels
      BY <2>1 DEF Levels
    <3> QED
      BY <1>2, <2>1, <2>2, <3>1, <3>2 DEF Chunks, ChunkTypes
  <2>4. ChunkControl'
    BY <1>2, <1>3, <2>1 DEF ChunkControl, InEngine
  <2>5. ChunkAccounting'
    BY <1>1, <1>2, <1>3, <2>1, <2>2 DEF ChunkAccounting, InEngine
  <2> QED
    BY <1>1, <2>3, <2>4, <2>5 DEF Chunks
<1>6. CASE \E level \in Levels : LZMAHeaderFails(level)
  <2>1. /\ errors' = errors + 1 /\ inLZMA' = FALSE /\ inUncomp' = FALSE
        /\ propSet' \in {propSet, TRUE}
        /\ UNCHANGED <<chunkRemain, announced, due, cut>>
    BY <1>6 DEF LZMAHeaderFails, Fail, Return, format
  <2>2. errors' \in Nat /\ errors' # 0
    BY <2>1 DEF Chunks, ChunkTypes
  <2>3. ChunkTypes'
    BY <1>2, <2>1, <2>2 DEF Chunks, ChunkTypes
  <2>4. ChunkControl'
    BY <1>2, <1>3, <2>1 DEF ChunkControl, InEngine
  <2>5. ChunkAccounting'
    BY <1>1, <1>2, <1>3, <2>2 DEF ChunkAccounting
  <2> QED
    BY <1>1, <2>3, <2>4, <2>5 DEF Chunks
<1> QED
  BY <1>4, <1>5, <1>6 DEF Beginning

LEMMA EngineChunks ==
  ASSUME Chunks, Engine \/ Marking, UNCHANGED <<caller, chunk, format>>
  PROVE  Chunks'
<1>1. Core' /\ InStep /\ UNCHANGED <<caller, chunk, format>>
  BY EngineCore DEF Chunks
<1>2. PICK n \in Nat : dicPos' = dicPos + n /\ outPos' = outPos + n
  BY <1>1, StepSize DEF Chunks
<1>3. /\ InEngine /\ InEngine' /\ UNCHANGED <<dicBufSize, readPos, limit, delivered, want,
                                             total, errors, announced, due, cut>>
  BY <1>1 DEF InStep, geometry, caller, format
<1>4. pc' \notin {"chunk", "loop", "ready"}
  BY <1>3 DEF InEngine
<1>5. ChunkTypes'
  BY <1>1, <1>3 DEF Chunks, ChunkTypes, chunk, InEngine
<1>6. ChunkControl'
  BY <1>1, <1>3, <1>4 DEF Chunks, ChunkControl, chunk
<1>7. ChunkAccounting'
  <2>1. /\ dicPos \in Nat /\ readPos \in Nat /\ outPos \in Nat
        /\ chunkRemain \in Nat /\ announced \in Nat
    BY DEF Chunks, ChunkTypes, Core, CoreWindow
  <2>2. Buffered' = Buffered + n /\ Buffered \in Int
    BY <1>2, <1>3, <2>1 DEF Buffered
  <2>3. delivered = (outPos + n) - (Buffered + n)
    BY <2>1, <2>2 DEF Chunks, ChunkAccounting
  <2>4. errors = 0 /\ ~cut => outPos + Residue = announced + Buffered
    BY <1>3 DEF Residue, Chunks, ChunkAccounting
  <2>5. Residue \in Nat
    BY <2>1 DEF Residue
  <2>6. errors = 0 /\ ~cut => (outPos + n) + Residue = announced + (Buffered + n)
    BY <2>1, <2>2, <2>4, <2>5
  <2>7. (IF inLZMA \/ inUncomp THEN chunkRemain ELSE 0)' = Residue
    BY <1>1 DEF Residue, chunk
  <2> QED
    BY <1>2, <1>3, <2>2, <2>3, <2>6, <2>7 DEF ChunkAccounting
<1> QED
  BY <1>1, <1>5, <1>6, <1>7 DEF Chunks

LEMMA StrayChunks ==
  ASSUME Chunks, Stray, UNCHANGED <<caller, chunk, format>>
  PROVE  Chunks'
<1>1. Core'
  BY StrayCore DEF Chunks
<1>2. ChunkTypes'
  BY StrayKeeps DEF Chunks, ChunkTypes, caller, chunk, format
<1>3. ChunkControl'
  BY StrayKeeps DEF Chunks, ChunkControl, Buffered, caller, chunk, format
<1>4. ChunkAccounting'
  BY StrayKeeps DEF Chunks, ChunkAccounting, Buffered, caller, chunk, format
<1> QED
  BY <1>1, <1>2, <1>3, <1>4 DEF Chunks

LEMMA DecodeStepChunks ==
  ASSUME Chunks, DecodeStep
  PROVE  Chunks'
BY EngineChunks, StrayChunks DEF DecodeStep, Marking, PastInput, PastChunk

LEMMA NextChunks ==
  ASSUME Chunks, [Next]_vars
  PROVE  Chunks'
<1>1. CASE Call
  BY <1>1, CallChunks DEF Call
<1>2. CASE InCall
  BY <1>2, DecodeStepChunks, CallChunks, LoopWrapChunks, LoopCopyChunks, ContinueLZMAChunks,
     AfterDecodeChunks, ContinueUncompChunks, NoChunkChunks, BeginningChunks
     DEF InCall, Header, Beginning
<1>3. CASE UNCHANGED vars
  <2> USE <1>3 DEF vars, coreVars, window, engine, geometry, caller, chunk, format
  <2>1. CoreWindow'
    BY DEF Chunks, Core, CoreWindow, Slots
  <2>2. CoreFlags' /\ CoreControl'
    BY DEF Chunks, Core, CoreFlags, CoreControl, InEngine
  <2>3. ChunkTypes'
    BY DEF Chunks, ChunkTypes
  <2>4. ChunkControl' /\ ChunkAccounting'
    BY DEF Chunks, ChunkControl, ChunkAccounting, InEngine, Buffered
  <2> QED
    BY <2>1, <2>2, <2>3, <2>4 DEF Chunks, Core
<1> QED
  BY <1>1, <1>2, <1>3 DEF Next

\* The indices that slice the dictionary stay within it and every variable
\* keeps its type, for any sequence of chunks and headers, well formed or
\* not, and whatever errors the caller reads on after (lzma2.go:73-146).
THEOREM TypeCorrect == Spec => []TypeOK
<1>1. Init => Chunks
  BY InitChunks
<1>2. Chunks /\ [Next]_vars => Chunks'
  BY NextChunks
<1>3. Chunks => TypeOK
  BY DEF Chunks, ChunkTypes, Core, CoreWindow, CoreFlags, CoreControl, TypeOK
<1> QED
  BY <1>1, <1>2, <1>3, PTL DEF Spec

\* Unless an error was returned: a chunk yields the bytes its header
\* declares, across wraps of the dictionary, returns of Read and matches
\* that are interrupted, before the next header is read; and always, every
\* byte is either still buffered or was handed over, once (lzma2.go:94-146,
\* 158-161).
THEOREM ChunksAccounted == Spec => []ChunkAccounting
<1>1. Init => Chunks
  BY InitChunks
<1>2. Chunks /\ [Next]_vars => Chunks'
  BY NextChunks
<1>3. Chunks => ChunkAccounting
  BY DEF Chunks
<1> QED
  BY <1>1, <1>2, <1>3, PTL DEF Spec

----------------------------------------------------------------------------
(* An encoder's stream: every byte is in its place.                        *)

\* As for Decoder; but the context of a literal need not be in the window
\* between a chunk that resets the dictionary and the next that resets the
\* state.
Placement == Owed /\ Behind /\ Tags /\ Known /\ Linked /\ (due = 0 => Context)

\* An encoder's symbols end with their chunk (the guard of DecodeStep), and
\* so no match is pending at a header: what is announced is in the
\* dictionary.
Whole ==
  Trusted =>
    /\ coded <= announced /\ announced <= MaxOut
    /\ announced + (IF InEngine THEN Buffered ELSE 0) <= outPos + Residue
    /\ inUncomp => announced = outPos + Residue /\ coded = outPos

Placed == Chunks /\ Placement /\ Whole

LEMMA InitPlaced == Init => Placed
<1> SUFFICES ASSUME Init PROVE Placed
  OBVIOUS
<1>1. Chunks
  BY InitChunks
<1>2. Tags
  <2>1. PICK b \in Nat \ {0} : dicBufSize = b
    BY Constants DEF Init
  <2>2. outPos = 0 /\ base = 0 /\ dicPos = 0
    BY DEF Init
  <2> QED
    BY <2>1, <2>2 DEF Tags, At, Slots
<1>3. Owed /\ Behind /\ Known /\ Linked /\ Context
  BY Constants DEF Init, Owed, Behind, Known, FullDic, Linked, Context, Pend, numLitStates
<1>4. Whole
  BY Constants DEF Init, Whole, InEngine, Residue
<1> QED
  BY <1>1, <1>2, <1>3, <1>4 DEF Placed, Placement

\* A step that moves no byte.
LEMMA StillPlaced ==
  ASSUME Placement, pc' \in {"ready", "loop", "chunk"},
         UNCHANGED <<dic, dicPos, processedPos, checkDicSize, remainLen, outPos, dicBufSize, base,
                     state, reps, coded, tainted, due>>,
         conforming' = conforming \/ conforming' = FALSE
  PROVE  Placement'
<1>1. Trusted' => Trusted
  BY DEF Trusted
<1> QED
  BY <1>1 DEF Placement, Owed, Behind, Tags, At, Known, FullDic, Linked, Context, InWindow,
     Pend, Slots

LEMMA ReportingPlaced ==
  ASSUME Placed, Chunks', Reporting
  PROVE  Placed'
<1>1. /\ UNCHANGED <<window, dicBufSize, base, readPos, state, reps, ioErr, history,
                     announced, due>>
      /\ conforming' = conforming \/ conforming' = FALSE
      /\ pc' \in {"ready", "loop"}
  BY ReportingStill
<1>2. Placement'
  BY <1>1, StillPlaced DEF Placed, window, history
<1>3. UNCHANGED <<dicPos, readPos, outPos, coded, tainted>> /\ (Trusted' => Trusted)
  BY <1>1 DEF window, history, Trusted
<1>4. Whole'
  <2>1. CASE AfterDecode
    <3>1. /\ pc = "decoded" /\ InEngine /\ UNCHANGED inUncomp
      BY <2>1 DEF AfterDecode, InEngine
    <3>2. inLZMA = TRUE /\ inUncomp = FALSE /\ Residue = chunkRemain
      BY <3>1 DEF Residue, Placed, Chunks, ChunkControl, ChunkTypes
    <3>3. /\ Buffered \in Nat /\ Buffered <= chunkRemain /\ chunkRemain \in Nat
          /\ announced \in Nat /\ outPos \in Nat
      BY <3>1 DEF Placed, Chunks, ChunkControl, ChunkTypes, InEngine, Core, CoreWindow, CoreControl,
         Buffered
    <3>4. PICK b \in Nat : Buffered = b
      BY <3>3
    <3>5. Trusted => announced + b <= outPos + chunkRemain
      BY <3>1, <3>2, <3>4 DEF Placed, Whole
    <3>6. Trusted => announced <= outPos + Residue'
      <4>1. CASE derr \in {"nil", "EOF"} /\ chunkRemain - b > 0
        <5>1. inLZMA' = TRUE /\ chunkRemain' = chunkRemain - b
          BY <2>1, <3>4, <4>1 DEF AfterDecode
        <5> QED
          BY <3>3, <3>5, <5>1 DEF Residue
      <4>2. CASE derr \in {"nil", "EOF"} /\ ~(chunkRemain - b > 0)
        <5>1. ~inLZMA' /\ ~inUncomp'
          BY <2>1, <3>1, <3>2, <3>4, <4>2 DEF AfterDecode
        <5>2. Residue' = 0
          BY <5>1 DEF Residue
        <5> QED
          BY <3>3, <3>4, <3>5, <4>2, <5>2
      <4>3. CASE derr \notin {"nil", "EOF"}
        <5>1. UNCHANGED <<chunkRemain, inLZMA>>
          BY <2>1, <4>3 DEF AfterDecode
        <5>2. Residue' = chunkRemain
          BY <3>1, <3>2, <5>1 DEF Residue
        <5> QED
          BY <3>3, <3>5, <5>2
      <4> QED
        BY <4>1, <4>2, <4>3
    <3>7. announced + 0 = announced
      BY <3>3
    <3> QED
      BY <1>1, <1>3, <3>1, <3>2, <3>6, <3>7 DEF Placed, Whole, Trusted, InEngine
  <2>2. CASE ReadDone \/ \E n \in 0 .. MaxRead : ReadAtEnd(n) \/ ReadBegin(n)
    <3>1. UNCHANGED chunk /\ pc \in {"loop", "ready"}
      BY <2>2 DEF ReadDone, ReadAtEnd, ReadBegin, Called
    <3> QED
      BY <1>1, <1>3, <3>1 DEF Placed, Whole, Trusted, InEngine, Residue, chunk
  <2>3. CASE ControlError \/ HeaderError \/ BadHeader \/ EndOfStream
    <3>1. AtHeader /\ inLZMA' = FALSE /\ inUncomp' = FALSE
      BY <2>3 DEF ControlError, HeaderError, BadHeader, EndOfStream
    <3>2. pc = "chunk" /\ Residue = 0
      BY <3>1, AtHeaderComplete DEF Placed
    <3>3. Residue' = 0
      BY <3>1 DEF Residue
    <3> QED
      BY <1>1, <1>3, <3>1, <3>2, <3>3 DEF Placed, Whole, Trusted, InEngine
  <2> QED
    BY <2>1, <2>2, <2>3 DEF Reporting
<1> QED
  BY <1>2, <1>4 DEF Placed

LEMMA LoopPlaced ==
  ASSUME Placed, Chunks', LoopWrap \/ (LoopCopy /\ UNCHANGED <<chunk, format>>)
  PROVE  Placed'
<1>1. /\ UNCHANGED <<dic, processedPos, checkDicSize, remainLen, outPos, dicBufSize, base, conforming,
                     state, reps, coded, tainted, due, announced, inLZMA, inUncomp, chunkRemain>>
      /\ pc = "loop" /\ pc' \in {"loop", "chunk"}
  BY DEF LoopWrap, LoopCopy, window, history, chunk, format
<1>2. Placement'
  <2>1. CASE LoopWrap
    <3>1. Tags'
      BY <1>1, <2>1, WrapTags DEF LoopWrap, Placed, Placement, Chunks
    <3>2. Owed' /\ Behind' /\ Known' /\ Linked' /\ (due' = 0 => Context')
      BY <1>1 DEF Placed, Placement, Owed, Behind, Known, FullDic, Linked, Context, InWindow, Pend,
         Trusted
    <3> QED
      BY <3>1, <3>2 DEF Placement
  <2>2. CASE LoopCopy
    BY <1>1, <2>2, StillPlaced DEF LoopCopy, window, Placed
  <2> QED
    BY <2>1, <2>2
<1>3. Whole'
  BY <1>1 DEF Placed, Whole, Trusted, InEngine, Residue
<1> QED
  BY <1>2, <1>3 DEF Placed

LEMMA ContinueLZMAPlaced ==
  ASSUME Placed, Chunks', ContinueLZMA
  PROVE  Placed'
<1>1. /\ InEngine' /\ dicPos' \in dicPos .. ChunkLimit
      /\ outPos' = outPos + (dicPos' - dicPos)
  BY ContinueLZMACore DEF Placed
<1>2. /\ pc = "chunk" /\ inLZMA = TRUE /\ inUncomp = FALSE
      /\ UNCHANGED <<geometry, state, reps, history, announced, due, chunk>>
  BY DEF ContinueLZMA, MidLZMA, format, Placed, Chunks, ChunkTypes, ChunkControl
<1>3. due = 0 /\ Buffered = 0 /\ Core
  BY <1>2 DEF Placed, Chunks, ChunkControl
<1>4. /\ ChunkLimit \in Nat /\ dicPos < ChunkLimit /\ ChunkLimit <= dicBufSize
      /\ dicPos \in Nat /\ outPos \in Nat /\ readPos \in Nat /\ coded \in Nat
  BY ChunkLimitRange DEF ContinueLZMA, Placed, Chunks, Core, CoreWindow
<1>5. PICK n \in Nat : dicPos' = dicPos + n /\ outPos' = outPos + n /\ outPos + n \in Nat
  <2>1. PICK p \in dicPos .. ChunkLimit : dicPos' = p
    BY <1>1
  <2>2. p - dicPos \in Nat
    BY <1>4, <2>1
  <2> QED
    BY <1>1, <1>4, <2>1, <2>2
<1>6. Exact
  BY <1>3 DEF Placed, Placement, Exact
<1>7. UNCHANGED <<base, dicBufSize, reps, state>> /\ coded' = coded /\ Trusted' = Trusted
  BY <1>2 DEF geometry, history, Trusted
<1>8. Placement'
  <2>1. Owed'
    <3>1. pc' \in {"decode", "decoded", "fault"}
      BY DEF ContinueLZMA, AfterRem
    <3> QED
      BY <3>1 DEF Owed
  <2>2. CASE Pending
    <3>1. WriteRem(ChunkLimit, checkDicSize) /\ remainLen < SpecLen
      BY <2>2 DEF ContinueLZMA, Pending
    <3>2. Counts /\ remainLen' \in 0 .. remainLen
      BY <1>2, <1>3, <1>4, <3>1, WriteRemCounts DEF Placed, Placement
    <3>3. PICK r \in Nat : remainLen' = r
      BY <3>2
    <3>4. Behind'
      BY <1>3, <1>4, <1>5, <1>7, <3>2, <3>3, CountsKept DEF Placed, Placement
    <3>5. Known'
      <4>1. Trusted' => Trusted /\ coded < Word
        BY <1>6, <1>7 DEF Exact, Known
      <4> QED
        BY <1>3, <1>4, <1>5, <1>6, <1>7, <3>2, <3>3, <4>1, KnownKept DEF Placed, Placement, Exact
    <3>6. Puts
      BY <1>2, <1>3, <1>4, <1>6, <3>1, WriteRemPuts
    <3>7. Tags'
      BY <1>3, <1>5, <1>6, <1>7, <3>6, TagsKept DEF Exact
    <3>8. Pend' > 0 => Pend > 0
      BY <2>2 DEF Pend, Pending
    <3>9. Linked' /\ Context'
      BY <1>3, <1>4, <1>5, <1>6, <1>7, <3>8, StepLinked DEF Exact
    <3> QED
      BY <2>1, <3>4, <3>5, <3>7, <3>9 DEF Placement
  <2>3. CASE ~Pending
    <3>1. UNCHANGED window
      BY <2>3 DEF ContinueLZMA
    <3> QED
      BY <1>2, <1>7, <2>1, <3>1 DEF window, geometry, history, Placed, Placement, Behind, Tags, At, Known,
         FullDic, Linked, Context, InWindow, Pend, Trusted, Slots
  <2> QED
    BY <2>2, <2>3
<1>9. Whole'
  <2>1. Buffered' = n /\ Buffered + n = n
    BY <1>2, <1>3, <1>4, <1>5 DEF Buffered, geometry
  <2>2. Residue' = Residue /\ Residue \in Nat /\ announced \in Nat
    BY <1>2 DEF Residue, chunk, Placed, Chunks, ChunkTypes
  <2>3. Trusted => announced <= outPos + Residue
    BY <1>2, <2>2 DEF Placed, Whole, InEngine
  <2>4. Trusted => announced + n <= (outPos + n) + Residue
    BY <1>4, <2>2, <2>3
  <2>5. inUncomp' = FALSE
    BY <1>2 DEF chunk
  <2> QED
    BY <1>1, <1>2, <1>5, <1>7, <2>1, <2>2, <2>4, <2>5 DEF Placed, Whole
<1> QED
  BY <1>8, <1>9 DEF Placed

LEMMA EnginePlaced ==
  ASSUME Below4GiB, Placed, Chunks', DecodeStep, ~Stray
  PROVE  Placed'
<1>1. /\ Core /\ (Engine \/ Marking) /\ UNCHANGED <<caller, chunk, format>>
  BY DEF DecodeStep, Placed, Chunks, Marking, PastInput, PastChunk
<1>2. Core' /\ InStep
  BY <1>1, EngineCore
<1>3. InEngine /\ InEngine' /\ UNCHANGED <<readPos, conforming, announced, due>>
  BY <1>1, <1>2 DEF InStep, geometry, format
<1>4. due = 0 /\ Behind /\ Owed /\ Exact
  BY <1>3 DEF Placed, Chunks, ChunkControl, Placement, Exact
<1>5. Exact'
  BY <1>1, <1>4, EngineExact
<1>6. Owed'
  BY <1>1, <1>4, EngineCounts
<1>7. Behind' /\ (Trusted' => Trusted)
  BY <1>1, <1>4, EngineKnown DEF Exact
<1>8. PICK n \in Nat : dicPos' = dicPos + n /\ outPos' = outPos + n
  BY <1>1, <1>2, StepSize
<1>9. Whole'
  <2>1. /\ Residue' = Residue /\ Residue \in Nat /\ announced \in Nat
        /\ dicPos \in Nat /\ readPos \in Nat /\ outPos \in Nat
    BY <1>1 DEF Residue, chunk, Placed, Chunks, ChunkTypes, Core, CoreWindow
  <2>2. Buffered' = Buffered + n /\ Buffered \in Int
    BY <1>3, <1>8, <2>1 DEF Buffered
  <2>3. Trusted => announced + Buffered <= outPos + Residue
    BY <1>3 DEF Placed, Whole
  <2>4. Trusted => announced + (Buffered + n) <= (outPos + n) + Residue
    BY <2>1, <2>2, <2>3
  <2>5. Trusted' => coded' <= announced
    BY <1>3, <1>7 DEF DecodeStep, Trusted, PastInput, PastChunk
  <2>6. inUncomp' = FALSE
    BY <1>1, <1>3 DEF chunk, Placed, Chunks, ChunkControl, ChunkTypes
  <2> QED
    BY <1>3, <1>7, <1>8, <2>1, <2>2, <2>4, <2>5, <2>6 DEF Placed, Whole
<1> QED
  BY <1>3, <1>4, <1>5, <1>6, <1>7, <1>9 DEF Placed, Placement, Exact

LEMMA StrayPlaced ==
  ASSUME Placed, Chunks', DecodeStep, Stray
  PROVE  Placed'
<1>1. Exact => Exact'
  BY StrayExact
<1>2. due = 0 /\ due' = due
  BY StrayKeeps DEF DecodeStep, format, Placed, Chunks, ChunkControl
<1>3. Owed' /\ Behind'
  BY StrayBounds DEF Placed, Placement
<1>4. Whole'
  BY StrayKeeps DEF Whole
<1> QED
  BY <1>1, <1>2, <1>3, <1>4 DEF Placed, Placement, Exact

\* The bytes of an uncompressed chunk go where they belong.
LEMMA ContinueUncompPlaced ==
  ASSUME Below4GiB, Placed, Chunks', NEW n \in 0 .. dicBufSize, ContinueUncomp(n)
  PROVE  Placed'
<1>1. /\ Core' /\ pc' \in {"loop", "ready"}
      /\ n \in Nat /\ n <= chunkRemain /\ n <= dicBufSize - dicPos
  BY ContinueUncompCore DEF Placed
<1>2. /\ pc = "chunk" /\ inUncomp /\ chunkRemain > 0
      /\ dicPos' = dicPos + n /\ outPos' = outPos + n /\ coded' = coded + n
      /\ processedPos' = Plus32(processedPos, n)
      /\ checkDicSize' = Checked(checkDicSize, processedPos')
      /\ chunkRemain' = chunkRemain - n
      /\ UNCHANGED <<remainLen, geometry, state, reps, tainted, announced, due>>
  BY DEF ContinueUncomp, MidUncomp, Advance
<1>3. /\ chunkRemain \in Nat /\ announced \in Nat /\ outPos \in Nat /\ coded \in Nat
      /\ base \in Nat /\ base <= outPos /\ dicPos \in Nat /\ inLZMA = FALSE
      /\ processedPos \in 0 .. (Word - 1) /\ processedPos <= outPos - base
  BY <1>2 DEF Placed, Placement, Behind, Chunks, ChunkTypes, ChunkControl, Core, CoreWindow
<1>4. Trusted' = Trusted /\ UNCHANGED <<base, dicBufSize, propDicSize>>
  BY <1>2 DEF Trusted, geometry
<1>5. Trusted => /\ announced = outPos + chunkRemain /\ coded = outPos /\ announced <= MaxOut
                 /\ Pend = 0 /\ processedPos = outPos - base
  BY <1>2, <1>3, PendType DEF Placed, Whole, Residue, Placement, Known, Chunks, Core, CoreWindow
<1>6. Trusted => outPos + n < Word
  BY <1>1, <1>3, <1>5, Constants DEF Below4GiB
<1>7. PICK p \in 0 .. (Word - 1) : /\ Plus32(processedPos, n) = p
                                   /\ p <= (outPos + n) - base
                                   /\ Trusted => p = (outPos + n) - base
  <2>1. n < Word
    BY <1>1, <1>3, Constants DEF Placed, Chunks, Core, CoreWindow
  <2>2. /\ Plus32(processedPos, n) \in 0 .. (Word - 1)
        /\ Plus32(processedPos, n) <= processedPos + n
        /\ processedPos + n < Word => Plus32(processedPos, n) = processedPos + n
    BY <1>1, <1>3, <2>1, Constants DEF Plus32
  <2>3. Trusted => processedPos + n < Word
    BY <1>1, <1>3, <1>5, <1>6, Constants
  <2> QED
    BY <1>1, <1>3, <1>5, <2>2, <2>3
<1>8. outPos + n \in Nat /\ coded + n \in Nat
  BY <1>1, <1>3
<1>9. Pend' = Pend
  BY <1>2 DEF Pend
<1>10. Behind'
  BY <1>2, <1>4, <1>7 DEF Behind
<1>11. Tags'
  <2>1. Puts
    <3>1. SUFFICES ASSUME NEW s \in Slots
                   PROVE  IF s < dicPos \/ s >= dicPos + n THEN dic'[s] = dic[s]
                          ELSE \/ dic'[s] = outPos + (s - dicPos)
                               \/ ~Trusted /\ dic'[s] = Garbage
      BY <1>2, <1>4 DEF Puts
    <3>2. dic'[s] = IF s < dicPos \/ s >= dicPos + n THEN dic[s]
                    ELSE IF ~tainted /\ outPos = coded
                         THEN outPos + (s - dicPos) ELSE Garbage
      BY DEF ContinueUncomp
    <3>3. Trusted => ~tainted /\ outPos = coded
      BY <1>5 DEF Trusted
    <3> QED
      BY <3>2, <3>3
  <2> QED
    BY <1>1, <1>2, <1>4, <2>1, TagsKept DEF Placed, Placement, Chunks
<1>12. Known'
  <2>1. Trusted => coded + n = (outPos + n) + Pend
    BY <1>1, <1>3, <1>5
  <2>2. Trusted /\ checkDicSize' # 0 => dicBufSize <= (outPos + n) - base + Pend
    <3>1. \/ checkDicSize' = checkDicSize
          \/ checkDicSize' = propDicSize /\ p >= propDicSize
      BY <1>2, <1>7 DEF Checked
    <3>2. propDicSize \in {0, dicBufSize} /\ dicBufSize \in Nat
      BY DEF Placed, Chunks, Core, CoreWindow
    <3>3. CASE checkDicSize' = checkDicSize
      <4>1. Trusted /\ checkDicSize # 0 => dicBufSize <= outPos - base + Pend
        BY DEF Placed, Placement, Known, FullDic
      <4> QED
        BY <1>1, <1>3, <1>5, <3>2, <3>3, <4>1
    <3>4. CASE checkDicSize' = propDicSize /\ p >= propDicSize
      BY <1>3, <1>5, <1>7, <1>8, <3>2, <3>4
    <3> QED
      BY <3>1, <3>3, <3>4
  <2>3. Trusted => coded + n < Word
    BY <1>5, <1>6
  <2> QED
    BY <1>2, <1>4, <1>7, <1>9, <2>1, <2>2, <2>3 DEF Known, FullDic
<1>13. Linked'
  BY <1>4, <1>5, <1>9 DEF Linked
<1>14. due' = 0 => Context'
  <2>1. SUFFICES ASSUME due = 0, Trusted, state >= numLitStates
                 PROVE  reps[1] <= dicBufSize /\ reps[1] <= (outPos + n) - base
    BY <1>2, <1>4 DEF Context, InWindow
  <2>2. InWindow(reps[1]) /\ reps[1] \in Nat
    BY <2>1 DEF Placed, Placement, Context, Chunks, Core, CoreWindow
  <2> QED
    BY <1>1, <1>3, <2>2 DEF InWindow
<1>15. Owed'
  BY <1>1 DEF Owed
<1>16. Whole'
  <2>1. Trusted => /\ announced + 0 <= (outPos + n) + (chunkRemain - n)
                   /\ announced = (outPos + n) + (chunkRemain - n)
                   /\ coded + n <= announced /\ coded + n = outPos + n
    BY <1>1, <1>3, <1>5
  <2>2. Trusted => announced + 0 <= (outPos + n) + Residue'
    <3>1. CASE inUncomp'
      BY <1>2, <2>1, <3>1 DEF Residue
    <3>2. CASE ~inUncomp'
      <4>1. Residue' = 0
        BY <3>2 DEF ContinueUncomp, Residue
      <4>2. ~(chunkRemain - n > 0)
        BY <1>2, <3>2 DEF ContinueUncomp
      <4> QED
        BY <1>1, <1>3, <1>5, <4>1, <4>2
    <3> QED
      BY <3>1, <3>2
  <2>3. inUncomp' => Residue' = chunkRemain - n
    BY <1>2 DEF Residue
  <2> QED
    BY <1>1, <1>2, <1>4, <1>5, <2>1, <2>2, <2>3 DEF Whole, InEngine
<1> QED
  BY <1>10, <1>11, <1>12, <1>13, <1>14, <1>15, <1>16 DEF Placed, Placement

\* A header may forget the dictionary: then every byte of it, too.
LEMMA BeginningPlaced ==
  ASSUME Placed, Chunks', Beginning
  PROVE  Placed'
<1>1. /\ UNCHANGED <<dic, outPos, dicBufSize, conforming, coded>>
      /\ ForgetDictionary \/ KeepDictionary
      /\ UNCHANGED <<state, reps, remainLen>>
           \/ (state' = 0 /\ reps' = InitialReps /\ remainLen' = 0)
      /\ tainted' \in {tainted, TRUE}
      /\ AtHeader /\ pc' \in {"loop", "ready"}
  BY BeginningStill
<1>2. /\ pc = "chunk" /\ Residue = 0 /\ Buffered = 0
      /\ outPos \in Nat /\ announced \in Nat /\ coded \in Nat
  BY <1>1, AtHeaderComplete DEF Placed, Chunks, Core, CoreWindow
<1>3. Trusted' => Trusted
  BY <1>1 DEF Trusted
<1>4. Trusted => /\ coded = outPos /\ announced = outPos /\ announced <= MaxOut
                 /\ Pend = 0 /\ Pend' = 0
  <2>1. Pend \in Nat
    BY PendType DEF Placed, Chunks, Core, CoreWindow
  <2>2. Trusted => coded = outPos + Pend /\ coded <= announced /\ announced <= outPos
    BY <1>2 DEF Placed, Placement, Known, Whole, InEngine
  <2>3. Pend' = Pend \/ Pend' = 0
    BY <1>1, Constants DEF Pend
  <2>4. Trusted => announced <= MaxOut
    BY DEF Placed, Whole
  <2> QED
    BY <1>2, <2>1, <2>2, <2>3, <2>4
<1>5. Owed' /\ Linked'
  BY <1>1, <1>3, <1>4 DEF Owed, Linked
<1>6. Behind'
  BY <1>1, <1>2 DEF ForgetDictionary, KeepDictionary, Placed, Placement, Behind
<1>7. Tags'
  <2>1. CASE ForgetDictionary
    <3>1. PICK b \in Nat : dicBufSize' = b
      BY <1>1 DEF Placed, Chunks, Core, CoreWindow
    <3> QED
      BY <1>1, <1>2, <2>1, <3>1 DEF ForgetDictionary, Tags, At, Slots
  <2>2. CASE KeepDictionary
    BY <1>1, <1>3, <2>2 DEF KeepDictionary, Placed, Placement, Tags, At, Slots
  <2> QED
    BY <1>1, <2>1, <2>2
<1>8. Known'
  <2>1. CASE ForgetDictionary
    BY <1>1, <1>2, <1>3, <1>4, <2>1 DEF ForgetDictionary, Placed, Placement, Known, FullDic
  <2>2. CASE KeepDictionary
    BY <1>1, <1>2, <1>3, <1>4, <2>2 DEF KeepDictionary, Placed, Placement, Known, FullDic
  <2> QED
    BY <1>1, <2>1, <2>2
<1>9. (due' = 0 => Context') /\ Whole'
  <2>1. CASE \E sz \in ChunkSizes, reset \in BOOLEAN : UncompHeader(reset, sz)
    <3>1. PICK sz \in ChunkSizes : /\ announced' = announced + sz /\ chunkRemain' = sz
                                   /\ inUncomp' = TRUE /\ outPos + sz <= MaxOut
                                   /\ due' \in {ResetState, ResetProps}
      BY <2>1 DEF UncompHeader, Announce
    <3>2. Residue' = sz /\ sz \in Nat
      BY <3>1, Constants DEF Residue
    <3>3. due' # 0
      BY <3>1 DEF ResetState, ResetProps
    <3>4. Trusted => /\ coded <= outPos + sz /\ outPos + sz = announced + sz
                     /\ (announced + sz) + 0 <= outPos + sz
      BY <1>2, <1>4, <3>2
    <3>5. Whole'
      BY <1>1, <1>2, <1>3, <1>4, <3>1, <3>2, <3>4 DEF Whole, InEngine
    <3> QED
      BY <3>3, <3>5
  <2>2. CASE \E sz \in ChunkSizes, level \in Levels : LZMAHeader(level, sz)
    <3>1. PICK sz \in ChunkSizes, level \in Levels : LZMAHeader(level, sz)
      BY <2>2
    <3>2. /\ announced' = announced + sz /\ chunkRemain' = sz
          /\ inLZMA' = TRUE /\ inUncomp' = FALSE /\ outPos + sz <= MaxOut
      BY <3>1 DEF LZMAHeader, Announce
    <3>3. Residue' = sz /\ sz \in Nat
      BY <3>2, Constants DEF Residue
    <3>4. Trusted => /\ coded <= outPos + sz /\ outPos + sz = announced + sz
                     /\ (announced + sz) + 0 <= outPos + sz
      BY <1>2, <1>4, <3>3
    <3>5. Whole'
      BY <1>1, <1>2, <1>3, <1>4, <3>2, <3>3, <3>4 DEF Whole, InEngine
    <3>6. Context'
      <4>1. CASE level >= ResetState
        <5>1. state' = 0
          BY <3>1, <4>1 DEF LZMAHeader, StateAfterHeader
        <5> QED
          BY <5>1 DEF Context, numLitStates
      <4>2. CASE ~(level >= ResetState)
        <5>1. level = 0 /\ UNCHANGED <<state, reps>> /\ KeepDictionary
          BY <3>1, <4>2 DEF LZMAHeader, StateAfterHeader, Levels, ResetState, ResetDict
        <5>2. Trusted => due = 0
          BY <3>1, <5>1 DEF LZMAHeader, Trusted, Placed, Chunks, ChunkTypes, Levels
        <5>3. Trusted => Context
          BY <5>2 DEF Placed, Placement
        <5> QED
          BY <1>1, <1>3, <5>1, <5>3 DEF Context, InWindow, KeepDictionary
      <4> QED
        BY <4>1, <4>2
    <3> QED
      BY <3>5, <3>6
  <2>3. CASE \E level \in Levels : LZMAHeaderFails(level)
    <3>1. ~Trusted'
      BY <2>3 DEF LZMAHeaderFails, Trusted
    <3> QED
      BY <3>1 DEF Context, Whole
  <2> QED
    BY <2>1, <2>2, <2>3 DEF Beginning
<1> QED
  BY <1>5, <1>6, <1>7, <1>8, <1>9 DEF Placed, Placement

LEMMA NextPlaced ==
  ASSUME Below4GiB, Placed, [Next]_vars
  PROVE  Placed'
<1>1. Chunks'
  BY NextChunks DEF Placed
<1>2. CASE Call
  BY <1>1, <1>2, ReportingPlaced DEF Call, Reporting
<1>3. CASE InCall
  BY <1>1, <1>3, EnginePlaced, StrayPlaced, ReportingPlaced, LoopPlaced, ContinueLZMAPlaced,
     ContinueUncompPlaced, BeginningPlaced DEF InCall, Header, Reporting, Beginning
<1>4. CASE UNCHANGED vars
  <2> USE <1>4 DEF vars, coreVars, window, engine, geometry, caller, chunk, format
  <2>1. Placement'
    BY DEF Placed, Placement, Owed, Behind, Tags, At, Known, FullDic, Linked, Context, InWindow,
       Pend, Trusted, Slots
  <2>2. Whole'
    BY DEF Placed, Whole, Trusted, InEngine, Residue, Buffered
  <2> QED
    BY <1>1, <2>1, <2>2 DEF Placed
<1> QED
  BY <1>2, <1>3, <1>4 DEF Next

\* On an encoder's stream below 4 GiB, as long as its place in the input is
\* not lost, no engine refuses a distance that an encoder may use, across chunks that keep or reset the dictionary and
\* uncompressed chunks between them (lzma2.go:131-137, 171-177, 231-243;
\* decoder.go:502).
THEOREM LegalNeverRefused ==
  ASSUME Below4GiB PROVE Spec => []LegalDistanceAccepted
<1>1. Init => Placed
  BY InitPlaced
<1>2. Placed /\ [Next]_vars => Placed'
  BY NextPlaced
<1>3. Placed => LegalDistanceAccepted
  BY LegalAccepted DEF Placed, Chunks, Placement
<1> QED
  BY <1>1, <1>2, <1>3, PTL DEF Spec

LEMMA StepInOrder ==
  ASSUME Placed, [Next]_vars, delivered' # delivered
  PROVE  delivered' > delivered =>
           \A i \in 0 .. (delivered' - delivered - 1) :
             dic[readPos + i] \in {delivered + i} \cup
                                  (IF conforming /\ ~tainted THEN {} ELSE {Garbage})
<1>1. Core /\ delivered = outPos - Buffered /\ Tags
  BY DEF Placed, Placement, Chunks, ChunkAccounting
<1>2. LoopCopy
  <2>1. CASE Reporting
    BY <2>1, ReportingStill
  <2>2. CASE Beginning
    BY <2>2, BeginningStill
  <2>3. CASE ~Reporting /\ ~Beginning
    BY <2>3 DEF Next, Call, InCall, Header, Reporting, Beginning, DecodeStep, LoopWrap,
       ContinueLZMA, ContinueUncomp, Fail, caller, vars
  <2> QED
    BY <2>1, <2>2, <2>3
<1>3. /\ Lesser(want, Buffered) \in Nat /\ Lesser(want, Buffered) <= Buffered
      /\ delivered' = delivered + Lesser(want, Buffered)
  BY <1>1, <1>2, LoopCopyCore DEF LoopCopy, Copy, Placed, Chunks, ChunkTypes
<1> QED
  BY <1>1, <1>3, DeliveredInOrder

\* On an encoder's stream below 4 GiB byte number k of the output is what
\* the caller gets as number k, whichever chunks the bytes come from, with
\* dictionary resets, wraps and interrupted matches between them; and after
\* a failed symbol, once the place in the input is lost (by an error within a
\* header or while draining a chunk, by decoding past a chunk's symbols or its
\* input), or on other input, no right byte comes at a wrong place
\* (lzma2.go:73-146, 163-206, 231-253).
THEOREM BytesInOrder ==
  ASSUME Below4GiB PROVE Spec => InOrderDelivery
<1>1. Init => Placed
  BY InitPlaced
<1>2. Placed /\ [Next]_vars => Placed'
  BY NextPlaced
<1>3. Placed /\ [Next]_vars =>
        [delivered' > delivered =>
           \A i \in 0 .. (delivered' - delivered - 1) :
             dic[readPos + i] \in {delivered + i} \cup
                                  (IF conforming /\ ~tainted THEN {} ELSE {Garbage})]_delivered
  BY StepInOrder
<1> QED
  BY <1>1, <1>2, <1>3, PTL DEF Spec, InOrderDelivery

----------------------------------------------------------------------------
(* The reader implements the byte stream.                                  *)

\* io.EOF is reported only for the end of the stream, unless the input was
\* cut off where a chunk may begin.
EndReported == result.err = "EOF" /\ ~cut => pc = "ready" /\ eof

Reader == Chunks /\ EndReported

\* The refinement mapping, by name.
Status == IF result.err = "EOF" /\ ~cut THEN "reported"
          ELSE IF eof THEN "ended" ELSE "open"

StreamStep == [Stream!Next]_(Stream!vars)

LEMMA ReaderTypes ==
  ASSUME Reader
  PROVE  /\ outPos \in Nat /\ delivered \in Nat /\ Buffered \in Nat
         /\ delivered = outPos - Buffered
         /\ eof \in BOOLEAN /\ cut \in BOOLEAN
  BY DEF Reader, Chunks, Core, CoreWindow, Buffered, ChunkAccounting, ChunkTypes

\* A step that the caller of the stream does not see.
LEMMA Unseen ==
  ASSUME UNCHANGED <<outPos, delivered, Status>>
  PROVE  StreamStep
  BY DEF StreamStep, Stream!vars, Status

\* Bytes are made, or none.
LEMMA Made ==
  ASSUME outPos \in Nat, NEW n \in Nat, outPos' = outPos + n, delivered' = delivered,
         Status = "open", Status' = "open"
  PROVE  StreamStep
<1>1. CASE n = 0
  BY <1>1, Unseen
<1>2. CASE n > 0
  <2>1. outPos + n \in Nat /\ outPos + n > outPos
    BY <1>2
  <2>2. Stream!Make
    BY <2>1 DEF Stream!Make, Status
  <2> QED
    BY <2>2 DEF StreamStep, Stream!Next
<1> QED
  BY <1>1, <1>2

\* Steps that end a call, fail, or announce a chunk.
LEMMA QuietStream ==
  ASSUME Reader, Reporting \/ Beginning
  PROVE  EndReported' /\ StreamStep
<1>1. UNCHANGED <<outPos, delivered>>
  BY ReportingStill, BeginningStill DEF window
<1>2. eof => pc \in {"ready", "loop"} /\ Buffered = 0
  BY DEF Reader, Chunks, ChunkControl, ChunkTypes, InEngine
<1>3. CASE ReadDone \/ \E n \in 0 .. MaxRead : ReadAtEnd(n)
  <2>1. pc' = "ready" /\ UNCHANGED <<eof, cut>>
    BY <1>3 DEF ReadDone, ReadAtEnd, Return, chunk, format
  <2>2. result'.err = "EOF" => eof
    BY <1>3 DEF ReadDone, ReadAtEnd, Return
  <2>3. pc = "loop" \/ result'.err = "EOF"
    BY <1>3 DEF ReadDone, ReadAtEnd, Return
  <2>4. EndReported'
    BY <2>1, <2>2 DEF EndReported
  <2>5. CASE result'.err = "EOF" /\ ~cut
    <3>1. Status \in {"ended", "reported"} /\ Status' = "reported"
      BY <2>1, <2>2, <2>5 DEF Status
    <3>2. delivered = outPos
      BY <1>2, <2>2, <2>5, ReaderTypes
    <3>3. CASE Status = "ended"
      <4>1. Stream!Report
        BY <1>1, <3>1, <3>2, <3>3 DEF Stream!Report, Status
      <4> QED
        BY <2>4, <4>1 DEF StreamStep, Stream!Next
    <3>4. CASE Status = "reported"
      BY <1>1, <2>4, <3>1, <3>4, Unseen
    <3> QED
      BY <3>1, <3>3, <3>4
  <2>6. CASE ~(result'.err = "EOF" /\ ~cut)
    <3>1. ~(result.err = "EOF" /\ ~cut)
      BY <2>3, <2>6 DEF Reader, EndReported
    <3>2. Status' = Status
      BY <2>1, <2>6, <3>1 DEF Status
    <3> QED
      BY <1>1, <2>4, <3>2, Unseen
  <2> QED
    BY <2>5, <2>6
<1>4. CASE (\E n \in 0 .. MaxRead : ReadBegin(n)) \/ AfterDecode \/ ControlError
           \/ HeaderError \/ BadHeader \/ Beginning
  <2>1. ~eof
    BY <1>2, <1>4, BeginningStill DEF ReadBegin, AfterDecode, ControlError, HeaderError, BadHeader, AtHeader
  <2>2. eof' = eof
    BY <1>4, BeginningStill DEF ReadBegin, AfterDecode, ControlError, HeaderError, BadHeader, chunk
  <2>3. ~(result.err = "EOF" /\ ~cut)
    BY <2>1 DEF Reader, EndReported
  <2>4. cut' \in {cut, TRUE}
    BY <1>4 DEF ReadBegin, AfterDecode, ControlError, HeaderError, BadHeader, Beginning, UncompHeader, LZMAHeader,
       LZMAHeaderFails, format
  <2>5. result' = result \/ result'.err # "EOF" \/ cut' = TRUE
    <3>1. CASE \E n \in 0 .. MaxRead : ReadBegin(n)
      BY <3>1 DEF ReadBegin
    <3>2. CASE AfterDecode
      <4>1. UNCHANGED caller \/ (derr # "EOF" /\ Fail(derr))
        BY <3>2 DEF AfterDecode
      <4> QED
        BY <4>1 DEF Fail, Return, caller
    <3>3. CASE ControlError \/ HeaderError \/ BadHeader
      <4>1. cut' = TRUE \/ Fail("io") \/ Fail("ErrData") \/ Fail("nil")
        BY <3>3 DEF ControlError, HeaderError, BadHeader
      <4>2. Fail("io") \/ Fail("ErrData") \/ Fail("nil") => result'.err # "EOF"
        BY DEF Fail, Return
      <4> QED
        BY <4>1, <4>2
    <3>4. CASE Beginning
      BY <3>4 DEF Beginning, UncompHeader, LZMAHeader, LZMAHeaderFails, Announce, Fail,
         Return, caller
    <3> QED
      BY <1>4, <3>1, <3>2, <3>3, <3>4
  <2>6. ~(result'.err = "EOF" /\ ~cut')
    BY <2>3, <2>4, <2>5
  <2>7. Status = "open" /\ Status' = "open"
    BY <2>1, <2>2, <2>3, <2>6 DEF Status
  <2> QED
    BY <1>1, <2>6, <2>7, Unseen DEF EndReported
<1>5. CASE EndOfStream
  <2>1. pc = "chunk" /\ eof' = TRUE /\ UNCHANGED <<result, cut>>
    BY <1>5 DEF EndOfStream, AtHeader, caller, format
  <2>2. ~(result.err = "EOF" /\ ~cut)
    BY <2>1 DEF Reader, EndReported
  <2>3. Status = "open" /\ Status' = "ended"
    BY <1>2, <2>1, <2>2 DEF Status
  <2>4. Stream!End
    BY <1>1, <2>3 DEF Stream!End, Status
  <2> QED
    BY <2>1, <2>2, <2>4 DEF StreamStep, Stream!Next, EndReported
<1> QED
  BY <1>3, <1>4, <1>5 DEF Reporting

LEMMA LoopStream ==
  ASSUME Reader, LoopWrap \/ (LoopCopy /\ UNCHANGED <<chunk, format>>)
  PROVE  EndReported' /\ StreamStep
<1>1. pc = "loop" /\ UNCHANGED <<outPos, eof, cut, result>>
  BY DEF LoopWrap, LoopCopy, window, caller, chunk, format
<1>2. ~(result.err = "EOF" /\ ~cut)
  BY <1>1 DEF Reader, EndReported
<1>3. EndReported' /\ Status' = Status /\ Status # "reported"
  BY <1>1, <1>2 DEF EndReported, Status
<1>4. CASE LoopWrap
  <2>1. delivered' = delivered
    BY <1>4 DEF LoopWrap, caller
  <2> QED
    BY <1>1, <1>3, <2>1, Unseen
<1>5. CASE LoopCopy
  <2>1. PICK n \in Nat \ {0} : n = Lesser(want, Buffered) /\ n <= Buffered
    BY <1>5, LoopCopyCore DEF Reader, Chunks, ChunkTypes
  <2>2. delivered' = delivered + n
    BY <1>5, <2>1 DEF LoopCopy, Copy
  <2>3. delivered + n \in Nat /\ delivered < delivered + n /\ delivered + n <= outPos
    BY <2>1, ReaderTypes
  <2>4. Stream!Give
    BY <1>1, <1>3, <2>2, <2>3 DEF Stream!Give, Status
  <2> QED
    BY <1>3, <2>4 DEF StreamStep, Stream!Next
<1> QED
  BY <1>4, <1>5

\* The steps that make bytes.
LEMMA MakingStream ==
  ASSUME Reader,
         DecodeStep \/ ContinueLZMA \/ \E n \in 0 .. dicBufSize : ContinueUncomp(n)
  PROVE  EndReported' /\ StreamStep
<1>1. delivered' = delivered /\ eof' = eof
  BY DEF DecodeStep, ContinueLZMA, ContinueUncomp, Fail, caller, chunk
<1>2. PICK k \in Nat : outPos' = outPos + k
  <2>1. CASE DecodeStep
    <3>1. CASE Stray
      <4>1. outPos' = outPos + 0
        BY <3>1, StrayKeeps, ReaderTypes
      <4> QED
        BY <4>1
    <3>2. CASE ~Stray
      <4>1. Core /\ Core' /\ InStep
        BY <2>1, <3>2, EngineCore
           DEF DecodeStep, Marking, PastInput, PastChunk, Reader, Chunks
      <4> QED
        BY <4>1, StepSize
    <3> QED
      BY <3>1, <3>2
  <2>2. CASE ContinueLZMA
    <3>1. /\ dicPos' \in dicPos .. ChunkLimit /\ outPos' = outPos + (dicPos' - dicPos)
      BY <2>2, ContinueLZMACore DEF Reader
    <3>2. PICK p \in dicPos .. ChunkLimit : dicPos' = p
      BY <3>1
    <3>3. dicPos \in Nat /\ ChunkLimit \in Nat
      BY <2>2, ChunkLimitRange DEF ContinueLZMA, Reader, Chunks, Core, CoreWindow
    <3>4. p - dicPos \in Nat
      BY <3>2, <3>3
    <3> QED
      BY <3>1, <3>2, <3>4
  <2>3. CASE \E n \in 0 .. dicBufSize : ContinueUncomp(n)
    BY <2>3 DEF ContinueUncomp, Advance
  <2> QED
    BY <2>1, <2>2, <2>3
<1>3. InEngine \/ pc = "chunk"
  BY EngineCore, StrayKeeps DEF DecodeStep, Marking, PastInput, PastChunk, ContinueLZMA,
     ContinueUncomp, Reader, Chunks, InStep
<1>4. ~eof
  BY <1>3 DEF Reader, Chunks, ChunkControl
<1>5. ~(result.err = "EOF" /\ ~cut)
  BY <1>4 DEF Reader, EndReported
<1>6. ~(result'.err = "EOF" /\ ~cut')
  <2>1. CASE DecodeStep \/ ContinueLZMA
    BY <1>5, <2>1 DEF DecodeStep, ContinueLZMA, caller, format
  <2>2. CASE \E n \in 0 .. dicBufSize : ContinueUncomp(n)
    <3>1. PICK n \in 0 .. dicBufSize : ContinueUncomp(n)
      BY <2>2
    <3>2. cut' = (cut \/ (pc' = "ready" /\ result'.err = "EOF"))
      BY <3>1 DEF ContinueUncomp
    <3>3. UNCHANGED result \/ pc' = "ready"
      BY <3>1 DEF ContinueUncomp, Fail, Return, caller
    <3> QED
      BY <1>5, <3>2, <3>3
  <2> QED
    BY <2>1, <2>2
<1>7. Status = "open" /\ Status' = "open"
  BY <1>1, <1>4, <1>5, <1>6 DEF Status
<1> QED
  BY <1>1, <1>2, <1>6, <1>7, Made, ReaderTypes DEF EndReported

LEMMA NextReader ==
  ASSUME Reader, [Next]_vars
  PROVE  Reader' /\ StreamStep
<1>1. Chunks'
  BY NextChunks DEF Reader
<1>2. CASE Call
  BY <1>1, <1>2, QuietStream DEF Call, Reporting, Reader
<1>3. CASE InCall
  BY <1>1, <1>3, QuietStream, LoopStream, MakingStream
     DEF InCall, Header, Reporting, Beginning, Reader
<1>4. CASE UNCHANGED vars
  <2> USE <1>4 DEF vars, coreVars, window, caller, chunk, format
  <2>1. EndReported'
    BY DEF Reader, EndReported
  <2>2. StreamStep
    BY Unseen DEF Status
  <2> QED
    BY <1>1, <2>1, <2>2 DEF Reader
<1> QED
  BY <1>2, <1>3, <1>4 DEF Next

\* LZMA2Reader implements ByteStream, for any sequence of chunks and errors:
\* bytes are handed over once, after they are made; and unless the input is
\* cut off where a chunk may begin, io.EOF is reported only after the last of
\* them, and for good (lzma2.go:65-85, 148-161, 264-270).
THEOREM ImplementsStream == Spec => StreamSpec
<1>1. Init => Reader
  BY InitChunks DEF Init, InitialResult, Reader, EndReported
<1>2. Init => Stream!Fresh
  BY DEF Init, InitialResult, Stream!Fresh
<1>3. Reader /\ [Next]_vars => Reader' /\ [Stream!Next]_(Stream!vars)
  BY NextReader DEF StreamStep
<1> QED
  BY <1>1, <1>2, <1>3, PTL DEF Spec, StreamSpec, Stream!Spec
=============================================================================
