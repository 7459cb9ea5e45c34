---------------------------- MODULE LZMA2Reader ----------------------------
(***************************************************************************)
(* LZMA2Reader, the io.Reader of an LZMA2 stream: a sequence of chunks,    *)
(* uncompressed or LZMA, that share one dictionary and may reset the       *)
(* dictionary, the properties and the state of the symbol coder.           *)
(***************************************************************************)
EXTENDS ReadCall

CONSTANTS
  DicSize,      \* lr.dicSize
  ChunkSizes    \* the sizes (unpackSize, dataSize) a chunk may declare

ASSUME LZMA2Assumption ==
  /\ DicSize \in Nat \ {0} /\ DicSize < Word
  /\ ChunkSizes \subseteq Nat \ {0}

VARIABLES
  propSet, eof,
  chunkRemain,   \* bytes of the current chunk still to decode
  inLZMA, inUncomp,
  announced,     \* history: sum of the sizes of the chunks begun
  due,           \* history: what the format has the next chunk reset
  cut            \* history: the input ended where a chunk may begin

chunk == <<propSet, eof, chunkRemain, inLZMA, inUncomp>>
format == <<announced, due, cut>>
vars == <<coreVars, caller, chunk, format>>

\* What a chunk resets: control >= 0xA0, 0xC0 and 0xE0.
Levels == 0 .. 3
ResetState == 1
ResetProps == 2
ResetDict  == 3

\* The decoder as init leaves it: prop is not set yet.
Init ==
  /\ dic = [i \in 0 .. (DicSize - 1) |-> Garbage]
  /\ dicBufSize = DicSize /\ propDicSize = 0 /\ conforming \in Origins
  /\ dicPos = 0 /\ readPos = 0
  /\ state = 0 /\ reps = InitialReps
  /\ processedPos = 0 /\ checkDicSize = 0 /\ remainLen = 0
  /\ pc = "ready" /\ limit = 0 /\ limit2 = 0 /\ startDicPos = 0
  /\ ioErr = FALSE /\ derr = "nil"
  /\ outPos = 0 /\ base = 0 /\ coded = 0 /\ tainted = FALSE
  /\ want = 0 /\ total = 0 /\ result = InitialResult
  /\ delivered = 0 /\ errors = 0
  /\ propSet = FALSE /\ eof = FALSE /\ chunkRemain = 0
  /\ inLZMA = FALSE /\ inUncomp = FALSE
  /\ announced = 0 /\ due = ResetDict /\ cut = FALSE

----------------------------------------------------------------------------
(* A call. *)

ReadAtEnd(n) ==
  /\ Called(n) /\ eof
  /\ Return(0, "EOF")
  /\ UNCHANGED <<window, engine, geometry, state, reps, ioErr, history, want,
                 total, delivered, chunk, format>>

ReadBegin(n) ==
  /\ Called(n) /\ ~eof
  /\ want' = n /\ total' = 0
  /\ pc' = "loop"
  /\ UNCHANGED <<window, engine, geometry, state, reps, ioErr, history,
                 result, delivered, errors, chunk, format>>

ReadDone ==
  /\ pc = "loop"
  /\ want = 0 \/ (Buffered = 0 /\ eof)
  /\ Return(total, IF total = 0 /\ eof THEN "EOF" ELSE "nil")
  /\ UNCHANGED <<window, engine, geometry, state, reps, ioErr, history, want,
                 total, delivered, chunk, format>>

\* Mutant: bytes still to be copied do not keep it from going on.
LoopWrapUndrained ==
  /\ pc = "loop" /\ want > 0 /\ ~eof
  /\ Wrap
  /\ pc' = "chunk"
  /\ UNCHANGED <<dic, processedPos, checkDicSize, remainLen, outPos, engine,
                 dicBufSize, propDicSize, base, conforming, state, reps, ioErr,
                 history, caller, chunk, format>>

LoopWrap ==
  /\ pc = "loop" /\ want > 0 /\ Buffered = 0 /\ ~eof
  /\ Wrap
  /\ pc' = "chunk"
  /\ UNCHANGED <<dic, processedPos, checkDicSize, remainLen, outPos, engine,
                 dicBufSize, propDicSize, base, conforming, state, reps, ioErr,
                 history, caller, chunk, format>>

\* The rest of an iteration fails: Read returns what it has copied.
Fail(err) ==
  /\ Return(total, err)
  /\ UNCHANGED <<want, total, delivered>>

----------------------------------------------------------------------------
(* LZMA chunks. *)

MidLZMA == inLZMA /\ chunkRemain > 0

\* Mutant: the end of the chunk does not limit the engine.
ChunkLimitDictionary == dicBufSize

ChunkLimit == Lesser(dicPos + chunkRemain, dicBufSize)

ContinueLZMA ==
  /\ pc = "chunk" /\ MidLZMA
  /\ limit' = ChunkLimit
  /\ derr' = "nil"
  /\ \/ /\ Pending
        /\ WriteRem(ChunkLimit, checkDicSize)
        /\ pc' = AfterRem(ChunkLimit,
                          IF dicPos' < ChunkLimit THEN "decode" ELSE "decoded")
     \/ /\ ~Pending
        /\ pc' = "decode"
        /\ UNCHANGED window
  /\ UNCHANGED <<limit2, startDicPos, geometry, state, reps, ioErr, history,
                 caller, chunk, format>>

\* Mutant: dicPos is taken for the number of bytes produced.
AfterDecodeFromSlot0 ==
  /\ pc = "decoded"
  /\ IF derr \in {"nil", "EOF"}
     THEN /\ chunkRemain' = chunkRemain - dicPos
          /\ inLZMA' = (chunkRemain' > 0)
          /\ conforming' \in IF inLZMA' THEN {conforming} ELSE {conforming, FALSE}
          /\ pc' = "loop"
          /\ UNCHANGED caller
     ELSE Fail(derr) /\ UNCHANGED <<chunkRemain, inLZMA, conforming>>
  /\ UNCHANGED <<window, engine, dicBufSize, propDicSize, base, readPos,
                 state, reps, ioErr, history, propSet, eof,
                 inUncomp, format>>

\* io.EOF from an engine, an end marker, is ignored.  A chunk that is
\* complete has its packed data drained; if the source fails then, which is
\* not reported, the next header is read in the middle of it (RangeInput).
AfterDecode ==
  /\ pc = "decoded"
  /\ IF derr \in {"nil", "EOF"}
     THEN /\ chunkRemain' = chunkRemain - Buffered
          /\ inLZMA' = (chunkRemain' > 0)
          /\ conforming' \in IF inLZMA' THEN {conforming} ELSE {conforming, FALSE}
          /\ pc' = "loop"
          /\ UNCHANGED caller
     ELSE Fail(derr) /\ UNCHANGED <<chunkRemain, inLZMA, conforming>>
  /\ UNCHANGED <<window, engine, dicBufSize, propDicSize, base, readPos,
                 state, reps, ioErr, history, propSet, eof,
                 inUncomp, format>>

----------------------------------------------------------------------------
(* Uncompressed chunks. *)

MidUncomp == ~MidLZMA /\ inUncomp /\ chunkRemain > 0

\* io.ReadFull puts n bytes of the chunk into the dictionary, fewer than
\* fit only when it fails: by io.EOF only if there was none at all.
ContinueUncomp(n) ==
  LET toRead == Lesser(chunkRemain, dicBufSize - dicPos)
  IN  /\ pc = "chunk" /\ MidUncomp
      /\ n \in 0 .. toRead
      /\ dic' = [i \in Slots |->
                   IF i < dicPos \/ i >= dicPos + n THEN dic[i]
                   ELSE IF ~tainted /\ outPos = coded
                        THEN outPos + (i - dicPos) ELSE Garbage]
      /\ Advance(n)
      /\ coded' = coded + n
      /\ checkDicSize' = Checked(checkDicSize, processedPos')
      /\ chunkRemain' = chunkRemain - n
      /\ inUncomp' = (chunkRemain' > 0)
      /\ inLZMA' = FALSE
      /\ \/ n = toRead /\ pc' = "loop" /\ UNCHANGED caller
         \/ n < toRead /\ Fail("io")
         \/ n = 0 /\ n < toRead /\ Fail("EOF")
      /\ cut' = (cut \/ (pc' = "ready" /\ result'.err = "EOF"))
      /\ UNCHANGED <<remainLen, engine, geometry, state, reps, ioErr, tainted,
                     propSet, eof, announced, due>>

----------------------------------------------------------------------------
(* Chunk headers. *)

AtHeader == pc = "chunk" /\ ~MidLZMA /\ ~MidUncomp

\* The input ends, or fails, at a control byte, where nothing is lost.  Once
\* bytes are copied the error is dropped.
ControlError ==
  /\ AtHeader
  /\ inLZMA' = FALSE /\ inUncomp' = FALSE
  /\ \/ total = 0 /\ Fail("io") /\ UNCHANGED cut
     \/ total = 0 /\ Fail("EOF") /\ cut' = TRUE
     \/ total > 0 /\ Fail("nil") /\ cut' \in {cut, TRUE}
  /\ UNCHANGED <<window, engine, geometry, state, reps, ioErr, history,
                 propSet, eof, chunkRemain, announced, due>>

\* It ends or fails behind the control byte: the next Read takes what follows
\* in the middle of the header for a control byte.  io.ReadFull reports io.EOF
\* if no byte of what it was to read is left.
HeaderError ==
  /\ AtHeader
  /\ inLZMA' = FALSE /\ inUncomp' = FALSE
  /\ conforming' = FALSE
  /\ \/ Fail("io") /\ UNCHANGED cut
     \/ Fail("EOF") /\ cut' = TRUE
  /\ UNCHANGED <<window, engine, dicBufSize, propDicSize, base, readPos,
                 state, reps, ioErr, history,
                 propSet, eof, chunkRemain, announced, due>>

\* A control byte in 0x03 .. 0x7f, or a properties byte out of range; it is
\* not read again.
BadHeader ==
  /\ AtHeader
  /\ ~(conforming /\ ~tainted)
  /\ conforming' = FALSE
  /\ inLZMA' = FALSE /\ inUncomp' = FALSE
  /\ propSet' \in {propSet, TRUE}
  /\ Fail("ErrData")
  /\ UNCHANGED <<window, engine, dicBufSize, propDicSize, base, readPos,
                 state, reps, ioErr, history, eof,
                 chunkRemain, format>>

EndOfStream ==
  /\ AtHeader
  /\ conforming /\ ~tainted => due < ResetDict \/ announced = 0
  /\ eof' = TRUE
  /\ inLZMA' = FALSE /\ inUncomp' = FALSE
  /\ pc' = "loop"
  /\ UNCHANGED <<window, engine, geometry, state, reps, ioErr, history,
                 caller, propSet, chunkRemain, format>>

\* Mutant: a dictionary reset does not restart processedPos.
ForgetDictionaryOnly ==
  /\ dicPos' = 0 /\ readPos' = 0 /\ checkDicSize' = 0
  /\ base' = outPos
  /\ UNCHANGED processedPos

ForgetDictionary ==
  /\ dicPos' = 0 /\ readPos' = 0
  /\ processedPos' = 0 /\ checkDicSize' = 0
  /\ base' = outPos

KeepDictionary == UNCHANGED <<dicPos, readPos, processedPos, checkDicSize, base>>

Announce(sz) ==
  /\ AtHeader
  /\ outPos + sz <= MaxOut
  /\ announced' = announced + sz
  /\ chunkRemain' = sz
  /\ pc' = "loop"
  /\ UNCHANGED caller

\* Control 0x01 resets the dictionary, 0x02 does not.  After it an encoder
\* begins its next LZMA chunk with a new state.
UncompHeader(reset, sz) ==
  /\ Announce(sz)
  /\ conforming /\ ~tainted => reset \/ due < ResetDict
  /\ IF reset THEN ForgetDictionary ELSE KeepDictionary
  /\ inUncomp' = TRUE /\ inLZMA' = FALSE
  /\ due' = IF due >= ResetProps THEN ResetProps ELSE ResetState
  /\ UNCHANGED <<dic, remainLen, outPos, engine, dicBufSize, propDicSize,
                 conforming, state, reps, ioErr, history, propSet, eof, cut>>

StateAfterHeader(level) ==
  IF level >= ResetState
  THEN state' = 0 /\ reps' = InitialReps /\ remainLen' = 0
  ELSE UNCHANGED <<state, reps, remainLen>>

LZMAHeader(level, sz) ==
  /\ propSet \/ level >= ResetProps
  /\ Announce(sz)
  /\ conforming /\ ~tainted => level >= due
  /\ propSet' = TRUE
  /\ propDicSize' = IF level >= ResetProps THEN dicBufSize ELSE propDicSize
  /\ IF level = ResetDict THEN ForgetDictionary ELSE KeepDictionary
  /\ StateAfterHeader(level)
  /\ inLZMA' = TRUE /\ inUncomp' = FALSE
  /\ due' = 0
  /\ UNCHANGED <<dic, outPos, engine, dicBufSize, conforming, ioErr, history, eof, cut>>

\* The same header, with rc.init failing after the resets; or the very first
\* LZMA chunk does not set the properties.
LZMAHeaderFails(level) ==
  /\ AtHeader
  /\ conforming /\ ~tainted => level >= due
  /\ IF propSet \/ level >= ResetProps
     THEN /\ propSet' = TRUE
          /\ propDicSize' = IF level >= ResetProps THEN dicBufSize ELSE propDicSize
          /\ IF level = ResetDict THEN ForgetDictionary ELSE KeepDictionary
          /\ StateAfterHeader(level)
          /\ Fail("init")
     ELSE /\ KeepDictionary
          /\ UNCHANGED <<propSet, propDicSize, state, reps, remainLen>>
          /\ Fail("ErrData")
  /\ tainted' = TRUE
  /\ inLZMA' = FALSE /\ inUncomp' = FALSE
  /\ UNCHANGED <<dic, outPos, engine, dicBufSize, conforming, ioErr, coded, eof,
                 chunkRemain, format>>

----------------------------------------------------------------------------

\* An encoder's symbols end with the chunk, and it writes no end marker.  But
\* chunkRemain still counts what was decoded in a call that failed, and the
\* engine may go on behind the last symbol.
PastChunk == coded = announced /\ Stray

DecodeStep ==
  /\ \/ Engine /\ (conforming /\ ~tainted' => coded' <= announced)
     \/ PastInput \/ PastChunk
     \/ (\E ok \in BOOLEAN : EndMarker(ok)) /\ ~(conforming /\ ~tainted')
  /\ UNCHANGED <<caller, chunk, format>>

Header ==
  \/ ControlError \/ HeaderError \/ BadHeader \/ EndOfStream
  \/ \E sz \in ChunkSizes, reset \in BOOLEAN : UncompHeader(reset, sz)
  \/ \E sz \in ChunkSizes, level \in Levels : LZMAHeader(level, sz)
  \/ \E level \in Levels : LZMAHeaderFails(level)

Call == \E n \in 0 .. MaxRead : ReadAtEnd(n) \/ ReadBegin(n)

InCall ==
  \/ DecodeStep \/ ReadDone \/ LoopWrap
  \/ LoopCopy /\ UNCHANGED <<chunk, format>>
  \/ ContinueLZMA \/ AfterDecode
  \/ \E n \in 0 .. dicBufSize : ContinueUncomp(n)
  \/ Header

Next == Call \/ InCall

Spec     == Init /\ [][Next]_vars
FairSpec == Spec /\ WF_vars(InCall)

----------------------------------------------------------------------------
(* Properties. *)

\* Types, and the ranges that keep every slice of dic within its bounds.
TypeOK ==
  /\ dicBufSize = DicSize /\ propDicSize \in {0, DicSize}
  /\ dicPos \in 0 .. dicBufSize /\ readPos \in 0 .. dicPos
  /\ dic \in [Slots -> Nat \cup {Garbage}]
  /\ outPos \in Nat /\ base \in 0 .. outPos /\ coded \in Nat
  /\ processedPos \in 0 .. (Word - 1)
  /\ checkDicSize \in {0, DicSize}
  /\ remainLen \in 0 .. (SpecLen + 1)
  /\ state \in 0 .. 11
  /\ reps \in [1 .. 4 -> Nat \ {0}]
  /\ pc \in {"ready", "loop", "chunk", "decode", "asm", "asmFirst", "asmNext",
             "goEntry", "go", "decoded", "fault"}
  /\ InEngine => dicPos <= limit /\ limit <= dicBufSize
  /\ derr \in {"nil", "EOF", "ErrData", "io"}
  /\ chunkRemain \in Nat /\ announced \in Nat /\ due \in Levels
  /\ inLZMA \in BOOLEAN /\ inUncomp \in BOOLEAN /\ propSet \in BOOLEAN
  /\ eof \in BOOLEAN /\ cut \in BOOLEAN /\ tainted \in BOOLEAN

\* A chunk yields the number of bytes its header declares, across returns of
\* Read, wraps of the dictionary and matches that the end of the dictionary
\* interrupts: a new header is read only when they all are in the dictionary
\* (lzma2.go:94-121, 125-145), and every byte is handed over once.
ChunkAccounting ==
  /\ errors = 0 /\ ~cut =>
       outPos + (IF inLZMA \/ inUncomp THEN chunkRemain ELSE 0)
         = announced + (IF InEngine THEN Buffered ELSE 0)
  /\ delivered = outPos - Buffered

\* The reader is an implementation of the byte stream it promises to be, as
\* long as the input does not end where a chunk may begin.
Stream == INSTANCE ByteStream WITH
  Unknown <- -1, declared <- -1, made <- outPos, given <- delivered,
  status <- IF result.err = "EOF" /\ ~cut THEN "reported"
            ELSE IF eof THEN "ended" ELSE "open"

StreamSpec == Stream!Spec

\* Every call of Read returns, on an encoder's stream whose place it has not
\* lost.  (On other input a chunk goes on after any number of end markers, and
\* the input of the model has no end.)
ReadReturns ==
  conforming /\ pc # "ready" ~> pc \in {"ready", "fault"} \/ ~conforming
=============================================================================
