------------------------------ MODULE Decoder ------------------------------
(***************************************************************************)
(* Decoder, the io.Reader of an LZMA stream: Reset, and Read step by step. *)
(* The caller may read with buffers of any size, go on after an error, and *)
(* reuse the decoder for another stream.                                   *)
(***************************************************************************)
EXTENDS ReadCall

CONSTANTS
  Sizes,       \* the sizes a stream may declare, -1 for none
  DicSizes,    \* the dictionary sizes a stream may declare
  IntMax,      \* the largest int: 2^63 - 1, or 2^31 - 1 on a 32-bit machine
  MaxStreams   \* bound: streams read with one decoder

Unknown == -1

ASSUME DecoderAssumption ==
  /\ Sizes \subseteq Nat \cup {Unknown}
  /\ DicSizes \subseteq Nat \ {0}
  /\ \A ds \in DicSizes : ds < Word
  /\ IntMax \in Nat \ {0}
  /\ MaxStreams \in Nat

VARIABLES
  size,       \* bytes still to decode, or Unknown
  eos,
  rngZero,    \* rc.rng = 0: the range coder is not initialised
  size0,      \* history: the size the stream declared
  streams     \* history: streams begun

stream == <<size, eos, rngZero>>
origin == <<size0, streams>>
vars   == <<coreVars, stream, caller, origin>>

\* A value of a wider type (int64, or a sum) as an int.
ToInt(x) == IF x <= IntMax THEN x
            ELSE LET m == x % (2 * (IntMax + 1))
                 IN  IF m <= IntMax THEN m ELSE m - 2 * (IntMax + 1)

----------------------------------------------------------------------------
(* Reset.  A dictionary that is reused keeps its bytes: they belong to     *)
(* another stream, as those of a new one belong to none.                   *)

Init ==
  \E ds \in DicSizes, sz \in Sizes, enc \in Origins :
    /\ conforming = enc
    /\ dic = [i \in 0 .. (ds - 1) |-> Garbage]
    /\ dicBufSize = ds /\ propDicSize = ds
    /\ dicPos = 0 /\ readPos = 0
    /\ size = sz /\ size0 = sz /\ eos = FALSE
    /\ state = 0 /\ reps = InitialReps
    /\ processedPos = 0 /\ checkDicSize = 0 /\ remainLen = 0
    /\ rngZero = TRUE
    /\ pc = "ready" /\ limit = 0 /\ limit2 = 0 /\ startDicPos = 0
    /\ ioErr = FALSE /\ derr = "nil"
    /\ outPos = 0 /\ base = 0 /\ coded = 0 /\ tainted = FALSE
    /\ want = 0 /\ total = 0 /\ result = InitialResult
    /\ delivered = 0 /\ errors = 0 /\ streams = 1

Reset(ds, sz, enc) ==
  /\ pc = "ready" /\ streams < MaxStreams
  /\ conforming' = enc
  /\ dic' = [i \in 0 .. (ds - 1) |-> Garbage]
  /\ dicBufSize' = ds /\ propDicSize' = ds
  /\ dicPos' = 0 /\ readPos' = 0
  /\ size' = sz /\ size0' = sz /\ eos' = FALSE
  /\ state' = 0 /\ reps' = InitialReps
  /\ processedPos' = 0 /\ checkDicSize' = 0 /\ remainLen' = 0
  /\ rngZero' = TRUE
  /\ outPos' = 0 /\ base' = 0 /\ coded' = 0 /\ tainted' = FALSE
  /\ delivered' = 0 /\ errors' = 0 /\ result' = InitialResult
  /\ streams' = streams + 1
  /\ UNCHANGED <<pc, limit, limit2, startDicPos, ioErr, derr, want, total>>

----------------------------------------------------------------------------
(* Read. *)

ReadBuffered(n) ==
  /\ Called(n) /\ Buffered > 0
  /\ Copy(n)
  /\ Return(Lesser(n, Buffered), "nil")
  /\ UNCHANGED <<window, engine, dicBufSize, propDicSize, base, conforming,
                 state, reps, ioErr, history, stream, want, total, origin>>

\* Mutant: eos is looked at before the buffered bytes.
ReadAtEndFirst(n) ==
  /\ Called(n) /\ eos
  /\ Return(0, "EOF")
  /\ UNCHANGED <<window, engine, geometry, state, reps, ioErr, history,
                 stream, want, total, delivered, origin>>

ReadAtEnd(n) ==
  /\ Called(n) /\ Buffered = 0 /\ eos
  /\ Return(0, "EOF")
  /\ UNCHANGED <<window, engine, geometry, state, reps, ioErr, history,
                 stream, want, total, delivered, origin>>

\* rc.init fails: at its first fill, having read nothing; or later, at a
\* byte that is not 0 or in the four bytes of code, with rng already set.
InitFails(n) ==
  /\ Called(n) /\ Buffered = 0 /\ ~eos /\ rngZero
  /\ \/ UNCHANGED <<rngZero, tainted>>
     \/ tainted' = TRUE /\ rngZero' \in BOOLEAN
  /\ Return(0, "init")
  /\ UNCHANGED <<window, engine, geometry, state, reps, ioErr, coded, size,
                 eos, want, total, delivered, origin>>

ReadBegin(n) ==
  /\ Called(n) /\ Buffered = 0 /\ ~eos
  /\ rngZero' = FALSE
  /\ want' = n /\ total' = 0
  /\ pc' = "loop"
  /\ UNCHANGED <<window, engine, geometry, state, reps, ioErr, history,
                 size, eos, result, delivered, errors, origin>>

ReadDone ==
  /\ pc = "loop"
  /\ want = 0 \/ (Buffered = 0 /\ eos)
  /\ Return(total, IF total = 0 /\ eos THEN "EOF" ELSE "nil")
  /\ UNCHANGED <<window, engine, geometry, state, reps, ioErr, history,
                 stream, want, total, delivered, origin>>

Decode ==
  /\ pc = "loop" /\ want > 0 /\ Buffered = 0 /\ ~eos
  /\ Wrap
  /\ LET rem == ToInt(size)
         end == ToInt(Wrapped + rem)
     IN  \/ /\ size # Unknown /\ rem <= 0
            /\ eos' = TRUE
            /\ UNCHANGED <<limit, pc>>
         \/ /\ size = Unknown \/ rem > 0
            /\ limit' = IF size # Unknown /\ end < dicBufSize
                        THEN end ELSE dicBufSize
            /\ pc' = "decode"
            /\ UNCHANGED eos
  /\ UNCHANGED <<dic, processedPos, checkDicSize, remainLen, outPos, limit2,
                 startDicPos, derr, dicBufSize, propDicSize, base, conforming,
                 state, reps, ioErr, history, size, rngZero, caller, origin>>

\* Mutants: only a call without error counts; dicPos is taken for the
\* number of bytes produced.
ChargedOnSuccess == IF size # Unknown /\ derr \in {"nil", "EOF"}
                    THEN size - Buffered ELSE size
ChargedFromSlot0 == IF size # Unknown THEN size - dicPos ELSE size

\* What the engine produced counts against size even when it failed.
Charged == IF size # Unknown THEN size - Buffered ELSE size

AfterDecode ==
  /\ pc = "decoded"
  /\ size' = Charged
  /\ eos' = (eos \/ derr = "EOF")
  /\ IF derr \in {"nil", "EOF"}
     THEN pc' = "loop" /\ UNCHANGED <<result, errors>>
     ELSE Return(total, derr)
  /\ UNCHANGED <<window, engine, geometry, state, reps, ioErr, history,
                 rngZero, want, total, delivered, origin>>

----------------------------------------------------------------------------

\* An encoder ends a stream of declared size without a marker.
DecodeStep ==
  /\ \/ Engine \/ PastInput
     \/ /\ \E ok \in BOOLEAN : EndMarker(ok)
        /\ conforming /\ ~tainted' => size0 = Unknown
  /\ UNCHANGED <<stream, caller, origin>>

LoopStep == LoopCopy /\ UNCHANGED <<stream, origin>>

Call == \E n \in 0 .. MaxRead :
          ReadBuffered(n) \/ ReadAtEnd(n) \/ InitFails(n) \/ ReadBegin(n)

Reuse == \E ds \in DicSizes, sz \in Sizes, enc \in Origins : Reset(ds, sz, enc)

InCall == DecodeStep \/ LoopStep \/ ReadDone \/ Decode \/ AfterDecode

Next == Call \/ Reuse \/ InCall

\* Read is a sequential program: once called it keeps running.
Spec     == Init /\ [][Next]_vars
FairSpec == Spec /\ WF_vars(InCall)

----------------------------------------------------------------------------
(* Properties. *)

WindowTypeOK ==
  /\ dicBufSize \in DicSizes /\ propDicSize = dicBufSize
  /\ dicPos \in 0 .. dicBufSize /\ readPos \in 0 .. dicPos
  /\ dic \in [Slots -> Nat \cup {Garbage}]
  /\ outPos \in Nat /\ base = 0 /\ coded \in Nat
  /\ processedPos \in 0 .. (Word - 1)
  /\ checkDicSize \in {0, propDicSize}
  /\ remainLen \in 0 .. (SpecLen + 1)
  /\ state \in 0 .. 11
  /\ reps \in [1 .. 4 -> Nat \ {0}]

EngineTypeOK ==
  /\ pc \in {"ready", "loop", "decode", "asm", "asmFirst", "asmNext",
             "goEntry", "go", "decoded", "fault"}
  /\ limit \in Int /\ limit2 \in Int /\ startDicPos \in Nat
  /\ derr \in {"nil", "EOF", "ErrData", "io"}
  /\ InEngine => dicPos <= limit /\ limit <= dicBufSize
  /\ pc \in {"decode", "asmFirst", "goEntry"} => dicPos < limit
  /\ pc \in {"asm", "asmFirst", "asmNext"} => startDicPos < limit
  /\ pc \in {"asmFirst", "asmNext"} => limit2 <= limit
  /\ pc = "asmFirst" => dicPos <= limit2 /\ remainLen = 0

CallerTypeOK ==
  /\ size0 \in Sizes /\ size \in Nat \cup {Unknown}
  /\ want \in 0 .. MaxRead /\ total \in 0 .. MaxRead
  /\ result \in [n : 0 .. MaxRead,
                 err : {"none", "nil", "EOF", "ErrData", "io", "init"}]
  /\ delivered \in Nat /\ errors \in Nat /\ streams \in Nat

FlagsTypeOK ==
  /\ ioErr \in BOOLEAN /\ tainted \in BOOLEAN
  /\ eos \in BOOLEAN /\ rngZero \in BOOLEAN

\* Types, and the ranges that keep every slice of dic within its bounds:
\* readPos <= dicPos <= dicBufSize (decoder.go:143), and while an engine
\* runs dicPos never passes limit, nor limit the dictionary.
TypeOK == WindowTypeOK /\ EngineTypeOK /\ CallerTypeOK /\ FlagsTypeOK

\* d.size is, whenever no engine runs and whatever errors occurred, the
\* declared size less the bytes decoded (decoder.go:173-176); no byte is
\* decoded past it; and no byte is lost or copied twice between the
\* dictionary and the caller (decoder.go:126-129, 142-155).
SizeAccounting ==
  /\ size0 # Unknown => outPos <= size0
  /\ size = IF size0 = Unknown THEN Unknown
            ELSE IF InEngine THEN size0 - (outPos - Buffered)
            ELSE size0 - outPos
  /\ delivered = outPos - Buffered

\* A stream whose bytes all decode is reported finished only when it has
\* yielded the size it declared (decoder.go:158-163).
EofAtDeclaredSize ==
  conforming /\ ~tainted /\ eos /\ size0 # Unknown => outPos = size0

\* The reader is an implementation of the byte stream it promises to be.
\* (Input no encoder wrote may end, by a marker, before the declared size, and
\* so may any once its place is lost.)
Stream == INSTANCE ByteStream WITH
  declared <- IF conforming THEN size0 ELSE Unknown, made <- outPos, given <- delivered,
  status <- IF errors > 0 /\ tainted THEN "failed"
            ELSE IF result.err = "EOF" THEN "reported"
            ELSE IF eos THEN "ended" ELSE "open"

StreamSpec == Stream!Spec

\* Every call of Read returns: the loop never decodes without moving on.
ReadReturns == pc # "ready" ~> pc \in {"ready", "fault"}
=============================================================================
