--------------------------- MODULE DecoderProofs ---------------------------
(***************************************************************************)
(* Proofs about Decoder, for any input, dictionary size, buffer sizes and  *)
(* word width.  First its positions and sizes; then that it hands over the *)
(* stream that was encoded, its distances, bytes, their order and the end, *)
(* and implements ByteStream.                                              *)
(***************************************************************************)
EXTENDS Decoder, EngineProofs

\* The sizes that streams declare fit an int (not so on 32-bit machines).
Wide == \A sz \in Sizes : sz <= IntMax

\* What the type invariant and the size accounting need to be inductive: the
\* limit of an engine leaves no more room than the stream has bytes left.
Positions ==
  /\ want + total <= MaxRead
  /\ dicPos <= outPos
  /\ InEngine /\ size0 # Unknown => outPos + (limit - dicPos) <= size0

Account == TypeOK /\ SizeAccounting /\ Positions

LEMMA Constants ==
  /\ SpecLen \in Nat \ {0} /\ Word \in Nat /\ SpecLen + 1 < Word
  /\ Lens \subseteq 1 .. (SpecLen - 1)
  /\ Dists \subseteq Nat \ {0}
  /\ Sizes \subseteq Nat \cup {-1}
  /\ DicSizes \subseteq Nat \ {0}
  /\ IntMax \in Nat \ {0} /\ MaxRead \in Nat /\ MaxOut \in Nat
  BY CoreAssumption, CallAssumption, DecoderAssumption
     DEF CoreAssumption, CallAssumption, DecoderAssumption, Unknown

----------------------------------------------------------------------------
(* Initial states, and a new stream. *)

LEMMA InitAccount == Init => Account
<1> SUFFICES ASSUME Init PROVE Account
  OBVIOUS
<1>1. PICK ds \in DicSizes, sz \in Sizes :
        /\ dic = [i \in 0 .. (ds - 1) |-> Garbage]
        /\ dicBufSize = ds /\ size = sz /\ size0 = sz
  BY DEF Init
<1>2. WindowTypeOK
  BY <1>1, Constants DEF Init, InitialReps, WindowTypeOK, Slots, Garbage
<1>3. EngineTypeOK
  BY Constants DEF Init, EngineTypeOK, InEngine
<1>4. result \in [n : 0 .. MaxRead,
                 err : {"none", "nil", "EOF", "ErrData", "io", "init"}]
  BY Constants DEF Init, InitialResult
<1>5. CallerTypeOK
  BY <1>1, <1>4, Constants DEF Init, CallerTypeOK, Unknown
<1>6. SizeAccounting /\ Positions
  BY <1>1, Constants
     DEF Init, SizeAccounting, Positions, InEngine, Buffered, Unknown
<1>7. FlagsTypeOK
  BY DEF Init, FlagsTypeOK
<1> QED
  BY <1>2, <1>3, <1>5, <1>6, <1>7 DEF Account, TypeOK

LEMMA ResetAccount ==
  ASSUME Account, NEW ds \in DicSizes, NEW sz \in Sizes,
         NEW enc \in Origins, Reset(ds, sz, enc)
  PROVE  Account'
<1>1. WindowTypeOK'
  BY Constants DEF Reset, InitialReps, WindowTypeOK, Slots, Garbage
<1>2. EngineTypeOK'
  BY DEF Reset, Account, TypeOK, EngineTypeOK, InEngine
<1>3. (result \in [n : 0 .. MaxRead,
                 err : {"none", "nil", "EOF", "ErrData", "io", "init"}])'
  BY Constants DEF Reset, InitialResult
<1>4. CallerTypeOK'
  BY <1>3, Constants DEF Reset, Account, TypeOK, CallerTypeOK, Unknown
<1>5. SizeAccounting' /\ Positions'
  BY Constants DEF Reset, Account, TypeOK, EngineTypeOK, CallerTypeOK, SizeAccounting, Positions,
                   InEngine, Buffered, Unknown
<1>6. FlagsTypeOK'
  BY DEF Reset, Account, TypeOK, FlagsTypeOK
<1> QED
  BY <1>1, <1>2, <1>4, <1>5, <1>6 DEF Account, TypeOK

----------------------------------------------------------------------------
(* The steps of Read outside the engines. *)

LEMMA ReadAccount ==
  ASSUME Account, NEW n \in 0 .. MaxRead, ReadBuffered(n)
  PROVE  Account'
<1>1. WindowTypeOK'
  BY Constants DEF ReadBuffered, Called, Copy, Lesser, Buffered, window, history, Account,
     TypeOK, WindowTypeOK, Slots
<1>2. EngineTypeOK'
  BY DEF ReadBuffered, Return, window, engine, Account, TypeOK, EngineTypeOK, InEngine
<1>3. Lesser(n, Buffered) \in 0 .. n
  BY DEF ReadBuffered, Lesser, Buffered, Account, TypeOK, WindowTypeOK
<1>4. CallerTypeOK'
  BY <1>3, Constants DEF ReadBuffered, Copy, Return, stream, origin, Account,
     TypeOK, CallerTypeOK
<1>5. FlagsTypeOK'
  BY DEF ReadBuffered, history, stream, Account, TypeOK, FlagsTypeOK
<1>6. SizeAccounting' /\ Positions'
  BY <1>3, Constants DEF ReadBuffered, Called, Copy, Return, window, engine, stream,
     origin, Account, TypeOK, WindowTypeOK, EngineTypeOK, CallerTypeOK, SizeAccounting, Positions, Buffered, InEngine
<1> QED
  BY <1>1, <1>2, <1>4, <1>5, <1>6 DEF Account, TypeOK

\* ReadAtEnd, InitFails and ReadBegin only begin or refuse a call.
LEMMA CallAccount ==
  ASSUME Account, NEW n \in 0 .. MaxRead,
         ReadAtEnd(n) \/ InitFails(n) \/ ReadBegin(n)
  PROVE  Account'
<1>1. UNCHANGED <<window, engine, geometry, state, reps, coded, ioErr, size, eos,
                  delivered, origin>>
  BY DEF ReadAtEnd, InitFails, ReadBegin, history, stream
<1>2. pc = "ready" /\ pc' \in {"ready", "loop"}
  BY DEF ReadAtEnd, InitFails, ReadBegin, Return, Called
<1>3. WindowTypeOK'
  BY <1>1 DEF window, geometry, Account, TypeOK, WindowTypeOK, Slots
<1>4. EngineTypeOK'
  BY <1>1, <1>2 DEF window, engine, geometry, Account, TypeOK, EngineTypeOK, InEngine
<1>5. /\ want' \in 0 .. MaxRead /\ total' \in 0 .. MaxRead
      /\ want' + total' <= MaxRead
      /\ errors' \in Nat
      /\ result' \in [n : 0 .. MaxRead,
                      err : {"none", "nil", "EOF", "ErrData", "io", "init"}]
  BY Constants DEF ReadAtEnd, InitFails, ReadBegin, Return, Account, TypeOK, CallerTypeOK,
         Positions
<1>6. CallerTypeOK'
  BY <1>1, <1>5 DEF origin, Account, TypeOK, CallerTypeOK
<1>7. FlagsTypeOK'
  BY DEF ReadAtEnd, InitFails, ReadBegin, history, stream, Account, TypeOK,
         FlagsTypeOK
<1>8. SizeAccounting' /\ Positions'
  BY <1>1, <1>2, <1>5 DEF window, engine, geometry, origin, Account,
     SizeAccounting, Positions, InEngine, Buffered
<1> QED
  BY <1>3, <1>4, <1>6, <1>7, <1>8 DEF Account, TypeOK

LEMMA LoopCopyAccount ==
  ASSUME Account, LoopStep
  PROVE  Account'
<1>1. Lesser(want, Buffered) \in 0 .. want /\ Lesser(want, Buffered) <= Buffered
  BY DEF LoopStep, LoopCopy, Lesser, Buffered, Account, TypeOK, WindowTypeOK,
         CallerTypeOK
<1>2. WindowTypeOK'
  <2>1. readPos' = readPos + Lesser(want, Buffered)
    BY DEF LoopStep, LoopCopy, Copy
  <2>2. UNCHANGED <<dicBufSize, propDicSize, dicPos, dic, outPos, base, coded, processedPos,
                    checkDicSize, remainLen, state, reps>>
    BY DEF LoopStep, LoopCopy, window, history
  <2>3. WindowTypeOK /\ want \in Nat
    BY DEF Account, TypeOK, CallerTypeOK
  <2>4. readPos' \in 0 .. dicPos
    BY <1>1, <2>1, <2>3, Constants DEF Buffered, WindowTypeOK
  <2>5. QED
    BY <2>2, <2>3, <2>4 DEF WindowTypeOK, Slots
<1>3. EngineTypeOK'
  BY DEF LoopStep, LoopCopy, window, engine, Account, TypeOK, EngineTypeOK, InEngine
<1>4. CallerTypeOK'
  BY <1>1, Constants DEF LoopStep, LoopCopy, Copy, stream, origin, Account, TypeOK,
     CallerTypeOK, Positions
<1>5. FlagsTypeOK'
  BY DEF LoopStep, LoopCopy, history, stream, Account, TypeOK, FlagsTypeOK
<1>6. SizeAccounting' /\ Positions'
  BY <1>1, Constants DEF LoopStep, LoopCopy, Copy, window, engine, stream, origin, Account,
     TypeOK, WindowTypeOK, EngineTypeOK, CallerTypeOK, SizeAccounting,
     Positions, Buffered, InEngine
<1> QED
  BY <1>2, <1>3, <1>4, <1>5, <1>6 DEF Account, TypeOK

LEMMA ReadDoneAccount ==
  ASSUME Account, ReadDone
  PROVE  Account'
<1>1. WindowTypeOK'
  BY DEF ReadDone, window, geometry, history, Account, TypeOK, WindowTypeOK, Slots
<1>2. EngineTypeOK'
  BY DEF ReadDone, Return, window, engine, geometry, Account, TypeOK, EngineTypeOK,
         InEngine
<1>3. CallerTypeOK'
  BY DEF ReadDone, Return, stream, origin, Account, TypeOK, CallerTypeOK
<1>4. FlagsTypeOK'
  BY DEF ReadDone, history, stream, Account, TypeOK, FlagsTypeOK
<1>5. SizeAccounting' /\ Positions'
  BY DEF ReadDone, Return, window, engine, geometry, stream, origin, Account,
         TypeOK, EngineTypeOK, SizeAccounting, Positions, Buffered, InEngine
<1> QED
  BY <1>1, <1>2, <1>3, <1>4, <1>5 DEF Account, TypeOK

LEMMA DecodeAccount ==
  ASSUME Wide, Account, Decode
  PROVE  Account'
<1>1. /\ Wrapped \in 0 .. (dicBufSize - 1) /\ dicPos' = Wrapped
      /\ readPos' = dicPos' /\ Wrapped <= dicPos
  BY Constants DEF Decode, Wrap, Wrapped, Buffered, Account, TypeOK, WindowTypeOK
<1>2. size # Unknown => size = size0 - outPos /\ size0 <= IntMax
  BY DEF Wide, Decode, Account, TypeOK, CallerTypeOK, SizeAccounting, InEngine, Unknown
<1>3. size # Unknown => ToInt(size) = size /\ ToInt(Wrapped + ToInt(size)) = Wrapped + size
  BY <1>1, <1>2, Constants DEF ToInt, Account, TypeOK, WindowTypeOK, CallerTypeOK, Positions, Unknown
<1>4. WindowTypeOK'
  BY <1>1, Constants DEF Decode, history, Account, TypeOK, WindowTypeOK, Slots
<1>5. \/ pc' = "loop" /\ limit' = limit
      \/ /\ pc' = "decode" /\ limit' \in Int
         /\ Wrapped < limit' /\ limit' <= dicBufSize
         /\ size # Unknown => limit' - Wrapped <= size
  BY <1>1, <1>2, <1>3, Constants DEF Decode, Account, TypeOK, WindowTypeOK, CallerTypeOK, Unknown
<1>6. EngineTypeOK'
  BY <1>1, <1>5 DEF Decode, Account, TypeOK, WindowTypeOK, EngineTypeOK, InEngine
<1>7. CallerTypeOK'
  BY DEF Decode, caller, origin, Account, TypeOK, CallerTypeOK
<1>8. FlagsTypeOK'
  BY DEF Decode, history, Account, TypeOK, FlagsTypeOK
<1>9. SizeAccounting' /\ Positions'
  BY <1>1, <1>2, <1>5, Constants DEF Decode, caller, origin, Account, TypeOK, WindowTypeOK,
     CallerTypeOK, SizeAccounting, Positions, Buffered, InEngine, Unknown
<1> QED
  BY <1>4, <1>6, <1>7, <1>8, <1>9 DEF Account, TypeOK

LEMMA AfterDecodeAccount ==
  ASSUME Account, AfterDecode
  PROVE  Account'
<1>1. WindowTypeOK'
  BY DEF AfterDecode, window, geometry, history, Account, TypeOK, WindowTypeOK, Slots
<1>2. pc = "decoded" /\ pc' \in {"loop", "ready"}
  BY DEF AfterDecode, Return
<1>3. EngineTypeOK'
  BY <1>2 DEF AfterDecode, window, engine, geometry, Account, TypeOK, EngineTypeOK,
         InEngine
<1>4. size' = IF size0 = Unknown THEN Unknown ELSE size0 - outPos
  BY <1>2, Constants DEF AfterDecode, Charged, Account, TypeOK, WindowTypeOK, CallerTypeOK, SizeAccounting, InEngine, Unknown, Buffered
<1>5. /\ result' \in [n : 0 .. MaxRead,
                      err : {"none", "nil", "EOF", "ErrData", "io", "init"}]
      /\ errors' \in Nat
  BY DEF AfterDecode, Return, Account, TypeOK, EngineTypeOK, CallerTypeOK
<1>6. CallerTypeOK'
  BY <1>4, <1>5, Constants DEF AfterDecode, stream, origin, Account, TypeOK, WindowTypeOK, CallerTypeOK, SizeAccounting, Unknown
<1>7. FlagsTypeOK'
  BY DEF AfterDecode, history, stream, Account, TypeOK, FlagsTypeOK
<1>8. SizeAccounting' /\ Positions'
  BY <1>2, <1>4 DEF AfterDecode, window, engine, geometry, origin, Account,
     SizeAccounting, Positions, Buffered, InEngine
<1> QED
  BY <1>1, <1>3, <1>6, <1>7, <1>8 DEF Account, TypeOK

----------------------------------------------------------------------------
(* The engines: what EngineProofs says of them, for this reader. *)

LEMMA AccountCore ==
  ASSUME Account
  PROVE  Core
<1>1. dicBufSize \in Nat \ {0} /\ dicBufSize < Word
  BY Constants, DecoderAssumption
     DEF DecoderAssumption, Account, TypeOK, WindowTypeOK
<1>2. CoreWindow
  BY <1>1 DEF Account, TypeOK, WindowTypeOK, CoreWindow
<1>3. CoreControl
  BY DEF Account, TypeOK, EngineTypeOK, CoreControl
<1> QED
  BY <1>2, <1>3 DEF Account, TypeOK, FlagsTypeOK, Core, CoreFlags

\* A step of an engine leaves the caller's side alone.
LEMMA EngineAccount ==
  ASSUME Account, Engine \/ Marking, UNCHANGED <<stream, caller, origin>>
  PROVE  Account'
<1>1. UNCHANGED <<stream, caller, origin>> /\ (Engine \/ Marking)
  OBVIOUS
<1>2. Core /\ Core' /\ InStep
  BY <1>1, AccountCore, EngineCore
<1>3. PICK n \in Nat : /\ dicPos' = dicPos + n /\ outPos' = outPos + n
                       /\ outPos + n \in Nat
  BY <1>2, StepSize
<1>4. WindowTypeOK'
  BY <1>2 DEF Account, TypeOK, WindowTypeOK, Core, CoreWindow, InStep, geometry,
     Slots
<1>5. EngineTypeOK'
  BY <1>2 DEF Core, CoreControl, InStep, InEngine, EngineTypeOK
<1>6. FlagsTypeOK'
  BY <1>1, <1>2 DEF Account, TypeOK, FlagsTypeOK, Core, CoreFlags, stream
<1>7. CallerTypeOK'
  BY <1>1 DEF stream, caller, origin, Account, TypeOK, CallerTypeOK
<1>8. /\ dicPos + n <= limit /\ limit' = limit /\ limit \in Int
      /\ dicPos \in Nat /\ outPos \in Nat /\ readPos \in Nat
      /\ readPos' = readPos
  BY <1>2, <1>3, Constants DEF Core, CoreWindow, CoreControl, InStep, geometry
<1>9. UNCHANGED <<want, total, size0>>
  BY <1>1 DEF caller, origin
<1>10. Positions'
  <2>1. size0 # Unknown => (outPos + n) + (limit - (dicPos + n)) <= size0
    BY <1>2, <1>8 DEF Account, Positions, InStep
  <2>2. dicPos + n <= outPos + n
    BY <1>8 DEF Account, Positions
  <2> QED
    BY <1>2, <1>3, <1>8, <1>9, <2>1, <2>2 DEF Account, Positions, InStep
<1>11. SizeAccounting'
  <2>1. size0 # Unknown => outPos + n <= size0
    BY <1>2, <1>8, Constants DEF Account, TypeOK, CallerTypeOK, Positions,
       InStep, Unknown
  <2>2. outPos' - Buffered' = outPos - Buffered
    BY <1>3, <1>8 DEF Buffered
  <2>3. size' = size /\ delivered' = delivered
    BY <1>1 DEF stream, caller
  <2> QED
    BY <1>2, <1>3, <1>9, <2>1, <2>2, <2>3 DEF Account, SizeAccounting, InStep
<1> QED
  BY <1>4, <1>5, <1>6, <1>7, <1>10, <1>11 DEF Account, TypeOK

\* So does losing the place in the input.
LEMMA StrayAccount ==
  ASSUME Account, Stray, UNCHANGED <<stream, caller, origin>>
  PROVE  Account'
<1>1. WindowTypeOK'
  BY StrayKeeps DEF Account, TypeOK, WindowTypeOK, Slots
<1>2. EngineTypeOK'
  BY StrayKeeps DEF Account, TypeOK, EngineTypeOK, InEngine
<1>3. CallerTypeOK'
  BY DEF stream, caller, origin, Account, TypeOK, CallerTypeOK
<1>4. FlagsTypeOK'
  BY StrayKeeps DEF stream, Account, TypeOK, FlagsTypeOK
<1>5. SizeAccounting'
  BY StrayKeeps DEF stream, caller, origin, Account, SizeAccounting, Buffered
<1>6. Positions'
  BY StrayKeeps DEF caller, origin, Account, Positions
<1> QED
  BY <1>1, <1>2, <1>3, <1>4, <1>5, <1>6 DEF Account, TypeOK

LEMMA DecodeStepAccount ==
  ASSUME Account, DecodeStep
  PROVE  Account'
BY EngineAccount, StrayAccount DEF DecodeStep, Marking, PastInput

----------------------------------------------------------------------------
(* Every step, and the theorems. *)

LEMMA StutterAccount ==
  ASSUME Account, UNCHANGED vars
  PROVE  Account'
<1> USE DEF vars, coreVars, window, engine, geometry, stream, caller, origin
<1>1. WindowTypeOK'
  BY DEF Account, TypeOK, WindowTypeOK, Slots
<1>2. EngineTypeOK'
  BY DEF Account, TypeOK, EngineTypeOK, InEngine
<1>3. CallerTypeOK'
  BY DEF Account, TypeOK, CallerTypeOK
<1>4. FlagsTypeOK'
  BY DEF Account, TypeOK, FlagsTypeOK
<1>5. SizeAccounting' /\ Positions'
  BY DEF Account, SizeAccounting, Positions, Buffered, InEngine
<1> QED
  BY <1>1, <1>2, <1>3, <1>4, <1>5 DEF Account, TypeOK

LEMMA NextAccount ==
  ASSUME Wide, Account, [Next]_vars
  PROVE  Account'
<1>1. CASE Call
  BY <1>1, ReadAccount, CallAccount DEF Call
<1>2. CASE Reuse
  BY <1>2, ResetAccount DEF Reuse
<1>3. CASE InCall
  BY <1>3, DecodeStepAccount, LoopCopyAccount, ReadDoneAccount, DecodeAccount,
     AfterDecodeAccount DEF InCall
<1>4. CASE UNCHANGED vars
  BY <1>4, StutterAccount
<1> QED
  BY <1>1, <1>2, <1>3, <1>4 DEF Next

\* The indices that slice the dictionary stay within it and every variable
\* keeps its type, whatever the input (decoder.go:125-192, 207-577;
\* lzmadec_amd64.go:40-145).
THEOREM TypeCorrect ==
  ASSUME Wide PROVE Spec => []TypeOK
<1>1. Init => Account
  BY InitAccount
<1>2. Account /\ [Next]_vars => Account'
  BY NextAccount
<1>3. Account => TypeOK
  BY DEF Account
<1> QED
  BY <1>1, <1>2, <1>3, PTL DEF Spec

\* Whatever the input: no byte is decoded beyond the declared size, size
\* counts every decoded byte down once, also when an engine fails, and each
\* decoded byte is either still buffered or was handed over, once
\* (decoder.go:126-130, 142-148, 157-176).
THEOREM SizesAccounted ==
  ASSUME Wide PROVE Spec => []SizeAccounting
<1>1. Init => Account
  BY InitAccount
<1>2. Account /\ [Next]_vars => Account'
  BY NextAccount
<1>3. Account => SizeAccounting
  BY DEF Account
<1> QED
  BY <1>1, <1>2, <1>3, PTL DEF Spec

-----------------------------------------------------------------------------
(* The stream that was encoded. *)

\* The steps of Read outside the engines.
Outside ==
  \/ \E n \in 0 .. MaxRead :
       ReadBuffered(n) \/ ReadAtEnd(n) \/ InitFails(n) \/ ReadBegin(n)
  \/ LoopStep \/ ReadDone \/ Decode \/ AfterDecode

\* They leave the stream as the engines left it, but for Wrap.
Quiet ==
  /\ UNCHANGED <<dic, processedPos, checkDicSize, remainLen, outPos,
                 dicBufSize, propDicSize, base, conforming, state, reps, coded>>
  /\ tainted' \in {tainted, TRUE}
  /\ pc' \in {"ready", "loop", "decode"}

LEMMA OutsideQuiet ==
  ASSUME Outside
  PROVE  Quiet
<1> USE DEF Quiet, window, engine, geometry, history, Return
<1>1. CASE \E n \in 0 .. MaxRead : ReadBuffered(n)
  BY <1>1 DEF ReadBuffered
<1>2. CASE \E n \in 0 .. MaxRead : ReadAtEnd(n)
  BY <1>2 DEF ReadAtEnd
<1>3. CASE \E n \in 0 .. MaxRead : InitFails(n)
  BY <1>3 DEF InitFails
<1>4. CASE \E n \in 0 .. MaxRead : ReadBegin(n)
  BY <1>4 DEF ReadBegin
<1>5. CASE LoopStep
  BY <1>5 DEF LoopStep, LoopCopy
<1>6. CASE ReadDone
  BY <1>6 DEF ReadDone
<1>7. CASE Decode
  BY <1>7 DEF Decode
<1>8. CASE AfterDecode
  BY <1>8 DEF AfterDecode
<1> QED
  BY <1>1, <1>2, <1>3, <1>4, <1>5, <1>6, <1>7, <1>8 DEF Outside

----------------------------------------------------------------------------
(* Whatever the input: distances that are accepted lie within the stream.  *)

\* The dictionary is marked full only when it is full (FullDic), which takes
\* that no byte of a match is forgotten (Owed) and that processedPos, whose
\* 32 bits may wrap, never runs ahead (Behind).
Bounded == Account /\ Owed /\ Behind /\ FullDic

LEMMA InitBounded == Init => Bounded
<1> SUFFICES ASSUME Init PROVE Bounded
  OBVIOUS
<1>1. Owed /\ Behind /\ FullDic
  BY DEF Init, Owed, Behind, FullDic
<1> QED
  BY <1>1, InitAccount DEF Bounded

LEMMA NextBounded ==
  ASSUME Wide, Bounded, [Next]_vars
  PROVE  Bounded'
<1>1. Account'
  BY NextAccount DEF Bounded
<1>2. CASE Outside
  <2>1. Quiet
    BY <1>2, OutsideQuiet
  <2>2. Owed' /\ Behind' /\ FullDic'
    BY <2>1 DEF Quiet, Bounded, Owed, Behind, FullDic, Pend
  <2> QED
    BY <1>1, <2>2 DEF Bounded
<1>3. CASE Reuse
  <2>1. /\ checkDicSize' = 0 /\ processedPos' = 0 /\ outPos' = 0 /\ base' = 0
        /\ pc' = "ready"
    BY <1>3 DEF Reuse, Reset
  <2>2. Owed' /\ Behind' /\ FullDic'
    BY <2>1 DEF Owed, Behind, FullDic
  <2> QED
    BY <1>1, <2>2 DEF Bounded
<1>4. CASE DecodeStep /\ ~Stray
  <2>1. Core /\ (Engine \/ Marking)
    BY <1>4, AccountCore DEF DecodeStep, Bounded, Marking, PastInput
  <2>2. Core' /\ InStep
    BY <2>1, EngineCore
  <2>3. Counts /\ Owed'
    BY <2>1, EngineCounts DEF Bounded
  <2>4. PICK o \in Nat : outPos' = o /\ outPos <= o
    BY <2>1, <2>2, StepSize DEF Core, CoreWindow
  <2>5. PICK c \in Nat : coded' = c /\ coded <= c
    <3>1. coded' = coded \/ coded' \in coded .. (coded + SpecLen)
      BY <2>1, EngineReads
    <3>2. coded \in Nat /\ SpecLen \in Nat
      BY <2>1, CoreConstants DEF Core, CoreWindow
    <3>3. PICK c \in coded .. (coded + SpecLen) : coded' = c
      BY <3>1, <3>2
    <3> QED
      BY <3>2, <3>3
  <2>6. remainLen' \in Nat /\ UNCHANGED <<base, dicBufSize>>
    BY <2>2, CoreConstants DEF Core, CoreWindow, InStep, geometry
  <2>7. Behind' /\ (FullDic => FullDic')
    BY <2>1, <2>3, <2>4, <2>5, <2>6, CountsKept DEF Bounded
  <2> QED
    BY <1>1, <2>3, <2>7 DEF Bounded
<1>5. CASE UNCHANGED vars
  <2>1. UNCHANGED <<checkDicSize, remainLen, processedPos, outPos, base, dicBufSize, pc,
                    dicPos, limit>>
    BY <1>5 DEF vars, coreVars, window, engine, geometry
  <2>2. Owed' /\ Behind' /\ FullDic'
    BY <2>1 DEF Bounded, Owed, Behind, FullDic, Pend
  <2> QED
    BY <1>1, <2>2 DEF Bounded
<1>6. CASE Stray
  BY <1>1, <1>6, StrayBounds DEF Bounded
<1> QED
  BY <1>2, <1>3, <1>4, <1>5, <1>6 DEF Next, Call, InCall, Outside

\* Whatever the input, whatever errors the caller reads on after, and with
\* engines that alternate anywhere: the limit that an engine compares a new
\* distance with never reaches behind the start of the stream
\* (decoder.go:120, 502-509, 514; lzmadec_amd64.go:82-87, 123).  Of the
\* distances that a symbol repeats, which are compared with nothing
\* (decoder.go:345-364), it says nothing.
THEOREM NewDistancesInStream ==
  ASSUME Wide PROVE Spec => []NewDistanceInStream
<1>1. Init => Bounded
  BY InitBounded
<1>2. Bounded /\ [Next]_vars => Bounded'
  BY NextBounded
<1>3. Bounded => NewDistanceInStream
  BY AccountCore, AcceptedWithin DEF Bounded
<1> QED
  BY <1>1, <1>2, <1>3, PTL DEF Spec

----------------------------------------------------------------------------
(* An encoder's stream: every byte is in its place.                        *)

InPlace == Bounded /\ Exact

LEMMA InitInPlace == Init => InPlace
<1> SUFFICES ASSUME Init PROVE InPlace
  OBVIOUS
<1>0. Bounded
  BY InitBounded
<1>1. Tags
  <2>1. PICK b \in Nat \ {0} : dicBufSize = b
    BY <1>0, Constants DEF Bounded, Account, TypeOK, WindowTypeOK
  <2>2. outPos = 0 /\ base = 0 /\ dicPos = 0
    BY DEF Init
  <2> QED
    BY <2>1, <2>2 DEF Tags, At, Slots
<1>2. Known /\ Linked /\ Context
  BY <1>0, CoreConstants DEF Init, Known, Linked, Context, Pend, Bounded, numLitStates
<1> QED
  BY <1>0, <1>1, <1>2 DEF InPlace, Exact

LEMMA OutsideExact ==
  ASSUME InPlace, Outside
  PROVE  Exact'
<1>1. Quiet
  BY OutsideQuiet
<1>2. Trusted' => Trusted
  BY <1>1 DEF Quiet, Trusted
<1>3. Core
  BY AccountCore DEF InPlace, Bounded
<1>4. Tags'
  <2>1. CASE Decode
    <3>1. UNCHANGED <<dic, outPos, base, dicBufSize, conforming, tainted>>
      BY <2>1 DEF Decode, history
    <3>2. Wrap /\ Buffered = 0
      BY <2>1 DEF Decode
    <3> QED
      BY <1>3, <3>1, <3>2, WrapTags DEF InPlace, Exact
  <2>2. CASE ~Decode
    <3>1. dicPos' = dicPos
      BY <2>2 DEF Outside, ReadBuffered, ReadAtEnd, InitFails, ReadBegin, LoopStep,
         LoopCopy, ReadDone, AfterDecode, window
    <3> QED
      BY <1>1, <1>2, <3>1 DEF InPlace, Exact, Tags, At, Quiet, Slots
  <2> QED
    BY <2>1, <2>2
<1>5. Known' /\ Linked' /\ Context'
  BY <1>1, <1>2 DEF Quiet, InPlace, Exact, Known, FullDic, Linked, Context, InWindow, Pend
<1> QED
  BY <1>4, <1>5 DEF Exact

LEMMA ReuseExact ==
  ASSUME Reuse, Bounded'
  PROVE  Exact'
<1>1. /\ outPos' = 0 /\ base' = 0 /\ dicPos' = 0 /\ coded' = 0
      /\ remainLen' = 0 /\ processedPos' = 0 /\ state' = 0 /\ checkDicSize' = 0
  BY DEF Reuse, Reset
<1>2. PICK b \in Nat \ {0} : dicBufSize' = b
  BY Constants DEF Bounded, Account, TypeOK, WindowTypeOK
<1>3. Tags'
  BY <1>1, <1>2 DEF Tags, At, Slots
<1>4. Known' /\ Linked' /\ Context'
  BY <1>1, CoreConstants DEF Known, FullDic, Linked, Context, Pend, numLitStates
<1> QED
  BY <1>3, <1>4 DEF Exact

LEMMA NextInPlace ==
  ASSUME Wide, Below4GiB, InPlace, [Next]_vars
  PROVE  InPlace'
<1>1. Bounded'
  BY NextBounded DEF InPlace
<1>2. CASE Outside
  BY <1>1, <1>2, OutsideExact DEF InPlace
<1>3. CASE Reuse
  BY <1>1, <1>3, ReuseExact DEF InPlace
<1>4. CASE DecodeStep
  <2>1. CASE Engine \/ Marking
    BY <1>1, <2>1, AccountCore, EngineExact DEF InPlace, Bounded
  <2>2. CASE Stray
    BY <1>1, <2>2, StrayExact DEF InPlace
  <2> QED
    BY <1>4, <2>1, <2>2 DEF DecodeStep, Marking, PastInput
<1>5. CASE UNCHANGED vars
  <2>1. Exact'
    BY <1>5 DEF vars, coreVars, window, engine, geometry, InPlace, Exact, Tags, At, Known,
       FullDic, Linked, Context, InWindow, Pend, Trusted, Slots
  <2> QED
    BY <1>1, <2>1 DEF InPlace
<1> QED
  BY <1>2, <1>3, <1>4, <1>5 DEF Next, Call, InCall, Outside

\* On an encoder's stream below 4 GiB, as long as its place in the input is
\* not lost, no engine refuses a distance that an encoder may use
\* (decoder.go:502; lzmadec_amd64.go:82-87).
THEOREM LegalNeverRefused ==
  ASSUME Wide, Below4GiB PROVE Spec => []LegalDistanceAccepted
<1>1. Init => InPlace
  BY InitInPlace
<1>2. InPlace /\ [Next]_vars => InPlace'
  BY NextInPlace
<1>3. InPlace => LegalDistanceAccepted
  BY AccountCore, LegalAccepted DEF InPlace, Bounded, Exact
<1> QED
  BY <1>1, <1>2, <1>3, PTL DEF Spec

\* A step that hands bytes over hands over the next ones.
LEMMA StepInOrder ==
  ASSUME InPlace, [Next]_vars, delivered' # delivered
  PROVE  delivered' > delivered =>
           \A i \in 0 .. (delivered' - delivered - 1) :
             dic[readPos + i] \in {delivered + i} \cup
                                  (IF conforming /\ ~tainted THEN {} ELSE {Garbage})
<1>1. Core /\ delivered = outPos - Buffered /\ Tags
  BY AccountCore DEF InPlace, Bounded, Account, SizeAccounting, Exact
<1>2. CASE \E n \in 0 .. MaxRead : ReadBuffered(n)
  <2>1. PICK n \in 0 .. MaxRead : ReadBuffered(n)
    BY <1>2
  <2>2. /\ Lesser(n, Buffered) \in Nat /\ Lesser(n, Buffered) <= Buffered
        /\ delivered' = delivered + Lesser(n, Buffered)
    BY <1>1, <2>1 DEF ReadBuffered, Copy, Lesser, Buffered, Core, CoreWindow
  <2> QED
    BY <1>1, <2>2, DeliveredInOrder
<1>3. CASE LoopStep
  <2>1. /\ Lesser(want, Buffered) \in Nat /\ Lesser(want, Buffered) <= Buffered
        /\ delivered' = delivered + Lesser(want, Buffered)
    BY <1>1, <1>3 DEF LoopStep, LoopCopy, Copy, Lesser, Buffered, Core, CoreWindow,
       InPlace, Bounded, Account, TypeOK, CallerTypeOK
  <2> QED
    BY <1>1, <2>1, DeliveredInOrder
<1>4. CASE Reuse
  <2>1. delivered' = 0 /\ delivered \in Nat
    BY <1>4 DEF Reuse, Reset, InPlace, Bounded, Account, TypeOK, CallerTypeOK
  <2> QED
    BY <2>1
<1>5. ASSUME ~(\E n \in 0 .. MaxRead : ReadBuffered(n)), ~LoopStep, ~Reuse
      PROVE  delivered' = delivered
  BY <1>5 DEF Next, Call, InCall, ReadAtEnd, InitFails, ReadBegin, DecodeStep, ReadDone,
     Decode, AfterDecode, caller, vars
<1> QED
  BY <1>2, <1>3, <1>4, <1>5

\* On an encoder's stream below 4 GiB byte number k of the output is what
\* the caller gets as number k, with engines that alternate in the middle of
\* matches, a dictionary that wraps and is reused, and reads of any size;
\* and after a failed symbol, once the place in the input is lost, or on other
\* input, no right byte comes at a wrong place
\* (decoder.go:97-118, 126-155, 262-276, 424-552).
THEOREM BytesInOrder ==
  ASSUME Wide, Below4GiB PROVE Spec => InOrderDelivery
<1>1. Init => InPlace
  BY InitInPlace
<1>2. InPlace /\ [Next]_vars => InPlace'
  BY NextInPlace
<1>3. InPlace /\ [Next]_vars =>
        [delivered' > delivered =>
           \A i \in 0 .. (delivered' - delivered - 1) :
             dic[readPos + i] \in {delivered + i} \cup
                                  (IF conforming /\ ~tainted THEN {} ELSE {Garbage})]_delivered
  BY StepInOrder
<1> QED
  BY <1>1, <1>2, <1>3, PTL DEF Spec, InOrderDelivery
----------------------------------------------------------------------------
(* The end of the stream.                                                  *)

\* An encoder's stream that declares its size meets no end marker, and no
\* engine runs once the end is noticed.
Marker ==
  /\ eos => ~InEngine
  /\ Trusted /\ size0 # Unknown =>
       /\ remainLen # SpecLen
       /\ InEngine /\ pc # "decode" => derr # "EOF"

Finished == Bounded /\ Marker /\ EofAtDeclaredSize

LEMMA InitFinished == Init => Finished
<1> SUFFICES ASSUME Init PROVE Finished
  OBVIOUS
<1>1. Bounded
  BY InitBounded
<1>2. Marker /\ EofAtDeclaredSize
  BY CoreConstants DEF Init, Marker, InEngine, EofAtDeclaredSize
<1> QED
  BY <1>1, <1>2 DEF Finished

\* Without a marker the end is noticed when the declared size is decoded.
LEMMA DecodeEnds ==
  ASSUME Wide, Account, Decode
  PROVE  eos' => eos \/ (size0 # Unknown /\ outPos = size0)
<1>1. size0 # Unknown => size0 \in Nat /\ size0 <= IntMax
  BY Constants DEF Wide, Account, TypeOK, CallerTypeOK, Unknown
<1>2. size # Unknown => size = size0 - outPos /\ size \in Nat /\ size0 # Unknown
  BY Constants DEF Decode, Account, TypeOK, CallerTypeOK, SizeAccounting, InEngine, Unknown
<1>3. size # Unknown => ToInt(size) = size
  BY <1>1, <1>2, Constants DEF ToInt, Account, TypeOK, WindowTypeOK
<1>4. eos' => eos \/ (size # Unknown /\ size <= 0)
  BY <1>3 DEF Decode
<1> QED
  BY <1>1, <1>2, <1>4 DEF Account, TypeOK, WindowTypeOK

LEMMA OutsideFinished ==
  ASSUME Wide, Finished, Outside
  PROVE  Marker' /\ EofAtDeclaredSize'
<1>1. Quiet /\ size0' = size0
  BY OutsideQuiet DEF Outside, ReadBuffered, ReadAtEnd, InitFails, ReadBegin, LoopStep,
     ReadDone, Decode, AfterDecode, origin
<1>2. Trusted' => Trusted
  BY <1>1 DEF Quiet, Trusted
<1>3. pc' \in {"ready", "loop"} \/ (pc' = "decode" /\ eos' = FALSE)
  BY <1>1 DEF Quiet, Outside, ReadBuffered, ReadAtEnd, InitFails, ReadBegin, Return,
     LoopStep, LoopCopy, ReadDone, Decode, AfterDecode, Finished, Bounded, Account, TypeOK,
     FlagsTypeOK
<1>4. Marker'
  BY <1>1, <1>2, <1>3 DEF Quiet, Marker, Finished, InEngine
<1>5. eos' => \/ eos
              \/ outPos = size0
              \/ Trusted => size0 = Unknown
  <2>1. CASE Decode
    BY <2>1, DecodeEnds DEF Finished, Bounded
  <2>2. CASE AfterDecode
    <3>1. eos' => eos \/ derr = "EOF"
      BY <2>2 DEF AfterDecode
    <3>2. pc = "decoded"
      BY <2>2 DEF AfterDecode
    <3> QED
      BY <3>1, <3>2 DEF Finished, Marker, InEngine
  <2>3. CASE ~Decode /\ ~AfterDecode
    BY <2>3 DEF Outside, ReadBuffered, ReadAtEnd, InitFails, ReadBegin, LoopStep,
       ReadDone, stream
  <2> QED
    BY <2>1, <2>2, <2>3
<1>6. EofAtDeclaredSize'
  BY <1>1, <1>2, <1>5 DEF Quiet, Finished, EofAtDeclaredSize, Trusted
<1> QED
  BY <1>4, <1>6

LEMMA NextFinished ==
  ASSUME Wide, Finished, [Next]_vars
  PROVE  Finished'
<1>1. Bounded'
  BY NextBounded DEF Finished
<1>2. CASE Outside
  BY <1>1, <1>2, OutsideFinished DEF Finished
<1>3. CASE Reuse
  <2>1. eos' = FALSE /\ remainLen' = 0 /\ pc' = "ready"
    BY <1>3 DEF Reuse, Reset
  <2> QED
    BY <1>1, <2>1, CoreConstants DEF Finished, Marker, InEngine, EofAtDeclaredSize
<1>4. CASE DecodeStep /\ ~Stray
  <2>1. Core /\ Owed /\ (Engine \/ Marking)
    BY <1>4, AccountCore DEF DecodeStep, Finished, Bounded, Marking, PastInput
  <2>2. InEngine /\ InEngine' /\ conforming' = conforming
    BY <2>1, EngineCore DEF InStep, geometry
  <2>3. eos = FALSE /\ eos' = FALSE /\ size0' = size0
    BY <1>4, <2>2 DEF DecodeStep, stream, origin, Finished, Marker, Bounded, Account, TypeOK,
       FlagsTypeOK
  <2>4. Trusted' => Trusted
    <3>1. tainted' = FALSE => tainted = FALSE
      BY <2>1, EngineReads
    <3>2. tainted \in BOOLEAN /\ tainted' \in BOOLEAN
      BY <1>1 DEF Finished, Bounded, Account, TypeOK, FlagsTypeOK
    <3> QED
      BY <2>2, <3>1, <3>2 DEF Trusted
  <2>5. CASE Engine
    BY <1>1, <2>1, <2>2, <2>3, <2>4, <2>5, EngineEnds
       DEF Finished, Marker, EofAtDeclaredSize
  <2>6. CASE Marking /\ ~Engine
    <3>1. Trusted' => size0 = Unknown
      BY <1>4, <2>2, <2>6 DEF DecodeStep, Trusted, PastInput
    <3>2. PICK ok \in BOOLEAN : EndMarker(ok)
      BY <2>6 DEF Marking
    <3> QED
      BY <1>1, <2>2, <2>3, <3>1, <3>2
         DEF EndMarker, Finished, Marker, EofAtDeclaredSize, Trusted
  <2> QED
    BY <2>1, <2>5, <2>6
<1>5. CASE UNCHANGED vars
  BY <1>1, <1>5 DEF vars, coreVars, window, engine, geometry, stream, origin, Finished,
     Marker, InEngine, Trusted, EofAtDeclaredSize
<1>6. CASE DecodeStep /\ Stray
  BY <1>1, <1>6, StrayKeeps DEF DecodeStep, stream, Finished, Marker, EofAtDeclaredSize
<1> QED
  BY <1>2, <1>3, <1>4, <1>5, <1>6 DEF Next, Call, InCall, Outside

\* An encoder's stream of declared size whose symbols all decode, its place in
\* the input never lost, is reported finished only when all its bytes are
\* decoded, however the errors of its
\* source and the caller's retries fall (decoder.go:133-140, 157-184).
THEOREM FinishedAtSize ==
  ASSUME Wide PROVE Spec => []EofAtDeclaredSize
<1>1. Init => Finished
  BY InitFinished
<1>2. Finished /\ [Next]_vars => Finished'
  BY NextFinished
<1>3. Finished => EofAtDeclaredSize
  BY DEF Finished
<1> QED
  BY <1>1, <1>2, <1>3, PTL DEF Spec
----------------------------------------------------------------------------
(* The reader implements the byte stream.                                  *)

\* When io.EOF is reported, and when an error.
Reporting ==
  /\ result.err = "EOF" => pc = "ready" /\ eos /\ Buffered = 0
  /\ InEngine => want > 0
  /\ pc = "loop" /\ want = 0 /\ total = 0 => ~eos
  /\ tainted /\ errors = 0 => Failing

Reader == Finished /\ Reporting

\* The refinement mapping, by name.
Declared == IF conforming THEN size0 ELSE Unknown
Status == IF errors > 0 /\ tainted THEN "failed"
          ELSE IF result.err = "EOF" THEN "reported"
          ELSE IF eos THEN "ended" ELSE "open"

StreamStep == [Stream!Next]_(Stream!vars)

LEMMA ReaderTypes ==
  ASSUME Reader
  PROVE  /\ errors \in Nat /\ outPos \in Nat /\ delivered \in Nat
         /\ Buffered \in Nat /\ delivered = outPos - Buffered
         /\ tainted \in BOOLEAN /\ eos \in BOOLEAN
         /\ want \in Nat /\ total \in Nat
         /\ Declared \in Nat \cup {Unknown}
         /\ Declared # Unknown => outPos <= Declared /\ Declared = size0
         /\ derr \in {"nil", "EOF", "ErrData", "io"}
  BY Constants DEF Reader, Finished, Bounded, Account, TypeOK, WindowTypeOK, EngineTypeOK,
     CallerTypeOK, FlagsTypeOK, SizeAccounting, Buffered, Declared, Unknown

\* A step that the caller of the stream does not see.
LEMMA Unseen ==
  ASSUME UNCHANGED <<Declared, outPos, delivered, Status>>
  PROVE  StreamStep
  BY DEF StreamStep, Stream!vars, Declared, Status

\* Bytes are made, or the stream fails, or is used on after it failed.
LEMMA Made ==
  ASSUME UNCHANGED <<Declared, delivered>>, delivered \in Nat, delivered <= outPos,
         outPos \in Nat, NEW o \in Nat, outPos' = o, outPos <= o,
         Declared # Unknown => o <= Declared,
         \/ Status = "open" /\ Status' \in {"open", "failed"}
         \/ Status = "failed" /\ Status' = "failed"
  PROVE  StreamStep
<1>1. CASE Status = "open" /\ Status' = "open"
  <2>1. CASE o = outPos
    BY <1>1, <2>1, Unseen
  <2>2. CASE o > outPos
    <3>1. Stream!Make
      BY <1>1, <2>2 DEF Stream!Make, Declared, Status
    <3> QED
      BY <3>1 DEF StreamStep, Stream!Next
  <2> QED
    BY <2>1, <2>2
<1>2. CASE Status = "open" /\ Status' = "failed"
  <2>1. Stream!Fail
    BY <1>2 DEF Stream!Fail, Declared, Status
  <2> QED
    BY <2>1 DEF StreamStep, Stream!Next
<1>3. CASE Status = "failed" /\ Status' = "failed"
  <2>1. Stream!UseOn
    BY <1>3 DEF Stream!UseOn, Declared, Status
  <2> QED
    BY <2>1 DEF StreamStep, Stream!Next
<1> QED
  BY <1>1, <1>2, <1>3

\* Bytes are handed over.
LEMMA Given ==
  ASSUME Reader, UNCHANGED <<Declared, outPos, Status>>, Status # "reported",
         NEW n \in Nat, n <= Buffered, delivered' = delivered + n
  PROVE  StreamStep
<1>1. CASE n = 0
  BY <1>1, ReaderTypes, Unseen
<1>2. CASE n > 0
  <2>1. delivered + n \in Nat /\ delivered < delivered + n /\ delivered + n <= outPos
    BY <1>2, ReaderTypes
  <2>2. Stream!Give
    BY <2>1 DEF Stream!Give, Declared, Status
  <2> QED
    BY <2>2 DEF StreamStep, Stream!Next
<1> QED
  BY <1>1, <1>2

\* The end is noticed.
LEMMA Ended ==
  ASSUME UNCHANGED <<Declared, outPos, delivered>>,
         Status = "open", Status' = "ended", Declared # Unknown => outPos = Declared
  PROVE  StreamStep
<1>1. Stream!End
  BY DEF Stream!End, Declared, Status
<1> QED
  BY <1>1 DEF StreamStep, Stream!Next

\* The end is reported.
LEMMA Reported ==
  ASSUME UNCHANGED <<Declared, outPos, delivered>>, Status \in {"ended", "reported"},
         Status' = "reported", delivered = outPos
  PROVE  StreamStep
<1>1. CASE Status = "ended"
  <2>1. Stream!Report
    BY <1>1 DEF Stream!Report, Declared, Status
  <2> QED
    BY <2>1 DEF StreamStep, Stream!Next
<1>2. CASE Status = "reported"
  BY <1>2, Unseen
<1> QED
  BY <1>1, <1>2

\* Another stream is begun.
LEMMA Begun ==
  ASSUME Declared' \in Nat \cup {Unknown}, outPos' = 0, delivered' = 0, Status' = "open"
  PROVE  StreamStep
<1>1. Stream!Another
  BY DEF Stream!Another, Declared, Status
<1> QED
  BY <1>1 DEF StreamStep, Stream!Next

LEMMA InitReader == Init => Reader /\ Stream!Fresh
<1> SUFFICES ASSUME Init PROVE Reader /\ Stream!Fresh
  OBVIOUS
<1>1. Finished
  BY InitFinished
<1>2. Reporting
  BY DEF Init, InitialResult, Reporting, InEngine
<1>3. Stream!Fresh
  BY <1>1, Constants DEF Init, InitialResult, Stream!Fresh, Finished, Bounded, Account,
     TypeOK, CallerTypeOK, Unknown
<1> QED
  BY <1>1, <1>2, <1>3 DEF Reader

\* A step of an engine.
LEMMA EngineStream ==
  ASSUME Reader, Finished', DecodeStep, ~Stray
  PROVE  Reporting' /\ StreamStep
<1>1. Core /\ (Engine \/ Marking) /\ UNCHANGED <<stream, caller, origin>>
  BY AccountCore DEF DecodeStep, Reader, Finished, Bounded, Marking, PastInput
<1>2. Core' /\ InStep
  BY <1>1, EngineCore
<1>3. /\ InEngine /\ InEngine' /\ conforming' = conforming
      /\ UNCHANGED <<eos, want, total, result, delivered, errors, size0, Declared>>
  BY <1>1, <1>2 DEF InStep, geometry, stream, caller, origin, Declared
<1>4. eos = FALSE
  BY <1>3, ReaderTypes DEF Reader, Finished, Marker
<1>5. result.err # "EOF"
  BY <1>3 DEF Reader, Reporting, InEngine
<1>6. tainted' /\ errors = 0 => Failing'
  <2>1. SUFFICES ASSUME errors = 0 PROVE tainted' => Failing'
    OBVIOUS
  <2>2. tainted => Failing
    BY <2>1 DEF Reader, Reporting
  <2> QED
    BY <1>1, <2>2, EngineFailing
<1>7. Reporting'
  BY <1>3, <1>5, <1>6 DEF Reader, Reporting, InEngine
<1>8. tainted' = FALSE => tainted = FALSE
  BY <1>1, EngineReads
<1>9. tainted \in BOOLEAN /\ tainted' \in BOOLEAN
  BY <1>1, <1>2 DEF Core, CoreFlags
<1>10. /\ Status \in {"open", "failed"} /\ Status' \in {"open", "failed"}
       /\ Status = "failed" => Status' = "failed"
  BY <1>3, <1>4, <1>5, <1>8, <1>9 DEF Status
<1>11. PICK n \in Nat : outPos' = outPos + n /\ outPos + n \in Nat
  BY <1>1, <1>2, StepSize
<1>12. Declared # Unknown => outPos + n <= Declared
  <2>1. size0 # Unknown => outPos' <= size0
    BY <1>3 DEF Reader, Finished, Bounded, Account, SizeAccounting
  <2> QED
    BY <1>11, <2>1 DEF Declared
<1>13. StreamStep
  BY <1>3, <1>10, <1>11, <1>12, ReaderTypes, Made
<1> QED
  BY <1>7, <1>13

\* The place in the input is lost: what is read declares no size any more.
LEMMA StrayStream ==
  ASSUME Reader, DecodeStep, Stray
  PROVE  Reporting' /\ StreamStep
<1>1. UNCHANGED <<stream, caller, origin>>
  BY DEF DecodeStep
<1>2. /\ eos = FALSE /\ result.err # "EOF" /\ tainted = FALSE
      /\ UNCHANGED <<pc, eos, want, total, result, delivered, errors, outPos, tainted>>
  BY <1>1, StrayKeeps, ReaderTypes
     DEF Reader, Finished, Marker, Reporting, InEngine, stream, caller
<1>3. Reporting'
  BY <1>2, StrayKeeps DEF Reader, Reporting, InEngine
<1>4. Status = "open" /\ Status' = "open" /\ Declared' = Unknown
  BY <1>2, StrayKeeps DEF Status, Declared
<1>5. Stream!Misread
  BY <1>2, <1>4 DEF Stream!Misread, Declared, Status
<1> QED
  BY <1>3, <1>5 DEF StreamStep, Stream!Next

\* The copies to the caller.
LEMMA CopyStream ==
  ASSUME Reader, LoopStep \/ \E n \in 0 .. MaxRead : ReadBuffered(n)
  PROVE  Reporting' /\ StreamStep
<1>1. ASSUME NEW m \in Nat, m <= Buffered, delivered' = delivered + m, Buffered > 0,
             UNCHANGED <<eos, conforming, size0, errors, tainted, outPos>>,
             result'.err # "EOF"
      PROVE  StreamStep
  <2>1. result.err # "EOF"
    BY <1>1 DEF Reader, Reporting
  <2>2. UNCHANGED <<Declared, outPos, Status>> /\ Status # "reported"
    BY <1>1, <2>1 DEF Declared, Status
  <2> QED
    BY <1>1, <2>2, Given
<1>2. CASE LoopStep
  <2>1. /\ pc = "loop" /\ pc' = "loop" /\ Buffered > 0 /\ want > 0
        /\ Copy(want) /\ total' = total + Lesser(want, Buffered)
        /\ UNCHANGED <<eos, conforming, size0, errors, tainted, outPos, result>>
    BY <1>2 DEF LoopStep, LoopCopy, window, history, stream, origin
  <2>2. PICK m \in Nat \ {0} : Lesser(want, Buffered) = m /\ m <= Buffered
    BY <2>1, ReaderTypes DEF Lesser
  <2>4. delivered' = delivered + m
    BY <2>1, <2>2 DEF Copy
  <2>5. result.err # "EOF"
    BY <2>1 DEF Reader, Reporting
  <2>6. total' # 0
    BY <2>1, <2>2, ReaderTypes
  <2>7. tainted /\ errors = 0 => FALSE
    BY <2>1 DEF Reader, Reporting, Failing
  <2>8. Reporting'
    BY <2>1, <2>5, <2>6, <2>7 DEF Reporting, InEngine
  <2> QED
    BY <1>1, <2>1, <2>2, <2>4, <2>5, <2>8
<1>3. ASSUME NEW n \in 0 .. MaxRead, ReadBuffered(n)
      PROVE  Reporting' /\ StreamStep
  <2>1. /\ pc = "ready" /\ pc' = "ready" /\ Buffered > 0
        /\ Copy(n) /\ result'.err = "nil"
        /\ UNCHANGED <<eos, conforming, size0, errors, tainted, outPos>>
    BY <1>3 DEF ReadBuffered, Called, Return, window, history, stream, origin
  <2>2. PICK m \in Nat : Lesser(n, Buffered) = m /\ m <= Buffered
    BY <2>1, ReaderTypes DEF Lesser
  <2>4. delivered' = delivered + m
    BY <2>1, <2>2 DEF Copy
  <2>7. tainted /\ errors = 0 => FALSE
    BY <2>1 DEF Reader, Reporting, Failing
  <2>8. Reporting'
    BY <2>1, <2>7 DEF Reporting, InEngine
  <2> QED
    BY <1>1, <2>1, <2>2, <2>4, <2>8
<1> QED
  BY <1>2, <1>3

\* The steps of Read that report: nothing is made or handed over.
LEMMA ReportStream ==
  ASSUME Reader, ReadDone \/ \E n \in 0 .. MaxRead : ReadAtEnd(n)
  PROVE  Reporting' /\ StreamStep
<1>1. /\ pc \in {"loop", "ready"} /\ pc' = "ready"
      /\ UNCHANGED <<dicPos, readPos, eos, conforming, size0, errors, tainted, outPos, delivered,
                     want, total>>
  BY DEF ReadDone, ReadAtEnd, Called, Return, window, geometry, history, stream, origin
<1>2. UNCHANGED <<Declared, outPos, delivered>> /\ Buffered' = Buffered
  BY <1>1 DEF Declared, Buffered
<1>3. result'.err = "EOF" => eos /\ Buffered = 0
  BY DEF ReadDone, ReadAtEnd, Return, Reader, Reporting
<1>4. tainted /\ errors = 0 => FALSE
  BY <1>1 DEF Reader, Reporting, Failing
<1>5. Reporting'
  BY <1>1, <1>2, <1>3, <1>4 DEF Reporting, InEngine
<1>6. CASE result'.err = "EOF"
  <2>1. \/ Status = "failed" /\ Status' = "failed"
        \/ Status \in {"ended", "reported"} /\ Status' = "reported"
    BY <1>1, <1>3, <1>6 DEF Status
  <2>2. delivered = outPos
    BY <1>3, <1>6, ReaderTypes
  <2> QED
    BY <1>2, <1>5, <2>1, <2>2, Unseen, Reported
<1>7. CASE result'.err # "EOF"
  <2>1. pc = "loop"
    BY <1>7 DEF ReadDone, ReadAtEnd, Return
  <2>2. Status' = Status
    BY <1>1, <1>7, <2>1 DEF Status, Reader, Reporting
  <2> QED
    BY <1>2, <1>5, <2>2, Unseen
<1> QED
  BY <1>6, <1>7

\* A call that begins, or fails before its loop.
LEMMA BeginStream ==
  ASSUME Reader, \E n \in 0 .. MaxRead : InitFails(n) \/ ReadBegin(n)
  PROVE  Reporting' /\ StreamStep
<1>1. /\ pc = "ready" /\ pc' \in {"ready", "loop"} /\ eos = FALSE
      /\ UNCHANGED <<eos, conforming, size0, outPos, delivered>>
  BY ReaderTypes DEF InitFails, ReadBegin, Called, Return, window, engine, geometry, history, stream,
     origin
<1>2. result.err # "EOF"
  BY <1>1 DEF Reader, Reporting
<1>3. tainted /\ errors = 0 => FALSE
  BY <1>1 DEF Reader, Reporting, Failing
<1>4. CASE \E n \in 0 .. MaxRead : InitFails(n)
  <2>1. errors' = errors + 1 /\ result'.err = "init"
    BY <1>4 DEF InitFails, Return
  <2>2. errors' > 0
    BY <2>1, ReaderTypes
  <2>3. tainted => tainted'
    BY <1>4 DEF InitFails
  <2>4. Reporting'
    BY <1>1, <2>1, <2>2 DEF Reporting, InEngine
  <2>5. \/ Status = "open" /\ Status' \in {"open", "failed"}
        \/ Status = "failed" /\ Status' = "failed"
    BY <1>1, <1>2, <2>1, <2>2, <2>3 DEF Status
  <2>6. StreamStep
    BY <1>1, <2>5, ReaderTypes, Made DEF Declared
  <2> QED
    BY <2>4, <2>6
<1>5. CASE \E n \in 0 .. MaxRead : ReadBegin(n)
  <2>1. UNCHANGED <<errors, result, tainted>>
    BY <1>5 DEF ReadBegin, history
  <2>2. Reporting'
    BY <1>1, <1>2, <1>3, <2>1 DEF Reporting, InEngine
  <2>3. StreamStep
    BY <1>1, <2>1, Unseen DEF Declared, Status
  <2> QED
    BY <2>2, <2>3
<1> QED
  BY <1>4, <1>5

\* The end of a stream of declared size.
LEMMA DecodeStream ==
  ASSUME Wide, Reader, Decode
  PROVE  Reporting' /\ StreamStep
<1>1. /\ pc = "loop" /\ pc' \in {"loop", "decode"} /\ want > 0 /\ eos = FALSE
      /\ UNCHANGED <<conforming, size0, outPos, delivered, errors, tainted, result,
                     want, total>>
  BY ReaderTypes DEF Decode, caller, origin, history
<1>2. result.err # "EOF"
  BY <1>1 DEF Reader, Reporting
<1>3. tainted /\ errors = 0 => FALSE
  BY <1>1 DEF Reader, Reporting, Failing
<1>4. Reporting'
  BY <1>1, <1>2, <1>3, ReaderTypes DEF Reporting, InEngine
<1>5. UNCHANGED <<Declared, outPos, delivered>>
  BY <1>1 DEF Declared
<1>6. CASE eos' = FALSE
  <2>1. Status' = Status
    BY <1>1, <1>6 DEF Status
  <2> QED
    BY <1>4, <1>5, <2>1, Unseen
<1>7. CASE eos' # FALSE
  <2>1. eos' = TRUE
    BY <1>7, ReaderTypes DEF Decode
  <2>2. Declared # Unknown => outPos = Declared
    BY <1>1, <2>1, DecodeEnds DEF Declared, Reader, Finished, Bounded
  <2>3. \/ Status = "failed" /\ Status' = "failed"
        \/ Status = "open" /\ Status' = "ended"
    BY <1>1, <1>2, <2>1 DEF Status
  <2> QED
    BY <1>4, <1>5, <2>2, <2>3, Unseen, Ended
<1> QED
  BY <1>6, <1>7

\* What an engine returned: no error, io.EOF, or an error.
LEMMA AfterStream ==
  ASSUME Reader, AfterDecode
  PROVE  Reporting' /\ StreamStep
<1>1. /\ pc = "decoded" /\ want > 0 /\ eos = FALSE
      /\ UNCHANGED <<conforming, size0, outPos, delivered, tainted, want, total>>
  BY ReaderTypes DEF AfterDecode, Reader, Reporting, Finished, Marker, InEngine, window,
     geometry, history, origin
<1>2. result.err # "EOF"
  BY <1>1 DEF Reader, Reporting
<1>3. UNCHANGED <<Declared, outPos, delivered>>
  BY <1>1 DEF Declared
<1>4. tainted /\ errors = 0 => derr = "ErrData"
  BY <1>1 DEF Reader, Reporting, Failing
<1>5. CASE derr = "nil"
  <2>1. pc' = "loop" /\ UNCHANGED <<result, errors>> /\ eos' = FALSE
    BY <1>1, <1>5 DEF AfterDecode
  <2>2. Reporting'
    BY <1>1, <1>2, <1>4, <1>5, <2>1 DEF Reporting, InEngine
  <2>3. Status' = Status
    BY <1>1, <2>1 DEF Status
  <2> QED
    BY <1>3, <2>2, <2>3, Unseen
<1>6. CASE derr = "EOF"
  <2>1. pc' = "loop" /\ UNCHANGED <<result, errors>> /\ eos' = TRUE
    BY <1>1, <1>6 DEF AfterDecode
  <2>2. Reporting'
    BY <1>1, <1>2, <1>4, <1>6, <2>1, ReaderTypes DEF Reporting, InEngine
  <2>3. \/ Status = "failed" /\ Status' = "failed"
        \/ Status = "open" /\ Status' = "ended" /\ ~tainted
    BY <1>1, <1>2, <1>4, <1>6, <2>1, ReaderTypes DEF Status
  <2>4. ~tainted => Declared = Unknown
    BY <1>1, <1>6 DEF Reader, Finished, Marker, InEngine, Trusted, Declared
  <2> QED
    BY <1>3, <2>2, <2>3, <2>4, Unseen, Ended
<1>7. CASE derr \notin {"nil", "EOF"}
  <2>1. /\ pc' = "ready" /\ errors' = errors + 1 /\ result'.err = derr
        /\ eos' = FALSE
    <3>1. Return(total, derr)
      BY <1>7 DEF AfterDecode
    <3>2. derr # "EOF" /\ eos' = (FALSE \/ derr = "EOF")
      BY <1>1, <1>7 DEF AfterDecode
    <3> QED
      BY <1>7, <3>1, <3>2 DEF Return
  <2>2. errors' > 0 /\ errors \in Nat
    BY <2>1, ReaderTypes
  <2>3. Reporting'
    BY <1>7, <2>1, <2>2 DEF Reporting, InEngine
  <2>4. \/ Status = "open" /\ Status' \in {"open", "failed"}
        \/ Status = "failed" /\ Status' = "failed"
    BY <1>1, <1>2, <1>7, <2>1, <2>2 DEF Status
  <2> QED
    BY <1>3, <2>3, <2>4, ReaderTypes, Made
<1> QED
  BY <1>5, <1>6, <1>7

LEMMA ReuseStream ==
  ASSUME Reuse
  PROVE  Reporting' /\ StreamStep
<1>1. /\ pc' = "ready" /\ result' = InitialResult /\ errors' = 0
      /\ eos' = FALSE /\ outPos' = 0 /\ delivered' = 0 /\ size0' \in Sizes
      /\ tainted' = FALSE
  BY DEF Reuse, Reset
<1>2. result'.err # "EOF"
  BY <1>1 DEF InitialResult
<1>3. Reporting'
  BY <1>1, <1>2 DEF Reporting, InEngine
<1>4. Status' = "open" /\ Declared' \in Nat \cup {Unknown}
  BY <1>1, <1>2, Constants DEF Status, Declared, Unknown
<1> QED
  BY <1>1, <1>3, <1>4, Begun

LEMMA NextReader ==
  ASSUME Wide, Reader, [Next]_vars
  PROVE  Reader' /\ StreamStep
<1>1. Finished'
  BY NextFinished DEF Reader
<1>2. CASE Call
  BY <1>1, <1>2, CopyStream, ReportStream, BeginStream DEF Call, Reader
<1>3. CASE Reuse
  BY <1>1, <1>3, ReuseStream DEF Reader
<1>4. CASE InCall
  BY <1>1, <1>4, EngineStream, StrayStream, CopyStream, ReportStream, DecodeStream, AfterStream
     DEF InCall, Reader
<1>5. CASE UNCHANGED vars
  <2> USE DEF vars, coreVars, window, engine, geometry, history, stream, caller, origin
  <2>1. Reporting'
    BY <1>5 DEF Reader, Reporting, Failing, InEngine, Buffered
  <2>2. StreamStep
    BY <1>5, Unseen DEF Declared, Status
  <2> QED
    BY <1>1, <2>1, <2>2 DEF Reader
<1> QED
  BY <1>2, <1>3, <1>4, <1>5 DEF Next

\* Decoder implements ByteStream: whatever the input, its source and the
\* caller do, bytes are handed over once, after they are made, and an
\* encoder's stream whose place in the input is not lost yields no more of
\* them than it declares; unless a symbol failed before, io.EOF is reported
\* only after the last of them, and for good (decoder.go:40-71, 125-192).
THEOREM ImplementsStream ==
  ASSUME Wide PROVE Spec => StreamSpec
<1>1. Init => Reader /\ Stream!Fresh
  BY InitReader
<1>2. Reader /\ [Next]_vars => Reader' /\ [Stream!Next]_(Stream!vars)
  BY NextReader DEF StreamStep
<1> QED
  BY <1>1, <1>2, PTL DEF Spec, StreamSpec, Stream!Spec
=============================================================================
