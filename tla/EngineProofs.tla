---------------------------- MODULE EngineProofs ----------------------------
(***************************************************************************)
(* What a step of an engine does to the dictionary and to the counters     *)
(* around it, for any input, dictionary and word width: lemmas about       *)
(* DecoderCore that the proofs about both readers share.                   *)
(***************************************************************************)
EXTENDS ReadCall, TLAPS

CoreWindow ==
  /\ dicBufSize \in Nat \ {0} /\ dicBufSize < Word
  /\ propDicSize \in {0, dicBufSize}
  /\ dicPos \in 0 .. dicBufSize /\ readPos \in 0 .. dicPos
  /\ dic \in [Slots -> Nat \cup {Garbage}]
  /\ outPos \in Nat /\ base \in 0 .. outPos /\ coded \in Nat
  /\ processedPos \in 0 .. (Word - 1)
  /\ checkDicSize \in {0, propDicSize}
  /\ remainLen \in 0 .. (SpecLen + 1)
  /\ state \in 0 .. 11
  /\ reps \in [1 .. 4 -> Nat \ {0}]

CoreFlags == ioErr \in BOOLEAN /\ tainted \in BOOLEAN

\* What holds where control is: an engine never writes beyond its limit.
CoreControl ==
  /\ limit \in Int /\ limit2 \in Int /\ startDicPos \in Nat
  /\ derr \in {"nil", "EOF", "ErrData", "io"}
  /\ InEngine => dicPos <= limit /\ limit <= dicBufSize
  /\ pc \in {"decode", "asmFirst", "goEntry"} => dicPos < limit
  /\ pc \in {"asm", "asmFirst", "asmNext"} => startDicPos < limit
  /\ pc \in {"asmFirst", "asmNext"} => limit2 <= limit
  /\ pc = "asmFirst" => dicPos <= limit2 /\ remainLen = 0

Core == CoreWindow /\ CoreFlags /\ CoreControl

\* A step of an engine stays in the engine, and moves dicPos and outPos
\* together.
InStep ==
  /\ InEngine /\ InEngine'
  /\ UNCHANGED <<geometry, limit>>
  /\ dicPos <= dicPos' /\ outPos' = outPos + (dicPos' - dicPos)

LEMMA CoreConstants ==
  /\ SpecLen \in Nat \ {0} /\ Word \in Nat /\ SpecLen + 1 < Word
  /\ Lens \subseteq 1 .. (SpecLen - 1)
  /\ Dists \subseteq Nat \ {0}
  /\ MaxOut \in Nat
  BY CoreAssumption DEF CoreAssumption

----------------------------------------------------------------------------
(* Types: the copy of a match. *)

\* A copy leaves the dictionary an array of tags.
LEMMA CopyMatchType ==
  ASSUME CoreWindow, NEW n \in Int, NEW r \in Int, NEW right \in BOOLEAN
  PROVE  CopyMatch(n, r, right) \in [Slots -> Nat \cup {Garbage}]
<1> SUFFICES ASSUME NEW i \in Slots
             PROVE  CopyMatch(n, r, right)[i] \in Nat \cup {Garbage}
  BY DEF CopyMatch
<1>1. CASE i < dicPos \/ i >= dicPos + n
  BY <1>1 DEF CopyMatch, CoreWindow
<1>2. CASE ~(i < dicPos \/ i >= dicPos + n)
  <2>1. outPos + (i - dicPos) \in Nat
    BY <1>2, CoreConstants DEF CoreWindow, Slots
  <2> QED
    BY <1>2, <2>1 DEF CopyMatch
<1> QED
  BY <1>1, <1>2

\* writeRem stops at lim, and leaves nothing pending short of it.
LEMMA WriteRemCore ==
  ASSUME CoreWindow, CoreFlags, NEW lim \in Int,
         dicPos <= lim, lim <= dicBufSize,
         NEW check, check \in {0, propDicSize}, WriteRem(lim, check),
         UNCHANGED <<geometry, state, reps, history>>
  PROVE  /\ CoreWindow'
         /\ dicPos' \in dicPos .. lim
         /\ outPos' = outPos + (dicPos' - dicPos)
         /\ dicPos' < lim => remainLen' = 0
<1>1. RemBytes(lim) \in 0 .. remainLen /\ RemBytes(lim) <= lim - dicPos
  BY CoreConstants DEF RemBytes, Lesser, CoreWindow
<1>2. RemBytes(lim) < lim - dicPos => RemBytes(lim) = remainLen
  BY CoreConstants DEF RemBytes, Lesser, CoreWindow
<1>3. dic' \in [Slots -> Nat \cup {Garbage}]
  <2>1. (~tainted /\ outPos + RemBytes(lim) <= coded) \in BOOLEAN
    OBVIOUS
  <2>2. reps[1] \in Int /\ RemBytes(lim) \in Int
    BY <1>1 DEF CoreWindow
  <2> QED
    BY <2>1, <2>2, CopyMatchType DEF WriteRem
<1>4. processedPos' \in 0 .. (Word - 1)
  BY <1>1, CoreConstants DEF WriteRem, Advance, Plus32, CoreWindow
<1>5. checkDicSize' \in {0, propDicSize}
  BY DEF WriteRem, Checked
<1>6. Slots' = Slots
  BY DEF geometry, Slots
<1>7. /\ dicPos' \in 0 .. dicBufSize /\ readPos' \in 0 .. dicPos'
      /\ outPos' \in Nat /\ base' \in 0 .. outPos'
      /\ remainLen' \in 0 .. (SpecLen + 1)
  BY <1>1, CoreConstants DEF WriteRem, Advance, geometry, CoreWindow
<1>8. CoreWindow'
  BY <1>3, <1>4, <1>5, <1>6, <1>7 DEF geometry, history, CoreWindow
<1> QED
  BY <1>1, <1>2, <1>8, CoreConstants DEF WriteRem, Advance, CoreWindow

----------------------------------------------------------------------------
(* Types: the steps between symbols. *)

LEMMA AsmEntryCore ==
  ASSUME Core, AsmEntry
  PROVE  Core' /\ InStep
<1>1. /\ pc = "decode" /\ InEngine /\ limit \in Int
      /\ dicPos \in Int /\ dicPos <= limit /\ limit <= dicBufSize
  BY CoreConstants DEF AsmEntry, Core, CoreWindow, CoreControl, InEngine
<1>2. UNCHANGED <<limit, limit2, geometry, state, reps, ioErr, history>>
  BY DEF AsmEntry
<1>3. CoreFlags'
  BY <1>2 DEF history, geometry, Core, CoreFlags
<1>4. CASE WriteRem(limit, checkDicSize)
           /\ pc' = AfterRem(limit, IF dicPos' >= limit THEN "decoded" ELSE "asm")
  <2>1. CoreWindow' /\ dicPos' \in dicPos .. limit
        /\ outPos' = outPos + (dicPos' - dicPos)
    BY <1>1, <1>2, <1>4, WriteRemCore DEF Core, CoreWindow
  <2>2. pc' \in {"fault", "decoded", "asm"}
    BY <1>4 DEF AfterRem
  <2>3. CoreControl'
    BY <1>1, <1>2, <2>1, <2>2
       DEF AsmEntry, geometry, Core, CoreWindow, CoreControl, InEngine
  <2>4. InStep
    BY <1>1, <1>2, <2>1, <2>2 DEF InStep, InEngine
  <2> QED
    BY <1>3, <2>1, <2>3, <2>4 DEF Core
<1>5. CASE pc' \in {"goEntry", "asm"} /\ UNCHANGED window
  <2>1. CoreWindow'
    BY <1>2, <1>5 DEF window, geometry, history, Core, CoreWindow, Slots
  <2>2. CoreControl'
    BY <1>1, <1>2, <1>5 DEF AsmEntry, window, geometry, Core, CoreWindow,
       CoreControl, InEngine
  <2> QED
    BY <1>1, <1>2, <1>3, <1>5, <2>1, <2>2, CoreConstants
       DEF window, Core, CoreWindow, InStep, InEngine
<1> QED
  BY <1>4, <1>5 DEF AsmEntry

LEMMA GoEntryCore ==
  ASSUME Core, GoEntry
  PROVE  Core' /\ InStep
<1>1. /\ pc = "goEntry" /\ InEngine /\ limit \in Int
      /\ dicPos \in Int /\ dicPos <= limit /\ limit <= dicBufSize
  BY CoreConstants DEF GoEntry, Core, CoreWindow, CoreControl, InEngine
<1>2. UNCHANGED <<engine, geometry, state, reps, history>>
  BY DEF GoEntry
<1>3. CoreFlags'
  BY <1>2 DEF GoEntry, history, geometry, Core, CoreFlags
<1>4. CASE WriteRem(limit, checkDicSize)
           /\ pc' = AfterRem(limit, IF dicPos' >= limit THEN "decoded" ELSE "go")
  <2>1. CoreWindow' /\ dicPos' \in dicPos .. limit
        /\ outPos' = outPos + (dicPos' - dicPos)
    BY <1>1, <1>2, <1>4, WriteRemCore DEF Core, CoreWindow
  <2>2. pc' \in {"fault", "decoded", "go"}
    BY <1>4 DEF AfterRem
  <2>3. CoreControl'
    BY <1>1, <1>2, <2>1, <2>2
       DEF engine, geometry, Core, CoreWindow, CoreControl, InEngine
  <2>4. InStep
    BY <1>1, <1>2, <2>1, <2>2 DEF engine, InStep, InEngine
  <2> QED
    BY <1>3, <2>1, <2>3, <2>4 DEF Core
<1>5. CASE /\ remainLen' = 0 /\ pc' = "go"
           /\ UNCHANGED <<dic, dicPos, processedPos, checkDicSize, outPos>>
  <2>1. CoreWindow'
    BY <1>2, <1>5, CoreConstants DEF geometry, history, Core, CoreWindow, Slots
  <2>2. CoreControl'
    BY <1>1, <1>2, <1>5 DEF engine, geometry, Core, CoreWindow, CoreControl,
       InEngine
  <2> QED
    BY <1>1, <1>2, <1>3, <1>5, <2>1, <2>2, CoreConstants
       DEF engine, Core, CoreWindow, InStep, InEngine
<1> QED
  BY <1>4, <1>5 DEF GoEntry

\* Steps that only move control and report.
Control == AsmRun \/ AsmLeave \/ AsmReadError \/ GoReturn

\* An end marker, decoded from all of its input or not.
Marking == \E ok \in BOOLEAN : EndMarker(ok)

LEMMA ControlCore ==
  ASSUME Core, Control
  PROVE  Core' /\ InStep
<1>1. /\ InEngine /\ InEngine'
      /\ UNCHANGED <<dic, dicPos, processedPos, checkDicSize, outPos, limit,
                     startDicPos, geometry, state, reps, history, ioErr>>
  BY DEF Control, AsmRun, AsmLoop, AsmLeave, AsmReadError, GoReturn,
     InEngine, window, engine, history
<1>2. remainLen' \in 0 .. (SpecLen + 1)
  BY CoreConstants DEF Control, AsmRun, AsmLeave, AsmReadError, GoReturn,
     window, Core, CoreWindow
<1>3. CoreWindow'
  BY <1>1, <1>2 DEF geometry, history, Core, CoreWindow, Slots
<1>4. CoreFlags'
  BY <1>1 DEF history, geometry, Core, CoreFlags
<1>5. CoreControl'
  <2>1. CASE AsmRun
    <3>1. /\ limit2' \in Int /\ limit2' <= limit /\ dicPos < limit
          /\ dicPos <= limit2'
      BY <2>1, CoreConstants DEF AsmRun, AsmLoop, ClampedLimit, Minus32, Core,
         CoreWindow, CoreControl
    <3> QED
      BY <1>1, <2>1, <3>1 DEF AsmRun, AsmLoop, geometry, Core, CoreControl,
         InEngine
  <2>2. CASE AsmLeave
    <3>1. pc' = "goEntry" => dicPos < limit
      BY <2>2, CoreConstants DEF AsmLeave, Core, CoreWindow, CoreControl, InEngine
    <3> QED
      BY <1>1, <2>2, <3>1 DEF AsmLeave, engine, geometry, Core, CoreControl,
         InEngine
  <2>3. CASE AsmReadError
    BY <1>1, <2>3 DEF AsmReadError, AsmLoop, geometry, Core, CoreControl, InEngine
  <2>4. CASE GoReturn
    BY <1>1, <2>4 DEF GoReturn, geometry, Core, CoreControl, InEngine
  <2> QED
    BY <2>1, <2>2, <2>3, <2>4 DEF Control
<1> QED
  BY <1>1, <1>3, <1>4, <1>5, CoreConstants DEF geometry, Core, CoreWindow, InStep

LEMMA MarkerCore ==
  ASSUME Core, NEW ok \in BOOLEAN, EndMarker(ok)
  PROVE  Core' /\ InStep
<1>1. /\ InEngine /\ InEngine'
      /\ UNCHANGED <<dic, dicPos, processedPos, checkDicSize, outPos, limit,
                     startDicPos, geometry, state, reps, coded>>
      /\ remainLen' = SpecLen
  BY DEF EndMarker, Decoding, Continue, InEngine, engine
<1>2. CoreWindow'
  BY <1>1, CoreConstants DEF geometry, Core, CoreWindow, Slots
<1>3. CoreFlags'
  BY DEF EndMarker, Core, CoreFlags
<1>4. CoreControl'
  BY <1>1 DEF EndMarker, Decoding, Continue, engine, geometry, Core,
     CoreControl, InEngine
<1> QED
  BY <1>1, <1>2, <1>3, <1>4, CoreConstants DEF geometry, Core, CoreWindow, InStep

LEMMA AsmReturnCore ==
  ASSUME Core, AsmReturn
  PROVE  Core' /\ InStep
<1>1. /\ pc = "asmNext" /\ InEngine /\ limit \in Int
      /\ dicPos \in Int /\ dicPos <= limit /\ limit <= dicBufSize
  BY CoreConstants DEF AsmReturn, Core, CoreWindow, CoreControl, InEngine
<1>2. UNCHANGED <<limit, limit2, startDicPos, geometry, state, reps, ioErr,
                  history>>
  BY DEF AsmReturn
<1>3. CoreFlags'
  BY <1>2 DEF history, geometry, Core, CoreFlags
<1> DEFINE check == Checked(checkDicSize, processedPos)
<1>4. check \in {0, propDicSize}
  BY DEF Checked, Core, CoreWindow
<1>5. CASE /\ WriteRem(limit, check) /\ pc' = AfterRem(limit, "asm")
           /\ UNCHANGED derr
  <2>1. CoreWindow' /\ dicPos' \in dicPos .. limit
        /\ outPos' = outPos + (dicPos' - dicPos)
    BY <1>1, <1>2, <1>4, <1>5, WriteRemCore DEF Core
  <2>2. pc' \in {"fault", "asm"}
    BY <1>5 DEF AfterRem
  <2>3. CoreControl'
    BY <1>1, <1>2, <1>5, <2>1, <2>2
       DEF geometry, Core, CoreWindow, CoreControl, InEngine
  <2>4. InStep
    BY <1>1, <1>2, <2>1, <2>2 DEF InStep, InEngine
  <2> QED
    BY <1>3, <2>1, <2>3, <2>4 DEF Core
<1>6. CASE /\ checkDicSize' = check
           /\ derr' \in {"EOF", "ErrData"}
           /\ pc' = "decoded"
           /\ UNCHANGED <<dic, dicPos, processedPos, remainLen, outPos>>
  <2>1. CoreWindow'
    BY <1>2, <1>4, <1>6 DEF geometry, history, Core, CoreWindow, Slots
  <2>2. CoreControl'
    BY <1>1, <1>2, <1>6 DEF geometry, Core, CoreWindow, CoreControl, InEngine
  <2> QED
    BY <1>1, <1>2, <1>3, <1>6, <2>1, <2>2, CoreConstants
       DEF Core, CoreWindow, InStep, InEngine
<1> QED
  BY <1>5, <1>6 DEF AsmReturn

----------------------------------------------------------------------------
(* Types: the symbols. *)

\* Where a symbol can be decoded there is room for a byte.
LEMMA DecodingRoom ==
  ASSUME Core, Decoding
  PROVE  /\ pc \in {"go", "asmFirst", "asmNext"} /\ InEngine
         /\ dicPos < limit /\ limit <= dicBufSize
         /\ limit \in Int /\ limit2 \in Int /\ dicPos \in Int
         /\ remainLen = 0
         /\ pc # "go" => dicPos <= limit2 /\ limit2 <= limit
BY CoreConstants DEF Decoding, Core, CoreWindow, CoreControl, InEngine

\* A symbol that writes n bytes, fewer than limit leaves room for, and then
\* goes on or faults.
LEMMA SymbolCore ==
  ASSUME Core, Decoding, UNCHANGED <<engine, geometry>>,
         NEW n \in Nat, n <= limit - dicPos, n <= SpecLen, Advance(n),
         dic' \in [Slots -> Nat \cup {Garbage}],
         state' \in 0 .. 11, reps' \in [1 .. 4 -> Nat \ {0}],
         checkDicSize' \in {0, propDicSize},
         remainLen' \in 0 .. SpecLen, coded' \in Nat,
         CoreFlags', pc' \in {Continue, "fault"}
  PROVE  Core' /\ InStep
<1>1. /\ pc \in {"go", "asmFirst", "asmNext"} /\ InEngine
      /\ limit \in Int /\ limit <= dicBufSize /\ dicPos \in Int
  BY DecodingRoom
<1>2. pc' \in {"go", "asmNext", "fault"} /\ (pc' = "go" => pc = "go")
      /\ (pc' = "asmNext" => pc \in {"asmFirst", "asmNext"})
  BY <1>1 DEF Continue
<1>3. dicPos' = dicPos + n /\ outPos' = outPos + n
  BY DEF Advance
<1>4. processedPos' \in 0 .. (Word - 1)
  BY CoreConstants DEF Advance, Plus32, Core, CoreWindow
<1>5. /\ dicPos' \in 0 .. dicBufSize /\ dicPos' <= limit
      /\ readPos' \in 0 .. dicPos' /\ outPos' \in Nat /\ base' \in 0 .. outPos'
  BY <1>1, <1>3, CoreConstants DEF geometry, Core, CoreWindow
<1>6. Slots' = Slots
  BY DEF geometry, Slots
<1>7. remainLen' \in 0 .. (SpecLen + 1)
  BY CoreConstants
<1>8. CoreWindow'
  BY <1>4, <1>5, <1>6, <1>7 DEF geometry, Core, CoreWindow
<1>9. CoreControl'
  BY <1>1, <1>2, <1>5 DEF engine, geometry, Core, CoreControl, InEngine
<1>10. InStep
  BY <1>1, <1>2, <1>3 DEF engine, InStep, InEngine
<1> QED
  BY <1>8, <1>9, <1>10 DEF Core

LEMMA InputFlags ==
  ASSUME Core, NEW ok \in BOOLEAN, NEW len \in Nat, Input(ok, len),
         UNCHANGED conforming
  PROVE  CoreFlags' /\ coded' \in Nat
<1>1. CoreFlags'
  BY DEF Input, Core, CoreFlags
<1>2. coded' \in Nat
  BY DEF Input, Core, CoreWindow
<1> QED
  BY <1>1, <1>2

LEMMA LiteralCore ==
  ASSUME Core, NEW ok \in BOOLEAN, Literal(ok)
  PROVE  Core' /\ InStep
<1>1. Decoding /\ CoreFlags' /\ coded' \in Nat
  BY InputFlags DEF Literal, Input, geometry
<1>2. 1 <= limit - dicPos /\ remainLen = 0
  BY <1>1, DecodingRoom
<1>3. dic' \in [Slots -> Nat \cup {Garbage}]
  BY DEF Literal, Core, CoreWindow
<1>4. state' \in 0 .. 11
  BY DEF Literal, LiteralState, Core, CoreWindow
<1>5. pc' \in {Continue, "fault"} /\ Advance(1)
  BY DEF Literal
<1>6. /\ UNCHANGED <<reps, checkDicSize, remainLen, engine, geometry>>
      /\ reps \in [1 .. 4 -> Nat \ {0}] /\ checkDicSize \in {0, propDicSize}
  BY DEF Literal, Core, CoreWindow
<1>7. 1 <= SpecLen /\ 0 \in 0 .. SpecLen
  BY CoreConstants
<1> QED
  BY <1>1, <1>2, <1>3, <1>4, <1>5, <1>6, <1>7, SymbolCore

LEMMA ShortRepCore ==
  ASSUME Core, NEW ok \in BOOLEAN, ShortRep(ok)
  PROVE  Core' /\ InStep
<1>1. Decoding /\ CoreFlags' /\ coded' \in Nat
  BY InputFlags DEF ShortRep, Input, geometry
<1>2. 1 <= limit - dicPos /\ remainLen = 0
  BY <1>1, DecodingRoom
<1>3. dic' \in [Slots -> Nat \cup {Garbage}]
  <2>1. RightSymbol(ok) \in BOOLEAN /\ reps[1] \in Int
    BY DEF RightSymbol, Core, CoreWindow
  <2> QED
    BY <2>1, CopyMatchType DEF ShortRep, Core
<1>4. state' \in 0 .. 11
  BY DEF ShortRep, ShortRepState, numLitStates, Core, CoreWindow
<1>5. pc' \in {Continue, "fault"} /\ Advance(1)
  BY DEF ShortRep
<1>6. /\ UNCHANGED <<reps, checkDicSize, remainLen, engine, geometry>>
      /\ reps \in [1 .. 4 -> Nat \ {0}] /\ checkDicSize \in {0, propDicSize}
  BY DEF ShortRep, Core, CoreWindow
<1>7. 1 <= SpecLen /\ 0 \in 0 .. SpecLen
  BY CoreConstants
<1> QED
  BY <1>1, <1>2, <1>3, <1>4, <1>5, <1>6, <1>7, SymbolCore

\* The bytes of a match or rep that fit; and what else MatchBytes does.
Fit(len) == Lesser(len, (IF pc = "go" THEN limit ELSE limit2) - dicPos)

LEMMA MatchBytesFacts ==
  ASSUME Core, NEW ok \in BOOLEAN, NEW len \in Lens, Input(ok, len),
         MatchBytes(len, ok)
  PROVE  /\ len \in Nat /\ len < SpecLen /\ Decoding
         /\ Fit(len) \in 0 .. len /\ Fit(len) <= limit - dicPos
         /\ dic' = CopyMatch(Fit(len), reps'[1], RightSymbol(ok))
         /\ remainLen' = len - Fit(len)
         /\ Advance(Fit(len))
         /\ \/ checkDicSize' = checkDicSize
            \/ /\ checkDicSize' = propDicSize
               /\ Minus32(propDicSize, processedPos) <= len
         /\ pc' \in {Continue, "fault"}
         /\ UNCHANGED <<engine, geometry>>
<1>1. len \in Nat /\ len < SpecLen /\ Decoding
  BY CoreConstants DEF Input
<1>2. Fit(len) \in 0 .. len /\ Fit(len) <= limit - dicPos
  BY <1>1, DecodingRoom DEF Fit, Lesser
<1> QED
  BY <1>1, <1>2 DEF MatchBytes, Fit

\* A rep and a match differ in reps and state only.
LEMMA MatchBytesCore ==
  ASSUME Core, NEW ok \in BOOLEAN, NEW len \in Lens, Input(ok, len),
         MatchBytes(len, ok),
         state' \in 0 .. 11, reps' \in [1 .. 4 -> Nat \ {0}]
  PROVE  Core' /\ InStep
<1>1. /\ len \in Nat /\ len < SpecLen /\ Decoding
      /\ Fit(len) \in 0 .. len /\ Fit(len) <= limit - dicPos
      /\ dic' = CopyMatch(Fit(len), reps'[1], RightSymbol(ok))
      /\ remainLen' = len - Fit(len)
      /\ Advance(Fit(len))
      /\ checkDicSize' \in {propDicSize, checkDicSize}
      /\ pc' \in {Continue, "fault"}
      /\ UNCHANGED <<engine, geometry>>
  BY MatchBytesFacts
<1>2. CoreFlags' /\ coded' \in Nat
  BY <1>1, InputFlags DEF geometry
<1>3. dic' \in [Slots -> Nat \cup {Garbage}]
  <2>1. RightSymbol(ok) \in BOOLEAN /\ reps'[1] \in Int /\ Fit(len) \in Int
    BY <1>1 DEF RightSymbol
  <2> QED
    BY <1>1, <2>1, CopyMatchType DEF Core
<1>4. remainLen' \in 0 .. SpecLen /\ checkDicSize' \in {0, propDicSize}
  BY <1>1, CoreConstants DEF Core, CoreWindow
<1>5. Fit(len) \in Nat /\ Fit(len) <= SpecLen
  BY <1>1, CoreConstants
<1> QED
  BY <1>1, <1>2, <1>3, <1>4, <1>5, SymbolCore

LEMMA RepCore ==
  ASSUME Core, NEW ok \in BOOLEAN, NEW i \in 1 .. 4, NEW len \in Lens,
         Rep(i, len, ok)
  PROVE  Core' /\ InStep
<1>1. reps' \in [1 .. 4 -> Nat \ {0}]
  BY DEF Rep, UseRep, Core, CoreWindow
<1>2. state' \in 0 .. 11
  BY DEF Rep, RepState, numLitStates, Core, CoreWindow
<1> QED
  BY <1>1, <1>2, MatchBytesCore DEF Rep

LEMMA MatchCore ==
  ASSUME Core, NEW ok \in BOOLEAN, NEW d \in Dists, NEW len \in Lens,
         Match(d, len, ok)
  PROVE  Core' /\ InStep
<1>1. reps' \in [1 .. 4 -> Nat \ {0}]
  BY CoreConstants DEF Match, PushRep, Core, CoreWindow
<1>2. state' \in 0 .. 11
  BY DEF Match, MatchState, numLitStates, Core, CoreWindow
<1> QED
  BY <1>1, <1>2, MatchBytesCore DEF Match

LEMMA RefuseShortRepCore ==
  ASSUME Core, RefuseShortRep
  PROVE  Core' /\ InStep
<1>1. /\ InEngine /\ InEngine'
      /\ UNCHANGED <<window, engine, geometry, state, reps, pc, coded>>
  BY DEF RefuseShortRep, Decoding, InEngine
<1>2. CoreWindow'
  BY <1>1 DEF window, geometry, Core, CoreWindow, Slots
<1>3. CoreControl'
  BY <1>1 DEF window, engine, geometry, Core, CoreControl, InEngine
<1>4. CoreFlags'
  BY DEF RefuseShortRep, geometry, Core, CoreFlags
<1>5. InStep
  BY <1>1, CoreConstants DEF window, engine, Core, CoreWindow, InStep
<1> QED
  BY <1>2, <1>3, <1>4, <1>5 DEF Core

LEMMA RefuseMatchCore ==
  ASSUME Core, NEW d \in Dists, RefuseMatch(d)
  PROVE  Core' /\ InStep
<1>1. /\ InEngine /\ InEngine'
      /\ UNCHANGED <<dic, dicPos, processedPos, outPos, limit, limit2,
                     startDicPos, geometry, coded>>
      /\ pc' \in {pc, "decoded"} /\ derr' \in {derr, "ErrData"}
  BY DEF RefuseMatch, Decoding, InEngine, window, engine
<1>2. /\ remainLen' \in {remainLen, SpecLen + 1}
      /\ checkDicSize' \in {checkDicSize, propDicSize}
      /\ pc' # "decoded" => remainLen' = remainLen
  BY DEF RefuseMatch, Checked, Decoding, window
<1>3. reps' \in [1 .. 4 -> Nat \ {0}] /\ state' \in 0 .. 11
  BY CoreConstants DEF RefuseMatch, PushRep, MatchState, numLitStates, Core,
     CoreWindow
<1>4. remainLen' \in 0 .. (SpecLen + 1)
  BY <1>2, CoreConstants DEF Core, CoreWindow
<1>5. CoreWindow'
  BY <1>1, <1>2, <1>3, <1>4 DEF geometry, Core, CoreWindow, Slots
<1>6. CoreControl'
  BY <1>1, <1>2 DEF geometry, Core, CoreControl, InEngine
<1>7. CoreFlags'
  BY DEF RefuseMatch, geometry, Core, CoreFlags
<1>8. InStep
  BY <1>1, CoreConstants DEF Core, CoreWindow, InStep
<1> QED
  BY <1>5, <1>6, <1>7, <1>8 DEF Core

\* Any step of an engine.
LEMMA EngineCore ==
  ASSUME Core, Engine \/ Marking
  PROVE  Core' /\ InStep
<1>1. CASE Symbol
  BY <1>1, LiteralCore, ShortRepCore, RepCore, MatchCore, RefuseShortRepCore,
     RefuseMatchCore DEF Symbol
<1> QED
  BY <1>1, AsmEntryCore, AsmReturnCore, GoEntryCore, ControlCore,
     MarkerCore DEF Engine, Control, Marking

----------------------------------------------------------------------------
(* Counts: what a step adds to the output and to the pending match is what *)
(* the symbols stand for.                                                  *)

\* Bytes of a match that are not in the dictionary yet.
Pend == IF remainLen < SpecLen THEN remainLen ELSE 0

\* The bytes are as the encoder meant them.
Trusted == conforming /\ ~tainted

\* No byte of a match is forgotten: the assembly is run, which clears
\* remainLen, only when nothing is pending.
Owed ==
  /\ pc \in {"asmNext", "go"} => remainLen <= SpecLen
  /\ pc = "asm" /\ dicPos < limit /\ remainLen < SpecLen => remainLen = 0

\* The dictionary is marked full only when it is, or the match under way
\* will fill it.
FullDic == checkDicSize # 0 => dicBufSize <= outPos - base + Pend

Behind == processedPos <= outPos - base

Counts ==
  /\ processedPos' = Plus32(processedPos, outPos' - outPos)
  /\ coded' = coded + (outPos' + Pend') - (outPos + Pend)
  /\ \/ checkDicSize' = checkDicSize
     \/ /\ checkDicSize' = propDicSize
        /\ propDicSize <= outPos' - base + Pend'

LEMMA PendType ==
  ASSUME Core
  PROVE  Pend \in 0 .. remainLen /\ Pend < SpecLen
BY CoreConstants DEF Pend, Core, CoreWindow

LEMMA NothingPut ==
  ASSUME Core
  PROVE  Plus32(processedPos, 0) = processedPos
BY CoreConstants DEF Plus32, Core, CoreWindow

\* writeRem moves bytes from what is pending to the dictionary.
LEMMA WriteRemCounts ==
  ASSUME Core, Behind, remainLen < SpecLen,
         NEW lim \in Int, dicPos <= lim, lim <= dicBufSize,
         NEW check, check \in {checkDicSize, Checked(checkDicSize, processedPos)},
         WriteRem(lim, check), UNCHANGED <<geometry, history>>
  PROVE  Counts /\ remainLen' \in 0 .. remainLen
<1> DEFINE n == RemBytes(lim)
<1>1. n \in 0 .. remainLen /\ remainLen \in Nat
  BY CoreConstants DEF RemBytes, Lesser, Core, CoreWindow
<1>2. /\ remainLen' = remainLen - n /\ outPos' = outPos + n
      /\ processedPos' = Plus32(processedPos, n)
      /\ checkDicSize' = Checked(check, processedPos')
      /\ UNCHANGED <<base, coded, propDicSize>>
  BY DEF WriteRem, Advance, geometry, history
<1> HIDE DEF n
<1>3. /\ outPos \in Nat /\ base \in Nat /\ coded \in Nat /\ processedPos \in Nat
      /\ propDicSize \in Nat
  BY CoreConstants DEF Core, CoreWindow
<1>4. coded' = coded + (outPos' + Pend') - (outPos + Pend)
  BY <1>1, <1>2, <1>3, CoreConstants DEF Pend
<1>5. processedPos' = Plus32(processedPos, outPos' - outPos)
  BY <1>1, <1>2, <1>3
<1>6. processedPos' <= outPos' - base /\ processedPos' \in Nat /\ Pend' \in Nat
      /\ outPos' \in Nat /\ outPos <= outPos'
  BY <1>1, <1>2, <1>3, CoreConstants DEF Plus32, Pend, Behind, Core, CoreWindow
<1>7. check = checkDicSize
      \/ (check = propDicSize /\ propDicSize <= outPos - base)
  BY <1>3 DEF Checked, Behind
<1>8. checkDicSize' = check
      \/ (checkDicSize' = propDicSize /\ propDicSize <= outPos' - base)
  BY <1>2, <1>3, <1>6 DEF Checked
<1>9. \/ checkDicSize' = checkDicSize
      \/ checkDicSize' = propDicSize /\ propDicSize <= outPos' - base + Pend'
  <2>1. propDicSize <= outPos - base => propDicSize <= outPos' - base + Pend'
    BY <1>1, <1>2, <1>3, CoreConstants DEF Pend
  <2>2. propDicSize <= outPos' - base => propDicSize <= outPos' - base + Pend'
    BY <1>1, <1>2, <1>3, CoreConstants DEF Pend
  <2> QED
    BY <1>7, <1>8, <2>1, <2>2
<1> QED
  BY <1>1, <1>2, <1>4, <1>5, <1>9 DEF Counts

\* A step that puts nothing and leaves nothing more pending than before.
LEMMA StillCounts ==
  ASSUME Core, Behind, Pend' = Pend, UNCHANGED <<outPos, processedPos, coded>>,
         checkDicSize' \in {checkDicSize, Checked(checkDicSize, processedPos)}
  PROVE  Counts
<1>1. /\ outPos \in Nat /\ base \in Nat /\ coded \in Nat /\ processedPos \in Nat
      /\ propDicSize \in Nat /\ Pend \in Nat
  BY PendType, CoreConstants DEF Core, CoreWindow
<1>2. processedPos' = Plus32(processedPos, outPos' - outPos)
  BY <1>1, NothingPut
<1>3. \/ checkDicSize' = checkDicSize
      \/ checkDicSize' = propDicSize /\ propDicSize <= outPos' - base + Pend'
  BY <1>1 DEF Checked, Behind
<1>4. coded' = coded + (outPos' + Pend') - (outPos + Pend)
  BY <1>1
<1> QED
  BY <1>2, <1>3, <1>4 DEF Counts

LEMMA AsmEntryCounts ==
  ASSUME Core, Behind, AsmEntry
  PROVE  Counts /\ Owed'
<1>1. UNCHANGED <<limit, geometry, history>> /\ pc = "decode"
  BY DEF AsmEntry
<1>2. /\ limit \in Int /\ dicPos \in Int
      /\ dicPos <= limit /\ limit <= dicBufSize
  BY <1>1, CoreConstants DEF Core, CoreWindow, CoreControl, InEngine
<1>3. CASE /\ Pending /\ WriteRem(limit, checkDicSize)
           /\ pc' = AfterRem(limit, IF dicPos' >= limit THEN "decoded" ELSE "asm")
  <2>1. remainLen < SpecLen
    BY <1>3 DEF Pending
  <2>2. Counts /\ remainLen' \in 0 .. remainLen
    BY <1>1, <1>2, <1>3, <2>1, WriteRemCounts
  <2>3. pc' \in {"fault", "decoded", "asm"} /\ (pc' = "asm" => ~(dicPos' >= limit))
    BY <1>3 DEF AfterRem
  <2>4. dicPos' < limit => remainLen' = 0
    BY <1>1, <1>2, <1>3, WriteRemCore DEF AsmEntry, Core, CoreWindow
  <2> QED
    BY <1>1, <2>2, <2>3, <2>4 DEF Owed
<1>4. CASE pc' \in {"goEntry", "asm"} /\ UNCHANGED window
           /\ (pc' = "asm" => ~Pending)
  <2>1. Counts
    BY <1>1, <1>4, StillCounts DEF window, history, Pend
  <2>2. remainLen \in Nat
    BY CoreConstants DEF Core, CoreWindow
  <2> QED
    BY <1>1, <1>4, <2>1, <2>2 DEF Owed, Pending, window
<1> QED
  BY <1>3, <1>4 DEF AsmEntry

LEMMA GoEntryCounts ==
  ASSUME Core, Behind, GoEntry
  PROVE  Counts /\ Owed'
<1>1. UNCHANGED <<limit, geometry, history>> /\ pc = "goEntry"
  BY DEF GoEntry, engine
<1>2. /\ limit \in Int /\ dicPos \in Int
      /\ dicPos <= limit /\ limit <= dicBufSize
  BY <1>1, CoreConstants DEF Core, CoreWindow, CoreControl, InEngine
<1>3. CASE /\ Pending /\ WriteRem(limit, checkDicSize)
           /\ pc' = AfterRem(limit, IF dicPos' >= limit THEN "decoded" ELSE "go")
  <2>1. remainLen < SpecLen /\ remainLen \in Nat
    BY <1>3, CoreConstants DEF Pending, Core, CoreWindow
  <2>2. Counts /\ remainLen' \in 0 .. remainLen
    BY <1>1, <1>2, <1>3, <2>1, WriteRemCounts
  <2>3. pc' \in {"fault", "decoded", "go"}
    BY <1>3 DEF AfterRem
  <2> QED
    BY <2>1, <2>2, <2>3, CoreConstants DEF Owed
<1>4. CASE /\ ~Pending /\ remainLen' = 0 /\ pc' = "go"
           /\ UNCHANGED <<dic, dicPos, processedPos, checkDicSize, outPos>>
  <2>1. Pend' = Pend
    BY <1>4, CoreConstants DEF Pend, Pending, Core, CoreWindow
  <2>2. Counts
    BY <1>1, <1>4, <2>1, StillCounts DEF history
  <2> QED
    BY <1>4, <2>2, CoreConstants DEF Owed
<1> QED
  BY <1>3, <1>4 DEF GoEntry

LEMMA ControlCounts ==
  ASSUME Core, Behind, Owed, Control
  PROVE  Counts /\ Owed'
<1>1. /\ UNCHANGED <<dicPos, outPos, processedPos, coded, limit>>
      /\ checkDicSize' = checkDicSize
  BY DEF Control, AsmRun, AsmLeave, AsmReadError, GoReturn, window,
     engine, history
<1>2. Pend' = Pend /\ Owed'
  <2>1. CASE AsmRun
    BY <2>1, CoreConstants DEF AsmRun, AsmLoop, Pend, Owed
  <2>2. CASE AsmLeave
    BY <2>2 DEF AsmLeave, window, engine, Pend, Owed
  <2>3. CASE AsmReadError
    BY <2>3 DEF AsmReadError, window, Pend, Owed
  <2>4. CASE GoReturn
    BY <2>4 DEF GoReturn, window, Pend, Owed
  <2> QED
    BY <2>1, <2>2, <2>3, <2>4 DEF Control
<1> QED
  BY <1>1, <1>2, StillCounts

LEMMA MarkerCounts ==
  ASSUME Core, Behind, Owed, NEW ok \in BOOLEAN, EndMarker(ok)
  PROVE  Counts /\ Owed'
<1>1. /\ UNCHANGED <<dicPos, outPos, processedPos, coded>>
      /\ checkDicSize' = checkDicSize
  BY DEF EndMarker
<1>2. remainLen = 0 /\ pc' \in {"go", "asmNext"}
  BY DecodingRoom DEF EndMarker, Continue
<1>3. Pend' = Pend /\ Owed'
  BY <1>2, CoreConstants DEF EndMarker, Pend, Owed
<1> QED
  BY <1>1, <1>3, StillCounts

LEMMA AsmReturnCounts ==
  ASSUME Core, Behind, Owed, AsmReturn
  PROVE  Counts /\ Owed'
<1>1. UNCHANGED <<limit, geometry, state, reps, history>> /\ pc = "asmNext"
  BY DEF AsmReturn
<1>2. /\ limit \in Int /\ dicPos \in Int
      /\ dicPos <= limit /\ limit <= dicBufSize
  BY <1>1, CoreConstants DEF Core, CoreWindow, CoreControl, InEngine
<1>3. remainLen \in Nat /\ remainLen <= SpecLen
  BY <1>1, CoreConstants DEF Owed, Core, CoreWindow
<1> DEFINE check == Checked(checkDicSize, processedPos)
<1>4. CASE /\ remainLen # SpecLen
           /\ WriteRem(limit, check) /\ pc' = AfterRem(limit, "asm")
  <2>1. remainLen < SpecLen
    BY <1>3, <1>4, CoreConstants
  <2>2. Counts
    BY <1>1, <1>2, <1>4, <2>1, WriteRemCounts
  <2>3. check \in {0, propDicSize}
    BY DEF Checked, Core, CoreWindow
  <2>4. dicPos' < limit => remainLen' = 0
    BY <1>1, <1>2, <1>4, <2>3, WriteRemCore DEF Core
  <2>5. pc' \in {"fault", "asm"}
    BY <1>4 DEF AfterRem
  <2> QED
    BY <1>1, <2>2, <2>4, <2>5 DEF Owed
<1>5. CASE /\ checkDicSize' = check /\ pc' = "decoded"
           /\ UNCHANGED <<dic, dicPos, processedPos, remainLen, outPos>>
  <2>1. Counts
    BY <1>1, <1>5, StillCounts DEF history, Pend
  <2> QED
    BY <1>5, <2>1 DEF Owed
<1> QED
  BY <1>4, <1>5 DEF AsmReturn

\* A literal or a short rep: one byte, nothing pending.
LEMMA OneByteCounts ==
  ASSUME Core, Decoding, NEW ok \in BOOLEAN, Input(ok, 1), Advance(1),
         pc' \in {Continue, "fault"}, UNCHANGED <<checkDicSize, remainLen>>
  PROVE  Counts /\ Owed'
<1>1. remainLen = 0 /\ pc \in {"go", "asmFirst", "asmNext"}
  BY DecodingRoom
<1>2. coded' = coded + 1 /\ outPos' = outPos + 1
      /\ processedPos' = Plus32(processedPos, 1)
  BY DEF Input, Advance
<1>3. outPos \in Nat /\ coded \in Nat
  BY DEF Core, CoreWindow
<1>4. Pend = 0 /\ Pend' = 0
  BY <1>1, CoreConstants DEF Pend
<1>5. Owed'
  BY <1>1, CoreConstants DEF Owed, Continue
<1>6. outPos' - outPos = 1
  BY <1>2, <1>3
<1>7. coded' = coded + (outPos' + Pend') - (outPos + Pend)
  BY <1>2, <1>3, <1>4
<1> QED
  BY <1>2, <1>5, <1>6, <1>7 DEF Counts

LEMMA MatchBytesCounts ==
  ASSUME Core, Behind, NEW ok \in BOOLEAN, NEW len \in Lens, Input(ok, len),
         MatchBytes(len, ok)
  PROVE  Counts /\ Owed'
<1>1. /\ len \in Nat /\ len < SpecLen /\ Decoding
      /\ Fit(len) \in 0 .. len
      /\ remainLen' = len - Fit(len)
      /\ Advance(Fit(len))
      /\ \/ checkDicSize' = checkDicSize
         \/ /\ checkDicSize' = propDicSize
            /\ Minus32(propDicSize, processedPos) <= len
      /\ pc' \in {Continue, "fault"} /\ UNCHANGED base
  BY MatchBytesFacts DEF geometry
<1>2. remainLen = 0 /\ pc \in {"go", "asmFirst", "asmNext"}
  BY <1>1, DecodingRoom
<1>3. coded' = coded + len /\ outPos' = outPos + Fit(len)
      /\ processedPos' = Plus32(processedPos, Fit(len))
  BY <1>1 DEF Input, Advance
<1>4. /\ outPos \in Nat /\ coded \in Nat /\ base \in Nat /\ propDicSize \in Nat
      /\ propDicSize < Word /\ processedPos \in 0 .. (Word - 1)
      /\ base <= outPos
  BY CoreConstants DEF Core, CoreWindow
<1>5. Pend = 0 /\ Pend' = len - Fit(len)
  BY <1>1, <1>2, CoreConstants DEF Pend
<1>6. Owed'
  BY <1>1, <1>2, CoreConstants DEF Owed, Continue
<1>7. outPos' - outPos = Fit(len)
  BY <1>1, <1>3, <1>4
<1>8. coded' = coded + (outPos' + Pend') - (outPos + Pend)
  BY <1>1, <1>3, <1>4, <1>5
<1>9. outPos' - base + Pend' = (outPos - base) + len
  BY <1>1, <1>3, <1>4, <1>5
<1>10. Minus32(propDicSize, processedPos) <= len
         => propDicSize <= (outPos - base) + len
  BY <1>1, <1>4, CoreConstants DEF Minus32, Behind
<1>11. \/ checkDicSize' = checkDicSize
       \/ checkDicSize' = propDicSize /\ propDicSize <= outPos' - base + Pend'
  BY <1>1, <1>9, <1>10
<1> QED
  BY <1>3, <1>6, <1>7, <1>8, <1>11 DEF Counts

LEMMA RefuseCounts ==
  ASSUME Core, Behind, Owed,
         RefuseShortRep \/ \E d \in Dists : RefuseMatch(d)
  PROVE  Counts /\ Owed'
<1>1. remainLen = 0 /\ pc \in {"go", "asmFirst", "asmNext"}
  BY DecodingRoom DEF RefuseShortRep, RefuseMatch
<1>2. /\ UNCHANGED <<outPos, processedPos, coded>>
      /\ checkDicSize' \in {checkDicSize, Checked(checkDicSize, processedPos)}
      /\ \/ remainLen' = remainLen /\ pc' = pc
         \/ remainLen' = SpecLen + 1 /\ pc' = "decoded"
  BY DEF RefuseShortRep, RefuseMatch, window
<1>3. Pend' = Pend
  BY <1>1, <1>2, CoreConstants DEF Pend
<1>4. Owed'
  BY <1>1, <1>2, CoreConstants DEF Owed
<1> QED
  BY <1>2, <1>3, <1>4, StillCounts

LEMMA EngineCounts ==
  ASSUME Core, Behind, Owed, Engine \/ Marking
  PROVE  Counts /\ Owed'
<1>1. ASSUME NEW ok \in BOOLEAN, Literal(ok) \/ ShortRep(ok)
      PROVE  Counts /\ Owed'
  <2>1. /\ Input(ok, 1) /\ Decoding /\ Advance(1)
        /\ pc' \in {Continue, "fault"} /\ UNCHANGED <<checkDicSize, remainLen>>
    BY <1>1 DEF Literal, ShortRep, Input
  <2> QED
    BY <2>1, OneByteCounts
<1>2. ASSUME NEW ok \in BOOLEAN, NEW len \in Lens,
             \/ \E i \in 1 .. 4 : Rep(i, len, ok)
             \/ \E d \in Dists : Match(d, len, ok)
      PROVE  Counts /\ Owed'
  BY <1>2, MatchBytesCounts DEF Rep, Match
<1>3. CASE Symbol
  BY <1>1, <1>2, <1>3, RefuseCounts DEF Symbol
<1> QED
  BY <1>3, AsmEntryCounts, AsmReturnCounts, GoEntryCounts, ControlCounts,
     MarkerCounts DEF Engine, Control, Marking

\* A step of an engine reads at most one symbol, and none that is right
\* beyond MaxOut.
LEMMA EngineReads ==
  ASSUME Core, Engine \/ Marking
  PROVE  /\ tainted' = FALSE => tainted = FALSE
         /\ \/ coded' = coded
            \/ /\ coded' \in coded .. (coded + SpecLen) /\ remainLen = 0
               /\ tainted' = FALSE => outPos < MaxOut
<1>1. ASSUME NEW ok \in BOOLEAN, NEW len \in Nat, len <= SpecLen, Input(ok, len)
      PROVE  /\ tainted' = FALSE => tainted = FALSE
             /\ coded' \in coded .. (coded + SpecLen) /\ remainLen = 0
             /\ tainted' = FALSE => outPos < MaxOut
  <2>1. tainted' = (tainted \/ ~ok) /\ (ok => outPos < MaxOut)
        /\ coded' = coded + len /\ remainLen = 0
    BY <1>1, DecodingRoom DEF Input
  <2>2. tainted' = FALSE => ok /\ tainted = FALSE
    BY <2>1 DEF Core, CoreFlags
  <2>3. coded \in Nat
    BY DEF Core, CoreWindow
  <2> QED
    BY <1>1, <2>1, <2>2, <2>3, CoreConstants
<1>2. CASE Symbol
  <2>1. CASE RefuseShortRep \/ \E d \in Dists : RefuseMatch(d)
    <3>1. tainted' = TRUE /\ coded' = coded
      BY <2>1 DEF RefuseShortRep, RefuseMatch
    <3> QED
      BY <3>1
  <2>2. CASE \E ok \in BOOLEAN : Literal(ok) \/ ShortRep(ok)
    <3>1. 1 \in Nat /\ 1 <= SpecLen
      BY CoreConstants
    <3> QED
      BY <1>1, <2>2, <3>1 DEF Literal, ShortRep
  <2>3. CASE \E ok \in BOOLEAN, len \in Lens :
               \/ \E i \in 1 .. 4 : Rep(i, len, ok)
               \/ \E d \in Dists : Match(d, len, ok)
    <3>1. \A len \in Lens : len \in Nat /\ len <= SpecLen
      BY CoreConstants
    <3> QED
      BY <1>1, <2>3, <3>1 DEF Rep, Match
  <2> QED
    BY <1>2, <2>1, <2>2, <2>3 DEF Symbol
<1>3. CASE Engine /\ ~Symbol
  BY <1>3 DEF Engine, AsmEntry, AsmRun, AsmLeave, AsmReadError, AsmReturn,
     GoEntry, GoReturn, history
<1>4. CASE Marking
  <2>1. PICK ok \in BOOLEAN : tainted' = (tainted \/ ~ok) /\ coded' = coded
    BY <1>4 DEF Marking, EndMarker
  <2>2. tainted \in BOOLEAN
    BY DEF Core, CoreFlags
  <2> QED
    BY <2>1, <2>2
<1> QED
  BY <1>2, <1>3, <1>4

\* The two unconditional bounds are kept by every step that counts so.
LEMMA CountsKept ==
  ASSUME Core, Counts, Behind,
         NEW o \in Nat, outPos' = o, outPos <= o,
         NEW c \in Nat, coded' = c, coded <= c, remainLen' \in Nat,
         UNCHANGED <<base, dicBufSize>>
  PROVE  Behind' /\ (FullDic => FullDic')
<1>1. /\ outPos \in Nat /\ base \in Nat /\ processedPos \in 0 .. (Word - 1)
      /\ propDicSize \in {0, dicBufSize} /\ coded \in Nat
      /\ dicBufSize \in Nat /\ checkDicSize \in {0, propDicSize}
  BY CoreConstants DEF Core, CoreWindow
<1>2. Behind'
  <2> DEFINE d == o - outPos
  <2>1. d \in Nat /\ o = outPos + d
    BY <1>1
  <2>2. processedPos' = Plus32(processedPos, d)
    BY DEF Counts
  <2> HIDE DEF d
  <2>3. Plus32(processedPos, d) <= processedPos + d
    BY <1>1, <2>1, CoreConstants DEF Plus32
  <2>4. processedPos <= outPos - base
    BY DEF Behind
  <2>5. Plus32(processedPos, d) <= o - base
    BY <1>1, <2>1, <2>3, <2>4, CoreConstants DEF Plus32
  <2> QED
    BY <2>2, <2>5 DEF Behind
<1>3. ASSUME FullDic PROVE FullDic'
  <2>1. PICK p \in Nat : p = Pend
    BY PendType, CoreConstants DEF Core, CoreWindow
  <2>2. PICK q \in Nat : q = Pend'
    BY CoreConstants DEF Pend
  <2>3. c = coded + (o + q) - (outPos + p)
    BY <2>1, <2>2 DEF Counts
  <2>4. outPos + p <= o + q
    BY <1>1, <2>3
  <2>5. \/ checkDicSize' = checkDicSize
        \/ checkDicSize' = propDicSize /\ propDicSize <= o - base + q
    BY <2>2 DEF Counts
  <2>6. checkDicSize # 0 => dicBufSize <= outPos - base + p
    BY <1>3, <2>1 DEF FullDic
  <2>7. checkDicSize # 0 => dicBufSize <= o - base + q
    BY <1>1, <2>4, <2>6
  <2>8. propDicSize # 0 => dicBufSize = propDicSize
    BY <1>1
  <2>9. checkDicSize' # 0 => dicBufSize <= o - base + q
    BY <2>5, <2>7, <2>8
  <2> QED
    BY <2>2, <2>9 DEF FullDic
<1> QED
  BY <1>2, <1>3

----------------------------------------------------------------------------
(* The bytes in the dictionary. *)

\* The offset, in the output, of the byte that belongs in slot s.
At(s) == IF s < dicPos THEN outPos - dicPos + s
         ELSE outPos - dicPos + s - dicBufSize

\* Every slot that the stream has written since the last dictionary reset
\* holds the byte that belongs there, or none of any stream.
Tags ==
  /\ base <= outPos - dicPos
  /\ \A s \in Slots :
       base <= At(s) => dic[s] = At(s) \/ (~Trusted /\ dic[s] = Garbage)

\* A step writes the slots from dicPos to dicPos' only, and these so.
Puts ==
  \A s \in Slots :
    IF s < dicPos \/ s >= dicPos' THEN dic'[s] = dic[s]
    ELSE dic'[s] = outPos + (s - dicPos) \/ (~Trusted' /\ dic'[s] = Garbage)

LEMMA TagsKept ==
  ASSUME Core, Tags, Puts, NEW n \in Nat, dicPos' = dicPos + n,
         outPos' = outPos + n, UNCHANGED <<dicBufSize, base>>,
         Trusted' => Trusted
  PROVE  Tags'
<1>1. /\ dicPos \in Nat /\ outPos \in Nat /\ base \in Nat /\ dicBufSize \in Nat
      /\ \A s \in Slots : s \in Int
  BY CoreConstants DEF Core, CoreWindow, Slots
<1>2. base' <= outPos' - dicPos'
  BY <1>1 DEF Tags
<1>3. Slots' = Slots
  BY DEF Slots
<1>4. ASSUME NEW s \in Slots, base' <= At(s)'
      PROVE  dic'[s] = At(s)' \/ (~Trusted' /\ dic'[s] = Garbage)
  <2>1. At(s)' = IF s < dicPos + n THEN outPos - dicPos + s
                 ELSE outPos - dicPos + s - dicBufSize
    BY <1>1 DEF At
  <2>2. CASE s < dicPos \/ s >= dicPos + n
    <3>1. At(s)' = At(s)
      BY <1>1, <2>1, <2>2 DEF At
    <3>2. dic'[s] = dic[s]
      BY <2>2 DEF Puts
    <3>3. dic[s] = At(s) \/ (~Trusted /\ dic[s] = Garbage)
      BY <1>4, <3>1 DEF Tags
    <3> QED
      BY <3>1, <3>2, <3>3
  <2>3. CASE ~(s < dicPos \/ s >= dicPos + n)
    <3>1. At(s)' = outPos + (s - dicPos)
      BY <1>1, <2>1, <2>3
    <3> QED
      BY <2>3, <3>1 DEF Puts
  <2> QED
    BY <2>2, <2>3
<1> QED
  BY <1>2, <1>3, <1>4 DEF Tags

\* What a distance has to be for a copy to be the encoder's.
InWindow(r) == r <= dicBufSize /\ r <= outPos - base

\* Every byte that such a distance refers to is in its place, also where
\* the match overlaps itself.
LEMMA FaithfulExact ==
  ASSUME Core, Tags, Trusted, NEW r \in Nat \ {0}, InWindow(r), NEW j \in Nat
  PROVE  Faithful(r, j)
<1>1. /\ dicPos \in Nat /\ outPos \in Nat /\ base \in Nat /\ dicBufSize \in Nat
      /\ dicPos <= dicBufSize
  BY CoreConstants DEF Core, CoreWindow
<1>2. PICK o \in 0 .. (r - 1) : o = j % r
  OBVIOUS
<1>3. SourceSlot(r, o) \in Slots /\ At(SourceSlot(r, o)) = outPos - r + o
  BY <1>1 DEF SourceSlot, Slots, At, InWindow
<1>4. base <= outPos - r + o
  BY <1>1 DEF InWindow
<1>5. dic[SourceSlot(r, o)] = outPos - r + o
  BY <1>3, <1>4 DEF Tags
<1>6. InReach(r)
  BY <1>1 DEF InReach, InWindow
<1> QED
  BY <1>2, <1>5, <1>6 DEF Faithful

\* The copy of a match puts the bytes that belong there.
LEMMA CopyPuts ==
  ASSUME Core, Tags, NEW n \in Nat, dicPos' = dicPos + n,
         NEW r \in Nat \ {0}, NEW right \in BOOLEAN,
         dic' = CopyMatch(n, r, right),
         n > 0 /\ Trusted' => Trusted /\ right /\ InWindow(r)
  PROVE  Puts
<1> SUFFICES ASSUME NEW s \in Slots
             PROVE  IF s < dicPos \/ s >= dicPos' THEN dic'[s] = dic[s]
                    ELSE dic'[s] = outPos + (s - dicPos)
                         \/ (~Trusted' /\ dic'[s] = Garbage)
  BY DEF Puts
<1>1. CASE s < dicPos \/ s >= dicPos + n
  BY <1>1 DEF CopyMatch
<1>2. CASE ~(s < dicPos \/ s >= dicPos + n)
  <2>1. dic'[s] = IF right /\ Faithful(r, s - dicPos)
                  THEN outPos + (s - dicPos) ELSE Garbage
    BY <1>2 DEF CopyMatch
  <2>2. s - dicPos \in Nat
    BY <1>2, CoreConstants DEF Core, CoreWindow, Slots
  <2>3. n > 0
    BY <1>2, CoreConstants DEF Core, CoreWindow, Slots
  <2>4. Trusted' => right /\ Faithful(r, s - dicPos)
    BY <2>2, <2>3, FaithfulExact
  <2> QED
    BY <1>2, <2>1, <2>4
<1> QED
  BY <1>1, <1>2

\* A step that puts nothing.
LEMMA StillPuts ==
  ASSUME Core, UNCHANGED <<dic, dicPos>>
  PROVE  Puts
BY CoreConstants DEF Puts, Core, CoreWindow, Slots

----------------------------------------------------------------------------
(* An encoder's stream: the decoder knows where in the output it is.       *)

\* No symbol begins beyond 4 GiB less the longest match.
Below4GiB == MaxOut + SpecLen <= Word

\* The bytes decoded and the match under way are what the symbols stand
\* for, and processedPos counts the bytes since the dictionary reset.
Known ==
  Trusted => /\ coded = outPos + Pend /\ coded < Word
             /\ processedPos = outPos - base
             /\ FullDic

\* The match under way, and the one that a literal after a match is compared
\* with, lie within the dictionary.
Linked  == Trusted /\ Pend > 0 => InWindow(reps[1])
Context == Trusted /\ state >= numLitStates => InWindow(reps[1])

Exact == Tags /\ Known /\ Linked /\ Context

LEMMA KnownKept ==
  ASSUME Core, Counts, Behind, Known,
         NEW o \in Nat, outPos' = o, outPos <= o,
         NEW c \in Nat, coded' = c, coded <= c, remainLen' \in Nat,
         UNCHANGED <<base, dicBufSize>>,
         Trusted' => Trusted /\ c < Word
  PROVE  Known'
<1> SUFFICES ASSUME Trusted'
             PROVE  /\ coded' = outPos' + Pend' /\ coded' < Word
                    /\ processedPos' = outPos' - base'
                    /\ FullDic'
  BY DEF Known
<1>1. /\ outPos \in Nat /\ base \in Nat /\ coded \in Nat
      /\ processedPos \in 0 .. (Word - 1) /\ base <= outPos
  BY CoreConstants DEF Core, CoreWindow
<1>2. PICK p \in Nat : p = Pend
  BY PendType, CoreConstants DEF Core, CoreWindow
<1>3. PICK q \in Nat : q = Pend'
  BY CoreConstants DEF Pend
<1>4. /\ coded = outPos + p /\ processedPos = outPos - base /\ FullDic
      /\ c < Word
  BY <1>2 DEF Known
<1>5. c = coded + (o + q) - (outPos + p)
  BY <1>2, <1>3 DEF Counts
<1>6. c = o + q
  BY <1>1, <1>4, <1>5
<1>7. Plus32(processedPos, o - outPos) = o - base
  BY <1>1, <1>4, <1>6, CoreConstants DEF Plus32
<1>8. processedPos' = o - base
  BY <1>7 DEF Counts
<1>9. FullDic'
  BY <1>4, CountsKept
<1> QED
  BY <1>3, <1>4, <1>6, <1>8, <1>9

\* An engine reads no symbol that would take coded to 2^32.
LEMMA EngineKnown ==
  ASSUME Below4GiB, Core, Behind, Owed, Known, Engine \/ Marking
  PROVE  Known' /\ Behind' /\ (FullDic => FullDic') /\ (Trusted' => Trusted)
<1>1. Core' /\ InStep /\ Counts
  BY EngineCore, EngineCounts
<1>2. /\ tainted' = FALSE => tainted = FALSE
      /\ \/ coded' = coded
         \/ /\ coded' \in coded .. (coded + SpecLen) /\ remainLen = 0
            /\ tainted' = FALSE => outPos < MaxOut
  BY EngineReads
<1>3. /\ outPos' \in Nat /\ coded' \in Nat /\ remainLen' \in Nat
      /\ tainted' \in BOOLEAN /\ tainted \in BOOLEAN
  BY <1>1, CoreConstants DEF Core, CoreWindow, CoreFlags
<1>4. PICK o \in Nat : o = outPos'
  BY <1>3
<1>5. PICK c \in Nat : c = coded'
  BY <1>3
<1>6. outPos <= o
  <2>1. dicPos' \in Nat
    BY <1>1, CoreConstants DEF Core, CoreWindow
  <2>2. PICK d \in Nat : d = dicPos'
    BY <2>1
  <2>3. dicPos <= d /\ o = outPos + (d - dicPos)
    BY <1>1, <1>4, <2>2 DEF InStep
  <2>4. dicPos \in Nat /\ outPos \in Nat
    BY CoreConstants DEF Core, CoreWindow
  <2> QED
    BY <2>3, <2>4
<1>7. coded <= c
  BY <1>2, <1>5, CoreConstants DEF Core, CoreWindow
<1>8. Trusted' => Trusted
  BY <1>1, <1>2, <1>3 DEF Trusted, InStep, geometry
<1>9. Trusted' => c < Word
  <2> SUFFICES ASSUME Trusted' PROVE c < Word
    OBVIOUS
  <2>1. Trusted /\ tainted' = FALSE
    BY <1>3, <1>8 DEF Trusted
  <2>2. coded = outPos + Pend /\ coded < Word
    BY <2>1 DEF Known
  <2>3. CASE c = coded
    BY <2>2, <2>3
  <2>4. CASE c \in coded .. (coded + SpecLen) /\ remainLen = 0 /\ outPos < MaxOut
    <3>1. Pend = 0
      BY <2>4, CoreConstants DEF Pend
    <3>2. outPos \in Nat /\ coded \in Nat
      BY DEF Core, CoreWindow
    <3> QED
      BY <2>2, <2>4, <3>1, <3>2, CoreConstants DEF Below4GiB
  <2> QED
    BY <1>2, <1>5, <2>1, <2>3, <2>4
<1>10. UNCHANGED <<base, dicBufSize>>
  BY <1>1 DEF InStep, geometry
<1>11. Known'
  BY <1>1, <1>3, <1>4, <1>5, <1>6, <1>7, <1>8, <1>9, <1>10, KnownKept
<1>12. Behind' /\ (FullDic => FullDic')
  BY <1>1, <1>3, <1>4, <1>5, <1>6, <1>7, <1>10, CountsKept
<1> QED
  BY <1>8, <1>11, <1>12

\* A symbol of a trusted stream is decoded where it belongs.
LEMMA RightPlace ==
  ASSUME Core, Known, Decoding, NEW ok \in BOOLEAN, ok, Trusted
  PROVE  RightSymbol(ok)
<1>1. remainLen = 0
  BY DecodingRoom
<1>2. Pend = 0
  BY <1>1, CoreConstants DEF Pend
<1>3. /\ outPos \in Nat /\ coded \in Nat /\ base \in Nat
      /\ processedPos \in 0 .. (Word - 1)
  BY CoreConstants DEF Core, CoreWindow
<1>4. coded = outPos /\ processedPos = outPos - base
  BY <1>2, <1>3 DEF Known
<1>5. (outPos - base) % Word = outPos - base
  BY <1>3, <1>4, CoreConstants
<1> QED
  BY <1>4, <1>5 DEF RightSymbol, Trusted

----------------------------------------------------------------------------
(* An encoder's stream: every byte is decoded in its place. *)

\* A distance within the window stays there as the output grows.
LEMMA InWindowKept ==
  ASSUME Core, NEW r \in Nat, reps'[1] = r, InWindow(r),
         NEW o \in Nat, outPos' = o, outPos <= o,
         UNCHANGED <<base, dicBufSize>>
  PROVE  InWindow(reps[1])'
<1>1. /\ outPos \in Nat /\ base \in Nat /\ r <= dicBufSize /\ r <= outPos - base
  BY CoreConstants DEF Core, CoreWindow, InWindow
<1>2. r <= o - base
  BY <1>1
<1> QED
  BY <1>1, <1>2 DEF InWindow

\* What the bytes of a step do to the invariant: nothing, if it leaves
\* coder and distances alone.
LEMMA StepLinked ==
  ASSUME Core, Linked, Context, UNCHANGED reps,
         Pend' > 0 => Pend > 0, state' >= numLitStates => state >= numLitStates,
         NEW o \in Nat, outPos' = o, outPos <= o,
         UNCHANGED <<base, dicBufSize>>, Trusted' => Trusted
  PROVE  Linked' /\ Context'
<1>1. PICK r \in Nat : r = reps[1]
  BY DEF Core, CoreWindow
<1>2. InWindow(reps[1]) => InWindow(reps[1])'
  BY <1>1, InWindowKept
<1>3. Linked'
  BY <1>2 DEF Linked
<1>4. Context'
  BY <1>2 DEF Context, numLitStates
<1> QED
  BY <1>3, <1>4

\* writeRem puts the bytes of the match that was interrupted.
LEMMA WriteRemPuts ==
  ASSUME Core, Exact, remainLen < SpecLen,
         NEW lim \in Int, dicPos <= lim, lim <= dicBufSize, NEW check,
         WriteRem(lim, check), UNCHANGED <<geometry, history>>
  PROVE  Puts
<1>0. RemBytes(lim) \in 0 .. remainLen /\ remainLen \in Nat
  BY CoreConstants DEF RemBytes, Lesser, Core, CoreWindow
<1>1. PICK n \in Nat : n = RemBytes(lim) /\ n <= remainLen
  BY <1>0
<1>2. PICK r \in Nat \ {0} : r = reps[1]
  BY DEF Core, CoreWindow
<1>3. PICK right \in BOOLEAN : right = (~tainted /\ outPos + n <= coded)
  OBVIOUS
<1>4. dicPos' = dicPos + n /\ dic' = CopyMatch(n, r, right)
  BY <1>1, <1>2, <1>3 DEF WriteRem, Advance
<1>5. n > 0 /\ Trusted' => Trusted /\ right /\ InWindow(r)
  <2> SUFFICES ASSUME n > 0, Trusted' PROVE Trusted /\ right /\ InWindow(r)
    OBVIOUS
  <2>1. Trusted
    BY DEF Trusted, geometry, history
  <2>2. Pend = remainLen /\ remainLen \in Nat
    BY CoreConstants DEF Pend, Core, CoreWindow
  <2>3. coded = outPos + Pend
    BY <2>1 DEF Exact, Known
  <2>4. outPos + n <= coded
    BY <1>1, <2>2, <2>3 DEF Core, CoreWindow
  <2>5. Pend > 0
    BY <1>1, <2>2
  <2> QED
    BY <1>2, <1>3, <2>1, <2>4, <2>5 DEF Exact, Linked, Trusted
<1> QED
  BY <1>2, <1>3, <1>4, <1>5, CopyPuts DEF Exact

\* The context of a literal is in the dictionary, wherever the ring turns.
LEMMA ContextExact ==
  ASSUME Core, Exact, Trusted, Decoding
  PROVE  LiteralContext
<1>1. remainLen = 0
  BY DecodingRoom
<1>2. Pend = 0
  BY <1>1, CoreConstants DEF Pend
<1>3. /\ outPos \in Nat /\ base \in Nat /\ base <= outPos
      /\ dicBufSize \in Nat \ {0} /\ dicPos \in 0 .. dicBufSize
  BY CoreConstants DEF Core, CoreWindow
<1>4. processedPos = outPos - base
      /\ (checkDicSize # 0 => dicBufSize <= outPos - base)
  BY <1>2, <1>3 DEF Exact, Known, FullDic
<1> DEFINE prev == IF dicPos = 0 THEN dicBufSize - 1 ELSE dicPos - 1
<1>5. prev \in Slots /\ At(prev) = outPos - 1
  BY <1>3 DEF At, Slots
<1>6. processedPos # 0 \/ checkDicSize # 0 => base <= outPos - 1
  BY <1>3, <1>4
<1>7. processedPos # 0 \/ checkDicSize # 0 => dic[prev] = outPos - 1
  BY <1>5, <1>6 DEF Exact, Tags
<1>8. ~(processedPos # 0 \/ checkDicSize # 0) => outPos = base
  BY <1>3, <1>4
<1>9. state >= numLitStates => Faithful(reps[1], 0)
  BY FaithfulExact DEF Exact, Context, Core, CoreWindow
<1> HIDE DEF prev
<1> QED
  BY <1>7, <1>8, <1>9 DEF LiteralContext, prev

LEMMA LiteralExact ==
  ASSUME Core, Exact, NEW ok \in BOOLEAN, Literal(ok),
         Trusted' => Trusted /\ ok
  PROVE  Puts /\ Linked' /\ Context'
<1>1. Decoding /\ dicPos' = dicPos + 1
  BY DEF Literal, Input, Advance
<1>2. dicPos \in Slots /\ dicPos \in Int
  BY <1>1, DecodingRoom, CoreConstants DEF Slots, Core, CoreWindow
<1>3. Trusted' => RightSymbol(ok) /\ LiteralContext
  BY <1>1, RightPlace, ContextExact DEF Exact
<1>4. Puts
  <2> SUFFICES ASSUME NEW s \in Slots
               PROVE  IF s < dicPos \/ s >= dicPos' THEN dic'[s] = dic[s]
                      ELSE dic'[s] = outPos + (s - dicPos)
                           \/ (~Trusted' /\ dic'[s] = Garbage)
    BY DEF Puts
  <2>1. dic' = [dic EXCEPT ![dicPos] =
                  IF RightSymbol(ok) /\ LiteralContext THEN outPos ELSE Garbage]
        /\ dic \in [Slots -> Nat \cup {Garbage}]
    BY DEF Literal, Core, CoreWindow
  <2>2. CASE s = dicPos
    <3>1. dic'[s] = outPos \/ (~Trusted' /\ dic'[s] = Garbage)
      BY <1>2, <1>3, <2>1, <2>2
    <3>2. outPos + (s - dicPos) = outPos /\ ~(s < dicPos \/ s >= dicPos + 1)
      BY <1>2, <2>2 DEF Core, CoreWindow
    <3> QED
      BY <1>1, <3>1, <3>2
  <2>3. CASE s # dicPos
    <3>1. dic'[s] = dic[s]
      BY <2>1, <2>3
    <3>2. s < dicPos \/ s >= dicPos + 1
      BY <1>2, <2>3 DEF Slots
    <3> QED
      BY <1>1, <3>1, <3>2
  <2> QED
    BY <2>2, <2>3
<1>5. Pend' = 0
  BY <1>1, DecodingRoom, CoreConstants DEF Literal, Pend
<1>6. state' < numLitStates /\ state' \in Int
  BY DEF Literal, LiteralState, numLitStates, Core, CoreWindow
<1> QED
  BY <1>4, <1>5, <1>6 DEF Linked, Context, numLitStates

\* A copy at distance reps'[1], which the encoder meant if the stream is
\* trusted.
LEMMA CopyExact ==
  ASSUME Core, Core', Exact, Decoding, NEW ok \in BOOLEAN,
         NEW n \in Nat, Advance(n), UNCHANGED geometry,
         NEW r \in Nat \ {0}, reps'[1] = r, Encodable(ok, r),
         dic' = CopyMatch(n, r, RightSymbol(ok)),
         Trusted' => Trusted /\ ok
  PROVE  Puts /\ Linked' /\ Context'
<1>1. dicPos' = dicPos + n /\ outPos' = outPos + n
  BY DEF Advance
<1>2. Trusted' => Trusted /\ RightSymbol(ok) /\ InWindow(r)
  BY RightPlace DEF Exact, Encodable, Trusted, InWindow
<1>3. PICK right \in BOOLEAN : right = RightSymbol(ok)
  BY DEF RightSymbol
<1>4. Puts
  BY <1>1, <1>2, <1>3, CopyPuts DEF Exact
<1>5. PICK o \in Nat : o = outPos' /\ outPos <= o
  <2>1. outPos + n \in Nat /\ outPos <= outPos + n
    BY DEF Core, CoreWindow
  <2> QED
    BY <1>1, <2>1
<1>6. Trusted' => InWindow(reps[1])'
  BY <1>2, <1>5, InWindowKept DEF geometry
<1> QED
  BY <1>4, <1>6 DEF Linked, Context

LEMMA SymbolExact ==
  ASSUME Core, Exact, Symbol, Trusted' => Trusted
  PROVE  Puts /\ Linked' /\ Context'
<1>1. Core'
  BY EngineCore DEF Engine
<1>2. ASSUME NEW ok \in BOOLEAN, NEW len \in Nat, Input(ok, len)
      PROVE  Decoding /\ (Trusted' => Trusted /\ ok)
  <2>1. tainted' = (tainted \/ ~ok) /\ Decoding
    BY <1>2 DEF Input
  <2> QED
    BY <2>1 DEF Trusted
<1>3. ASSUME NEW ok \in BOOLEAN, Literal(ok)
      PROVE  Puts /\ Linked' /\ Context'
  BY <1>2, <1>3, LiteralExact DEF Literal
<1>4. ASSUME NEW ok \in BOOLEAN, ShortRep(ok)
      PROVE  Puts /\ Linked' /\ Context'
  <2>1. PICK r \in Nat \ {0} : r = reps[1]
    BY DEF Core, CoreWindow
  <2>2. /\ Encodable(ok, r) /\ Advance(1) /\ UNCHANGED geometry /\ reps'[1] = r
        /\ dic' = CopyMatch(1, r, RightSymbol(ok)) /\ Input(ok, 1)
    BY <1>4, <2>1 DEF ShortRep
  <2> QED
    BY <1>1, <1>2, <2>2, CopyExact
<1>5. ASSUME NEW ok \in BOOLEAN, NEW len \in Lens, NEW r \in Nat \ {0},
             reps'[1] = r, Encodable(ok, r), Input(ok, len), MatchBytes(len, ok)
      PROVE  Puts /\ Linked' /\ Context'
  <2>1. /\ len \in Nat /\ Fit(len) \in 0 .. len /\ Advance(Fit(len))
        /\ dic' = CopyMatch(Fit(len), r, RightSymbol(ok)) /\ UNCHANGED geometry
    BY <1>5, MatchBytesFacts
  <2>2. Fit(len) \in Nat
    BY <2>1
  <2> QED
    BY <1>1, <1>2, <1>5, <2>1, <2>2, CopyExact
<1>6. ASSUME NEW ok \in BOOLEAN, NEW len \in Lens, NEW i \in 1 .. 4,
             Rep(i, len, ok)
      PROVE  Puts /\ Linked' /\ Context'
  <2>1. reps'[1] = reps[i] /\ reps[i] \in Nat \ {0}
    BY <1>6 DEF Rep, UseRep, Core, CoreWindow
  <2> QED
    BY <1>5, <1>6, <2>1 DEF Rep
<1>7. ASSUME NEW ok \in BOOLEAN, NEW len \in Lens, NEW d \in Dists,
             Match(d, len, ok)
      PROVE  Puts /\ Linked' /\ Context'
  <2>1. reps'[1] = d /\ d \in Nat \ {0}
    BY <1>7, CoreConstants DEF Match, PushRep
  <2> QED
    BY <1>5, <1>7, <2>1 DEF Match
<1>8. CASE RefuseShortRep \/ \E d \in Dists : RefuseMatch(d)
  <2>1. UNCHANGED <<dic, dicPos>> /\ tainted' = TRUE
    BY <1>8 DEF RefuseShortRep, RefuseMatch, window
  <2>2. ~Trusted'
    BY <2>1 DEF Trusted
  <2> QED
    BY <2>1, <2>2, StillPuts DEF Linked, Context
<1> QED
  BY <1>3, <1>4, <1>6, <1>7, <1>8 DEF Symbol

\* The steps between symbols put the rest of a match, or nothing.
LEMMA BetweenPuts ==
  ASSUME Core, Exact, Owed, (Engine /\ ~Symbol) \/ Marking
  PROVE  Puts
<1>1. CASE AsmEntry
  BY <1>1, StillPuts, WriteRemPuts
     DEF AsmEntry, Pending, window, Core, CoreWindow, CoreControl, InEngine
<1>2. CASE GoEntry
  BY <1>2, StillPuts, WriteRemPuts
     DEF GoEntry, engine, Pending, Core, CoreWindow, CoreControl, InEngine
<1>3. CASE AsmReturn
  <2>1. remainLen # SpecLen => remainLen < SpecLen
    BY <1>3, CoreConstants DEF AsmReturn, Owed, Core, CoreWindow
  <2> QED
    BY <1>3, <2>1, StillPuts, WriteRemPuts
       DEF AsmReturn, Core, CoreWindow, CoreControl, InEngine
<1>4. CASE Control
  BY <1>4, StillPuts DEF Control, AsmRun, AsmLeave, AsmReadError, GoReturn,
     window
<1>5. CASE Marking
  BY <1>5, StillPuts DEF Marking, EndMarker
<1> QED
  BY <1>1, <1>2, <1>3, <1>4, <1>5 DEF Engine, Control

LEMMA StepSize ==
  ASSUME Core, Core', InStep
  PROVE  \E n \in Nat : /\ dicPos' = dicPos + n /\ outPos' = outPos + n
                        /\ outPos + n \in Nat
<1>1. dicPos' \in Nat
  BY CoreConstants DEF Core, CoreWindow
<1>2. PICK d \in Nat : d = dicPos'
  BY <1>1
<1>3. dicPos \in Nat /\ outPos \in Nat /\ dicPos <= d
  BY <1>2, CoreConstants DEF Core, CoreWindow, InStep
<1>4. d - dicPos \in Nat /\ dicPos + (d - dicPos) = d
      /\ outPos + (d - dicPos) \in Nat
  BY <1>3
<1>5. outPos' = outPos + (d - dicPos)
  BY <1>2 DEF InStep
<1> QED
  BY <1>2, <1>4, <1>5

\* On an encoder's stream a step of an engine leaves every byte in its place.
LEMMA EngineExact ==
  ASSUME Below4GiB, Core, Behind, Owed, Exact, Engine \/ Marking
  PROVE  Exact'
<1>1. Core' /\ InStep /\ Counts
  BY EngineCore, EngineCounts
<1>2. Known' /\ (Trusted' => Trusted)
  BY EngineKnown DEF Exact
<1>3. PICK n \in Nat : /\ dicPos' = dicPos + n /\ outPos' = outPos + n
                       /\ outPos + n \in Nat
  BY <1>1, StepSize
<1>4. UNCHANGED <<base, dicBufSize>>
  BY <1>1 DEF InStep, geometry
<1>5. Puts /\ Linked' /\ Context'
  <2>1. CASE Symbol
    BY <1>2, <2>1, SymbolExact
  <2>2. CASE ~Symbol
    <3>1. UNCHANGED <<state, reps>>
      BY <2>2 DEF Engine, AsmEntry, AsmRun, AsmLeave, AsmReadError, AsmReturn,
         GoEntry, GoReturn, Marking, EndMarker
    <3>2. coded' = coded /\ coded \in Nat
      BY <2>2 DEF Engine, AsmEntry, AsmRun, AsmLeave, AsmReadError, AsmReturn,
         GoEntry, GoReturn, Marking, EndMarker, history, Core, CoreWindow
    <3>3. PICK p \in Nat : p = Pend
      BY PendType, CoreConstants DEF Core, CoreWindow
    <3>4. PICK q \in Nat : q = Pend'
      BY <1>1, CoreConstants DEF Pend, Core, CoreWindow
    <3>5. coded = coded + ((outPos + n) + q) - (outPos + p)
      BY <1>1, <1>3, <3>2, <3>3, <3>4 DEF Counts
    <3>6. q > 0 => p > 0
      BY <3>2, <3>5 DEF Core, CoreWindow
    <3>7. Linked' /\ Context'
      <4>1. outPos <= outPos + n
        BY DEF Core, CoreWindow
      <4> QED
        BY <1>2, <1>3, <1>4, <3>1, <3>3, <3>4, <3>6, <4>1, StepLinked DEF Exact
    <3> QED
      BY <2>2, <3>7, BetweenPuts
  <2> QED
    BY <2>1, <2>2
<1>6. Tags'
  BY <1>2, <1>3, <1>4, <1>5, TagsKept DEF Exact
<1> QED
  BY <1>2, <1>5, <1>6 DEF Exact

----------------------------------------------------------------------------
(* Losing the place in the input changes nothing else, and leaves nothing  *)
(* to be trusted.                                                          *)

LEMMA StrayKeeps ==
  ASSUME Stray
  PROVE  /\ InEngine /\ InEngine' /\ ~Trusted' /\ ~tainted
         /\ conforming /\ ~conforming'
         /\ UNCHANGED <<dic, dicPos, processedPos, checkDicSize, remainLen,
                        outPos, limit, limit2, startDicPos, derr, dicBufSize,
                        propDicSize, base, readPos, state, reps, pc, ioErr,
                        coded, tainted>>
BY DEF Stray, Decoding, InEngine, Trusted, window, engine, history

LEMMA StrayCore ==
  ASSUME Core, Stray
  PROVE  Core'
<1>1. CoreWindow'
  BY StrayKeeps DEF Core, CoreWindow, Slots
<1>2. CoreControl'
  BY StrayKeeps DEF Core, CoreControl
<1>3. CoreFlags'
  BY StrayKeeps DEF Core, CoreFlags
<1> QED
  BY <1>1, <1>2, <1>3 DEF Core

LEMMA StrayBounds ==
  ASSUME Owed, Behind, Stray
  PROVE  Owed' /\ Behind' /\ (FullDic => FullDic')
BY StrayKeeps DEF Owed, Behind, FullDic, Pend

LEMMA StrayExact ==
  ASSUME Exact, Stray
  PROVE  Exact'
<1>1. Tags'
  BY StrayKeeps DEF Exact, Tags, At, Slots
<1> QED
  BY <1>1, StrayKeeps DEF Exact, Known, Linked, Context

----------------------------------------------------------------------------
(* What the two readers make of it. *)

\* Turning the ring leaves every byte in its place.
LEMMA WrapTags ==
  ASSUME Core, Tags, Wrap, Buffered = 0,
         UNCHANGED <<dic, outPos, base, dicBufSize, conforming, tainted>>
  PROVE  Tags'
<1>1. /\ outPos \in Nat /\ base \in Nat /\ dicBufSize \in Nat
      /\ dicPos \in 0 .. dicBufSize /\ base <= outPos
      /\ \A s \in Slots : s \in 0 .. (dicBufSize - 1)
  BY CoreConstants DEF Core, CoreWindow, Slots
<1>2. Slots' = Slots /\ (Trusted' <=> Trusted)
  BY DEF Slots, Trusted
<1>3. dicPos' = Wrapped
  BY DEF Wrap
<1>4. Wrapped \in 0 .. dicBufSize /\ base <= outPos - Wrapped
  BY <1>1 DEF Wrapped, Tags
<1>5. ASSUME NEW s \in Slots PROVE At(s)' = At(s)
  BY <1>1, <1>3 DEF At, Wrapped
<1>6. base' <= outPos' - dicPos'
  BY <1>3, <1>4
<1>7. ASSUME NEW s \in Slots, base' <= At(s)'
      PROVE  dic'[s] = At(s)' \/ (~Trusted' /\ dic'[s] = Garbage)
  BY <1>2, <1>5, <1>7 DEF Tags
<1> QED
  BY <1>2, <1>6, <1>7 DEF Tags

\* The n bytes after readPos are the next n of the output.
LEMMA DeliveredInOrder ==
  ASSUME Core, Tags, delivered = outPos - Buffered,
         NEW n \in Nat, n <= Buffered, delivered' = delivered + n
  PROVE  \A i \in 0 .. (delivered' - delivered - 1) :
           dic[readPos + i] \in {delivered + i} \cup
                                (IF conforming /\ ~tainted THEN {} ELSE {Garbage})
<1>1. /\ outPos \in Nat /\ dicPos \in Nat /\ readPos \in Nat /\ base \in Nat
      /\ readPos <= dicPos /\ dicPos <= dicBufSize /\ dicBufSize \in Nat
  BY CoreConstants DEF Core, CoreWindow
<1>2. delivered = outPos - (dicPos - readPos)
  BY DEF Buffered
<1>3. delivered' - delivered - 1 = n - 1
  BY <1>1, <1>2
<1> SUFFICES ASSUME NEW i \in 0 .. (n - 1)
             PROVE  dic[readPos + i] \in {delivered + i} \cup
                        (IF conforming /\ ~tainted THEN {} ELSE {Garbage})
  BY <1>3
<1>4. readPos + i \in Slots /\ At(readPos + i) = delivered + i
  BY <1>1, <1>2 DEF Buffered, Slots, At
<1>5. base <= At(readPos + i)
  BY <1>1, <1>2, <1>4 DEF Tags
<1> QED
  BY <1>4, <1>5 DEF Tags, Trusted

\* A distance that is accepted lies within the stream, if the dictionary is
\* marked full only when it is.
LEMMA AcceptedWithin ==
  ASSUME Core, Behind, FullDic
  PROVE  NewDistanceInStream
<1> SUFFICES ASSUME Decoding PROVE DistLimit <= outPos - base
  BY DEF NewDistanceInStream
<1>1. Pend = 0
  BY DecodingRoom, CoreConstants DEF Pend
<1>2. /\ outPos \in Nat /\ base \in Nat
      /\ checkDicSize # 0 => checkDicSize = dicBufSize
  BY CoreConstants DEF Core, CoreWindow
<1>3. checkDicSize # 0 => checkDicSize <= outPos - base
  BY <1>1, <1>2 DEF FullDic
<1> QED
  BY <1>3 DEF DistLimit, Behind

\* And an encoder's distance is accepted, if the decoder knows its place.
LEMMA LegalAccepted ==
  ASSUME Core, Known
  PROVE  LegalDistanceAccepted
<1> SUFFICES ASSUME conforming, ~tainted PROVE Available <= DistLimit
  BY DEF LegalDistanceAccepted
<1>1. processedPos = outPos - base
  BY DEF Known, Trusted
<1>2. /\ outPos \in Nat /\ base \in Nat /\ dicBufSize \in Nat
      /\ checkDicSize # 0 => checkDicSize = dicBufSize
  BY CoreConstants DEF Core, CoreWindow
<1>3. Available <= outPos - base /\ Available <= dicBufSize
  BY <1>2 DEF Available, Lesser
<1>4. DistLimit = outPos - base \/ DistLimit = dicBufSize
  BY <1>1, <1>2 DEF DistLimit
<1> QED
  BY <1>3, <1>4
----------------------------------------------------------------------------
(* How a stream ends or fails.                                             *)

\* Only an end marker makes an engine return io.EOF, and only one leaves
\* remainLen at matchSpecLenStart.
LEMMA EngineEnds ==
  ASSUME Core, Owed, Engine
  PROVE  /\ remainLen' = SpecLen => remainLen = SpecLen
         /\ derr' = "EOF" => remainLen = SpecLen \/ (pc # "decode" /\ derr = "EOF")
         /\ pc' # "decode"
<1> DEFINE Ends == /\ remainLen' = SpecLen => remainLen = SpecLen
                   /\ derr' = "EOF" => remainLen = SpecLen
                                         \/ (pc # "decode" /\ derr = "EOF")
                   /\ pc' # "decode"
<1> SUFFICES Ends
  OBVIOUS
<1> HIDE DEF Ends
<1>1. ASSUME NEW lim \in Int, NEW check, dicPos <= lim, WriteRem(lim, check)
      PROVE  remainLen' \in 0 .. remainLen
  BY <1>1 DEF WriteRem, RemBytes, Lesser, Core, CoreWindow
<1>2. /\ remainLen \in Nat /\ SpecLen \in Nat \ {0} /\ limit \in Int
      /\ InEngine => dicPos <= limit
      /\ derr # "EOF" \/ derr = "EOF"
  BY CoreConstants DEF Core, CoreWindow, CoreControl
<1>3. CASE AsmEntry
  <2>1. derr' = "nil" /\ pc' # "decode" /\ pc = "decode"
    BY <1>3 DEF AsmEntry, AfterRem
  <2>2. CASE Pending /\ WriteRem(limit, checkDicSize)
    <3>1. remainLen' \in 0 .. remainLen
      BY <1>1, <1>2, <2>1, <2>2 DEF InEngine
    <3>2. PICK r \in 0 .. remainLen : remainLen' = r
      BY <3>1
    <3> QED
      BY <1>2, <2>1, <2>2, <3>2 DEF Ends, Pending
  <2>3. CASE UNCHANGED window
    BY <2>1, <2>3 DEF Ends, window
  <2> QED
    BY <1>3, <2>2, <2>3 DEF AsmEntry
<1>4. CASE AsmRun
  BY <1>2, <1>4 DEF AsmRun, AsmLoop, Ends
<1>5. CASE AsmLeave \/ AsmReadError
  BY <1>5 DEF AsmLeave, AsmReadError, AsmLoop, window, engine, Ends
<1>6. CASE AsmReturn
  <2>0. pc = "asmNext" /\ pc' # "decode"
    BY <1>6 DEF AsmReturn, AfterRem
  <2>1. CASE remainLen = SpecLen
    BY <2>0, <2>1 DEF Ends
  <2>2. CASE remainLen # SpecLen
    <3>1. PICK check : WriteRem(limit, check) /\ derr' = derr
      BY <1>6, <2>2 DEF AsmReturn
    <3>2. remainLen' \in 0 .. remainLen
      BY <1>1, <1>2, <2>0, <3>1 DEF InEngine
    <3>3. PICK r \in 0 .. remainLen : remainLen' = r
      BY <3>2
    <3>4. remainLen < SpecLen
      BY <1>2, <2>0, <2>2 DEF Owed
    <3> QED
      BY <1>2, <2>0, <3>1, <3>3, <3>4 DEF Ends
  <2> QED
    BY <2>1, <2>2
<1>7. CASE GoEntry
  <2>1. derr' = derr /\ pc' # "decode" /\ pc = "goEntry"
    BY <1>7 DEF GoEntry, AfterRem, engine
  <2>2. CASE Pending /\ WriteRem(limit, checkDicSize)
    <3>1. remainLen' \in 0 .. remainLen
      BY <1>1, <1>2, <2>1, <2>2 DEF InEngine
    <3>2. PICK r \in 0 .. remainLen : remainLen' = r
      BY <3>1
    <3> QED
      BY <1>2, <2>1, <2>2, <3>2 DEF Ends, Pending
  <2>3. CASE remainLen' = 0
    BY <1>2, <2>1, <2>3 DEF Ends
  <2> QED
    BY <1>7, <2>2, <2>3 DEF GoEntry
<1>8. CASE GoReturn
  BY <1>8 DEF GoReturn, window, Ends
<1>9. CASE Symbol
  <2>1. Decoding /\ pc \in {"go", "asmFirst", "asmNext"} /\ Continue # "decode"
    BY <1>9 DEF Symbol, Literal, ShortRep, Rep, Match, Input, RefuseShortRep,
       RefuseMatch, Decoding, Continue
  <2>2. CASE \E ok \in BOOLEAN : Literal(ok) \/ ShortRep(ok)
    BY <2>1, <2>2 DEF Literal, ShortRep, engine, Ends
  <2>3. ASSUME NEW ok \in BOOLEAN, NEW len \in Lens, Input(ok, len), MatchBytes(len, ok)
        PROVE  Ends
    <3>1. /\ len \in Nat /\ len < SpecLen /\ Fit(len) \in 0 .. len
          /\ remainLen' = len - Fit(len) /\ pc' \in {Continue, "fault"}
          /\ UNCHANGED engine
      BY <2>3, MatchBytesFacts
    <3>2. remainLen' # SpecLen
      BY <1>2, <3>1
    <3> QED
      BY <2>1, <3>1, <3>2 DEF engine, Ends
  <2>4. CASE \E ok \in BOOLEAN, i \in 1 .. 4, len \in Lens : Rep(i, len, ok)
    BY <2>3, <2>4 DEF Rep
  <2>5. CASE \E ok \in BOOLEAN, d \in Dists, len \in Lens : Match(d, len, ok)
    BY <2>3, <2>5 DEF Match
  <2>6. CASE RefuseShortRep
    BY <2>1, <2>6 DEF RefuseShortRep, window, engine, Ends
  <2>7. CASE \E d \in Dists : RefuseMatch(d)
    BY <1>2, <2>1, <2>7 DEF RefuseMatch, window, engine, Ends
  <2> QED
    BY <1>9, <2>2, <2>4, <2>5, <2>6, <2>7 DEF Symbol
<1> QED
  BY <1>3, <1>4, <1>5, <1>6, <1>7, <1>8, <1>9 DEF Engine, Ends

\* A symbol that was decoded wrongly or refused is about to be reported.
Failing ==
  \/ pc = "go" /\ ioErr
  \/ pc = "decoded" /\ derr = "ErrData"
  \/ pc = "fault"

LEMMA EngineFailing ==
  ASSUME Core, tainted => Failing, Engine \/ Marking
  PROVE  tainted' => Failing'
<1>1. CASE Failing
  <2>1. GoReturn /\ pc = "go" /\ ioErr
    BY <1>1 DEF Failing, Engine, AsmEntry, AsmRun, AsmLoop, AsmLeave, AsmReadError,
       AsmReturn, GoEntry, GoReturn, Symbol, Literal, ShortRep, Rep, Match, Input,
       RefuseShortRep, RefuseMatch, Marking, EndMarker, Decoding
  <2> QED
    BY <2>1 DEF GoReturn, Failing
<1>2. CASE ~Failing
  <2>1. tainted = FALSE
    BY <1>2 DEF Core, CoreFlags
  <2>2. CASE Symbol
    <3>1. ASSUME NEW ok \in BOOLEAN, NEW len, Input(ok, len), pc' \in {Continue, "fault"}
          PROVE  tainted' => Failing'
      <4>1. CASE ok = TRUE
        BY <2>1, <3>1, <4>1 DEF Input
      <4>2. CASE ok = FALSE
        BY <3>1, <4>2 DEF Input, Continue, Failing
      <4> QED
        BY <4>1, <4>2
    <3>2. CASE \E ok \in BOOLEAN : Literal(ok) \/ ShortRep(ok)
      BY <3>1, <3>2 DEF Literal, ShortRep
    <3>3. CASE \E ok \in BOOLEAN, i \in 1 .. 4, len \in Lens : Rep(i, len, ok)
      BY <3>1, <3>3 DEF Rep, MatchBytes
    <3>4. CASE \E ok \in BOOLEAN, d \in Dists, len \in Lens : Match(d, len, ok)
      BY <3>1, <3>4 DEF Match, MatchBytes
    <3>5. CASE RefuseShortRep
      BY <3>5 DEF RefuseShortRep, ShortRepRefused, Failing
    <3>6. CASE \E d \in Dists : RefuseMatch(d)
      BY <3>6 DEF RefuseMatch, Failing
    <3> QED
      BY <2>2, <3>2, <3>3, <3>4, <3>5, <3>6 DEF Symbol
  <2>3. CASE Engine /\ ~Symbol
    BY <2>1, <2>3 DEF Engine, AsmEntry, AsmRun, AsmLeave, AsmReadError, AsmReturn,
       GoEntry, GoReturn, history
  <2>4. CASE Marking
    <3>1. PICK ok \in BOOLEAN : EndMarker(ok)
      BY <2>4 DEF Marking
    <3>2. CASE ok = TRUE
      BY <2>1, <3>1, <3>2 DEF EndMarker
    <3>3. CASE ok = FALSE
      BY <3>1, <3>3 DEF EndMarker, Continue, Failing
    <3> QED
      BY <3>2, <3>3
  <2> QED
    BY <2>2, <2>3, <2>4
<1> QED
  BY <1>1, <1>2
=============================================================================
