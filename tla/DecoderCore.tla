---------------------------- MODULE DecoderCore ----------------------------
(***************************************************************************)
(* The part of golzma's decoder that the LZMA reader (Decoder.Read) and    *)
(* the LZMA2 reader (LZMA2Reader.Read) share: the sliding dictionary, the  *)
(* four repeat distances, the state of the symbol coder, the copy of a     *)
(* match that the end of the dictionary or of the output interrupts        *)
(* (writeRem), and the two engines that take turns on them: the assembly   *)
(* loop behind tryDecodeAsm, and decodeLoop.                               *)
(*                                                                         *)
(* The compressed input is the environment: it decides which symbol comes  *)
(* next, how many bytes are buffered, and when the source fails or ends.   *)
(* A byte of the dictionary is represented by what matters about it: the   *)
(* offset, in the output of the stream, of the byte the slot holds, or     *)
(* Garbage for anything else (memory never written for this stream, or a   *)
(* byte decoded from missing input or from a wrong context).  A byte is    *)
(* thus right exactly when it carries the offset where it is delivered.    *)
(***************************************************************************)
EXTENDS Integers

CONSTANTS
  Word,        \* 2^32: processedPos, checkDicSize and reps are uint32
  SpecLen,     \* matchSpecLenStart: the value of remainLen at the end marker
  Lens,        \* the lengths a match can have (2..273 in the code)
  Dists,       \* the distances (rep0 values) the input can encode
  Origins,     \* what may have written the input: TRUE for an LZMA encoder,
               \* FALSE for anything else
  HasAsm,      \* TRUE: an arm64 or amd64 build, which has the assembly
  MaxOut       \* bound: no symbol is read from the input past this offset

ASSUME CoreAssumption ==
  /\ SpecLen \in Nat \ {0}
  /\ Lens \subseteq 1 .. (SpecLen - 1)
  /\ Word \in Nat /\ SpecLen + 1 < Word
  /\ Dists \subseteq Nat \ {0}
  /\ Origins \subseteq BOOLEAN /\ HasAsm \in BOOLEAN
  /\ MaxOut \in Nat

VARIABLES
  dic,           \* slot -> offset of the output byte it holds, or Garbage
  dicBufSize, dicPos, readPos,
  propDicSize,   \* prop.dicSize
  state, reps, processedPos, checkDicSize, remainLen,
  pc,            \* where control is
  limit,         \* argument of tryDecodeAsm and decodeLoop
  limit2,        \* tryDecodeAsm: the limit given to the assembly
  startDicPos,   \* tryDecodeAsm: dicPos on entry
  ioErr,         \* decodeLoop: input ran out or a symbol was refused
  derr,          \* what the engines return: "nil", "EOF", "ErrData", "io"
  conforming,    \* history: what is read next is what an LZMA encoder wrote
  outPos,        \* history: bytes put into the dictionary by this stream
  base,          \* history: outPos at the last dictionary reset
  coded,         \* history: bytes that the symbols decoded so far stand for
  tainted        \* history: a symbol was decoded wrongly or refused

window  == <<dic, dicPos, processedPos, checkDicSize, remainLen, outPos>>
engine  == <<limit, limit2, startDicPos, derr>>
geometry == <<dicBufSize, propDicSize, base, readPos, conforming>>
coreVars == <<window, engine, geometry, state, reps, pc, ioErr, coded, tainted>>
history == <<coded, tainted>>

Garbage == -1
Slots   == 0 .. (dicBufSize - 1)
Lesser(a, b) == IF a <= b THEN a ELSE b

\* uint32 arithmetic.
Plus32(a, b)  == IF a + b < Word THEN a + b ELSE a + b - Word
Minus32(a, b) == IF a >= b THEN a - b ELSE a - b + Word

----------------------------------------------------------------------------
(* The symbol coder's twelve states. *)

numLitStates == 7

LiteralState == IF state < 4 THEN 0
                ELSE IF state < 10 THEN state - 3 ELSE state - 6
MatchState    == IF state < numLitStates THEN 7 ELSE 10
RepState      == IF state < numLitStates THEN 8 ELSE 11
ShortRepState == IF state < numLitStates THEN 9 ELSE 11

(* The repeat distances, rep0 first: a new distance pushes the oldest out, *)
(* a repeated one moves to the front.                                      *)
InitialReps == [k \in 1 .. 4 |-> 1]
PushRep(d)  == [k \in 1 .. 4 |-> IF k = 1 THEN d ELSE reps[k - 1]]
UseRep(i)   == [k \in 1 .. 4 |-> IF k = 1 THEN reps[i]
                                 ELSE IF k <= i THEN reps[k - 1] ELSE reps[k]]

----------------------------------------------------------------------------
(* The dictionary. *)

\* The index dicPos - r + dicBufSize is not negative, so that Go's index
\* expressions with distance r do not panic (and the assembly reads dic).
InReach(r) == r <= dicPos + dicBufSize

\* An access at distance r leaves dic.  (Go's % keeps the sign: exactly one
\* more turn of the dictionary gives index 0.)
Wild(r) == ~InReach(r) /\ (pc = "go" => (r - dicPos) % dicBufSize # 0)

\* The slot that lies r - o bytes behind dicPos, for o < r.
SourceSlot(r, o) == LET s == dicPos - r + o
                    IN  IF s < 0 THEN s + dicBufSize ELSE s

\* The j-th byte of a match at distance r is a copy of the byte which the
\* output has at the same place.
Faithful(r, j) ==
  LET o == j % r
  IN  InReach(r) /\ dic[SourceSlot(r, o)] = outPos - r + o

\* The dictionary after n bytes of a match at distance r; right tells whether
\* the stream has such a match there.
CopyMatch(n, r, right) ==
  [i \in Slots |->
     IF i < dicPos \/ i >= dicPos + n THEN dic[i]
     ELSE IF right /\ Faithful(r, i - dicPos)
          THEN outPos + (i - dicPos) ELSE Garbage]

Advance(n) ==
  /\ dicPos' = dicPos + n
  /\ processedPos' = Plus32(processedPos, n)
  /\ outPos' = outPos + n

\* Mutant: the dictionary counts as full one byte early.
CheckedEarly(c, p) == IF c = 0 /\ p + 1 >= propDicSize THEN propDicSize ELSE c

\* "if d.checkDicSize == 0 && d.processedPos >= d.prop.dicSize".
Checked(c, p) == IF c = 0 /\ p >= propDicSize THEN propDicSize ELSE c

\* Mutant: the last byte of a match does not count as pending.
PendingTwo == remainLen > 1 /\ remainLen < SpecLen

Pending == remainLen > 0 /\ remainLen < SpecLen

\* writeRem(lim): as much of the pending match as fits; and where control
\* goes after it, which is to next unless Go panics.
RemBytes(lim) == Lesser(remainLen, lim - dicPos)

WriteRem(lim, check) ==
  /\ dic' = CopyMatch(RemBytes(lim), reps[1],
                      ~tainted /\ outPos + RemBytes(lim) <= coded)
  /\ remainLen' = remainLen - RemBytes(lim)
  /\ Advance(RemBytes(lim))
  /\ checkDicSize' = Checked(check, processedPos')

AfterRem(lim, next) ==
  IF RemBytes(lim) > 0 /\ ~InReach(reps[1]) THEN "fault" ELSE next

----------------------------------------------------------------------------
(* One symbol.  Both engines decode the same symbols; only decodeLoop can  *)
(* run out of input in the middle of one (ok = FALSE): every bit it then   *)
(* reads is 0, so it carries out some symbol, and stops after it.          *)

Decoding ==
  \/ pc = "go" /\ dicPos < limit /\ ~ioErr /\ remainLen = 0
  \/ pc = "asmFirst"
  \/ pc = "asmNext" /\ dicPos < limit2 /\ remainLen = 0

Continue == IF pc = "asmFirst" THEN "asmNext" ELSE pc

\* A symbol of length len is read.
Input(ok, len) ==
  /\ Decoding
  /\ ok => outPos < MaxOut
  /\ ~ok => pc = "go"
  /\ ioErr' = ~ok
  /\ tainted' = (tainted \/ ~ok)
  /\ coded' = coded + len

\* The symbol comes out as the encoder meant it: it was decoded from real
\* input, with the decoder at the place in the output where it belongs and
\* (its probabilities depend on processedPos) knowing that place.
RightSymbol(ok) ==
  /\ ok /\ ~tainted
  /\ outPos = coded /\ processedPos = (outPos - base) % Word

\* An encoder refers back only to bytes of the stream, and no further than
\* the dictionary it declared.
Encodable(ok, d) ==
  conforming /\ ok /\ ~tainted => d <= outPos - base /\ d <= dicBufSize

\* The probability of a literal depends on the previous byte, and after a
\* match also on the byte at distance rep0.
LiteralContext ==
  LET prev == IF dicPos = 0 THEN dicBufSize - 1 ELSE dicPos - 1
  IN  /\ IF processedPos # 0 \/ checkDicSize # 0
         THEN dic[prev] = outPos - 1 ELSE outPos = base
      /\ state >= numLitStates => Faithful(reps[1], 0)

Literal(ok) ==
  /\ Input(ok, 1)
  /\ dic' = [dic EXCEPT ![dicPos] =
               IF RightSymbol(ok) /\ LiteralContext THEN outPos ELSE Garbage]
  /\ Advance(1)
  /\ state' = LiteralState
  /\ pc' = IF state >= numLitStates /\ Wild(reps[1])
           THEN "fault" ELSE Continue
  /\ UNCHANGED <<reps, checkDicSize, remainLen, engine, geometry>>

\* decodeLoop refuses a short rep before the first byte; the assembly does
\* not look.
ShortRepRefused == pc = "go" /\ checkDicSize = 0 /\ processedPos = 0

ShortRep(ok) ==
  /\ Input(ok, 1)
  /\ Encodable(ok, reps[1])
  /\ ~ShortRepRefused
  /\ dic' = CopyMatch(1, reps[1], RightSymbol(ok))
  /\ Advance(1)
  /\ state' = ShortRepState
  /\ pc' = IF Wild(reps[1]) THEN "fault" ELSE Continue
  /\ UNCHANGED <<reps, checkDicSize, remainLen, engine, geometry>>

RefuseShortRep ==
  /\ Decoding
  /\ ShortRepRefused
  /\ Encodable(TRUE, reps[1])
  /\ ioErr' = TRUE /\ tainted' = TRUE
  /\ UNCHANGED <<window, engine, geometry, state, reps, pc, coded>>

\* The copy at the end of a match or rep of length len, once reps' is known.
\* Only decodeLoop notices here that the dictionary is about to be full.
MatchBytes(len, ok) ==
  LET lim == IF pc = "go" THEN limit ELSE limit2
      n   == Lesser(len, lim - dicPos)
  IN  /\ dic' = CopyMatch(n, reps'[1], RightSymbol(ok))
      /\ remainLen' = len - n
      /\ Advance(n)
      /\ checkDicSize' =
           IF /\ pc = "go" /\ checkDicSize = 0
              /\ Minus32(propDicSize, processedPos) <= len
           THEN propDicSize ELSE checkDicSize
      /\ pc' = IF n > 0 /\ ~InReach(reps'[1]) THEN "fault" ELSE Continue
      /\ UNCHANGED <<engine, geometry>>

Rep(i, len, ok) ==
  /\ Input(ok, len)
  /\ Encodable(ok, reps[i])
  /\ reps' = UseRep(i)
  /\ state' = RepState
  /\ MatchBytes(len, ok)

\* Mutant: ">=" for ">" in the comparison with distLimit.
DistLimitExclusive == IF checkDicSize = 0 THEN processedPos - 1
                      ELSE checkDicSize - 1

\* How far back a match may reach.
DistLimit == IF checkDicSize = 0 THEN processedPos ELSE checkDicSize

Match(d, len, ok) ==
  /\ Input(ok, len)
  /\ Encodable(ok, d)
  /\ d <= DistLimit
  /\ reps' = PushRep(d)
  /\ state' = MatchState
  /\ MatchBytes(len, ok)

\* A distance beyond DistLimit: decodeLoop leaves its loop, the assembly
\* returns 1, and tryDecodeAsm gives up.  rep0 keeps the refused distance.
RefuseMatch(d) ==
  /\ Decoding
  /\ Encodable(TRUE, d)
  /\ d > DistLimit
  /\ reps' = PushRep(d)
  /\ state' = MatchState
  /\ tainted' = TRUE
  /\ \/ /\ pc = "go"
        /\ ioErr' = TRUE
        /\ UNCHANGED <<window, engine, pc>>
     \/ /\ pc # "go"
        /\ remainLen' = SpecLen + 1
        /\ checkDicSize' = Checked(checkDicSize, processedPos)
        /\ derr' = "ErrData" /\ pc' = "decoded"
        /\ UNCHANGED <<dic, dicPos, processedPos, outPos,
                       limit, limit2, startDicPos, ioErr>>
  /\ UNCHANGED <<geometry, coded>>

\* The distance 2^32 - 1 marks the end of the stream.  (A source that fails
\* once and goes on may fail in an earlier part of the marker.)
EndMarker(ok) ==
  /\ Decoding
  /\ ~ok => pc = "go"
  /\ ioErr' = (ioErr \/ ~ok)
  /\ tainted' = (tainted \/ ~ok)
  /\ remainLen' = SpecLen
  /\ pc' = Continue
  /\ UNCHANGED <<dic, dicPos, processedPos, checkDicSize, outPos, engine,
                 geometry, state, reps, coded>>

\* The place in the input is lost and no error says so: what the coder decodes
\* from here on is not what an encoder wrote.
Stray ==
  /\ Decoding
  /\ ~tainted
  /\ conforming /\ conforming' = FALSE
  /\ UNCHANGED <<window, engine, dicBufSize, propDicSize, base, readPos,
                 state, reps, pc, ioErr, history>>

\* Right after decodeLoop a symbol of the assembly may take a byte more than
\* its input has (RangeInput says when; here any first symbol may).
PastInput == pc = "asmFirst" /\ Stray

Symbol ==
  \/ \E ok \in BOOLEAN :
       \/ Literal(ok)
       \/ ShortRep(ok)
       \/ \E i \in 1 .. 4, len \in Lens : Rep(i, len, ok)
       \/ \E d \in Dists, len \in Lens : Match(d, len, ok)
  \/ RefuseShortRep
  \/ \E d \in Dists : RefuseMatch(d)

----------------------------------------------------------------------------
(* tryDecodeAsm.  noAsm is FALSE unless a test sets it; here any call may  *)
(* find it set, so that decodeLoop can follow the assembly at any place.   *)

AsmEntry ==
  /\ pc = "decode"
  /\ startDicPos' = dicPos
  /\ derr' = "nil"
  /\ \/ pc' = "goEntry" /\ UNCHANGED window
     \/ /\ HasAsm /\ Pending
        /\ WriteRem(limit, checkDicSize)
        /\ pc' = AfterRem(limit, IF dicPos' >= limit THEN "decoded" ELSE "asm")
     \/ /\ HasAsm /\ ~Pending
        /\ pc' = "asm" /\ UNCHANGED window
  /\ UNCHANGED <<limit, limit2, geometry, state, reps, ioErr, history>>

AsmLoop == pc = "asm" /\ dicPos < limit /\ remainLen < SpecLen

\* The limit handed to the assembly: it must not cross the point where the
\* dictionary becomes full.
ClampedLimit ==
  LET rem == Minus32(propDicSize, processedPos)
  IN  IF checkDicSize = 0 /\ limit - dicPos > rem THEN dicPos + rem ELSE limit

\* At least requiredInputMax bytes are buffered: run the assembly.
AsmRun ==
  /\ AsmLoop /\ outPos < MaxOut
  /\ limit2' = ClampedLimit
  /\ remainLen' = 0
  /\ pc' = "asmFirst"
  /\ UNCHANGED <<dic, dicPos, processedPos, checkDicSize, outPos, limit,
                 startDicPos, derr, geometry, state, reps, ioErr, history>>

\* Too little input is left for the assembly, or the loop is done: the call
\* counts as used only if it moved dicPos.
AsmLeave ==
  /\ pc = "asm"
  /\ pc' = IF dicPos > startDicPos THEN "decoded" ELSE "goEntry"
  /\ UNCHANGED <<window, engine, geometry, state, reps, ioErr, history>>

\* Refilling the input fails, not by io.EOF.
AsmReadError ==
  /\ AsmLoop
  /\ derr' = "io" /\ pc' = "decoded"
  /\ UNCHANGED <<window, limit, limit2, startDicPos, geometry, state, reps,
                 ioErr, history>>

\* The assembly returns 0: it is at limit2, or mid-match, or has consumed
\* its input, or has met the end marker.
AsmReturn ==
  /\ pc = "asmNext"
  /\ LET check == Checked(checkDicSize, processedPos)
     IN  \/ /\ remainLen = SpecLen
            /\ checkDicSize' = check
            /\ derr' \in IF conforming /\ ~tainted THEN {"EOF"}
                         ELSE {"EOF", "ErrData"}
            /\ pc' = "decoded"
            /\ UNCHANGED <<dic, dicPos, processedPos, remainLen, outPos>>
         \/ /\ remainLen # SpecLen
            /\ WriteRem(limit, check)
            /\ pc' = AfterRem(limit, "asm")
            /\ UNCHANGED derr
  /\ UNCHANGED <<limit, limit2, startDicPos, geometry, state, reps, ioErr,
                 history>>

----------------------------------------------------------------------------
(* decodeLoop. *)

GoEntry ==
  /\ pc = "goEntry"
  /\ ioErr' = FALSE
  /\ \/ /\ Pending
        /\ WriteRem(limit, checkDicSize)
        /\ pc' = AfterRem(limit, IF dicPos' >= limit THEN "decoded" ELSE "go")
     \/ /\ ~Pending
        /\ remainLen' = 0 /\ pc' = "go"
        /\ UNCHANGED <<dic, dicPos, processedPos, checkDicSize, outPos>>
  /\ UNCHANGED <<engine, geometry, state, reps, history>>

\* The marker counts as the end only if the range coder's code is 0 then.
GoReturn ==
  /\ pc = "go" /\ ~Decoding
  /\ derr' \in IF ioErr THEN {"ErrData"}
               ELSE IF remainLen # SpecLen THEN {"nil"}
               ELSE IF conforming /\ ~tainted THEN {"EOF"}
               ELSE {"EOF", "ErrData"}
  /\ pc' = "decoded"
  /\ UNCHANGED <<window, limit, limit2, startDicPos, geometry, state, reps,
                 ioErr, history>>

Engine == AsmEntry \/ AsmRun \/ AsmLeave \/ AsmReadError \/ AsmReturn
          \/ GoEntry \/ GoReturn \/ Symbol
=============================================================================
