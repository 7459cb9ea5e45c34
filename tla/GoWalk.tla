------------------------------- MODULE GoWalk -------------------------------
(***************************************************************************)
(* The binary decisions of one symbol as decodeLoop takes them: which      *)
(* entry of probs each call of decodeBit is given, and what the bits stand *)
(* for.  The range coder itself is abstracted away: the bit b is an input. *)
(* Every action is the code from one decodeBit to the next one.            *)
(***************************************************************************)
EXTENDS ProbTable, Words

VARIABLE go    \* the local variables of decodeLoop that matter here:
               \*   at      the decision to be taken next
               \*   base, m the slice of probs in use, and the index into it
               \*   offs, mbit, matchByte   of a literal after a match
               \*   n       bits left: numDirectBits
               \*   w       the weight of the next bit, read in reverse
               \*   length, distance, reps, state
               \*   last    the entry the last decision updated
               \*   out     the symbol, once decoded

posState == (inp.processedPos % 2^inp.pb) * 16

\* Mutant: the mask keeps the low bits of the previous byte.
LitBaseUnmasked ==
  IF inp.first THEN probLiteral
  ELSE LET ctx == And(inp.processedPos * 256 + inp.prevByte, 256 * 2^inp.lp - 1)
       IN  probLiteral + 3 * (ctx * 2^inp.lc)

\* The literal coder for the position and the previous byte.
LitBase ==
  IF inp.first THEN probLiteral
  ELSE LET lpMask == 256 * 2^inp.lp - 2^(8 - inp.lc)
           ctx    == And(inp.processedPos * 256 + inp.prevByte, lpMask)
       IN  probLiteral + 3 * (ctx * 2^inp.lc)

GoEntry == IF go.at \in {"direct", "end"} THEN None
           ELSE go.base + go.offs + go.mbit + go.m

\* The record after a decision: the next one is at a, in the slice that
\* starts at base, at index m.
Decide(a, base, m) ==
  [go EXCEPT !.at = a, !.base = base, !.m = m, !.last = GoEntry]

Finish(symbol, s) ==
  go' = [go EXCEPT !.at = "end", !.state = s, !.last = GoEntry, !.out = symbol]

GoInit ==
  go = [at |-> "isMatch", base |-> probIsMatch + posState + inp.state, m |-> 0,
        offs |-> 0, mbit |-> 0, matchByte |-> 0, n |-> 0, w |-> 0,
        length |-> 0, distance |-> 0, reps |-> <<1, 2, 3, 4>>,
        state |-> inp.state, last |-> None, out |-> <<>>]

LitState == IF go.state < 4 THEN 0
            ELSE IF go.state < 10 THEN go.state - 3 ELSE go.state - 6

GoIsMatch(b) ==
  /\ go.at = "isMatch"
  /\ \/ /\ b = 1
        /\ go' = Decide("isRep", probIsRep + go.state, 0)
     \/ /\ b = 0 /\ go.state < numLitStates
        /\ go' = [Decide("literal", LitBase, 1) EXCEPT !.state = LitState]
     \/ /\ b = 0 /\ go.state >= numLitStates
        /\ go' = [Decide("matched", LitBase, 1) EXCEPT
                    !.state = LitState, !.matchByte = 2 * inp.matchByte,
                    !.mbit = 256, !.offs = And(256, 2 * inp.matchByte)]

GoLiteral(b) ==
  /\ go.at = "literal"
  /\ LET symbol == 2 * go.m + b
     IN  IF symbol < 256 THEN go' = Decide("literal", go.base, symbol)
         ELSE Finish(<<"literal", symbol % 256>>, go.state)

GoMatched(b) ==
  /\ go.at = "matched"
  /\ LET symbol == 2 * go.m + b
         offs   == IF b = 0 THEN Xor(go.offs, go.mbit) ELSE go.offs
     IN  IF symbol >= 256 THEN Finish(<<"literal", symbol % 256>>, go.state)
         ELSE go' = [Decide("matched", go.base, symbol) EXCEPT
                       !.matchByte = 2 * go.matchByte, !.mbit = offs,
                       !.offs = And(offs, 2 * go.matchByte)]

\* A repeated distance: the length comes from the other coder.
RepLength(reps) ==
  go' = [Decide("choice", probRepLenCoder, lenChoice) EXCEPT
           !.reps = reps, !.state = IF go.state < numLitStates THEN 8 ELSE 11]

GoIsRep(b) ==
  /\ go.at = "isRep"
  /\ \/ /\ b = 0
        /\ go' = [Decide("choice", probLenCoder, lenChoice) EXCEPT
                    !.state = go.state + numStates]
     \/ /\ b = 1
        /\ go' = Decide("isRepG0", probIsRepG0 + go.state, 0)

GoIsRepG0(b) ==
  /\ go.at = "isRepG0"
  /\ go' = IF b = 0
           THEN Decide("isRep0Long", probIsRep0Long + posState + go.state, 0)
           ELSE Decide("isRepG1", probIsRepG1 + go.state, 0)

GoIsRep0Long(b) ==
  /\ go.at = "isRep0Long"
  /\ \/ /\ b = 0
        /\ Finish(<<"short", go.reps>>, IF go.state < numLitStates THEN 9 ELSE 11)
     \/ b = 1 /\ RepLength(go.reps)

GoIsRepG1(b) ==
  /\ go.at = "isRepG1"
  /\ \/ b = 0 /\ RepLength(<<2, 1, 3, 4>>)
     \/ b = 1 /\ go' = Decide("isRepG2", probIsRepG2 + go.state, 0)

\* Mutant: the second and the third distance are swapped.
GoIsRepG2Swapped(b) ==
  /\ go.at = "isRepG2"
  /\ \/ b = 0 /\ RepLength(<<3, 2, 1, 4>>)
     \/ b = 1 /\ RepLength(<<4, 1, 2, 3>>)

GoIsRepG2(b) ==
  /\ go.at = "isRepG2"
  /\ \/ b = 0 /\ RepLength(<<3, 1, 2, 4>>)
     \/ b = 1 /\ RepLength(<<4, 1, 2, 3>>)

----------------------------------------------------------------------------
(* The length. *)

GoChoice(b) ==
  /\ go.at = "choice"
  /\ go' = IF b = 0 THEN Decide("low", go.base + posState, 1)
           ELSE Decide("choice2", go.base, lenChoice2)

GoChoice2(b) ==
  /\ go.at = "choice2"
  /\ go' = IF b = 0 THEN Decide("mid", go.base + posState + 8, 1)
           ELSE Decide("high", go.base + lenHigh, 1)

\* A length is decoded: a repeated distance ends the symbol, a new distance
\* follows otherwise.
AfterLength(length) ==
  IF go.state < numStates
  THEN Finish(<<"match", length + matchMinLen, go.reps>>, go.state)
  ELSE LET lenState == IF length < numLenToPosStates THEN length
                       ELSE numLenToPosStates - 1
       IN  go' = [Decide("slot", probPosSlot + lenState * numPosSlots, 1)
                    EXCEPT !.length = length]

LenTree(a, size, least, b) ==
  /\ go.at = a
  /\ LET m == 2 * go.m + b
     IN  IF m < size THEN go' = Decide(a, go.base, m)
         ELSE AfterLength(m - size + least)

GoLow(b)  == LenTree("low", 8, 0, b)
GoMid(b)  == LenTree("mid", 8, 8, b)
GoHigh(b) == LenTree("high", 256, 16, b)

----------------------------------------------------------------------------
(* The distance. *)

EndMatch(distance) ==
  Finish(<<"match", go.length + matchMinLen, <<distance + 1, 1, 2, 3>> >>,
         IF go.state < numStates + numLitStates THEN 7 ELSE 10)

GoSlot(b) ==
  /\ go.at = "slot"
  /\ LET m    == 2 * go.m + b
         slot == m - numPosSlots
         n    == slot \div 2 - 1
         top  == 2 + (slot % 2)
     IN  \/ /\ m < numPosSlots
            /\ go' = Decide("slot", go.base, m)
         \/ /\ m >= numPosSlots /\ slot < 4
            /\ EndMatch(slot)
         \/ /\ slot \in 4 .. 13
            /\ go' = [Decide("spec", probSpecPos, top * 2^n + 1) EXCEPT
                        !.n = n, !.w = 1]
         \/ /\ slot >= 14
            /\ go' = [Decide("direct", 0, 0) EXCEPT
                        !.n = n - 4, !.distance = top]

GoSpec(b) ==
  /\ go.at = "spec"
  /\ LET m == IF b = 0 THEN go.m + go.w ELSE go.m + 2 * go.w
     IN  IF go.n > 1
         THEN go' = [Decide("spec", go.base, m) EXCEPT
                       !.n = go.n - 1, !.w = 2 * go.w]
         ELSE EndMatch(m - 2 * go.w)

GoDirect(b) ==
  /\ go.at = "direct"
  /\ LET distance == 2 * go.distance + b
     IN  go' = IF go.n > 1
               THEN [go EXCEPT !.n = go.n - 1, !.distance = distance,
                               !.last = None]
               ELSE [Decide("align", probAlign, 1) EXCEPT
                       !.w = 1, !.distance = 16 * distance]

\* The marker of the end is no match: the distances stay, and the state
\* loses its flag of a new distance.
GoMarker == Finish(<<"marker", go.reps>>, go.state - numStates)

GoAlign(b) ==
  /\ go.at = "align"
  /\ IF go.w < 8
     THEN go' = [Decide("align", go.base, go.m + (1 + b) * go.w) EXCEPT
                   !.w = 2 * go.w, !.distance = go.distance + b * go.w]
     ELSE IF go.distance + 8 * b = EndDistance THEN GoMarker
     ELSE EndMatch(go.distance + 8 * b)

GoBit(b) ==
  \/ GoIsMatch(b) \/ GoLiteral(b) \/ GoMatched(b)
  \/ GoIsRep(b) \/ GoIsRepG0(b) \/ GoIsRep0Long(b) \/ GoIsRepG1(b) \/ GoIsRepG2(b)
  \/ GoChoice(b) \/ GoChoice2(b) \/ GoLow(b) \/ GoMid(b) \/ GoHigh(b)
  \/ GoSlot(b) \/ GoSpec(b) \/ GoDirect(b) \/ GoAlign(b)
=============================================================================
