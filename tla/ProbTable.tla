------------------------------ MODULE ProbTable ------------------------------
(***************************************************************************)
(* The table of probabilities that decodeLoop and the two assembly loops   *)
(* share, and the input of one symbol.  Whatever engine decodes a symbol,  *)
(* every binary decision must use, and update, the same entry of the table *)
(* (lzmadec_amd64.go hands the table to the assembly in the middle of a    *)
(* stream, and decodeLoop takes over again near the end of the input).     *)
(***************************************************************************)
EXTENDS Integers

VARIABLE inp   \* what a symbol is decoded from: [lc, lp, pb, state,
               \* processedPos, first, prevByte, matchByte]

numStates == 12
numStates2 == 16
numLitStates == 7
numLenLowSymbols == 8
numLenHighSymbols == 256
numPosStatesMax == 16
numFullDistances == 128
numPosSlots == 64
numLenToPosStates == 4
alignTableSize == 16
matchMinLen == 2
litSize == 768

lenChoice  == 0
lenChoice2 == numLenLowSymbols
lenHigh    == 2 * numPosStatesMax * numLenLowSymbols

probSpecPos     == 0
probIsRep0Long  == probSpecPos + numFullDistances
probRepLenCoder == probIsRep0Long + numStates2 * numPosStatesMax
probLenCoder    == probRepLenCoder + lenHigh + numLenHighSymbols
probIsMatch     == probLenCoder + lenHigh + numLenHighSymbols
probAlign       == probIsMatch + numStates2 * numPosStatesMax
probIsRep       == probAlign + alignTableSize
probIsRepG0     == probIsRep + numStates
probIsRepG1     == probIsRepG0 + numStates
probIsRepG2     == probIsRepG1 + numStates
probPosSlot     == probIsRepG2 + numStates
probLiteral     == probPosSlot + numLenToPosStates * numPosSlots

\* The number of entries initProbs allocates.
numProbs == probLiteral + litSize * 2^(inp.lc + inp.lp)

\* A decision that uses no probability (a direct bit of a distance).
None == -1

\* The distance of the end marker: 2^32 - 1 in the code.  It takes the
\* slot tree and the align bits, so it is no distance of slots 0 to 13.
CONSTANT EndDistance

ASSUME EndDistanceAssumption == EndDistance \in Nat /\ EndDistance >= 128

----------------------------------------------------------------------------
(* The entries that each kind of decision may use.  In the length coders   *)
(* the two choices sit in entries that no tree reaches, since the root of  *)
(* a tree has index 1.                                                     *)

LenCoders == {probRepLenCoder, probLenCoder}

LowTree(c)  == {c + 16 * p + m : p \in 0 .. 15, m \in 1 .. 7}
MidTree(c)  == {c + 16 * p + 8 + m : p \in 0 .. 15, m \in 1 .. 7}

Region(at) ==
  CASE at = "isMatch"    -> probIsMatch .. probIsMatch + 255
    [] at = "isRep"      -> probIsRep .. probIsRepG0 - 1
    [] at = "isRepG0"    -> probIsRepG0 .. probIsRepG1 - 1
    [] at = "isRepG1"    -> probIsRepG1 .. probIsRepG2 - 1
    [] at = "isRepG2"    -> probIsRepG2 .. probPosSlot - 1
    [] at = "isRep0Long" -> probIsRep0Long .. probRepLenCoder - 1
    [] at = "choice"     -> {c + lenChoice : c \in LenCoders}
    [] at = "choice2"    -> {c + lenChoice2 : c \in LenCoders}
    [] at = "low"        -> UNION {LowTree(c) : c \in LenCoders}
    [] at = "mid"        -> UNION {MidTree(c) : c \in LenCoders}
    [] at = "high"       -> UNION {c + lenHigh + 1 .. c + lenHigh + 255 :
                                     c \in LenCoders}
    [] at = "slot"       -> probPosSlot + 1 .. probLiteral - 1
    [] at = "spec"       -> probSpecPos + 1 .. probIsRep0Long - 1
    [] at = "align"      -> probAlign + 1 .. probAlign + 15
    [] at \in {"literal", "matched"} -> probLiteral .. numProbs - 1
    [] at \in {"direct", "end"}      -> {None}
=============================================================================
