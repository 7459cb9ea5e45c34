------------------------------- MODULE ArmWalk -------------------------------
(***************************************************************************)
(* The binary decisions of one symbol as the arm64 assembly takes them.    *)
(* Addresses are in bytes from the start of the table (probs_Spec); most   *)
(* of them are formed from probs_IsMatch.  Differences to amd64: the       *)
(* literal coder comes from one rotated mask, a new distance is a flag bit *)
(* of the state, distances are moved only when the last bit is known, and  *)
(* the direct bits are collected before the align bits shift them.         *)
(***************************************************************************)
EXTENDS ProbTable, Words

VARIABLE arm   \* the registers:
               \*   at       the decision to be taken next
               \*   probs, st (probs_state), pbPos, state, sym, sym2
               \*   offs, match   of a literal after a match
               \*   len, numBits
               \*   reps     rep0 .. rep3
               \*   load, store, label, out   as in AmdWalk

ArmSpecPos     == 0
ArmIsRep0Long  == ArmSpecPos + 128
ArmRepLenCoder == ArmIsRep0Long + 16 * 16
ArmLenCoder    == ArmRepLenCoder + 2 * 8 * 16 + 256
ArmIsMatch     == ArmLenCoder + 2 * 8 * 16 + 256
ArmAlign       == ArmIsMatch + 16 * 16
ArmIsRep       == ArmAlign + 16
ArmIsRepG0     == ArmIsRep + 12
ArmIsRepG1     == ArmIsRepG0 + 12
ArmIsRepG2     == ArmIsRepG1 + 12
ArmPosSlot     == ArmIsRepG2 + 12
ArmLiteral     == ArmPosSlot + 4 * 64
ArmLenHigh     == 2 * 8 * 16

probs_IsMatch == (ArmIsMatch - ArmSpecPos) * 2

\* 1 << FLAG_STATE_BITS: the flag of a match with a new distance.
NewDistance == 32

ArmEntry(address) == IF address = None THEN None ELSE address \div 2

\* SET_probs.
At(offset) == probs_IsMatch + (offset - ArmIsMatch) * 2

Goto(a, load) == [arm EXCEPT !.at = a, !.load = load, !.store = arm.load]

StoredAt(regs, store) == [regs EXCEPT !.store = store]

ArmEntryLabel(s) == IF s < 4 * 2 THEN "lit_end"
                    ELSE IF s < 7 * 2 THEN "lit_matched_end" ELSE "lz_end"

ArmInit ==
  LET mask == 32 * 2^inp.pb - 32
      pb   == And(inp.processedPos * 32, mask)
      s    == inp.state * 2
  IN  arm = [at |-> "isMatch", probs |-> 0, st |-> probs_IsMatch + s,
             pbPos |-> pb, state |-> s,
             sym |-> IF inp.first THEN 0 ELSE inp.prevByte, sym2 |-> 0,
             offs |-> 0, match |-> 0, len |-> 0, numBits |-> 0,
             reps |-> <<1, 2, 3, 4>>,
             load |-> probs_IsMatch + s + pb, store |-> None,
             label |-> ArmEntryLabel(s), out |-> <<>>]

ArmFinish(symbol, s, label, store) ==
  arm' = [arm EXCEPT !.at = "end", !.state = s, !.label = label, !.out = symbol,
                     !.store = store, !.load = None]

\* LIT_PROBS: lc2_lpMask is both the shift (its low five bits: lc + PSHIFT)
\* and the mask.
ArmLitProbs ==
  LET lc2_lpMask == 512 * 2^(inp.lc + inp.lp) + inp.lc - (512 - 1)
      sym == And((arm.sym + inp.processedPos * 256) * 2^(lc2_lpMask % 32), lc2_lpMask)
  IN  At(ArmLiteral) + sym + 2 * sym

ArmIsMatchBit(b) ==
  /\ arm.at = "isMatch"
  /\ \/ /\ b = 1
        /\ arm' = Goto("isRep", arm.st + (ArmIsRep - ArmIsMatch) * 2)
     \/ /\ b = 0 /\ arm.label \in {"lit_end", "lit_matched_end"}
        /\ arm' = [Goto("literal", ArmLitProbs + 2) EXCEPT
                     !.probs = ArmLitProbs, !.sym = 1,
                     !.state = IF arm.label = "lit_end" THEN 0
                               ELSE arm.state - 3 * 2]
     \/ /\ b = 0 /\ arm.label = "lz_end"
        /\ LET match == inp.matchByte * 4
               bit   == And(256 * 2, match)
           IN  arm' = [Goto("matched", ArmLitProbs + (256 * 2 + 2) + bit) EXCEPT
                         !.probs = ArmLitProbs, !.sym = 1, !.match = match,
                         !.offs = 256 * 2,
                         !.state = IF arm.state >= 10 * 2
                                   THEN arm.state - 6 * 2 ELSE arm.state - 3 * 2]

----------------------------------------------------------------------------
(* Bit trees: BIT_0_R (with sym = 1) and BIT_1_R load both children, the   *)
(* second through probs_PMULT; BIT_2_R ends the tree.                      *)

probs_PMULT == arm.probs + 2

ArmBranch(a, b) ==
  [StoredAt(Goto(a, IF b = 0 THEN arm.probs + 2 * arm.sym * 2
                    ELSE probs_PMULT + 2 * arm.sym * 2),
            arm.probs + 2 * arm.sym) EXCEPT !.sym = 2 * arm.sym + b]

ArmLeaf(b) == 2 * arm.sym + b

\* Mutant: the symbol is not doubled.
ArmLeafStoreSingle == arm.probs + arm.sym

ArmLeafStore == arm.probs + 2 * arm.sym

ArmLiteralBit(b) ==
  /\ arm.at = "literal"
  /\ IF arm.sym < 128 THEN arm' = ArmBranch("literal", b)
     ELSE ArmFinish(<<"literal", And(ArmLeaf(b), 255)>>, arm.state, "lit_end",
                    ArmLeafStore)

\* LITM_0 (with sym = 1), LITM and LITM_2.
ArmMatchedBit(b) ==
  /\ arm.at = "matched"
  /\ LET bit   == And(arm.match, arm.offs)
         prm   == arm.probs + arm.offs + bit
         offs  == IF b = 1 THEN bit ELSE Xor(arm.offs, bit)
         match == 2 * arm.match
         store == prm + arm.sym * 2
     IN  IF arm.sym < 128
         THEN arm' = [StoredAt(Goto("matched", arm.probs + offs + And(match, offs)
                                                + ArmLeaf(b) * 2), store)
                        EXCEPT !.offs = offs, !.match = match, !.sym = ArmLeaf(b)]
         ELSE ArmFinish(<<"literal", And(ArmLeaf(b), 255)>>, arm.state,
                        "lit_matched_end", store)

----------------------------------------------------------------------------
(* Matches. *)

ArmLenDecode(regs) ==
  arm' = [regs EXCEPT !.at = "choice", !.load = regs.probs, !.len = 6]

ArmIsRepBit(b) ==
  /\ arm.at = "isRep"
  /\ \/ /\ b = 0
        /\ ArmLenDecode([Goto("choice", None) EXCEPT
                           !.probs = At(ArmLenCoder),
                           !.state = Or(arm.state, NewDistance)])
     \/ /\ b = 1
        /\ arm' = [Goto("isRepG0", arm.st + (ArmIsRepG0 - ArmIsMatch) * 2) EXCEPT
                     !.probs = At(ArmRepLenCoder),
                     !.state = IF arm.state >= 7 * 2 THEN 11 * 2 ELSE 8 * 2]

ArmIsRepG0Bit(b) ==
  /\ arm.at = "isRepG0"
  /\ \/ /\ b = 0
        /\ LET st == arm.st - (ArmIsMatch - ArmIsRep0Long) * 2
           IN  arm' = [Goto("isRep0Long", st + arm.pbPos) EXCEPT !.st = st]
     \/ /\ b = 1
        /\ arm' = Goto("isRepG1", arm.st + (ArmIsRepG1 - ArmIsMatch) * 2)

ArmIsRep0LongBit(b) ==
  /\ arm.at = "isRep0Long"
  /\ \/ /\ b = 0
        /\ ArmFinish(<<"short", arm.reps>>, Or(arm.state, 2), "lz_end",
                     arm.st + arm.pbPos)
     \/ /\ b = 1
        /\ ArmLenDecode(Goto("choice", None))

ArmIsRepG1Bit(b) ==
  /\ arm.at = "isRepG1"
  /\ \/ /\ b = 0
        /\ ArmLenDecode([Goto("choice", None) EXCEPT !.reps = <<2, 1, 3, 4>>])
     \/ /\ b = 1
        /\ arm' = Goto("isRepG2", arm.st + (ArmIsRepG2 - ArmIsMatch) * 2)

ArmIsRepG2Bit(b) ==
  /\ arm.at = "isRepG2"
  /\ ArmLenDecode([Goto("choice", None) EXCEPT
                     !.reps = IF b = 0 THEN <<3, 1, 2, 4>> ELSE <<4, 1, 2, 3>>])

----------------------------------------------------------------------------
(* The length. *)

ArmShortTree(a, regs) ==
  arm' = [regs EXCEPT !.at = a, !.probs = regs.probs + arm.pbPos, !.sym = 1,
                      !.load = regs.probs + arm.pbPos + 2]

ArmChoiceBit(b) ==
  /\ arm.at = "choice"
  /\ \/ b = 0 /\ ArmShortTree("low", Goto("low", None))
     \/ /\ b = 1
        /\ arm' = [Goto("choice2", arm.probs + 16) EXCEPT
                     !.probs = arm.probs + 16, !.len = -2]

ArmChoice2Bit(b) ==
  /\ arm.at = "choice2"
  /\ \/ b = 0 /\ ArmShortTree("mid", Goto("mid", None))
     \/ /\ b = 1
        /\ LET high == arm.probs + ArmLenHigh * 2 - 16
           IN  arm' = [Goto("high", high + 2) EXCEPT
                         !.probs = high, !.sym = 1, !.len = 256 - 16 - 2]

ArmAfterLen(len, store) ==
  IF arm.state < NewDistance
  THEN ArmFinish(<<"match", len, arm.reps>>, arm.state, "lz_end", store)
  ELSE LET t0    == IF len < 5 THEN len ELSE 5
           probs == At(ArmPosSlot - 2 * 64) + t0 * 128
       IN  arm' = [StoredAt(Goto("slot", probs + 2), store) EXCEPT
                     !.probs = probs, !.sym = 1, !.len = len]

ArmLenBit(a, b) ==
  /\ arm.at = a
  /\ IF arm.sym < (IF a = "high" THEN 128 ELSE 4) THEN arm' = ArmBranch(a, b)
     ELSE ArmAfterLen(ArmLeaf(b) - arm.len, ArmLeafStore)

----------------------------------------------------------------------------
(* The distance. *)

\* decode_dist_end with STATE_UPDATE_FOR_MATCH, and end_of_payload.
ArmDistEnd(distance, store) ==
  IF distance = EndDistance
  THEN ArmFinish(<<"marker", arm.reps>>, Xor(arm.state, NewDistance), "fin", store)
  ELSE ArmFinish(<<"match", arm.len,
                   <<distance + 1, arm.reps[1], arm.reps[2], arm.reps[3]>> >>,
                 IF arm.state >= 7 * 2 + NewDistance THEN 10 * 2 ELSE 7 * 2,
                 "lz_end", store)

ArmSlotBit(b) ==
  /\ arm.at = "slot"
  /\ LET sym == And(ArmLeaf(b), 3)
         top == Or(sym, 2)
         n   == arm.sym - 33
     IN  \/ /\ arm.sym < 32
            /\ arm' = ArmBranch("slot", b)
         \/ /\ arm.sym \in 32 .. 33
            /\ ArmDistEnd(sym, ArmLeafStore)
         \/ /\ arm.sym \in 34 .. 38          \* short_dist
            /\ LET p == top * 2^n * 2 + (ArmSpecPos * 2 + 2)
               IN  arm' = [StoredAt(Goto("spec", p), ArmLeafStore) EXCEPT
                             !.sym = p, !.sym2 = 2, !.numBits = n]
         \/ /\ arm.sym >= 39
            /\ arm' = [StoredAt(Goto("direct", None), ArmLeafStore) EXCEPT
                         !.probs = At(ArmAlign), !.sym = top, !.numBits = n - 4]

\* REV_1_VAR.
ArmSpecBit(b) ==
  /\ arm.at = "spec"
  /\ LET sym == arm.sym + (1 + b) * arm.sym2
     IN  IF arm.numBits > 1
         THEN arm' = [StoredAt(Goto("spec", sym), arm.sym) EXCEPT
                        !.sym = sym, !.sym2 = 2 * arm.sym2,
                        !.numBits = arm.numBits - 1]
         ELSE ArmDistEnd((sym - 2 * arm.sym2) \div 2, arm.sym)

\* DIRECT_1_emit, and direct_end after the last bit.
ArmDirectBit(b) ==
  /\ arm.at = "direct"
  /\ arm' = IF arm.numBits > 1
            THEN [Goto("direct", None) EXCEPT
                    !.sym = 2 * arm.sym + b, !.numBits = arm.numBits - 1]
            ELSE [Goto("align", arm.probs + 2) EXCEPT
                    !.sym = (2 * arm.sym + b) * 16, !.sym2 = 2, !.numBits = 1]

\* ALIGN_BIT and ALIGN_BIT_LAST; numBits holds 1 << bit_index.
ArmAlignBit(b) ==
  /\ arm.at = "align"
  /\ LET sym  == IF b = 1 THEN Or(arm.sym, arm.numBits) ELSE arm.sym
         sym2 == arm.sym2 + (IF b = 1 THEN 4 ELSE 2) * arm.numBits
     IN  IF arm.numBits < 8
         THEN arm' = [StoredAt(Goto("align", arm.probs + sym2),
                               arm.probs + arm.sym2) EXCEPT
                        !.sym = sym, !.sym2 = sym2, !.numBits = 2 * arm.numBits]
         ELSE ArmDistEnd(sym, arm.probs + arm.sym2)

ArmStep(b) ==
  \/ ArmIsMatchBit(b) \/ ArmLiteralBit(b) \/ ArmMatchedBit(b)
  \/ ArmIsRepBit(b) \/ ArmIsRepG0Bit(b) \/ ArmIsRep0LongBit(b)
  \/ ArmIsRepG1Bit(b) \/ ArmIsRepG2Bit(b)
  \/ ArmChoiceBit(b) \/ ArmChoice2Bit(b)
  \/ ArmLenBit("low", b) \/ ArmLenBit("mid", b) \/ ArmLenBit("high", b)
  \/ ArmSlotBit(b) \/ ArmSpecBit(b) \/ ArmDirectBit(b) \/ ArmAlignBit(b)
=============================================================================
