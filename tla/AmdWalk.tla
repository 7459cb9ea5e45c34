------------------------------- MODULE AmdWalk -------------------------------
(***************************************************************************)
(* The binary decisions of one symbol as the amd64 assembly takes them:    *)
(* the registers which address probabilities and collect bits.  Addresses  *)
(* are in bytes, relative to the register that points kStartOffset entries *)
(* into the table.  Every action is the code from one NORM to the next; a  *)
(* macro may load the next probability early, and stores the updated one   *)
(* through another address expression.                                     *)
(***************************************************************************)
EXTENDS ProbTable, Words

VARIABLE amd   \* the registers:
               \*   at       the decision to be taken next
               \*   probs, st (probs_state), pbPos, state, sym, sym2
               \*   offs, match   of a literal after a match
               \*   len      len_temp
               \*   rep0 .. rep3
               \*   load     the address the next decision loads from
               \*   store    the address the last decision stored to
               \*   label    where the loop continues after the symbol
               \*   out      the symbol, once decoded

PMULT == 2
kStartOffset == 1664

AmdSpecPos     == -kStartOffset
AmdIsRep0Long  == AmdSpecPos + 128
AmdRepLenCoder == AmdIsRep0Long + 16 * 16
AmdLenCoder    == AmdRepLenCoder + 2 * 8 * 16 + 256
AmdIsMatch     == AmdLenCoder + 2 * 8 * 16 + 256
AmdAlign       == AmdIsMatch + 16 * 16
AmdIsRep       == AmdAlign + 16
AmdIsRepG0     == AmdIsRep + 12
AmdIsRepG1     == AmdIsRepG0 + 12
AmdIsRepG2     == AmdIsRepG1 + 12
AmdPosSlot     == AmdIsRepG2 + 12
AmdLiteral     == AmdPosSlot + 4 * 64
AmdLenHigh     == 2 * 8 * 16

\* The entry of the table that an address denotes.
AmdEntry(address) ==
  IF address = None THEN None
  ELSE (address + kStartOffset * PMULT) \div PMULT

\* The registers after a decision: the next one is at a, and loads from load.
Then(a, load) ==
  [amd EXCEPT !.at = a, !.load = load, !.store = amd.load]

\* The same, with the address of the store given by its own expression.
Stored(regs, store) == [regs EXCEPT !.store = store]

Reps == <<amd.rep0, amd.rep1, amd.rep2, amd.rep3>>

\* IsMatchBranch_Pre, and the dispatch of the entry on the state: sym is the
\* byte before dicPos, or 0 at the start of the stream.
EntryLabel(s) == IF s < 4 * PMULT THEN "lit_end"
                 ELSE IF s < numLitStates * PMULT THEN "lit_matched_end"
                 ELSE "lz_end"

AmdInit ==
  LET pb == (inp.processedPos % 2^inp.pb) * 32
      s  == inp.state * PMULT
  IN  amd = [at |-> "isMatch", probs |-> 0, st |-> s, pbPos |-> pb, state |-> s,
             sym |-> IF inp.first THEN 0 ELSE inp.prevByte, sym2 |-> 0,
             offs |-> 0, match |-> 0, len |-> 0,
             rep0 |-> 1, rep1 |-> 2, rep2 |-> 3, rep3 |-> 4,
             load |-> s + pb + AmdIsMatch * PMULT, store |-> None,
             label |-> EntryLabel(s), out |-> <<>>]

AmdFinish(symbol, s, label, store) ==
  amd' = [amd EXCEPT !.at = "end", !.state = s, !.label = label, !.out = symbol,
                     !.store = store, !.load = None]

\* LIT_PROBS.
LitProbs ==
  LET lpMask == 256 * 2^inp.lp - 256 \div 2^inp.lc
      sym    == And(amd.sym + inp.processedPos * 256, lpMask)
  IN  AmdLiteral * PMULT + (3 * sym) * 2^(inp.lc + 1)

\* lit_end, lit_matched_end and lz_end.
AmdIsMatchBit(b) ==
  /\ amd.at = "isMatch"
  /\ \/ /\ b = 1
        /\ amd' = Then("isRep", amd.st + AmdIsRep * PMULT)
     \/ /\ b = 0 /\ amd.label \in {"lit_end", "lit_matched_end"}
        /\ amd' = [Then("literal", LitProbs + PMULT) EXCEPT
                     !.probs = LitProbs, !.sym = 1,
                     !.state = IF amd.label = "lit_end" THEN 0
                               ELSE amd.state - 3 * PMULT]
     \/ /\ b = 0 /\ amd.label = "lz_end"
        /\ LET match == inp.matchByte * 4
               offs  == 256 * PMULT
           IN  amd' = [Then("matched", LitProbs + offs + And(offs, match) + PMULT)
                         EXCEPT !.probs = LitProbs, !.sym = 1,
                                !.match = match, !.offs = offs,
                                !.state = IF amd.state - 3 * PMULT >= 7 * PMULT
                                          THEN amd.state - 6 * PMULT
                                          ELSE amd.state - 3 * PMULT]

----------------------------------------------------------------------------
(* Bit trees. *)

\* BIT_0 (with sym = 1) and BIT_1: both children are loaded, and one kept.
Branch(a, b) ==
  [Stored(Then(a, IF b = 0 THEN amd.probs + amd.sym * 4
                  ELSE amd.probs + 2 * amd.sym * PMULT + PMULT),
          amd.probs + 2 * amd.sym) EXCEPT !.sym = 2 * amd.sym + b]

\* BIT_2: the value of the last bit, less symSub and the carry.
Leaf(symSub, b) == 2 * amd.sym - symSub - (1 - b)

LeafStore == amd.probs + 2 * amd.sym

AmdLiteralBit(b) ==
  /\ amd.at = "literal"
  /\ IF amd.sym < 128 THEN amd' = Branch("literal", b)
     ELSE AmdFinish(<<"literal", Leaf(256 - 1, b)>>, amd.state, "lit_end",
                    LeafStore)

\* LITM_0 (with sym = 1), LITM and LITM_2.
AmdMatchedBit(b) ==
  /\ amd.at = "matched"
  /\ LET bit   == And(amd.offs, amd.match)
         prm   == amd.probs + amd.offs + bit
         offs  == IF b = 1 THEN bit ELSE Xor(amd.offs, bit)
         match == 2 * amd.match
         sym   == 2 * amd.sym + b
         store == prm + 2 * amd.sym
     IN  IF amd.sym < 128
         THEN amd' = [Stored(Then("matched", amd.probs + offs + And(offs, match)
                                               + sym * PMULT), store)
                        EXCEPT !.offs = offs, !.match = match, !.sym = sym]
         ELSE AmdFinish(<<"literal", Leaf(256 - 1, b)>>, amd.state,
                        "lit_matched_end", store)

----------------------------------------------------------------------------
(* Matches: IsMatch_label, IsRep_label and the repeated distances. *)

\* len_decode, with the registers of its caller.
LenDecode(regs) ==
  amd' = [regs EXCEPT !.at = "choice", !.load = regs.probs, !.len = 5]

AmdIsRepBit(b) ==
  /\ amd.at = "isRep"
  /\ \/ /\ b = 0
        /\ LenDecode([Then("choice", None) EXCEPT
                        !.probs = amd.probs + AmdLenCoder * PMULT,
                        !.state = amd.state + numStates * PMULT])
     \/ /\ b = 1
        /\ amd' = [Then("isRepG0", amd.st + AmdIsRepG0 * PMULT) EXCEPT
                     !.probs = amd.probs + AmdRepLenCoder * PMULT,
                     !.state = IF amd.state < numLitStates * PMULT
                               THEN 8 * PMULT ELSE 11 * PMULT]

\* IsRepG0_label moves rep0 to rep1 before it knows which distance is meant.
AmdIsRepG0Bit(b) ==
  /\ amd.at = "isRepG0"
  /\ \/ /\ b = 0
        /\ amd' = Then("isRep0Long",
                       amd.st + amd.pbPos + AmdIsRep0Long * PMULT)
     \/ /\ b = 1
        /\ amd' = [Then("isRepG1", amd.st + AmdIsRepG1 * PMULT) EXCEPT
                     !.sym = amd.rep1, !.rep1 = amd.rep0]

AmdIsRep0LongBit(b) ==
  /\ amd.at = "isRep0Long"
  /\ \/ /\ b = 0
        /\ AmdFinish(<<"short", Reps>>, Or(amd.state, 1 * PMULT), "lz_end",
                     amd.load)
     \/ /\ b = 1
        /\ LenDecode(Then("choice", None))

AmdIsRepG1Bit(b) ==
  /\ amd.at = "isRepG1"
  /\ \/ /\ b = 0
        /\ LenDecode([Then("choice", None) EXCEPT !.rep0 = amd.sym])
     \/ /\ b = 1
        /\ amd' = [Then("isRepG2", amd.st + AmdIsRepG2 * PMULT) EXCEPT
                     !.sym2 = amd.rep2, !.rep2 = amd.sym]

AmdIsRepG2Bit(b) ==
  /\ amd.at = "isRepG2"
  /\ \/ /\ b = 0
        /\ LenDecode([Then("choice", None) EXCEPT !.rep0 = amd.sym2])
     \/ /\ b = 1
        /\ LenDecode([Then("choice", None) EXCEPT
                        !.rep0 = amd.rep3, !.rep3 = amd.sym2])

----------------------------------------------------------------------------
(* The length. *)

\* len_mid_0: the tree of three bits that belongs to the position.
ShortTree(a, regs) ==
  amd' = [regs EXCEPT !.at = a, !.probs = regs.probs + amd.pbPos, !.sym = 1,
                      !.load = regs.probs + amd.pbPos + PMULT]

AmdChoiceBit(b) ==
  /\ amd.at = "choice"
  /\ \/ b = 0 /\ ShortTree("low", Then("low", None))
     \/ /\ b = 1
        /\ amd' = [Then("choice2", amd.probs + 16) EXCEPT
                     !.probs = amd.probs + 16, !.len = -3]

AmdChoice2Bit(b) ==
  /\ amd.at = "choice2"
  /\ \/ b = 0 /\ ShortTree("mid", Then("mid", None))
     \/ /\ b = 1
        /\ LET high == amd.probs + AmdLenHigh * PMULT - 16
           IN  amd' = [Then("high", high + PMULT) EXCEPT
                         !.probs = high, !.sym = 1, !.len = 256 - 16 - 3]

\* copy_match, or the tree of distance slots.
AfterLen(len, store) ==
  IF amd.state < numStates * PMULT
  THEN AmdFinish(<<"match", len, Reps>>, amd.state, "lz_end", store)
  ELSE LET t0    == IF len < 5 THEN len ELSE 5
           probs == AmdPosSlot * PMULT - 2 * 128 + t0 * 128
       IN  amd' = [Stored(Then("slot", probs + PMULT), store) EXCEPT
                     !.probs = probs, !.sym = 1, !.len = len]

AmdLenBit(a, b) ==
  /\ amd.at = a
  /\ IF amd.sym < (IF a = "high" THEN 128 ELSE 4) THEN amd' = Branch(a, b)
     ELSE AfterLen(Leaf(amd.len, b), LeafStore)

----------------------------------------------------------------------------
(* The distance. *)

\* decode_dist_end, and end_of_payload for the one distance whose successor
\* is 0 in 32 bits.
DistEnd(distance, store) ==
  IF distance = EndDistance
  THEN AmdFinish(<<"marker", Reps>>, amd.state - numStates * PMULT, "fin", store)
  ELSE AmdFinish(<<"match", amd.len,
                   <<distance + 1, amd.rep0, amd.rep1, amd.rep2>> >>,
                 IF amd.state < (numStates + numLitStates) * PMULT
                 THEN 7 * PMULT ELSE 10 * PMULT, "lz_end", store)

AmdSlotBit(b) ==
  /\ amd.at = "slot"
  /\ LET sym == Leaf(64 - 1, b) % 4
         top == Or(sym, 2)
         n   == amd.sym - 33
     IN  \/ /\ amd.sym < 32
            /\ amd' = Branch("slot", b)
         \/ /\ amd.sym \in 32 .. 33
            /\ DistEnd(sym, LeafStore)
         \/ /\ amd.sym \in 34 .. 38          \* short_dist
            /\ LET p == top * 2^n * PMULT + AmdSpecPos * PMULT + PMULT
               IN  amd' = [Stored(Then("spec", p), LeafStore) EXCEPT
                             !.probs = 0, !.sym = p, !.sym2 = PMULT, !.pbPos = n]
         \/ /\ amd.sym >= 39                 \* long distance
            /\ amd' = [Stored(Then("direct", None), LeafStore) EXCEPT
                         !.probs = 0, !.sym = top * 32, !.sym2 = 2 * PMULT,
                         !.pbPos = n - 4]

\* REV_1_VAR.
AmdSpecBit(b) ==
  /\ amd.at = "spec"
  /\ LET sym == amd.sym + (1 + b) * amd.sym2
     IN  IF amd.pbPos > 1
         THEN amd' = [Stored(Then("spec", sym), amd.sym) EXCEPT
                        !.sym = sym, !.sym2 = 2 * amd.sym2,
                        !.pbPos = amd.pbPos - 1]
         ELSE DistEnd((sym - 2 * amd.sym2 - AmdSpecPos * PMULT) \div 2, amd.sym)

\* direct_norm and direct_loop.
AmdDirectBit(b) ==
  /\ amd.at = "direct"
  /\ LET sym == amd.sym + 16 * b
     IN  amd' = IF amd.pbPos > 1
                THEN [Then("direct", None) EXCEPT
                        !.sym = 2 * sym, !.pbPos = amd.pbPos - 1]
                ELSE [Then("align", PMULT) EXCEPT !.sym = sym, !.pbPos = 1]

\* REV_0, REV_1 with steps 2 and 4, REV_2 with step 8 (pbPos counts them).
AmdAlignBit(b) ==
  /\ amd.at = "align"
  /\ \/ /\ amd.pbPos = 1
        /\ amd' = [Stored(Then("align", (2 + b) * PMULT), PMULT) EXCEPT
                     !.sym2 = (2 + b) * PMULT, !.pbPos = 2]
     \/ /\ amd.pbPos \in {2, 4}
        /\ LET sym2 == amd.sym2 + amd.pbPos * PMULT
               next == IF b = 1 THEN sym2 + amd.pbPos * PMULT ELSE sym2
           IN  amd' = [Stored(Then("align", next), sym2 - amd.pbPos * PMULT)
                         EXCEPT !.sym2 = next, !.pbPos = 2 * amd.pbPos]
     \/ /\ amd.pbPos = 8
        /\ LET sym2 == amd.sym2 \div 2
               sym  == Or(amd.sym, sym2)
           IN  DistEnd(IF b = 0 THEN sym - 8 ELSE sym, sym2 * PMULT)

AmdStep(b) ==
  \/ AmdIsMatchBit(b) \/ AmdLiteralBit(b) \/ AmdMatchedBit(b)
  \/ AmdIsRepBit(b) \/ AmdIsRepG0Bit(b) \/ AmdIsRep0LongBit(b)
  \/ AmdIsRepG1Bit(b) \/ AmdIsRepG2Bit(b)
  \/ AmdChoiceBit(b) \/ AmdChoice2Bit(b)
  \/ AmdLenBit("low", b) \/ AmdLenBit("mid", b) \/ AmdLenBit("high", b)
  \/ AmdSlotBit(b) \/ AmdSpecBit(b) \/ AmdDirectBit(b) \/ AmdAlignBit(b)
=============================================================================
