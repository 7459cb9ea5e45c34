----------------------------- MODULE RangeCoder -----------------------------
(***************************************************************************)
(* The range coder through any sequence of decisions and direct bits.  The *)
(* bytes of the input are arbitrary.  One probability stands for the       *)
(* table: a decision never uses two.                                       *)
(***************************************************************************)
EXTENDS CoderSteps

VARIABLES
  rng, code,
  prob,
  legal     \* history: an encoder may have written the input so far

coderVars == <<rng, code, prob, legal>>

----------------------------------------------------------------------------
(* rangeDecoder.init: rng is 0xFFFFFFFF and code any four bytes.  The code *)
(* refuses no value; an encoder keeps it below the range.                  *)
Init ==
  /\ rng = Word - 1 /\ code \in 0 .. Word - 1
  /\ prob = Total \div 2
  /\ legal = (code < rng)

\* Mutant: the next byte is read too late.
NormRngLate == IF rng < Top \div Byte THEN (rng * Byte) % Word ELSE rng

\* What the next decision finds: below Top, the byte b is shifted in.
NormRng     == IF rng < Top THEN (rng * Byte) % Word ELSE rng
NormCode(b) == IF rng < Top THEN ((code * Byte) % Word) + b ELSE code

\* The byte that is shifted in, if one is.
Bytes == IF rng < Top THEN 0 .. Byte - 1 ELSE {0}

DecodeBit ==
  /\ \E b \in Bytes :
       LET d == GoDecode(NormRng, NormCode(b), prob)
       IN  rng' = d.rng /\ code' = d.code /\ prob' = d.prob
  /\ UNCHANGED legal

DirectBit ==
  /\ \E b \in Bytes :
       LET d == GoDirectBit(NormRng, NormCode(b))
       IN  rng' = d.rng /\ code' = d.code
  /\ legal' = (legal /\ code' < rng')
  /\ UNCHANGED prob

\* fin of the assembly loops: the range is normalised before they return.
Fin ==
  /\ \E b \in Bytes : rng' = NormRng /\ code' = NormCode(b)
  /\ UNCHANGED <<prob, legal>>

Next == DecodeBit \/ DirectBit \/ Fin

Spec == Init /\ [][Next]_coderVars

----------------------------------------------------------------------------

\* Whatever the input: the range never becomes empty or outgrows the word,
\* and no probability leaves 31 .. 2017, so that neither part of a decision
\* is ever empty.
RangeNeverEmpty ==
  /\ rng \in 1 .. Word - 1 /\ code \in 0 .. Word - 1
  /\ prob \in Move - 1 .. Total - Move + 1
  /\ legal \in BOOLEAN

\* On an encoder's input the value stays below the range, through every
\* decision and every byte: each decision finds it in one of the two parts,
\* and no subtraction wraps.  (Direct bits of other inputs can bring it up
\* to the range, which the code never checks.)
CodeBelowRange == legal => code < rng

\* One byte is enough to normalise the range: decodeBit, the loop of direct
\* bits and NORM all test it once, where the format asks for a loop.
OneByteSuffices == rng * Byte >= Top

\* All engines compute the same: the branching and the branchless form of
\* amd64, and arm64's, agree with decodeBit on the bit, the range, the code
\* and the new probability; and so do both forms of a direct bit.
SameOutcome ==
  \A b \in Bytes :
    LET r == NormRng
        c == NormCode(b)
    IN  /\ AmdBranchDecode(r, c, prob) = GoDecode(r, c, prob)
        /\ AmdDecode(r, c, prob) = GoDecode(r, c, prob)
        /\ ArmDecode(r, c, prob) = GoDecode(r, c, prob)
        /\ AsmDirectBit(r, c) = GoDirectBit(r, c)
=============================================================================
