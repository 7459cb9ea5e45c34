----------------------------- MODULE CoderSteps -----------------------------
(***************************************************************************)
(* The arithmetic of the range coder: one binary decision, as decodeBit    *)
(* and as the macros of the two assembly loops compute it, and one direct  *)
(* bit of a distance, modulo the word size.                                *)
(***************************************************************************)
EXTENDS Integers

CONSTANTS
  Total,   \* bitModelTotal, 2^11: what a probability is a fraction of
  Move,    \* 2^numMoveBits, 2^5: how slowly a probability adapts
  Top,     \* topValue, 2^24: below it a byte is read
  Byte     \* 2^8

Word == Top * Byte   \* 2^32: rng and code are uint32

ASSUME CoderAssumption ==
  /\ Total \in Nat /\ Move \in Nat /\ Top \in Nat /\ Byte \in Nat
  /\ Move > 1 /\ 2 * Move <= Total /\ Total % Move = 0
  /\ Total <= Top /\ Byte > 3 /\ Word % 2 = 0
  /\ (Top \div Total) * (Move - 1) * Byte >= Top

Sub(a, b) == (a - b) % Word      \* uint32 subtraction
Add(a, b) == (a + b) % Word

\* Mutant: the update of a 0 rounds up.
GoDecodeRoundsUp(r, c, p) ==
  LET bound == (r \div Total) * p
  IN  IF c < bound
      THEN [bit |-> 0, rng |-> bound, code |-> c,
            prob |-> p + ((Total - p + Move - 1) \div Move)]
      ELSE [bit |-> 1, rng |-> Sub(r, bound), code |-> Sub(c, bound),
            prob |-> p - (p \div Move)]

\* Mutant: the boundary belongs to the 0.
GoDecodeAtMost(r, c, p) ==
  LET bound == (r \div Total) * p
  IN  IF c <= bound
      THEN [bit |-> 0, rng |-> bound, code |-> c,
            prob |-> p + ((Total - p) \div Move)]
      ELSE [bit |-> 1, rng |-> Sub(r, bound), code |-> Sub(c, bound),
            prob |-> p - (p \div Move)]

\* decodeBit, on a normalised range: the bit, and what becomes of rng, code
\* and the probability.
GoDecode(r, c, p) ==
  LET bound == (r \div Total) * p
  IN  IF c < bound
      THEN [bit |-> 0, rng |-> bound, code |-> c,
            prob |-> p + ((Total - p) \div Move)]
      ELSE [bit |-> 1, rng |-> Sub(r, bound), code |-> Sub(c, bound),
            prob |-> p - (p \div Move)]

\* IF_BIT_0, IF_BIT_1, UPDATE_0 and UPDATE_1 of amd64.
AmdBranchDecode(r, c, p) ==
  LET range == (r \div Total) * p
  IN  IF c < range
      THEN [bit |-> 0, rng |-> range, code |-> c,
            prob |-> ((Total - p) \div Move) + p]
      ELSE [bit |-> 1, rng |-> Sub(r, range), code |-> Sub(c, range),
            prob |-> p - (p \div Move)]

\* NORM_CALC, CMOVs and PUP of amd64: kBitModelOffset is 31, and the shift
\* is arithmetic.
AmdDecode(r, c, p) ==
  LET range == (r \div Total) * p
      carry == c < range
      t0    == IF carry THEN Total ELSE Move - 1
  IN  [bit |-> IF carry THEN 0 ELSE 1,
       rng |-> IF carry THEN range ELSE Sub(r, range),
       code |-> IF carry THEN c ELSE Sub(c, range),
       prob |-> p + ((t0 - p) \div Move)]

\* Mutant: the offset is one too small.
ArmDecodeOffset(r, c, p) ==
  LET t0    == (r \div Total) * p
      lower == c < t0
      t3    == IF lower THEN p - (Total - Move) ELSE p
  IN  [bit |-> IF lower THEN 0 ELSE 1,
       rng |-> IF lower THEN t0 ELSE Sub(r, t0),
       code |-> IF lower THEN c ELSE Sub(c, t0),
       prob |-> p - (t3 \div Move)]

\* The same on arm64, where kBitModelOffset is 2017 and is subtracted, in the
\* branches (UPDATE_0, UPDATE_1) too.
ArmDecode(r, c, p) ==
  LET t0    == (r \div Total) * p
      lower == c < t0
      t3    == IF lower THEN p - (Total - Move + 1) ELSE p
  IN  [bit |-> IF lower THEN 0 ELSE 1,
       rng |-> IF lower THEN t0 ELSE Sub(r, t0),
       code |-> IF lower THEN c ELSE Sub(c, t0),
       prob |-> p - (t3 \div Move)]

Negative(x) == x >= Word \div 2

\* A direct bit: decodeLoop masks, the assembly moves conditionally.
GoDirectBit(r, c) ==
  LET half == r \div 2
      diff == Sub(c, half)
      t    == IF Negative(diff) THEN Word - 1 ELSE 0
  IN  [bit |-> Add(t, 1), rng |-> half,
       code |-> IF t = 0 THEN diff ELSE Add(diff, half)]

AsmDirectBit(r, c) ==
  LET half == r \div 2
      diff == Sub(c, half)
  IN  [bit |-> IF Negative(diff) THEN 0 ELSE 1, rng |-> half,
       code |-> IF Negative(diff) THEN c ELSE diff]
=============================================================================
