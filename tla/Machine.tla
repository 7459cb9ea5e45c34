------------------------------ MODULE Machine ------------------------------
(* The instructions the generated kernels are made of, as far as a match    *)
(* copy depends on them: registers of Full values, instructions on their    *)
(* low Half, loads that extend, and the flags of a subtraction.  On the      *)
(* machines Full is 2^64 and Half is 2^32.                                   *)
EXTENDS Integers, Sequences
CONSTANTS Full, Half

ASSUME MachineAssumption ==
  /\ Half \in Nat /\ Half > 1 /\ Half % 2 = 0
  /\ Full \in Nat /\ Full > Half /\ Full % Half = 0

\* A 32 bit instruction, or a load of amd64, clears the upper half.
Low(x) == x % Half

\* arm64's MOVW copies the sign of a loaded word into the upper half.
SignExtended(x) ==
  IF 2 * Low(x) < Half THEN Low(x) ELSE Full - Half + Low(x)

Plus(x, y)  == (x + y) % Full
Minus(x, y) == (x - y) % Full
Negated(x)  == Minus(0, x)

\* The branches after a comparison or a subtraction (JCC, BHS), and the
\* carry of a comparison with a negated operand (CMN).
NoBorrow(x, y) == x >= y
CarryAbove(x, y) == x + y > Full

\* AND with -n: towards zero for a count, away from it for a negated one.
Aligned(x, n) == x - (x % n)

\* A load of n bytes, and a store of several.
Load(mem, a, n, wild) ==
  [i \in 1..n |-> LET b == Plus(a, i - 1) IN IF b \in DOMAIN mem THEN mem[b] ELSE wild]
Store(mem, a, bytes) ==
  [x \in DOMAIN mem |->
     LET i == Minus(x, a) + 1 IN IF i <= Len(bytes) THEN bytes[i] ELSE mem[x]]
=============================================================================
