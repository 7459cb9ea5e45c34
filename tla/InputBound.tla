----------------------------- MODULE InputBound -----------------------------
(***************************************************************************)
(* How many bytes of input the assembly reads for one symbol.  The loop    *)
(* checks the input only between symbols: tryDecodeAsm starts it with at   *)
(* least requiredInputMax bytes in the buffer, and it takes another symbol *)
(* while more than that are left.  fin may read one byte more.             *)
(*                                                                         *)
(* Bytes are read as fast as the range shrinks, so every decision here     *)
(* leaves the smallest part it can: the bit 0 with the smallest            *)
(* probability, or the bit 1 with the largest.                             *)
(***************************************************************************)
EXTENDS Integers

CONSTANTS
  Ranges,    \* bound: the normalised ranges to start from, as <<hi, lo>>
  AfterGo    \* TRUE: decodeLoop ran before the call, and left its range
             \* as the last decision made it

\* Mutant: one byte too few.
RequiredLess == 19

requiredInputMax == 20

VARIABLES
  at,       \* the part of the symbol being decoded
  left,     \* its decisions that are left
  part,     \* the part of the range its decisions leave: "low" or "high"
  hi, lo,   \* range_ is hi * 2^11 + lo
  bytes,    \* bytes read for this symbol, and after it
  avail     \* bytes in the buffer when the symbol began

inputVars == <<at, left, part, hi, lo, bytes, avail>>

kTop  == 2^13     \* kTopValue >> kNumBitModelTotalBits
Least == 31       \* the smallest probability, and the largest's complement

\* What a decision leaves of the range h * 2^11 + l.
Smallest(h, l, p) ==
  LET bound == h * Least + (IF p = "high" THEN l ELSE 0)
  IN  <<bound \div 2^11, bound % 2^11>>

\* NORM: the range a decision finds, and how many bytes it read for it.
Norm(h, l) == IF h < kTop THEN <<h * 256 + (l \div 8), (l % 8) * 256>> ELSE <<h, l>>
Read(h)    == IF h < kTop THEN 1 ELSE 0

Parts == {"low", "high"}

\* The first symbol of a call, and a later one: the loop goes on while buf is
\* below bufLimit, which is requiredInputMax before the end.
Init ==
  \E start \in Ranges, p \in Parts, first \in BOOLEAN :
    LET range == IF first /\ ~AfterGo THEN start ELSE Smallest(start[1], start[2], p)
    IN  /\ at = "isMatch" /\ left = 1 /\ part \in Parts
        /\ hi = range[1] /\ lo = range[2] /\ bytes = 0
        /\ avail = IF first THEN requiredInputMax ELSE requiredInputMax + 1

Shrink(range) ==
  /\ hi' = range[1] /\ lo' = range[2]
  /\ bytes' = bytes + Read(hi)
  /\ UNCHANGED avail

Decision == LET n == Norm(hi, lo) IN Shrink(Smallest(n[1], n[2], part))

\* The next part of the symbol has n decisions.
Enter(a, n) == at' = a /\ left' = n /\ part' \in Parts

Stay == at' = at /\ left' = left - 1 /\ UNCHANGED part

\* The last decision of a part decides what comes next.
Follow ==
  CASE at = "isMatch" -> Enter("literal", 8) \/ Enter("isRep", 1)
    [] at = "isRep"   -> Enter("length", 1) \/ Enter("isRepG0", 1)
    [] at = "isRepG0" -> Enter("isRep0Long", 1) \/ Enter("isRepG1", 1)
    [] at = "isRep0Long" -> Enter("done", 0) \/ Enter("repLength", 1)
    [] at = "isRepG1" -> Enter("repLength", 1) \/ Enter("isRepG2", 1)
    [] at = "isRepG2" -> Enter("repLength", 1)
    [] at = "length"  -> Enter("tree", 3) \/ Enter("length2", 1)
    [] at = "length2" -> Enter("tree", 3) \/ Enter("tree", 8)
    [] at = "tree"    -> Enter("slot", 6)
    [] at = "repLength"  -> Enter("repTree", 3) \/ Enter("repLength2", 1)
    [] at = "repLength2" -> Enter("repTree", 3) \/ Enter("repTree", 8)
    [] at = "slot"    -> \/ Enter("done", 0)
                         \/ \E n \in 1 .. 5 : Enter("spec", n)
                         \/ \E n \in 2 .. 26 : Enter("direct", n)
    [] at \in {"literal", "repTree", "spec", "align"} -> Enter("done", 0)

Bit ==
  /\ at \notin {"direct", "done", "end"}
  /\ Decision
  /\ IF left > 1 THEN Stay ELSE Follow

\* A direct bit halves the range.  (arm64 reads the same bytes, some later:
\* DirectBits.)
DirectBit ==
  /\ at = "direct"
  /\ LET n == Norm(hi, lo)
     IN  Shrink(<<n[1] \div 2, (n[1] % 2) * 2^10 + (n[2] \div 2)>>)
  /\ IF left > 1 THEN Stay ELSE Enter("align", 4)

\* CheckLimits finds the buffer or the output exhausted, and fin normalises.
Fin ==
  /\ at = "done"
  /\ Shrink(Norm(hi, lo))
  /\ at' = "end" /\ UNCHANGED <<left, part>>

\* The loop has returned; the count is complete.
Returned == at = "end" /\ UNCHANGED inputVars

Next == Bit \/ DirectBit \/ Fin \/ Returned

Spec == Init /\ [][Next]_inputVars

----------------------------------------------------------------------------

\* The assembly never reads a byte that has not arrived: a symbol and the
\* normalisation after it take no more bytes than the check before it left.
EnoughInput == bytes <= avail
=============================================================================
