----------------------------- MODULE DirectBits -----------------------------
(***************************************************************************)
(* RangeCoder with the direct bits of a distance as arm64 decodes them.    *)
(* decodeLoop and amd64 test the range before each bit.  arm64 does so     *)
(* only until it reads its first byte; the later ones it reads after every *)
(* eighth bit, untested, and so it may be one byte behind, which the       *)
(* normalisation before the align bits makes up.                           *)
(***************************************************************************)
EXTENDS RangeCoder, Sequences

CONSTANTS
  Unroll,   \* 8: the bits from one byte of arm64's to the next
  MaxBits   \* the most direct bits of a distance, 26

Pow2(n) == 2^n

\* topValue is even: with an odd one, a range could fall below it one bit too
\* early after it was halved, and arm64 would lose its lowest bit.
ASSUME UnrollAssumption ==
  Unroll \in Nat /\ Byte = Pow2(Unroll) /\ Top % 2 = 0 /\ MaxBits \in Nat

\* What the provers do not know of powers.
ASSUME Doubling ==
  /\ Pow2(0) = 1
  /\ \A n \in 0 .. Unroll : Pow2(n) \in Nat \ {0} /\ Pow2(n + 1) = 2 * Pow2(n)

VARIABLES
  armRng, armCode,   \* arm64's rng and code
  owed,              \* bytes that only decodeLoop has read
  checked,           \* arm64 still tests the range (DIRECT_2)
  run,               \* bits until arm64 reads a byte untested
  done,              \* direct bits decoded so far; -1 outside a distance
  bits               \* the last bit, as decodeLoop and as arm64 got it

arm == <<armRng, armCode, owed>>
loop == <<checked, run, bits>>
directVars == <<coderVars, arm, loop, done>>

DirectInit ==
  /\ Init
  /\ armRng = rng /\ armCode = code /\ owed = <<>>
  /\ checked = TRUE /\ run = Unroll
  /\ done = -1 /\ bits = <<0, 0>>

\* Outside a distance the engines are level: SameOutcome.
Level ==
  /\ done = -1 /\ Next
  /\ armRng' = rng' /\ armCode' = code'
  /\ UNCHANGED <<owed, loop, done>>

\* A distance with direct bits.  They do not depend on the probability, so
\* one value of it is enough.  On input no encoder writes, code may be above
\* the range; then it matters when a byte is shifted in, and the engines
\* may differ.
Begin ==
  /\ done = -1 /\ prob = Total \div 2 /\ legal
  /\ done' = 0
  /\ checked' = TRUE /\ run' = Unroll /\ bits' = <<0, 0>>
  /\ UNCHANGED <<coderVars, arm>>

\* A byte shifted in.
Shift(r, c, b) == <<(r * Byte) % Word, ((c * Byte) % Word) + b>>

\* Mutant: a run is one bit too long.
ArmReadsLate == (checked /\ armRng < Top) \/ run = -1

\* Mutant: the range is not tested before the first byte.
ArmReadsUntested == run = 0

\* direct_unroll: on the first range below Top, and after every run.
ArmReads == (checked /\ armRng < Top) \/ run = 0

\* The byte decodeLoop shifts in, and those arm64 can choose from.
GoRange(b) == IF rng < Top THEN Shift(rng, code, b) ELSE <<rng, code>>
Arrived(b) == IF rng < Top THEN Append(owed, b) ELSE owed

ArmRange(reads, bytes) ==
  IF reads THEN Shift(armRng, armCode, Head(bytes)) ELSE <<armRng, armCode>>

ArmDirectBit ==
  /\ done \in 0 .. MaxBits - 1
  /\ \E b \in Bytes :
       LET bytes == Arrived(b)
           go    == GoDirectBit(GoRange(b)[1], GoRange(b)[2])
           range == ArmRange(ArmReads, bytes)
           late  == AsmDirectBit(range[1], range[2])
       IN  /\ ArmReads => bytes # <<>>
           /\ rng' = go.rng /\ code' = go.code
           /\ armRng' = late.rng /\ armCode' = late.code
           /\ owed' = IF ArmReads THEN Tail(bytes) ELSE bytes
           /\ bits' = <<go.bit, late.bit>>
  /\ legal' = (legal /\ code' < rng')
  /\ checked' = (checked /\ ~ArmReads)
  /\ run' = IF ArmReads THEN Unroll - 1 ELSE run - 1
  /\ done' = done + 1
  /\ UNCHANGED prob

\* After any number of bits (numDirectBits): NORM of the first align bit.
Align ==
  /\ done > 0
  /\ \E b \in Bytes :
       LET bytes == Arrived(b)
           range == ArmRange(armRng < Top, bytes)
       IN  /\ armRng < Top => bytes # <<>>
           /\ rng' = GoRange(b)[1] /\ code' = GoRange(b)[2]
           /\ armRng' = range[1] /\ armCode' = range[2]
           /\ owed' = IF armRng < Top THEN Tail(bytes) ELSE bytes
  /\ done' = -1
  /\ UNCHANGED <<prob, legal, loop>>

DirectNext == Level \/ Begin \/ ArmDirectBit \/ Align

DirectSpec == DirectInit /\ [][DirectNext]_directVars

----------------------------------------------------------------------------

\* In a stream that was an encoder's up to the distance, however arm64 reads
\* its bytes, each bit is the one decodeLoop gets, and
\* at the align bits it has made up the byte it was behind: range and code
\* are decodeLoop's again.
LateReadsAgree ==
  /\ bits[1] = bits[2]
  /\ done = -1 => armRng = rng /\ armCode = code /\ owed = <<>>

\* arm64 is never more than one byte behind, and while it owes none its range
\* and code are decodeLoop's.
AtMostOneBehind ==
  /\ Len(owed) <= 1
  /\ owed = <<>> => armRng = rng /\ armCode = code
=============================================================================
