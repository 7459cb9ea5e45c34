\* The coder with an 8-bit word, 4-bit probabilities, and runs of three direct
\* bits for bytes of three bits.
CONSTANTS
  Total = 16
  Move = 4
  Top = 32
  Byte = 8
  Unroll = 3
  MaxBits = 7
SPECIFICATION DirectSpec
INVARIANTS RangeNeverEmpty CodeBelowRange OneByteSuffices SameOutcome LateReadsAgree AtMostOneBehind
