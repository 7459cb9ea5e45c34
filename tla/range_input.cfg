\* The buffer is scaled from 64 KiB to 4 bytes, a symbol's input from 20 to 2.
SPECIFICATION Spec
CONSTANTS
  BufSize = 4
  Required = 2
  InitLen = 2
  HeaderLen = 2
  PackSizes = {1, 3, 4}
  SrcLen = 9
  MaxStreams = 2
  MaxErrors = 2
  DrainFails = FALSE
INVARIANTS BufferHolds InputInOrder AsmWithinInput EofOnlyAtEnd ChunkFraming
CHECK_DEADLOCK FALSE
