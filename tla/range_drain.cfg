\* As range_input, but an error may also come while a chunk is drained.
SPECIFICATION Spec
CONSTANTS
  BufSize = 4
  Required = 2
  InitLen = 2
  HeaderLen = 2
  PackSizes = {1, 3, 4}
  SrcLen = 9
  MaxStreams = 2
  MaxErrors = 2
  DrainFails = TRUE
INVARIANTS ChunkFraming
CHECK_DEADLOCK FALSE
