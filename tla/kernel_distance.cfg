\* Distances with the sign bit of 32: Half is scaled to 16.
SPECIFICATION Spec
CONSTANTS
  Full = 256
  Half = 16
  Dic = 20
  BufSizes = {11}
  MaxLen = 2
  Wide = 4
INVARIANTS BytewiseCopy
