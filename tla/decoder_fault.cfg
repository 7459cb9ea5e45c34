SPECIFICATION Spec
CONSTANTS
  Word = 64
  SpecLen = 4
  Lens = {2, 3}
  Dists = {1, 7}
  Origins = {FALSE}
  HasAsm = FALSE
  MaxOut = 9
  Sizes <- MCSizes
  DicSizes = {3}
  IntMax = 1000
  MaxRead = 2
  MaxErrors = 1
  MaxStreams = 1
INVARIANTS NoFault
CHECK_DEADLOCK FALSE
