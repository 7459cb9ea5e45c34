SPECIFICATION Spec
CONSTANTS
  Word = 64
  SpecLen = 4
  Lens = {2}
  Dists = {1, 7}
  Origins = {FALSE}
  HasAsm = TRUE
  MaxOut = 9
  DicSize = 3
  ChunkSizes = {2, 7}
  MaxRead = 2
  MaxErrors = 1
INVARIANTS NoFault
CHECK_DEADLOCK FALSE
