\* Chunks as an encoder writes them, or any others.
SPECIFICATION FairSpec
CONSTANTS
  Word = 64
  SpecLen = 4
  Lens = {2, 3}
  Dists = {3}
  Origins = {TRUE, FALSE}
  HasAsm = TRUE
  MaxOut = 5
  DicSize = 3
  ChunkSizes = {2, 3}
  MaxRead = 2
  MaxErrors = 1
INVARIANTS TypeOK ChunkAccounting LegalDistanceAccepted
PROPERTIES InOrderDelivery StreamSpec ReadReturns
CHECK_DEADLOCK FALSE
