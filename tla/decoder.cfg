\* An encoder's stream or any other, and another one after it.
SPECIFICATION FairSpec
CONSTANTS
  Word = 64
  SpecLen = 4
  Lens = {3}
  Dists = {3}
  Origins = {TRUE, FALSE}
  HasAsm = TRUE
  MaxOut = 4
  Sizes <- MCSizes
  DicSizes = {3}
  IntMax = 1000
  MaxRead = 2
  MaxErrors = 2
  MaxStreams = 2
INVARIANTS TypeOK SizeAccounting LegalDistanceAccepted EofAtDeclaredSize NewDistanceInStream
PROPERTIES InOrderDelivery StreamSpec ReadReturns
CHECK_DEADLOCK FALSE
