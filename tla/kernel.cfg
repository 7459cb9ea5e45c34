\* Both machines; Wide is scaled from 16 to 4.
SPECIFICATION FairSpec
CONSTANTS
  Full = 256
  Half = 64
  Dic = 20
  BufSizes = {11}
  MaxLen = 11
  Wide = 4
INVARIANTS PlacesHold BytewiseCopy StoresInMatch
PROPERTIES CopyEnds
