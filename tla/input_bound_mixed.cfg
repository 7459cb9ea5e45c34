\* After decodeLoop, which leaves the range as the last decision made it.
CONSTANTS
  Ranges <- SomeRanges
  AfterGo = TRUE
SPECIFICATION Spec
INVARIANT EnoughInput
