\* After init or the assembly: the range is normalised when a call starts.
CONSTANTS
  Ranges <- SomeRanges
  AfterGo = FALSE
SPECIFICATION Spec
INVARIANT EnoughInput
