\* Literals, after a literal and after a match, and all kinds of matches.
CONSTANTS
  Inputs <- SomeInputs
  FreeDirect = 1
  EndDistance = 1610612735
SPECIFICATION MCSpec
INVARIANTS SameProbability SameSymbol OwnRegion
