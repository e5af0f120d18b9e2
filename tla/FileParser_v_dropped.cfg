SPECIFICATION Spec
CONSTANTS
  NoTriple = NoTriple
  RingCapacity = 2
  upperThreshold = 2
  lowerThreshold = 1
  MaxStatements = 3
  MaxTriplesPerStatement = 2
  Errors <- NoErrors
  MayLeave = FALSE
  MaxLoops = 1
INVARIANT NothingDropped
