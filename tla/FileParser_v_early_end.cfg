SPECIFICATION Spec
CONSTANTS
  NoTriple = NoTriple
  RingCapacity = 4
  upperThreshold = 4
  lowerThreshold = 1
  MaxStatements = 2
  MaxTriplesPerStatement = 2
  Errors <- NoErrors
  MayLeave = FALSE
  MaxLoops = 1
INVARIANT EndIsTheEnd
