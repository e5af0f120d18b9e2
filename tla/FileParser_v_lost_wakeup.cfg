SPECIFICATION FairSpec
CONSTANTS
  NoTriple = NoTriple
  RingCapacity = 4
  upperThreshold = 1
  lowerThreshold = 1
  MaxStatements = 3
  MaxTriplesPerStatement = 2
  Errors <- NoErrors
  MayLeave = FALSE
  MaxLoops = 1
PROPERTY HasNextAnswers
