SPECIFICATION FairSpec
CONSTANTS
  NoTriple = NoTriple
  RingCapacity = 3
  upperThreshold = 2
  lowerThreshold = 1
  MaxStatements = 3
  MaxTriplesPerStatement = 2
  Errors <- AllErrors
  MayLeave = TRUE
  MaxLoops = 2
INVARIANTS
  TypeOK
  DeliveredInOrder
  NextHasTriple
PROPERTIES
  SleeperResumes
  MainIsWoken
  DocumentIsParsed
  DestructorReturns
