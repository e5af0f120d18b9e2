SPECIFICATION Spec
CONSTANTS
  NoTriple = NoTriple
  RingCapacity = 8
  upperThreshold = 2
  lowerThreshold = 1
  MaxStatements = 4
  MaxTriplesPerStatement = 2
  Errors <- AllErrors
  MayLeave = TRUE
  MaxLoops = 2
INVARIANTS
  BacklogBounded
  BacklogInv
  DeliveryInv
  MainWakeupPending
  ParserWakeupPending
  EachTripleVisitedOnce
PROPERTIES
  ImplementsChannel
  NothingInsertedAfterEnd
