SPECIFICATION Spec
CONSTANTS
  NoTriple = NoTriple
  MaxTriples = 4
  MaxLoops = 3
INVARIANTS
  NextHasTriple
  NothingSkipped
PROPERTY ImplementsChannel
