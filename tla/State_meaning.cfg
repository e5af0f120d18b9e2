SPECIFICATION Spec
CONSTANTS
  MaxTerms = 7
  MaxBrackets = 3
  MaxListsPerVerb = 1
  EmptyCollections = TRUE
INVARIANTS
  MeaningPreserved
  EachTripleOnce
  NothingLeftBehind
  NoPopOfEmptyStack
