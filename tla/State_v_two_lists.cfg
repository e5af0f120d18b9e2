SPECIFICATION Spec
CONSTANTS
  MaxTerms = 7
  MaxBrackets = 2
  MaxListsPerVerb = 2
  EmptyCollections = FALSE
INVARIANT MeaningPreserved
