SPECIFICATION Spec
CONSTANTS
  Prefixes = {p}
  Namespaces = {ns, xsdString}
  XsdString = xsdString
  MaxItems = 4
  Constructs <- BaseAndA
  None = None
INVARIANTS
  TermsDenote
  LiteralsDenote
  UniqueLabels
PROPERTIES
  FailsOnMeaninglessName
