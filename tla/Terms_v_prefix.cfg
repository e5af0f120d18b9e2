SPECIFICATION Spec
CONSTANTS
  Prefixes = {p}
  Namespaces = {ns, xsdString}
  XsdString = xsdString
  MaxItems = 4
  Constructs <- FreeDirectives
  None = None
INVARIANT PrefixInForce
