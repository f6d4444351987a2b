SPECIFICATION Spec
CONSTANTS
  a = a
  b = b
  Name <- TwoNames
  MaxSchemaAttributes = 2
  Expr <- AllExprs
  Headers <- AllHeaders
INVARIANT
  ComparisonsAreComparable
