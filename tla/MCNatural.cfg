SPECIFICATION Spec
CHECK_DEADLOCK FALSE
CONSTANTS
  a = a
  b = b
  c = c
  Name <- Names3
  MaxSchemaAttributes = 3
  MaxPathSteps = 2
  MaxPathIndex = 1
  WordSize = 8
  Words <- Empty
  Expr <- Exprs
  Constructors <- JoinConstructors
  HeaderLists <- JoinHeaders
  NameLists <- Empty
  AggLists <- Empty
  KeyLists <- Empty
  PairLists <- SomePairs
  StepLists <- Empty
  JoinKinds <- TwoKinds
  Extensions <- Terms
  MaxNodes = 4
INVARIANT
  NaturalJoinsShare
