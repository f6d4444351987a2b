SPECIFICATION Spec
CHECK_DEADLOCK FALSE
CONSTANTS
  a = a
  b = b
  c = c
  Name <- Names3
  MaxSchemaAttributes = 3
  MaxPathSteps = 2
  MaxPathIndex = 1
  WordSize = 8
  Words <- Empty
  Expr <- Exprs
  Constructors <- NestConstructors
  HeaderLists <- NestHeaders
  NameLists <- NestLists
  AggLists <- Empty
  KeyLists <- Empty
  PairLists <- Empty
  StepLists <- SomeSteps
  JoinKinds <- TwoKinds
  Extensions <- Terms
  MaxNodes = 4
INVARIANT
  NestKeepsOrder
