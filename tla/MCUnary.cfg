SPECIFICATION Spec
CHECK_DEADLOCK FALSE
CONSTANTS
  a = a
  b = b
  c = c
  Name <- Names3
  MaxSchemaAttributes = 3
  MaxPathSteps = 2
  MaxPathIndex = 1
  WordSize = 8
  Words <- SomeWords
  Expr <- Exprs
  Constructors <- UnaryConstructors
  HeaderLists <- UnaryHeaders
  NameLists <- ShortLists
  AggLists <- SomeAggs
  KeyLists <- SomeKeys
  PairLists <- Empty
  StepLists <- Empty
  JoinKinds <- TwoKinds
  Extensions <- Terms
  MaxNodes = 4
INVARIANTS
  HeadersValid
  PredicatesVerified
  PredicatesClosed
  CacheCoherent
  RevalidationIdle
  RowsReadBack
  WindowsFit
PROPERTY
  ImplementsAlgebra
