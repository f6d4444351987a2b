SPECIFICATION Spec
CONSTANTS
  Name <- AcceptedNames
  MaxSchemaAttributes = 2
  Expr <- NoExpr
  Value <- SomeValues
  ValueType <- SomeTypes
  MaxRowsInAst = 2
  MaxInList = 3
  Letters <- LetterA
  Digits <- Digit1
  MaxAttributeNameLen = 3
  MaxTableNameLen = 2
  RawNames <- SomeNames
  RawTables <- TableNames
  RawRows <- SomeRows
  MaxColumns = 2
  MaxBatch = 3
INVARIANTS
  TypeOK
  SourceConforms
  SourceExact
  BlamesFirst
  ColumnsSearchable
  BadCharLocated
PROPERTY
  RefusalSticks
