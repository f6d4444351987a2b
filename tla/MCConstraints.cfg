SPECIFICATION Spec
CONSTANTS
  a = a
  b = b
  c = c
  Name <- Names3
  MaxSchemaAttributes = 2
  Expr <- Exprs
  SchemaSet <- Schemas3
  Rank <- Alphabetical
  MaxCollected = 3
INVARIANTS
  TypeOK
  SetScoped
  ScopeTravels
  FreeIsNeeded
  ScopeExact
