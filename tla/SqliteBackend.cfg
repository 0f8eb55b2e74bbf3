SPECIFICATION Spec
CONSTANTS
  s1 = s1
  s2 = s2
  Sessions <- mcSessions
  Names <- mcNames
  NoName = ""
  Spellings <- mcSpellings
  Attrs <- mcAttrs
  Cut <- mcCut
  Calls <- mcCalls
  SeedFile <- mcSeed
INVARIANTS TypeOK NoTransactionLeft TablesConsistent
PROPERTIES ImplementsBackend
