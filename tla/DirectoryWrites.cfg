SPECIFICATION Spec
CONSTANTS
  s1 = s1
  s2 = s2
  Sessions <- mcTwo
  Identities <- mcIdentities
  Requests <- mcConcurrent
  InitialTree <- mcTree
  AclLines <- mcAclLines
  RootDn <- Admin
  BaseDn <- B
  SchemaFiles <- mcSchemaFiles
  Legal <- mcLegal
  Hash <- mcHash
  Scheme <- mcScheme
SYMMETRY mcSymmetry
INVARIANTS TypeOK SchemaHolds SavedWhenQuiet
PROPERTIES WritesAuthorised NoEntryLost
