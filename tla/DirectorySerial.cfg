SPECIFICATION Spec
CONSTANTS
  s1 = s1
  s2 = s2
  Sessions <- mcOne
  Identities <- mcAllIdentities
  Requests <- mcSerial
  InitialTree <- mcTree
  AclLines <- mcAclLines
  RootDn <- Admin
  BaseDn <- B
  SchemaFiles <- mcSchemaFiles
  Legal <- mcLegal
  Hash <- mcHash
  Scheme <- mcScheme
INVARIANTS NoOrphans FailedWriteHasNoEffect
PROPERTIES OnlyNamedAttributesChange
