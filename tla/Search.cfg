SPECIFICATION Spec
CONSTANTS
  Trees <- mcTrees
  MapOrder <- mcOrder
  RootDn <- Admin
  AclLines <- mcAclLines
  Requests <- mcRequests
  Identities <- mcIdentities
  Dse <- mcDse
  Hash <- mcHash
  Scheme <- mcScheme
  Nodes <- mcNodes
  Text <- mcText
  MaxChanges = 1
INVARIANTS TypeOK AnswersExact OnlyReadable
PROPERTIES SearchEnds
