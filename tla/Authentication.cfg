SPECIFICATION Spec
CONSTANTS
  Trees <- mcStable
  Requests <- mcRequests
  BaseDn <- B
  RootDn <- Admin
  RootPassword = "p2"
  RequireConfidentiality = TRUE
  CertName <- mcCert
  KrbRealm <- NotSet
  KeytabFiles <- mcKeytabs
  Times <- mcTimes
  ClockSkew = 1
  MaxNonces = 2
  MaxChanges = 3
  Hash <- mcHash
  Scheme <- mcScheme
INVARIANTS TypeOK BoundAsProven NonceSingleUse DisabledAccountsRefused
