\* Every tool, whatever the connection and the server do.
SPECIFICATION Spec
CONSTANTS
  Wide = 3
  Narrow = 2
  PagedResultsOid <- mcPaged
  PasswordModifyOid <- mcPasswordModify
  WhoAmIOid <- mcWhoAmI
  StartTlsOid <- mcStartTls
  Calls <- mcCalls
  Servers <- mcServers
  Outcomes <- mcOutcomes
  BindOutcomes <- mcBindOutcomes
  Found <- mcFound
  ClientMax = 2000
  Diagnostic <- mcDiagnostic
  Challenge <- mcChallenge
  DigestResponse <- mcDigestResponse
  Ticket <- mcTicket
  Authzid <- mcAuthzid
  Hello <- mcHello
INVARIANTS TypeOK CarriedOutAsMeant ExitTellsTruth SecretsProtected
PROPERTIES ToolEnds
\* The tool exits and the session ends.
CHECK_DEADLOCK FALSE
