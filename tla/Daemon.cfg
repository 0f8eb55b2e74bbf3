SPECIFICATION Spec
CONSTANTS
  c1 = c1
  c2 = c2
  Clients <- mcTwo
  Port <- mcOneTls
  EnableLdaps = TRUE
  MaxSessions = 1
  IdlePolls = 2
CHECK_DEADLOCK FALSE
INVARIANTS TypeOK SessionsBounded ThreadsOwned NothingSurvivesStop
PROPERTIES AcceptNotBlocked IdleSessionsEnd DisconnectEndsSession
           StopReturnsWithCooperation
