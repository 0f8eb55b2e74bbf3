SPECIFICATION Spec
CONSTANTS
  c1 = c1
  c2 = c2
  Clients <- mcTwo
  Port <- mcPlain
  EnableLdaps = FALSE
  MaxSessions = 0
  IdlePolls = 0
CHECK_DEADLOCK FALSE
INVARIANTS StaysUp
