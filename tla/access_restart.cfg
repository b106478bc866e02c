SPECIFICATION Spec
CONSTANTS
  None = None
  Tokens = {"first", "second"}
  MaxRequests = 2
  MaxSessions = 2
  MaxAttempts = 1
INVARIANT TokenSurvivesRestart
CHECK_DEADLOCK FALSE
