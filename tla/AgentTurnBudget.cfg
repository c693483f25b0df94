SPECIFICATION Spec
CONSTANTS
  MaxSteps = 3
  MaxTruncations = 1
  MaxContinuations = 0
  MaxRecoveries = 1
  MaxFailures = 1
  MinKeep = 2
  KeepRecent = 1
  LongHistory = 5
  MaxTurns = 2
  MaxCalls = 2
  MaxNotes = 0
  MaxRestarts = 1
PROPERTY SentStaysSent
CHECK_DEADLOCK FALSE
