SPECIFICATION Spec
CONSTANTS
  MaxSteps = 2
  MaxTruncations = 0
  MaxContinuations = 1
  MaxRecoveries = 1
  MaxFailures = 1
  MinKeep = 2
  KeepRecent = 1
  LongHistory = 5
  MaxTurns = 2
  MaxCalls = 2
  MaxNotes = 1
  MaxRestarts = 1
 
 
INVARIANT CurrentResultsIntact
INVARIANT QuestionReachesModel
INVARIANT BoundedTurn
CHECK_DEADLOCK FALSE
