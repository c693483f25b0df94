SPECIFICATION FairSpec
CONSTANTS
  Task = {a, b}
  MaxConcurrent = 1
  MaxFollowUps = 0
  MaxCrashes = 1
 
PROPERTY SlotReturns
