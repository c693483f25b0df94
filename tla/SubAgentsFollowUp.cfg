SPECIFICATION Spec
CONSTANTS
  Task = {a}
  MaxConcurrent = 1
  MaxFollowUps = 1
  MaxCrashes = 0
INVARIANT FollowUpDelivered
