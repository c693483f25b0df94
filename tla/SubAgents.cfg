SPECIFICATION Spec
CONSTANTS
  Task = {a, b}
  MaxConcurrent = 1
  MaxFollowUps = 1
  MaxCrashes = 1
SYMMETRY Symmetry
INVARIANT SlotAccounting
INVARIANT BoundedConcurrency
INVARIANT FollowUpInPrompt
 
 
PROPERTY TerminalIsStable
PROPERTY ThreadStartsOnce
PROPERTY ImplementsPool
