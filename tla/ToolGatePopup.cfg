SPECIFICATION Spec
CONSTANTS
  Worker = {w1}
  Sub = {s1, s2}
  Action = {edit, ls}
  Safe = {ls}
  MaxLines = 3
  None = None
PROPERTY GrantIsForRequest
CHECK_DEADLOCK FALSE
