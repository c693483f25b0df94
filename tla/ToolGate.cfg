SPECIFICATION Spec
CONSTANTS
  Worker = {w1, w2}
  Sub = {s1}
  Action = {edit, ls}
  Safe = {ls}
  MaxLines = 3
  None = None
INVARIANT PopupHasWaiter
INVARIANT RefusalHasReason
PROPERTY GrantIsFresh
CHECK_DEADLOCK FALSE
