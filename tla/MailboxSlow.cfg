SPECIFICATION Spec
CONSTANTS
  Actor = {a1, a2}
  Message = {m1, m2}
  Retries = 2
  MaxTakes = 0
  MaxDeaths = 0
  Take = Take
  None = None
INVARIANT NoMessageLost
CHECK_DEADLOCK FALSE
