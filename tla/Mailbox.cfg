SPECIFICATION FairSpec
CONSTANTS
  Actor = {a1, a2}
  Message = {m1, m2}
  Retries = 2
  MaxTakes = 2
  MaxDeaths = 1
  Take = Take
  None = None
INVARIANT OneInside
PROPERTY OrderlyInbox
PROPERTY CallsReturn
CHECK_DEADLOCK FALSE
