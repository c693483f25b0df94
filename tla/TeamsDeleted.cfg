SPECIFICATION Spec
CONSTANTS
  Teammate = {t1}
  Text = {}
  Shutdown = {}
  MaxRestarts = 0
  Nobody = Nobody
INVARIANT DeletedStaysDeleted
CHECK_DEADLOCK FALSE
