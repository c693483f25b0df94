SPECIFICATION FairSpec
CONSTANTS
  Teammate = {t1, t2}
  Text = {x1}
  Shutdown = {q1}
  MaxRestarts = 1
  Nobody = Nobody
INVARIANT TakenIsWorkedOn
INVARIANT WaitingIsReported
 
PROPERTY DeletionEndsThreads
PROPERTY InboxIsRead
PROPERTY ShutdownEndsWaiting
CHECK_DEADLOCK FALSE
