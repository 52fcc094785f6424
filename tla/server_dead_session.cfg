SPECIFICATION FairSpec
CONSTANTS
  Listeners = {l1}
  Tasks = {t1}
  MaxSessions = 1
  MaxMessages = 0
  RawCapacity = 2
  ForwardCapacity = 2
  CancelAllowed = FALSE
PROPERTY DeadSessionsRemoved
CHECK_DEADLOCK FALSE
