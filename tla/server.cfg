SPECIFICATION FairSpec
CONSTANTS
  Listeners = {l1}
  Tasks = {t1, t2}
  MaxSessions = 1
  MaxMessages = 1
  RawCapacity = 1
  ForwardCapacity = 1
  CancelAllowed = TRUE
INVARIANTS TypeOK MapsAgree ClosesOnce
PROPERTIES NoLateRegistration ClosingEnds PeerCloseHandled
CHECK_DEADLOCK FALSE
