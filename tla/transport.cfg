SPECIFICATION FairSpec
CONSTANTS
  Tasks = {t1, t2, reply}
  Responders = {reply}
  MaxConns = 2
  ForceAllowed = TRUE
  Free = Free
INVARIANTS TypeOK SessionHasAdapter OkMeansClosed SingleCloser LocksOwned
PROPERTIES GracefulCloseEnds SendEnds
CHECK_DEADLOCK FALSE
