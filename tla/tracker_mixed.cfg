SPECIFICATION FairSpec
CONSTANTS
  Requests = {r1, r2}
  OptionRequests = {r2}
  Counters = {own}
  CounterStart = 1
  UserIds = {1, 2}
  MaxId = 3
  NoRequest = NoRequest
  Empty = Empty
  Dropped = Dropped
INVARIANT NoLostWakeup
PROPERTY RequestsEnd
