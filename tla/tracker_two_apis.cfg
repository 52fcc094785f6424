SPECIFICATION Spec
CONSTANTS
  Requests = {r1, r2, r3}
  OptionRequests = {r2, r3}
  Counters = {own}
  CounterStart = 1
  UserIds = {}
  MaxId = 3
  NoRequest = NoRequest
  Empty = Empty
  Dropped = Dropped
INVARIANT Correlated
