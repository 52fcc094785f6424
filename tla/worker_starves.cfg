SPECIFICATION FairSpec
CONSTANTS
  Handles = {h1, h2}
  original = h1
  Threads = 1
  MaxCalls = 2
PROPERTY CallsReturn
CHECK_DEADLOCK FALSE
