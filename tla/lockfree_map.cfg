SPECIFICATION Spec
CONSTANTS
  Threads = {t1, t2}
  k1 = k1
  k2 = k2
  Keys = {k1, k2}
  Values = {v1}
  ShardCount = 2
  shard_index <- OtherShard
  Addresses = {a1, a2, a3, a4, a5}
  MAX_RETRIES = 2
  NoValue = NoValue
  Failed = Failed
  Free = Free
  Null = Null
INVARIANTS TypeOK NoUseAfterFree ScanFaithful
PROPERTY Linearizable
SYMMETRY Interchangeable
CHECK_DEADLOCK FALSE
