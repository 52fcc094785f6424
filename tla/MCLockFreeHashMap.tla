------------------------- MODULE MCLockFreeHashMap -------------------------
EXTENDS LockFreeHashMap, TLC

CONSTANTS k1, k2

\* A key in a shard of its own.
OtherShard == [k \in Keys |-> IF k = k2 THEN 2 ELSE 1]

\* Threads are interchangeable, and so are addresses.
Interchangeable == Permutations(Threads) \cup Permutations(Addresses)
=============================================================================
