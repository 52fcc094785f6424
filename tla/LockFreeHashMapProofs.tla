------------------------ MODULE LockFreeHashMapProofs ------------------------
(***************************************************************************)
(* Proofs about LockFreeHashMap, for any number of threads, keys, shards   *)
(* and retries and a heap of any size: no freed map is followed, a scan    *)
(* reports values the keys had while it ran, and the map implements        *)
(* AtomicMap: its operations are linearizable.                             *)
(***************************************************************************)
EXTENDS LockFreeHashMap, TLAPS

-----------------------------------------------------------------------------
(* The inductive invariant                                                 *)

OpSteps == {"load", "loaded", "copied"}
ScanSteps == {"scan", "scanning", "scanned"}

(* Where a thread is says which operation it executes.                      *)
ThreadInv(t) ==
  /\ step[t] \in OpSteps => op[t] \in Operations
  /\ step[t] \notin OpSteps => op[t] = NoValue
  /\ step[t] = "copied" => op[t].kind = "write"
  /\ step[t] \in {"scan", "scanning"} => position[t] \in Shards
  /\ step[t] \notin ScanSteps => position[t] = 1

ThreadsInv == \A t \in Threads : ThreadInv(t)

(* Memory in use is not free: a map is linked, or it is kept by the guards  *)
(* of those who may still follow a pointer to it.                           *)
MemoryInv ==
  /\ \A i \in Shards : heap[pointer[i]] # Free /\ guards[pointer[i]] = {}
  /\ \A i, j \in Shards : pointer[i] = pointer[j] => i = j
  /\ \A a \in Addresses : guards[a] \subseteq Pinned /\ (heap[a] = Free => guards[a] = {})
  /\ \A t \in Pinned :
       /\ seen[t] \in Addresses /\ heap[seen[t]] # Free
       /\ t \in guards[seen[t]] \/ \E i \in Shards : pointer[i] = seen[t]

(* A changed copy belongs to the writer alone.                              *)
OwnCopy(t) ==
  /\ fresh[t] \in Addresses /\ heap[fresh[t]] # Free /\ guards[fresh[t]] = {}
  /\ \A i \in Shards : pointer[i] # fresh[t]
  /\ \A u \in Pinned : seen[u] # fresh[t]
  /\ \A u \in Threads : step[u] = "copied" /\ fresh[u] = fresh[t] => u = t

CopiesInv ==
  \A t \in Threads : step[t] = "copied" =>
    /\ OwnCopy(t)
    /\ heap[fresh[t]] = [heap[seen[t]] EXCEPT ![op[t].key] = op[t].value]

(* What a scan has collected, is about to collect and may still come across *)
(* are values of the time of the scan.                                      *)
ScanInv(t) ==
  \A k \in Keys :
    /\ step[t] \in {"scan", "scanning"} =>
         /\ Current[k] \in during[t][k]
         /\ shard_index[k] < position[t] => found[t][k] \in during[t][k]
    /\ step[t] = "scanning" /\ shard_index[k] = position[t]
         => heap[seen[t]][k] \in during[t][k]
    /\ step[t] = "scanned" => found[t][k] \in during[t][k]

ScansInv == \A t \in Threads : ScanInv(t)

IInv ==
  /\ TypeOK
  /\ ThreadsInv
  /\ MemoryInv
  /\ CopiesInv
  /\ ScansInv

-----------------------------------------------------------------------------
(* Type correctness                                                        *)

LEMMA OperationsFacts ==
  /\ NoValue \notin Operations
  /\ \A o \in Operations : o.key \in Keys /\ o.value \in Contents /\ o.kind \in {"get", "write"}
  /\ EmptyMap \in Maps /\ Null \notin Addresses
  BY LockFreeHashMapAssumption DEF Operations, EmptyMap, Maps, Contents

(* What dropping a guard does to the memory: an address is freed only if it *)
(* is dropped, or retired and kept by no other guard.                       *)
LEMMA UnpinEffect ==
  ASSUME TypeOK, NEW t \in Threads, NEW retired \in SUBSET Addresses,
         NEW dropped \in SUBSET Addresses, Unpin(t, retired, dropped)
  PROVE  /\ heap' \in [Addresses -> Maps \cup {Free}]
         /\ guards' \in [Addresses -> SUBSET Threads]
         /\ seen' \in [Threads -> Addresses \cup {Null}]
         /\ fresh' \in [Threads -> Addresses \cup {Null}]
         /\ \A u \in Threads : u # t => seen'[u] = seen[u] /\ fresh'[u] = fresh[u]
         /\ \A a \in Addresses : a \in retired => guards'[a] = Pinned \ {t}
         /\ \A a \in Addresses : a \notin retired => guards'[a] = guards[a] \ {t}
         /\ \A a \in Addresses :
              heap'[a] = IF \/ a \in dropped
                            \/ (a \in retired \/ guards[a] # {}) /\ guards'[a] = {}
                         THEN Free ELSE heap[a]
<1>1. /\ seen' = [seen EXCEPT ![t] = Null] /\ fresh' = [fresh EXCEPT ![t] = Null]
      /\ guards' = [a \in Addresses |-> (IF a \in retired THEN Pinned ELSE guards[a]) \ {t}]
      /\ heap' = [a \in Addresses |->
                    IF \/ a \in dropped
                       \/ (a \in retired \/ guards[a] # {}) /\ guards'[a] = {}
                    THEN Free ELSE heap[a]]
  BY DEF Unpin
<1>2. /\ seen \in [Threads -> Addresses \cup {Null}] /\ fresh \in [Threads -> Addresses \cup {Null}]
      /\ guards \in [Addresses -> SUBSET Threads] /\ heap \in [Addresses -> Maps \cup {Free}]
  BY DEF TypeOK
<1>3. Pinned \subseteq Threads
  BY DEF Pinned
<1>4. guards' \in [Addresses -> SUBSET Threads]
  <2>1. \A a \in Addresses : (IF a \in retired THEN Pinned ELSE guards[a]) \ {t} \in SUBSET Threads
    BY <1>2, <1>3
  <2> QED
    BY <1>1, <2>1
<1>5. heap' \in [Addresses -> Maps \cup {Free}]
  <2>1. \A a \in Addresses :
          (IF \/ a \in dropped
              \/ (a \in retired \/ guards[a] # {}) /\ guards'[a] = {}
           THEN Free ELSE heap[a]) \in Maps \cup {Free}
    BY <1>2
  <2> QED
    BY <1>1, <2>1
<1>6. /\ seen' \in [Threads -> Addresses \cup {Null}]
      /\ fresh' \in [Threads -> Addresses \cup {Null}]
      /\ \A u \in Threads : u # t => seen'[u] = seen[u] /\ fresh'[u] = fresh[u]
  BY <1>1, <1>2
<1> QED
  BY <1>1, <1>4, <1>5, <1>6

LEMMA FinishEffect ==
  ASSUME TypeOK, NEW t \in Threads, NEW answer \in Contents \cup {Failed}, Finish(t, answer)
  PROVE  /\ step' \in [Threads -> {"idle", "load", "loaded", "copied",
                                   "scan", "scanning", "scanned"}]
         /\ op' \in [Threads -> Operations \cup {NoValue}]
         /\ retries' \in [Threads -> 0..(MAX_RETRIES - 1)]
         /\ result' \in [Threads -> Contents \cup {Failed}]
<1>1. 0 \in 0..(MAX_RETRIES - 1)
  BY LockFreeHashMapAssumption
<1> QED
  BY <1>1 DEF Finish, TypeOK

LEMMA ObservedType ==
  ASSUME TypeOK, NEW o \in Operations
  PROVE  /\ Observed(o) \in [Threads -> [Keys -> SUBSET Contents]]
         /\ \A u \in Threads, k \in Keys :
              /\ during[u][k] \subseteq Observed(o)[u][k]
              /\ step[u] \in {"scan", "scanning"} => o.value \in Observed(o)[u][o.key]
<1>1. o.key \in Keys /\ o.value \in Contents
  BY OperationsFacts
<1>2. during \in [Threads -> [Keys -> SUBSET Contents]]
  BY DEF TypeOK
<1>3. ASSUME NEW u \in Threads
      PROVE  /\ Observed(o)[u] \in [Keys -> SUBSET Contents]
             /\ \A k \in Keys : during[u][k] \subseteq Observed(o)[u][k]
             /\ step[u] \in {"scan", "scanning"} => o.value \in Observed(o)[u][o.key]
  BY <1>1, <1>2 DEF Observed
<1> QED
  BY <1>3 DEF Observed

LEMMA TypeInit == Init => TypeOK
<1> SUFFICES ASSUME Init PROVE TypeOK
  OBVIOUS
<1>1. /\ NoValue \in Contents /\ ShardCount \in Nat \ {0} /\ MAX_RETRIES \in Nat \ {0}
      /\ EmptyMap \in Maps
  BY LockFreeHashMapAssumption, OperationsFacts DEF Contents
<1>2. heap \in [Addresses -> Maps \cup {Free}]
  BY <1>1 DEF Init
<1>3. found \in [Threads -> Maps] /\ during \in [Threads -> [Keys -> SUBSET Contents]]
  BY <1>1 DEF Init, Nothing
<1>4. /\ pointer \in [Shards -> Addresses] /\ guards \in [Addresses -> SUBSET Threads]
      /\ op \in [Threads -> Operations \cup {NoValue}]
      /\ seen \in [Threads -> Addresses \cup {Null}]
      /\ fresh \in [Threads -> Addresses \cup {Null}]
      /\ result \in [Threads -> Contents \cup {Failed}]
      /\ step \in [Threads -> {"idle", "load", "loaded", "copied", "scan", "scanning", "scanned"}]
  BY <1>1 DEF Init
<1>5. /\ retries \in [Threads -> 0..(MAX_RETRIES - 1)]
      /\ position \in [Threads -> 1..(ShardCount + 1)]
  BY <1>1 DEF Init
<1> QED
  BY <1>2, <1>3, <1>4, <1>5 DEF TypeOK

LEMMA InUse ==
  ASSUME TypeOK, ThreadsInv, MemoryInv, NEW t \in Threads
  PROVE  /\ step[t] \in OpSteps => op[t] \in Operations /\ op[t].key \in Keys
                                   /\ op[t].value \in Contents
                                   /\ shard_index[op[t].key] \in Shards
         /\ t \in Pinned => seen[t] \in Addresses /\ heap[seen[t]] \in Maps
         /\ \A i \in Shards : pointer[i] \in Addresses /\ heap[pointer[i]] \in Maps
         /\ Current \in Maps
<1>1. step[t] \in OpSteps => op[t] \in Operations /\ op[t].key \in Keys
                             /\ op[t].value \in Contents
                             /\ shard_index[op[t].key] \in Shards
  BY LockFreeHashMapAssumption, OperationsFacts DEF ThreadsInv, ThreadInv
<1>2. t \in Pinned => seen[t] \in Addresses /\ heap[seen[t]] \in Maps
  BY DEF TypeOK, MemoryInv
<1>3. \A i \in Shards : pointer[i] \in Addresses /\ heap[pointer[i]] \in Maps
  BY DEF TypeOK, MemoryInv
<1>4. Current \in Maps
  BY <1>3, LockFreeHashMapAssumption DEF Current, Maps
<1> QED
  BY <1>1, <1>2, <1>3, <1>4

LEMMA TypeStep ==
  ASSUME TypeOK, ThreadsInv, MemoryInv, CopiesInv, NEW t \in Threads, Call(t) \/ Work(t)
  PROVE  TypeOK'
<1> USE DEF memoryVars, scanVars
<1>a. /\ ShardCount \in Nat \ {0} /\ MAX_RETRIES \in Nat \ {0} /\ NoValue \in Contents
      /\ EmptyMap \in Maps
  BY LockFreeHashMapAssumption, OperationsFacts DEF Contents
<1>1. ASSUME NEW o \in Operations, Begin(t, o) PROVE TypeOK'
  BY <1>1 DEF Begin, TypeOK
<1>2. CASE snapshot(t)
  <2>1. during' \in [Threads -> [Keys -> SUBSET Contents]]
    <3>1. [k \in Keys |-> {Current[k]}] \in [Keys -> SUBSET Contents]
      BY InUse DEF Maps
    <3> QED
      BY <1>2, <3>1 DEF snapshot, TypeOK
  <2> QED
    BY <1>2, <2>1 DEF snapshot, TypeOK
<1>3. CASE Load(t)
  <2>1. pointer[shard_index[op[t].key]] \in Addresses
    BY <1>3, InUse DEF Load, OpSteps
  <2> QED
    BY <1>3, <2>1 DEF Load, TypeOK
<1>4. CASE Read(t)
  <2>1. heap[seen[t]][op[t].key] \in Contents
    BY <1>4, InUse DEF Read, OpSteps, Pinned, Maps
  <2>2. /\ heap' \in [Addresses -> Maps \cup {Free}] /\ guards' \in [Addresses -> SUBSET Threads]
        /\ seen' \in [Threads -> Addresses \cup {Null}]
        /\ fresh' \in [Threads -> Addresses \cup {Null}]
    BY <1>4, UnpinEffect DEF Read
  <2> QED
    BY <1>4, <2>1, <2>2, FinishEffect DEF Read, TypeOK
<1>5. CASE Copy(t)
  <2>1. PICK a \in Addresses :
          /\ heap' = [heap EXCEPT ![a] = [heap[seen[t]] EXCEPT ![op[t].key] = op[t].value]]
          /\ fresh' = [fresh EXCEPT ![t] = a]
    BY <1>5 DEF Copy
  <2>2. [heap[seen[t]] EXCEPT ![op[t].key] = op[t].value] \in Maps
    BY <1>5, InUse DEF Copy, OpSteps, Pinned, Maps
  <2>3. heap' \in [Addresses -> Maps \cup {Free}] /\ fresh' \in [Threads -> Addresses \cup {Null}]
    BY <2>1, <2>2 DEF TypeOK
  <2> QED
    BY <1>5, <2>3 DEF Copy, TypeOK
<1>6. CASE Exchange(t)
  <2>1. /\ op[t] \in Operations /\ shard_index[op[t].key] \in Shards
        /\ heap[seen[t]][op[t].key] \in Contents /\ seen[t] \in Addresses
    BY <1>6, InUse DEF Exchange, OpSteps, Pinned, Maps
  <2>a. PICK retired \in SUBSET Addresses, dropped \in SUBSET Addresses :
          Unpin(t, retired, dropped)
    BY <1>6, <2>1 DEF Exchange
  <2>2. /\ heap' \in [Addresses -> Maps \cup {Free}] /\ guards' \in [Addresses -> SUBSET Threads]
        /\ seen' \in [Threads -> Addresses \cup {Null}]
        /\ fresh' \in [Threads -> Addresses \cup {Null}]
    BY <2>a, UnpinEffect
  <2>b. Finish(t, heap[seen[t]][op[t].key]) /\ UNCHANGED <<position, found>>
    BY <1>6 DEF Exchange
  <2>3. during' \in [Threads -> [Keys -> SUBSET Contents]]
    BY <1>6, <2>1, ObservedType DEF Exchange
  <2>4. pointer' \in [Shards -> Addresses]
    BY <1>6, <2>1 DEF Exchange, CopiesInv, OwnCopy, TypeOK
  <2> QED
    BY <2>b, <2>1, <2>2, <2>3, <2>4, FinishEffect DEF TypeOK
<1>7. CASE ExchangeFails(t)
  <2>1. fresh[t] \in Addresses
    BY <1>7 DEF ExchangeFails, CopiesInv, OwnCopy
  <2>2. /\ heap' \in [Addresses -> Maps \cup {Free}] /\ guards' \in [Addresses -> SUBSET Threads]
        /\ seen' \in [Threads -> Addresses \cup {Null}]
        /\ fresh' \in [Threads -> Addresses \cup {Null}]
    BY <1>7, <2>1, UnpinEffect DEF ExchangeFails
  <2>3. CASE retries[t] + 1 >= MAX_RETRIES
    BY <1>7, <2>2, <2>3, FinishEffect DEF ExchangeFails, TypeOK
  <2>4. CASE ~(retries[t] + 1 >= MAX_RETRIES)
    <3>1. retries[t] + 1 \in 0..(MAX_RETRIES - 1)
      BY <1>a, <2>4 DEF TypeOK
    <3> QED
      BY <1>7, <2>2, <2>4, <3>1 DEF ExchangeFails, TypeOK
  <2> QED
    BY <2>3, <2>4
<1>8. CASE ScanLoad(t)
  <2>1. pointer[position[t]] \in Addresses
    BY <1>8, InUse DEF ScanLoad, ThreadsInv, ThreadInv
  <2> QED
    BY <1>8, <2>1 DEF ScanLoad, TypeOK
<1>9. CASE ScanRead(t)
  <2>1. Collected(t) \in Maps
    BY <1>9, InUse DEF ScanRead, Collected, Pinned, Maps, TypeOK
  <2>2. /\ heap' \in [Addresses -> Maps \cup {Free}] /\ guards' \in [Addresses -> SUBSET Threads]
        /\ seen' \in [Threads -> Addresses \cup {Null}]
        /\ fresh' \in [Threads -> Addresses \cup {Null}]
    BY <1>9, UnpinEffect DEF ScanRead
  <2>3. position' \in [Threads -> 1..(ShardCount + 1)]
    <3>1. position[t] \in 1..ShardCount
      BY <1>9 DEF ScanRead, ThreadsInv, ThreadInv, Shards
    <3> QED
      BY <1>9, <1>a, <3>1 DEF ScanRead, TypeOK
  <2>4. found' \in [Threads -> Maps]
    BY <1>9, <2>1 DEF ScanRead, TypeOK
  <2> QED
    BY <1>9, <2>2, <2>3, <2>4 DEF ScanRead, TypeOK
<1>10. CASE ScanReturn(t)
  <2>1. during' \in [Threads -> [Keys -> SUBSET Contents]]
    BY <1>10 DEF ScanReturn, TypeOK, Nothing
  <2> QED
    BY <1>10, <1>a, <2>1 DEF ScanReturn, TypeOK
<1>11. ASSUME NEW k \in Keys, get(t, k) \/ remove(t, k) \/ \E v \in Values : insert(t, k, v)
       PROVE  TypeOK'
  BY <1>1, <1>11 DEF get, remove, insert, Operations, Contents
<1> QED
  BY <1>2, <1>3, <1>4, <1>5, <1>6, <1>7, <1>8, <1>9, <1>10, <1>11 DEF Call, Work

-----------------------------------------------------------------------------
(* The memory                                                              *)

OthersStay(t) ==
  \A u \in Threads : u # t =>
    /\ step'[u] = step[u] /\ op'[u] = op[u] /\ seen'[u] = seen[u] /\ fresh'[u] = fresh[u]
    /\ position'[u] = position[u] /\ found'[u] = found[u] /\ result'[u] = result[u]

PinnedSteps == {"loaded", "copied", "scanning"}

(* What every step but a successful exchange leaves to the others: the maps *)
(* the shards point to and those the others may follow.                     *)
MapsStay(t) ==
  /\ \A i \in Shards : pointer'[i] = pointer[i] /\ heap'[pointer[i]] = heap[pointer[i]]
  /\ \A u \in Pinned : u # t => heap'[seen[u]] = heap[seen[u]]

(* A step that begins or ends an operation, or loads a shard's pointer.     *)
LEMMA LoadMemory ==
  ASSUME IInv, NEW t \in Threads, OthersStay(t), UNCHANGED <<heap, guards, pointer>>,
         step[t] \notin PinnedSteps, step'[t] # "copied",
         step'[t] \in PinnedSteps => \E i \in Shards : seen'[t] = pointer[i]
  PROVE  MemoryInv' /\ CopiesInv' /\ MapsStay(t)
<1>1. pointer \in [Shards -> Addresses] /\ TypeOK /\ MemoryInv /\ CopiesInv
  BY DEF IInv, TypeOK
<1>2. /\ \A u \in Threads : u # t => (u \in Pinned' <=> u \in Pinned)
      /\ t \notin Pinned /\ Pinned' \subseteq Threads /\ Pinned \subseteq Pinned'
      /\ t \in Pinned' => step'[t] \in PinnedSteps
  BY DEF OthersStay, Pinned, PinnedSteps
<1>3. MemoryInv'
  <2>1. ASSUME NEW u \in Pinned'
        PROVE  /\ seen'[u] \in Addresses /\ heap'[seen'[u]] # Free
               /\ u \in guards'[seen'[u]] \/ \E i \in Shards : pointer'[i] = seen'[u]
    <3>1. CASE u = t
      BY <1>1, <1>2, <3>1 DEF MemoryInv
    <3>2. CASE u # t
      BY <1>1, <1>2, <3>2 DEF MemoryInv, OthersStay
    <3> QED
      BY <3>1, <3>2
  <2>2. \A a \in Addresses : guards'[a] \subseteq Pinned' /\ (heap'[a] = Free => guards'[a] = {})
    BY <1>1, <1>2 DEF MemoryInv
  <2> QED
    BY <1>1, <2>1, <2>2 DEF MemoryInv
<1>4. CopiesInv'
  <2> SUFFICES ASSUME NEW u \in Threads, step'[u] = "copied"
               PROVE  OwnCopy(u)' /\ heap'[fresh'[u]] =
                        [heap'[seen'[u]] EXCEPT ![op'[u].key] = op'[u].value]
    BY DEF CopiesInv
  <2>1. /\ u # t /\ step[u] = "copied" /\ OwnCopy(u)
        /\ heap[fresh[u]] = [heap[seen[u]] EXCEPT ![op[u].key] = op[u].value]
    BY <1>1 DEF CopiesInv, OthersStay
  <2>2. \A v \in Pinned' : seen'[v] # fresh[u]
    <3>1. CASE t \in Pinned'
      BY <1>2, <2>1, <3>1 DEF OwnCopy, OthersStay
    <3>2. CASE t \notin Pinned'
      BY <1>2, <2>1, <3>2 DEF OwnCopy, OthersStay
    <3> QED
      BY <3>1, <3>2
  <2>3. OwnCopy(u)'
    BY <2>1, <2>2 DEF OwnCopy, OthersStay
  <2> QED
    BY <2>1, <2>3 DEF OthersStay
<1> QED
  BY <1>3, <1>4 DEF MapsStay

(* A reader that is done, or a writer that failed and drops its copy.       *)
LEMMA UnpinMemory ==
  ASSUME IInv, NEW t \in Pinned, OthersStay(t), NEW dropped \in SUBSET Addresses,
         dropped = {} \/ (step[t] = "copied" /\ dropped = {fresh[t]}),
         Unpin(t, {}, dropped), UNCHANGED pointer, step'[t] \notin PinnedSteps
  PROVE  MemoryInv' /\ CopiesInv' /\ MapsStay(t)
<1>1. /\ pointer \in [Shards -> Addresses] /\ TypeOK /\ MemoryInv /\ CopiesInv
      /\ t \in Threads
  BY DEF IInv, TypeOK, Pinned
<1>2. Pinned' = Pinned \ {t}
  BY DEF OthersStay, Pinned, PinnedSteps
<1>3. /\ \A a \in Addresses : guards'[a] = guards[a] \ {t}
      /\ \A a \in Addresses :
           heap'[a] = IF a \in dropped \/ (guards[a] # {} /\ guards'[a] = {}) THEN Free ELSE heap[a]
  <2>1. guards' = [a \in Addresses |-> (IF a \in {} THEN Pinned ELSE guards[a]) \ {t}]
    BY DEF Unpin
  <2>2. heap' = [a \in Addresses |->
                   IF \/ a \in dropped
                      \/ (a \in {} \/ guards[a] # {}) /\ guards'[a] = {}
                   THEN Free ELSE heap[a]]
    BY DEF Unpin
  <2>3. \A a \in Addresses : guards'[a] = guards[a] \ {t}
    BY <2>1
  <2> QED
    BY <2>2, <2>3
<1>4. /\ \A i \in Shards : pointer[i] \notin dropped
      /\ \A u \in Pinned : seen[u] \notin dropped
      /\ \A u \in Threads : u # t /\ step[u] = "copied" => fresh[u] \notin dropped
      /\ \A a \in dropped : guards[a] = {}
  BY <1>1 DEF CopiesInv, OwnCopy
<1>5. \A i \in Shards : heap'[pointer[i]] = heap[pointer[i]] /\ guards'[pointer[i]] = {}
  BY <1>1, <1>3, <1>4 DEF MemoryInv
<1>6. ASSUME NEW u \in Pinned, u # t
      PROVE  /\ seen[u] \in Addresses /\ heap'[seen[u]] = heap[seen[u]] /\ heap[seen[u]] # Free
             /\ u \in guards'[seen[u]] \/ \E i \in Shards : pointer[i] = seen[u]
  <2>1. /\ seen[u] \in Addresses /\ heap[seen[u]] # Free
        /\ u \in guards[seen[u]] \/ \E i \in Shards : pointer[i] = seen[u]
    BY <1>1 DEF MemoryInv
  <2>2. CASE u \in guards[seen[u]]
    <3>1. u \in guards'[seen[u]] /\ seen[u] \notin dropped
      BY <1>3, <1>4, <1>6, <2>1, <2>2
    <3> QED
      BY <1>3, <2>1, <3>1
  <2>3. CASE \E i \in Shards : pointer[i] = seen[u]
    BY <1>5, <2>1, <2>3
  <2> QED
    BY <2>1, <2>2, <2>3
<1>7. MemoryInv'
  <2>1. \A a \in Addresses : guards'[a] \subseteq Pinned' /\ (heap'[a] = Free => guards'[a] = {})
    <3> TAKE a \in Addresses
    <3>1. guards[a] \subseteq Pinned /\ (heap[a] = Free => guards[a] = {})
      BY <1>1 DEF MemoryInv
    <3>2. heap'[a] = Free => guards'[a] = {}
      BY <1>3, <1>4, <3>1
    <3> QED
      BY <1>2, <1>3, <3>1, <3>2
  <2>2. \A u \in Pinned' :
          /\ seen'[u] \in Addresses /\ heap'[seen'[u]] # Free
          /\ u \in guards'[seen'[u]] \/ \E i \in Shards : pointer'[i] = seen'[u]
    <3> TAKE u \in Pinned'
    <3>1. u \in Pinned /\ u # t /\ seen'[u] = seen[u]
      BY <1>2 DEF OthersStay, Pinned
    <3> QED
      BY <1>6, <3>1
  <2>3. \A i \in Shards : heap'[pointer'[i]] # Free /\ guards'[pointer'[i]] = {}
    BY <1>1, <1>5 DEF MemoryInv
  <2> QED
    BY <1>1, <2>1, <2>2, <2>3 DEF MemoryInv
<1>8. CopiesInv'
  <2> SUFFICES ASSUME NEW u \in Threads, step'[u] = "copied"
               PROVE  OwnCopy(u)' /\ heap'[fresh'[u]] =
                        [heap'[seen'[u]] EXCEPT ![op'[u].key] = op'[u].value]
    BY DEF CopiesInv
  <2>1. /\ u # t /\ step[u] = "copied" /\ OwnCopy(u) /\ u \in Pinned
        /\ heap[fresh[u]] = [heap[seen[u]] EXCEPT ![op[u].key] = op[u].value]
    BY <1>1 DEF CopiesInv, OthersStay, PinnedSteps, Pinned
  <2>2. /\ fresh[u] \in Addresses /\ guards'[fresh[u]] = {}
        /\ heap'[fresh[u]] = heap[fresh[u]] /\ heap[fresh[u]] # Free
    BY <1>3, <1>4, <2>1 DEF OwnCopy
  <2>3. OwnCopy(u)'
    <3>1. \A v \in Pinned' : seen'[v] # fresh[u]
      BY <1>2, <2>1 DEF OwnCopy, OthersStay, Pinned
    <3>2. \A v \in Threads : step'[v] = "copied" /\ fresh'[v] = fresh[u] => v = u
      BY <2>1 DEF OwnCopy, OthersStay, PinnedSteps
    <3> QED
      BY <2>1, <2>2, <3>1, <3>2 DEF OwnCopy, OthersStay
  <2> QED
    BY <1>6, <2>1, <2>2, <2>3 DEF OthersStay
<1> QED
  BY <1>5, <1>6, <1>7, <1>8 DEF MapsStay

LEMMA CopyMemory ==
  ASSUME IInv, NEW t \in Threads, Copy(t)
  PROVE  MemoryInv' /\ CopiesInv' /\ MapsStay(t)
<1> USE DEF memoryVars, scanVars
<1>1. /\ TypeOK /\ ThreadsInv /\ MemoryInv /\ CopiesInv
      /\ heap \in [Addresses -> Maps \cup {Free}] /\ fresh \in [Threads -> Addresses \cup {Null}]
      /\ pointer \in [Shards -> Addresses]
  BY DEF IInv, TypeOK
<1>2. /\ step[t] = "loaded" /\ step'[t] = "copied" /\ UNCHANGED <<guards, pointer, op, seen>>
      /\ \A u \in Threads : u # t => step'[u] = step[u]
      /\ t \in Pinned
  BY DEF Copy, IInv, TypeOK, Pinned
<1>3. Pinned' = Pinned
  BY <1>2 DEF Pinned
<1>4. PICK a \in Addresses :
        /\ heap[a] = Free
        /\ heap' = [heap EXCEPT ![a] = [heap[seen[t]] EXCEPT ![op[t].key] = op[t].value]]
        /\ fresh' = [fresh EXCEPT ![t] = a]
  BY DEF Copy
<1>5. [heap[seen[t]] EXCEPT ![op[t].key] = op[t].value] \in Maps
  BY <1>1, <1>2, InUse DEF OpSteps, Maps
<1>6. /\ heap'[a] = [heap[seen[t]] EXCEPT ![op[t].key] = op[t].value] /\ heap'[a] # Free
      /\ \A b \in Addresses : b # a => heap'[b] = heap[b]
      /\ fresh'[t] = a /\ \A u \in Threads : u # t => fresh'[u] = fresh[u]
  <2>1. Free \notin Maps
    BY LockFreeHashMapAssumption
  <2> QED
    BY <1>1, <1>4, <1>5, <2>1
<1>7. /\ guards[a] = {} /\ \A i \in Shards : pointer[i] # a
      /\ \A u \in Pinned : seen[u] # a
      /\ \A u \in Threads : step[u] = "copied" => fresh[u] # a
  BY <1>1, <1>4 DEF MemoryInv, CopiesInv, OwnCopy
<1>8. MapsStay(t)
  BY <1>1, <1>2, <1>6, <1>7 DEF MapsStay, MemoryInv
<1>9. MemoryInv'
  <2>1. \A u \in Pinned : /\ seen[u] \in Addresses /\ heap'[seen[u]] # Free
                          /\ u \in guards[seen[u]] \/ \E i \in Shards : pointer[i] = seen[u]
    BY <1>1, <1>6, <1>7 DEF MemoryInv
  <2>2. \A b \in Addresses : guards[b] \subseteq Pinned /\ (heap'[b] = Free => guards[b] = {})
    BY <1>1, <1>6, <1>7 DEF MemoryInv
  <2>3. \A i \in Shards : heap'[pointer[i]] # Free /\ guards[pointer[i]] = {}
    BY <1>1, <1>6, <1>7 DEF MemoryInv
  <2> QED
    BY <1>1, <1>2, <1>3, <2>1, <2>2, <2>3 DEF MemoryInv
<1>10. CopiesInv'
  <2> SUFFICES ASSUME NEW u \in Threads, step'[u] = "copied"
               PROVE  OwnCopy(u)' /\ heap'[fresh'[u]] =
                        [heap'[seen'[u]] EXCEPT ![op'[u].key] = op'[u].value]
    BY DEF CopiesInv
  <2>1. CASE u = t
    <3>1. /\ \A v \in Threads : step'[v] = "copied" /\ fresh'[v] = a => v = t
          /\ heap'[seen[t]] = heap[seen[t]]
      BY <1>1, <1>2, <1>6, <1>7 DEF MemoryInv
    <3> QED
      BY <1>2, <1>3, <1>6, <1>7, <2>1, <3>1 DEF OwnCopy
  <2>2. CASE u # t
    <3>1. /\ step[u] = "copied" /\ OwnCopy(u) /\ u \in Pinned /\ fresh'[u] = fresh[u]
          /\ heap[fresh[u]] = [heap[seen[u]] EXCEPT ![op[u].key] = op[u].value]
      BY <1>1, <1>2, <1>6, <2>2 DEF CopiesInv, Pinned
    <3>2. /\ heap'[fresh[u]] = heap[fresh[u]] /\ heap'[seen[u]] = heap[seen[u]]
      BY <1>1, <1>6, <1>7, <3>1 DEF MemoryInv, OwnCopy
    <3>3. \A v \in Threads : step'[v] = "copied" /\ fresh'[v] = fresh[u] => v = u
      BY <1>2, <1>6, <1>7, <3>1 DEF OwnCopy
    <3>4. OwnCopy(u)'
      BY <1>2, <1>3, <3>1, <3>2, <3>3 DEF OwnCopy
    <3> QED
      BY <1>2, <3>1, <3>2, <3>4
  <2> QED
    BY <2>1, <2>2
<1> QED
  BY <1>8, <1>9, <1>10

(* A successful exchange: the copy is linked, the old map retired.          *)
LEMMA ExchangeMemory ==
  ASSUME IInv, NEW t \in Threads, OthersStay(t), Exchange(t)
  PROVE  /\ MemoryInv' /\ CopiesInv'
         /\ \A u \in Pinned : u # t => heap'[seen[u]] = heap[seen[u]]
         /\ \A k \in Keys :
              Current'[k] = IF k = op[t].key THEN op[t].value ELSE Current[k]
         /\ Current[op[t].key] = heap[seen[t]][op[t].key]
<1> DEFINE i == shard_index[op[t].key]
<1>1. /\ TypeOK /\ ThreadsInv /\ MemoryInv /\ CopiesInv
      /\ pointer \in [Shards -> Addresses] /\ shard_index \in [Keys -> Shards]
  BY LockFreeHashMapAssumption DEF IInv, TypeOK
<1>2. /\ step[t] = "copied" /\ pointer[i] = seen[t] /\ t \in Pinned
      /\ pointer' = [pointer EXCEPT ![i] = fresh[t]] /\ Unpin(t, {seen[t]}, {})
      /\ step'[t] = "idle"
  BY <1>1 DEF Exchange, Finish, Pinned, TypeOK
<1>3. /\ op[t].key \in Keys /\ i \in Shards /\ op[t].value \in Contents
      /\ seen[t] \in Addresses /\ heap[seen[t]] \in Maps
  BY <1>1, <1>2, InUse DEF OpSteps
<1>4. /\ OwnCopy(t) /\ fresh[t] \in Addresses /\ fresh[t] # seen[t]
      /\ heap[fresh[t]] = [heap[seen[t]] EXCEPT ![op[t].key] = op[t].value]
  BY <1>1, <1>2 DEF CopiesInv, OwnCopy
<1>5. Pinned' = Pinned \ {t}
  BY <1>2 DEF OthersStay, Pinned
<1>6. /\ guards'[seen[t]] = Pinned \ {t}
      /\ \A a \in Addresses : a # seen[t] => guards'[a] = guards[a] \ {t}
      /\ \A a \in Addresses :
           heap'[a] = IF (a = seen[t] \/ guards[a] # {}) /\ guards'[a] = {} THEN Free ELSE heap[a]
  BY <1>2, <1>3 DEF Unpin
<1>7. /\ pointer'[i] = fresh[t] /\ \A j \in Shards : j # i => pointer'[j] = pointer[j]
      /\ \A j \in Shards : j # i => pointer[j] # seen[t]
  BY <1>1, <1>2, <1>3 DEF MemoryInv
<1>8. ASSUME NEW j \in Shards
      PROVE  /\ heap'[pointer'[j]] = heap[pointer'[j]] /\ heap[pointer'[j]] # Free
             /\ guards'[pointer'[j]] = {} /\ pointer'[j] \in Addresses
  <2>1. pointer'[j] \in Addresses /\ guards[pointer'[j]] = {} /\ heap[pointer'[j]] # Free
        /\ pointer'[j] # seen[t]
    BY <1>1, <1>4, <1>7 DEF OwnCopy, MemoryInv
  <2> QED
    BY <1>6, <2>1
<1>9. ASSUME NEW u \in Pinned, u # t
      PROVE  /\ seen[u] \in Addresses /\ heap'[seen[u]] = heap[seen[u]] /\ heap[seen[u]] # Free
             /\ u \in guards'[seen[u]] \/ \E j \in Shards : pointer'[j] = seen[u]
  <2>1. /\ seen[u] \in Addresses /\ heap[seen[u]] # Free
        /\ u \in guards[seen[u]] \/ \E j \in Shards : pointer[j] = seen[u]
    BY <1>1 DEF MemoryInv
  <2>2. CASE u \in guards[seen[u]] \/ seen[u] = seen[t]
    <3>1. u \in guards'[seen[u]]
      BY <1>6, <1>9, <2>1, <2>2
    <3> QED
      BY <1>6, <2>1, <3>1
  <2>3. CASE seen[u] # seen[t] /\ \E j \in Shards : pointer[j] = seen[u]
    <3>1. PICK j \in Shards : pointer[j] = seen[u]
      BY <2>3
    <3>2. pointer'[j] = seen[u]
      BY <1>2, <1>7, <2>3, <3>1
    <3> QED
      BY <1>8, <2>1, <3>2
  <2> QED
    BY <2>1, <2>2, <2>3
<1>10. MemoryInv'
  <2>1. \A a \in Addresses : guards'[a] \subseteq Pinned' /\ (heap'[a] = Free => guards'[a] = {})
    <3> TAKE a \in Addresses
    <3>1. guards[a] \subseteq Pinned /\ (heap[a] = Free => guards[a] = {})
      BY <1>1 DEF MemoryInv
    <3>2. guards'[a] \subseteq Pinned \ {t}
      BY <1>6, <3>1
    <3>3. heap'[a] = Free => guards'[a] = {}
      BY <1>1, <1>2, <1>3, <1>6, <3>1 DEF MemoryInv
    <3> QED
      BY <1>5, <3>2, <3>3
  <2>2. \A u \in Pinned' :
          /\ seen'[u] \in Addresses /\ heap'[seen'[u]] # Free
          /\ u \in guards'[seen'[u]] \/ \E j \in Shards : pointer'[j] = seen'[u]
    <3> TAKE u \in Pinned'
    <3>1. u \in Pinned /\ u # t /\ seen'[u] = seen[u]
      BY <1>5 DEF OthersStay, Pinned
    <3> QED
      BY <1>9, <3>1
  <2>3. \A j, k \in Shards : pointer'[j] = pointer'[k] => j = k
    BY <1>1, <1>4, <1>7 DEF MemoryInv, OwnCopy
  <2>4. \A j \in Shards : heap'[pointer'[j]] # Free /\ guards'[pointer'[j]] = {}
    BY <1>8
  <2> QED
    BY <2>1, <2>2, <2>3, <2>4 DEF MemoryInv
<1>11. CopiesInv'
  <2> SUFFICES ASSUME NEW u \in Threads, step'[u] = "copied"
               PROVE  OwnCopy(u)' /\ heap'[fresh'[u]] =
                        [heap'[seen'[u]] EXCEPT ![op'[u].key] = op'[u].value]
    BY DEF CopiesInv
  <2>1. /\ u # t /\ step[u] = "copied" /\ OwnCopy(u) /\ u \in Pinned
        /\ heap[fresh[u]] = [heap[seen[u]] EXCEPT ![op[u].key] = op[u].value]
        /\ fresh'[u] = fresh[u] /\ seen'[u] = seen[u] /\ op'[u] = op[u]
    BY <1>1, <1>2 DEF CopiesInv, OthersStay, Pinned
  <2>2. /\ fresh[u] \in Addresses /\ fresh[u] # seen[t] /\ fresh[u] # fresh[t]
        /\ guards[fresh[u]] = {} /\ heap[fresh[u]] # Free
    BY <1>2, <2>1 DEF OwnCopy
  <2>3. guards'[fresh[u]] = {} /\ heap'[fresh[u]] = heap[fresh[u]]
    BY <1>6, <2>2
  <2>4. \A j \in Shards : pointer'[j] # fresh[u]
    BY <1>7, <2>1, <2>2 DEF OwnCopy
  <2>5. \A v \in Pinned' : seen'[v] # fresh[u]
    BY <1>5, <2>1 DEF OwnCopy, OthersStay, Pinned
  <2>6. \A v \in Threads : step'[v] = "copied" /\ fresh'[v] = fresh[u] => v = u
    BY <1>2, <2>1 DEF OwnCopy, OthersStay
  <2>7. OwnCopy(u)'
    BY <2>1, <2>2, <2>3, <2>4, <2>5, <2>6 DEF OwnCopy
  <2> QED
    BY <1>9, <2>1, <2>3, <2>7
<1>12. ASSUME NEW k \in Keys
       PROVE  Current'[k] = IF k = op[t].key THEN op[t].value ELSE Current[k]
  <2>1. /\ Current'[k] = heap'[pointer'[shard_index[k]]][k]
        /\ Current[k] = heap[pointer[shard_index[k]]][k] /\ shard_index[k] \in Shards
    BY <1>1 DEF Current
  <2>2. CASE shard_index[k] = i
    <3>1. Current'[k] = heap[fresh[t]][k]
      BY <1>7, <1>8, <2>1, <2>2
    <3> QED
      BY <1>2, <1>3, <1>4, <2>1, <2>2, <3>1 DEF Maps
  <2>3. CASE shard_index[k] # i
    BY <1>7, <1>8, <2>1, <2>3
  <2> QED
    BY <2>2, <2>3
<1>13. Current[op[t].key] = heap[seen[t]][op[t].key]
  BY <1>2, <1>3 DEF Current
<1> QED
  BY <1>9, <1>10, <1>11, <1>12, <1>13

-----------------------------------------------------------------------------
(* The invariant is inductive                                              *)

LEMMA CurrentStays ==
  ASSUME IInv, NEW t \in Threads, MapsStay(t)
  PROVE  \A k \in Keys : Current'[k] = Current[k]
<1>1. shard_index \in [Keys -> Shards]
  BY LockFreeHashMapAssumption
<1> QED
  BY <1>1 DEF Current, MapsStay

LEMMA ThreadsStay ==
  ASSUME IInv, NEW t \in Threads, OthersStay(t), ThreadInv(t)' PROVE ThreadsInv'
  BY DEF IInv, ThreadsInv, ThreadInv, OthersStay

(* Steps that change no entry of the map leave the other scans alone.       *)
LEMMA ScansStay ==
  ASSUME IInv, NEW t \in Threads, OthersStay(t), MapsStay(t),
         \A u \in Threads : u # t => during'[u] = during[u], ScanInv(t)'
  PROVE  ScansInv'
<1> SUFFICES ASSUME NEW u \in Threads, u # t PROVE ScanInv(u)'
  BY DEF ScansInv
<1>1. /\ step'[u] = step[u] /\ position'[u] = position[u] /\ found'[u] = found[u]
      /\ during'[u] = during[u] /\ seen'[u] = seen[u] /\ ScanInv(u)
  BY DEF IInv, ScansInv, OthersStay
<1>2. step[u] = "scanning" => heap'[seen[u]] = heap[seen[u]]
  BY DEF MapsStay, Pinned
<1> QED
  BY <1>1, <1>2, CurrentStays DEF ScanInv

LEMMA IInvInit == Init => IInv
<1> SUFFICES ASSUME Init PROVE IInv
  OBVIOUS
<1>1. TypeOK
  BY TypeInit
<1>2. ThreadsInv /\ CopiesInv /\ ScansInv
  BY DEF Init, ThreadsInv, ThreadInv, CopiesInv, ScansInv, ScanInv, OpSteps, ScanSteps
<1>3. Pinned = {}
  BY DEF Init, Pinned
<1>4. \A i \in Shards : heap[pointer[i]] # Free /\ guards[pointer[i]] = {}
  <2>1. EmptyMap # Free
    BY LockFreeHashMapAssumption, OperationsFacts
  <2> QED
    BY <2>1 DEF Init
<1>5. MemoryInv
  BY <1>3, <1>4 DEF Init, MemoryInv
<1> QED
  BY <1>1, <1>2, <1>5 DEF IInv

(* What each step does to its thread.                                       *)
LEMMA CallStep ==
  ASSUME IInv, NEW t \in Threads, Call(t)
  PROVE  IInv' /\ OthersStay(t) /\ MapsStay(t)
<1> USE DEF memoryVars, scanVars
<1>a. TypeOK' /\ TypeOK
  BY TypeStep DEF IInv
<1>1. ASSUME NEW o \in Operations, Begin(t, o) PROVE IInv' /\ OthersStay(t) /\ MapsStay(t)
  <2>1. /\ step[t] = "idle" /\ step'[t] = "load" /\ op'[t] = o /\ OthersStay(t)
        /\ UNCHANGED <<heap, guards, pointer, position, during>>
    BY <1>1, <1>a DEF Begin, TypeOK, OthersStay
  <2>2. MemoryInv' /\ CopiesInv' /\ MapsStay(t)
    BY <2>1, LoadMemory DEF PinnedSteps
  <2>3. ThreadsInv'
    BY <2>1, ThreadsStay DEF IInv, ThreadsInv, ThreadInv, OpSteps, ScanSteps
  <2>4. ScanInv(t)'
    BY <2>1 DEF ScanInv
  <2> QED
    BY <1>a, <2>1, <2>2, <2>3, <2>4, ScansStay DEF IInv
<1>2. CASE snapshot(t)
  <2>1. /\ step[t] = "idle" /\ step'[t] = "scan" /\ OthersStay(t)
        /\ UNCHANGED <<heap, guards, pointer, position, op, found>>
        /\ during'[t] = [k \in Keys |-> {Current[k]}]
        /\ \A u \in Threads : u # t => during'[u] = during[u]
    BY <1>2, <1>a DEF snapshot, TypeOK, OthersStay
  <2>2. MemoryInv' /\ CopiesInv' /\ MapsStay(t)
    BY <2>1, LoadMemory DEF PinnedSteps
  <2>3. position[t] = 1 /\ 1 \in Shards
    BY <2>1, LockFreeHashMapAssumption DEF IInv, ThreadsInv, ThreadInv, ScanSteps, Shards
  <2>4. ThreadsInv'
    BY <2>1, <2>3, ThreadsStay DEF IInv, ThreadsInv, ThreadInv, OpSteps, ScanSteps
  <2>5. ScanInv(t)'
    <3>1. \A k \in Keys : ~(shard_index[k] < 1)
      BY LockFreeHashMapAssumption DEF Shards
    <3> QED
      BY <2>1, <2>2, <2>3, <3>1, CurrentStays DEF ScanInv
  <2> QED
    BY <1>a, <2>1, <2>2, <2>4, <2>5, ScansStay DEF IInv
<1> QED
  BY <1>1, <1>2 DEF Call, get, remove, insert, Operations, Contents

LEMMA OperationStep ==
  ASSUME IInv, NEW t \in Threads, Load(t) \/ Read(t) \/ Copy(t) \/ ExchangeFails(t)
  PROVE  IInv' /\ OthersStay(t) /\ MapsStay(t)
<1> USE DEF memoryVars, scanVars
<1>a. TypeOK' /\ TypeOK /\ step[t] \in OpSteps /\ op[t] \in Operations /\ position[t] = 1
  BY TypeStep DEF IInv, Work, ThreadsInv, ThreadInv, Load, Read, Copy, ExchangeFails,
                  OpSteps, ScanSteps
<1>b. UNCHANGED <<position, found, during>>
  BY DEF Load, Read, Copy, ExchangeFails
<1>c. ASSUME OthersStay(t), MemoryInv', CopiesInv', MapsStay(t),
             step'[t] \in OpSteps \cup {"idle"},
             step'[t] = "idle" => op'[t] = NoValue,
             step'[t] # "idle" => op'[t] = op[t],
             step'[t] = "copied" => op[t].kind = "write"
      PROVE  IInv' /\ OthersStay(t) /\ MapsStay(t)
  <2>1. ThreadsInv'
    BY <1>a, <1>b, <1>c, ThreadsStay DEF ThreadInv, OpSteps, ScanSteps
  <2>2. ScanInv(t)'
    BY <1>c DEF ScanInv, OpSteps
  <2> QED
    BY <1>a, <1>b, <1>c, <2>1, <2>2, ScansStay DEF IInv
<1>d. ASSUME Finish(t, NoValue) \/ \E answer : Finish(t, answer)
      PROVE  step'[t] = "idle" /\ op'[t] = NoValue
  BY <1>a, <1>d DEF Finish, TypeOK
<1>1. CASE Load(t)
  <2>1. /\ step[t] = "load" /\ step'[t] = "loaded" /\ OthersStay(t)
        /\ UNCHANGED <<heap, guards, pointer, op>>
        /\ seen'[t] = pointer[shard_index[op[t].key]]
    BY <1>1, <1>a DEF Load, TypeOK, OthersStay
  <2>2. shard_index[op[t].key] \in Shards
    BY <1>a, LockFreeHashMapAssumption, OperationsFacts
  <2>3. MemoryInv' /\ CopiesInv' /\ MapsStay(t)
    BY <2>1, <2>2, LoadMemory DEF PinnedSteps
  <2> QED
    BY <1>c, <2>1, <2>3 DEF OpSteps
<1>2. CASE Read(t)
  <2>1. step[t] = "loaded" /\ t \in Pinned /\ Unpin(t, {}, {}) /\ UNCHANGED pointer
        /\ step'[t] = "idle" /\ op'[t] = NoValue
    BY <1>2, <1>d DEF Read, Pinned
  <2>2. OthersStay(t)
    BY <1>2, <1>a DEF Read, Finish, Unpin, OthersStay, TypeOK
  <2>3. MemoryInv' /\ CopiesInv' /\ MapsStay(t)
    BY <2>1, <2>2, UnpinMemory DEF PinnedSteps
  <2> QED
    BY <1>c, <2>1, <2>2, <2>3
<1>3. CASE Copy(t)
  <2>1. /\ step'[t] = "copied" /\ op' = op /\ op[t].kind = "write" /\ OthersStay(t)
    BY <1>3, <1>a DEF Copy, TypeOK, OthersStay
  <2> QED
    BY <1>3, <1>c, <2>1, CopyMemory DEF OpSteps
<1>4. CASE ExchangeFails(t)
  <2>1. /\ step[t] = "copied" /\ t \in Pinned /\ Unpin(t, {}, {fresh[t]}) /\ UNCHANGED pointer
        /\ \/ step'[t] = "idle" /\ op'[t] = NoValue
           \/ step'[t] = "load" /\ op'[t] = op[t]
    BY <1>4, <1>a, <1>d DEF ExchangeFails, Pinned, TypeOK
  <2>2. OthersStay(t)
    BY <1>4, <1>a DEF ExchangeFails, Finish, Unpin, OthersStay, TypeOK
  <2>3. {fresh[t]} \in SUBSET Addresses
    BY <2>1 DEF IInv, CopiesInv, OwnCopy
  <2>4. MemoryInv' /\ CopiesInv' /\ MapsStay(t)
    BY <2>1, <2>2, <2>3, UnpinMemory DEF PinnedSteps
  <2> QED
    BY <1>c, <2>1, <2>2, <2>4 DEF OpSteps
<1> QED
  BY <1>1, <1>2, <1>3, <1>4

LEMMA ExchangeStep ==
  ASSUME IInv, NEW t \in Threads, Exchange(t)
  PROVE  IInv' /\ OthersStay(t)
<1>a. TypeOK' /\ TypeOK
  BY TypeStep DEF IInv, Work
<1>1. OthersStay(t)
  BY <1>a DEF Exchange, Finish, Unpin, OthersStay, TypeOK
<1>2. /\ step[t] = "copied" /\ step'[t] = "idle" /\ op'[t] = NoValue
      /\ UNCHANGED <<position, found>> /\ during' = Observed(op[t])
      /\ op[t] \in Operations /\ position[t] = 1
  BY <1>a DEF Exchange, Finish, TypeOK, IInv, ThreadsInv, ThreadInv, OpSteps, ScanSteps
<1>3. ThreadsInv'
  BY <1>1, <1>2, ThreadsStay DEF ThreadInv, OpSteps, ScanSteps
<1>4. /\ MemoryInv' /\ CopiesInv'
      /\ \A u \in Pinned : u # t => heap'[seen[u]] = heap[seen[u]]
      /\ \A k \in Keys : Current'[k] = IF k = op[t].key THEN op[t].value ELSE Current[k]
  BY <1>1, ExchangeMemory
<1>5. ASSUME NEW u \in Threads PROVE ScanInv(u)'
  <2>1. CASE u = t
    BY <1>2, <2>1 DEF ScanInv
  <2>2. CASE u # t
    <3>1. /\ step'[u] = step[u] /\ position'[u] = position[u] /\ found'[u] = found[u]
          /\ seen'[u] = seen[u] /\ ScanInv(u)
      BY <1>1, <2>2 DEF IInv, ScansInv, OthersStay
    <3>2. step[u] = "scanning" => heap'[seen[u]] = heap[seen[u]]
      BY <1>4, <2>2 DEF Pinned
    <3>3. \A k \in Keys :
            /\ \A v : v \in during[u][k] => v \in during'[u][k]
            /\ step[u] \in {"scan", "scanning"} => op[t].value \in during'[u][op[t].key]
      BY <1>a, <1>2, ObservedType
    <3> QED
      BY <1>4, <3>1, <3>2, <3>3 DEF ScanInv
  <2> QED
    BY <2>1, <2>2
<1> QED
  BY <1>a, <1>1, <1>3, <1>4, <1>5 DEF IInv, ScansInv

LEMMA ScanStep ==
  ASSUME IInv, NEW t \in Threads, ScanLoad(t) \/ ScanRead(t) \/ ScanReturn(t)
  PROVE  IInv' /\ OthersStay(t) /\ MapsStay(t)
<1> USE DEF memoryVars, scanVars
<1>a. TypeOK' /\ TypeOK
  BY TypeStep DEF IInv, Work
<1>b. step[t] \in ScanSteps /\ op[t] = NoValue /\ ScanInv(t) /\ UNCHANGED op
  BY DEF IInv, ThreadsInv, ThreadInv, ScansInv, ScanLoad, ScanRead, ScanReturn, ScanSteps, OpSteps
<1>c. shard_index \in [Keys -> Shards] /\ ShardCount \in Nat \ {0}
  BY LockFreeHashMapAssumption
<1>1. CASE ScanLoad(t)
  <2>1. /\ step[t] = "scan" /\ step'[t] = "scanning" /\ OthersStay(t)
        /\ UNCHANGED <<heap, guards, pointer, position, found, during>>
        /\ seen'[t] = pointer[position[t]] /\ position[t] \in Shards
    BY <1>1, <1>a DEF ScanLoad, TypeOK, OthersStay, IInv, ThreadsInv, ThreadInv
  <2>2. MemoryInv' /\ CopiesInv' /\ MapsStay(t)
    BY <2>1, LoadMemory DEF PinnedSteps
  <2>3. ThreadsInv'
    BY <1>b, <2>1, ThreadsStay DEF ThreadInv, OpSteps, ScanSteps
  <2>4. ScanInv(t)'
    <3>1. \A k \in Keys : Current[k] = heap[pointer[shard_index[k]]][k]
      BY DEF Current
    <3> QED
      BY <1>b, <2>1, <2>2, <3>1, CurrentStays DEF ScanInv
  <2> QED
    BY <1>a, <2>1, <2>2, <2>3, <2>4, ScansStay DEF IInv
<1>2. CASE ScanRead(t)
  <2>1. /\ step[t] = "scanning" /\ t \in Pinned /\ Unpin(t, {}, {}) /\ UNCHANGED <<pointer, during>>
        /\ step'[t] = IF position[t] = ShardCount THEN "scanned" ELSE "scan"
        /\ position'[t] = position[t] + 1 /\ found'[t] = Collected(t)
        /\ position[t] \in Shards
    BY <1>2, <1>a DEF ScanRead, TypeOK, Pinned, IInv, ThreadsInv, ThreadInv
  <2>2. OthersStay(t)
    BY <1>2, <1>a DEF ScanRead, Unpin, OthersStay, TypeOK
  <2>3. MemoryInv' /\ CopiesInv' /\ MapsStay(t)
    BY <2>1, <2>2, UnpinMemory DEF PinnedSteps
  <2>4. ThreadsInv'
    <3>1. position[t] # ShardCount => position[t] + 1 \in Shards
      BY <1>c, <2>1 DEF Shards
    <3> QED
      BY <1>b, <2>1, <2>2, <3>1, ThreadsStay DEF ThreadInv, OpSteps, ScanSteps
  <2>5. ScanInv(t)'
    <3> SUFFICES ASSUME NEW k \in Keys
                 PROVE  /\ step'[t] = "scan" =>
                             /\ Current'[k] \in during[t][k]
                             /\ shard_index[k] < position[t] + 1 => found'[t][k] \in during[t][k]
                        /\ step'[t] = "scanned" => found'[t][k] \in during[t][k]
      BY <2>1 DEF ScanInv
    <3>1. /\ Current[k] \in during[t][k] /\ Current'[k] = Current[k]
          /\ shard_index[k] < position[t] => found[t][k] \in during[t][k]
          /\ shard_index[k] = position[t] => heap[seen[t]][k] \in during[t][k]
      BY <1>b, <2>1, <2>3, CurrentStays DEF ScanInv
    <3>2. found'[t][k] = IF shard_index[k] = position[t] THEN heap[seen[t]][k] ELSE found[t][k]
      BY <2>1 DEF Collected
    <3>3. shard_index[k] < position[t] + 1 => found'[t][k] \in during[t][k]
      <4>1. shard_index[k] \in Nat /\ position[t] \in Nat
        BY <1>c, <2>1 DEF Shards
      <4>2. shard_index[k] < position[t] + 1 =>
              shard_index[k] < position[t] \/ shard_index[k] = position[t]
        BY <4>1
      <4> QED
        BY <3>1, <3>2, <4>2
    <3>4. position[t] = ShardCount => shard_index[k] < position[t] + 1
      BY <1>c DEF Shards
    <3> QED
      BY <2>1, <3>1, <3>3, <3>4
  <2> QED
    BY <1>a, <2>1, <2>2, <2>3, <2>4, <2>5, ScansStay DEF IInv
<1>3. CASE ScanReturn(t)
  <2>1. /\ step[t] = "scanned" /\ step'[t] = "idle" /\ OthersStay(t)
        /\ UNCHANGED <<heap, guards, pointer>> /\ position'[t] = 1
        /\ \A u \in Threads : u # t => during'[u] = during[u]
    BY <1>3, <1>a DEF ScanReturn, TypeOK, OthersStay
  <2>2. MemoryInv' /\ CopiesInv' /\ MapsStay(t)
    BY <2>1, LoadMemory DEF PinnedSteps
  <2>3. ThreadsInv'
    BY <1>b, <2>1, ThreadsStay DEF ThreadInv, OpSteps, ScanSteps
  <2>4. ScanInv(t)'
    BY <2>1 DEF ScanInv
  <2> QED
    BY <1>a, <2>1, <2>2, <2>3, <2>4, ScansStay DEF IInv
<1> QED
  BY <1>1, <1>2, <1>3

LEMMA IInvStep == IInv /\ [Next]_vars => IInv'
<1> SUFFICES ASSUME IInv, [Next]_vars PROVE IInv'
  OBVIOUS
<1>1. CASE UNCHANGED vars
  <2>1. TypeOK'
    BY <1>1 DEF vars, memoryVars, scanVars, IInv, TypeOK
  <2>2. ThreadsInv'
    BY <1>1 DEF vars, memoryVars, scanVars, IInv, ThreadsInv, ThreadInv
  <2>3. MemoryInv' /\ CopiesInv'
    BY <1>1 DEF vars, memoryVars, scanVars, IInv, MemoryInv, Pinned, CopiesInv, OwnCopy
  <2>4. ScansInv'
    BY <1>1 DEF vars, memoryVars, scanVars, IInv, ScansInv, ScanInv, Current
  <2> QED
    BY <2>1, <2>2, <2>3, <2>4 DEF IInv
<1> QED
  BY <1>1, CallStep, OperationStep, ExchangeStep, ScanStep DEF Next, Work

THEOREM Invariance == Spec => []IInv
  BY IInvInit, IInvStep, PTL DEF Spec

-----------------------------------------------------------------------------
(* What the run checks, for every value of the constants                   *)

(* The state of the map and of its users always has its types.              *)
THEOREM TypeCorrect == Spec => []TypeOK
<1>1. IInv => TypeOK
  BY DEF IInv
<1> QED
  BY Invariance, <1>1, PTL

(* No thread follows a pointer to a map that was freed, and no two writers  *)
(* share the memory of their copies.                                        *)
THEOREM NoUseAfterFreeTheorem == Spec => []NoUseAfterFree
<1>1. IInv => NoUseAfterFree
  BY DEF IInv, NoUseAfterFree, MemoryInv, CopiesInv, OwnCopy
<1> QED
  BY Invariance, <1>1, PTL

(* A scan reports for every key a value the key had while the scan ran.     *)
THEOREM ScanFaithfulTheorem == Spec => []ScanFaithful
<1>1. IInv => ScanFaithful
  BY DEF IInv, ScanFaithful, ScansInv, ScanInv
<1> QED
  BY Invariance, <1>1, PTL

-----------------------------------------------------------------------------
(* The map implements AtomicMap                                            *)

Open == [t \in Threads |-> IF Decided(t) THEN NoValue ELSE op[t]]
Answer == [t \in Threads |-> IF Decided(t) THEN heap[seen[t]][op[t].key] ELSE result[t]]

LEMMA AtomicInit == Init => Atomic!Init
<1> SUFFICES ASSUME Init PROVE Atomic!Init
  OBVIOUS
<1>1. Current = [k \in Keys |-> NoValue]
  BY LockFreeHashMapAssumption DEF Init, Current, EmptyMap
<1>2. Open = [t \in Threads |-> NoValue] /\ Answer = [t \in Threads |-> NoValue]
  BY DEF Init, Open, Answer, Decided
<1> QED
  BY <1>1, <1>2 DEF Atomic!Init, Open, Answer

(* The others have called, and been answered, as before.                    *)
LEMMA OthersAgree ==
  ASSUME NEW t \in Threads, OthersStay(t),
         \A u \in Pinned : u # t => heap'[seen[u]] = heap[seen[u]]
  PROVE  \A u \in Threads : u # t => Open'[u] = Open[u] /\ Answer'[u] = Answer[u]
<1> SUFFICES ASSUME NEW u \in Threads, u # t
             PROVE  Open'[u] = Open[u] /\ Answer'[u] = Answer[u]
  OBVIOUS
<1>1. /\ step'[u] = step[u] /\ op'[u] = op[u] /\ seen'[u] = seen[u] /\ result'[u] = result[u]
      /\ Decided(u)' <=> Decided(u)
  BY DEF OthersStay, Decided
<1>2. Decided(u) => heap'[seen[u]] = heap[seen[u]]
  BY DEF Decided, Pinned
<1> QED
  BY <1>1, <1>2 DEF Open, Answer

(* A step that changes neither the contents nor what its thread has asked   *)
(* and been told is none of the abstract map.                               *)
LEMMA AtomicStutter ==
  ASSUME IInv, NEW t \in Threads, OthersStay(t), MapsStay(t),
         Open'[t] = Open[t], Answer'[t] = Answer[t]
  PROVE  UNCHANGED Atomic!vars
<1>1. Current' = Current
  BY CurrentStays DEF Current
<1>2. Open' = Open /\ Answer' = Answer
  <2>1. \A u \in Threads : Open'[u] = Open[u] /\ Answer'[u] = Answer[u]
    BY OthersAgree DEF MapsStay
  <2> QED
    BY <2>1 DEF Open, Answer
<1> QED
  BY <1>1, <1>2 DEF Atomic!vars, Open, Answer

(* What a step of one thread does to the functions of all of them.          *)
LEMMA AtomicEffect ==
  ASSUME NEW t \in Threads, NEW o, NEW a,
         OthersStay(t), \A u \in Pinned : u # t => heap'[seen[u]] = heap[seen[u]],
         Open'[t] = o, Answer'[t] = a
  PROVE  Open' = [Open EXCEPT ![t] = o] /\ Answer' = [Answer EXCEPT ![t] = a]
<1>1. \A u \in Threads : u # t => Open'[u] = Open[u] /\ Answer'[u] = Answer[u]
  BY OthersAgree
<1> QED
  BY <1>1 DEF Open, Answer

LEMMA BeginRefines ==
  ASSUME IInv, NEW t \in Threads, NEW o \in Operations, Begin(t, o)
  PROVE  Atomic!Call(t, o)
<1> USE DEF memoryVars, scanVars
<1>1. /\ step[t] = "idle" /\ step'[t] = "load" /\ op'[t] = o /\ OthersStay(t)
      /\ UNCHANGED <<heap, pointer, result, seen>> /\ op[t] = NoValue
  BY DEF Begin, OthersStay, IInv, TypeOK, ThreadsInv, ThreadInv, OpSteps
<1>2. Current' = Current
  BY <1>1 DEF Current
<1>3. /\ Open[t] = NoValue /\ Open'[t] = o /\ Answer'[t] = Answer[t]
  BY <1>1 DEF Open, Answer, Decided
<1>4. Open' = [Open EXCEPT ![t] = o] /\ Answer' = [Answer EXCEPT ![t] = Answer[t]]
  BY <1>1, <1>3, AtomicEffect
<1>5. Answer' = Answer
  BY <1>4 DEF Answer
<1> QED
  BY <1>2, <1>3, <1>4, <1>5 DEF Atomic!Call, Open, Answer

(* A get takes effect when it loads the pointer.                            *)
LEMMA LoadRefines ==
  ASSUME IInv, NEW t \in Threads, Load(t)
  PROVE  Atomic!TakeEffect(t) \/ UNCHANGED Atomic!vars
<1> USE DEF memoryVars, scanVars
<1>1. /\ step[t] = "load" /\ step'[t] = "loaded" /\ UNCHANGED <<heap, pointer, op, result>>
      /\ seen'[t] = pointer[shard_index[op[t].key]] /\ op[t] \in Operations
  BY DEF Load, IInv, TypeOK, ThreadsInv, ThreadInv, OpSteps
<1>2. OthersStay(t) /\ MapsStay(t) /\ op[t].key \in Keys /\ op[t] # NoValue
  BY <1>1, OperationStep, OperationsFacts
<1>3. CASE op[t].kind = "get"
  <2>1. /\ Open[t] = op[t] /\ Open'[t] = NoValue /\ Answer'[t] = Current[op[t].key]
    BY <1>1, <1>2, <1>3 DEF Open, Answer, Decided, Current
  <2>2. Open' = [Open EXCEPT ![t] = NoValue]
        /\ Answer' = [Answer EXCEPT ![t] = Current[op[t].key]]
    BY <1>2, <2>1, AtomicEffect DEF MapsStay
  <2>3. Current' = Current
    BY <1>1 DEF Current
  <2> QED
    BY <1>2, <1>3, <2>1, <2>2, <2>3 DEF Atomic!TakeEffect, Open, Answer
<1>4. CASE op[t].kind # "get"
  <2>1. Open'[t] = Open[t] /\ Answer'[t] = Answer[t]
    BY <1>1, <1>4 DEF Open, Answer, Decided
  <2> QED
    BY <1>2, <2>1, AtomicStutter
<1> QED
  BY <1>3, <1>4

(* A write takes effect with its exchange.                                  *)
LEMMA ExchangeRefines ==
  ASSUME IInv, NEW t \in Threads, Exchange(t)
  PROVE  Atomic!TakeEffect(t)
<1>1. /\ step[t] = "copied" /\ step'[t] = "idle" /\ op'[t] = NoValue
      /\ result'[t] = heap[seen[t]][op[t].key] /\ op[t] \in Operations /\ op[t].kind = "write"
  BY DEF Exchange, Finish, IInv, TypeOK, ThreadsInv, ThreadInv, OpSteps
<1>2. OthersStay(t) /\ op[t].key \in Keys /\ op[t] # NoValue
  BY <1>1, ExchangeStep, OperationsFacts
<1>3. /\ \A u \in Pinned : u # t => heap'[seen[u]] = heap[seen[u]]
      /\ \A k \in Keys : Current'[k] = IF k = op[t].key THEN op[t].value ELSE Current[k]
      /\ Current[op[t].key] = heap[seen[t]][op[t].key]
  BY <1>2, ExchangeMemory
<1>4. Current' = [Current EXCEPT ![op[t].key] = op[t].value]
  BY <1>2, <1>3 DEF Current
<1>5. /\ Open[t] = op[t] /\ Open'[t] = NoValue /\ Answer'[t] = Current[op[t].key]
  BY <1>1, <1>3 DEF Open, Answer, Decided
<1>6. Open' = [Open EXCEPT ![t] = NoValue]
      /\ Answer' = [Answer EXCEPT ![t] = Current[op[t].key]]
  BY <1>2, <1>3, <1>5, AtomicEffect
<1> QED
  BY <1>1, <1>2, <1>4, <1>5, <1>6 DEF Atomic!TakeEffect, Open, Answer

(* A write that gives up fails, and one that tries again does nothing.      *)
LEMMA ExchangeFailsRefines ==
  ASSUME IInv, NEW t \in Threads, ExchangeFails(t)
  PROVE  Atomic!Fail(t) \/ UNCHANGED Atomic!vars
<1>1. /\ step[t] = "copied" /\ op[t] \in Operations /\ op[t].kind = "write"
      /\ \/ step'[t] = "idle" /\ op'[t] = NoValue /\ result'[t] = Failed
         \/ step'[t] = "load" /\ op'[t] = op[t] /\ result'[t] = result[t]
  BY DEF ExchangeFails, Finish, IInv, TypeOK, ThreadsInv, ThreadInv, OpSteps
<1>2. OthersStay(t) /\ MapsStay(t) /\ op[t] # NoValue
  BY <1>1, OperationStep, OperationsFacts
<1>3. CASE step'[t] = "idle"
  <2>1. /\ Open[t] = op[t] /\ Open'[t] = NoValue /\ Answer'[t] = Failed
    BY <1>1, <1>3 DEF Open, Answer, Decided
  <2>2. Open' = [Open EXCEPT ![t] = NoValue] /\ Answer' = [Answer EXCEPT ![t] = Failed]
    BY <1>2, <2>1, AtomicEffect DEF MapsStay
  <2>3. Current' = Current
    BY <1>2, CurrentStays DEF Current
  <2> QED
    BY <1>1, <1>2, <2>1, <2>2, <2>3 DEF Atomic!Fail, Open, Answer
<1>4. CASE step'[t] = "load"
  <2>1. Open'[t] = Open[t] /\ Answer'[t] = Answer[t]
    BY <1>1, <1>4 DEF Open, Answer, Decided
  <2> QED
    BY <1>2, <2>1, AtomicStutter
<1> QED
  BY <1>1, <1>3, <1>4

(* Every other step leaves the abstract map alone.                          *)
LEMMA OtherStepsStutter ==
  ASSUME IInv, NEW t \in Threads,
         \/ Read(t) \/ Copy(t) \/ snapshot(t) \/ ScanLoad(t) \/ ScanRead(t) \/ ScanReturn(t)
  PROVE  UNCHANGED Atomic!vars
<1> USE DEF memoryVars, scanVars
<1>1. OthersStay(t) /\ MapsStay(t)
  BY CallStep, OperationStep, ScanStep DEF Call
<1>2. CASE Read(t)
  <2>1. /\ step[t] = "loaded" /\ op[t].kind = "get" /\ op'[t] = NoValue /\ step'[t] = "idle"
        /\ result'[t] = heap[seen[t]][op[t].key]
    BY <1>2 DEF Read, Finish, IInv, TypeOK
  <2> QED
    BY <1>1, <2>1, AtomicStutter DEF Open, Answer, Decided
<1>3. CASE Copy(t)
  <2>1. step[t] = "loaded" /\ step'[t] = "copied" /\ op[t].kind = "write" /\ UNCHANGED <<op, result>>
    BY <1>3 DEF Copy, IInv, TypeOK
  <2>2. op[t].kind # "get"
    BY <2>1
  <2> QED
    BY <1>1, <2>1, <2>2, AtomicStutter DEF Open, Answer, Decided
<1>4. CASE snapshot(t) \/ ScanLoad(t) \/ ScanRead(t) \/ ScanReturn(t)
  <2>1. step[t] # "loaded" /\ step'[t] # "loaded" /\ UNCHANGED <<op, result>>
    BY <1>4 DEF snapshot, ScanLoad, ScanRead, ScanReturn, IInv, TypeOK
  <2> QED
    BY <1>1, <2>1, AtomicStutter DEF Open, Answer, Decided
<1> QED
  BY <1>2, <1>3, <1>4

LEMMA AtomicNext == IInv /\ [Next]_vars => [Atomic!Next]_(Atomic!vars)
<1> SUFFICES ASSUME IInv, [Next]_vars PROVE [Atomic!Next]_(Atomic!vars)
  OBVIOUS
<1>1. CASE UNCHANGED vars
  BY <1>1 DEF vars, memoryVars, Atomic!vars, Current, Decided
<1>2. ASSUME NEW t \in Threads, Call(t) \/ Work(t) PROVE [Atomic!Next]_(Atomic!vars)
  <2>1. ASSUME NEW o \in Operations, Begin(t, o) PROVE [Atomic!Next]_(Atomic!vars)
    BY <2>1, BeginRefines
    DEF Atomic!Next, Operations, Contents, Atomic!Operations, Atomic!Contents
  <2>2. CASE \/ \E k \in Keys : get(t, k) \/ remove(t, k) \/ \E v \in Values : insert(t, k, v)
    BY <2>1, <2>2 DEF get, remove, insert, Operations, Contents
  <2>3. CASE Load(t) \/ Exchange(t) \/ ExchangeFails(t)
    BY <2>3, LoadRefines, ExchangeRefines, ExchangeFailsRefines DEF Atomic!Next
  <2>4. CASE \/ Read(t) \/ Copy(t) \/ snapshot(t) \/ ScanLoad(t) \/ ScanRead(t) \/ ScanReturn(t)
    BY <2>4, OtherStepsStutter
  <2> QED
    BY <1>2, <2>2, <2>3, <2>4 DEF Call, Work
<1> QED
  BY <1>1, <1>2 DEF Next

(* Concurrent gets, inserts and removes behave as if each had happened at   *)
(* one instant: every behaviour of the map is one of AtomicMap.             *)
THEOREM LinearizableTheorem == Spec => Linearizable
  BY Invariance, AtomicInit, AtomicNext, PTL DEF Spec, Linearizable, Atomic!Spec

=============================================================================
