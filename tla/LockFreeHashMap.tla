--------------------------- MODULE LockFreeHashMap ---------------------------
(***************************************************************************)
(* The LockFreeHashMap of src/src/transport/lockfree.rs: every shard is a  *)
(* pointer to an immutable map.  A write copies the map, changes the copy  *)
(* and swings the pointer with a compare-and-swap, which it retries a      *)
(* bounded number of times; readers follow the pointer.                    *)
(*                                                                         *)
(* Memory is modelled because the compare-and-swap compares addresses: an  *)
(* address is free, holds a map, or is retired, that is, unlinked but not  *)
(* freed before the guards pinned at that moment are dropped.  The epoch   *)
(* scheme that does this is crossbeam's; here it frees as early as it may, *)
(* and the allocator may return any free address.  Statistics and the      *)
(* version counter, which nothing reads, are left out.                     *)
(***************************************************************************)
EXTENDS Naturals

CONSTANTS
  Threads, Keys, Values,
  ShardCount,   \* number of shards
  shard_index,  \* the shard of each key
  Addresses,    \* bound: the heap
  MAX_RETRIES,  \* 100 in the code
  NoValue,      \* no entry; written to remove the key
  Failed,       \* the answer of a write that gave up
  Free,         \* a heap cell that holds no map
  Null          \* no address

Shards == 1..ShardCount
Contents == Values \cup {NoValue}
Maps == [Keys -> Contents]

ASSUME LockFreeHashMapAssumption ==
  /\ ShardCount \in Nat \ {0}
  /\ shard_index \in [Keys -> Shards]
  /\ MAX_RETRIES \in Nat \ {0}
  /\ NoValue \notin Values /\ Failed \notin Contents /\ Free \notin Maps
  /\ Null \notin Addresses
  /\ NoValue \notin [kind : {"get", "write"}, key : Keys, value : Contents]

VARIABLES
  heap,     \* the map at each address, or Free
  pointer,  \* address each shard points to
  guards,   \* of a retired address, the threads whose guard keeps it
  step,     \* where each thread is
  op,       \* the operation it executes
  seen,     \* the address it loaded
  fresh,    \* the address of its changed copy
  retries,  \* failed exchanges of the running write
  result,   \* answer to its last get, insert or remove
  position, \* next shard of a scan
  found,    \* what a scan has collected
  during    \* the values each key has had since the scan began (history)

memoryVars == <<heap, guards>>
scanVars == <<position, found, during>>
vars == <<memoryVars, pointer, step, op, seen, fresh, retries, result, scanVars>>

Operations ==
  [kind : {"get"}, key : Keys, value : {NoValue}]
    \cup [kind : {"write"}, key : Keys, value : Contents]

EmptyMap == [k \in Keys |-> NoValue]
Nothing == [k \in Keys |-> {}]

TypeOK ==
  /\ heap \in [Addresses -> Maps \cup {Free}]
  /\ pointer \in [Shards -> Addresses]
  /\ guards \in [Addresses -> SUBSET Threads]
  /\ step \in [Threads -> {"idle", "load", "loaded", "copied",
                           "scan", "scanning", "scanned"}]
  /\ op \in [Threads -> Operations \cup {NoValue}]
  /\ seen \in [Threads -> Addresses \cup {Null}]
  /\ fresh \in [Threads -> Addresses \cup {Null}]
  /\ retries \in [Threads -> 0..(MAX_RETRIES - 1)]
  /\ result \in [Threads -> Contents \cup {Failed}]
  /\ position \in [Threads -> 1..(ShardCount + 1)]
  /\ found \in [Threads -> Maps]
  /\ during \in [Threads -> [Keys -> SUBSET Contents]]

Init ==
  /\ pointer \in [Shards -> Addresses]
  /\ \A i, j \in Shards : pointer[i] = pointer[j] => i = j
  /\ heap = [a \in Addresses |-> IF \E i \in Shards : pointer[i] = a
                                 THEN EmptyMap ELSE Free]
  /\ guards = [a \in Addresses |-> {}]
  /\ step = [t \in Threads |-> "idle"]
  /\ op = [t \in Threads |-> NoValue]
  /\ seen = [t \in Threads |-> Null] /\ fresh = [t \in Threads |-> Null]
  /\ retries = [t \in Threads |-> 0]
  /\ result = [t \in Threads |-> NoValue]
  /\ position = [t \in Threads |-> 1]
  /\ found = [t \in Threads |-> EmptyMap]
  /\ during = [t \in Threads |-> Nothing]

\* The contents of the map, all shards taken together at one instant.
Current == [k \in Keys |-> heap[pointer[shard_index[k]]][k]]

-----------------------------------------------------------------------------
(* Guards and memory                                                       *)

Pinned == {t \in Threads : step[t] \in {"loaded", "copied", "scanning"}}

\* Mutant: the old map is dropped at once, not deferred.
DropAtOnce(t, retired, dropped) ==
  /\ seen' = [seen EXCEPT ![t] = Null] /\ fresh' = [fresh EXCEPT ![t] = Null]
  /\ guards' = guards
  /\ heap' = [a \in Addresses |-> IF a \in retired \cup dropped THEN Free ELSE heap[a]]

\* Thread t drops its guard; it retired the addresses in retired, which every
\* other pinned guard still keeps, and drops the maps of its own in dropped.
Unpin(t, retired, dropped) ==
  /\ seen' = [seen EXCEPT ![t] = Null] /\ fresh' = [fresh EXCEPT ![t] = Null]
  /\ guards' = [a \in Addresses |->
                  (IF a \in retired THEN Pinned ELSE guards[a]) \ {t}]
  /\ heap' = [a \in Addresses |->
                IF \/ a \in dropped
                   \/ (a \in retired \/ guards[a] # {}) /\ guards'[a] = {}
                THEN Free ELSE heap[a]]

-----------------------------------------------------------------------------
(* get, insert, remove                                                     *)

Begin(t, operation) ==
  /\ step[t] = "idle"
  /\ step' = [step EXCEPT ![t] = "load"]
  /\ op' = [op EXCEPT ![t] = operation]
  /\ UNCHANGED <<memoryVars, pointer, seen, fresh, retries, result, scanVars>>

get(t, k) == Begin(t, [kind |-> "get", key |-> k, value |-> NoValue])
insert(t, k, v) == Begin(t, [kind |-> "write", key |-> k, value |-> v])
remove(t, k) == Begin(t, [kind |-> "write", key |-> k, value |-> NoValue])

\* epoch::pin and the load of the shard's pointer.
Load(t) ==
  /\ step[t] = "load"
  /\ seen' = [seen EXCEPT ![t] = pointer[shard_index[op[t].key]]]
  /\ step' = [step EXCEPT ![t] = "loaded"]
  /\ UNCHANGED <<memoryVars, pointer, op, fresh, retries, result, scanVars>>

Finish(t, answer) ==
  /\ step' = [step EXCEPT ![t] = "idle"]
  /\ op' = [op EXCEPT ![t] = NoValue]
  /\ retries' = [retries EXCEPT ![t] = 0]
  /\ result' = [result EXCEPT ![t] = answer]

\* get dereferences the pointer and clones the value.
Read(t) ==
  /\ step[t] = "loaded" /\ op[t].kind = "get"
  /\ Finish(t, heap[seen[t]][op[t].key])
  /\ Unpin(t, {}, {})
  /\ UNCHANGED <<pointer, scanVars>>

\* insert and remove clone the map, change the clone and allocate it.
Copy(t) ==
  /\ step[t] = "loaded" /\ op[t].kind = "write"
  /\ \E a \in Addresses :
       /\ heap[a] = Free
       /\ heap' = [heap EXCEPT ![a] = [heap[seen[t]] EXCEPT ![op[t].key] = op[t].value]]
       /\ fresh' = [fresh EXCEPT ![t] = a]
  /\ step' = [step EXCEPT ![t] = "copied"]
  /\ UNCHANGED <<guards, pointer, op, seen, retries, result, scanVars>>

\* The running scans take note of the value that the write gives its key.
Observed(o) ==
  [t \in Threads |-> IF step[t] \in {"scan", "scanning"}
                     THEN [during[t] EXCEPT ![o.key] = @ \cup {o.value}]
                     ELSE during[t]]

\* Mutant: the pointer is stored without a comparison.
StorePointer(t) ==
  LET i == shard_index[op[t].key]
  IN  /\ step[t] = "copied"
      /\ pointer' = [pointer EXCEPT ![i] = fresh[t]]
      /\ during' = Observed(op[t])
      /\ Finish(t, heap[seen[t]][op[t].key])
      /\ Unpin(t, {pointer[i]}, {})
      /\ UNCHANGED <<position, found>>

\* compare_exchange_weak succeeds: the old map is retired, its value returned.
Exchange(t) ==
  LET i == shard_index[op[t].key]
  IN  /\ step[t] = "copied" /\ pointer[i] = seen[t]
      /\ pointer' = [pointer EXCEPT ![i] = fresh[t]]
      /\ during' = Observed(op[t])
      /\ Finish(t, heap[seen[t]][op[t].key])
      /\ Unpin(t, {seen[t]}, {})
      /\ UNCHANGED <<position, found>>

\* Mutant: one retry more than MAX_RETRIES allows.
RetryOnceMore(t) ==
  /\ step[t] = "copied"
  /\ IF retries[t] >= MAX_RETRIES
     THEN Finish(t, Failed)
     ELSE /\ retries' = [retries EXCEPT ![t] = @ + 1]
          /\ step' = [step EXCEPT ![t] = "load"]
          /\ UNCHANGED <<op, result>>
  /\ Unpin(t, {}, {fresh[t]})
  /\ UNCHANGED <<pointer, scanVars>>

\* It fails: the pointer has moved, or for no reason (it is the weak form).  The
\* copy is dropped, and the guard before the next attempt.
ExchangeFails(t) ==
  /\ step[t] = "copied"
  /\ IF retries[t] + 1 >= MAX_RETRIES
     THEN Finish(t, Failed)
     ELSE /\ retries' = [retries EXCEPT ![t] = @ + 1]
          /\ step' = [step EXCEPT ![t] = "load"]
          /\ UNCHANGED <<op, result>>
  /\ Unpin(t, {}, {fresh[t]})
  /\ UNCHANGED <<pointer, scanVars>>

-----------------------------------------------------------------------------
(* snapshot, keys, len, for_each: one shard after the other                *)

snapshot(t) ==
  /\ step[t] = "idle"
  /\ step' = [step EXCEPT ![t] = "scan"]
  /\ during' = [during EXCEPT ![t] = [k \in Keys |-> {Current[k]}]]
  /\ UNCHANGED <<memoryVars, pointer, op, seen, fresh, retries, result, position, found>>

ScanLoad(t) ==
  /\ step[t] = "scan"
  /\ seen' = [seen EXCEPT ![t] = pointer[position[t]]]
  /\ step' = [step EXCEPT ![t] = "scanning"]
  /\ UNCHANGED <<memoryVars, pointer, op, fresh, retries, result, scanVars>>

Collected(t) ==
  [k \in Keys |-> IF shard_index[k] = position[t] THEN heap[seen[t]][k] ELSE found[t][k]]

\* Mutant: the last shard is not visited.
ScanReadButLast(t) ==
  /\ step[t] = "scanning"
  /\ found' = [found EXCEPT ![t] = Collected(t)]
  /\ position' = [position EXCEPT ![t] = @ + 1]
  /\ step' = [step EXCEPT ![t] = IF position[t] + 1 >= ShardCount THEN "scanned" ELSE "scan"]
  /\ Unpin(t, {}, {})
  /\ UNCHANGED <<pointer, op, retries, result, during>>

ScanRead(t) ==
  /\ step[t] = "scanning"
  /\ found' = [found EXCEPT ![t] = Collected(t)]
  /\ position' = [position EXCEPT ![t] = @ + 1]
  /\ step' = [step EXCEPT ![t] = IF position[t] = ShardCount THEN "scanned" ELSE "scan"]
  /\ Unpin(t, {}, {})
  /\ UNCHANGED <<pointer, op, retries, result, during>>

ScanReturn(t) ==
  /\ step[t] = "scanned"
  /\ step' = [step EXCEPT ![t] = "idle"]
  /\ position' = [position EXCEPT ![t] = 1]
  /\ found' = [found EXCEPT ![t] = EmptyMap]
  /\ during' = [during EXCEPT ![t] = Nothing]
  /\ UNCHANGED <<memoryVars, pointer, op, seen, fresh, retries, result>>

-----------------------------------------------------------------------------
Call(t) ==
  \/ \E k \in Keys : get(t, k) \/ remove(t, k) \/ \E v \in Values : insert(t, k, v)
  \/ snapshot(t)

Work(t) ==
  \/ Load(t) \/ Read(t) \/ Copy(t) \/ Exchange(t) \/ ExchangeFails(t)
  \/ ScanLoad(t) \/ ScanRead(t) \/ ScanReturn(t)

Next == \E t \in Threads : Call(t) \/ Work(t)

Spec == Init /\ [][Next]_vars

-----------------------------------------------------------------------------
(* Properties                                                              *)

(* Whoever holds a loaded pointer may follow it: the map behind it was not  *)
(* freed, neither was the map a shard points to, and no two writers were    *)
(* given the same memory.                                                   *)
NoUseAfterFree ==
  /\ \A t \in Pinned : heap[seen[t]] # Free
  /\ \A i \in Shards : heap[pointer[i]] # Free
  /\ \A t, u \in Threads :
       step[t] = "copied" => /\ \A i \in Shards : pointer[i] # fresh[t]
                             /\ u \in Pinned => seen[u] # fresh[t]
                             /\ step[u] = "copied" /\ fresh[u] = fresh[t] => u = t

(* A scan reports for every key a value the key had while the scan ran: an  *)
(* entry that was there throughout is reported, and one that was not there  *)
(* is not, whatever is written between two shards.                          *)
ScanFaithful ==
  \A t \in Threads : step[t] = "scanned" =>
    \A k \in Keys : found[t][k] \in during[t][k]

\* A get has taken effect once it has loaded the pointer.
Decided(t) == step[t] = "loaded" /\ op[t].kind = "get"

Atomic == INSTANCE AtomicMap WITH
  map <- Current,
  open <- [t \in Threads |-> IF Decided(t) THEN NoValue ELSE op[t]],
  answer <- [t \in Threads |-> IF Decided(t) THEN heap[seen[t]][op[t].key] ELSE result[t]]

(* Concurrent operations behave as one after the other: no insert or remove *)
(* undoes another, each returns the value it really replaced, and one that  *)
(* gives up has changed nothing.                                            *)
Linearizable == Atomic!Spec
=============================================================================
