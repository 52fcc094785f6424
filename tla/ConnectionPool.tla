--------------------------- MODULE ConnectionPool ---------------------------
(***************************************************************************)
(* The ConnectionPool of src/src/transport/pool.rs, an Arc-shared queue of *)
(* available connections, a map of all connections and counters, which     *)
(* tasks use through clones of the pool: the clones share queue, map and   *)
(* counters, while each has a connection_id_counter and an expansion       *)
(* factor of its own.                                                      *)
(*                                                                         *)
(* get_connection and return_connection take &self; smart_expand and       *)
(* try_shrink take &mut self, so they run on the clone of one task next to *)
(* the calls of the others.  A task returns only what it was given, once.  *)
(* Map and queue operations are atomic and succeed.  The state field of a  *)
(* connection is never read, so an entry of the map is just present.       *)
(***************************************************************************)
EXTENDS Naturals, Sequences, FiniteSets, Functions

CONSTANTS
  Tasks,
  Expanders,    \* the tasks whose clone expands and shrinks
  initial_size, max_size,
  MaxId,        \* bound: connection ids ever drawn from one counter
  Word          \* the counters count modulo this: 2^64 in the code

ASSUME ConnectionPoolAssumption ==
  /\ IsFiniteSet(Tasks) /\ Expanders \subseteq Tasks
  /\ initial_size \in Nat /\ max_size \in Nat /\ initial_size <= max_size
  /\ MaxId \in Nat /\ initial_size <= MaxId
  /\ Word \in Nat /\ max_size < Word

VARIABLES
  connections,  \* ids in the active_connections map
  queue,        \* available_connections
  total, available,  \* stats.total_connections, stats.available_connections
  counter,      \* connection_id_counter of each clone
  factor,       \* current_factor_index of each clone
  step, id,     \* where each task is, and the connection in its hands
  todo,         \* connections left to create or remove
  held          \* connections each task was given and has not returned

statVars == <<total, available>>
cloneVars == <<counter, factor>>
vars == <<connections, queue, statVars, cloneVars, step, id, todo, held>>

Ids == 0..(MaxId - 1)
NoId == MaxId
GetSteps == {"got", "acquire", "countGet"}
ReturnSteps == {"release", "push", "countReturn"}
ExpandSteps == {"create", "enqueue", "countCreate"}
ShrinkSteps == {"decided", "shrink", "remove", "countRemove"}

TypeOK ==
  /\ connections \subseteq Ids
  /\ queue \in Seq(Ids)
  /\ total \in 0..(Word - 1) /\ available \in 0..(Word - 1)
  /\ counter \in [Tasks -> initial_size..MaxId]
  /\ factor \in [Tasks -> 1..4]
  /\ step \in [Tasks -> {"idle"} \cup GetSteps \cup ReturnSteps
                         \cup ExpandSteps \cup ShrinkSteps]
  /\ id \in [Tasks -> Ids \cup {NoId}]
  /\ todo \in [Tasks -> 0..max_size]
  /\ held \in [Tasks -> SUBSET Ids]

\* initialize_pool, after which the pool is cloned for the tasks.
Init ==
  /\ connections = 0..(initial_size - 1)
  /\ queue = [i \in 1..initial_size |-> i - 1]
  /\ total = initial_size /\ available = initial_size
  /\ counter = [t \in Tasks |-> initial_size]
  /\ factor = [t \in Tasks |-> 1]
  /\ step = [t \in Tasks |-> "idle"] /\ id = [t \in Tasks |-> NoId]
  /\ todo = [t \in Tasks |-> 0]
  /\ held = [t \in Tasks |-> {}]

Goto(t, where) == step' = [step EXCEPT ![t] = where]
Hold(t, c) == id' = [id EXCEPT ![t] = c]
Increment(n) == (n + 1) % Word
Decrement(n) == (n + Word - 1) % Word

Pop(t, where) ==
  /\ queue # <<>>
  /\ queue' = Tail(queue)
  /\ Hold(t, Head(queue)) /\ Goto(t, where)

Push(t) == queue' = Append(queue, id[t])

-----------------------------------------------------------------------------
(* get_connection                                                          *)

\* With an empty queue the call returns an error and changes nothing.
GetPop(t) ==
  /\ step[t] = "idle"
  /\ Pop(t, "got")
  /\ UNCHANGED <<connections, statVars, cloneVars, todo, held>>

\* A connection that is not in the map is dropped.
GetLookup(t) ==
  /\ step[t] = "got"
  /\ IF id[t] \in connections
     THEN Goto(t, "acquire") /\ UNCHANGED id
     ELSE Goto(t, "idle") /\ Hold(t, NoId)
  /\ UNCHANGED <<connections, queue, statVars, cloneVars, todo, held>>

GetStore(t) ==
  /\ step[t] = "acquire"
  /\ connections' = connections \cup {id[t]}
  /\ Goto(t, "countGet")
  /\ UNCHANGED <<queue, statVars, cloneVars, id, todo, held>>

GetCount(t) ==
  /\ step[t] = "countGet"
  /\ available' = Decrement(available)
  /\ held' = [held EXCEPT ![t] = @ \cup {id[t]}]
  /\ Goto(t, "idle") /\ Hold(t, NoId)
  /\ UNCHANGED <<connections, queue, total, cloneVars, todo>>

-----------------------------------------------------------------------------
(* return_connection                                                       *)

Return(t, c) ==
  /\ step[t] = "idle" /\ c \in held[t]
  /\ held' = [held EXCEPT ![t] = @ \ {c}]
  /\ IF c \in connections
     THEN Goto(t, "release") /\ Hold(t, c)
     ELSE UNCHANGED <<step, id>>
  /\ UNCHANGED <<connections, queue, statVars, cloneVars, todo>>

ReturnStore(t) ==
  /\ step[t] = "release"
  /\ connections' = connections \cup {id[t]}
  /\ Goto(t, "push")
  /\ UNCHANGED <<queue, statVars, cloneVars, id, todo, held>>

\* Mutant: an error path puts the connection back once more.
ReturnPushTwice(t) ==
  /\ step[t] = "push"
  /\ queue' = Append(Append(queue, id[t]), id[t])
  /\ Goto(t, "countReturn") /\ Hold(t, NoId)
  /\ UNCHANGED <<connections, statVars, cloneVars, todo, held>>

\* From here on others can get the connection, before it is counted.
ReturnPush(t) ==
  /\ step[t] = "push"
  /\ Push(t)
  /\ Goto(t, "countReturn") /\ Hold(t, NoId)
  /\ UNCHANGED <<connections, statVars, cloneVars, todo, held>>

ReturnCount(t) ==
  /\ step[t] = "countReturn"
  /\ available' = Increment(available)
  /\ Goto(t, "idle")
  /\ UNCHANGED <<connections, queue, total, cloneVars, id, todo, held>>

-----------------------------------------------------------------------------
(* smart_expand, try_expand, force_expand                                   *)

\* The factors 2.0, 1.5, 1.2, 1.1 in tenths.
Factors == <<20, 15, 12, 11>>

NewSize(t) == (total * Factors[factor[t]]) \div 10

\* Connections in use, as the code computes them from two counters of which the
\* second may have wrapped.
InUse == (total + Word - available) % Word

\* Mutant: the limit is not checked.
ExpandUnlimited(t, forced) ==
  /\ step[t] = "idle" /\ t \in Expanders
  /\ forced \/ (total > 0 /\ InUse * 10 >= total * 8)
  /\ counter[t] + NewSize(t) - total <= MaxId
  /\ todo' = [todo EXCEPT ![t] = NewSize(t) - total]
  /\ Goto(t, "create")
  /\ UNCHANGED <<connections, queue, statVars, cloneVars, id, held>>

\* The decision, from counters read once.  Below the threshold, and above
\* max_size, the call returns and changes nothing.
Expand(t, forced) ==
  /\ step[t] = "idle" /\ t \in Expanders
  /\ forced \/ (total > 0 /\ InUse * 10 >= total * 8)
  /\ NewSize(t) <= max_size
  /\ counter[t] + NewSize(t) - total <= MaxId
  /\ todo' = [todo EXCEPT ![t] = NewSize(t) - total]
  /\ Goto(t, "create")
  /\ UNCHANGED <<connections, queue, statVars, cloneVars, id, held>>

CreateConnection(t) ==
  /\ step[t] = "create" /\ todo[t] > 0
  /\ Hold(t, counter[t])
  /\ counter' = [counter EXCEPT ![t] = @ + 1]
  /\ connections' = connections \cup {counter[t]}
  /\ Goto(t, "enqueue")
  /\ UNCHANGED <<queue, statVars, factor, todo, held>>

EnqueueConnection(t) ==
  /\ step[t] = "enqueue"
  /\ Push(t)
  /\ Goto(t, "countCreate") /\ Hold(t, NoId)
  /\ UNCHANGED <<connections, statVars, cloneVars, todo, held>>

CountCreated(t) ==
  /\ step[t] = "countCreate"
  /\ total' = Increment(total) /\ available' = Increment(available)
  /\ todo' = [todo EXCEPT ![t] = @ - 1]
  /\ Goto(t, "create")
  /\ UNCHANGED <<connections, queue, cloneVars, id, held>>

AdvanceFactor(t) ==
  /\ step[t] = "create" /\ todo[t] = 0
  /\ factor' = [factor EXCEPT ![t] = IF @ < Len(Factors) THEN @ + 1 ELSE @]
  /\ Goto(t, "idle")
  /\ UNCHANGED <<connections, queue, statVars, counter, id, todo, held>>

-----------------------------------------------------------------------------
(* try_shrink                                                              *)

\* utilization() computes in floating point: a wrapped counter gives a negative
\* number, which is below the threshold as well.
Shrink(t) ==
  /\ step[t] = "idle" /\ t \in Expanders
  /\ available > total \/ total = 0 \/ (total - available) * 10 <= total * 3
  /\ Goto(t, "decided")
  /\ UNCHANGED <<connections, queue, statVars, cloneVars, id, todo, held>>

Larger(m, n) == IF m > n THEN m ELSE n
Smaller(m, n) == IF m < n THEN m ELSE n

\* The counters are read again.
ShrinkCount(t) ==
  LET target == Larger((total * 8) \div 10, initial_size)
  IN  /\ step[t] = "decided"
      /\ IF total <= initial_size \/ target >= total
         THEN Goto(t, "idle") /\ UNCHANGED todo
         ELSE /\ todo' = [todo EXCEPT ![t] = Smaller(total - target, available)]
              /\ Goto(t, "shrink")
      /\ UNCHANGED <<connections, queue, statVars, cloneVars, id, held>>

ShrinkPop(t) ==
  /\ step[t] = "shrink" /\ todo[t] > 0
  /\ todo' = [todo EXCEPT ![t] = @ - 1]
  /\ Pop(t, "remove") \/ (queue = <<>> /\ UNCHANGED <<queue, step, id>>)
  /\ UNCHANGED <<connections, statVars, cloneVars, held>>

ShrinkRemove(t) ==
  /\ step[t] = "remove"
  /\ connections' = connections \ {id[t]}
  /\ Goto(t, "countRemove") /\ Hold(t, NoId)
  /\ UNCHANGED <<queue, statVars, cloneVars, todo, held>>

\* Mutant: only the available connections are counted down.
ShrinkCountAvailable(t) ==
  /\ step[t] = "countRemove"
  /\ available' = Decrement(available)
  /\ Goto(t, "shrink")
  /\ UNCHANGED <<connections, queue, total, cloneVars, id, todo, held>>

CountRemoved(t) ==
  /\ step[t] = "countRemove"
  /\ total' = Decrement(total) /\ available' = Decrement(available)
  /\ Goto(t, "shrink")
  /\ UNCHANGED <<connections, queue, cloneVars, id, todo, held>>

ShrinkDone(t) ==
  /\ step[t] = "shrink" /\ todo[t] = 0
  /\ Goto(t, "idle")
  /\ UNCHANGED <<connections, queue, statVars, cloneVars, id, todo, held>>

-----------------------------------------------------------------------------
Next ==
  \E t \in Tasks :
    \/ GetPop(t) \/ GetLookup(t) \/ GetStore(t) \/ GetCount(t)
    \/ \E c \in Ids : Return(t, c)
    \/ ReturnStore(t) \/ ReturnPush(t) \/ ReturnCount(t)
    \/ \E forced \in BOOLEAN : Expand(t, forced)
    \/ CreateConnection(t) \/ EnqueueConnection(t) \/ CountCreated(t) \/ AdvanceFactor(t)
    \/ Shrink(t) \/ ShrinkCount(t) \/ ShrinkPop(t) \/ ShrinkRemove(t)
    \/ CountRemoved(t) \/ ShrinkDone(t)

Spec == Init /\ [][Next]_vars

-----------------------------------------------------------------------------
(* Properties                                                              *)

InHand(t) == IF id[t] = NoId THEN {} ELSE {id[t]}

(* No connection is handed out twice, and none is lost: each connection is  *)
(* queued once, or in the hands of one running call, or held by one task,   *)
(* and these are exactly the connections of the map, except that a shrink   *)
(* still has one in hand that it is about to remove.                        *)
Accounted ==
  /\ \A i, j \in DOMAIN queue : queue[i] = queue[j] => i = j
  /\ \A t \in Tasks : (held[t] \cup InHand(t)) \cap Range(queue) = {}
  /\ \A t, u \in Tasks :
       t # u => (held[t] \cup InHand(t)) \cap (held[u] \cup InHand(u)) = {}
  /\ \A t \in Tasks : held[t] \cap InHand(t) = {}
  /\ connections = Range(queue) \cup UNION {held[t] \cup InHand(t) : t \in Tasks}

(* With no call under way the counters tell the truth, whatever overlapped  *)
(* and even if one of them had wrapped in between.                          *)
StatsAgree ==
  (\A t \in Tasks : step[t] = "idle") =>
    total = Cardinality(connections) /\ available = Len(queue)

(* The pool never holds more connections than max_size, nor fewer than it   *)
(* was created with.                                                        *)
WithinLimits == Cardinality(connections) \in initial_size..max_size

(* All three, which hold as long as one clone expands and shrinks.          *)
PoolConsistent == Accounted /\ StatsAgree /\ WithinLimits
=============================================================================
