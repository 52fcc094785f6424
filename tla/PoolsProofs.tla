---------------------------- MODULE PoolsProofs ----------------------------
(***************************************************************************)
(* Proofs about the pools of MCResources and the queue they are built on,  *)
(* for any finite set of tasks, all limits, and every width of the         *)
(* counters.  ConnectionPool: as long as one clone of the pool expands and *)
(* shrinks it, no connection is lost or handed out twice, the limits hold, *)
(* and at rest the counters are right, even if one of them has wrapped in  *)
(* between.  LockFreeQueue and MemoryPool: counters differ from what they  *)
(* count by the calls under way, and limits are exceeded only by returns   *)
(* that checked them at the same time.                                     *)
(***************************************************************************)
EXTENDS MCResources, Integers, FiniteSetTheorems, SequenceTheorems, TLAPS

\* The operations with &mut self run on one clone: ids are drawn from one counter.
OneExpander == \A t, u \in Expanders : t = u

-----------------------------------------------------------------------------
(* The inductive invariant                                                 *)

HandSteps == {"got", "acquire", "countGet", "release", "push", "enqueue", "remove"}

(* A task has a connection in hand in these steps only, and only expanders  *)
(* change the set of connections.                                           *)
StepInv ==
  \A t \in Tasks :
    /\ step[t] \in HandSteps <=> id[t] # NoId
    /\ step[t] \in ExpandSteps \cup ShrinkSteps => t \in Expanders

(* Each connection has one owner: a place in the queue, a call, or a task.  *)
OwnerInv ==
  /\ \A i, j \in 1..Len(queue) : queue[i] = queue[j] => i = j
  /\ \A i \in 1..Len(queue) :
       queue[i] \in connections /\ \A t \in Tasks : queue[i] # id[t] /\ queue[i] \notin held[t]
  /\ \A t \in Tasks : held[t] \subseteq connections /\ (id[t] # NoId => id[t] \in connections)
  /\ \A t, u \in Tasks :
       /\ id[t] \notin held[u]
       /\ t # u => held[t] \cap held[u] = {} /\ (id[t] # NoId => id[t] # id[u])
  /\ \A c \in connections :
       \/ \E i \in 1..Len(queue) : queue[i] = c
       \/ \E t \in Tasks : c \in held[t] \/ id[t] = c

(* The next id is new, and there is one for each connection to come.        *)
FreshInv ==
  \A e \in Expanders :
    /\ \A c \in connections : c < counter[e]
    /\ step[e] = "create" => counter[e] + todo[e] <= MaxId
    /\ step[e] \in {"enqueue", "countCreate"} => todo[e] > 0 /\ counter[e] + todo[e] - 1 <= MaxId

(* Connections that are in the map, or no longer, but not counted yet.      *)
Uncounted == IF \E t \in Tasks : step[t] \in {"enqueue", "countCreate"} THEN 1 ELSE 0
Overcounted == IF \E t \in Tasks : step[t] = "countRemove" THEN 1 ELSE 0

(* total is exact but for these, and an expander keeps within the limits    *)
(* with all that it has decided to do.                                      *)
TotalInv ==
  /\ IsFiniteSet(connections)
  /\ Cardinality(connections) \in initial_size..max_size
  /\ total = Cardinality(connections) - Uncounted + Overcounted
  /\ \A e \in Expanders :
       /\ step[e] = "create" => Cardinality(connections) + todo[e] <= max_size
       /\ step[e] \in {"enqueue", "countCreate"} => Cardinality(connections) + todo[e] - 1 <= max_size
       /\ step[e] \in {"shrink", "countRemove"} => Cardinality(connections) - todo[e] >= initial_size
       /\ step[e] = "remove" => Cardinality(connections) - todo[e] - 1 >= initial_size

\* Calls that took a connection out of the queue, or put one in, and have not
\* counted it yet.
TookSteps == {"got", "acquire", "countGet", "remove", "countRemove"}
GaveSteps == {"countReturn", "countCreate"}
At(where, S) == Cardinality({t \in Tasks : where[t] \in S})
Counted == Len(queue) + At(step, TookSteps) - At(step, GaveSteps)

(* available is what has been counted, up to how often it has wrapped.      *)
AvailableInv == \E k \in Int : available = Counted + k * Word

IInv == TypeOK /\ StepInv /\ OwnerInv /\ FreshInv /\ TotalInv /\ AvailableInv

-----------------------------------------------------------------------------
(* Lemmas about sequences and counters                                     *)

LEMMA Appended ==
  ASSUME NEW S, NEW s \in Seq(S), NEW e \in S
  PROVE  /\ Append(s, e) \in Seq(S) /\ Len(s) \in Nat
         /\ Len(Append(s, e)) = Len(s) + 1
         /\ \A i \in 1..Len(s) : Append(s, e)[i] = s[i]
         /\ Append(s, e)[Len(s) + 1] = e
OBVIOUS

LEMMA Dequeued ==
  ASSUME NEW S, NEW s \in Seq(S), s # <<>>
  PROVE  /\ Tail(s) \in Seq(S) /\ Head(s) \in S
         /\ Len(s) \in Nat /\ Len(s) >= 1 /\ Len(Tail(s)) = Len(s) - 1
         /\ \A i \in 1..(Len(s) - 1) : Tail(s)[i] = s[i + 1]
         /\ Head(s) = s[1]
OBVIOUS

LEMMA Counting ==
  ASSUME NEW n \in 0..(Word - 1)
  PROVE  /\ Increment(n) = IF n + 1 = Word THEN 0 ELSE n + 1
         /\ Decrement(n) = IF n = 0 THEN Word - 1 ELSE n - 1
         /\ Increment(n) \in 0..(Word - 1) /\ Decrement(n) \in 0..(Word - 1)
<1>1. Word \in Nat \ {0}
  BY ConnectionPoolAssumption
<1>2. Increment(n) = IF n + 1 = Word THEN 0 ELSE n + 1
  BY <1>1 DEF Increment
<1>3. Decrement(n) = IF n = 0 THEN Word - 1 ELSE n - 1
  BY <1>1 DEF Decrement
<1> QED
  BY <1>1, <1>2, <1>3

(* Counters that agree up to wrapping keep agreeing.                        *)
LEMMA CountingWraps ==
  ASSUME NEW n \in 0..(Word - 1), NEW m \in Int, NEW k \in Int, n = m + k * Word
  PROVE  /\ \E j \in Int : Increment(n) = m + 1 + j * Word
         /\ \E j \in Int : Decrement(n) = m - 1 + j * Word
<1>1. Word \in Nat \ {0}
  BY ConnectionPoolAssumption
<1>2. /\ k * Word + Word = (k + 1) * Word /\ k * Word - Word = (k - 1) * Word
      /\ k * Word \in Int
  BY <1>1
<1>3. \E j \in Int : Increment(n) = m + 1 + j * Word
  <2>1. CASE n + 1 = Word
    <3>1. Increment(n) = m + 1 + (k - 1) * Word
      BY <1>1, <1>2, <2>1, Counting
    <3> QED
      BY <3>1
  <2>2. CASE n + 1 # Word
    <3>1. Increment(n) = m + 1 + k * Word
      BY <1>1, <1>2, <2>2, Counting
    <3> QED
      BY <3>1
  <2> QED
    BY <2>1, <2>2
<1>4. \E j \in Int : Decrement(n) = m - 1 + j * Word
  <2>1. CASE n = 0
    <3>1. Decrement(n) = m - 1 + (k + 1) * Word
      BY <1>1, <1>2, <2>1, Counting
    <3> QED
      BY <3>1
  <2>2. CASE n # 0
    <3>1. Decrement(n) = m - 1 + k * Word
      BY <1>1, <1>2, <2>2, Counting
    <3> QED
      BY <3>1
  <2> QED
    BY <2>1, <2>2
<1> QED
  BY <1>3, <1>4

-----------------------------------------------------------------------------
(* The initial state                                                       *)

LEMMA NoIdIsNone == NoId \notin Ids
BY ConnectionPoolAssumption DEF NoId, Ids

LEMMA InitInv == ASSUME Init PROVE IInv
<1> USE ConnectionPoolAssumption
<1>1. /\ queue = [i \in 1..initial_size |-> i - 1] /\ queue \in Seq(Ids)
      /\ Len(queue) = initial_size
  BY DEF Init, Ids
<1>2. /\ connections \subseteq Ids /\ IsFiniteSet(connections)
      /\ Cardinality(connections) = initial_size
  <2>1. connections = 0..(initial_size - 1)
    BY DEF Init
  <2>2. connections \subseteq Ids
    BY <2>1 DEF Ids
  <2> QED
    BY <2>1, <2>2, FS_Interval
<1>3. TypeOK
  BY <1>1, <1>2 DEF Init, TypeOK
<1>4. StepInv
  BY DEF Init, StepInv, HandSteps, ExpandSteps, ShrinkSteps
<1>5. OwnerInv
  <2>1. \A c \in connections : c + 1 \in 1..Len(queue) /\ queue[c + 1] = c
    BY <1>1 DEF Init
  <2>2. \A i \in 1..Len(queue) : queue[i] = i - 1 /\ queue[i] \in connections /\ queue[i] # NoId
    BY <1>1 DEF Init, NoId
  <2>3. \A t \in Tasks : held[t] = {} /\ id[t] = NoId
    BY DEF Init
  <2> QED
    BY <1>1, <2>1, <2>2, <2>3 DEF OwnerInv
<1>6. FreshInv
  BY DEF Init, FreshInv
<1>7. TotalInv
  <2>1. Uncounted = 0 /\ Overcounted = 0
    BY DEF Init, Uncounted, Overcounted
  <2> QED
    BY <1>2, <2>1 DEF Init, TotalInv
<1>8. AvailableInv
  <2>1. /\ {t \in Tasks : step[t] \in TookSteps} = {}
        /\ {t \in Tasks : step[t] \in GaveSteps} = {}
    BY DEF Init, TookSteps, GaveSteps
  <2>2. At(step, TookSteps) = 0 /\ At(step, GaveSteps) = 0
    BY <2>1, FS_EmptySet DEF At
  <2>3. available = Counted + 0 * Word
    BY <1>1, <2>2 DEF Init, Counted
  <2> SUFFICES \E k \in Int : available = Counted + k * Word
    BY DEF AvailableInv
  <2> WITNESS 0 \in Int
  <2> QED
    BY <2>3
<1> QED
  BY <1>3, <1>4, <1>5, <1>6, <1>7, <1>8 DEF IInv

-----------------------------------------------------------------------------
(* Types                                                                   *)

(* An expander that decides sees an exact total, for nobody else adds or    *)
(* removes.                                                                 *)
LEMMA TotalExact ==
  ASSUME OneExpander, TypeOK, StepInv, TotalInv, NEW t \in Expanders,
         step[t] \notin {"enqueue", "countCreate", "countRemove"}
  PROVE  total = Cardinality(connections) /\ total <= max_size /\ initial_size <= total
<1>1. \A u \in Tasks : step[u] \notin {"enqueue", "countCreate", "countRemove"}
  BY DEF OneExpander, StepInv, ExpandSteps, ShrinkSteps
<1>2. Uncounted = 0 /\ Overcounted = 0
  BY <1>1 DEF Uncounted, Overcounted
<1>3. Cardinality(connections) \in Nat
  BY FS_CardinalityType DEF TotalInv
<1> QED
  BY <1>2, <1>3, ConnectionPoolAssumption DEF TotalInv

LEMMA NewSizeType ==
  ASSUME TypeOK, NEW t \in Tasks
  PROVE  NewSize(t) \in Nat /\ NewSize(t) >= total
<1>1. factor[t] \in {1, 2, 3, 4} /\ total \in Nat
  BY ConnectionPoolAssumption DEF TypeOK
<1>2. Factors[factor[t]] \in {20, 15, 12, 11}
  BY <1>1 DEF Factors
<1> QED
  BY <1>1, <1>2 DEF NewSize

LEMMA TypeStep ==
  ASSUME OneExpander, IInv, Next
  PROVE  TypeOK'
<1> USE DEF IInv
<1>0. PICK t \in Tasks :
    \/ GetPop(t) \/ GetLookup(t) \/ GetStore(t) \/ GetCount(t)
    \/ \E c \in Ids : Return(t, c)
    \/ ReturnStore(t) \/ ReturnPush(t) \/ ReturnCount(t)
    \/ \E forced \in BOOLEAN : Expand(t, forced)
    \/ CreateConnection(t) \/ EnqueueConnection(t) \/ CountCreated(t) \/ AdvanceFactor(t)
    \/ Shrink(t) \/ ShrinkCount(t) \/ ShrinkPop(t) \/ ShrinkRemove(t)
    \/ CountRemoved(t) \/ ShrinkDone(t)
  BY DEF Next
<1>a. /\ queue # <<>> => Tail(queue) \in Seq(Ids) /\ Head(queue) \in Ids
      /\ id[t] # NoId => id[t] \in Ids
      /\ id[t] \in Ids => Append(queue, id[t]) \in Seq(Ids)
  BY Dequeued, Appended DEF TypeOK
<1>b. /\ Increment(total) \in 0..(Word - 1) /\ Decrement(total) \in 0..(Word - 1)
      /\ Increment(available) \in 0..(Word - 1) /\ Decrement(available) \in 0..(Word - 1)
  BY Counting DEF TypeOK
<1>c. step[t] \in HandSteps => id[t] \in Ids
  BY <1>a DEF StepInv
<1>d. MaxId \in Nat /\ max_size \in Nat /\ initial_size \in Nat
  BY ConnectionPoolAssumption
<1>1. CASE GetPop(t)
  BY <1>1, <1>a DEF TypeOK, GetPop, Pop, Goto, Hold, GetSteps, statVars, cloneVars
<1>2. CASE GetLookup(t)
  BY <1>2 DEF TypeOK, GetLookup, Goto, Hold, GetSteps, statVars, cloneVars
<1>3. CASE GetStore(t)
  BY <1>3, <1>c DEF TypeOK, GetStore, Goto, GetSteps, HandSteps, statVars, cloneVars
<1>4. CASE GetCount(t)
  BY <1>4, <1>b, <1>c DEF TypeOK, GetCount, Goto, Hold, HandSteps, statVars, cloneVars
<1>5. CASE \E c \in Ids : Return(t, c)
  BY <1>5 DEF TypeOK, Return, Goto, Hold, ReturnSteps, statVars, cloneVars
<1>6. CASE ReturnStore(t)
  BY <1>6, <1>c DEF TypeOK, ReturnStore, Goto, ReturnSteps, HandSteps, statVars, cloneVars
<1>7. CASE ReturnPush(t)
  BY <1>7, <1>a, <1>c DEF TypeOK, ReturnPush, Push, Goto, Hold, ReturnSteps, HandSteps, statVars, cloneVars
<1>8. CASE ReturnCount(t)
  BY <1>8, <1>b DEF TypeOK, ReturnCount, Goto, statVars, cloneVars
<1>9. CASE \E forced \in BOOLEAN : Expand(t, forced)
  <2>1. NewSize(t) - total \in 0..max_size
    <3>1. NewSize(t) <= max_size
      BY <1>9 DEF Expand
    <3>2. NewSize(t) \in Nat /\ NewSize(t) >= total /\ total \in Nat
      BY NewSizeType, ConnectionPoolAssumption DEF TypeOK
    <3> QED
      BY <1>d, <3>1, <3>2
  <2> QED
    BY <1>9, <2>1 DEF TypeOK, Expand, Goto, ExpandSteps, statVars, cloneVars
<1>10. CASE CreateConnection(t)
  <2>1. t \in Expanders
    BY <1>10 DEF CreateConnection, StepInv, ExpandSteps
  <2>2. counter[t] \in Ids /\ counter[t] + 1 \in initial_size..MaxId
    BY <1>10, <1>d, <2>1 DEF CreateConnection, FreshInv, TypeOK, Ids
  <2> QED
    BY <1>10, <2>2 DEF TypeOK, CreateConnection, Goto, Hold, ExpandSteps, statVars
<1>11. CASE EnqueueConnection(t)
  BY <1>11, <1>a, <1>c DEF TypeOK, EnqueueConnection, Push, Goto, Hold, ExpandSteps, HandSteps, statVars, cloneVars
<1>12. CASE CountCreated(t)
  <2>1. t \in Expanders
    BY <1>12 DEF CountCreated, StepInv, ExpandSteps
  <2>2. todo[t] - 1 \in 0..max_size
    BY <1>12, <1>d, <2>1 DEF CountCreated, FreshInv, TypeOK
  <2> QED
    BY <1>12, <1>b, <2>2 DEF TypeOK, CountCreated, Goto, ExpandSteps, cloneVars
<1>13. CASE AdvanceFactor(t)
  <2>1. Len(Factors) = 4
    BY DEF Factors
  <2> QED
    BY <1>13, <2>1 DEF TypeOK, AdvanceFactor, Goto, statVars
<1>14. CASE Shrink(t)
  BY <1>14 DEF TypeOK, Shrink, Goto, ShrinkSteps, statVars, cloneVars
<1>15. CASE ShrinkCount(t)
  <2>1. t \in Expanders /\ step[t] = "decided"
    BY <1>15 DEF ShrinkCount, StepInv, ShrinkSteps
  <2>2. total <= max_size
    BY <2>1, TotalExact
  <2> DEFINE target == Larger((total * 8) \div 10, initial_size)
  <2>3. total \in Nat /\ available \in Nat /\ target \in Nat
    BY <1>d, ConnectionPoolAssumption DEF TypeOK, Larger
  <2>4. target < total => Smaller(total - target, available) \in 0..max_size
    BY <1>d, <2>2, <2>3 DEF Smaller
  <2>5. todo' = todo \/ (target < total /\ todo' = [todo EXCEPT ![t] = Smaller(total - target, available)])
    BY <1>15, <1>d, <2>3 DEF ShrinkCount
  <2>6. todo' \in [Tasks -> 0..max_size]
    BY <2>4, <2>5 DEF TypeOK
  <2> QED
    BY <1>15, <2>6 DEF TypeOK, ShrinkCount, Goto, ShrinkSteps, statVars, cloneVars
<1>16. CASE ShrinkPop(t)
  <2>1. todo[t] - 1 \in 0..max_size
    BY <1>16, <1>d DEF ShrinkPop, TypeOK
  <2> QED
    BY <1>16, <1>a, <2>1 DEF TypeOK, ShrinkPop, Pop, Goto, Hold, ShrinkSteps, statVars, cloneVars
<1>17. CASE ShrinkRemove(t)
  BY <1>17 DEF TypeOK, ShrinkRemove, Goto, Hold, ShrinkSteps, statVars, cloneVars
<1>18. CASE CountRemoved(t)
  BY <1>18, <1>b DEF TypeOK, CountRemoved, Goto, ShrinkSteps, cloneVars
<1>19. CASE ShrinkDone(t)
  BY <1>19 DEF TypeOK, ShrinkDone, Goto, statVars, cloneVars
<1> QED
  BY <1>0, <1>1, <1>2, <1>3, <1>4, <1>5, <1>6, <1>7, <1>8, <1>9, <1>10, <1>11, <1>12,
     <1>13, <1>14, <1>15, <1>16, <1>17, <1>18, <1>19

-----------------------------------------------------------------------------
(* Steps                                                                   *)

LEMMA StepStep ==
  ASSUME IInv, Next
  PROVE  StepInv'
<1> USE DEF IInv
<1>0. PICK t \in Tasks :
    \/ GetPop(t) \/ GetLookup(t) \/ GetStore(t) \/ GetCount(t)
    \/ \E c \in Ids : Return(t, c)
    \/ ReturnStore(t) \/ ReturnPush(t) \/ ReturnCount(t)
    \/ \E forced \in BOOLEAN : Expand(t, forced)
    \/ CreateConnection(t) \/ EnqueueConnection(t) \/ CountCreated(t) \/ AdvanceFactor(t)
    \/ Shrink(t) \/ ShrinkCount(t) \/ ShrinkPop(t) \/ ShrinkRemove(t)
    \/ CountRemoved(t) \/ ShrinkDone(t)
  BY DEF Next
<1>1. /\ \A u \in Tasks : u # t => step'[u] = step[u] /\ id'[u] = id[u]
      /\ step'[t] \in HandSteps <=> id'[t] # NoId
      /\ step'[t] \in ExpandSteps \cup ShrinkSteps => t \in Expanders
  <2> USE DEF StepInv, HandSteps, ExpandSteps, ShrinkSteps, Goto, Hold, TypeOK
  <2>a. queue # <<>> => Head(queue) \in Ids
    BY Dequeued
  <2>1. CASE GetPop(t) \/ ShrinkPop(t)
    BY <2>1, <2>a, NoIdIsNone DEF GetPop, ShrinkPop, Pop
  <2>2. CASE GetLookup(t) \/ GetStore(t) \/ GetCount(t)
    BY <2>2 DEF GetLookup, GetStore, GetCount
  <2>3. CASE \E c \in Ids : Return(t, c)
    BY <2>3, NoIdIsNone DEF Return
  <2>4. CASE ReturnStore(t) \/ ReturnPush(t) \/ ReturnCount(t)
    BY <2>4 DEF ReturnStore, ReturnPush, ReturnCount
  <2>5. CASE (\E forced \in BOOLEAN : Expand(t, forced)) \/ Shrink(t) \/ ShrinkCount(t)
    BY <2>5 DEF Expand, Shrink, ShrinkCount
  <2>6. CASE CreateConnection(t)
    <3>1. t \in Expanders
      BY <2>6 DEF CreateConnection
    <3>2. counter[t] # NoId
      BY <2>6, <3>1, ConnectionPoolAssumption DEF CreateConnection, FreshInv, NoId
    <3> QED
      BY <2>6, <3>1, <3>2 DEF CreateConnection
  <2>7. CASE EnqueueConnection(t) \/ CountCreated(t) \/ AdvanceFactor(t)
    BY <2>7 DEF EnqueueConnection, CountCreated, AdvanceFactor
  <2>8. CASE ShrinkRemove(t) \/ CountRemoved(t) \/ ShrinkDone(t)
    BY <2>8 DEF ShrinkRemove, CountRemoved, ShrinkDone
  <2> QED
    BY <1>0, <2>1, <2>2, <2>3, <2>4, <2>5, <2>6, <2>7, <2>8
<1> QED
  BY <1>1 DEF StepInv

-----------------------------------------------------------------------------
(* Owners                                                                  *)

(* What a step may do with the connections.                                 *)
Kept == UNCHANGED <<connections, queue, held, id>>

Popped(t) ==
  /\ queue # <<>> /\ queue' = Tail(queue)
  /\ id[t] = NoId /\ id' = [id EXCEPT ![t] = Head(queue)]
  /\ UNCHANGED <<connections, held>>

Given(t) ==
  /\ id[t] # NoId /\ id' = [id EXCEPT ![t] = NoId]
  /\ held' = [held EXCEPT ![t] = @ \cup {id[t]}]
  /\ UNCHANGED <<connections, queue>>

Returned(t, c) ==
  /\ c \in held[t] /\ held' = [held EXCEPT ![t] = @ \ {c}]
  /\ id[t] = NoId /\ id' = [id EXCEPT ![t] = c]
  /\ UNCHANGED <<connections, queue>>

Pushed(t) ==
  /\ id[t] # NoId /\ id' = [id EXCEPT ![t] = NoId]
  /\ queue' = Append(queue, id[t])
  /\ UNCHANGED <<connections, held>>

Created(t) ==
  /\ connections' = connections \cup {counter[t]} /\ counter[t] \in Ids \ connections
  /\ id[t] = NoId /\ id' = [id EXCEPT ![t] = counter[t]]
  /\ UNCHANGED <<queue, held>>

Removed(t) ==
  /\ id[t] # NoId /\ id' = [id EXCEPT ![t] = NoId]
  /\ connections' = connections \ {id[t]}
  /\ UNCHANGED <<queue, held>>

(* No step does anything else: a connection that a call has in hand or that *)
(* a task holds is in the map, so it is neither dropped nor stored anew.    *)
LEMMA Effects ==
  ASSUME IInv, Next
  PROVE  \/ Kept
         \/ \E t \in Tasks :
              \/ Popped(t) \/ Given(t) \/ \E c \in Ids : Returned(t, c)
              \/ Pushed(t) \/ Created(t) \/ Removed(t)
<1> USE DEF IInv
<1>0. PICK t \in Tasks :
    \/ GetPop(t) \/ GetLookup(t) \/ GetStore(t) \/ GetCount(t)
    \/ \E c \in Ids : Return(t, c)
    \/ ReturnStore(t) \/ ReturnPush(t) \/ ReturnCount(t)
    \/ \E forced \in BOOLEAN : Expand(t, forced)
    \/ CreateConnection(t) \/ EnqueueConnection(t) \/ CountCreated(t) \/ AdvanceFactor(t)
    \/ Shrink(t) \/ ShrinkCount(t) \/ ShrinkPop(t) \/ ShrinkRemove(t)
    \/ CountRemoved(t) \/ ShrinkDone(t)
  BY DEF Next
<1> USE DEF Goto, Hold
<1>a. step[t] \in HandSteps <=> id[t] # NoId
  BY DEF StepInv
<1>b. id[t] # NoId => id[t] \in connections
  BY DEF OwnerInv
<1>1. CASE GetPop(t) \/ ShrinkPop(t)
  <2>1. Popped(t) \/ Kept
    BY <1>1, <1>a DEF GetPop, ShrinkPop, Pop, Popped, Kept, HandSteps
  <2> QED
    BY <2>1
<1>2. CASE GetLookup(t) \/ GetStore(t) \/ ReturnStore(t)
  <2>1. id[t] \in connections
    BY <1>2, <1>a, <1>b DEF GetLookup, GetStore, ReturnStore, HandSteps
  <2>2. connections \cup {id[t]} = connections
    BY <2>1
  <2>3. Kept
    BY <1>2, <2>1, <2>2 DEF GetLookup, GetStore, ReturnStore, Kept
  <2> QED
    BY <2>3
<1>3. CASE GetCount(t)
  <2>1. Given(t)
    BY <1>3, <1>a DEF GetCount, Given, HandSteps
  <2> QED
    BY <2>1
<1>4. CASE \E c \in Ids : Return(t, c)
  <2>1. PICK c \in Ids : Return(t, c)
    BY <1>4
  <2>2. c \in connections
    BY <2>1 DEF Return, OwnerInv
  <2>3. Returned(t, c)
    BY <2>1, <2>2, <1>a DEF Return, Returned, HandSteps
  <2> QED
    BY <2>3
<1>5. CASE ReturnPush(t) \/ EnqueueConnection(t)
  <2>1. Pushed(t)
    BY <1>5, <1>a DEF ReturnPush, EnqueueConnection, Push, Pushed, HandSteps
  <2> QED
    BY <2>1
<1>6. CASE CreateConnection(t)
  <2>1. t \in Expanders
    BY <1>6 DEF CreateConnection, StepInv, ExpandSteps
  <2>2. counter[t] \in Ids
    BY <1>6, <2>1, ConnectionPoolAssumption DEF CreateConnection, FreshInv, TypeOK, Ids
  <2>3. counter[t] \notin connections
    <3>1. \A c \in connections : c < counter[t]
      BY <2>1 DEF FreshInv
    <3>2. counter[t] \in Int
      BY <2>2 DEF Ids
    <3> QED
      BY <3>1, <3>2
  <2>4. Created(t)
    BY <1>6, <1>a, <2>2, <2>3 DEF CreateConnection, Created, HandSteps
  <2> QED
    BY <2>4
<1>7. CASE ShrinkRemove(t)
  <2>1. Removed(t)
    BY <1>7, <1>a DEF ShrinkRemove, Removed, HandSteps
  <2> QED
    BY <2>1
<1>8. CASE ReturnCount(t) \/ (\E forced \in BOOLEAN : Expand(t, forced)) \/ CountCreated(t)
           \/ AdvanceFactor(t) \/ Shrink(t) \/ ShrinkCount(t) \/ CountRemoved(t) \/ ShrinkDone(t)
  BY <1>8 DEF Kept, ReturnCount, Expand, CountCreated, AdvanceFactor, Shrink, ShrinkCount,
              CountRemoved, ShrinkDone
<1> QED
  BY <1>0, <1>1, <1>2, <1>3, <1>4, <1>5, <1>6, <1>7, <1>8

LEMMA OwnerPopped ==
  ASSUME TypeOK, OwnerInv, NEW t \in Tasks, Popped(t)
  PROVE  OwnerInv'
<1> DEFINE n == Len(queue)
           c == queue[1]
<1>1. /\ n \in Nat /\ n >= 1 /\ Len(queue') = n - 1 /\ queue' = Tail(queue)
      /\ \A i \in 1..(n - 1) : Tail(queue)[i] = queue[i + 1]
      /\ Head(queue) = c
  BY Dequeued DEF Popped, TypeOK
<1>2. /\ connections' = connections /\ held' = held
      /\ id[t] = NoId /\ id'[t] = c /\ \A u \in Tasks : u # t => id'[u] = id[u]
  BY <1>1 DEF Popped, TypeOK
<1>3. /\ c \in connections /\ c # NoId
      /\ \A u \in Tasks : c # id[u] /\ c \notin held[u]
      /\ \A i \in 1..(n - 1) : queue[i + 1] # c
  <2>1. \A i \in 1..(n - 1) : i + 1 \in 1..n /\ i + 1 # 1 /\ 1 \in 1..n
    BY <1>1
  <2>2. c \in connections /\ c # NoId
    BY <1>1, NoIdIsNone DEF OwnerInv, TypeOK
  <2> QED
    BY <1>1, <2>1, <2>2 DEF OwnerInv
<1>4. \A i, j \in 1..Len(queue') : queue'[i] = queue'[j] => i = j
  <2>1. \A i, j \in 1..(n - 1) : queue[i + 1] = queue[j + 1] => i = j
    <3>1. \A i, j \in 1..n : queue[i] = queue[j] => i = j
      BY DEF OwnerInv
    <3>2. \A i \in 1..(n - 1) : i + 1 \in 1..n
      BY <1>1
    <3> QED
      BY <1>1, <3>1, <3>2
  <2> QED
    BY <1>1, <2>1
<1>5. \A i \in 1..Len(queue') :
        queue'[i] \in connections' /\ \A u \in Tasks : queue'[i] # id'[u] /\ queue'[i] \notin held'[u]
  <2>1. \A i \in 1..(n - 1) : i + 1 \in 1..n /\ queue'[i] = queue[i + 1]
    BY <1>1
  <2>2. \A i \in 1..(n - 1) :
          queue[i + 1] \in connections
          /\ \A u \in Tasks : queue[i + 1] # id[u] /\ queue[i + 1] \notin held[u]
    BY <2>1 DEF OwnerInv
  <2> QED
    BY <1>1, <1>2, <1>3, <2>1, <2>2
<1>6. \A u \in Tasks : held'[u] \subseteq connections' /\ (id'[u] # NoId => id'[u] \in connections')
  BY <1>2, <1>3 DEF OwnerInv
<1>7. \A u, v \in Tasks :
        /\ id'[u] \notin held'[v]
        /\ u # v => held'[u] \cap held'[v] = {} /\ (id'[u] # NoId => id'[u] # id'[v])
  BY <1>2, <1>3 DEF OwnerInv
<1>8. \A d \in connections' :
        \/ \E i \in 1..Len(queue') : queue'[i] = d
        \/ \E u \in Tasks : d \in held'[u] \/ id'[u] = d
  <2> SUFFICES ASSUME NEW d \in connections
               PROVE  \/ \E i \in 1..Len(queue') : queue'[i] = d
                      \/ \E u \in Tasks : d \in held[u] \/ id'[u] = d
    BY <1>2
  <2>1. CASE \E i \in 1..n : queue[i] = d
    <3>1. PICK i \in 1..n : queue[i] = d
      BY <2>1
    <3>2. CASE i = 1
      BY <1>2, <3>1, <3>2
    <3>3. CASE i # 1
      <4>1. i - 1 \in 1..Len(queue') /\ queue'[i - 1] = d
        BY <1>1, <3>1, <3>3
      <4> QED
        BY <4>1
    <3> QED
      BY <3>2, <3>3
  <2>2. CASE \E u \in Tasks : d \in held[u] \/ id[u] = d
    BY <1>2, <2>2, NoIdIsNone DEF TypeOK
  <2> QED
    BY <2>1, <2>2 DEF OwnerInv
<1> QED
  BY <1>4, <1>5, <1>6, <1>7, <1>8 DEF OwnerInv

LEMMA OwnerGiven ==
  ASSUME TypeOK, OwnerInv, NEW t \in Tasks, Given(t)
  PROVE  OwnerInv'
<1>1. /\ connections' = connections /\ queue' = queue /\ id[t] # NoId /\ id'[t] = NoId
      /\ held'[t] = held[t] \cup {id[t]}
      /\ \A u \in Tasks : u # t => id'[u] = id[u] /\ held'[u] = held[u]
  BY DEF Given, TypeOK
<1>2. /\ id[t] \in connections
      /\ \A i \in 1..Len(queue) : queue[i] # id[t]
      /\ \A u \in Tasks : id[t] \notin held[u] /\ (u # t => id[u] # id[t])
  BY <1>1 DEF OwnerInv
<1>3. \A u \in Tasks : NoId \notin held[u] /\ NoId \notin held'[u]
  BY <1>1, NoIdIsNone DEF TypeOK
<1>4. \A i \in 1..Len(queue) : queue[i] # NoId
  BY NoIdIsNone DEF TypeOK
<1>5. \A i \in 1..Len(queue') :
        queue'[i] \in connections' /\ \A u \in Tasks : queue'[i] # id'[u] /\ queue'[i] \notin held'[u]
  BY <1>1, <1>2, <1>4 DEF OwnerInv
<1>6. \A u \in Tasks : held'[u] \subseteq connections' /\ (id'[u] # NoId => id'[u] \in connections')
  BY <1>1, <1>2 DEF OwnerInv
<1>7. \A u, v \in Tasks :
        /\ id'[u] \notin held'[v]
        /\ u # v => held'[u] \cap held'[v] = {} /\ (id'[u] # NoId => id'[u] # id'[v])
  BY <1>1, <1>2, <1>3 DEF OwnerInv
<1>8. \A d \in connections' :
        \/ \E i \in 1..Len(queue') : queue'[i] = d
        \/ \E u \in Tasks : d \in held'[u] \/ id'[u] = d
  BY <1>1 DEF OwnerInv
<1> QED
  BY <1>1, <1>5, <1>6, <1>7, <1>8 DEF OwnerInv

LEMMA OwnerReturned ==
  ASSUME TypeOK, OwnerInv, NEW t \in Tasks, NEW c \in Ids, Returned(t, c)
  PROVE  OwnerInv'
<1>1. /\ connections' = connections /\ queue' = queue /\ id[t] = NoId /\ id'[t] = c
      /\ c \in held[t] /\ held'[t] = held[t] \ {c}
      /\ \A u \in Tasks : u # t => id'[u] = id[u] /\ held'[u] = held[u]
  BY DEF Returned, TypeOK
<1>2. /\ c \in connections /\ c # NoId
      /\ \A i \in 1..Len(queue) : queue[i] # c
      /\ \A u \in Tasks : id[u] # c /\ (u # t => c \notin held[u])
  BY <1>1, NoIdIsNone DEF OwnerInv
<1>5. \A i \in 1..Len(queue') :
        queue'[i] \in connections' /\ \A u \in Tasks : queue'[i] # id'[u] /\ queue'[i] \notin held'[u]
  BY <1>1, <1>2 DEF OwnerInv
<1>6. \A u \in Tasks : held'[u] \subseteq connections' /\ (id'[u] # NoId => id'[u] \in connections')
  BY <1>1, <1>2 DEF OwnerInv
<1>7. \A u, v \in Tasks :
        /\ id'[u] \notin held'[v]
        /\ u # v => held'[u] \cap held'[v] = {} /\ (id'[u] # NoId => id'[u] # id'[v])
  BY <1>1, <1>2 DEF OwnerInv
<1>8. \A d \in connections' :
        \/ \E i \in 1..Len(queue') : queue'[i] = d
        \/ \E u \in Tasks : d \in held'[u] \/ id'[u] = d
  <2> SUFFICES ASSUME NEW d \in connections
               PROVE  \/ \E i \in 1..Len(queue) : queue[i] = d
                      \/ \E u \in Tasks : d \in held'[u] \/ id'[u] = d
    BY <1>1
  <2>1. d # NoId
    BY NoIdIsNone DEF TypeOK
  <2>2. \/ \E i \in 1..Len(queue) : queue[i] = d
        \/ \E u \in Tasks : d \in held[u] \/ id[u] = d
    BY DEF OwnerInv
  <2>3. \A u \in Tasks : d \in held[u] \/ id[u] = d => d \in held'[u] \/ id'[u] = d
    BY <1>1, <2>1
  <2> QED
    BY <2>2, <2>3
<1> QED
  BY <1>1, <1>5, <1>6, <1>7, <1>8 DEF OwnerInv

LEMMA OwnerPushed ==
  ASSUME TypeOK, OwnerInv, NEW t \in Tasks, Pushed(t)
  PROVE  OwnerInv'
<1> DEFINE n == Len(queue)
           c == id[t]
<1>1. /\ connections' = connections /\ held' = held /\ c # NoId /\ id'[t] = NoId
      /\ \A u \in Tasks : u # t => id'[u] = id[u]
  BY DEF Pushed, TypeOK
<1>2. /\ c \in connections /\ c \in Ids
      /\ \A i \in 1..n : queue[i] # c
      /\ \A u \in Tasks : c \notin held[u] /\ (u # t => id[u] # c)
  BY <1>1 DEF OwnerInv, TypeOK
<1>3. /\ n \in Nat /\ Len(queue') = n + 1 /\ queue'[n + 1] = c
      /\ \A i \in 1..n : queue'[i] = queue[i]
  BY <1>2, Appended DEF Pushed, TypeOK
<1>4. \A i \in 1..Len(queue') : i = n + 1 \/ i \in 1..n
  BY <1>3
<1>5. /\ \A i \in 1..n : queue[i] # NoId
      /\ \A u \in Tasks : NoId \notin held[u]
  BY NoIdIsNone DEF TypeOK
<1>6. \A i, j \in 1..Len(queue') : queue'[i] = queue'[j] => i = j
  <2>1. \A i, j \in 1..n : queue[i] = queue[j] => i = j
    BY DEF OwnerInv
  <2> QED
    BY <1>2, <1>3, <1>4, <2>1
<1>7. \A i \in 1..Len(queue') :
        queue'[i] \in connections' /\ \A u \in Tasks : queue'[i] # id'[u] /\ queue'[i] \notin held'[u]
  <2>1. \A i \in 1..n :
          queue[i] \in connections /\ \A u \in Tasks : queue[i] # id[u] /\ queue[i] \notin held[u]
    BY DEF OwnerInv
  <2>2. \A i \in 1..n :
          queue[i] \in connections /\ \A u \in Tasks : queue[i] # id'[u] /\ queue[i] \notin held[u]
    BY <1>1, <1>5, <2>1
  <2>3. \A u \in Tasks : c # id'[u] /\ c \notin held[u]
    BY <1>1, <1>2
  <2> QED
    BY <1>1, <1>2, <1>3, <1>4, <2>2, <2>3
<1>8. \A u \in Tasks : held'[u] \subseteq connections' /\ (id'[u] # NoId => id'[u] \in connections')
  BY <1>1 DEF OwnerInv
<1>9. \A u, v \in Tasks :
        /\ id'[u] \notin held'[v]
        /\ u # v => held'[u] \cap held'[v] = {} /\ (id'[u] # NoId => id'[u] # id'[v])
  BY <1>1, <1>5 DEF OwnerInv
<1>10. \A d \in connections' :
        \/ \E i \in 1..Len(queue') : queue'[i] = d
        \/ \E u \in Tasks : d \in held'[u] \/ id'[u] = d
  <2> SUFFICES ASSUME NEW d \in connections
               PROVE  \/ \E i \in 1..Len(queue') : queue'[i] = d
                      \/ \E u \in Tasks : d \in held[u] \/ id'[u] = d
    BY <1>1
  <2>1. CASE \E i \in 1..n : queue[i] = d
    <3>1. \A i \in 1..n : i \in 1..Len(queue')
      BY <1>3
    <3> QED
      BY <1>3, <2>1, <3>1
  <2>2. CASE d = c
    <3>1. n + 1 \in 1..Len(queue')
      BY <1>3
    <3> QED
      BY <1>3, <2>2, <3>1
  <2>3. CASE d # c /\ \E u \in Tasks : d \in held[u] \/ id[u] = d
    BY <1>1, <2>3
  <2> QED
    BY <2>1, <2>2, <2>3 DEF OwnerInv
<1> QED
  BY <1>6, <1>7, <1>8, <1>9, <1>10 DEF OwnerInv

LEMMA OwnerCreated ==
  ASSUME TypeOK, OwnerInv, NEW t \in Tasks, Created(t)
  PROVE  OwnerInv'
<1> DEFINE c == counter[t]
<1>1. /\ connections' = connections \cup {c} /\ c \notin connections /\ c # NoId
      /\ queue' = queue /\ held' = held /\ id[t] = NoId /\ id'[t] = c
      /\ \A u \in Tasks : u # t => id'[u] = id[u]
  BY NoIdIsNone DEF Created, TypeOK
<1>2. /\ \A i \in 1..Len(queue) : queue[i] # c
      /\ \A u \in Tasks : c \notin held[u] /\ id[u] # c
  BY <1>1 DEF OwnerInv
<1>3. \A i \in 1..Len(queue') :
        queue'[i] \in connections' /\ \A u \in Tasks : queue'[i] # id'[u] /\ queue'[i] \notin held'[u]
  BY <1>1, <1>2 DEF OwnerInv
<1>4. \A u \in Tasks : held'[u] \subseteq connections' /\ (id'[u] # NoId => id'[u] \in connections')
  BY <1>1 DEF OwnerInv
<1>5. \A u, v \in Tasks :
        /\ id'[u] \notin held'[v]
        /\ u # v => held'[u] \cap held'[v] = {} /\ (id'[u] # NoId => id'[u] # id'[v])
  BY <1>1, <1>2 DEF OwnerInv
<1>6. \A d \in connections' :
        \/ \E i \in 1..Len(queue') : queue'[i] = d
        \/ \E u \in Tasks : d \in held'[u] \/ id'[u] = d
  <2>1. \A d \in connections : d # NoId
    BY NoIdIsNone DEF TypeOK
  <2> QED
    BY <1>1, <2>1 DEF OwnerInv
<1> QED
  BY <1>1, <1>3, <1>4, <1>5, <1>6 DEF OwnerInv

LEMMA OwnerRemoved ==
  ASSUME TypeOK, OwnerInv, NEW t \in Tasks, Removed(t)
  PROVE  OwnerInv'
<1> DEFINE c == id[t]
<1>1. /\ connections' = connections \ {c} /\ c # NoId
      /\ queue' = queue /\ held' = held /\ id'[t] = NoId
      /\ \A u \in Tasks : u # t => id'[u] = id[u]
  BY DEF Removed, TypeOK
<1>2. /\ \A i \in 1..Len(queue) : queue[i] # c /\ queue[i] # NoId
      /\ \A u \in Tasks : c \notin held[u] /\ NoId \notin held[u] /\ (u # t => id[u] # c)
  BY <1>1, NoIdIsNone DEF OwnerInv, TypeOK
<1>3. \A i \in 1..Len(queue') :
        queue'[i] \in connections' /\ \A u \in Tasks : queue'[i] # id'[u] /\ queue'[i] \notin held'[u]
  BY <1>1, <1>2 DEF OwnerInv
<1>4. \A u \in Tasks : held'[u] \subseteq connections' /\ (id'[u] # NoId => id'[u] \in connections')
  BY <1>1, <1>2 DEF OwnerInv
<1>5. \A u, v \in Tasks :
        /\ id'[u] \notin held'[v]
        /\ u # v => held'[u] \cap held'[v] = {} /\ (id'[u] # NoId => id'[u] # id'[v])
  BY <1>1, <1>2 DEF OwnerInv
<1>6. \A d \in connections' :
        \/ \E i \in 1..Len(queue') : queue'[i] = d
        \/ \E u \in Tasks : d \in held'[u] \/ id'[u] = d
  BY <1>1 DEF OwnerInv
<1> QED
  BY <1>1, <1>3, <1>4, <1>5, <1>6 DEF OwnerInv

LEMMA OwnerStep ==
  ASSUME IInv, Next
  PROVE  OwnerInv'
<1>1. CASE Kept
  BY <1>1 DEF Kept, OwnerInv, IInv
<1>2. CASE ~Kept
  <2>1. PICK t \in Tasks :
          \/ Popped(t) \/ Given(t) \/ \E c \in Ids : Returned(t, c)
          \/ Pushed(t) \/ Created(t) \/ Removed(t)
    BY <1>2, Effects
  <2> QED
    BY <2>1, OwnerPopped, OwnerGiven, OwnerReturned, OwnerPushed, OwnerCreated, OwnerRemoved
    DEF IInv
<1> QED
  BY <1>1, <1>2

-----------------------------------------------------------------------------
(* Ids and limits                                                          *)

CallSteps == {"idle"} \cup GetSteps \cup ReturnSteps

(* What get_connection and return_connection leave alone.                   *)
CallOnly(t) ==
  /\ step[t] \in CallSteps /\ step'[t] \in CallSteps
  /\ \A u \in Tasks : u # t => step'[u] = step[u]
  /\ UNCHANGED <<connections, total, counter, todo>>

LEMMA CallStep ==
  ASSUME IInv, NEW t \in Tasks,
         \/ GetPop(t) \/ GetLookup(t) \/ GetStore(t) \/ GetCount(t)
         \/ \E c \in Ids : Return(t, c)
         \/ ReturnStore(t) \/ ReturnPush(t) \/ ReturnCount(t)
  PROVE  CallOnly(t)
<1> USE DEF CallOnly, CallSteps, GetSteps, ReturnSteps, Goto, Hold, IInv, TypeOK, statVars, cloneVars
<1>1. CASE GetPop(t) \/ GetLookup(t) \/ GetCount(t)
  BY <1>1 DEF GetPop, Pop, GetLookup, GetCount
<1>2. CASE GetStore(t) \/ ReturnStore(t)
  <2>1. id[t] \in connections
    BY <1>2 DEF GetStore, ReturnStore, StepInv, OwnerInv, HandSteps
  <2>2. connections \cup {id[t]} = connections
    BY <2>1
  <2> QED
    BY <1>2, <2>2 DEF GetStore, ReturnStore
<1>3. CASE \E c \in Ids : Return(t, c)
  BY <1>3 DEF Return
<1>4. CASE ReturnPush(t) \/ ReturnCount(t)
  BY <1>4 DEF ReturnPush, ReturnCount
<1> QED
  BY <1>1, <1>2, <1>3, <1>4

LEMMA CallKeepsLimits ==
  ASSUME IInv, NEW t \in Tasks, CallOnly(t)
  PROVE  FreshInv' /\ TotalInv'
<1>1. \A u \in Tasks : \/ step'[u] = step[u]
                       \/ step[u] \in CallSteps /\ step'[u] \in CallSteps
  BY DEF CallOnly
<1>2. \A u \in Tasks : \A s \in ExpandSteps \cup ShrinkSteps : step'[u] = s <=> step[u] = s
  BY <1>1 DEF CallSteps, GetSteps, ReturnSteps, ExpandSteps, ShrinkSteps
<1>3. Uncounted' = Uncounted /\ Overcounted' = Overcounted
  BY <1>2 DEF Uncounted, Overcounted, ExpandSteps, ShrinkSteps
<1>4. connections' = connections /\ total' = total /\ counter' = counter /\ todo' = todo
  BY DEF CallOnly
<1>5. Expanders \subseteq Tasks
  BY ConnectionPoolAssumption
<1>6. FreshInv'
  BY <1>2, <1>4, <1>5 DEF FreshInv, IInv, ExpandSteps
<1>7. TotalInv'
  BY <1>2, <1>3, <1>4, <1>5 DEF TotalInv, IInv, ExpandSteps, ShrinkSteps
<1> QED
  BY <1>6, <1>7

(* With one expander these two are about its step only.                     *)
LEMMA ExpanderCounts ==
  ASSUME OneExpander, StepInv', NEW t \in Expanders
  PROVE  /\ Uncounted' = IF step'[t] \in {"enqueue", "countCreate"} THEN 1 ELSE 0
         /\ Overcounted' = IF step'[t] = "countRemove" THEN 1 ELSE 0
BY ConnectionPoolAssumption
DEF Uncounted, Overcounted, OneExpander, StepInv, ExpandSteps, ShrinkSteps

LEMMA ExpanderKeepsLimits ==
  ASSUME OneExpander, IInv, StepInv', NEW t \in Expanders,
         \/ \E forced \in BOOLEAN : Expand(t, forced)
         \/ CreateConnection(t) \/ EnqueueConnection(t) \/ CountCreated(t) \/ AdvanceFactor(t)
         \/ Shrink(t) \/ ShrinkCount(t) \/ ShrinkPop(t) \/ ShrinkRemove(t)
         \/ CountRemoved(t) \/ ShrinkDone(t)
  PROVE  FreshInv' /\ TotalInv'
<1> DEFINE n == Cardinality(connections)
           m == Cardinality(connections')
           p == todo'[t]
<1> USE DEF IInv
<1>a. /\ t \in Tasks /\ \A e \in Expanders : e = t
      /\ MaxId \in Nat /\ max_size \in Nat /\ initial_size \in Nat
      /\ Word \in Nat /\ max_size < Word /\ initial_size <= max_size
  BY ConnectionPoolAssumption DEF OneExpander
<1>b. /\ n \in Nat /\ IsFiniteSet(connections) /\ initial_size <= n /\ n <= max_size
      /\ todo[t] \in Nat /\ counter[t] \in Nat
      /\ total \in 0..(Word - 1) /\ available \in Nat
  BY <1>a, FS_CardinalityType DEF TotalInv, TypeOK
<1>c. /\ total = n - Uncounted + Overcounted
      /\ Uncounted = IF step[t] \in {"enqueue", "countCreate"} THEN 1 ELSE 0
      /\ Overcounted = IF step[t] = "countRemove" THEN 1 ELSE 0
  BY <1>a DEF TotalInv, Uncounted, Overcounted, OneExpander, StepInv, ExpandSteps, ShrinkSteps
<1>d. /\ \A c \in connections : c < counter[t] /\ c \in Nat
      /\ step[t] = "create" => counter[t] + todo[t] <= MaxId /\ n + todo[t] <= max_size
      /\ step[t] \in {"enqueue", "countCreate"} =>
           todo[t] > 0 /\ counter[t] + todo[t] - 1 <= MaxId /\ n + todo[t] - 1 <= max_size
      /\ step[t] \in {"shrink", "countRemove"} => n - todo[t] >= initial_size
      /\ step[t] = "remove" => n - todo[t] - 1 >= initial_size
  BY DEF FreshInv, TotalInv, TypeOK, Ids
<1> DEFINE Good ==
      /\ \A c \in connections' : c < counter'[t]
      /\ step'[t] = "create" => counter'[t] + p <= MaxId /\ m + p <= max_size
      /\ step'[t] \in {"enqueue", "countCreate"} =>
           p > 0 /\ counter'[t] + p - 1 <= MaxId /\ m + p - 1 <= max_size
      /\ step'[t] \in {"shrink", "countRemove"} => m - p >= initial_size
      /\ step'[t] = "remove" => m - p - 1 >= initial_size
      /\ IsFiniteSet(connections') /\ m \in initial_size..max_size
      /\ total' = m - (IF step'[t] \in {"enqueue", "countCreate"} THEN 1 ELSE 0)
                    + (IF step'[t] = "countRemove" THEN 1 ELSE 0)
<1>1. ASSUME Good PROVE FreshInv' /\ TotalInv'
  BY <1>1, <1>a, ExpanderCounts DEF FreshInv, TotalInv
<1> HIDE DEF Good
<1>2. CASE \E forced \in BOOLEAN : Expand(t, forced)
  <2>1. /\ step[t] = "idle" /\ step'[t] = "create"
        /\ p = NewSize(t) - total /\ NewSize(t) <= max_size /\ counter[t] + p <= MaxId
        /\ connections' = connections /\ counter' = counter /\ total' = total
    BY <1>2, <1>a DEF Expand, Goto, TypeOK, statVars, cloneVars
  <2>2. NewSize(t) \in Nat
    BY <1>a, NewSizeType
  <2> QED
    BY <1>a, <1>b, <1>c, <1>d, <1>1, <2>1, <2>2 DEF Good
<1>3. CASE CreateConnection(t)
  <2>1. /\ step[t] = "create" /\ todo[t] > 0 /\ step'[t] = "enqueue"
        /\ counter'[t] = counter[t] + 1 /\ connections' = connections \cup {counter[t]}
        /\ total' = total /\ p = todo[t]
    BY <1>3, <1>a DEF CreateConnection, Goto, TypeOK, statVars
  <2>2. counter[t] \notin connections
    BY <1>b, <1>d
  <2>3. m = n + 1 /\ IsFiniteSet(connections')
    BY <1>b, <2>1, <2>2, FS_AddElement
  <2>4. \A c \in connections' : c < counter'[t]
    BY <1>b, <1>d, <2>1
  <2> QED
    BY <1>a, <1>b, <1>c, <1>d, <1>1, <2>1, <2>3, <2>4 DEF Good
<1>4. CASE EnqueueConnection(t)
  <2>1. /\ step[t] = "enqueue" /\ step'[t] = "countCreate"
        /\ connections' = connections /\ counter' = counter /\ total' = total /\ todo' = todo
    BY <1>4, <1>a DEF EnqueueConnection, Goto, TypeOK, statVars, cloneVars
  <2> QED
    BY <1>a, <1>b, <1>c, <1>d, <1>1, <2>1 DEF Good
<1>5. CASE CountCreated(t)
  <2>1. /\ step[t] = "countCreate" /\ step'[t] = "create"
        /\ connections' = connections /\ counter' = counter /\ total' = Increment(total)
        /\ p = todo[t] - 1
    BY <1>5, <1>a DEF CountCreated, Goto, TypeOK, cloneVars
  <2>2. Increment(total) = total + 1
    BY <1>a, <1>b, <1>c, <2>1, Counting
  <2> QED
    BY <1>a, <1>b, <1>c, <1>d, <1>1, <2>1, <2>2 DEF Good
<1>6. CASE AdvanceFactor(t) \/ Shrink(t) \/ ShrinkDone(t)
  <2>1. /\ step[t] \in {"idle", "create", "shrink"} /\ step'[t] \in {"idle", "decided"}
        /\ connections' = connections /\ counter' = counter /\ total' = total /\ todo' = todo
    BY <1>6, <1>a DEF AdvanceFactor, Shrink, ShrinkDone, Goto, TypeOK, statVars, cloneVars
  <2> QED
    BY <1>a, <1>b, <1>c, <1>d, <1>1, <2>1 DEF Good
<1>7. CASE ShrinkCount(t)
  <2> DEFINE target == Larger((total * 8) \div 10, initial_size)
  <2>1. /\ step[t] = "decided"
        /\ connections' = connections /\ counter' = counter /\ total' = total
        /\ \/ step'[t] = "idle"
           \/ target < total /\ step'[t] = "shrink" /\ p = Smaller(total - target, available)
    <3>1. target \in Nat /\ total \in Nat
      BY <1>a, <1>b DEF Larger
    <3> QED
      BY <1>7, <1>a, <3>1 DEF ShrinkCount, Goto, TypeOK, statVars, cloneVars
  <2>2. target \in Nat /\ target >= initial_size
    BY <1>a, <1>b DEF Larger
  <2>3. target < total => Smaller(total - target, available) \in Nat
                          /\ Smaller(total - target, available) <= total - target
    BY <1>a, <1>b, <2>2 DEF Smaller
  <2> HIDE DEF target
  <2> QED
    BY <1>a, <1>b, <1>c, <1>d, <1>1, <2>1, <2>2, <2>3 DEF Good
<1>8. CASE ShrinkPop(t)
  <2>1. /\ step[t] = "shrink" /\ step'[t] \in {"shrink", "remove"} /\ p = todo[t] - 1
        /\ connections' = connections /\ counter' = counter /\ total' = total
    BY <1>8, <1>a DEF ShrinkPop, Pop, Goto, TypeOK, statVars, cloneVars
  <2> QED
    BY <1>a, <1>b, <1>c, <1>d, <1>1, <2>1 DEF Good
<1>9. CASE ShrinkRemove(t)
  <2>1. /\ step[t] = "remove" /\ step'[t] = "countRemove" /\ connections' = connections \ {id[t]}
        /\ counter' = counter /\ total' = total /\ p = todo[t]
    BY <1>9, <1>a DEF ShrinkRemove, Goto, TypeOK, statVars, cloneVars
  <2>2. id[t] \in connections
    BY <1>a, <2>1 DEF StepInv, OwnerInv, HandSteps
  <2>3. m = n - 1 /\ IsFiniteSet(connections')
    BY <1>b, <2>1, <2>2, FS_RemoveElement
  <2>4. \A c \in connections' : c < counter'[t]
    BY <1>d, <2>1
  <2> QED
    BY <1>a, <1>b, <1>c, <1>d, <1>1, <2>1, <2>3, <2>4 DEF Good
<1>10. CASE CountRemoved(t)
  <2>1. /\ step[t] = "countRemove" /\ step'[t] = "shrink"
        /\ connections' = connections /\ counter' = counter /\ total' = Decrement(total)
        /\ p = todo[t]
    BY <1>10, <1>a DEF CountRemoved, Goto, TypeOK, cloneVars
  <2>2. Decrement(total) = total - 1
    BY <1>a, <1>b, <1>c, <2>1, Counting
  <2> QED
    BY <1>a, <1>b, <1>c, <1>d, <1>1, <2>1, <2>2 DEF Good
<1> QED
  BY <1>2, <1>3, <1>4, <1>5, <1>6, <1>7, <1>8, <1>9, <1>10

LEMMA LimitsStep ==
  ASSUME OneExpander, IInv, Next
  PROVE  FreshInv' /\ TotalInv'
<1>1. PICK t \in Tasks :
    \/ GetPop(t) \/ GetLookup(t) \/ GetStore(t) \/ GetCount(t)
    \/ \E c \in Ids : Return(t, c)
    \/ ReturnStore(t) \/ ReturnPush(t) \/ ReturnCount(t)
    \/ \E forced \in BOOLEAN : Expand(t, forced)
    \/ CreateConnection(t) \/ EnqueueConnection(t) \/ CountCreated(t) \/ AdvanceFactor(t)
    \/ Shrink(t) \/ ShrinkCount(t) \/ ShrinkPop(t) \/ ShrinkRemove(t)
    \/ CountRemoved(t) \/ ShrinkDone(t)
  BY DEF Next
<1>2. CASE \/ GetPop(t) \/ GetLookup(t) \/ GetStore(t) \/ GetCount(t)
           \/ \E c \in Ids : Return(t, c)
           \/ ReturnStore(t) \/ ReturnPush(t) \/ ReturnCount(t)
  BY <1>2, CallStep, CallKeepsLimits
<1>3. CASE \/ \E forced \in BOOLEAN : Expand(t, forced)
           \/ CreateConnection(t) \/ EnqueueConnection(t) \/ CountCreated(t) \/ AdvanceFactor(t)
           \/ Shrink(t) \/ ShrinkCount(t) \/ ShrinkPop(t) \/ ShrinkRemove(t)
           \/ CountRemoved(t) \/ ShrinkDone(t)
  <2>1. t \in Expanders
    BY <1>3 DEF IInv, StepInv, ExpandSteps, ShrinkSteps, Expand, CreateConnection,
                EnqueueConnection, CountCreated, AdvanceFactor, Shrink, ShrinkCount, ShrinkPop,
                ShrinkRemove, CountRemoved, ShrinkDone
  <2> QED
    BY <1>3, <2>1, StepStep, ExpanderKeepsLimits
<1> QED
  BY <1>1, <1>2, <1>3

-----------------------------------------------------------------------------
(* The counter of available connections                                    *)

(* One task moves on.                                                       *)
LEMMA Moved ==
  ASSUME NEW f, NEW g, NEW S, NEW t \in Tasks, \A u \in Tasks : u # t => g[u] = f[u]
  PROVE  /\ At(f, S) \in Nat /\ At(g, S) \in Nat
         /\ (f[t] \in S <=> g[t] \in S) => At(g, S) = At(f, S)
         /\ f[t] \in S /\ g[t] \notin S => At(g, S) = At(f, S) - 1
         /\ f[t] \notin S /\ g[t] \in S => At(g, S) = At(f, S) + 1
<1> DEFINE A == {u \in Tasks : f[u] \in S}
           B == {u \in Tasks : g[u] \in S}
<1>1. IsFiniteSet(A) /\ IsFiniteSet(B)
  <2>1. A \in SUBSET Tasks /\ B \in SUBSET Tasks
    OBVIOUS
  <2> QED
    BY <2>1, FS_Subset, ConnectionPoolAssumption
<1>2. Cardinality(A) \in Nat /\ Cardinality(B) \in Nat
  BY <1>1, FS_CardinalityType
<1>3. ASSUME f[t] \in S <=> g[t] \in S PROVE B = A
  BY <1>3
<1>4. ASSUME f[t] \in S, g[t] \notin S PROVE Cardinality(B) = Cardinality(A) - 1
  <2>1. B = A \ {t} /\ t \in A
    BY <1>4
  <2> QED
    BY <1>1, <2>1, FS_RemoveElement
<1>5. ASSUME f[t] \notin S, g[t] \in S PROVE Cardinality(B) = Cardinality(A) + 1
  <2>1. B = A \cup {t} /\ t \notin A
    BY <1>5
  <2> QED
    BY <1>1, <2>1, FS_AddElement
<1> HIDE DEF A, B
<1>6. /\ Cardinality(A) \in Nat /\ Cardinality(B) \in Nat
      /\ (f[t] \in S <=> g[t] \in S) => Cardinality(B) = Cardinality(A)
      /\ f[t] \in S /\ g[t] \notin S => Cardinality(B) = Cardinality(A) - 1
      /\ f[t] \notin S /\ g[t] \in S => Cardinality(B) = Cardinality(A) + 1
  BY <1>2, <1>3, <1>4, <1>5
<1> QED
  BY <1>6 DEF A, B, At

(* A step changes the counter and what has been counted in the same way.    *)
LEMMA AvailableStep ==
  ASSUME OneExpander, IInv, Next
  PROVE  AvailableInv'
<1>0. PICK t \in Tasks :
    \/ GetPop(t) \/ GetLookup(t) \/ GetStore(t) \/ GetCount(t)
    \/ \E c \in Ids : Return(t, c)
    \/ ReturnStore(t) \/ ReturnPush(t) \/ ReturnCount(t)
    \/ \E forced \in BOOLEAN : Expand(t, forced)
    \/ CreateConnection(t) \/ EnqueueConnection(t) \/ CountCreated(t) \/ AdvanceFactor(t)
    \/ Shrink(t) \/ ShrinkCount(t) \/ ShrinkPop(t) \/ ShrinkRemove(t)
    \/ CountRemoved(t) \/ ShrinkDone(t)
  BY DEF Next
<1> DEFINE Tk(s) == IF s \in TookSteps THEN 1 ELSE 0
           Gv(s) == IF s \in GaveSteps THEN 1 ELSE 0
           dT == Tk(step'[t]) - Tk(step[t])
           dG == Gv(step'[t]) - Gv(step[t])
           dQ == Len(queue') - Len(queue)
<1>1. /\ \A u \in Tasks : u # t => step'[u] = step[u]
      /\ \/ dQ + dT - dG = 0 /\ available' = available
         \/ dQ + dT - dG = 1 /\ available' = Increment(available)
         \/ dQ + dT - dG = -1 /\ available' = Decrement(available)
  <2> USE DEF IInv, TypeOK, Goto, Hold, statVars, cloneVars, TookSteps, GaveSteps
  <2>a. /\ Len(queue) \in Nat
        /\ queue # <<>> => Len(Tail(queue)) = Len(queue) - 1
        /\ \A c \in Ids : Len(Append(queue, c)) = Len(queue) + 1
    BY Dequeued, Appended
  <2>b. step[t] \in {"push", "enqueue", "got"} => id[t] \in Ids /\ id[t] \in connections
    BY DEF StepInv, OwnerInv, HandSteps
  <2>1. CASE GetPop(t) \/ ShrinkPop(t)
    BY SMTT(20), <2>1, <2>a DEF GetPop, ShrinkPop, Pop
  <2>2. CASE GetLookup(t) \/ GetStore(t) \/ GetCount(t)
    BY <2>2, <2>a, <2>b DEF GetLookup, GetStore, GetCount
  <2>3. CASE \E c \in Ids : Return(t, c)
    BY <2>3, <2>a DEF Return
  <2>4. CASE ReturnStore(t) \/ ReturnCount(t)
    BY <2>4, <2>a DEF ReturnStore, ReturnCount
  <2>5. CASE ReturnPush(t) \/ EnqueueConnection(t)
    <3>1. Len(queue') = Len(queue) + 1
      BY <2>5, <2>a, <2>b DEF ReturnPush, EnqueueConnection, Push
    <3> QED
      BY <2>5, <2>a, <3>1 DEF ReturnPush, EnqueueConnection
  <2>6. CASE (\E forced \in BOOLEAN : Expand(t, forced)) \/ Shrink(t) \/ ShrinkCount(t)
    <3>1. /\ step[t] \in {"idle", "decided"} /\ step'[t] \in {"idle", "create", "decided", "shrink"}
          /\ \A u \in Tasks : u # t => step'[u] = step[u]
          /\ queue' = queue /\ available' = available
      BY <2>6 DEF Expand, Shrink, ShrinkCount
    <3> QED
      BY <2>a, <3>1
  <2>7. CASE CreateConnection(t) \/ CountCreated(t) \/ AdvanceFactor(t)
    <3>1. CASE CreateConnection(t)
      BY <2>a, <3>1 DEF CreateConnection
    <3>2. CASE CountCreated(t)
      BY <2>a, <3>2 DEF CountCreated
    <3>3. CASE AdvanceFactor(t)
      BY <2>a, <3>3 DEF AdvanceFactor
    <3> QED
      BY <2>7, <3>1, <3>2, <3>3
  <2>8. CASE ShrinkRemove(t) \/ CountRemoved(t) \/ ShrinkDone(t)
    BY <2>8, <2>a DEF ShrinkRemove, CountRemoved, ShrinkDone
  <2> QED
    BY <1>0, <2>1, <2>2, <2>3, <2>4, <2>5, <2>6, <2>7, <2>8
<1>2. /\ At(step, TookSteps) \in Nat /\ At(step', TookSteps) \in Nat
      /\ At(step, GaveSteps) \in Nat /\ At(step', GaveSteps) \in Nat
  BY <1>1, Moved
<1>3. /\ At(step', TookSteps) = At(step, TookSteps) + dT
      /\ At(step', GaveSteps) = At(step, GaveSteps) + dG
  <2>1. \A S : /\ (step[t] \in S <=> step'[t] \in S) => At(step', S) = At(step, S)
               /\ step[t] \in S /\ step'[t] \notin S => At(step', S) = At(step, S) - 1
               /\ step[t] \notin S /\ step'[t] \in S => At(step', S) = At(step, S) + 1
    BY <1>1, Moved
  <2>2. At(step', TookSteps) = At(step, TookSteps) + dT
    BY <1>2, <2>1
  <2>3. At(step', GaveSteps) = At(step, GaveSteps) + dG
    BY <1>2, <2>1
  <2> QED
    BY <2>2, <2>3
<1>4. Len(queue) \in Nat /\ Len(queue') \in Nat /\ dT \in Int /\ dG \in Int
  <2>1. queue \in Seq(Ids) /\ queue' \in Seq(Ids)
    BY TypeStep DEF IInv, TypeOK
  <2> QED
    BY <2>1
<1>5. Counted \in Int /\ Counted' = Counted + dQ + dT - dG
  <2>1. /\ Counted = Len(queue) + At(step, TookSteps) - At(step, GaveSteps)
        /\ Counted' = Len(queue') + At(step', TookSteps) - At(step', GaveSteps)
    BY DEF Counted
  <2>2. PICK a \in Int, b \in Int : a = dT /\ b = dG
    BY <1>4
  <2>3. At(step', TookSteps) = At(step, TookSteps) + a /\ At(step', GaveSteps) = At(step, GaveSteps) + b
    BY <1>3, <2>2
  <2>4. a \in Int /\ b \in Int
    BY <2>2
  <2>5. Counted \in Int
    BY <1>2, <1>4, <2>1
  <2>6. Counted' = Counted + dQ + a - b
    <3>1. Len(queue) \in Nat /\ Len(queue') \in Nat
      BY <1>4
    <3>2. Counted' = Len(queue') + (At(step, TookSteps) + a) - (At(step, GaveSteps) + b)
      BY <2>1, <2>3
    <3>3. Counted = Len(queue) + At(step, TookSteps) - At(step, GaveSteps)
      BY <2>1
    <3>4. At(step, TookSteps) \in Nat /\ At(step, GaveSteps) \in Nat
      BY <1>2
    <3> QED
      BY SMTT(20), <2>4, <3>1, <3>2, <3>3, <3>4
  <2> QED
    BY <2>2, <2>5, <2>6
<1>6. PICK k \in Int : available = Counted + k * Word
  BY DEF AvailableInv, IInv
<1>7. /\ k * Word \in Int
      /\ \E j \in Int : Increment(available) = Counted + 1 + j * Word
      /\ \E j \in Int : Decrement(available) = Counted - 1 + j * Word
  <2>1. Word \in Nat /\ available \in 0..(Word - 1) /\ k \in Int /\ Counted \in Int
    BY <1>5, ConnectionPoolAssumption DEF IInv, TypeOK
  <2>2. k * Word \in Int
    BY <2>1
  <2> QED
    BY <1>6, <2>1, <2>2, CountingWraps
<1>8. \/ Counted' = Counted /\ available' = available
      \/ Counted' = Counted + 1 /\ available' = Increment(available)
      \/ Counted' = Counted - 1 /\ available' = Decrement(available)
  BY <1>1, <1>4, <1>5
<1>9. \E j \in Int : available' = Counted' + j * Word
  BY <1>6, <1>7, <1>8
<1> QED
  BY <1>9 DEF AvailableInv

-----------------------------------------------------------------------------
(* The theorems                                                            *)

LEMMA StutterInv == ASSUME IInv, UNCHANGED vars PROVE IInv'
<1>1. /\ UNCHANGED <<connections, queue, total, available, counter, factor>>
      /\ UNCHANGED <<step, id, todo, held>>
  BY DEF vars, statVars, cloneVars
<1>2. Uncounted' = Uncounted /\ Overcounted' = Overcounted
  BY <1>1 DEF Uncounted, Overcounted
<1>3. AvailableInv'
  BY <1>1 DEF IInv, AvailableInv, Counted
<1> QED
  BY <1>1, <1>2, <1>3 DEF IInv, TypeOK, StepInv, OwnerInv, FreshInv, TotalInv

THEOREM Invariance == ASSUME OneExpander PROVE Spec => []IInv
<1>1. Init => IInv
  BY InitInv
<1>2. IInv /\ [Next]_vars => IInv'
  <2> SUFFICES ASSUME IInv, [Next]_vars PROVE IInv'
    OBVIOUS
  <2>1. CASE Next
    BY <2>1, TypeStep, StepStep, OwnerStep, LimitsStep, AvailableStep DEF IInv
  <2>2. CASE UNCHANGED vars
    BY <2>2, StutterInv
  <2> QED
    BY <2>1, <2>2
<1> QED
  BY <1>1, <1>2, PTL DEF Spec

(* Every variable keeps its type: in particular the counters stay below     *)
(* Word, and an expander never counts down what it has not decided to do.   *)
THEOREM TypeCorrect == ASSUME OneExpander PROVE Spec => []TypeOK
<1>1. IInv => TypeOK
  BY DEF IInv
<1> QED
  BY <1>1, Invariance, PTL

LEMMA OwnersAccount == ASSUME TypeOK, OwnerInv PROVE Accounted
<1>1. /\ DOMAIN queue = 1..Len(queue)
      /\ Range(queue) = {queue[i] : i \in 1..Len(queue)}
  BY DEF TypeOK, Range
<1>2. \A t \in Tasks : \A c : c \in InHand(t) <=> c = id[t] /\ id[t] # NoId
  BY DEF InHand
<1>3. \A i, j \in DOMAIN queue : queue[i] = queue[j] => i = j
  BY <1>1 DEF OwnerInv
<1>4. \A t \in Tasks : (held[t] \cup InHand(t)) \cap Range(queue) = {}
  BY <1>1, <1>2 DEF OwnerInv
<1>5. \A t, u \in Tasks : t # u => (held[t] \cup InHand(t)) \cap (held[u] \cup InHand(u)) = {}
  BY <1>2 DEF OwnerInv
<1>6. \A t \in Tasks : held[t] \cap InHand(t) = {}
  BY <1>2 DEF OwnerInv
<1>7. connections \subseteq Range(queue) \cup UNION {held[t] \cup InHand(t) : t \in Tasks}
  <2>1. \A c \in connections : c # NoId
    BY NoIdIsNone DEF TypeOK
  <2> QED
    BY <1>1, <1>2, <2>1 DEF OwnerInv
<1>8. Range(queue) \cup UNION {held[t] \cup InHand(t) : t \in Tasks} \subseteq connections
  <2>1. Range(queue) \subseteq connections
    BY <1>1 DEF OwnerInv
  <2>2. \A t \in Tasks : held[t] \cup InHand(t) \subseteq connections
    BY <1>2 DEF OwnerInv
  <2> QED
    BY <2>1, <2>2
<1> QED
  BY <1>3, <1>4, <1>5, <1>6, <1>7, <1>8 DEF Accounted

(* At rest the queue is not longer than the map, so a wrapped counter has   *)
(* come back to where it belongs.                                           *)
LEMMA RestAgrees == ASSUME IInv PROVE StatsAgree
<1> SUFFICES ASSUME \A t \in Tasks : step[t] = "idle"
             PROVE  total = Cardinality(connections) /\ available = Len(queue)
  BY DEF StatsAgree
<1>1. IsFiniteSet(connections) /\ Cardinality(connections) \in Nat
      /\ Cardinality(connections) <= max_size /\ max_size < Word /\ Word \in Nat /\ max_size \in Nat
      /\ initial_size \in Nat
  BY FS_CardinalityType, ConnectionPoolAssumption DEF IInv, TotalInv
<1>2. total = Cardinality(connections)
  <2>1. Uncounted = 0 /\ Overcounted = 0
    BY DEF Uncounted, Overcounted
  <2> QED
    BY <1>1, <2>1 DEF IInv, TotalInv
<1>3. Len(queue) \in Nat /\ Len(queue) <= Cardinality(connections)
  <2>1. Len(queue) \in Nat /\ queue \in [1..Len(queue) -> Ids]
    BY DEF IInv, TypeOK
  <2>2. queue \in [1..Len(queue) -> connections]
    BY <2>1 DEF IInv, OwnerInv
  <2>3. IsFiniteSet(1..Len(queue)) /\ Cardinality(1..Len(queue)) = Len(queue)
    <3>1. IsFiniteSet(1..Len(queue))
          /\ Cardinality(1..Len(queue)) = IF 1 > Len(queue) THEN 0 ELSE Len(queue) - 1 + 1
      BY <2>1, FS_Interval
    <3> QED
      BY <2>1, <3>1
  <2>4. ASSUME Cardinality(connections) < Len(queue) PROVE FALSE
    <3>1. \E i, j \in 1..Len(queue) : i # j /\ queue[i] = queue[j]
      BY <1>1, <2>2, <2>3, <2>4, FS_PigeonHole
    <3> QED
      BY <3>1 DEF IInv, OwnerInv
  <2> QED
    BY <1>1, <2>1, <2>4
<1>4. Counted = Len(queue)
  <2>1. /\ {t \in Tasks : step[t] \in TookSteps} = {}
        /\ {t \in Tasks : step[t] \in GaveSteps} = {}
    BY DEF TookSteps, GaveSteps
  <2>2. At(step, TookSteps) = 0 /\ At(step, GaveSteps) = 0
    BY <2>1, FS_EmptySet DEF At
  <2> QED
    BY <1>3, <2>2 DEF Counted
<1>5. PICK k \in Int : available = Len(queue) + k * Word
  BY <1>4 DEF IInv, AvailableInv
<1>6. available \in 0..(Word - 1) /\ Len(queue) \in 0..(Word - 1)
  BY <1>1, <1>3 DEF IInv, TypeOK
<1>7. available = Len(queue)
  <2>1. Word \in Nat \ {0} /\ k \in Int
    BY <1>1, <1>5
  <2> QED
    BY <1>5, <1>6, <2>1
<1> QED
  BY <1>2, <1>7

(* While tasks get and return connections and one of them expands and       *)
(* shrinks the pool: each connection of the map has one owner (the queue, a *)
(* call, or a task), at rest both counters are right, however often they    *)
(* have wrapped, and the size stays between initial_size and max_size.      *)
THEOREM PoolConsistentTheorem == ASSUME OneExpander PROVE Spec => []PoolConsistent
<1>1. IInv => Accounted
  BY OwnersAccount DEF IInv
<1>2. IInv => StatsAgree
  BY RestAgrees
<1>3. IInv => WithinLimits
  BY DEF IInv, TotalInv, WithinLimits
<1>4. IInv => PoolConsistent
  BY <1>1, <1>2, <1>3 DEF PoolConsistent
<1> QED
  BY <1>4, Invariance, PTL

-----------------------------------------------------------------------------
(* How many of a finite set are at a step, and counting modulo a word      *)

CountOf(T, f, S) == Cardinality({t \in T : f[t] \in S})

(* What the counts are before and after t moves on.                         *)
CountMoved(T, f, g, S, t) ==
  /\ CountOf(T, f, S) \in Nat /\ CountOf(T, g, S) \in Nat
  /\ (f[t] \in S <=> g[t] \in S) => CountOf(T, g, S) = CountOf(T, f, S)
  /\ f[t] \in S /\ g[t] \notin S => CountOf(T, g, S) = CountOf(T, f, S) - 1
  /\ f[t] \notin S /\ g[t] \in S => CountOf(T, g, S) = CountOf(T, f, S) + 1

LEMMA OneMoved ==
  ASSUME NEW T, IsFiniteSet(T), NEW f, NEW g, NEW S, NEW t \in T,
         \A u \in T \ {t} : g[u] = f[u]
  PROVE  CountMoved(T, f, g, S, t)
<1> DEFINE A == {u \in T : f[u] \in S}
           B == {u \in T : g[u] \in S}
<1>1. IsFiniteSet(A) /\ IsFiniteSet(B)
  <2>1. A \in SUBSET T /\ B \in SUBSET T
    OBVIOUS
  <2> QED
    BY <2>1, FS_Subset
<1>2. Cardinality(A) \in Nat /\ Cardinality(B) \in Nat
  BY <1>1, FS_CardinalityType
<1>3. ASSUME f[t] \in S <=> g[t] \in S PROVE B = A
  BY <1>3
<1>4. ASSUME f[t] \in S, g[t] \notin S PROVE Cardinality(B) = Cardinality(A) - 1
  <2>1. B = A \ {t} /\ t \in A
    BY <1>4
  <2> QED
    BY <1>1, <2>1, FS_RemoveElement
<1>5. ASSUME f[t] \notin S, g[t] \in S PROVE Cardinality(B) = Cardinality(A) + 1
  <2>1. B = A \cup {t} /\ t \notin A
    BY <1>5
  <2> QED
    BY <1>1, <2>1, FS_AddElement
<1> HIDE DEF A, B
<1>6. /\ Cardinality(A) \in Nat /\ Cardinality(B) \in Nat
      /\ (f[t] \in S <=> g[t] \in S) => Cardinality(B) = Cardinality(A)
      /\ f[t] \in S /\ g[t] \notin S => Cardinality(B) = Cardinality(A) - 1
      /\ f[t] \notin S /\ g[t] \in S => Cardinality(B) = Cardinality(A) + 1
  BY <1>2, <1>3, <1>4, <1>5
<1> QED
  BY <1>6 DEF A, B, CountOf, CountMoved

LEMMA NoneThere ==
  ASSUME NEW T, NEW f, NEW S, \A t \in T : f[t] \notin S
  PROVE  CountOf(T, f, S) = 0
<1>1. {t \in T : f[t] \in S} = {}
  OBVIOUS
<1> QED
  BY <1>1, FS_EmptySet DEF CountOf

LEMMA Remainder ==
  ASSUME NEW W \in Nat \ {0}, NEW m \in Int, NEW k \in Int, NEW n \in 0..(W - 1), n = m + k * W
  PROVE  m % W = n
<1>1. m % W \in 0..(W - 1) /\ m \div W \in Int /\ m = ((m \div W) * W) + (m % W)
  OBVIOUS
<1> DEFINE q == m \div W
           r == m % W
           j == q + k
<1>2. q \in Int /\ r \in Int /\ j \in Int
  BY <1>1
<1>3. n = j * W + r
  <2>1. j * W = q * W + k * W
    BY <1>2
  <2>2. m = q * W + r /\ n = m + k * W
    BY <1>1
  <2>3. q * W \in Int /\ k * W \in Int /\ j * W \in Int
    BY <1>2
  <2> HIDE DEF q, r, j
  <2> QED
    BY <1>2, <2>1, <2>2, <2>3
<1> HIDE DEF q, r, j
<1>4. j = 0
  <2>1. CASE j >= 1
    <3>1. j * W >= W
      BY <1>2, <2>1
    <3> QED
      BY <1>1, <1>2, <1>3, <3>1 DEF r
  <2>2. CASE j <= -1
    <3>1. j * W <= -W
      BY <1>2, <2>2
    <3> QED
      BY <1>1, <1>2, <1>3, <3>1 DEF r
  <2> QED
    BY <1>2, <2>1, <2>2
<1> QED
  BY <1>2, <1>3, <1>4 DEF r

\* Counting modulo W, one up or one down.
LEMMA Modulo ==
  ASSUME NEW W \in Nat \ {0}, NEW n \in 0..(W - 1)
  PROVE  /\ (n + 1) % W = IF n + 1 = W THEN 0 ELSE n + 1
         /\ (n - 1) % W = IF n = 0 THEN W - 1 ELSE n - 1
<1> DEFINE up == IF n + 1 = W THEN 0 ELSE n + 1
           down == IF n = 0 THEN W - 1 ELSE n - 1
<1>1. up \in 0..(W - 1) /\ down \in 0..(W - 1)
  OBVIOUS
<1>2. up = n + 1 + 0 * W \/ up = n + 1 + (-1) * W
  OBVIOUS
<1>3. down = n - 1 + 0 * W \/ down = n - 1 + 1 * W
  OBVIOUS
<1> HIDE DEF up, down
<1>4. (n + 1) % W = up /\ (n - 1) % W = down
  BY <1>1, <1>2, <1>3, Remainder
<1> QED
  BY <1>4 DEF up, down

-----------------------------------------------------------------------------
(* LockFreeQueue                                                           *)

\* Calls that have moved an item and not updated all of the statistics.
JustPushed == CountOf(Users, using, {"pushed"})
JustPopped == CountOf(Users, using, {"popped"})
Entering == CountOf(Users, using, {"pushed", "push_counted"})
Leaving == CountOf(Users, using, {"popped", "pop_counted"})

(* Neither of the counters of items wraps, and they tell the length of the  *)
(* channel; the size, which may, tells it up to how often it has wrapped.   *)
MovedInv ==
  /\ enqueued + JustPushed <= MaxItems
  /\ Len(items) = (enqueued + JustPushed) - (dequeued + JustPopped)

SizeInv == \E k \in Int : current_size = Len(items) - Entering + Leaving + k * QueueWord

QueueInv == Queue!TypeOK /\ items \in Seq(Nat) /\ MovedInv /\ SizeInv

QueueSteps == {"idle", "pushed", "push_counted", "popped", "pop_counted"}

\* The module's instance of FiniteSets counts as this module's does.
LEMMA CardinalityOf == ASSUME NEW S PROVE Queue!Cardinality(S) = Cardinality(S)
BY DEF Queue!Cardinality, Cardinality

LEMMA QueueInitially == ASSUME ResourcesAssumption, Queue!Init PROVE QueueInv
<1>1. items = <<>> /\ enqueued = 0 /\ dequeued = 0 /\ current_size = 0
      /\ using = [u \in Users |-> "idle"]
  BY DEF Queue!Init
<1>2. items \in Seq(Nat) /\ Len(items) = 0
  BY <1>1
<1>3. JustPushed = 0 /\ JustPopped = 0 /\ Entering = 0 /\ Leaving = 0
  <2>1. ASSUME NEW S, "idle" \notin S PROVE CountOf(Users, using, S) = 0
    BY <1>1, <2>1, NoneThere
  <2> QED
    BY <2>1 DEF JustPushed, JustPopped, Entering, Leaving
<1>4. MaxItems \in Nat /\ QueueWord \in Nat /\ MaxItems < QueueWord
  BY DEF ResourcesAssumption
<1>5. Queue!TypeOK
  BY <1>1, <1>2, <1>4 DEF Queue!TypeOK
<1>6. MovedInv
  BY <1>1, <1>2, <1>3, <1>4 DEF MovedInv
<1>7. current_size = Len(items) - Entering + Leaving + 0 * QueueWord
  BY <1>1, <1>2, <1>3, <1>4
<1>8. SizeInv
  BY <1>7 DEF SizeInv
<1> QED
  BY <1>2, <1>5, <1>6, <1>8 DEF QueueInv

\* What a step of one user does to the numbers of calls.
LEMMA UserMoved ==
  ASSUME ResourcesAssumption, QueueInv, NEW u \in Users, NEW to \in QueueSteps, Queue!Goto(u, to)
  PROVE  /\ JustPushed \in Nat /\ JustPopped \in Nat /\ Entering \in Nat /\ Leaving \in Nat
         /\ using' \in [Users -> QueueSteps]
         /\ using[u] = "idle" /\ to = "pushed" =>
              JustPushed' = JustPushed + 1 /\ JustPopped' = JustPopped /\ Entering' = Entering + 1 /\ Leaving' = Leaving
         /\ using[u] = "pushed" /\ to = "push_counted" =>
              JustPushed' = JustPushed - 1 /\ JustPopped' = JustPopped /\ Entering' = Entering /\ Leaving' = Leaving
         /\ using[u] = "push_counted" /\ to = "idle" =>
              JustPushed' = JustPushed /\ JustPopped' = JustPopped /\ Entering' = Entering - 1 /\ Leaving' = Leaving
         /\ using[u] = "idle" /\ to = "popped" =>
              JustPushed' = JustPushed /\ JustPopped' = JustPopped + 1 /\ Entering' = Entering /\ Leaving' = Leaving + 1
         /\ using[u] = "popped" /\ to = "pop_counted" =>
              JustPushed' = JustPushed /\ JustPopped' = JustPopped - 1 /\ Entering' = Entering /\ Leaving' = Leaving
         /\ using[u] = "pop_counted" /\ to = "idle" =>
              JustPushed' = JustPushed /\ JustPopped' = JustPopped /\ Entering' = Entering /\ Leaving' = Leaving - 1
<1>1. using \in [Users -> QueueSteps] /\ using' = [using EXCEPT ![u] = to]
  BY DEF QueueInv, Queue!TypeOK, Queue!Goto, QueueSteps
<1>2. using'[u] = to /\ \A v \in Users \ {u} : using'[v] = using[v]
  BY <1>1
<1>3. IsFiniteSet(Users)
  BY DEF ResourcesAssumption
<1>4. ASSUME NEW S
      PROVE  /\ CountOf(Users, using, S) \in Nat
             /\ (using[u] \in S <=> to \in S) => CountOf(Users, using', S) = CountOf(Users, using, S)
             /\ using[u] \in S /\ to \notin S
                  => CountOf(Users, using', S) = CountOf(Users, using, S) - 1
             /\ using[u] \notin S /\ to \in S
                  => CountOf(Users, using', S) = CountOf(Users, using, S) + 1
  <2>1. CountMoved(Users, using, using', S, u)
    BY <1>2, <1>3, OneMoved
  <2> QED
    BY <1>2, <2>1 DEF CountMoved
<1>5. /\ JustPushed \in Nat
      /\ using[u] # "pushed" /\ to = "pushed" => JustPushed' = JustPushed + 1
      /\ using[u] = "pushed" /\ to # "pushed" => JustPushed' = JustPushed - 1
      /\ using[u] # "pushed" /\ to # "pushed" => JustPushed' = JustPushed
  BY <1>4 DEF JustPushed
<1>6. /\ JustPopped \in Nat
      /\ using[u] # "popped" /\ to = "popped" => JustPopped' = JustPopped + 1
      /\ using[u] = "popped" /\ to # "popped" => JustPopped' = JustPopped - 1
      /\ using[u] # "popped" /\ to # "popped" => JustPopped' = JustPopped
  BY <1>4 DEF JustPopped
<1> DEFINE in == {"pushed", "push_counted"}
           out == {"popped", "pop_counted"}
<1>7. /\ Entering \in Nat
      /\ using[u] \notin in /\ to \in in => Entering' = Entering + 1
      /\ using[u] \in in /\ to \notin in => Entering' = Entering - 1
      /\ (using[u] \in in <=> to \in in) => Entering' = Entering
  BY <1>4 DEF Entering
<1>8. /\ Leaving \in Nat
      /\ using[u] \notin out /\ to \in out => Leaving' = Leaving + 1
      /\ using[u] \in out /\ to \notin out => Leaving' = Leaving - 1
      /\ (using[u] \in out <=> to \in out) => Leaving' = Leaving
  BY <1>4 DEF Leaving
<1>9. using' \in [Users -> QueueSteps]
  BY <1>1
<1> QED
  BY <1>5, <1>6, <1>7, <1>8, <1>9

\* Items and calls under way are bounded by all that was pushed.
LEMMA Bounds ==
  ASSUME NEW l \in Nat, NEW e \in Nat, NEW p \in Nat, NEW d \in Nat, NEW q \in Nat,
         NEW M \in Nat, e + p <= M, l = (e + p) - (d + q)
  PROVE  l <= M /\ e <= M /\ d <= M
OBVIOUS

LEMMA QueueKept ==
  ASSUME ResourcesAssumption, QueueInv, Queue!Next
  PROVE  QueueInv'
<1>1. PICK u \in Users : Queue!Push(u) \/ Queue!PushCount(u) \/ Queue!PushSize(u)
                         \/ Queue!Pop(u) \/ Queue!PopCount(u) \/ Queue!PopSize(u)
  BY DEF Queue!Next
<1>2. /\ MaxItems \in Nat /\ QueueWord \in Nat \ {0} /\ MaxItems < QueueWord
      /\ IsFiniteSet(Users)
  BY DEF ResourcesAssumption
<1>3. /\ items \in Seq(Nat) /\ Len(items) \in Nat /\ Len(items) <= MaxItems
      /\ enqueued \in 0..(QueueWord - 1) /\ dequeued \in 0..(QueueWord - 1)
      /\ current_size \in 0..(QueueWord - 1) /\ using \in [Users -> QueueSteps]
  BY DEF QueueInv, Queue!TypeOK, QueueSteps
<1>4. /\ enqueued + JustPushed <= MaxItems
      /\ Len(items) = (enqueued + JustPushed) - (dequeued + JustPopped)
  BY DEF QueueInv, MovedInv
<1>5. PICK k \in Int : current_size = Len(items) - Entering + Leaving + k * QueueWord
  BY DEF QueueInv, SizeInv
<1>6. k * QueueWord \in Int /\ (k + 1) * QueueWord = k * QueueWord + QueueWord
      /\ (k - 1) * QueueWord = k * QueueWord - QueueWord
  BY <1>2
<1>7. ASSUME /\ items' \in Seq(Nat) /\ enqueued' \in Nat /\ dequeued' \in Nat
             /\ current_size' \in 0..(QueueWord - 1) /\ using' \in [Users -> QueueSteps]
             /\ JustPushed' \in Nat /\ JustPopped' \in Nat /\ MovedInv' /\ SizeInv'
      PROVE  QueueInv'
  <2>1. Len(items') \in Nat
    BY <1>7
  <2>2. /\ enqueued' + JustPushed' <= MaxItems
        /\ Len(items') = (enqueued' + JustPushed') - (dequeued' + JustPopped')
    BY <1>7 DEF MovedInv
  <2>3. Len(items') <= MaxItems /\ enqueued' <= MaxItems /\ dequeued' <= MaxItems
    BY <1>2, <1>7, <2>1, <2>2, Bounds
  <2>4. {enqueued', dequeued', current_size'} \subseteq 0..(QueueWord - 1)
    BY <1>2, <1>7, <2>3
  <2>5. Queue!TypeOK'
    BY <1>7, <2>3, <2>4 DEF Queue!TypeOK, QueueSteps
  <2> QED
    BY <1>7, <2>5 DEF QueueInv
<1>8. CASE Queue!Push(u)
  <2>1. /\ items' = Append(items, enqueued) /\ Queue!Goto(u, "pushed") /\ using[u] = "idle"
        /\ UNCHANGED <<enqueued, dequeued, current_size>>
    BY <1>8 DEF Queue!Push
  <2>2. enqueued + JustPushed < MaxItems
    <3>1. {v \in Users : using[v] \in {"pushed"}} = {v \in Users : using[v] = "pushed"}
      OBVIOUS
    <3>2. JustPushed = Cardinality({v \in Users : using[v] = "pushed"})
      BY <3>1 DEF JustPushed, CountOf
    <3>3. enqueued + Cardinality({v \in Users : using[v] = "pushed"}) < MaxItems
      BY <1>8, CardinalityOf DEF Queue!Push
    <3> QED
      BY <3>2, <3>3
  <2>3. "pushed" \in QueueSteps
    BY DEF QueueSteps
  <2>4. /\ JustPushed \in Nat /\ JustPopped \in Nat /\ Entering \in Nat /\ Leaving \in Nat
        /\ JustPushed' = JustPushed + 1 /\ JustPopped' = JustPopped /\ Entering' = Entering + 1
        /\ Leaving' = Leaving /\ using' \in [Users -> QueueSteps]
    BY <2>1, <2>3, UserMoved
  <2>5. items' \in Seq(Nat) /\ Len(items') = Len(items) + 1
    BY <1>3, <2>1
  <2>6. MovedInv'
    BY <1>2, <1>3, <1>4, <2>1, <2>2, <2>4, <2>5 DEF MovedInv
  <2>8. JustPushed' \in Nat /\ JustPopped' \in Nat
    BY <2>4
  <2>7. SizeInv'
    <3>1. current_size' = Len(items') - Entering' + Leaving' + k * QueueWord
      BY <1>3, <1>5, <1>6, <2>1, <2>4, <2>5
    <3> QED
      BY <3>1 DEF SizeInv
  <2> QED
    BY <1>3, <1>7, <2>1, <2>4, <2>5, <2>6, <2>7, <2>8
<1>9. CASE Queue!PushCount(u)
  <2>1. /\ UNCHANGED <<items, dequeued, current_size>> /\ enqueued' = (enqueued + 1) % QueueWord
        /\ Queue!Goto(u, "push_counted") /\ using[u] = "pushed"
    BY <1>9 DEF Queue!PushCount
  <2>2. "push_counted" \in QueueSteps
    BY DEF QueueSteps
  <2>3. /\ JustPushed \in Nat /\ JustPopped \in Nat /\ Entering \in Nat /\ Leaving \in Nat
        /\ JustPushed' = JustPushed - 1 /\ JustPopped' = JustPopped /\ Entering' = Entering
        /\ Leaving' = Leaving /\ using' \in [Users -> QueueSteps]
    BY <2>1, <2>2, UserMoved
  <2>4. JustPushed > 0
    <3>1. /\ IsFiniteSet({v \in Users : using[v] \in {"pushed"}})
          /\ u \in {v \in Users : using[v] \in {"pushed"}}
      BY <1>2, <2>1, FS_Subset
    <3>2. JustPushed # 0
      BY <3>1, FS_EmptySet DEF JustPushed, CountOf
    <3> QED
      BY <2>3, <3>2
  <2>5. enqueued' = enqueued + 1
    <3>1. enqueued + 1 < QueueWord
      BY <1>2, <1>3, <1>4, <2>3, <2>4
    <3>2. (enqueued + 1) % QueueWord = IF enqueued + 1 = QueueWord THEN 0 ELSE enqueued + 1
      BY <1>2, <1>3, Modulo
    <3> QED
      BY <1>2, <1>3, <2>1, <3>1, <3>2
  <2>6. MovedInv' /\ enqueued' \in Nat /\ JustPushed' \in Nat
    BY <1>2, <1>3, <1>4, <2>1, <2>3, <2>4, <2>5 DEF MovedInv
  <2>7. SizeInv'
    <3>1. current_size' = Len(items') - Entering' + Leaving' + k * QueueWord
      BY <1>5, <2>1, <2>3
    <3> QED
      BY <3>1 DEF SizeInv
  <2> QED
    BY <1>3, <1>7, <2>1, <2>3, <2>6, <2>7
<1>10. CASE Queue!PushSize(u)
  <2>1. /\ UNCHANGED <<items, dequeued, enqueued>> /\ current_size' = (current_size + 1) % QueueWord
        /\ Queue!Goto(u, "idle") /\ using[u] = "push_counted"
    BY <1>10 DEF Queue!PushSize
  <2>2. "idle" \in QueueSteps
    BY DEF QueueSteps
  <2>3. /\ JustPushed \in Nat /\ JustPopped \in Nat /\ Entering \in Nat /\ Leaving \in Nat
        /\ JustPushed' = JustPushed /\ JustPopped' = JustPopped /\ Entering' = Entering - 1
        /\ Leaving' = Leaving /\ using' \in [Users -> QueueSteps]
    BY <2>1, <2>2, UserMoved
  <2>4. current_size' = IF current_size + 1 = QueueWord THEN 0 ELSE current_size + 1
    BY <1>2, <1>3, <2>1, Modulo
  <2>5. current_size' \in 0..(QueueWord - 1)
    BY <1>2, <1>3, <2>4
  <2>6. \/ current_size' = Len(items') - Entering' + Leaving' + k * QueueWord
        \/ current_size' = Len(items') - Entering' + Leaving' + (k - 1) * QueueWord
    BY <1>2, <1>3, <1>5, <1>6, <2>1, <2>3, <2>4
  <2>7. SizeInv'
    <3>1. k - 1 \in Int
      OBVIOUS
    <3> QED
      BY <2>6, <3>1 DEF SizeInv
  <2>8. MovedInv'
    BY <1>4, <2>1, <2>3 DEF MovedInv
  <2> QED
    BY <1>3, <1>7, <2>1, <2>3, <2>5, <2>7, <2>8
<1>11. CASE Queue!Pop(u)
  <2>1. /\ items # <<>> /\ items' = Tail(items) /\ Queue!Goto(u, "popped") /\ using[u] = "idle"
        /\ UNCHANGED <<enqueued, dequeued, current_size>>
    BY <1>11 DEF Queue!Pop
  <2>2. "popped" \in QueueSteps
    BY DEF QueueSteps
  <2>3. /\ JustPushed \in Nat /\ JustPopped \in Nat /\ Entering \in Nat /\ Leaving \in Nat
        /\ JustPushed' = JustPushed /\ JustPopped' = JustPopped + 1 /\ Entering' = Entering
        /\ Leaving' = Leaving + 1 /\ using' \in [Users -> QueueSteps]
    BY <2>1, <2>2, UserMoved
  <2>4. items' \in Seq(Nat) /\ Len(items') = Len(items) - 1
    BY <1>3, <2>1
  <2>5. MovedInv'
    BY <1>2, <1>3, <1>4, <2>1, <2>3, <2>4 DEF MovedInv
  <2>6. SizeInv'
    <3>1. current_size' = Len(items') - Entering' + Leaving' + k * QueueWord
      BY <1>3, <1>5, <1>6, <2>1, <2>3, <2>4
    <3> QED
      BY <3>1 DEF SizeInv
  <2> QED
    BY <1>3, <1>7, <2>1, <2>3, <2>4, <2>5, <2>6
<1>12. CASE Queue!PopCount(u)
  <2>1. /\ UNCHANGED <<items, enqueued, current_size>> /\ dequeued' = (dequeued + 1) % QueueWord
        /\ Queue!Goto(u, "pop_counted") /\ using[u] = "popped"
    BY <1>12 DEF Queue!PopCount
  <2>2. "pop_counted" \in QueueSteps
    BY DEF QueueSteps
  <2>3. /\ JustPushed \in Nat /\ JustPopped \in Nat /\ Entering \in Nat /\ Leaving \in Nat
        /\ JustPushed' = JustPushed /\ JustPopped' = JustPopped - 1 /\ Entering' = Entering
        /\ Leaving' = Leaving /\ using' \in [Users -> QueueSteps]
    BY <2>1, <2>2, UserMoved
  <2>4. JustPopped > 0
    <3>1. /\ IsFiniteSet({v \in Users : using[v] \in {"popped"}})
          /\ u \in {v \in Users : using[v] \in {"popped"}}
      BY <1>2, <2>1, FS_Subset
    <3>2. JustPopped # 0
      BY <3>1, FS_EmptySet DEF JustPopped, CountOf
    <3> QED
      BY <2>3, <3>2
  <2>5. dequeued' = dequeued + 1
    <3>1. dequeued + 1 < QueueWord
      BY <1>2, <1>3, <1>4, <2>3, <2>4
    <3>2. (dequeued + 1) % QueueWord = IF dequeued + 1 = QueueWord THEN 0 ELSE dequeued + 1
      BY <1>2, <1>3, Modulo
    <3> QED
      BY <1>2, <1>3, <2>1, <3>1, <3>2
  <2>6. MovedInv' /\ dequeued' \in Nat /\ JustPopped' \in Nat
    <3>1. items' = items /\ enqueued' = enqueued
      BY <2>1
    <3>2. dequeued' \in Nat /\ JustPopped' \in Nat
      BY <1>3, <2>3, <2>4, <2>5
    <3>3. dequeued' + JustPopped' = dequeued + JustPopped
      BY <1>3, <2>3, <2>5
    <3> QED
      BY <1>4, <2>3, <3>1, <3>2, <3>3 DEF MovedInv
  <2>7. SizeInv'
    <3>1. current_size' = Len(items') - Entering' + Leaving' + k * QueueWord
      BY <1>5, <2>1, <2>3
    <3> QED
      BY <3>1 DEF SizeInv
  <2> QED
    BY <1>3, <1>7, <2>1, <2>3, <2>6, <2>7
<1>13. CASE Queue!PopSize(u)
  <2>1. /\ UNCHANGED <<items, dequeued, enqueued>> /\ current_size' = (current_size - 1) % QueueWord
        /\ Queue!Goto(u, "idle") /\ using[u] = "pop_counted"
    BY <1>13 DEF Queue!PopSize
  <2>2. "idle" \in QueueSteps
    BY DEF QueueSteps
  <2>3. /\ JustPushed \in Nat /\ JustPopped \in Nat /\ Entering \in Nat /\ Leaving \in Nat
        /\ JustPushed' = JustPushed /\ JustPopped' = JustPopped /\ Entering' = Entering
        /\ Leaving' = Leaving - 1 /\ using' \in [Users -> QueueSteps]
    BY <2>1, <2>2, UserMoved
  <2>4. current_size' = IF current_size = 0 THEN QueueWord - 1 ELSE current_size - 1
    BY <1>2, <1>3, <2>1, Modulo
  <2>5. current_size' \in 0..(QueueWord - 1)
    BY <1>2, <1>3, <2>4
  <2>6. \/ current_size' = Len(items') - Entering' + Leaving' + k * QueueWord
        \/ current_size' = Len(items') - Entering' + Leaving' + (k + 1) * QueueWord
    BY <1>2, <1>3, <1>5, <1>6, <2>1, <2>3, <2>4
  <2>7. SizeInv'
    <3>1. k + 1 \in Int
      OBVIOUS
    <3> QED
      BY <2>6, <3>1 DEF SizeInv
  <2>8. MovedInv'
    BY <1>4, <2>1, <2>3 DEF MovedInv
  <2> QED
    BY <1>3, <1>7, <2>1, <2>3, <2>5, <2>7, <2>8
<1> QED
  BY <1>1, <1>8, <1>9, <1>10, <1>11, <1>12, <1>13

LEMMA QueueStays == ASSUME QueueInv, UNCHANGED queueVars PROVE QueueInv'
<1>1. Queue!TypeOK' /\ items' \in Seq(Nat)
  BY DEF QueueInv, queueVars, Queue!TypeOK
<1>2. MovedInv' /\ SizeInv'
  BY DEF QueueInv, queueVars, MovedInv, SizeInv, JustPushed, JustPopped, Entering, Leaving
<1> QED
  BY <1>1, <1>2 DEF QueueInv

LEMMA QueuePromises ==
  ASSUME ResourcesAssumption, QueueInv
  PROVE  Queue!SizeAccounted
<1>1. /\ QueueWord \in Nat \ {0} /\ MaxItems < QueueWord /\ MaxItems \in Nat /\ IsFiniteSet(Users)
  BY DEF ResourcesAssumption
<1>2. /\ Len(items) \in Nat /\ current_size \in 0..(QueueWord - 1)
      /\ enqueued \in Nat /\ dequeued \in Nat
  BY <1>1 DEF QueueInv, Queue!TypeOK
<1>3. JustPushed \in Nat /\ JustPopped \in Nat /\ Entering \in Nat /\ Leaving \in Nat
  <2>1. ASSUME NEW S PROVE CountOf(Users, using, S) \in Nat
    <3>1. IsFiniteSet({u \in Users : using[u] \in S})
      BY <1>1, FS_Subset
    <3> QED
      BY <3>1, FS_CardinalityType DEF CountOf
  <2> QED
    BY <2>1 DEF JustPushed, JustPopped, Entering, Leaving
<1>4. current_size = (Len(items) - Entering + Leaving) % QueueWord
  <2> DEFINE m == Len(items) - Entering + Leaving
  <2>1. m \in Int
    BY <1>2, <1>3
  <2>2. PICK k \in Int : current_size = m + k * QueueWord
    BY DEF QueueInv, SizeInv
  <2> HIDE DEF m
  <2>3. current_size = m % QueueWord
    BY <1>1, <1>2, <2>1, <2>2, Remainder
  <2> QED
    BY <2>3 DEF m
<1>5. enqueued - dequeued = Len(items) - JustPushed + JustPopped
  BY <1>2, <1>3 DEF QueueInv, MovedInv
<1>6. /\ current_size = (Len(items) - Entering + Leaving) % QueueWord
      /\ (enqueued - dequeued) % QueueWord = (Len(items) - JustPushed + JustPopped) % QueueWord
  BY <1>4, <1>5
<1>7. /\ current_size = (Len(items) - Cardinality({u \in Users : using[u] \in {"pushed", "push_counted"}})
            + Cardinality({u \in Users : using[u] \in {"popped", "pop_counted"}})) % QueueWord
      /\ (enqueued - dequeued) % QueueWord
           = (Len(items) - Cardinality({u \in Users : using[u] \in {"pushed"}})
                + Cardinality({u \in Users : using[u] \in {"popped"}})) % QueueWord
  BY <1>6, Zenon DEF JustPushed, JustPopped, Entering, Leaving, CountOf
<1> QED
  BY <1>7, CardinalityOf, Zenon DEF Queue!SizeAccounted

-----------------------------------------------------------------------------
(* MemoryPool                                                              *)

\* Induction on the naturals, for a set.
LEMMA NatSet ==
  ASSUME NEW A, 0 \in A, \A n \in Nat : n \in A => n + 1 \in A
  PROVE  Nat \subseteq A
<1> DEFINE T == Nat \ A
<1> SUFFICES ASSUME T # {} PROVE FALSE
  OBVIOUS
<1> DEFINE R == OpToRel(<, Nat)
<1>1. T \subseteq Nat
  OBVIOUS
<1>2. IsWellFoundedOn(R, Nat)
  BY NatLessThanWellFounded, Zenon
<1> HIDE DEF R, T
<1>3. PICK n \in T : \A m \in T : ~(<<m, n>> \in R)
  BY <1>1, <1>2, WFMin
<1>4. n # 0 /\ n \in Nat
  BY DEF T
<1>5. n - 1 \in Nat /\ n - 1 < n /\ (n - 1) + 1 = n
  BY <1>4
<1>6. n - 1 \in T
  BY <1>4, <1>5 DEF T
<1>7. <<n - 1, n>> \in R
  BY <1>4, <1>5 DEF R, OpToRel
<1> QED
  BY <1>3, <1>6, <1>7

(* Sums of sequences of numbers, from the first on.                         *)
SumsTo(n, g, f) == f = [c \in 0..n |-> IF c = 0 THEN 0 ELSE f[c - 1] + g[c]]
SumTo(n, g) == CHOOSE f : SumsTo(n, g, f)
ClassCount == Len(SizeClasses)

LEMMA SumIsSumTo ==
  ASSUME NEW g
  PROVE  Memory!Sum(g) = SumTo(ClassCount, g)[ClassCount]
BY DEF Memory!Sum, SumTo, SumsTo, ClassCount

LEMMA SumsExist ==
  ASSUME NEW n \in Nat, NEW g
  PROVE  SumsTo(n, g, SumTo(n, g))
<1> DEFINE A == {m \in Nat : \E f : SumsTo(m, g, f)}
<1>1. 0 \in A
  <2> DEFINE f == [c \in 0..0 |-> 0]
  <2>1. SumsTo(0, g, f)
    BY DEF SumsTo
  <2> QED
    BY <2>1
<1>2. ASSUME NEW m \in Nat, m \in A PROVE m + 1 \in A
  <2> PICK f : SumsTo(m, g, f)
    BY <1>2
  <2> DEFINE e == [c \in 0..(m + 1) |-> IF c = m + 1 THEN f[m] + g[m + 1] ELSE f[c]]
  <2>1. f = [c \in 0..m |-> IF c = 0 THEN 0 ELSE f[c - 1] + g[c]]
    BY DEF SumsTo
  <2>2. ASSUME NEW c \in 0..(m + 1) PROVE e[c] = IF c = 0 THEN 0 ELSE e[c - 1] + g[c]
    <3>1. CASE c = m + 1
      <4>1. c # 0 /\ c - 1 \in 0..(m + 1) /\ c - 1 # m + 1 /\ c - 1 = m
        BY <3>1
      <4> QED
        BY <3>1, <4>1
    <3>2. CASE c # m + 1
      <4>1. c \in 0..m /\ (c # 0 => c - 1 \in 0..(m + 1) /\ c - 1 # m + 1)
        BY <3>2
      <4>2. f[c] = IF c = 0 THEN 0 ELSE f[c - 1] + g[c]
        BY <2>1, <4>1
      <4> QED
        BY <3>2, <4>1, <4>2
    <3> QED
      BY <3>1, <3>2
  <2>3. e = [c \in 0..(m + 1) |-> e[c]]
    OBVIOUS
  <2> HIDE DEF e
  <2>4. e = [c \in 0..(m + 1) |-> IF c = 0 THEN 0 ELSE e[c - 1] + g[c]]
    BY <2>2, <2>3
  <2>5. SumsTo(m + 1, g, e)
    BY <2>4 DEF SumsTo
  <2> QED
    BY <2>5
<1>3. n \in A
  <2> HIDE DEF A
  <2> QED
    BY <1>1, <1>2, NatSet
<1> QED
  BY <1>3 DEF SumTo

\* The sum up to c, which is that of the sequence when c is its length.
LEMMA SumStep ==
  ASSUME NEW n \in Nat, NEW g
  PROVE  /\ SumTo(n, g)[0] = 0
         /\ \A c \in 1..n : SumTo(n, g)[c] = SumTo(n, g)[c - 1] + g[c]
<1> DEFINE f == SumTo(n, g)
<1>1. f = [c \in 0..n |-> IF c = 0 THEN 0 ELSE f[c - 1] + g[c]]
  BY SumsExist DEF SumsTo
<1> HIDE DEF f
<1>2. f[0] = 0
  BY <1>1
<1>3. \A c \in 1..n : f[c] = f[c - 1] + g[c]
  BY <1>1
<1> QED
  BY <1>2, <1>3 DEF f

Numbers(n, g) == \A c \in 1..n : g[c] \in Int

LEMMA SumInt ==
  ASSUME NEW n \in Nat, NEW g, Numbers(n, g)
  PROVE  \A m \in 0..n : SumTo(n, g)[m] \in Int
<1> DEFINE f == SumTo(n, g)
           A == {m \in Nat : m <= n => f[m] \in Int}
<1>1. f[0] = 0 /\ \A c \in 1..n : f[c] = f[c - 1] + g[c]
  BY SumStep
<1> HIDE DEF f
<1>2. 0 \in A
  BY <1>1
<1>3. ASSUME NEW m \in Nat, m \in A PROVE m + 1 \in A
  <2> SUFFICES ASSUME m + 1 <= n PROVE f[m + 1] \in Int
    OBVIOUS
  <2> DEFINE c == m + 1
  <2>1. c \in 1..n /\ c - 1 = m /\ m <= n
    OBVIOUS
  <2> HIDE DEF c
  <2>2. f[c] = f[m] + g[c] /\ f[m] \in Int /\ g[c] \in Int
    BY <1>1, <1>3, <2>1 DEF Numbers
  <2>3. f[c] \in Int
    BY <2>2
  <2> QED
    BY <2>3 DEF c
<1>4. Nat \subseteq A
  <2> HIDE DEF A
  <2> QED
    BY <1>2, <1>3, NatSet
<1> QED
  BY <1>4 DEF f

ChangedBy(n, g, h, k, d) == \A c \in 1..n : h[c] = IF c = k THEN g[c] + d ELSE g[c]

\* One number changes by d, and so does the sum.
LEMMA SumChanges ==
  ASSUME NEW n \in Nat, NEW g, NEW h, Numbers(n, g), NEW k \in 1..n, NEW d \in Int,
         ChangedBy(n, g, h, k, d)
  PROVE  SumTo(n, h)[n] = SumTo(n, g)[n] + d
<1> DEFINE e == SumTo(n, g)  f == SumTo(n, h)
           A == {m \in Nat : m <= n => f[m] = IF m < k THEN e[m] ELSE e[m] + d}
<1>1. /\ e[0] = 0 /\ \A c \in 1..n : e[c] = e[c - 1] + g[c]
      /\ f[0] = 0 /\ \A c \in 1..n : f[c] = f[c - 1] + h[c]
  BY SumStep
<1>2. \A m \in 0..n : e[m] \in Int
  BY SumInt
<1> HIDE DEF e, f
<1>3. 0 \in A
  BY <1>1
<1>4. ASSUME NEW m \in Nat, m \in A PROVE m + 1 \in A
  <2> SUFFICES ASSUME m + 1 <= n
               PROVE  f[m + 1] = IF m + 1 < k THEN e[m + 1] ELSE e[m + 1] + d
    OBVIOUS
  <2> DEFINE c == m + 1
  <2>1. c \in 1..n /\ c - 1 = m /\ m <= n /\ c \in Int
    OBVIOUS
  <2>2. (m < k <=> c <= k) /\ c = m + 1
    OBVIOUS
  <2> HIDE DEF c
  <2>3. f[c] = f[m] + h[c] /\ e[c] = e[m] + g[c] /\ g[c] \in Int /\ e[m] \in Int
    BY <1>1, <1>2, <2>1 DEF Numbers
  <2>4. f[m] = IF m < k THEN e[m] ELSE e[m] + d
    BY <1>4, <2>1
  <2>5. h[c] = IF c = k THEN g[c] + d ELSE g[c]
    BY <2>1 DEF ChangedBy
  <2>6. f[c] = IF c < k THEN e[c] ELSE e[c] + d
    <3>1. CASE c < k
      BY <2>1, <2>2, <2>3, <2>4, <2>5, <3>1
    <3>2. CASE c = k
      BY <2>1, <2>2, <2>3, <2>4, <2>5, <3>2
    <3>3. CASE c > k
      BY <2>1, <2>2, <2>3, <2>4, <2>5, <3>3
    <3> QED
      BY <2>1, <3>1, <3>2, <3>3
  <2> QED
    BY <2>6 DEF c
<1>5. Nat \subseteq A
  <2> HIDE DEF A
  <2> QED
    BY <1>3, <1>4, NatSet
<1>6. f[n] = IF n < k THEN e[n] ELSE e[n] + d
  BY <1>5
<1> QED
  BY <1>6 DEF e, f

\* Larger numbers have a larger sum.
LEMMA SumGrows ==
  ASSUME NEW n \in Nat, NEW g, NEW h, Numbers(n, g), Numbers(n, h), \A c \in 1..n : g[c] <= h[c]
  PROVE  SumTo(n, g)[n] <= SumTo(n, h)[n]
<1> DEFINE e == SumTo(n, g)  f == SumTo(n, h)
           A == {m \in Nat : m <= n => e[m] <= f[m]}
<1>1. /\ e[0] = 0 /\ \A c \in 1..n : e[c] = e[c - 1] + g[c]
      /\ f[0] = 0 /\ \A c \in 1..n : f[c] = f[c - 1] + h[c]
  BY SumStep
<1>2. \A m \in 0..n : e[m] \in Int /\ f[m] \in Int
  BY SumInt
<1> HIDE DEF e, f
<1>3. 0 \in A
  BY <1>1
<1>4. ASSUME NEW m \in Nat, m \in A PROVE m + 1 \in A
  <2> SUFFICES ASSUME m + 1 <= n PROVE e[m + 1] <= f[m + 1]
    OBVIOUS
  <2> DEFINE c == m + 1
  <2>1. c \in 1..n /\ c - 1 = m /\ m <= n /\ m \in 0..n
    OBVIOUS
  <2> HIDE DEF c
  <2>2. /\ f[c] = f[m] + h[c] /\ e[c] = e[m] + g[c] /\ g[c] \in Int /\ h[c] \in Int
        /\ e[m] \in Int /\ f[m] \in Int /\ e[m] <= f[m] /\ g[c] <= h[c]
    BY <1>1, <1>2, <1>4, <2>1 DEF Numbers
  <2>3. e[c] <= f[c]
    BY <2>2
  <2> QED
    BY <2>3 DEF c
<1>5. Nat \subseteq A
  <2> HIDE DEF A
  <2> QED
    BY <1>3, <1>4, NatSet
<1>6. e[n] <= f[n]
  BY <1>5
<1> QED
  BY <1>6 DEF e, f

\* The sum of nothing is nothing.
LEMMA SumOfNone ==
  ASSUME NEW n \in Nat, NEW g, \A c \in 1..n : g[c] = 0
  PROVE  SumTo(n, g)[n] = 0
<1> DEFINE f == SumTo(n, g)
           A == {m \in Nat : m <= n => f[m] = 0}
<1>1. f[0] = 0 /\ \A c \in 1..n : f[c] = f[c - 1] + g[c]
  BY SumStep
<1> HIDE DEF f
<1>2. 0 \in A
  BY <1>1
<1>3. ASSUME NEW m \in Nat, m \in A PROVE m + 1 \in A
  <2> SUFFICES ASSUME m + 1 <= n PROVE f[m + 1] = 0
    OBVIOUS
  <2> DEFINE c == m + 1
  <2>1. c \in 1..n /\ c - 1 = m /\ m <= n
    OBVIOUS
  <2> HIDE DEF c
  <2>2. f[c] = f[m] + g[c] /\ f[m] = 0 /\ g[c] = 0
    BY <1>1, <1>3, <2>1
  <2>3. f[c] = 0
    BY <2>2
  <2> QED
    BY <2>3 DEF c
<1>4. Nat \subseteq A
  <2> HIDE DEF A
  <2> QED
    BY <1>2, <1>3, NatSet
<1>5. f[n] = 0
  BY <1>4
<1> QED
  BY <1>5 DEF f

\* One of several naturals is at most their sum.
LEMMA SumCovers ==
  ASSUME NEW n \in Nat, NEW g, NEW k \in 1..n, \A c \in 1..n : g[c] \in Nat
  PROVE  g[k] <= SumTo(n, g)[n]
<1> DEFINE none == [c \in 1..n |-> 0]
           one == [c \in 1..n |-> IF c = k THEN g[k] ELSE 0]
<1>1. SumTo(n, none)[n] = 0
  <2>1. \A c \in 1..n : none[c] = 0
    OBVIOUS
  <2> HIDE DEF none
  <2> QED
    BY <2>1, SumOfNone
<1>2. SumTo(n, one)[n] = SumTo(n, none)[n] + g[k]
  <2> DEFINE d == g[k]
  <2>1. Numbers(n, none) /\ ChangedBy(n, none, one, k, d)
    BY DEF Numbers, ChangedBy
  <2>2. d \in Int
    OBVIOUS
  <2> HIDE DEF none, one, d
  <2>3. SumTo(n, one)[n] = SumTo(n, none)[n] + d
    BY <2>1, <2>2, SumChanges
  <2> QED
    BY <2>3 DEF d
<1>3. SumTo(n, one)[n] <= SumTo(n, g)[n]
  <2>1. Numbers(n, g) /\ Numbers(n, one) /\ \A c \in 1..n : one[c] <= g[c]
    BY DEF Numbers
  <2> HIDE DEF one
  <2> QED
    BY <2>1, SumGrows
<1>4. SumTo(n, one)[n] = g[k]
  BY <1>1, <1>2
<1> HIDE DEF one
<1> QED
  BY <1>3, <1>4

-----------------------------------------------------------------------------
(* The calls of the memory pool that are at one of these steps, for a class.*)
Tally(steps, c) == CountOf(Callers, task, [step : steps, class : {c}])

CallerCount == Cardinality(Callers)
Most(c) == max_cached[SizeClasses[c]] + CallerCount - 1

(* A cache exceeds its limit by no more than the other tasks have under way;*)
(* its counter tells its length up to the calls that have not counted yet,  *)
(* and up to how often it has wrapped.                                      *)
CacheInv(c) ==
  /\ buffers[c] + Tally({"push"}, c) <= Most(c)
  /\ \E k \in Int : cached[c] = buffers[c] + Tally({"hit", "clearCount"}, c)
                                - Tally({"count"}, c) + k * MemoryWord

(* What the total counts of a class.                                        *)
Due(c) == buffers[c] + Tally({"hit", "hitTotal"}, c) - Tally({"count", "countTotal"}, c)

ClearSteps == {"clear", "clearCount", "reset"}
CachedTotalInv ==
  (~overtaken /\ \A t \in Callers : task[t].step \notin ClearSteps)
    => \E k \in Int : cachedTotal = Memory!Space([c \in Memory!Classes |-> Due(c)]) + k * MemoryWord

MemoryInv == Memory!TypeOK /\ (\A c \in Memory!Classes : CacheInv(c)) /\ CachedTotalInv

LEMMA MemoryConstants ==
  ASSUME ResourcesAssumption, MemoryAssumption
  PROVE  /\ ClassCount \in Nat /\ ClassCount >= 1 /\ Memory!Classes = 1..ClassCount
         /\ CallerCount \in Nat /\ CallerCount >= 1 /\ IsFiniteSet(Callers)
         /\ MemoryWord \in Nat \ {0} /\ MaxHeld \in Nat
         /\ \A c \in 1..ClassCount :
              /\ max_cached[SizeClasses[c]] \in Nat /\ Most(c) \in Nat
              /\ max_cached[SizeClasses[c]] + 2 * CallerCount <= MemoryWord
              /\ preallocated[SizeClasses[c]] \in 0..Most(c)
              /\ Memory!Capacity(c) \in Nat
         /\ Memory!Space([c \in 1..ClassCount |-> Most(c)]) < MemoryWord
<1>1. ClassCount \in Nat /\ ClassCount >= 1
  <2>1. ClassCount \in Nat /\ ClassCount # 0
    BY EmptySeq, LenProperties DEF MemoryAssumption, ClassCount
  <2> QED
    BY <2>1
<1>2. Memory!Classes = 1..ClassCount
  BY DEF Memory!Classes, ClassCount
<1>3. IsFiniteSet(Callers) /\ Callers # {} /\ CallerCount \in Nat /\ CallerCount # 0
  <2>1. IsFiniteSet(Callers) /\ Callers # {}
    BY DEF ResourcesAssumption, MemoryAssumption
  <2> QED
    BY <2>1, FS_CardinalityType, FS_EmptySet DEF CallerCount
<1> DEFINE most == [c \in 1..ClassCount |-> Most(c)]
<1>4. /\ MaxHeld \in Nat /\ MemoryWord \in Nat
      /\ \A c \in 1..ClassCount :
              /\ max_cached[SizeClasses[c]] \in Nat
              /\ max_cached[SizeClasses[c]] + 2 * CallerCount <= MemoryWord
              /\ preallocated[SizeClasses[c]] \in 0..most[c]
              /\ capacity[SizeClasses[c]] \in Nat
      /\ Memory!Space(most) < MemoryWord
  BY <1>2 DEF MemoryAssumption, Most, CallerCount
<1>5. \A c \in 1..ClassCount : Memory!Capacity(c) \in Nat /\ Most(c) \in Nat /\ most[c] = Most(c)
  BY <1>3, <1>4 DEF Memory!Capacity, Most
<1>6. MemoryWord # 0
  <2>1. 1 \in 1..ClassCount
    BY <1>1
  <2> DEFINE m == max_cached[SizeClasses[1]]
  <2>2. m \in Nat /\ m + 2 * CallerCount <= MemoryWord
    BY <1>4, <2>1
  <2> HIDE DEF m
  <2> QED
    BY <1>3, <1>4, <2>2
<1> HIDE DEF most
<1>7. CallerCount >= 1
  BY <1>3
<1>8. \A c \in 1..ClassCount : preallocated[SizeClasses[c]] \in 0..Most(c)
  BY <1>4, <1>5
<1> QED
  BY <1>1, <1>2, <1>3, <1>4, <1>5, <1>6, <1>7, <1>8 DEF most

(* How the tallies change when t moves on to a step.                        *)
Tallied(t, to, c) ==
  \A steps, d :
    /\ Tally(steps, d) \in Nat /\ Tally(steps, d)' \in Nat
    /\ ((task[t].step \in steps /\ task[t].class = d) <=> (to \in steps /\ c = d))
         => Tally(steps, d)' = Tally(steps, d)
    /\ (task[t].step \in steps /\ task[t].class = d) /\ ~(to \in steps /\ c = d)
         => Tally(steps, d)' = Tally(steps, d) - 1
    /\ ~(task[t].step \in steps /\ task[t].class = d) /\ (to \in steps /\ c = d)
         => Tally(steps, d)' = Tally(steps, d) + 1

MemorySteps == {"idle", "hit", "hitTotal", "push", "count", "countTotal",
                "clear", "clearCount", "reset", "shrink"}

LEMMA TaskMoved ==
  ASSUME ResourcesAssumption, MemoryAssumption,
         task \in [Callers -> [step : MemorySteps, class : Memory!Classes]],
         NEW t \in Callers, NEW to \in MemorySteps, NEW c \in Memory!Classes, Memory!Goto(t, to, c)
  PROVE  /\ task' \in [Callers -> [step : MemorySteps, class : Memory!Classes]]
         /\ task'[t] = [step |-> to, class |-> c] /\ \A u \in Callers \ {t} : task'[u] = task[u]
         /\ Tallied(t, to, c)
<1> DEFINE r == [step |-> to, class |-> c]
<1>1. task' = [task EXCEPT ![t] = r]
  BY DEF Memory!Goto
<1>2. r \in [step : MemorySteps, class : Memory!Classes]
  OBVIOUS
<1>3. task'[t] = r /\ \A u \in Callers \ {t} : task'[u] = task[u]
  BY <1>1
<1>4. ASSUME NEW steps, NEW d
      PROVE  /\ task[t] \in [step : steps, class : {d}] <=> (task[t].step \in steps /\ task[t].class = d)
             /\ task'[t] \in [step : steps, class : {d}] <=> (to \in steps /\ c = d)
             /\ CountMoved(Callers, task, task', [step : steps, class : {d}], t)
  <2>1. task[t] \in [step : MemorySteps, class : Memory!Classes]
    OBVIOUS
  <2>2. task[t] \in [step : steps, class : {d}] <=> (task[t].step \in steps /\ task[t].class = d)
    BY <2>1
  <2>3. task'[t] \in [step : steps, class : {d}] <=> (to \in steps /\ c = d)
    BY <1>3
  <2>4. IsFiniteSet(Callers)
    BY MemoryConstants
  <2> DEFINE S == [step : steps, class : {d}]
  <2> HIDE DEF S
  <2>5. CountMoved(Callers, task, task', S, t)
    BY <1>3, <2>4, OneMoved
  <2> QED
    BY <2>2, <2>3, <2>5 DEF S
<1>5. Tallied(t, to, c)
  <2> SUFFICES ASSUME NEW steps, NEW d
               PROVE  /\ Tally(steps, d) \in Nat /\ Tally(steps, d)' \in Nat
                      /\ ((task[t].step \in steps /\ task[t].class = d) <=> (to \in steps /\ c = d))
                           => Tally(steps, d)' = Tally(steps, d)
                      /\ (task[t].step \in steps /\ task[t].class = d) /\ ~(to \in steps /\ c = d)
                           => Tally(steps, d)' = Tally(steps, d) - 1
                      /\ ~(task[t].step \in steps /\ task[t].class = d) /\ (to \in steps /\ c = d)
                           => Tally(steps, d)' = Tally(steps, d) + 1
    BY DEF Tallied
  <2> DEFINE S == [step : steps, class : {d}]
             x == CountOf(Callers, task, S)  y == CountOf(Callers, task', S)
  <2>1. Tally(steps, d) = x /\ Tally(steps, d)' = y
    BY DEF Tally
  <2>2. /\ task[t] \in S <=> (task[t].step \in steps /\ task[t].class = d)
        /\ task'[t] \in S <=> (to \in steps /\ c = d)
        /\ CountMoved(Callers, task, task', S, t)
    BY <1>4
  <2> HIDE DEF S
  <2> QED
    BY <2>1, <2>2 DEF CountMoved
<1>6. task' \in [Callers -> [step : MemorySteps, class : Memory!Classes]]
  BY <1>1, <1>2
<1> QED
  BY <1>3, <1>5, <1>6

\* Calls of two kinds are no more than the other callers.
LEMMA TalliesBound ==
  ASSUME ResourcesAssumption, MemoryAssumption, NEW S1, NEW S2, NEW c
  PROVE  /\ Tally(S1, c) \in Nat /\ Tally(S1, c) <= CallerCount
         /\ S1 \cap S2 = {} =>
              \A t \in Callers : task[t].step \notin S1 \cup S2
                                   => Tally(S1, c) + Tally(S2, c) <= CallerCount - 1
<1> DEFINE A == {t \in Callers : task[t] \in [step : S1, class : {c}]}
           B == {t \in Callers : task[t] \in [step : S2, class : {c}]}
<1>1. IsFiniteSet(Callers) /\ CallerCount \in Nat
  BY MemoryConstants
<1>2. A \subseteq Callers /\ B \subseteq Callers
  OBVIOUS
<1>3. \A t \in A : task[t].step \in S1
  OBVIOUS
<1>4. \A t \in B : task[t].step \in S2
  OBVIOUS
<1>5. Tally(S1, c) = Cardinality(A) /\ Tally(S2, c) = Cardinality(B)
  BY DEF Tally, CountOf
<1> HIDE DEF A, B
<1>6. /\ IsFiniteSet(A) /\ IsFiniteSet(B) /\ Cardinality(A) \in Nat /\ Cardinality(B) \in Nat
      /\ Cardinality(A) <= CallerCount
  BY <1>1, <1>2, FS_Subset, FS_CardinalityType DEF CallerCount
<1>7. ASSUME S1 \cap S2 = {}, NEW t \in Callers, task[t].step \notin S1 \cup S2
      PROVE  Cardinality(A) + Cardinality(B) <= CallerCount - 1
  <2>1. A \cap B = {} /\ t \notin A \cup B /\ A \cup B \subseteq Callers \ {t}
    BY <1>2, <1>3, <1>4, <1>7
  <2>2. IsFiniteSet(A \cup B) /\ Cardinality(A \cup B) = Cardinality(A) + Cardinality(B)
    <3>1. IsFiniteSet(A \cup B)
          /\ Cardinality(A \cup B) = Cardinality(A) + Cardinality(B) - Cardinality(A \cap B)
      BY <1>6, FS_Union
    <3>2. Cardinality(A \cap B) = 0
      BY <2>1, FS_EmptySet
    <3> QED
      BY <1>6, <3>1, <3>2
  <2>3. IsFiniteSet(Callers \ {t}) /\ Cardinality(Callers \ {t}) = CallerCount - 1
    BY <1>1, FS_RemoveElement DEF CallerCount
  <2>4. Cardinality(A \cup B) <= Cardinality(Callers \ {t})
    BY <2>1, <2>3, FS_Subset
  <2> QED
    BY <2>2, <2>3, <2>4
<1> QED
  BY <1>5, <1>6, <1>7

\* Adding and subtracting modulo the word differ from doing so by some words.
LEMMA CountersWrap ==
  ASSUME ResourcesAssumption, MemoryAssumption, NEW n \in 0..(MemoryWord - 1), NEW d \in Nat
  PROVE  /\ Memory!Add(n, d) \in 0..(MemoryWord - 1)
         /\ \E k \in Int : Memory!Add(n, d) = n + d + k * MemoryWord
         /\ Memory!Subtract(n, d) \in 0..(MemoryWord - 1)
         /\ \E k \in Int : Memory!Subtract(n, d) = n - d + k * MemoryWord
<1> DEFINE W == MemoryWord
<1>1. W \in Nat \ {0}
  BY MemoryConstants
<1> HIDE DEF W
<1>2. \A x \in Int : x % W \in 0..(W - 1) /\ \E k \in Int : x % W = x + k * W
  <2> TAKE x \in Int
  <2>1. x % W \in 0..(W - 1) /\ x \div W \in Int /\ x = ((x \div W) * W) + (x % W)
    BY <1>1
  <2> DEFINE q == x \div W  k == -q
  <2>2. k \in Int /\ k * W = -(q * W) /\ q * W \in Int
    BY <1>1, <2>1
  <2>3. x = q * W + (x % W)
    BY <2>1
  <2> HIDE DEF q, k
  <2>4. x % W = x + k * W
    BY <2>1, <2>2, <2>3
  <2> QED
    BY <2>1, <2>2, <2>4
<1>3. /\ Memory!Add(n, d) \in 0..(W - 1)
      /\ \E k \in Int : Memory!Add(n, d) = n + d + k * W
  <2>1. Memory!Add(n, d) = (n + d) % W
    BY DEF Memory!Add, W
  <2>2. n + d \in Int
    OBVIOUS
  <2> QED
    BY <1>2, <2>1, <2>2
<1>4. /\ Memory!Subtract(n, d) \in 0..(W - 1)
      /\ \E k \in Int : Memory!Subtract(n, d) = n - d + k * W
  <2> DEFINE r == d % W  x == n + W - r
  <2>1. r \in Int /\ \E i \in Int : r = d + i * W
    <3>1. d \in Int
      OBVIOUS
    <3>2. r \in 0..(W - 1) /\ \E k \in Int : r = d + k * W
      BY <1>2, <3>1, Zenon
    <3> HIDE DEF r
    <3>3. r \in Int
      BY <1>1, <3>2
    <3> QED
      BY <3>2, <3>3, Zenon
  <2> HIDE DEF r
  <2>2. x \in Int
    BY <1>1, <2>1
  <2>3. Memory!Subtract(n, d) = x % W
    BY DEF Memory!Subtract, W, r
  <2> PICK i \in Int : r = d + i * W
    BY <2>1
  <2>4. x % W \in 0..(W - 1) /\ \E j \in Int : x % W = x + j * W
    BY <1>2, <2>2
  <2> PICK j \in Int : x % W = x + j * W
    BY <2>4
  <2> DEFINE y == x % W  k == 1 - i + j  a == i * W  b == j * W
  <2>5. k \in Int /\ k * W = W - a + b /\ a \in Int /\ b \in Int
    BY <1>1
  <2>6. y = x + b /\ r = d + a
    OBVIOUS
  <2>7. x = n + W - r /\ y \in Int
    BY <2>4
  <2> HIDE DEF x, y, k, a, b
  <2>8. y = n - d + k * W
    BY <1>1, <2>1, <2>5, <2>6, <2>7
  <2> QED
    BY <2>3, <2>4, <2>5, <2>8 DEF y
<1> QED
  BY <1>3, <1>4 DEF W

\* Space, when the buffers of one class are so many more.
CountsChange(f, g, k, d) ==
  \A i \in 1..ClassCount : f[i] \in Int /\ g[i] = IF i = k THEN f[i] + d ELSE f[i]
BytesChanged(f, g, k, d) ==
  Memory!Space(f) \in Int /\ Memory!Space(g) = Memory!Space(f) + d * Memory!Capacity(k)

LEMMA BytesChange ==
  ASSUME ResourcesAssumption, MemoryAssumption, NEW f, NEW g, NEW k \in 1..ClassCount, NEW d \in Int,
         CountsChange(f, g, k, d)
  PROVE  BytesChanged(f, g, k, d)
<1>0. \A i \in 1..ClassCount : f[i] \in Int /\ g[i] = IF i = k THEN f[i] + d ELSE f[i]
  BY DEF CountsChange
<1> DEFINE u == [i \in 1..ClassCount |-> f[i] * Memory!Capacity(i)]
           v == [i \in 1..ClassCount |-> g[i] * Memory!Capacity(i)]
           e == d * Memory!Capacity(k)
<1>1. Memory!Space(f) = SumTo(ClassCount, u)[ClassCount] /\ Memory!Space(g) = SumTo(ClassCount, v)[ClassCount]
  BY SumIsSumTo, MemoryConstants DEF Memory!Space
<1>2. ClassCount \in Nat /\ \A i \in 1..ClassCount : Memory!Capacity(i) \in Nat
  BY MemoryConstants
<1>3. Numbers(ClassCount, u) /\ e \in Int
  BY <1>0, <1>2 DEF Numbers
<1>4. \A i \in 1..ClassCount : v[i] = IF i = k THEN u[i] + e ELSE u[i]
  <2> TAKE i \in 1..ClassCount
  <2> DEFINE x == f[i]  y == g[i]  z == Memory!Capacity(i)
  <2>1. x \in Int /\ y = (IF i = k THEN x + d ELSE x) /\ z \in Nat
    BY <1>0, <1>2
  <2>2. u[i] = x * z /\ v[i] = y * z
    OBVIOUS
  <2>3. i = k => e = d * z
    OBVIOUS
  <2> HIDE DEF x, y, z, u, v, e
  <2>4. CASE i = k
    BY <2>1, <2>2, <2>3, <2>4
  <2>5. CASE i # k
    BY <2>1, <2>2, <2>5
  <2> QED
    BY <2>4, <2>5
<1> HIDE DEF u, v
<1>5. SumTo(ClassCount, u)[ClassCount] \in Int
  BY <1>2, <1>3, SumInt
<1>6. SumTo(ClassCount, v)[ClassCount] = SumTo(ClassCount, u)[ClassCount] + e
  <2> HIDE DEF e
  <2> DEFINE n == ClassCount
  <2>1. k \in 1..n /\ n \in Nat /\ Numbers(n, u) /\ e \in Int
        /\ ChangedBy(n, u, v, k, e)
    BY <1>2, <1>3, <1>4 DEF ChangedBy
  <2> HIDE DEF n
  <2>2. SumTo(n, v)[n] = SumTo(n, u)[n] + e
    BY <2>1, SumChanges
  <2> QED
    BY <2>2 DEF n
<1> QED
  BY <1>1, <1>5, <1>6 DEF BytesChanged

\* More buffers are more bytes.
LEMMA BytesGrow ==
  ASSUME ResourcesAssumption, MemoryAssumption, NEW f, NEW g,
         \A i \in 1..ClassCount : f[i] \in Nat /\ g[i] \in Nat /\ f[i] <= g[i]
  PROVE  Memory!Space(f) \in Nat /\ Memory!Space(f) <= Memory!Space(g)
<1> DEFINE none == [i \in 1..ClassCount |-> 0]
           u == [i \in 1..ClassCount |-> f[i] * Memory!Capacity(i)]
           v == [i \in 1..ClassCount |-> g[i] * Memory!Capacity(i)]
<1>1. Memory!Space(f) = SumTo(ClassCount, u)[ClassCount] /\ Memory!Space(g) = SumTo(ClassCount, v)[ClassCount]
  BY SumIsSumTo, MemoryConstants DEF Memory!Space
<1>2. ClassCount \in Nat /\ \A i \in 1..ClassCount : Memory!Capacity(i) \in Nat
  BY MemoryConstants
<1>3. \A i \in 1..ClassCount : u[i] \in Nat /\ v[i] \in Nat /\ u[i] <= v[i]
  <2> TAKE i \in 1..ClassCount
  <2> DEFINE x == f[i]  y == g[i]  z == Memory!Capacity(i)
  <2>1. x \in Nat /\ y \in Nat /\ x <= y /\ z \in Nat
    BY <1>2
  <2>2. u[i] = x * z /\ v[i] = y * z
    OBVIOUS
  <2> HIDE DEF x, y, z, u, v
  <2>3. x * z \in Nat /\ y * z \in Nat /\ (y - x) * z \in Nat /\ y * z = x * z + (y - x) * z
    BY <2>1
  <2> QED
    BY <2>2, <2>3
<1>4. Numbers(ClassCount, u) /\ Numbers(ClassCount, v)
  BY <1>3 DEF Numbers
<1>5. SumTo(ClassCount, u)[ClassCount] \in Int /\ SumTo(ClassCount, v)[ClassCount] \in Int
  <2> HIDE DEF u, v
  <2> QED
    BY <1>2, <1>4, SumInt
<1>6. SumTo(ClassCount, u)[ClassCount] <= SumTo(ClassCount, v)[ClassCount]
  <2> HIDE DEF u, v
  <2> QED
    BY <1>2, <1>3, <1>4, SumGrows
<1>7. 0 <= SumTo(ClassCount, u)[ClassCount]
  <2>1. Numbers(ClassCount, none) /\ \A i \in 1..ClassCount : none[i] = 0
    BY DEF Numbers
  <2> HIDE DEF none, u
  <2>2. SumTo(ClassCount, none)[ClassCount] = 0
    BY <1>2, <2>1, SumOfNone
  <2>3. \A i \in 1..ClassCount : none[i] <= u[i]
    BY <1>3, <2>1
  <2>4. SumTo(ClassCount, none)[ClassCount] <= SumTo(ClassCount, u)[ClassCount]
    BY <1>2, <1>4, <2>1, <2>3, SumGrows
  <2> QED
    BY <2>2, <2>4
<1> QED
  BY <1>1, <1>5, <1>6, <1>7

\* Space of the same number of buffers of each class.
LEMMA BytesSame ==
  ASSUME ResourcesAssumption, MemoryAssumption, NEW f, NEW g, \A i \in 1..ClassCount : f[i] = g[i]
  PROVE  Memory!Space(f) = Memory!Space(g)
<1> DEFINE u == [i \in 1..ClassCount |-> f[i] * Memory!Capacity(i)]
           v == [i \in 1..ClassCount |-> g[i] * Memory!Capacity(i)]
<1>1. u = v
  OBVIOUS
<1>2. Memory!Space(f) = Memory!Sum(u) /\ Memory!Space(g) = Memory!Sum(v)
  BY MemoryConstants DEF Memory!Space
<1> QED
  BY <1>1, <1>2

Downs == {"hit", "clearCount"}
Ups == {"count"}
Pushes == {"push"}
Owed == {"hit", "hitTotal"}
Owing == {"count", "countTotal"}
CountingSteps == {Downs, Ups, Pushes, Owed, Owing}

(* The tally of these steps changes by k for class c, and for no other.     *)
Change(steps, c, k) ==
  \A d : /\ Tally(steps, d) \in Nat /\ Tally(steps, d)' \in Nat
         /\ Tally(steps, d)' = Tally(steps, d) + (IF d = c THEN k ELSE 0)

Difference(steps, from, to) == (IF to \in steps THEN 1 ELSE 0) - (IF from \in steps THEN 1 ELSE 0)

Typed == task \in [Callers -> [step : MemorySteps, class : Memory!Classes]]

\* A step of t for class c, in terms of what it changes.
MemoryStep(t, from, to, i, c) ==
  /\ Memory!Goto(t, to, i) /\ task[t].step = from
  /\ task[t].class = c \/ from \notin UNION CountingSteps
  /\ i = c \/ to \notin UNION CountingSteps

MemoryMoved(t, from, to, i, c) ==
  /\ Typed' /\ task'[t] = [step |-> to, class |-> i] /\ \A u \in Callers \ {t} : task'[u] = task[u]
  /\ \A steps \in CountingSteps : Change(steps, c, Difference(steps, from, to))

LEMMA MemoryMoves ==
  ASSUME ResourcesAssumption, MemoryAssumption, Typed,
         NEW t \in Callers, NEW to \in MemorySteps, NEW i \in Memory!Classes,
         NEW c, NEW from, MemoryStep(t, from, to, i, c)
  PROVE  MemoryMoved(t, from, to, i, c)
<1>0. /\ Memory!Goto(t, to, i) /\ task[t].step = from
      /\ task[t].class = c \/ from \notin UNION CountingSteps
      /\ i = c \/ to \notin UNION CountingSteps
  BY DEF MemoryStep
<1>1. /\ Typed' /\ task'[t] = [step |-> to, class |-> i] /\ \A u \in Callers \ {t} : task'[u] = task[u]
      /\ Tallied(t, to, i)
  BY <1>0, TaskMoved DEF Typed, Memory!Classes
<1>2. ASSUME NEW steps \in CountingSteps PROVE Change(steps, c, Difference(steps, from, to))
  <2> SUFFICES ASSUME NEW d
               PROVE  /\ Tally(steps, d) \in Nat /\ Tally(steps, d)' \in Nat
                      /\ Tally(steps, d)' = Tally(steps, d)
                                            + (IF d = c THEN Difference(steps, from, to) ELSE 0)
    BY DEF Change
  <2>1. /\ Tally(steps, d) \in Nat /\ Tally(steps, d)' \in Nat
        /\ ((from \in steps /\ task[t].class = d) <=> (to \in steps /\ i = d))
             => Tally(steps, d)' = Tally(steps, d)
        /\ (from \in steps /\ task[t].class = d) /\ ~(to \in steps /\ i = d)
             => Tally(steps, d)' = Tally(steps, d) - 1
        /\ ~(from \in steps /\ task[t].class = d) /\ (to \in steps /\ i = d)
             => Tally(steps, d)' = Tally(steps, d) + 1
    BY <1>0, <1>1 DEF Tallied
  <2>2. (from \in steps => task[t].class = c) /\ (to \in steps => i = c)
    BY <1>0
  <2> DEFINE x == Tally(steps, d)  y == Tally(steps, d)'
  <2> HIDE DEF x, y
  <2>3. /\ x \in Nat /\ y \in Nat
        /\ ((from \in steps /\ c = d) <=> (to \in steps /\ c = d)) => y = x
        /\ (from \in steps /\ c = d) /\ ~(to \in steps /\ c = d) => y = x - 1
        /\ ~(from \in steps /\ c = d) /\ (to \in steps /\ c = d) => y = x + 1
    BY <2>1, <2>2 DEF x, y
  <2>4. y = x + (IF d = c THEN Difference(steps, from, to) ELSE 0)
    BY <2>3 DEF Difference
  <2> QED
    BY <2>3, <2>4 DEF x, y
<1> QED
  BY <1>1, <1>2 DEF MemoryMoved

\* A cache and its counter change in step.
LEMMA CacheKept ==
  ASSUME ResourcesAssumption, MemoryAssumption, Memory!TypeOK, NEW c \in Memory!Classes,
         \A d \in Memory!Classes : CacheInv(d),
         NEW x \in Int, NEW down \in Int, NEW up \in Int, NEW push \in Int, NEW j \in Int,
         buffers' = [buffers EXCEPT ![c] = @ + x],
         Change(Downs, c, down), Change(Ups, c, up), Change(Pushes, c, push), x + push <= 0,
         NEW n, n = cached[c] + (x + down - up) + j * MemoryWord,
         cached' = [cached EXCEPT ![c] = n]
  PROVE  \A d \in Memory!Classes : CacheInv(d)'
<1> SUFFICES ASSUME NEW d \in Memory!Classes PROVE CacheInv(d)'
  OBVIOUS
<1>1. MemoryWord \in Nat \ {0} /\ Most(d) \in Nat
  BY MemoryConstants
<1>2. buffers \in [Memory!Classes -> Nat] /\ cached \in [Memory!Classes -> 0..(MemoryWord - 1)]
  BY DEF Memory!TypeOK
<1> DEFINE b == buffers[d]  e == cached[d]  m == Tally(Downs, d)  u == Tally(Ups, d)  p == Tally(Pushes, d)
           b1 == buffers'[d]  e1 == cached'[d]
           m1 == Tally(Downs, d)'  u1 == Tally(Ups, d)'  p1 == Tally(Pushes, d)'
<1>3. /\ b \in Nat /\ e \in Int /\ m \in Nat /\ u \in Nat /\ p \in Nat
      /\ m1 \in Nat /\ u1 \in Nat /\ p1 \in Nat
  <2>1. b \in Nat /\ e \in Int
    BY <1>1, <1>2
  <2>2. /\ m \in Nat /\ u \in Nat /\ p \in Nat
        /\ m1 \in Nat /\ u1 \in Nat /\ p1 \in Nat
    BY DEF Change
  <2> QED
    BY <2>1, <2>2
<1>4. /\ m1 = m + (IF d = c THEN down ELSE 0) /\ u1 = u + (IF d = c THEN up ELSE 0)
      /\ p1 = p + (IF d = c THEN push ELSE 0)
  BY DEF Change
<1>5. b1 = b + (IF d = c THEN x ELSE 0) /\ (d # c => e1 = e) /\ (d = c => e1 = n)
  <2>1. CASE d = c
    <3>1. [buffers EXCEPT ![c] = @ + x][c] = buffers[c] + x /\ [cached EXCEPT ![c] = n][c] = n
      BY <1>2
    <3> QED
      BY <2>1, <3>1
  <2>2. CASE d # c
    <3>1. [buffers EXCEPT ![c] = @ + x][d] = buffers[d] /\ [cached EXCEPT ![c] = n][d] = cached[d]
      BY <1>2, <2>2
    <3>2. b1 = b /\ e1 = e
      BY <3>1
    <3> HIDE DEF b, b1, e, e1
    <3> QED
      BY <1>3, <2>2, <3>2
  <2> QED
    BY <2>1, <2>2
<1>6. b + p <= Most(d) /\ \E k \in Int : e = b + m - u + k * MemoryWord
  BY DEF CacheInv, Downs, Ups, Pushes
<1>7. d = c => n = e + (x + down - up) + j * MemoryWord
  OBVIOUS
<1>8. CacheInv(d)' <=> (b1 + p1 <= Most(d) /\ \E k \in Int : e1 = b1 + m1 - u1 + k * MemoryWord)
  BY DEF CacheInv, Downs, Ups, Pushes, Most, CallerCount
<1> HIDE DEF b, e, m, u, p, b1, e1, m1, u1, p1
<1>9. CASE d # c
  <2>1. b1 = b /\ e1 = e /\ m1 = m /\ u1 = u /\ p1 = p
    BY <1>3, <1>4, <1>5, <1>9
  <2> QED
    BY <1>6, <1>8, <2>1, Zenon
<1>10. CASE d = c
  <2>1. b1 = b + x /\ m1 = m + down /\ u1 = u + up /\ p1 = p + push /\ e1 = e + (x + down - up) + j * MemoryWord
    BY <1>4, <1>5, <1>7, <1>10
  <2>2. b1 + p1 <= Most(d)
    BY <1>1, <1>3, <1>6, <2>1
  <2> PICK k \in Int : e = b + m - u + k * MemoryWord
    BY <1>6
  <2> DEFINE a == k * MemoryWord  f == j * MemoryWord  i == k + j
             w == i * MemoryWord
  <2>3. a \in Int /\ f \in Int /\ i \in Int /\ w = a + f
    BY <1>1
  <2>4. e = b + m - u + a /\ e1 = e + (x + down - up) + f
    BY <2>1
  <2> HIDE DEF a, f, i, w
  <2>5. e1 = b1 + m1 - u1 + w
    BY <1>3, <2>1, <2>3, <2>4
  <2> QED
    BY <1>8, <2>2, <2>3, <2>5 DEF w
<1> QED
  BY <1>9, <1>10

DueOf == [c \in Memory!Classes |-> Due(c)]
NoClear == \A t \in Callers : task[t].step \notin ClearSteps

LEMMA TotalIs ==
  /\ CachedTotalInv <=> (~overtaken /\ NoClear =>
                     \E k \in Int : cachedTotal = Memory!Space(DueOf) + k * MemoryWord)
  /\ CachedTotalInv' <=> (~overtaken' /\ NoClear' =>
                      \E k \in Int : cachedTotal' = Memory!Space(DueOf') + k * MemoryWord)
<1>1. Memory!Space(DueOf)' = Memory!Space(DueOf')
  BY DEF Memory!Space, Memory!Sum, Memory!Classes, Memory!Capacity
<1>2. CachedTotalInv <=> (~overtaken /\ NoClear =>
                     \E k \in Int : cachedTotal = Memory!Space(DueOf) + k * MemoryWord)
  BY DEF CachedTotalInv, DueOf, NoClear
<1>3. CachedTotalInv' <=> (~overtaken' /\ NoClear' =>
                     \E k \in Int : cachedTotal' = Memory!Space(DueOf)' + k * MemoryWord)
  BY DEF CachedTotalInv, DueOf, NoClear
<1> QED
  BY <1>1, <1>2, <1>3

\* The total changes with what it counts.
LEMMA TotalKept ==
  ASSUME ResourcesAssumption, MemoryAssumption, Memory!TypeOK, NEW c \in Memory!Classes,
         CachedTotalInv, overtaken' = overtaken, NoClear' => NoClear,
         NEW x \in Int, NEW owed \in Int, NEW owing \in Int, NEW j \in Int,
         buffers' = [buffers EXCEPT ![c] = @ + x],
         Change(Owed, c, owed), Change(Owing, c, owing),
         cachedTotal' = cachedTotal + (x + owed - owing) * Memory!Capacity(c) + j * MemoryWord
  PROVE  CachedTotalInv'
<1> DEFINE z == x + owed - owing  F == DueOf  G == DueOf'
<1>1. /\ MemoryWord \in Nat \ {0} /\ Memory!Classes = 1..ClassCount
      /\ Memory!Capacity(c) \in Nat
  BY MemoryConstants
<1>2. buffers \in [Memory!Classes -> Nat] /\ cachedTotal \in 0..(MemoryWord - 1)
  BY DEF Memory!TypeOK
<1>3. \A d \in 1..ClassCount : F[d] \in Int /\ G[d] = IF d = c THEN F[d] + z ELSE F[d]
  <2> TAKE d \in 1..ClassCount
  <2> DEFINE b == buffers[d]  o == Tally(Owed, d)  i == Tally(Owing, d)
             b1 == buffers'[d]  o1 == Tally(Owed, d)'  i1 == Tally(Owing, d)'
  <2>1. b \in Nat /\ o \in Nat /\ i \in Nat /\ o1 \in Nat /\ i1 \in Nat
    BY <1>1, <1>2 DEF Change
  <2>2. o1 = o + (IF d = c THEN owed ELSE 0) /\ i1 = i + (IF d = c THEN owing ELSE 0)
    BY DEF Change
  <2>3. b1 = IF d = c THEN b + x ELSE b
    BY <1>1, <1>2
  <2>4. F[d] = b + o - i /\ G[d] = b1 + o1 - i1
    BY <1>1 DEF DueOf, Due, Owed, Owing, Memory!Classes
  <2> HIDE DEF F, G, b, o, i, b1, o1, i1
  <2>5. CASE d = c
    BY <2>1, <2>2, <2>3, <2>4, <2>5
  <2>6. CASE d # c
    BY <2>1, <2>2, <2>3, <2>4, <2>6
  <2> QED
    BY <2>5, <2>6
<1> HIDE DEF F, G
<1>4. z \in Int
  OBVIOUS
<1>5. cachedTotal' = cachedTotal + z * Memory!Capacity(c) + j * MemoryWord
  OBVIOUS
<1> HIDE DEF z
<1>6. Memory!Space(F) \in Int /\ Memory!Space(G) = Memory!Space(F) + z * Memory!Capacity(c)
  <2>1. CountsChange(F, G, c, z)
    BY <1>3 DEF CountsChange
  <2>2. BytesChanged(F, G, c, z)
    BY <1>1, <1>4, <2>1, BytesChange
  <2> QED
    BY <2>2 DEF BytesChanged
<1> SUFFICES ASSUME ~overtaken', NoClear'
             PROVE  \E k \in Int : cachedTotal' = Memory!Space(G) + k * MemoryWord
  BY TotalIs DEF G
<1>7. \E k \in Int : cachedTotal = Memory!Space(F) + k * MemoryWord
  BY TotalIs DEF F
<1> PICK k \in Int : cachedTotal = Memory!Space(F) + k * MemoryWord
  BY <1>7
<1> DEFINE a == k * MemoryWord  f == j * MemoryWord  i == k + j  w == i * MemoryWord
           e == z * Memory!Capacity(c)  y == Memory!Space(F)
           q == Memory!Space(G)  r == cachedTotal  s == cachedTotal'
<1>8. a \in Int /\ f \in Int /\ i \in Int /\ w = a + f /\ e \in Int /\ y \in Int
      /\ r \in Int
  <2>1. k \in Int /\ j \in Int /\ MemoryWord \in Int
    BY <1>1, <1>2, <1>4, <1>6
  <2>2. a \in Int /\ f \in Int /\ i \in Int /\ w = a + f
    BY <2>1
  <2>3. e \in Int
    BY <1>1, <1>4
  <2>4. y \in Int /\ r \in Int
    BY <1>1, <1>2, <1>6
  <2> QED
    BY <2>2, <2>3, <2>4
<1>9. r = y + a /\ s = r + e + f /\ q = y + e
  BY <1>5, <1>6
<1> HIDE DEF a, f, i, w, e, y, q, r, s
<1>10. s = q + w
  BY <1>8, <1>9
<1> QED
  BY <1>8, <1>10 DEF w, s, q

\* No clear is under way before a step that is not one of a clear, if none is after it.
LEMMA ClearAgain ==
  ASSUME NEW t \in Callers, task[t].step \notin ClearSteps, \A u \in Callers \ {t} : task'[u] = task[u]
  PROVE  NoClear' => NoClear
BY DEF NoClear, ClearSteps

Room(f) == f \in [Memory!Classes -> 0..MaxHeld]
Limits(f) == f \in [Memory!Classes -> Nat] /\ \A c \in Memory!Classes : f[c] <= max_cached[SizeClasses[c]]
CounterTypes(f) == f \in [Memory!Classes -> 0..(MemoryWord - 1)]

LEMMA MemoryTypes ==
  /\ Memory!TypeOK <=> /\ buffers \in [Memory!Classes -> Nat] /\ Room(taken) /\ CounterTypes(cached)
                       /\ cachedTotal \in 0..(MemoryWord - 1) /\ Limits(limit) /\ Typed
                       /\ overtaken \in BOOLEAN
  /\ Memory!TypeOK' <=> /\ buffers' \in [Memory!Classes -> Nat] /\ Room(taken') /\ CounterTypes(cached')
                        /\ cachedTotal' \in 0..(MemoryWord - 1) /\ Limits(limit') /\ Typed'
                        /\ overtaken' \in BOOLEAN
BY DEF Memory!TypeOK, Room, Limits, CounterTypes, Typed, MemorySteps, Memory!Steps, Memory!Classes

BuffersStep(c, x) == buffers' = [buffers EXCEPT ![c] = @ + x] /\ buffers' \in [Memory!Classes -> Nat]

CachedStep(c, z) ==
  \E n \in 0..(MemoryWord - 1), j \in Int :
    n = cached[c] + z + j * MemoryWord /\ cached' = [cached EXCEPT ![c] = n]

TotalStep(c, z) ==
  /\ cachedTotal' \in 0..(MemoryWord - 1)
  /\ \E j \in Int : cachedTotal' = cachedTotal + z * Memory!Capacity(c) + j * MemoryWord

(* What a step from one to another means for the counters: x buffers more,  *)
(* z more to be counted, y more in the total, p more queued or to be queued.*)
StepEffects(from, to, x, z, y, p) ==
  /\ z = x + Difference(Downs, from, to) - Difference(Ups, from, to)
  /\ y = x + Difference(Owed, from, to) - Difference(Owing, from, to)
  /\ p = x + Difference(Pushes, from, to)

LEMMA MemoryEffects ==
  /\ StepEffects("idle", "hit", -1, 0, 0, -1) /\ StepEffects("hit", "hitTotal", 0, -1, 0, 0)
  /\ StepEffects("hitTotal", "idle", 0, 0, -1, 0) /\ StepEffects("idle", "push", 0, 0, 0, 1)
  /\ StepEffects("push", "count", 1, 0, 0, 0) /\ StepEffects("count", "countTotal", 0, 1, 0, 0)
  /\ StepEffects("countTotal", "idle", 0, 0, 1, 0) /\ StepEffects("idle", "clear", 0, 0, 0, 0)
  /\ StepEffects("clear", "clearCount", -1, 0, -1, -1) /\ StepEffects("clear", "clear", 0, 0, 0, 0)
  /\ StepEffects("clear", "reset", 0, 0, 0, 0) /\ StepEffects("clearCount", "clear", 0, -1, 0, 0)
  /\ StepEffects("reset", "idle", 0, 0, 0, 0) /\ StepEffects("idle", "shrink", 0, 0, 0, 0)
  /\ StepEffects("shrink", "shrink", 0, 0, 0, 0) /\ StepEffects("shrink", "idle", 0, 0, 0, 0)
BY DEF StepEffects, Difference, Downs, Ups, Owed, Owing, Pushes

LEMMA StepKeeps ==
  ASSUME ResourcesAssumption, MemoryAssumption, MemoryInv, NEW t \in Callers,
         NEW from, NEW to \in MemorySteps, NEW i \in Memory!Classes, NEW c \in Memory!Classes,
         MemoryStep(t, from, to, i, c), NEW x \in Int, BuffersStep(c, x),
         NEW z, NEW y, NEW p, StepEffects(from, to, x, z, y, p), CachedStep(c, z),
         p <= 0 \/ \A d \in Memory!Classes : CacheInv(d)',
         cachedTotal' \in 0..(MemoryWord - 1),
         \/ to \in ClearSteps
         \/ /\ from \notin ClearSteps /\ overtaken' = overtaken
            /\ TotalStep(c, y)
         \/ CachedTotalInv',
         Room(taken'), Limits(limit'), overtaken' \in BOOLEAN
  PROVE  MemoryInv'
<1>1. Memory!TypeOK /\ Typed /\ CounterTypes(cached) /\ CachedTotalInv /\ \A d \in Memory!Classes : CacheInv(d)
  BY MemoryTypes DEF MemoryInv
<1>2. /\ Typed' /\ task'[t] = [step |-> to, class |-> i] /\ \A u \in Callers \ {t} : task'[u] = task[u]
      /\ \A steps \in CountingSteps : Change(steps, c, Difference(steps, from, to))
  BY <1>1, MemoryMoves DEF MemoryMoved
<1>3. \A steps : Difference(steps, from, to) \in Int
  BY DEF Difference
<1>4. MemoryWord \in Nat \ {0} /\ Memory!Classes' = Memory!Classes
  BY MemoryConstants DEF Memory!Classes
<1>5. Memory!TypeOK'
  <2>1. CounterTypes(cached')
    BY <1>1 DEF CachedStep, CounterTypes
  <2> QED
    BY <1>2, <2>1, MemoryTypes DEF BuffersStep
<1>6. \A d \in Memory!Classes : CacheInv(d)'
  <2> SUFFICES ASSUME p <= 0
               PROVE  \A d \in Memory!Classes : CacheInv(d)'
    OBVIOUS
  <2> DEFINE down == Difference(Downs, from, to)  up == Difference(Ups, from, to)
             push == Difference(Pushes, from, to)
  <2>1. /\ down \in Int /\ up \in Int /\ push \in Int /\ x + push <= 0
        /\ Change(Downs, c, down) /\ Change(Ups, c, up) /\ Change(Pushes, c, push)
    BY <1>2, <1>3 DEF CountingSteps, StepEffects
  <2>2. z = x + down - up
    BY DEF StepEffects
  <2> HIDE DEF down, up, push
  <2>3. PICK n \in 0..(MemoryWord - 1) :
          \E j \in Int : n = cached[c] + z + j * MemoryWord /\ cached' = [cached EXCEPT ![c] = n]
    BY DEF CachedStep
  <2>4. PICK j \in Int : n = cached[c] + z + j * MemoryWord
    BY <2>3
  <2>5. n = cached[c] + (x + down - up) + j * MemoryWord /\ cached' = [cached EXCEPT ![c] = n]
    BY <2>2, <2>3, <2>4
  <2>6. buffers' = [buffers EXCEPT ![c] = @ + x]
    BY DEF BuffersStep
  <2> QED
    BY <1>1, <2>1, <2>5, <2>6, CacheKept
<1>7. CachedTotalInv'
  <2>1. CASE to \in ClearSteps
    <3>1. ~NoClear'
      BY <1>2, <2>1 DEF NoClear, ClearSteps
    <3> QED
      BY <3>1, TotalIs
  <2>2. CASE /\ from \notin ClearSteps /\ overtaken' = overtaken
             /\ TotalStep(c, y)
    <3> DEFINE owed == Difference(Owed, from, to)  owing == Difference(Owing, from, to)
    <3>1. /\ owed \in Int /\ owing \in Int /\ Change(Owed, c, owed) /\ Change(Owing, c, owing)
      BY <1>2, <1>3 DEF CountingSteps
    <3>2. y = x + owed - owing
      BY DEF StepEffects
    <3> HIDE DEF owed, owing
    <3>3. PICK j \in Int : cachedTotal' = cachedTotal + y * Memory!Capacity(c) + j * MemoryWord
      BY <2>2 DEF TotalStep
    <3>4. cachedTotal' = cachedTotal + (x + owed - owing) * Memory!Capacity(c) + j * MemoryWord
      BY <3>2, <3>3
    <3>5. NoClear' => NoClear
      BY <1>2, <2>2, ClearAgain DEF MemoryStep
    <3>6. buffers' = [buffers EXCEPT ![c] = @ + x]
      BY DEF BuffersStep
    <3> QED
      BY <1>1, <2>2, <3>1, <3>4, <3>5, <3>6, TotalKept
  <2> QED
    BY <2>1, <2>2
<1> QED
  BY <1>4, <1>5, <1>6, <1>7 DEF MemoryInv

LEMMA NothingSteps ==
  ASSUME ResourcesAssumption, MemoryAssumption, MemoryInv, NEW c \in Memory!Classes
  PROVE  /\ buffers' = buffers => BuffersStep(c, 0)
         /\ cached' = cached => CachedStep(c, 0)
         /\ cachedTotal' = cachedTotal => TotalStep(c, 0)
         /\ taken' = taken => Room(taken')
         /\ limit' = limit => Limits(limit')
         /\ overtaken' = overtaken => overtaken' \in BOOLEAN
<1>1. /\ buffers \in [Memory!Classes -> Nat] /\ Room(taken) /\ CounterTypes(cached)
      /\ cachedTotal \in 0..(MemoryWord - 1) /\ Limits(limit) /\ overtaken \in BOOLEAN
  BY MemoryTypes DEF MemoryInv
<1>2. MemoryWord \in Nat \ {0} /\ Memory!Capacity(c) \in Nat
  BY MemoryConstants
<1>3. ASSUME buffers' = buffers PROVE BuffersStep(c, 0)
  <2>1. buffers[c] + 0 = buffers[c]
    BY <1>1
  <2>2. [buffers EXCEPT ![c] = @ + 0] = buffers
    BY <1>1, <2>1
  <2> QED
    BY <1>1, <1>3, <2>2 DEF BuffersStep
<1>4. ASSUME cached' = cached PROVE CachedStep(c, 0)
  <2> DEFINE n == cached[c]
  <2>1. n \in 0..(MemoryWord - 1) /\ [cached EXCEPT ![c] = n] = cached
    BY <1>1 DEF CounterTypes
  <2> HIDE DEF n
  <2>2. n = n + 0 + 0 * MemoryWord
    BY <1>2, <2>1
  <2> QED
    BY SMTT(30), <1>4, <2>1, <2>2 DEF CachedStep, n
<1>5. ASSUME cachedTotal' = cachedTotal PROVE TotalStep(c, 0)
  <2> DEFINE e == 0
  <2>1. cachedTotal = cachedTotal + e * Memory!Capacity(c) + e * MemoryWord /\ e \in Int
    BY <1>1, <1>2
  <2> HIDE DEF e
  <2>2. TotalStep(c, e)
    BY <1>1, <1>5, <2>1 DEF TotalStep
  <2> QED
    BY <2>2 DEF e
<1> QED
  BY <1>1, <1>3, <1>4, <1>5

LEMMA BufferSteps ==
  ASSUME ResourcesAssumption, MemoryAssumption, MemoryInv, NEW c \in Memory!Classes
  PROVE  /\ buffers[c] > 0 /\ buffers' = [buffers EXCEPT ![c] = @ - 1] => BuffersStep(c, -1)
         /\ buffers' = [buffers EXCEPT ![c] = @ + 1] => BuffersStep(c, 1)
         /\ cached' = [cached EXCEPT ![c] = Memory!Subtract(@, 1)] => CachedStep(c, -1)
         /\ cached' = [cached EXCEPT ![c] = Memory!Add(@, 1)] => CachedStep(c, 1)
         /\ cachedTotal' = Memory!Subtract(cachedTotal, Memory!Capacity(c)) => TotalStep(c, -1)
         /\ cachedTotal' = Memory!Add(cachedTotal, Memory!Capacity(c)) => TotalStep(c, 1)
<1>1. /\ buffers \in [Memory!Classes -> Nat] /\ CounterTypes(cached) /\ cachedTotal \in 0..(MemoryWord - 1)
  BY MemoryTypes DEF MemoryInv
<1>2. MemoryWord \in Nat \ {0} /\ Memory!Capacity(c) \in Nat
  BY MemoryConstants
<1>3. ASSUME buffers[c] > 0, buffers' = [buffers EXCEPT ![c] = @ - 1] PROVE BuffersStep(c, -1)
  <2>1. buffers[c] \in Nat /\ buffers[c] - 1 \in Nat /\ buffers[c] + (-1) = buffers[c] - 1
    BY <1>1, <1>3
  <2>2. [buffers EXCEPT ![c] = @ - 1] = [buffers EXCEPT ![c] = @ + (-1)]
    BY <2>1
  <2>3. [buffers EXCEPT ![c] = @ - 1] \in [Memory!Classes -> Nat]
    BY <1>1, <2>1
  <2> QED
    BY <1>3, <2>2, <2>3 DEF BuffersStep
<1>4. ASSUME buffers' = [buffers EXCEPT ![c] = @ + 1] PROVE BuffersStep(c, 1)
  BY <1>1, <1>4 DEF BuffersStep
<1>5. ASSUME cached' = [cached EXCEPT ![c] = Memory!Subtract(@, 1)] PROVE CachedStep(c, -1)
  <2> DEFINE n == Memory!Subtract(cached[c], 1)
  <2>1. cached[c] \in 0..(MemoryWord - 1) /\ 1 \in Nat
    BY <1>1 DEF CounterTypes
  <2>2. n \in 0..(MemoryWord - 1) /\ \E j \in Int : n = cached[c] - 1 + j * MemoryWord
    BY <2>1, CountersWrap
  <2> HIDE DEF n
  <2> PICK j \in Int : n = cached[c] - 1 + j * MemoryWord
    BY <2>2
  <2> DEFINE w == j * MemoryWord
  <2>3. w \in Int
    BY <1>2
  <2> HIDE DEF w
  <2>4. n = cached[c] + (-1) + w
    BY <2>1, <2>3 DEF w
  <2>5. cached' = [cached EXCEPT ![c] = n]
    BY <1>5 DEF n
  <2> QED
    BY <2>2, <2>4, <2>5 DEF CachedStep, w
<1>6. ASSUME cached' = [cached EXCEPT ![c] = Memory!Add(@, 1)] PROVE CachedStep(c, 1)
  <2> DEFINE n == Memory!Add(cached[c], 1)
  <2>1. cached[c] \in 0..(MemoryWord - 1) /\ 1 \in Nat
    BY <1>1 DEF CounterTypes
  <2>2. n \in 0..(MemoryWord - 1) /\ \E j \in Int : n = cached[c] + 1 + j * MemoryWord
    BY <2>1, CountersWrap
  <2> HIDE DEF n
  <2>3. cached' = [cached EXCEPT ![c] = n]
    BY <1>6 DEF n
  <2> QED
    BY <2>2, <2>3 DEF CachedStep
<1> DEFINE d == Memory!Capacity(c)
<1>7. ASSUME cachedTotal' = Memory!Subtract(cachedTotal, d) PROVE TotalStep(c, -1)
  <2>1. cachedTotal' \in 0..(MemoryWord - 1) /\ \E j \in Int : cachedTotal' = cachedTotal - d + j * MemoryWord
    <3>1. cachedTotal \in 0..(MemoryWord - 1) /\ d \in Nat
      BY <1>1, <1>2
    <3> HIDE DEF d
    <3>2. /\ Memory!Subtract(cachedTotal, d) \in 0..(MemoryWord - 1)
          /\ \E j \in Int : Memory!Subtract(cachedTotal, d) = cachedTotal - d + j * MemoryWord
      BY <3>1, CountersWrap
    <3> QED
      BY <1>7, <3>2, Zenon
  <2> PICK j \in Int : cachedTotal' = cachedTotal - d + j * MemoryWord
    BY <2>1
  <2> DEFINE w == j * MemoryWord  e == (-1) * d
  <2>2. w \in Int /\ e = -d /\ d \in Nat
    BY <1>2
  <2>3. cachedTotal' = cachedTotal - d + w
    OBVIOUS
  <2> HIDE DEF w, e, d
  <2>4. cachedTotal' = cachedTotal + e + w
    BY <1>1, <2>2, <2>3
  <2> QED
    BY <2>1, <2>4 DEF TotalStep, w, e, d
<1>8. ASSUME cachedTotal' = Memory!Add(cachedTotal, d) PROVE TotalStep(c, 1)
  <2>1. cachedTotal' \in 0..(MemoryWord - 1) /\ \E j \in Int : cachedTotal' = cachedTotal + d + j * MemoryWord
    <3>1. cachedTotal \in 0..(MemoryWord - 1) /\ d \in Nat
      BY <1>1, <1>2
    <3> HIDE DEF d
    <3>2. /\ Memory!Add(cachedTotal, d) \in 0..(MemoryWord - 1)
          /\ \E j \in Int : Memory!Add(cachedTotal, d) = cachedTotal + d + j * MemoryWord
      BY <3>1, CountersWrap
    <3> QED
      BY <1>8, <3>2, Zenon
  <2>2. 1 * d = d
    BY <1>2
  <2> QED
    BY <2>1, <2>2 DEF TotalStep
<1> QED
  BY <1>3, <1>4, <1>5, <1>6, <1>7, <1>8

\* What a step that touches no cache, counter or task leaves of the invariant.
LEMMA CachesStay ==
  ASSUME MemoryInv, buffers' = buffers, cached' = cached, task' = task
  PROVE  \A c \in Memory!Classes : CacheInv(c)'
<1> TAKE c \in Memory!Classes
<1>1. CacheInv(c)
  BY DEF MemoryInv
<1>2. ASSUME NEW steps PROVE Tally(steps, c)' = Tally(steps, c)
  BY DEF Tally, CountOf
<1>3. Most(c)' = Most(c)
  BY DEF Most, CallerCount
<1>4. /\ Tally({"push"}, c)' = Tally({"push"}, c)
      /\ Tally({"hit", "clearCount"}, c)' = Tally({"hit", "clearCount"}, c)
      /\ Tally({"count"}, c)' = Tally({"count"}, c)
  BY <1>2
<1> QED
  BY <1>1, <1>3, <1>4 DEF CacheInv

\* ... and of the types.
LEMMA SameTypes ==
  ASSUME MemoryInv, buffers' = buffers, task' = task, cached' = cached, cachedTotal' = cachedTotal,
         limit' = limit, overtaken' = overtaken, Room(taken')
  PROVE  Memory!TypeOK'
<1>1. /\ buffers \in [Memory!Classes -> Nat] /\ CounterTypes(cached)
      /\ cachedTotal \in 0..(MemoryWord - 1) /\ Limits(limit) /\ Typed /\ overtaken \in BOOLEAN
  BY MemoryTypes DEF MemoryInv
<1>2. Typed'
  BY <1>1 DEF Typed, Memory!Classes
<1>3. /\ buffers' \in [Memory!Classes -> Nat] /\ CounterTypes(cached')
      /\ cachedTotal' \in 0..(MemoryWord - 1) /\ Limits(limit') /\ overtaken' \in BOOLEAN
  BY <1>1
<1> QED
  BY <1>2, <1>3, MemoryTypes

LEMMA MemoryStays == ASSUME MemoryInv, UNCHANGED memoryVars PROVE MemoryInv'
<1>1. /\ buffers' = buffers /\ cached' = cached /\ cachedTotal' = cachedTotal /\ limit' = limit
      /\ taken' = taken /\ task' = task /\ overtaken' = overtaken
  BY DEF memoryVars
<1>2. Memory!TypeOK' /\ \A c \in Memory!Classes : CacheInv(c)'
  <2>1. Room(taken)
    BY MemoryTypes DEF MemoryInv
  <2>2. Room(taken')
    BY <1>1, <2>1
  <2> QED
    BY <1>1, <2>2, SameTypes, CachesStay
<1>3. DueOf' = DueOf /\ (NoClear' <=> NoClear)
  BY <1>1 DEF DueOf, Due, Tally, CountOf, NoClear, Memory!Classes
<1>4. CachedTotalInv'
  BY <1>1, <1>3, TotalIs DEF MemoryInv
<1> QED
  BY <1>2, <1>4 DEF MemoryInv, Memory!Classes

\* A buffer that is dropped, or newly allocated, concerns no counter.
LEMMA HandedOut ==
  ASSUME MemoryInv, UNCHANGED <<buffers, task, cached, cachedTotal, limit, overtaken>>, Room(taken')
  PROVE  MemoryInv'
<1>1. /\ buffers' = buffers /\ cached' = cached /\ cachedTotal' = cachedTotal /\ limit' = limit
      /\ task' = task /\ overtaken' = overtaken
  OBVIOUS
<1>2. Memory!TypeOK' /\ \A c \in Memory!Classes : CacheInv(c)'
  BY <1>1, SameTypes, CachesStay
<1>3. DueOf' = DueOf /\ (NoClear' <=> NoClear)
  BY <1>1 DEF DueOf, Due, Tally, CountOf, NoClear, Memory!Classes
<1>4. CachedTotalInv'
  BY <1>1, <1>3, TotalIs DEF MemoryInv
<1> QED
  BY <1>2, <1>4 DEF MemoryInv, Memory!Classes

LEMMA GetKeeps ==
  ASSUME ResourcesAssumption, MemoryAssumption, MemoryInv, NEW t \in Callers, NEW c \in Memory!Classes,
         Memory!Get(t, c)
  PROVE  MemoryInv'
<1>1. /\ task[t].step = "idle" /\ Memory!Sum(taken) < MaxHeld
      /\ taken' = [taken EXCEPT ![c] = @ + 1]
      /\ UNCHANGED <<cached, cachedTotal, limit, overtaken>>
      /\ IF buffers[c] > 0
         THEN buffers' = [buffers EXCEPT ![c] = @ - 1] /\ Memory!Goto(t, "hit", c)
         ELSE UNCHANGED <<buffers, task>>
  BY DEF Memory!Get
<1>2. /\ ClassCount \in Nat /\ Memory!Classes = 1..ClassCount /\ MaxHeld \in Nat
      /\ cachedTotal \in 0..(MemoryWord - 1) /\ buffers \in [Memory!Classes -> Nat] /\ Room(taken)
  BY MemoryConstants, MemoryTypes DEF MemoryInv
<1>3. Room(taken')
  <2>1. \A d \in 1..ClassCount : taken[d] \in Nat
    BY <1>2 DEF Room
  <2>2. taken[c] <= SumTo(ClassCount, taken)[ClassCount]
    BY <1>2, <2>1, SumCovers
  <2>3. SumTo(ClassCount, taken)[ClassCount] \in Int
    <3>1. Numbers(ClassCount, taken)
      BY <2>1 DEF Numbers
    <3> QED
      BY <1>2, <3>1, SumInt
  <2>4. taken[c] + 1 \in 0..MaxHeld
    <3> DEFINE s == SumTo(ClassCount, taken)[ClassCount]  x == taken[c]
    <3>1. s < MaxHeld
      BY <1>1, SumIsSumTo
    <3>2. x \in Nat /\ x <= s /\ s \in Int
      BY <1>2, <2>1, <2>2, <2>3
    <3> HIDE DEF s, x
    <3>3. x + 1 \in 0..MaxHeld
      BY <1>2, <3>1, <3>2
    <3> QED
      BY <3>3 DEF x
  <2> QED
    BY <1>1, <1>2, <2>4 DEF Room
<1>4. CASE buffers[c] > 0
  <2>1. BuffersStep(c, -1) /\ CachedStep(c, 0) /\ TotalStep(c, 0) /\ Limits(limit') /\ overtaken' \in BOOLEAN
    BY <1>1, <1>4, NothingSteps, BufferSteps
  <2>2. MemoryStep(t, "idle", "hit", c, c)
    BY <1>1, <1>4 DEF MemoryStep, CountingSteps, Downs, Ups, Pushes, Owed, Owing
  <2>3. StepEffects("idle", "hit", -1, 0, 0, -1) /\ "hit" \in MemorySteps /\ "idle" \notin ClearSteps
    BY MemoryEffects DEF MemorySteps, ClearSteps
  <2>4. -1 <= 0 /\ -1 \in Int /\ cachedTotal' \in 0..(MemoryWord - 1)
    BY <1>1, <1>2
  <2> QED
    BY <1>1, <1>3, <2>1, <2>2, <2>3, <2>4, StepKeeps
<1>5. CASE ~(buffers[c] > 0)
  BY <1>1, <1>3, <1>5, HandedOut
<1> QED
  BY <1>4, <1>5

\* What the steps between idle and idle leave alone.
LEMMA MemoryFacts ==
  ASSUME ResourcesAssumption, MemoryAssumption, MemoryInv
  PROVE  /\ cachedTotal \in 0..(MemoryWord - 1) /\ Room(taken) /\ Limits(limit) /\ overtaken \in BOOLEAN
         /\ MemoryWord \in Nat \ {0} /\ Memory!Classes = 1..ClassCount /\ ClassCount \in Nat /\ ClassCount >= 1
         /\ Len(SizeClasses) = ClassCount
BY MemoryConstants, MemoryTypes DEF MemoryInv, ClassCount

LEMMA CountersKeep ==
  ASSUME ResourcesAssumption, MemoryAssumption, MemoryInv, NEW t \in Callers, NEW c \in Memory!Classes,
         Memory!CountHit(t, c) \/ Memory!CountReturn(t, c) \/ Memory!ClearCount(t, c)
  PROVE  MemoryInv'
<1>1. /\ buffers' = buffers /\ cachedTotal' = cachedTotal /\ limit' = limit /\ taken' = taken
      /\ overtaken' = overtaken
  BY DEF Memory!CountHit, Memory!CountReturn, Memory!ClearCount
<1>2. /\ BuffersStep(c, 0) /\ TotalStep(c, 0) /\ Room(taken') /\ Limits(limit')
      /\ overtaken' \in BOOLEAN /\ cachedTotal' \in 0..(MemoryWord - 1)
  BY <1>1, NothingSteps, MemoryFacts
<1>3. 0 <= 0 /\ 0 \in Int
  OBVIOUS
<1>4. CASE Memory!CountHit(t, c)
  <2>1. MemoryStep(t, "hit", "hitTotal", c, c)
    BY <1>4 DEF Memory!CountHit, Memory!At, MemoryStep
  <2>2. CachedStep(c, -1)
    BY <1>4, BufferSteps DEF Memory!CountHit
  <2>3. StepEffects("hit", "hitTotal", 0, -1, 0, 0) /\ "hitTotal" \in MemorySteps /\ "hit" \notin ClearSteps
    BY MemoryEffects DEF MemorySteps, ClearSteps
  <2> QED
    BY <1>1, <1>2, <1>3, <2>1, <2>2, <2>3, StepKeeps
<1>5. CASE Memory!CountReturn(t, c)
  <2>1. MemoryStep(t, "count", "countTotal", c, c)
    BY <1>5 DEF Memory!CountReturn, Memory!At, MemoryStep
  <2>2. CachedStep(c, 1)
    BY <1>5, BufferSteps DEF Memory!CountReturn
  <2>3. StepEffects("count", "countTotal", 0, 1, 0, 0) /\ "countTotal" \in MemorySteps /\ "count" \notin ClearSteps
    BY MemoryEffects DEF MemorySteps, ClearSteps
  <2> QED
    BY <1>1, <1>2, <1>3, <2>1, <2>2, <2>3, StepKeeps
<1>6. CASE Memory!ClearCount(t, c)
  <2>1. MemoryStep(t, "clearCount", "clear", c, c)
    BY <1>6 DEF Memory!ClearCount, Memory!At, MemoryStep
  <2>2. CachedStep(c, -1)
    BY <1>6, BufferSteps DEF Memory!ClearCount
  <2>3. StepEffects("clearCount", "clear", 0, -1, 0, 0) /\ "clear" \in MemorySteps /\ "clear" \in ClearSteps
    BY MemoryEffects DEF MemorySteps, ClearSteps
  <2> QED
    BY <1>1, <1>2, <1>3, <2>1, <2>2, <2>3, StepKeeps
<1> QED
  BY <1>4, <1>5, <1>6

LEMMA TotalsKeep ==
  ASSUME ResourcesAssumption, MemoryAssumption, MemoryInv, NEW t \in Callers, NEW c \in Memory!Classes,
         Memory!CountHitTotal(t, c) \/ Memory!CountReturnTotal(t, c)
  PROVE  MemoryInv'
<1>1. /\ buffers' = buffers /\ cached' = cached /\ limit' = limit /\ taken' = taken
      /\ overtaken' = overtaken
  BY DEF Memory!CountHitTotal, Memory!CountReturnTotal
<1>2. /\ BuffersStep(c, 0) /\ CachedStep(c, 0) /\ Room(taken') /\ Limits(limit')
      /\ overtaken' \in BOOLEAN
  BY <1>1, NothingSteps
<1>3. 0 <= 0 /\ 0 \in Int /\ 1 \in Memory!Classes
  BY MemoryFacts
<1>4. "idle" \notin UNION CountingSteps /\ "idle" \in MemorySteps
  BY DEF CountingSteps, Downs, Ups, Pushes, Owed, Owing, MemorySteps
<1>5. CASE Memory!CountHitTotal(t, c)
  <2>1. MemoryStep(t, "hitTotal", "idle", 1, c)
    BY <1>4, <1>5 DEF Memory!CountHitTotal, Memory!At, MemoryStep
  <2>2. TotalStep(c, -1) /\ cachedTotal' \in 0..(MemoryWord - 1)
    BY <1>5, BufferSteps DEF Memory!CountHitTotal, TotalStep
  <2>3. StepEffects("hitTotal", "idle", 0, 0, -1, 0) /\ "hitTotal" \notin ClearSteps
    BY MemoryEffects DEF ClearSteps
  <2> QED
    BY <1>1, <1>2, <1>3, <1>4, <2>1, <2>2, <2>3, StepKeeps
<1>6. CASE Memory!CountReturnTotal(t, c)
  <2>1. MemoryStep(t, "countTotal", "idle", 1, c)
    BY <1>4, <1>6 DEF Memory!CountReturnTotal, Memory!At, MemoryStep
  <2>2. TotalStep(c, 1) /\ cachedTotal' \in 0..(MemoryWord - 1)
    BY <1>6, BufferSteps DEF Memory!CountReturnTotal, TotalStep
  <2>3. StepEffects("countTotal", "idle", 0, 0, 1, 0) /\ "countTotal" \notin ClearSteps
    BY MemoryEffects DEF ClearSteps
  <2> QED
    BY <1>1, <1>2, <1>3, <1>4, <2>1, <2>2, <2>3, StepKeeps
<1> QED
  BY <1>5, <1>6

\* The task that has seen room and the others that may fill it exceed the limit.
LEMMA ReturnKeeps ==
  ASSUME ResourcesAssumption, MemoryAssumption, MemoryInv, NEW t \in Callers, NEW c \in Memory!Classes,
         Memory!Return(t, c)
  PROVE  MemoryInv'
<1>1. /\ task[t].step = "idle" /\ taken[c] > 0 /\ taken' = [taken EXCEPT ![c] = @ - 1]
      /\ IF cached[c] >= limit[c] THEN UNCHANGED task ELSE Memory!Goto(t, "push", c)
      /\ buffers' = buffers /\ cached' = cached /\ cachedTotal' = cachedTotal /\ limit' = limit
      /\ overtaken' = overtaken
  BY DEF Memory!Return
<1>2. Room(taken')
  <2>1. taken \in [Memory!Classes -> 0..MaxHeld] /\ MaxHeld \in Nat
    BY MemoryFacts, MemoryConstants DEF Room
  <2>2. taken[c] - 1 \in 0..MaxHeld
    BY <1>1, <2>1
  <2> QED
    BY <1>1, <2>1, <2>2 DEF Room
<1>3. CASE cached[c] >= limit[c]
  BY <1>1, <1>2, <1>3, HandedOut
<1>4. CASE ~(cached[c] >= limit[c])
  <2>1. MemoryStep(t, "idle", "push", c, c)
    BY <1>1, <1>4 DEF MemoryStep, CountingSteps, Downs, Ups, Pushes, Owed, Owing
  <2>2. StepEffects("idle", "push", 0, 0, 0, 1) /\ "push" \in MemorySteps /\ "idle" \notin ClearSteps
    BY MemoryEffects DEF MemorySteps, ClearSteps
  <2>3. /\ BuffersStep(c, 0) /\ CachedStep(c, 0) /\ TotalStep(c, 0) /\ Limits(limit')
        /\ overtaken' \in BOOLEAN /\ cachedTotal' \in 0..(MemoryWord - 1)
    BY <1>1, NothingSteps, MemoryFacts
  <2>4. \A d \in Memory!Classes : CacheInv(d)'
    <3> SUFFICES ASSUME NEW d \in Memory!Classes PROVE CacheInv(d)'
      OBVIOUS
    <3>1. \A steps \in CountingSteps : Change(steps, c, Difference(steps, "idle", "push"))
      <4>1. Typed
        BY MemoryTypes DEF MemoryInv
      <4>2. MemoryMoved(t, "idle", "push", c, c)
        BY <2>1, <2>2, <4>1, MemoryMoves
      <4> QED
        BY <4>2 DEF MemoryMoved
    <3> DEFINE b == buffers[d]  e == cached[d]
               m == Tally(Downs, d)  u == Tally(Ups, d)  p == Tally(Pushes, d)
               m1 == Tally(Downs, d)'  u1 == Tally(Ups, d)'  p1 == Tally(Pushes, d)'
    <3>2. m \in Nat /\ u \in Nat /\ p \in Nat /\ m1 = m /\ u1 = u /\ p1 = IF d = c THEN p + 1 ELSE p
      <4>1. /\ Difference(Downs, "idle", "push") = 0 /\ Difference(Ups, "idle", "push") = 0
            /\ Difference(Pushes, "idle", "push") = 1
        BY DEF Difference, Downs, Ups, Pushes
      <4>2. Change(Downs, c, 0) /\ Change(Ups, c, 0) /\ Change(Pushes, c, 1)
        BY <3>1, <4>1 DEF CountingSteps
      <4>3. /\ m \in Nat /\ u \in Nat /\ p \in Nat
            /\ m1 = m + (IF d = c THEN 0 ELSE 0) /\ u1 = u + (IF d = c THEN 0 ELSE 0)
            /\ p1 = p + (IF d = c THEN 1 ELSE 0)
        BY <4>2 DEF Change
      <4> HIDE DEF m, u, p, m1, u1, p1
      <4> QED
        BY <4>3
    <3>3. b + p <= Most(d) /\ \E k \in Int : e = b + m - u + k * MemoryWord
      BY DEF MemoryInv, CacheInv, Downs, Ups, Pushes
    <3>4. CacheInv(d)' <=> (b + p1 <= Most(d) /\ \E k \in Int : e = b + m1 - u1 + k * MemoryWord)
      BY <1>1 DEF CacheInv, Downs, Ups, Pushes, Most, CallerCount
    <3>5. d = c => b + p + 1 <= Most(d)
      <4> HAVE d = c
      <4>1. /\ b \in Nat /\ e \in 0..(MemoryWord - 1) /\ e < limit[d] /\ limit[d] \in Nat
            /\ limit[d] <= max_cached[SizeClasses[d]]
        BY <1>4, MemoryTypes DEF MemoryInv, CounterTypes, Limits
      <4>2. /\ CallerCount \in Nat /\ CallerCount >= 1 /\ MemoryWord \in Nat \ {0}
            /\ max_cached[SizeClasses[d]] + 2 * CallerCount <= MemoryWord
            /\ max_cached[SizeClasses[d]] \in Nat
            /\ Most(d) = max_cached[SizeClasses[d]] + CallerCount - 1
        BY MemoryConstants DEF Most
      <4>3. p + u <= CallerCount - 1 /\ m <= CallerCount
        BY <1>1, TalliesBound DEF Pushes, Ups, Downs
      <4> PICK k \in Int : e = b + m - u + k * MemoryWord
        BY <3>3
      <4> DEFINE w == k * MemoryWord  most == Most(d)  max == max_cached[SizeClasses[d]]  l == limit[d]
      <4>4. w \in Int /\ (k <= -1 => w <= -MemoryWord) /\ (k >= 0 => w >= 0) /\ e = b + m - u + w
            /\ (k <= -1 \/ k >= 0)
        BY <4>2
      <4>5. most = max + CallerCount - 1 /\ max \in Nat /\ l \in Nat /\ e < l /\ l <= max
            /\ max + 2 * CallerCount <= MemoryWord /\ b + p <= most
        BY <3>3, <4>1, <4>2
      <4> HIDE DEF w, most, max, l, b, e, m, u, p, m1, u1, p1
      <4>6. k >= 0
        BY <3>2, <4>1, <4>2, <4>3, <4>4, <4>5
      <4>7. b + p + 1 <= most
        BY <3>2, <4>1, <4>2, <4>3, <4>4, <4>5, <4>6
      <4> QED
        BY <4>7 DEF most
    <3>6. b + p1 <= Most(d)
      <4>1. b \in Nat
        BY MemoryTypes DEF MemoryInv
      <4> HIDE DEF b, e, m, u, p, m1, u1, p1
      <4> QED
        BY <3>2, <3>3, <3>5, <4>1
    <3> HIDE DEF b, e, m, u, p, m1, u1, p1
    <3> QED
      BY <3>2, <3>3, <3>4, <3>6, Zenon
  <2>5. 0 \in Int
    OBVIOUS
  <2> QED
    BY <1>1, <1>2, <2>1, <2>2, <2>3, <2>4, <2>5, StepKeeps
<1> QED
  BY <1>3, <1>4

LEMMA PushKeeps ==
  ASSUME ResourcesAssumption, MemoryAssumption, MemoryInv, NEW t \in Callers, NEW c \in Memory!Classes,
         Memory!Push(t, c)
  PROVE  MemoryInv'
<1>1. /\ cached' = cached /\ cachedTotal' = cachedTotal /\ limit' = limit /\ taken' = taken
      /\ overtaken' = overtaken
  BY DEF Memory!Push
<1>2. /\ CachedStep(c, 0) /\ TotalStep(c, 0) /\ Room(taken') /\ Limits(limit')
      /\ overtaken' \in BOOLEAN /\ cachedTotal' \in 0..(MemoryWord - 1)
  BY <1>1, NothingSteps, MemoryFacts
<1>3. BuffersStep(c, 1)
  BY BufferSteps DEF Memory!Push
<1>4. MemoryStep(t, "push", "count", c, c)
  BY DEF Memory!Push, Memory!At, MemoryStep
<1>5. StepEffects("push", "count", 1, 0, 0, 0) /\ "count" \in MemorySteps /\ "push" \notin ClearSteps
  BY MemoryEffects DEF MemorySteps, ClearSteps
<1>6. 0 <= 0 /\ 1 \in Int
  OBVIOUS
<1> QED
  BY <1>1, <1>2, <1>3, <1>4, <1>5, <1>6, StepKeeps

\* Steps that only lead on to another.
LEMMA LeadKeeps ==
  ASSUME ResourcesAssumption, MemoryAssumption, MemoryInv, NEW t \in Callers, NEW c \in Memory!Classes,
         Memory!Clear(t) \/ Memory!Adjust(t) \/ Memory!ShrinkLimit(t, c)
  PROVE  MemoryInv'
<1>1. /\ buffers' = buffers /\ cached' = cached /\ cachedTotal' = cachedTotal /\ taken' = taken
      /\ overtaken' = overtaken
  BY DEF Memory!Clear, Memory!Adjust, Memory!ShrinkLimit
<1>2. /\ BuffersStep(c, 0) /\ CachedStep(c, 0) /\ TotalStep(c, 0) /\ Room(taken')
      /\ overtaken' \in BOOLEAN /\ cachedTotal' \in 0..(MemoryWord - 1)
  BY <1>1, NothingSteps, MemoryFacts
<1>3. 0 <= 0 /\ 0 \in Int /\ 1 \in Memory!Classes
  BY MemoryFacts
<1>4. /\ {"idle", "clear", "shrink"} \subseteq MemorySteps
      /\ "idle" \notin UNION CountingSteps /\ "clear" \notin UNION CountingSteps /\ "shrink" \notin UNION CountingSteps
      /\ "idle" \notin ClearSteps /\ "clear" \in ClearSteps /\ "shrink" \notin ClearSteps
  BY DEF CountingSteps, Downs, Ups, Pushes, Owed, Owing, MemorySteps, ClearSteps
<1>5. CASE Memory!Clear(t)
  <2>1. MemoryStep(t, "idle", "clear", 1, c)
    BY <1>4, <1>5 DEF Memory!Clear, MemoryStep
  <2>2. StepEffects("idle", "clear", 0, 0, 0, 0)
    BY MemoryEffects
  <2>3. limit' = limit
    BY <1>5 DEF Memory!Clear
  <2>4. Limits(limit')
    BY <2>3, NothingSteps
  <2> QED
    BY <1>1, <1>2, <1>3, <1>4, <2>1, <2>2, <2>4, StepKeeps
<1>6. CASE Memory!Adjust(t)
  <2>1. MemoryStep(t, "idle", "shrink", 1, c)
    BY <1>4, <1>6 DEF Memory!Adjust, MemoryStep
  <2>2. StepEffects("idle", "shrink", 0, 0, 0, 0)
    BY MemoryEffects
  <2>3. limit' = limit
    BY <1>6 DEF Memory!Adjust
  <2>4. Limits(limit')
    BY <2>3, NothingSteps
  <2> QED
    BY <1>1, <1>2, <1>3, <1>4, <2>1, <2>2, <2>4, StepKeeps
<1>7. CASE Memory!ShrinkLimit(t, c)
  <2>1. Limits(limit')
    <3>1. limit \in [Memory!Classes -> Nat] /\ \A d \in Memory!Classes : limit[d] <= max_cached[SizeClasses[d]]
      BY MemoryFacts DEF Limits
    <3> DEFINE l == (limit[c] * 8) \div 10
    <3>2. l \in Nat /\ l <= limit[c]
      BY <3>1
    <3>3. limit' = [limit EXCEPT ![c] = l]
      BY <1>7 DEF Memory!ShrinkLimit
    <3>4. max_cached[SizeClasses[c]] \in Nat
      BY MemoryConstants
    <3> HIDE DEF l
    <3>5. l <= max_cached[SizeClasses[c]]
      BY <3>1, <3>2, <3>4
    <3> QED
      BY <3>1, <3>2, <3>3, <3>5 DEF Limits
  <2>2. CASE c < Len(SizeClasses)
    <3>1. c + 1 \in Memory!Classes
      BY <2>2, MemoryFacts
    <3>2. MemoryStep(t, "shrink", "shrink", c + 1, c)
      BY <1>4, <1>7, <2>2 DEF Memory!ShrinkLimit, Memory!At, MemoryStep
    <3>3. StepEffects("shrink", "shrink", 0, 0, 0, 0)
      BY MemoryEffects
    <3> DEFINE i == c + 1
    <3> HIDE DEF i
    <3> QED
      BY <1>1, <1>2, <1>3, <1>4, <2>1, <3>1, <3>2, <3>3, StepKeeps DEF i
  <2>3. CASE ~(c < Len(SizeClasses))
    <3>1. MemoryStep(t, "shrink", "idle", 1, c)
      BY <1>4, <1>7, <2>3 DEF Memory!ShrinkLimit, Memory!At, MemoryStep
    <3>2. StepEffects("shrink", "idle", 0, 0, 0, 0)
      BY MemoryEffects
    <3> QED
      BY <1>1, <1>2, <1>3, <1>4, <2>1, <3>1, <3>2, StepKeeps
  <2> QED
    BY <2>2, <2>3
<1> QED
  BY <1>5, <1>6, <1>7

LEMMA ClearPopKeeps ==
  ASSUME ResourcesAssumption, MemoryAssumption, MemoryInv, NEW t \in Callers, NEW c \in Memory!Classes,
         Memory!ClearPop(t, c)
  PROVE  MemoryInv'
<1>1. /\ cached' = cached /\ cachedTotal' = cachedTotal /\ limit' = limit /\ taken' = taken
      /\ overtaken' = overtaken /\ Memory!At(t, "clear", c)
      /\ IF buffers[c] > 0
         THEN buffers' = [buffers EXCEPT ![c] = @ - 1] /\ Memory!Goto(t, "clearCount", c)
         ELSE /\ IF c < Len(SizeClasses) THEN Memory!Goto(t, "clear", c + 1)
                                         ELSE Memory!Goto(t, "reset", 1)
              /\ UNCHANGED buffers
  BY DEF Memory!ClearPop
<1>2. /\ CachedStep(c, 0) /\ Room(taken') /\ Limits(limit')
      /\ overtaken' \in BOOLEAN /\ cachedTotal' \in 0..(MemoryWord - 1)
  BY <1>1, NothingSteps, MemoryFacts
<1>3. 0 <= 0 /\ 0 \in Int /\ -1 \in Int /\ -1 <= 0 /\ 1 \in Memory!Classes
  BY MemoryFacts
<1>4. /\ {"clear", "clearCount", "reset"} \subseteq MemorySteps
      /\ {"clear", "clearCount", "reset"} \subseteq ClearSteps
      /\ "clear" \notin UNION CountingSteps /\ "reset" \notin UNION CountingSteps
  BY DEF CountingSteps, Downs, Ups, Pushes, Owed, Owing, MemorySteps, ClearSteps
<1>5. CASE buffers[c] > 0
  <2>1. MemoryStep(t, "clear", "clearCount", c, c)
    BY <1>1, <1>4, <1>5 DEF Memory!At, MemoryStep
  <2>2. StepEffects("clear", "clearCount", -1, 0, -1, -1)
    BY MemoryEffects
  <2>3. BuffersStep(c, -1)
    BY <1>1, <1>5, BufferSteps
  <2> QED
    BY <1>2, <1>3, <1>4, <2>1, <2>2, <2>3, StepKeeps
<1>6. CASE ~(buffers[c] > 0)
  <2>1. BuffersStep(c, 0)
    BY <1>1, <1>6, NothingSteps
  <2>2. CASE c < Len(SizeClasses)
    <3> DEFINE i == c + 1
    <3>1. i \in Memory!Classes
      BY <2>2, MemoryFacts
    <3>2. MemoryStep(t, "clear", "clear", i, c)
      BY <1>1, <1>4, <1>6, <2>2 DEF Memory!At, MemoryStep
    <3>3. StepEffects("clear", "clear", 0, 0, 0, 0)
      BY MemoryEffects
    <3> HIDE DEF i
    <3> QED
      BY <1>2, <1>3, <1>4, <2>1, <3>1, <3>2, <3>3, StepKeeps
  <2>3. CASE ~(c < Len(SizeClasses))
    <3>1. MemoryStep(t, "clear", "reset", 1, c)
      BY <1>1, <1>4, <1>6, <2>3 DEF Memory!At, MemoryStep
    <3>2. StepEffects("clear", "reset", 0, 0, 0, 0)
      BY MemoryEffects
    <3> QED
      BY <1>2, <1>3, <1>4, <2>1, <3>1, <3>2, StepKeeps
  <2> QED
    BY <2>2, <2>3
<1> QED
  BY <1>5, <1>6

\* Nobody at a step, nothing to count.
LEMMA NoTally ==
  ASSUME NEW steps, NEW c, \A u \in Callers : task[u].step \notin steps
  PROVE  Tally(steps, c) = 0
<1>1. \A u \in Callers : task[u] \notin [step : steps, class : {c}]
  OBVIOUS
<1> QED
  BY <1>1, NoneThere DEF Tally

\* With no call under way, what is due is what is queued.
LEMMA QuietDue ==
  ASSUME MemoryInv, \A u \in Callers : task[u].step \notin Owed \cup Owing
  PROVE  \A c \in Memory!Classes : DueOf[c] = buffers[c] /\ buffers[c] \in Nat
<1> SUFFICES ASSUME NEW c \in Memory!Classes PROVE DueOf[c] = buffers[c] /\ buffers[c] \in Nat
  OBVIOUS
<1>1. Tally(Owed, c) = 0 /\ Tally(Owing, c) = 0
  BY NoTally
<1>2. buffers[c] \in Nat
  BY MemoryTypes DEF MemoryInv
<1>3. DueOf[c] = buffers[c] + Tally(Owed, c) - Tally(Owing, c)
  BY DEF DueOf, Due, Owed, Owing
<1> QED
  BY <1>1, <1>2, <1>3

LEMMA ResetKeeps ==
  ASSUME ResourcesAssumption, MemoryAssumption, MemoryInv, NEW t \in Callers, Memory!ResetTotal(t)
  PROVE  MemoryInv'
<1>1. /\ task[t].step = "reset" /\ cachedTotal' = 0 /\ Memory!Goto(t, "idle", 1)
      /\ overtaken' = (overtaken \/ Memory!Space(buffers) # 0
                       \/ \E u \in Callers : task[u].step \in {"hit", "hitTotal", "count", "countTotal"})
      /\ buffers' = buffers /\ cached' = cached /\ limit' = limit /\ taken' = taken
  BY DEF Memory!ResetTotal
<1>2. /\ overtaken \in BOOLEAN /\ MemoryWord \in Nat \ {0} /\ 1 \in Memory!Classes
      /\ Memory!Classes = 1..ClassCount
  BY MemoryFacts
<1>3. BuffersStep(1, 0) /\ CachedStep(1, 0) /\ Room(taken') /\ Limits(limit')
  BY <1>1, <1>2, NothingSteps
<1>4. overtaken' \in BOOLEAN
  BY <1>1
<1>5. cachedTotal' \in 0..(MemoryWord - 1)
  BY <1>1, <1>2
<1>6. MemoryStep(t, "reset", "idle", 1, 1) /\ "idle" \in MemorySteps
  BY <1>1 DEF MemoryStep, CountingSteps, Downs, Ups, Pushes, Owed, Owing, MemorySteps
<1>7. StepEffects("reset", "idle", 0, 0, 0, 0) /\ 0 <= 0 /\ 0 \in Int
  BY MemoryEffects
<1>8. CachedTotalInv'
  <2> SUFFICES ASSUME ~overtaken'
               PROVE  \E k \in Int : cachedTotal' = Memory!Space(DueOf') + k * MemoryWord
    BY TotalIs
  <2>1. Memory!Space(buffers) = 0 /\ \A u \in Callers : task[u].step \notin Owed \cup Owing
    BY <1>1 DEF Owed, Owing
  <2>2. \A u \in Callers : task'[u].step \notin Owed \cup Owing
    <3>1. task \in [Callers -> [step : MemorySteps, class : Memory!Classes]]
      BY MemoryTypes DEF MemoryInv, Typed
    <3>2. task' = [task EXCEPT ![t] = [step |-> "idle", class |-> 1]]
      BY <1>1 DEF Memory!Goto
    <3>3. "idle" \notin Owed \cup Owing
      BY DEF Owed, Owing
    <3> QED
      BY <2>1, <3>1, <3>2, <3>3
  <2>3. \A c \in Memory!Classes : DueOf'[c] = buffers[c]
    <3> SUFFICES ASSUME NEW c \in Memory!Classes PROVE DueOf'[c] = buffers[c]
      OBVIOUS
    <3>1. Tally(Owed, c)' = 0 /\ Tally(Owing, c)' = 0
      <4>1. \A u \in Callers : /\ task'[u] \notin [step : Owed, class : {c}]
                               /\ task'[u] \notin [step : Owing, class : {c}]
        BY <2>2
      <4> DEFINE A == [step : Owed, class : {c}]  B == [step : Owing, class : {c}]
      <4>2. Tally(Owed, c)' = CountOf(Callers, task', A) /\ Tally(Owing, c)' = CountOf(Callers, task', B)
        BY DEF Tally, Owed, Owing
      <4>3. CountOf(Callers, task', A) = 0 /\ CountOf(Callers, task', B) = 0
        BY <4>1, NoneThere
      <4> QED
        BY <4>2, <4>3
    <3>2. buffers[c] \in Nat
      BY MemoryTypes DEF MemoryInv
    <3>3. DueOf'[c] = buffers'[c] + Tally(Owed, c)' - Tally(Owing, c)'
      BY DEF DueOf, Due, Owed, Owing, Memory!Classes
    <3> QED
      BY <1>1, <3>1, <3>2, <3>3
  <2>4. Memory!Space(DueOf') = 0
    <3>1. \A i \in 1..ClassCount : DueOf'[i] = buffers[i]
      BY <1>2, <2>3
    <3>2. Memory!Space(DueOf') = Memory!Space(buffers)
      BY <3>1, BytesSame
    <3> QED
      BY <2>1, <3>2
  <2> DEFINE k == 0
  <2>5. k \in Int /\ k * MemoryWord = 0
    BY <1>2
  <2> HIDE DEF k
  <2>6. cachedTotal' = Memory!Space(DueOf') + k * MemoryWord
    BY <1>1, <2>4, <2>5
  <2> QED
    BY <2>5, <2>6
<1> QED
  BY <1>2, <1>3, <1>4, <1>5, <1>6, <1>7, <1>8, StepKeeps

LEMMA MemoryKept ==
  ASSUME ResourcesAssumption, MemoryAssumption, MemoryInv, Memory!Next
  PROVE  MemoryInv'
<1>1. PICK t \in Callers :
        \/ Memory!Clear(t) \/ Memory!ResetTotal(t) \/ Memory!Adjust(t)
        \/ \E c \in Memory!Classes :
             \/ Memory!Get(t, c) \/ Memory!CountHit(t, c) \/ Memory!CountHitTotal(t, c)
             \/ Memory!Return(t, c) \/ Memory!Push(t, c) \/ Memory!CountReturn(t, c)
             \/ Memory!CountReturnTotal(t, c)
             \/ Memory!ClearPop(t, c) \/ Memory!ClearCount(t, c) \/ Memory!ShrinkLimit(t, c)
  BY DEF Memory!Next
<1>2. 1 \in Memory!Classes
  BY MemoryFacts
<1>3. CASE Memory!Clear(t) \/ Memory!Adjust(t)
  BY <1>2, <1>3, LeadKeeps
<1>4. CASE Memory!ResetTotal(t)
  BY <1>4, ResetKeeps
<1>5. ASSUME NEW c \in Memory!Classes,
             \/ Memory!Get(t, c) \/ Memory!CountHit(t, c) \/ Memory!CountHitTotal(t, c)
             \/ Memory!Return(t, c) \/ Memory!Push(t, c) \/ Memory!CountReturn(t, c)
             \/ Memory!CountReturnTotal(t, c)
             \/ Memory!ClearPop(t, c) \/ Memory!ClearCount(t, c) \/ Memory!ShrinkLimit(t, c)
      PROVE  MemoryInv'
  BY <1>5, GetKeeps, CountersKeep, TotalsKeep, ReturnKeeps, PushKeeps, ClearPopKeeps, LeadKeeps
<1> QED
  BY <1>1, <1>3, <1>4, <1>5

LEMMA MemoryInitially ==
  ASSUME ResourcesAssumption, MemoryAssumption, Memory!Init
  PROVE  MemoryInv
<1> DEFINE most == [c \in 1..ClassCount |-> Most(c)]
<1>1. /\ buffers = [c \in Memory!Classes |-> preallocated[SizeClasses[c]]]
      /\ cached = buffers /\ cachedTotal = Memory!Space(buffers)
      /\ limit = [c \in Memory!Classes |-> max_cached[SizeClasses[c]]]
      /\ taken = [c \in Memory!Classes |-> 0]
      /\ task = [t \in Callers |-> [step |-> "idle", class |-> 1]] /\ overtaken = FALSE
  BY DEF Memory!Init
<1>2. /\ Memory!Classes = 1..ClassCount /\ ClassCount \in Nat /\ ClassCount >= 1 /\ MaxHeld \in Nat
      /\ MemoryWord \in Nat \ {0} /\ CallerCount \in Nat /\ CallerCount >= 1
      /\ \A c \in 1..ClassCount :
           /\ max_cached[SizeClasses[c]] \in Nat /\ Most(c) \in Nat
           /\ max_cached[SizeClasses[c]] + 2 * CallerCount <= MemoryWord
           /\ preallocated[SizeClasses[c]] \in 0..Most(c)
      /\ Memory!Space(most) < MemoryWord
  BY MemoryConstants
<1>3. \A c \in 1..ClassCount : buffers[c] \in Nat /\ buffers[c] <= Most(c) /\ Most(c) < MemoryWord
  <2> TAKE c \in 1..ClassCount
  <2>1. buffers[c] \in 0..Most(c) /\ Most(c) \in Nat
    BY <1>1, <1>2
  <2> DEFINE m == max_cached[SizeClasses[c]]  n == Most(c)
  <2>2. m \in Nat /\ m + 2 * CallerCount <= MemoryWord /\ n = m + CallerCount - 1
    BY <1>2 DEF Most
  <2> HIDE DEF m, n
  <2>3. n < MemoryWord
    BY <1>2, <2>2
  <2> QED
    BY <2>1, <2>3 DEF n
<1>4. cachedTotal \in 0..(MemoryWord - 1)
  <2>1. \A c \in 1..ClassCount : buffers[c] \in Nat /\ most[c] \in Nat /\ buffers[c] <= most[c]
    BY <1>2, <1>3
  <2> HIDE DEF most
  <2>2. Memory!Space(buffers) \in Nat /\ Memory!Space(buffers) <= Memory!Space(most)
    BY <2>1, BytesGrow
  <2>3. \A c \in 1..ClassCount : most[c] <= most[c]
    BY <2>1
  <2>4. Memory!Space(most) \in Nat
    BY <2>1, <2>3, BytesGrow
  <2> DEFINE b == Memory!Space(buffers)  n == Memory!Space(most)
  <2> HIDE DEF b, n
  <2>5. b \in Nat /\ n \in Nat /\ b <= n /\ n < MemoryWord /\ cachedTotal = b
    BY <1>1, <1>2, <2>2, <2>4 DEF b, n
  <2> QED
    BY <1>2, <2>5
<1>5. Memory!TypeOK
  <2>1. buffers \in [Memory!Classes -> Nat]
    BY <1>1, <1>2, <1>3
  <2>2. CounterTypes(cached)
    <3>1. \A c \in 1..ClassCount : buffers[c] \in 0..(MemoryWord - 1)
      <4> TAKE c \in 1..ClassCount
      <4> DEFINE b == buffers[c]  n == Most(c)
      <4>1. b \in Nat /\ b <= n /\ n < MemoryWord /\ n \in Nat
        BY <1>2, <1>3
      <4> HIDE DEF b, n
      <4>2. b \in 0..(MemoryWord - 1)
        BY <1>2, <4>1
      <4> QED
        BY <4>2 DEF b
    <3> QED
      BY <1>1, <1>2, <2>1, <3>1 DEF CounterTypes
  <2>3. Room(taken)
    BY <1>1, <1>2 DEF Room
  <2>4. Limits(limit)
    BY <1>1, <1>2 DEF Limits
  <2>5. Typed
    BY <1>1, <1>2 DEF Typed, MemorySteps
  <2>6. overtaken \in BOOLEAN
    BY <1>1
  <2> QED
    BY <1>4, <2>1, <2>2, <2>3, <2>4, <2>5, <2>6, MemoryTypes
<1>6. \A steps, c : "idle" \notin steps => Tally(steps, c) = 0
  <2>1. \A u \in Callers : task[u].step = "idle"
    BY <1>1
  <2> QED
    BY <2>1, NoTally
<1>7. \A c \in Memory!Classes : CacheInv(c)
  <2> SUFFICES ASSUME NEW c \in Memory!Classes PROVE CacheInv(c)
    OBVIOUS
  <2> DEFINE b == buffers[c]
  <2>1. Tally({"push"}, c) = 0 /\ Tally({"hit", "clearCount"}, c) = 0 /\ Tally({"count"}, c) = 0
    BY <1>6
  <2>2. b \in Nat /\ b <= Most(c) /\ cached[c] = b
    BY <1>1, <1>2, <1>3
  <2> DEFINE k == 0
  <2>3. k \in Int /\ k * MemoryWord = 0
    BY <1>2
  <2> HIDE DEF b, k
  <2>4. b + 0 <= Most(c) /\ b = b + 0 - 0 + k * MemoryWord
    BY <1>2, <2>2, <2>3
  <2> QED
    BY <2>1, <2>2, <2>3, <2>4 DEF CacheInv, b
<1>8. CachedTotalInv
  <2>1. \A c \in 1..ClassCount : DueOf[c] = buffers[c]
    <3> TAKE c \in 1..ClassCount
    <3>1. Tally({"hit", "hitTotal"}, c) = 0 /\ Tally({"count", "countTotal"}, c) = 0
      BY <1>6
    <3>2. DueOf[c] = buffers[c] + Tally({"hit", "hitTotal"}, c) - Tally({"count", "countTotal"}, c)
      BY <1>2 DEF DueOf, Due
    <3>3. buffers[c] \in Nat
      BY <1>3
    <3> QED
      BY <3>1, <3>2, <3>3
  <2>2. Memory!Space(DueOf) = cachedTotal
    BY <1>1, <2>1, BytesSame
  <2> DEFINE k == 0
  <2>3. k \in Int /\ k * MemoryWord = 0
    BY <1>2
  <2> HIDE DEF k
  <2>4. cachedTotal = Memory!Space(DueOf) + k * MemoryWord
    BY <1>4, <2>2, <2>3
  <2> QED
    BY <2>3, <2>4, TotalIs
<1> QED
  BY <1>5, <1>7, <1>8 DEF MemoryInv

\* Numbers below the word that differ by words are the same.
LEMMA SameWord ==
  ASSUME NEW W \in Nat \ {0}, NEW a \in 0..(W - 1), NEW b \in 0..(W - 1), NEW k \in Int, a = b + k * W
  PROVE  a = b
<1>1. CASE k >= 1
  <2>1. k * W >= W /\ k * W \in Int
    BY <1>1
  <2> QED
    BY <2>1
<1>2. CASE k <= -1
  <2>1. k * W <= -W /\ k * W \in Int
    BY <1>2
  <2> QED
    BY <2>1
<1>3. CASE k = 0
  <2>1. k * W = 0
    BY <1>3
  <2> QED
    BY <2>1
<1> QED
  BY <1>1, <1>2, <1>3

\* The module's instance of FiniteSets counts as this module's does.
LEMMA CallersCounted == Memory!Cardinality(Callers) = CallerCount
BY DEF Memory!Cardinality, Cardinality, CallerCount

LEMMA MemoryPromises ==
  ASSUME ResourcesAssumption, MemoryAssumption, MemoryInv
  PROVE  Memory!TypeOK /\ Memory!CountersAgree /\ Memory!OvershootBounded /\ Memory!TotalAgrees
<1> DEFINE most == [c \in 1..ClassCount |-> Most(c)]
<1>1. /\ Memory!Classes = 1..ClassCount /\ ClassCount \in Nat
      /\ MemoryWord \in Nat \ {0} /\ CallerCount \in Nat /\ CallerCount >= 1
      /\ \A c \in 1..ClassCount :
           /\ max_cached[SizeClasses[c]] \in Nat /\ Most(c) \in Nat
           /\ max_cached[SizeClasses[c]] + 2 * CallerCount <= MemoryWord
      /\ Memory!Space(most) < MemoryWord
  BY MemoryConstants
<1>2. /\ Memory!TypeOK /\ buffers \in [Memory!Classes -> Nat]
      /\ cached \in [Memory!Classes -> 0..(MemoryWord - 1)]
      /\ cachedTotal \in 0..(MemoryWord - 1) /\ \A c \in Memory!Classes : CacheInv(c)
  BY MemoryTypes DEF MemoryInv, CounterTypes
<1>3. \A c \in 1..ClassCount : buffers[c] \in Nat /\ buffers[c] <= Most(c) /\ Most(c) < MemoryWord
  <2> TAKE c \in 1..ClassCount
  <2> DEFINE m == max_cached[SizeClasses[c]]  n == Most(c)  b == buffers[c]  p == Tally(Pushes, c)
  <2>1. p \in Nat
    BY TalliesBound
  <2>2. b \in Nat /\ b + p <= n /\ n \in Nat
    BY <1>1, <1>2 DEF CacheInv, Pushes
  <2>3. m \in Nat /\ m + 2 * CallerCount <= MemoryWord /\ n = m + CallerCount - 1
    BY <1>1 DEF Most
  <2> HIDE DEF m, n, b, p
  <2>4. b <= n /\ n < MemoryWord
    BY <1>1, <2>1, <2>2, <2>3
  <2> QED
    BY <2>2, <2>4 DEF b, n
<1>4. Memory!OvershootBounded
  BY <1>1, <1>3, CallersCounted DEF Memory!OvershootBounded, Most
<1>5. Memory!CountersAgree
  <2> SUFFICES ASSUME \A u \in Callers : task[u].step = "idle" PROVE cached = buffers
    BY DEF Memory!CountersAgree, Memory!Quiet
  <2>1. ASSUME NEW c \in Memory!Classes PROVE cached[c] = buffers[c]
    <3> DEFINE b == buffers[c]  e == cached[c]  n == Most(c)
    <3>1. Tally({"hit", "clearCount"}, c) = 0 /\ Tally({"count"}, c) = 0
      BY NoTally
    <3>2. \E k \in Int : e = b + Tally({"hit", "clearCount"}, c) - Tally({"count"}, c) + k * MemoryWord
      BY <1>2 DEF CacheInv
    <3> PICK k \in Int : e = b + 0 - 0 + k * MemoryWord
      BY <3>1, <3>2
    <3> DEFINE w == k * MemoryWord
    <3>3. w \in Int /\ e = b + 0 - 0 + w
      BY <1>1
    <3>4. b \in Nat /\ b <= n /\ n < MemoryWord /\ n \in Nat /\ e \in 0..(MemoryWord - 1)
      BY <1>1, <1>2, <1>3
    <3> HIDE DEF b, e, n, w
    <3>5. b \in 0..(MemoryWord - 1) /\ e = b + w
      BY <1>1, <3>3, <3>4
    <3>6. e = b
      BY <1>1, <3>4, <3>5, SameWord DEF w
    <3> QED
      BY <3>6 DEF b, e
  <2> QED
    BY <1>2, <2>1
<1>6. Memory!TotalAgrees
  <2> SUFFICES ASSUME \A u \in Callers : task[u].step = "idle", ~overtaken
               PROVE  cachedTotal = Memory!Space(buffers)
    BY DEF Memory!TotalAgrees, Memory!Quiet
  <2>1. NoClear /\ \A u \in Callers : task[u].step \notin Owed \cup Owing
    BY DEF NoClear, ClearSteps, Owed, Owing
  <2>2. \A c \in 1..ClassCount : DueOf[c] = buffers[c]
    BY <1>1, <2>1, QuietDue
  <2>3. Memory!Space(DueOf) = Memory!Space(buffers)
    BY <2>2, BytesSame
  <2>4. \E k \in Int : cachedTotal = Memory!Space(DueOf) + k * MemoryWord
    BY <2>1, TotalIs DEF MemoryInv
  <2> DEFINE b == Memory!Space(buffers)  n == Memory!Space(most)
  <2>5. b \in Nat /\ b <= n /\ n \in Nat
    <3>1. \A c \in 1..ClassCount : buffers[c] \in Nat /\ most[c] \in Nat /\ buffers[c] <= most[c]
                                   /\ most[c] <= most[c]
      BY <1>1, <1>3
    <3> HIDE DEF most
    <3> QED
      BY <3>1, BytesGrow
  <2>6. n < MemoryWord
    BY <1>1
  <2> HIDE DEF b, n
  <2>7. b \in 0..(MemoryWord - 1)
    BY <1>1, <2>5, <2>6
  <2>8. \E k \in Int : cachedTotal = b + k * MemoryWord
    BY <2>3, <2>4 DEF b
  <2>9. cachedTotal = b
    BY <1>1, <1>2, <2>7, <2>8, SameWord
  <2> QED
    BY <2>9 DEF b
<1> QED
  BY <1>2, <1>4, <1>5, <1>6
-----------------------------------------------------------------------------
(* The parts together                                                      *)

Subject == subject \in {"pool", "queue", "memory", "registry", "settings", "codec", "batch",
                        "events", "streams"}

\* The parts start in their initial states, and each takes its own steps.
LEMMA PartsStart ==
  ASSUME MCInit
  PROVE  /\ Init /\ Queue!Init /\ Memory!Init /\ Registry!Init /\ Setting!Init /\ Codec!Init
         /\ Batch!Init /\ Events!Init /\ Streams!Init /\ Subject
BY DEF MCInit, Subject

LEMMA PartsStep ==
  ASSUME [MCNext]_all
  PROVE  /\ [Next]_vars /\ [Queue!Next]_queueVars /\ [Memory!Next]_memoryVars
         /\ [Registry!Next]_registryVars /\ [Setting!Next]_settingsVars /\ [Codec!Next]_codecVars
         /\ [Batch!Next]_batchVars /\ [Events!Next]_eventVars /\ [Streams!Next]_streamVars
         /\ subject' = subject
BY DEF MCNext, all

LEMMA QueueInvariance == MCSpec => []QueueInv
<1>1. MCInit => QueueInv
  BY PartsStart, QueueInitially, ResourcesAssumption
<1>2. QueueInv /\ [MCNext]_all => QueueInv'
  BY PartsStep, QueueKept, QueueStays, ResourcesAssumption
<1> QED
  BY <1>1, <1>2, PTL DEF MCSpec

LEMMA MemoryInvariance == MCSpec => []MemoryInv
<1>1. MCInit => MemoryInv
  BY PartsStart, MemoryInitially, ResourcesAssumption, MemoryAssumption
<1>2. MemoryInv /\ [MCNext]_all => MemoryInv'
  BY PartsStep, MemoryKept, MemoryStays, ResourcesAssumption, MemoryAssumption
<1> QED
  BY <1>1, <1>2, PTL DEF MCSpec

(* Of the lock-free queue and the memory pool: a counter differs from what  *)
(* it counts by the calls under way, however often it has wrapped; a cache  *)
(* exceeds its limit by fewer buffers than there are tasks; and at rest the *)
(* total is the memory in the queues, unless a clear has overtaken a call.  *)
THEOREM QueuesAccountedTheorem == MCSpec => []QueuesAccounted
<1>1. QueueInv => Queue!SizeAccounted
  BY QueuePromises, ResourcesAssumption
<1>2. MemoryInv => Memory!CountersAgree /\ Memory!OvershootBounded /\ Memory!TotalAgrees
  BY MemoryPromises, ResourcesAssumption, MemoryAssumption
<1>3. QueueInv /\ MemoryInv => QueuesAccounted
  BY <1>1, <1>2 DEF QueuesAccounted
<1> QED
  BY <1>3, QueueInvariance, MemoryInvariance, PTL

=============================================================================
