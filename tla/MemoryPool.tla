------------------------------ MODULE MemoryPool ------------------------------
(***************************************************************************)
(* The OptimizedMemoryPool of src/src/transport/memory_pool.rs: a queue of *)
(* cached buffers for each size class, counters of what they hold, and a   *)
(* limit for each.  Queues, counters and limits are shared by all clones   *)
(* of the pool; every operation touches them one after the other.          *)
(*                                                                         *)
(* Buffers of one class are alike, so a queue is its length.  The counts   *)
(* of operations, hits and misses, which nothing in the pool reads, are    *)
(* left out, and so are the events.                                        *)
(***************************************************************************)
EXTENDS Naturals, FiniteSets, Sequences

CONSTANTS
  Tasks,       \* tasks with a clone of the pool
  Sizes,       \* the size classes, in the order in which they are cleared
  capacity,    \* bytes of a buffer of each class
  max_cached,  \* limit of each class, as new() sets it
  preallocated,\* buffers of each class that with_preallocation creates
  threshold,   \* memory pressure threshold of adjust_cache_limits
  MaxHeld,     \* bound: buffers that the tasks hold at a time
  Word         \* counters count modulo this: 2^64 in the code

VARIABLES
  buffers,     \* length of each queue
  cached,      \* small_cached, medium_cached, large_cached
  total,       \* total_memory_cached
  limit,       \* small_max_cached, medium_max_cached, large_max_cached
  held,        \* buffers handed out, of each class
  task,        \* step of each task, and the class it is working on
  overtaken    \* clear_cache has reset the total under another call's hands

vars == <<buffers, cached, total, limit, held, task, overtaken>>

Classes == 1..Len(Sizes)
Capacity(c) == capacity[Sizes[c]]
Steps == {"idle", "hit", "hitTotal", "push", "count", "countTotal",
          "clear", "clearCount", "reset", "shrink"}

TypeOK ==
  /\ buffers \in [Classes -> Nat] /\ held \in [Classes -> 0..MaxHeld]
  /\ cached \in [Classes -> 0..(Word - 1)] /\ total \in 0..(Word - 1)
  /\ limit \in [Classes -> Nat] /\ \A c \in Classes : limit[c] <= max_cached[Sizes[c]]
  /\ task \in [Tasks -> [step : Steps, class : Classes]]
  /\ overtaken \in BOOLEAN

Sum(n) == LET upTo[c \in 0..Len(Sizes)] == IF c = 0 THEN 0 ELSE upTo[c - 1] + n[c]
          IN  upTo[Len(Sizes)]
Space(count) == Sum([c \in Classes |-> count[c] * Capacity(c)])

Init ==
  /\ buffers = [c \in Classes |-> preallocated[Sizes[c]]]
  /\ cached = buffers
  /\ total = Space(buffers)
  /\ limit = [c \in Classes |-> max_cached[Sizes[c]]]
  /\ held = [c \in Classes |-> 0]
  /\ task = [t \in Tasks |-> [step |-> "idle", class |-> 1]]
  /\ overtaken = FALSE

At(t, step, c) == task[t].step = step /\ task[t].class = c
Goto(t, step, c) == task' = [task EXCEPT ![t] = [step |-> step, class |-> c]]
Add(n, d) == (n + d) % Word
Subtract(n, d) == (n + Word - (d % Word)) % Word

-----------------------------------------------------------------------------
(* get_buffer                                                              *)

\* A buffer from the queue, or a new one if the queue is empty.
Get(t, c) ==
  /\ task[t].step = "idle"
  /\ Sum(held) < MaxHeld
  /\ held' = [held EXCEPT ![c] = @ + 1]
  /\ IF buffers[c] > 0
     THEN buffers' = [buffers EXCEPT ![c] = @ - 1] /\ Goto(t, "hit", c)
     ELSE UNCHANGED <<buffers, task>>
  /\ UNCHANGED <<cached, total, limit, overtaken>>

\* Mutant: a hit is not counted.
HitUncounted(t, c) ==
  /\ At(t, "hit", c)
  /\ Goto(t, "hitTotal", c)
  /\ UNCHANGED <<buffers, cached, total, limit, held, overtaken>>

CountHit(t, c) ==
  /\ At(t, "hit", c)
  /\ cached' = [cached EXCEPT ![c] = Subtract(@, 1)]
  /\ Goto(t, "hitTotal", c)
  /\ UNCHANGED <<buffers, total, limit, held, overtaken>>

CountHitTotal(t, c) ==
  /\ At(t, "hitTotal", c)
  /\ total' = Subtract(total, Capacity(c))
  /\ Goto(t, "idle", 1)
  /\ UNCHANGED <<buffers, cached, limit, held, overtaken>>

-----------------------------------------------------------------------------
(* return_buffer                                                           *)

\* Mutant: the limit is not looked at.
ReturnUnlimited(t, c) ==
  /\ task[t].step = "idle" /\ held[c] > 0
  /\ held' = [held EXCEPT ![c] = @ - 1]
  /\ Goto(t, "push", c)
  /\ UNCHANGED <<buffers, cached, total, limit, overtaken>>

\* The caller gives up its buffer; at the limit it is dropped.
Return(t, c) ==
  /\ task[t].step = "idle" /\ held[c] > 0
  /\ held' = [held EXCEPT ![c] = @ - 1]
  /\ IF cached[c] >= limit[c] THEN UNCHANGED task ELSE Goto(t, "push", c)
  /\ UNCHANGED <<buffers, cached, total, limit, overtaken>>

Push(t, c) ==
  /\ At(t, "push", c)
  /\ buffers' = [buffers EXCEPT ![c] = @ + 1]
  /\ Goto(t, "count", c)
  /\ UNCHANGED <<cached, total, limit, held, overtaken>>

CountReturn(t, c) ==
  /\ At(t, "count", c)
  /\ cached' = [cached EXCEPT ![c] = Add(@, 1)]
  /\ Goto(t, "countTotal", c)
  /\ UNCHANGED <<buffers, total, limit, held, overtaken>>

\* Mutant: every returned buffer counts as one of the first class.
CountOneSize(t, c) ==
  /\ At(t, "countTotal", c)
  /\ total' = Add(total, Capacity(1))
  /\ Goto(t, "idle", 1)
  /\ UNCHANGED <<buffers, cached, limit, held, overtaken>>

CountReturnTotal(t, c) ==
  /\ At(t, "countTotal", c)
  /\ total' = Add(total, Capacity(c))
  /\ Goto(t, "idle", 1)
  /\ UNCHANGED <<buffers, cached, limit, held, overtaken>>

-----------------------------------------------------------------------------
(* clear_cache                                                             *)

Clear(t) ==
  /\ task[t].step = "idle"
  /\ Goto(t, "clear", 1)
  /\ UNCHANGED <<buffers, cached, total, limit, held, overtaken>>

\* Pop until the queue of a class is empty, then go on with the next class.
ClearPop(t, c) ==
  /\ At(t, "clear", c)
  /\ IF buffers[c] > 0
     THEN buffers' = [buffers EXCEPT ![c] = @ - 1] /\ Goto(t, "clearCount", c)
     ELSE /\ IF c < Len(Sizes) THEN Goto(t, "clear", c + 1) ELSE Goto(t, "reset", 1)
          /\ UNCHANGED buffers
  /\ UNCHANGED <<cached, total, limit, held, overtaken>>

ClearCount(t, c) ==
  /\ At(t, "clearCount", c)
  /\ cached' = [cached EXCEPT ![c] = Subtract(@, 1)]
  /\ Goto(t, "clear", c)
  /\ UNCHANGED <<buffers, total, limit, held, overtaken>>

\* The total is stored, not counted down: what others have queued or are about
\* to count is forgotten.
ResetTotal(t) ==
  /\ task[t].step = "reset"
  /\ total' = 0
  /\ overtaken' = (overtaken \/ Space(buffers) # 0
                   \/ \E u \in Tasks : task[u].step \in {"hit", "hitTotal", "count", "countTotal"})
  /\ Goto(t, "idle", 1)
  /\ UNCHANGED <<buffers, cached, limit, held>>

-----------------------------------------------------------------------------
(* adjust_cache_limits                                                     *)

Adjust(t) ==
  /\ task[t].step = "idle"
  /\ total > threshold
  /\ Goto(t, "shrink", 1)
  /\ UNCHANGED <<buffers, cached, total, limit, held, overtaken>>

ShrinkLimit(t, c) ==
  /\ At(t, "shrink", c)
  /\ limit' = [limit EXCEPT ![c] = (@ * 8) \div 10]
  /\ IF c < Len(Sizes) THEN Goto(t, "shrink", c + 1) ELSE Goto(t, "idle", 1)
  /\ UNCHANGED <<buffers, cached, total, held, overtaken>>

-----------------------------------------------------------------------------
Next ==
  \E t \in Tasks :
    \/ Clear(t) \/ ResetTotal(t) \/ Adjust(t)
    \/ \E c \in Classes :
         \/ Get(t, c) \/ CountHit(t, c) \/ CountHitTotal(t, c)
         \/ Return(t, c) \/ Push(t, c) \/ CountReturn(t, c) \/ CountReturnTotal(t, c)
         \/ ClearPop(t, c) \/ ClearCount(t, c) \/ ShrinkLimit(t, c)

Spec == Init /\ [][Next]_vars

-----------------------------------------------------------------------------
(* Properties                                                              *)

Quiet == \A t \in Tasks : task[t].step = "idle"

(* At rest the cached counters are the lengths of the queues, whatever gets,*)
(* returns and clears overlapped, and even if a counter wrapped on the way. *)
CountersAgree == Quiet => cached = buffers

(* The limit is checked before the push and counted after it, so it may be  *)
(* exceeded, but by no more than the other tasks can return at once.        *)
OvershootBounded ==
  \A c \in Classes : buffers[c] <= max_cached[Sizes[c]] + Cardinality(Tasks) - 1

(* At rest the total is the memory in the queues, unless a clear has reset  *)
(* it while another call was about to change it: that error stays.          *)
TotalAgrees == Quiet /\ ~overtaken => total = Space(buffers)
=============================================================================
