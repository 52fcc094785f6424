---------------------------- MODULE LockFreeQueue ----------------------------
(***************************************************************************)
(* LockFreeQueue of src/src/transport/lockfree.rs: a channel that its      *)
(* clones push to and pop from, with statistics next to it that are        *)
(* updated one by one after an item has moved.  len and is_empty read      *)
(* current_size, not the channel.                                          *)
(***************************************************************************)
EXTENDS Integers, Sequences, FiniteSets

CONSTANTS
  Users,     \* threads with a clone of the queue
  MaxItems,  \* bound: items ever pushed
  WordSize   \* counters count modulo this: 2^64 in the code

VARIABLES
  items,     \* in the channel
  enqueued, dequeued, current_size,
  using      \* step of each user

vars == <<items, enqueued, dequeued, current_size, using>>

TypeOK ==
  /\ Len(items) <= MaxItems
  /\ {enqueued, dequeued, current_size} \subseteq 0..WordSize - 1
  /\ using \in [Users -> {"idle", "pushed", "push_counted", "popped", "pop_counted"}]

Init ==
  /\ items = <<>> /\ enqueued = 0 /\ dequeued = 0 /\ current_size = 0
  /\ using = [u \in Users |-> "idle"]

Goto(u, step) == using' = [using EXCEPT ![u] = step]

Push(u) ==
  /\ using[u] = "idle"
  /\ enqueued + Cardinality({v \in Users : using[v] = "pushed"}) < MaxItems
  /\ items' = Append(items, enqueued) /\ Goto(u, "pushed")
  /\ UNCHANGED <<enqueued, dequeued, current_size>>

PushCount(u) ==
  /\ using[u] = "pushed" /\ Goto(u, "push_counted")
  /\ enqueued' = (enqueued + 1) % WordSize
  /\ UNCHANGED <<items, dequeued, current_size>>

PushSize(u) ==
  /\ using[u] = "push_counted" /\ Goto(u, "idle")
  /\ current_size' = (current_size + 1) % WordSize
  /\ UNCHANGED <<items, enqueued, dequeued>>

\* Mutant: pop counts although the channel was empty.
PopCountingEmpty(u) ==
  /\ using[u] = "idle" /\ Goto(u, "popped")
  /\ items' = IF items = <<>> THEN items ELSE Tail(items)
  /\ UNCHANGED <<enqueued, dequeued, current_size>>

\* From an empty channel pop returns None and changes nothing.
Pop(u) ==
  /\ using[u] = "idle" /\ items # <<>> /\ Goto(u, "popped")
  /\ items' = Tail(items)
  /\ UNCHANGED <<enqueued, dequeued, current_size>>

PopCount(u) ==
  /\ using[u] = "popped" /\ Goto(u, "pop_counted")
  /\ dequeued' = (dequeued + 1) % WordSize
  /\ UNCHANGED <<items, enqueued, current_size>>

PopSize(u) ==
  /\ using[u] = "pop_counted" /\ Goto(u, "idle")
  /\ current_size' = (current_size - 1) % WordSize
  /\ UNCHANGED <<items, enqueued, dequeued>>

Next ==
  \E u \in Users :
    \/ Push(u) \/ PushCount(u) \/ PushSize(u)
    \/ Pop(u) \/ PopCount(u) \/ PopSize(u)

Spec == Init /\ [][Next]_vars

-----------------------------------------------------------------------------
(* Properties                                                              *)

(* len differs from the length of the channel by exactly the calls that    *)
(* have moved an item and not counted it yet: it may wrap below zero while *)
(* a pop overtakes a push, and at rest all three statistics are exact.     *)
SizeAccounted ==
  LET at(steps) == Cardinality({u \in Users : using[u] \in steps})
  IN  /\ current_size = (Len(items) - at({"pushed", "push_counted"})
                           + at({"popped", "pop_counted"})) % WordSize
      /\ (enqueued - dequeued) % WordSize
           = (Len(items) - at({"pushed"}) + at({"popped"})) % WordSize
=============================================================================
