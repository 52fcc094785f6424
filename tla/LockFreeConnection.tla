-------------------------- MODULE LockFreeConnection --------------------------
(***************************************************************************)
(* A LockFreeConnection (src/src/transport/lockfree_connection.rs): calls  *)
(* on clones of a handle become commands in an unbounded queue, and one    *)
(* worker task applies them to the connection, each under a timeout, and   *)
(* answers through the oneshot channel of the command.                     *)
(*                                                                         *)
(* The worker waits for commands with crossbeam's blocking recv, inside an *)
(* async task: meanwhile it keeps one of the runtime's threads, which the  *)
(* tasks of the callers need as well.  And a caller that the worker wakes  *)
(* may be put into the slot that tokio keeps for the next task of that     *)
(* very thread, from which no other thread takes it: it cannot run before  *)
(* the worker awaits something, wakes another task, or ends.               *)
(*                                                                         *)
(* Statistics are left out, and so is the event bridge.  The queue is      *)
(* crossbeam's: dropping its receiver drops the commands in it, and with   *)
(* them their oneshot senders.                                             *)
(***************************************************************************)
EXTENDS Naturals, SequencesExt

CONSTANTS
  Handles,     \* clones of the connection, each used by one task
  original,    \* the handle that new() returned
  Threads,     \* worker threads of the runtime
  MaxCalls     \* bound: calls ever made

VARIABLES
  queue,       \* commands, each the number of its call
  worker,      \* "spawned", "recv", "work", "ended"
  command,     \* the call the worker is serving
  bound,       \* the caller in the slot of the worker's thread, if there is one
  kind,        \* what each call asks for
  answer,      \* oneshot channel of each call
  call,        \* the call that the task of each handle awaits
  is_connected,\* flag of each handle, "none" until it is cloned
  reported,    \* what connection.is_connected() said in new()
  link,        \* whether the underlying connection is open
  written,     \* sends that took effect
  closed       \* ConnectionClosed events of the worker

workerVars == <<queue, worker, command, bound>>
callVars == <<kind, answer, call, is_connected, reported>>
vars == <<workerVars, callVars, link, written, closed>>

NoCall == 0
Calls == 1..MaxCalls
Kinds == {"send", "flush", "close"}

TypeOK ==
  /\ queue \in Seq(Calls) /\ command \in Calls \cup {NoCall}
  /\ worker \in {"spawned", "recv", "work", "ended"}
  /\ kind \in Seq(Kinds) /\ Len(kind) <= MaxCalls
  /\ answer \in [Calls -> {"pending", "ok", "error", "dropped"}]
  /\ call \in [Handles -> Calls \cup {NoCall}]
  /\ is_connected \in [Handles -> {"none", "true", "false", "gone"}]
  /\ bound = {} \/ \E h \in Handles : bound = {h}
  /\ link \in BOOLEAN /\ reported \in BOOLEAN
  /\ written \in Seq(Calls)
  /\ closed \in 0..1

\* new() starts a worker also for a connection that says it is not connected.
Init ==
  /\ queue = <<>> /\ worker = "spawned" /\ command = NoCall /\ bound = {}
  /\ kind = <<>>
  /\ answer = [c \in Calls |-> "pending"]
  /\ call = [h \in Handles |-> NoCall]
  /\ reported \in BOOLEAN /\ link \in BOOLEAN
  /\ is_connected = [h \in Handles |-> IF h # original THEN "none"
                                       ELSE IF reported THEN "true" ELSE "false"]
  /\ written = <<>> /\ closed = 0

\* A thread can run tasks: the worker that waits in recv keeps its own, and the
\* task in the slot of that thread.
ThreadFree == (IF worker = "recv" THEN 1 ELSE 0) < Threads
MayRun(h) == ThreadFree /\ h \notin bound

Alive(h) == is_connected[h] \in {"true", "false"}

-----------------------------------------------------------------------------
(* The callers                                                             *)

\* send_lockfree, flush_lockfree, close_lockfree.  With the worker gone the
\* call returns an error at once.
Call(h, k) ==
  /\ ThreadFree /\ Alive(h) /\ call[h] = NoCall
  /\ worker # "ended" /\ Len(kind) < MaxCalls
  /\ kind' = Append(kind, k)
  /\ queue' = Append(queue, Len(kind) + 1)
  /\ call' = [call EXCEPT ![h] = Len(kind) + 1]
  /\ UNCHANGED <<worker, command, bound, answer, is_connected, reported, link, written, closed>>

\* Mutant: the flag is cleared whatever the answer.
ReturnClearingFlag(h) ==
  /\ MayRun(h) /\ call[h] # NoCall
  /\ answer[call[h]] # "pending"
  /\ call' = [call EXCEPT ![h] = NoCall]
  /\ is_connected' =
       IF kind[call[h]] = "close" THEN [is_connected EXCEPT ![h] = "false"] ELSE is_connected
  /\ UNCHANGED <<workerVars, kind, answer, reported, link, written, closed>>

\* The caller is woken; only the handle that closed learns that it did.
Return(h) ==
  /\ MayRun(h) /\ call[h] # NoCall
  /\ answer[call[h]] # "pending"
  /\ call' = [call EXCEPT ![h] = NoCall]
  /\ is_connected' =
       IF kind[call[h]] = "close" /\ answer[call[h]] = "ok"
       THEN [is_connected EXCEPT ![h] = "false"] ELSE is_connected
  /\ UNCHANGED <<workerVars, kind, answer, reported, link, written, closed>>

\* The caller drops its future; the command stays in the queue.
Cancel(h) ==
  /\ MayRun(h) /\ call[h] # NoCall
  /\ call' = [call EXCEPT ![h] = NoCall]
  /\ UNCHANGED <<workerVars, kind, answer, is_connected, reported, link, written, closed>>

\* Clone copies the flag.
CloneHandle(h, g) ==
  /\ ThreadFree /\ Alive(h) /\ is_connected[g] = "none"
  /\ is_connected' = [is_connected EXCEPT ![g] = is_connected[h]]
  /\ UNCHANGED <<workerVars, kind, answer, call, reported, link, written, closed>>

DropHandle(h) ==
  /\ ThreadFree /\ Alive(h) /\ call[h] = NoCall
  /\ is_connected' = [is_connected EXCEPT ![h] = "gone"]
  /\ UNCHANGED <<workerVars, kind, answer, call, reported, link, written, closed>>

-----------------------------------------------------------------------------
(* connection_worker                                                       *)

\* The first poll; from here on the worker keeps its thread whenever it waits.
Start ==
  /\ worker = "spawned"
  /\ worker' = "recv"
  /\ UNCHANGED <<queue, command, bound, callVars, link, written, closed>>

Receive ==
  /\ worker = "recv" /\ queue # <<>>
  /\ command' = Head(queue) /\ queue' = Tail(queue)
  /\ worker' = "work"
  /\ UNCHANGED <<bound, callVars, link, written, closed>>

\* recv fails once the last handle is gone.
WorkerDone ==
  /\ worker = "recv" /\ queue = <<>> /\ \A h \in Handles : ~Alive(h)
  /\ worker' = "ended"
  /\ UNCHANGED <<queue, command, bound, callVars, link, written, closed>>

Serving(k) == worker = "work" /\ kind[command] = k

\* The connection keeps the worker waiting, so that its thread runs the task in its
\* slot, or wakes another task, which pushes that one out to the other threads.
Displace ==
  /\ worker = "work" /\ bound # {}
  /\ bound' = {}
  /\ UNCHANGED <<queue, worker, command, callVars, link, written, closed>>

Awaiting(c) == {h \in Handles : call[h] = c}

\* The caller, if it is there and has been polled, is woken into the slot of this
\* thread, or into a queue that all threads share.
Reply(what) ==
  /\ answer' = [answer EXCEPT ![command] = what]
  /\ worker' = "recv" /\ command' = NoCall
  /\ bound' \in {bound} \cup {{h} : h \in Awaiting(command)}
  /\ UNCHANGED queue

\* Mutant: the queue outlives the worker.
ReplyAndLeave(what) ==
  /\ answer' = [answer EXCEPT ![command] = what]
  /\ worker' = "ended" /\ command' = NoCall /\ bound' = {} /\ UNCHANGED queue

\* The worker returns: its end of the queue is dropped, its thread is free.
ReplyAndEnd(what) ==
  /\ answer' = [c \in Calls |->
       IF c = command THEN what ELSE IF Contains(queue, c) THEN "dropped" ELSE answer[c]]
  /\ worker' = "ended" /\ command' = NoCall /\ bound' = {} /\ queue' = <<>>

\* Mutant: a send that timed out is tried again after the others.
SendAgain ==
  /\ Serving("send") /\ link
  /\ written' = Append(written, command)
  /\ \/ Reply("ok")
     \/ /\ queue' = Append(queue, command)
        /\ worker' = "recv" /\ command' = NoCall /\ UNCHANGED <<answer, bound>>
  /\ UNCHANGED <<kind, call, is_connected, reported, link, closed>>

\* The connection took the packet, refused it, or took too long: then the send
\* future is dropped, before or after it took effect.
Send ==
  /\ Serving("send")
  /\ \/ link /\ written' = Append(written, command) /\ Reply("ok")
     \/ UNCHANGED written /\ Reply("error")
     \/ link /\ written' = Append(written, command) /\ Reply("error")
  /\ UNCHANGED <<kind, call, is_connected, reported, link, closed>>

Flush ==
  /\ Serving("flush")
  /\ \E what \in {"ok", "error"} : Reply(what)
  /\ UNCHANGED <<kind, call, is_connected, reported, link, written, closed>>

CloseOk ==
  /\ Serving("close")
  /\ link' = FALSE /\ closed' = closed + 1
  /\ ReplyAndEnd("ok")
  /\ UNCHANGED <<kind, call, is_connected, reported, written>>

CloseFails ==
  /\ Serving("close")
  /\ Reply("error")
  /\ UNCHANGED <<kind, call, is_connected, reported, link, written, closed>>

\* After the timeout the worker ends too, without announcing anything.
CloseTimeout ==
  /\ Serving("close")
  /\ ReplyAndEnd("error")
  /\ link' \in {link, FALSE}
  /\ UNCHANGED <<kind, call, is_connected, reported, written, closed>>

\* The peer closes the connection.
LinkFails ==
  /\ link
  /\ link' = FALSE
  /\ UNCHANGED <<workerVars, callVars, written, closed>>

-----------------------------------------------------------------------------
WorkerStep == Start \/ Receive \/ WorkerDone \/ Send \/ Flush \/ CloseOk \/ CloseFails \/ CloseTimeout

Next ==
  \/ WorkerStep \/ Displace \/ LinkFails
  \/ \E h \in Handles :
       \/ \E k \in Kinds : Call(h, k)
       \/ Return(h) \/ Cancel(h) \/ DropHandle(h)
       \/ \E g \in Handles : CloneHandle(h, g)

Spec == Init /\ [][Next]_vars

\* The worker runs, and a caller that was woken is polled if a thread is left to poll
\* it.  Nobody has to make another call, and the connection need not make the worker
\* wait.
Fairness == WF_vars(WorkerStep) /\ \A h \in Handles : WF_vars(Return(h))
FairSpec == Spec /\ Fairness

-----------------------------------------------------------------------------
(* Properties                                                              *)

(* Packets reach the connection in the order of the calls and at most once, *)
(* whatever timed out or was dropped; a send that returned Ok is among them.*)
InOrderOnce ==
  /\ \A i, j \in DOMAIN written : i < j => written[i] < written[j]
  /\ \A c \in DOMAIN kind :
       kind[c] = "send" /\ answer[c] = "ok" => Contains(written, c)

(* "Not connected" is said by the handles of a connection that said so when *)
(* it was handed to new(), although a worker serves it, and by nobody else  *)
(* unless the connection is closed and its worker has ended.  "Connected"   *)
(* only means that it was when new() asked: clones keep their flag.         *)
FalseMeansClosed ==
  \A h \in Handles :
    /\ is_connected[h] = "false" => ~reported \/ (~link /\ worker = "ended")
    /\ is_connected[h] = "true" => reported

(* Every call returns.  (There are MaxCalls of them, so they have returned  *)
(* once none is waiting again.)                                             *)
CallsReturn == []<>(\A h \in Handles : call[h] = NoCall)

(* With a second thread every call returns, also those whose command was in *)
(* the queue when the worker ended, but possibly one: the one whose caller  *)
(* was woken into the slot of the worker's thread, if no command ever comes *)
(* after it.                                                                *)
CallsReturnButOne ==
  \A h \in Handles : []<>(call[h] = NoCall) \/ <>[](h \in bound /\ worker = "recv")
=============================================================================
