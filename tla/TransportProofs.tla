--------------------------- MODULE TransportProofs ---------------------------
(***************************************************************************)
(* Proofs about Transport, for every set of tasks and responders and every *)
(* number of connections: a client's session, adapter, connection state    *)
(* and locks agree, however sends, closes, dropped futures, reconnects and *)
(* failing connections interleave.                                         *)
(***************************************************************************)
EXTENDS Transport, TLAPS

-----------------------------------------------------------------------------
(* The inductive invariant                                                 *)

Disconnecting == {"try"} \cup Closing

(* What connect may count on: &mut self keeps disconnects out, and its      *)
(* steps have run in their order.                                           *)
ConnectInv ==
  /\ connecting # "no" => \A t \in Tasks : pc[t] \in {"idle", "send"}
  /\ connecting = "setAdapter" => newConn # NoConn
  /\ connecting \in {"setSession", "addState", "clone", "publish"} => adapter # NoConn
  /\ connecting \in {"addState", "clone", "publish"} => session
  /\ connecting \in {"clone", "publish"} => state = "Connected"

(* What the steps of one disconnect leave behind; it is the only one, since *)
(* it holds what current_session_id was taken from.                         *)
CloseInv ==
  /\ current => /\ session /\ state = "Connected"
                /\ \A t \in Tasks : pc[t] \notin Disconnecting
  /\ \A t, u \in Tasks : pc[t] \in Disconnecting /\ pc[u] \in Disconnecting => t = u
  /\ \A t \in Tasks :
       /\ pc[t] \in Disconnecting \ {"clearAdapter"} => session
       /\ pc[t] = "clearAdapter" => ~session
       /\ pc[t] = "try" => state = "Connected"
       /\ pc[t] \in {"check", "clearSession", "clearAdapter"} => state = "Closed"

(* Response tasks only send.                                                *)
RespondersInv == \A t \in Responders : pc[t] \in {"idle", "send"}

IInv ==
  /\ TypeOK
  /\ SessionHasAdapter
  /\ OkMeansClosed
  /\ LocksOwned
  /\ ConnectInv
  /\ CloseInv
  /\ RespondersInv

-----------------------------------------------------------------------------
(* Type correctness                                                        *)

LEMMA TypeInit == Init => TypeOK
  BY TransportAssumption DEF Init, TypeOK, Conns, NoConn, Resting, Busy

LEMMA TypeStep == TypeOK /\ [Next]_vars => TypeOK'
<1> SUFFICES ASSUME TypeOK, [Next]_vars PROVE TypeOK'
  OBVIOUS
<1> USE TransportAssumption
    DEF TypeOK, Release, clientVars, lockVars, connectVars, taskVars, connVars
<1>1. CASE ConnectStep
  <2>1. CASE ConnectStart
    BY <2>1 DEF ConnectStart, Conns, Resting, Busy
  <2>2. CASE SetAdapter \/ SetSession \/ AddConnection
    BY <2>2 DEF SetAdapter, SetSession, AddConnection
  <2>3. CASE CloneAdapter \/ ConnectDone \/ CancelConnect
    BY <2>3 DEF CloneAdapter, ConnectDone, CancelConnect
  <2> QED
    BY <1>1, <2>1, <2>2, <2>3 DEF ConnectStep
<1>2. ASSUME NEW t \in Tasks, TaskStep(t) PROVE TypeOK'
  <2> USE DEF Goto, Resting, Busy, Closing
  <2>1. CASE SendBegin(t) \/ SendEnqueue(t)
    BY <2>1 DEF SendBegin, SendEnqueue
  <2>2. ASSUME NEW forced \in BOOLEAN, Disconnect(t, forced) PROVE TypeOK'
    BY <2>2 DEF Disconnect
  <2>3. CASE TryStartClosing(t)
    BY <2>3 DEF TryStartClosing
  <2>4. CASE CloseAdapter(t)
    <3>1. pc' \in [Tasks -> Resting \cup Busy] /\ adapterLock' \in Tasks \cup {Free}
      BY <2>4 DEF CloseAdapter
    <3>2. shutdown' \in [Conns -> BOOLEAN] /\ handle' \in [Conns -> BOOLEAN]
      BY <2>4 DEF CloseAdapter
    <3> QED
      BY <2>4, <3>1, <3>2 DEF CloseAdapter
  <2>5. CASE Joined(t) \/ GracefulTimeout(t) \/ MarkClosed(t)
    BY <2>5 DEF Joined, GracefulTimeout, MarkClosed
  <2>6. CASE CheckSession(t) \/ ClearSession(t) \/ ClearAdapter(t)
    <3>1. CASE CheckSession(t)
      BY <3>1 DEF CheckSession
    <3>2. CASE ClearSession(t)
      BY <3>2 DEF ClearSession
    <3>3. CASE ClearAdapter(t)
      BY <3>3 DEF ClearAdapter
    <3> QED
      BY <2>6, <3>1, <3>2, <3>3
  <2>7. CASE Cancel(t)
    BY <2>7 DEF Cancel
  <2> QED
    BY <1>2, <2>1, <2>2, <2>3, <2>4, <2>5, <2>6, <2>7 DEF TaskStep
<1>3. ASSUME NEW c \in Conns, LoopStep(c) PROVE TypeOK'
  BY <1>3 DEF LoopStep, LoopTakes, LoopWritten, LoopFails, LoopShutdown
<1>4. CASE UNCHANGED vars
  BY <1>4 DEF vars
<1> QED
  BY <1>1, <1>2, <1>3, <1>4 DEF Next

(* In every reachable state the variables have the types the code gives     *)
(* them: a lock is free or held by one task, connection 0 means None, and   *)
(* the state manager's entry is one of its states.                          *)
THEOREM TypeCorrect == Spec => []TypeOK
  BY TypeInit, TypeStep, PTL DEF Spec

-----------------------------------------------------------------------------
(* The invariant is inductive                                              *)

LEMMA IInvInit == Init => IInv
  BY TypeInit, TransportAssumption
  DEF Init, IInv, SessionHasAdapter, UnwrapSafe, OkMeansClosed, LocksOwned,
      ConnectInv, CloseInv, Disconnecting, Closing, RespondersInv

(* The steps of connect.                                                    *)
LEMMA ConnectPreserves ==
  ASSUME IInv, TypeOK', ConnectStep PROVE IInv'
<1> USE TransportAssumption
    DEF IInv, TypeOK, SessionHasAdapter, UnwrapSafe, OkMeansClosed, LocksOwned,
        ConnectInv, CloseInv, Disconnecting, Closing, RespondersInv,
        clientVars, lockVars, connectVars, taskVars, connVars
<1>1. CASE ConnectStart
  <2>1. \A t \in Tasks : pc'[t] \in {"idle", "send"}
    BY <1>1 DEF ConnectStart, Resting
  <2>2. \A t \in Tasks : pc[t] = "send" => pc'[t] = "send"
    BY <1>1 DEF ConnectStart
  <2>3. \A t \in Tasks : pc[t] # "join"
    BY <1>1 DEF ConnectStart, Resting
  <2> QED
    BY <1>1, <2>1, <2>2, <2>3 DEF ConnectStart, Conns, NoConn
<1>2. CASE SetAdapter
  BY <1>2 DEF SetAdapter
<1>3. CASE SetSession
  BY <1>3 DEF SetSession
<1>4. CASE AddConnection
  BY <1>4 DEF AddConnection
<1>5. CASE CloneAdapter
  BY <1>5 DEF CloneAdapter
<1>6. CASE ConnectDone
  BY <1>6 DEF ConnectDone
<1>7. CASE CancelConnect
  BY <1>7 DEF CancelConnect
<1> QED
  BY <1>1, <1>2, <1>3, <1>4, <1>5, <1>6, <1>7 DEF ConnectStep

(* A task that takes a step is the only one whose pc changes.               *)
LEMMA GotoOnly ==
  ASSUME TypeOK, NEW t \in Tasks, NEW step, Goto(t, step)
  PROVE  /\ pc'[t] = step
         /\ \A u \in Tasks : u # t => pc'[u] = pc[u]
  BY DEF TypeOK, Goto

LEMMA SendPreserves ==
  ASSUME IInv, TypeOK', NEW t \in Tasks, SendBegin(t) \/ SendEnqueue(t)
  PROVE  IInv'
<1> USE TransportAssumption
    DEF IInv, TypeOK, SessionHasAdapter, UnwrapSafe, OkMeansClosed, LocksOwned,
        ConnectInv, CloseInv, Disconnecting, Closing, RespondersInv, Resting,
        clientVars, lockVars, connectVars, connVars
<1>1. CASE SendBegin(t)
  BY <1>1, GotoOnly DEF SendBegin, MayCall
<1>2. CASE SendEnqueue(t)
  BY <1>2, GotoOnly DEF SendEnqueue
<1> QED
  BY <1>1, <1>2

(* The steps of a disconnect.                                               *)
LEMMA DisconnectPreserves ==
  ASSUME IInv, TypeOK', NEW t \in Tasks,
         \/ \E forced \in BOOLEAN : Disconnect(t, forced)
         \/ TryStartClosing(t) \/ CloseAdapter(t) \/ Joined(t) \/ GracefulTimeout(t)
         \/ MarkClosed(t) \/ CheckSession(t) \/ ClearSession(t) \/ ClearAdapter(t)
  PROVE  IInv'
<1> USE TransportAssumption
    DEF IInv, TypeOK, SessionHasAdapter, UnwrapSafe, OkMeansClosed, LocksOwned,
        ConnectInv, CloseInv, Disconnecting, Closing, RespondersInv, Resting,
        clientVars, lockVars, connectVars, connVars
<1>1. ASSUME NEW forced \in BOOLEAN, Disconnect(t, forced) PROVE IInv'
  BY <1>1, GotoOnly DEF Disconnect, MayCall
<1>2. CASE TryStartClosing(t)
  BY <1>2, GotoOnly DEF TryStartClosing
<1>3. CASE CloseAdapter(t)
  BY <1>3, GotoOnly DEF CloseAdapter
<1>4. CASE Joined(t) \/ GracefulTimeout(t)
  BY <1>4, GotoOnly DEF Joined, GracefulTimeout
<1>5. CASE MarkClosed(t)
  BY <1>5, GotoOnly DEF MarkClosed
<1>6. CASE CheckSession(t)
  BY <1>6, GotoOnly DEF CheckSession
<1>7. CASE ClearSession(t)
  BY <1>7, GotoOnly DEF ClearSession
<1>8. CASE ClearAdapter(t)
  BY <1>8, GotoOnly DEF ClearAdapter
<1> QED
  BY <1>1, <1>2, <1>3, <1>4, <1>5, <1>6, <1>7, <1>8

LEMMA CancelPreserves ==
  ASSUME IInv, TypeOK', NEW t \in Tasks, Cancel(t) PROVE IInv'
  BY GotoOnly, TransportAssumption
  DEF Cancel, IInv, TypeOK, SessionHasAdapter, UnwrapSafe, OkMeansClosed, LocksOwned,
      ConnectInv, CloseInv, Disconnecting, Closing, RespondersInv, Resting,
      clientVars, connectVars, connVars

LEMMA IInvStep == IInv /\ [Next]_vars => IInv'
<1> SUFFICES ASSUME IInv, [Next]_vars PROVE IInv'
  OBVIOUS
<1>1. TypeOK'
  BY TypeStep DEF IInv
<1>2. CASE UNCHANGED <<clientVars, lockVars, connectVars, pc>>
  BY <1>1, <1>2
  DEF IInv, SessionHasAdapter, UnwrapSafe, OkMeansClosed, LocksOwned, ConnectInv,
      CloseInv, RespondersInv, clientVars, lockVars, connectVars
<1>3. ASSUME NEW c \in Conns, LoopStep(c) PROVE IInv'
  BY <1>3, <1>2 DEF LoopStep, LoopTakes, LoopWritten, LoopFails, LoopShutdown, taskVars
<1>4. CASE UNCHANGED vars
  BY <1>4, <1>2 DEF vars, taskVars
<1>5. ASSUME NEW t \in Tasks, TaskStep(t) PROVE IInv'
  BY <1>1, <1>5, SendPreserves, DisconnectPreserves, CancelPreserves DEF TaskStep
<1> QED
  BY <1>1, <1>3, <1>4, <1>5, ConnectPreserves DEF Next

LEMMA Invariance == Spec => []IInv
  BY IInvInit, IInvStep, PTL DEF Spec

-----------------------------------------------------------------------------
(* What follows                                                            *)

(* Whoever sees a session finds an adapter, in every interleaving: send     *)
(* never reports a missing adapter, and the unwrap after a connect does not *)
(* panic.                                                                   *)
THEOREM SessionHasAdapterTheorem == Spec => []SessionHasAdapter
  BY Invariance, PTL DEF IInv

(* A disconnect that returned Ok leaves no session, no adapter and the      *)
(* state Closed behind until the next connect, whatever was dropped, timed  *)
(* out or failed before it.                                                 *)
THEOREM OkMeansClosedTheorem == Spec => []OkMeansClosed
  BY Invariance, PTL DEF IInv

(* No two tasks close a connection at the same time.                        *)
THEOREM SingleCloserTheorem == Spec => []SingleCloser
<1>1. IInv => SingleCloser
  BY DEF IInv, CloseInv, Disconnecting, SingleCloser
<1> QED
  BY Invariance, <1>1, PTL

(* A mutex is held by the call that locked it only, also after a timeout or *)
(* after the caller dropped the future.                                     *)
THEOREM LocksOwnedTheorem == Spec => []LocksOwned
  BY Invariance, PTL DEF IInv

=============================================================================
