------------------------------ MODULE Transport ------------------------------
(***************************************************************************)
(* Session lifecycle of a TransportClient and its Transport                *)
(* (src/src/transport/client.rs, src/src/transport/transport.rs,           *)
(* src/src/transport/connection_state.rs) over TCP connections whose event *)
(* loop is the one of src/src/adapters/tcp.rs.                             *)
(*                                                                         *)
(* Tasks call the &self methods (send, disconnect, force_disconnect)       *)
(* concurrently; connect takes &mut self, so it runs while none of them is *)
(* borrowing the client.  Responders are the tasks spawned to send a       *)
(* response: they hold an Arc<Transport> and run during connect as well.   *)
(*                                                                         *)
(* The two tokio mutexes of Transport are modelled because they are held   *)
(* across awaits: send holds session_id while it waits for                 *)
(* connection_adapter, a close holds connection_adapter while it waits for *)
(* the event loop to end.  The mutex of the connection itself is only ever *)
(* held together with connection_adapter.                                  *)
(***************************************************************************)
EXTENDS Naturals

CONSTANTS
  Tasks,       \* tasks using the client
  Responders,  \* the spawned response tasks among them
  MaxConns,    \* bound: how many connections connect ever builds
  ForceAllowed,\* whether the application uses force_disconnect
  Free         \* an unlocked mutex

ASSUME TransportAssumption ==
  /\ Responders \subseteq Tasks
  /\ MaxConns \in Nat
  /\ ForceAllowed \in BOOLEAN
  /\ Free \notin Tasks

Conns == 1..MaxConns
NoConn == 0

VARIABLES
  current,     \* TransportClient::current_session_id is Some
  session,     \* Transport::session_id is Some(SessionId(1))
  adapter,     \* Transport::connection_adapter
  state,       \* ConnectionStateManager entry of SessionId(1)
  sessionLock, adapterLock,
  connecting,  \* step of the running connect, "no" if none runs
  newConn,     \* the connection that connect is installing
  pc,          \* step of each task
  force,       \* whether the task closes forcefully
  loop,        \* event loop of each connection
  queued,      \* whether its send queue is not empty
  shutdown,    \* whether a shutdown signal was sent to it
  handle,      \* whether the adapter still holds its JoinHandle
  consumer     \* whether a consumer loop was spawned: it owns the adapter too

clientVars == <<current, session, adapter, state>>
lockVars == <<sessionLock, adapterLock>>
connectVars == <<connecting, newConn>>
taskVars == <<pc, force>>
connVars == <<loop, queued, shutdown, handle, consumer>>
vars == <<clientVars, lockVars, connectVars, taskVars, connVars>>

\* "closedOk": at rest, and the last call was a disconnect that returned Ok.
Resting == {"idle", "closedOk"}
Closing == {"close", "join", "mark", "check", "clearSession", "clearAdapter"}
Busy == {"send", "try"} \cup Closing

TypeOK ==
  /\ current \in BOOLEAN /\ session \in BOOLEAN
  /\ adapter \in Conns \cup {NoConn}
  /\ state \in {"Unknown", "Connected", "Closing", "Closed"}
  /\ sessionLock \in Tasks \cup {Free} /\ adapterLock \in Tasks \cup {Free}
  /\ connecting \in {"no", "setAdapter", "setSession", "addState", "clone", "publish"}
  /\ newConn \in Conns \cup {NoConn}
  /\ pc \in [Tasks -> Resting \cup Busy]
  /\ force \in [Tasks -> BOOLEAN]
  /\ loop \in [Conns -> {"none", "ready", "writing", "ended"}]
  /\ queued \in [Conns -> BOOLEAN]
  /\ shutdown \in [Conns -> BOOLEAN]
  /\ handle \in [Conns -> BOOLEAN]
  /\ consumer \in [Conns -> BOOLEAN]

Init ==
  /\ current = FALSE /\ session = FALSE
  /\ adapter = NoConn
  /\ state = "Unknown"
  /\ sessionLock = Free /\ adapterLock = Free
  /\ connecting = "no" /\ newConn = NoConn
  /\ pc = [t \in Tasks |-> "idle"]
  /\ force = [t \in Tasks |-> FALSE]
  /\ loop = [c \in Conns |-> "none"]
  /\ queued = [c \in Conns |-> FALSE]
  /\ shutdown = [c \in Conns |-> FALSE]
  /\ handle = [c \in Conns |-> FALSE]
  /\ consumer = [c \in Conns |-> FALSE]

Goto(t, step) == pc' = [pc EXCEPT ![t] = step]

\* The Transport lets go of connection c.  Dropping the last owner of an adapter
\* closes its shutdown channel, which its event loop takes for the signal; but a
\* consumer loop owns the adapter until the event channel closes, and that
\* channel's sender is in the adapter.
Release(c) ==
  shutdown' = IF c # NoConn /\ ~consumer[c]
              THEN [shutdown EXCEPT ![c] = TRUE] ELSE shutdown

\* A call through &self may start: no connect holds &mut self.
MayCall(t) == pc[t] \in Resting /\ (connecting = "no" \/ t \in Responders)

-----------------------------------------------------------------------------
(* connect and set_connection                                              *)

\* Mutant: connect through a shared reference, next to running calls.
ConnectShared ==
  /\ connecting = "no"
  /\ \E c \in Conns :
       /\ loop[c] = "none" /\ \A d \in Conns : d < c => loop[d] # "none"
       /\ newConn' = c
       /\ loop' = [loop EXCEPT ![c] = "ready"]
       /\ handle' = [handle EXCEPT ![c] = TRUE]
  /\ connecting' = "setAdapter"
  /\ pc' = [t \in Tasks |-> IF pc[t] = "closedOk" THEN "idle" ELSE pc[t]]
  /\ UNCHANGED <<clientVars, lockVars, force, queued, shutdown, consumer>>

\* connect, after connect_with_stored_config built a connection: its event loop
\* runs from here on.  A failed attempt, and its retries, change nothing.
ConnectStart ==
  /\ connecting = "no"
  /\ \A t \in Tasks \ Responders : pc[t] \in Resting
  /\ \E c \in Conns :
       /\ loop[c] = "none" /\ \A d \in Conns : d < c => loop[d] # "none"
       /\ newConn' = c
       /\ loop' = [loop EXCEPT ![c] = "ready"]
       /\ handle' = [handle EXCEPT ![c] = TRUE]
  /\ connecting' = "setAdapter"
  /\ pc' = [t \in Tasks |-> IF pc[t] = "closedOk" THEN "idle" ELSE pc[t]]
  /\ UNCHANGED <<clientVars, lockVars, force, queued, shutdown, consumer>>

SetAdapter ==
  /\ connecting = "setAdapter" /\ adapterLock = Free
  /\ adapter' = newConn
  /\ Release(adapter)
  /\ connecting' = "setSession"
  /\ UNCHANGED <<current, session, state, lockVars, newConn, taskVars>>
  /\ UNCHANGED <<loop, queued, handle, consumer>>

SetSession ==
  /\ connecting = "setSession" /\ sessionLock = Free
  /\ session' = TRUE
  /\ connecting' = "addState"
  /\ UNCHANGED <<current, adapter, state, lockVars, newConn, taskVars, connVars>>

\* state_manager.add_connection overwrites whatever the entry was.
AddConnection ==
  /\ connecting = "addState"
  /\ state' = "Connected"
  /\ connecting' = "clone"
  /\ UNCHANGED <<current, session, adapter, lockVars, newConn, taskVars, connVars>>

\* connection_adapter.lock().await.as_ref().unwrap().clone(), then the spawn of
\* the consumer loop, which owns that clone.
CloneAdapter ==
  /\ connecting = "clone" /\ adapterLock = Free
  /\ connecting' = "publish"
  /\ consumer' = [consumer EXCEPT ![newConn] = TRUE]
  /\ UNCHANGED <<clientVars, lockVars, newConn, taskVars, loop, queued, shutdown, handle>>

\* Back in connect: current_session_id is set and the forwarding task started.
ConnectDone ==
  /\ connecting = "publish"
  /\ current' = TRUE
  /\ connecting' = "no" /\ newConn' = NoConn
  /\ UNCHANGED <<session, adapter, state, lockVars, taskVars, connVars>>

\* The caller drops the connect future at one of its await points.
CancelConnect ==
  /\ connecting \in {"setAdapter", "setSession", "clone"}
  /\ connecting' = "no" /\ newConn' = NoConn
  /\ IF connecting = "setAdapter" THEN Release(newConn) ELSE UNCHANGED shutdown
  /\ UNCHANGED <<clientVars, lockVars, taskVars, loop, queued, handle, consumer>>

-----------------------------------------------------------------------------
(* send                                                                    *)

\* session_id is locked, and stays locked, if it is Some; otherwise send
\* returns "Not connected" and nothing changes.
SendBegin(t) ==
  /\ MayCall(t)
  /\ sessionLock = Free /\ session
  /\ sessionLock' = t
  /\ Goto(t, "send")
  /\ UNCHANGED <<clientVars, adapterLock, connectVars, force, connVars>>

\* With connection_adapter locked the packet enters the send queue, unless the
\* event loop, and with it the receiving end of the queue, is gone.
SendEnqueue(t) ==
  /\ pc[t] = "send" /\ adapterLock = Free
  /\ queued' = IF adapter # NoConn /\ loop[adapter] # "ended"
               THEN [queued EXCEPT ![adapter] = TRUE] ELSE queued
  /\ sessionLock' = Free
  /\ Goto(t, "idle")
  /\ UNCHANGED <<clientVars, adapterLock, connectVars, force, loop, shutdown, handle, consumer>>

-----------------------------------------------------------------------------
(* disconnect, force_disconnect, close_session, force_close_session         *)

\* Mutant: current_session_id is read but not taken.
DisconnectWithoutTake(t, forced) ==
  /\ MayCall(t) /\ t \notin Responders
  /\ forced => ForceAllowed
  /\ current
  /\ force' = [force EXCEPT ![t] = forced]
  /\ Goto(t, "try")
  /\ UNCHANGED <<clientVars, lockVars, connectVars, connVars>>

\* current_session_id.take(); without a session the call returns an error.
Disconnect(t, forced) ==
  /\ MayCall(t) /\ t \notin Responders
  /\ forced => ForceAllowed
  /\ current
  /\ current' = FALSE
  /\ force' = [force EXCEPT ![t] = forced]
  /\ Goto(t, "try")
  /\ UNCHANGED <<session, adapter, state, lockVars, connectVars, connVars>>

\* try_start_closing; if it refuses, close_session returns Ok at once.
TryStartClosing(t) ==
  /\ pc[t] = "try"
  /\ IF state = "Connected"
     THEN state' = "Closing" /\ Goto(t, "close")
     ELSE UNCHANGED state /\ Goto(t, "closedOk")
  /\ UNCHANGED <<current, session, adapter, lockVars, connectVars, force, connVars>>

\* connection.close(): signal shutdown and wait for the event loop to end, with
\* connection_adapter locked.
CloseAdapter(t) ==
  /\ pc[t] = "close" /\ adapterLock = Free
  /\ IF adapter = NoConn
     THEN UNCHANGED <<adapterLock, shutdown, handle>> /\ Goto(t, "mark")
     ELSE /\ shutdown' = [shutdown EXCEPT ![adapter] = TRUE]
          /\ handle' = [handle EXCEPT ![adapter] = FALSE]
          /\ IF handle[adapter]
             THEN adapterLock' = t /\ Goto(t, "join")
             ELSE UNCHANGED adapterLock /\ Goto(t, "mark")
  /\ UNCHANGED <<clientVars, sessionLock, connectVars, force, loop, queued, consumer>>

Joined(t) ==
  /\ pc[t] = "join" /\ loop[adapter] = "ended"
  /\ adapterLock' = Free
  /\ Goto(t, "mark")
  /\ UNCHANGED <<clientVars, sessionLock, connectVars, force, connVars>>

\* Mutant: the graceful close waits for the event loop without a deadline.
NoGracefulTimeout(t) ==
  /\ pc[t] = "join" /\ ~force[t] /\ loop[adapter] = "ended"
  /\ adapterLock' = Free
  /\ Goto(t, "mark")
  /\ UNCHANGED <<clientVars, sessionLock, connectVars, force, connVars>>

\* Mutant: after the deadline the close goes on with the adapter still locked.
TimeoutKeepingLock(t) ==
  /\ pc[t] = "join" /\ ~force[t]
  /\ Goto(t, "mark")
  /\ UNCHANGED <<clientVars, lockVars, connectVars, force, connVars>>

\* do_close_session only: graceful_timeout passes, and the second close() finds
\* no JoinHandle to wait for.
GracefulTimeout(t) ==
  /\ pc[t] = "join" /\ ~force[t]
  /\ adapterLock' = Free
  /\ Goto(t, "mark")
  /\ UNCHANGED <<clientVars, sessionLock, connectVars, force, connVars>>

\* Mutant: the entry is overwritten with a value that is no ConnectionState.
MarkRemoved(t) ==
  /\ pc[t] = "mark"
  /\ state' = "Removed"
  /\ Goto(t, "check")
  /\ UNCHANGED <<current, session, adapter, lockVars, connectVars, force, connVars>>

MarkClosed(t) ==
  /\ pc[t] = "mark"
  /\ state' = "Closed"
  /\ Goto(t, "check")
  /\ UNCHANGED <<current, session, adapter, lockVars, connectVars, force, connVars>>

\* Mutant: the adapter is cleared before the session.
ClearAdapterFirst(t) ==
  /\ pc[t] = "clearSession" /\ adapterLock = Free
  /\ adapter' = NoConn
  /\ Goto(t, "clearAdapter")
  /\ UNCHANGED <<current, session, state, lockVars, connectVars, force, connVars>>

\* Clean up local state: three separate lock acquisitions.
CheckSession(t) ==
  /\ pc[t] = "check" /\ sessionLock = Free
  /\ Goto(t, IF session THEN "clearSession" ELSE "closedOk")
  /\ UNCHANGED <<clientVars, lockVars, connectVars, force, connVars>>

ClearSession(t) ==
  /\ pc[t] = "clearSession" /\ sessionLock = Free
  /\ session' = FALSE
  /\ Goto(t, "clearAdapter")
  /\ UNCHANGED <<current, adapter, state, lockVars, connectVars, force, connVars>>

ClearAdapter(t) ==
  /\ pc[t] = "clearAdapter" /\ adapterLock = Free
  /\ adapter' = NoConn
  /\ Release(adapter)
  /\ Goto(t, "closedOk")
  /\ UNCHANGED <<current, session, state, lockVars, connectVars, force>>
  /\ UNCHANGED <<loop, queued, handle, consumer>>

\* Mutant: dropping a future leaks the guards it holds.
CancelKeepingLocks(t) ==
  /\ pc[t] \in Busy
  /\ Goto(t, "idle")
  /\ UNCHANGED <<clientVars, lockVars, connectVars, force, connVars>>

\* The caller drops the future of a call: its guards are released, what it
\* already wrote stays.
Cancel(t) ==
  /\ pc[t] \in Busy
  /\ Goto(t, "idle")
  /\ sessionLock' = IF sessionLock = t THEN Free ELSE sessionLock
  /\ adapterLock' = IF adapterLock = t THEN Free ELSE adapterLock
  /\ UNCHANGED <<clientVars, connectVars, force, connVars>>

-----------------------------------------------------------------------------
(* The event loop of a TCP connection                                      *)

\* The select! takes a packet from the queue and starts writing it; until the
\* write is over no other branch is looked at.
LoopTakes(c) ==
  /\ loop[c] = "ready" /\ queued[c]
  /\ loop' = [loop EXCEPT ![c] = "writing"]
  /\ \E more \in BOOLEAN : queued' = [queued EXCEPT ![c] = more]
  /\ UNCHANGED <<clientVars, lockVars, connectVars, taskVars, shutdown, handle, consumer>>

LoopWritten(c) ==
  /\ loop[c] = "writing"
  /\ loop' = [loop EXCEPT ![c] = "ready"]
  /\ UNCHANGED <<clientVars, lockVars, connectVars, taskVars>>
  /\ UNCHANGED <<queued, shutdown, handle, consumer>>

\* The peer closed, or a read or write failed.
LoopFails(c) ==
  /\ loop[c] \in {"ready", "writing"}
  /\ loop' = [loop EXCEPT ![c] = "ended"]
  /\ UNCHANGED <<clientVars, lockVars, connectVars, taskVars>>
  /\ UNCHANGED <<queued, shutdown, handle, consumer>>

LoopShutdown(c) ==
  /\ loop[c] = "ready" /\ shutdown[c]
  /\ loop' = [loop EXCEPT ![c] = "ended"]
  /\ UNCHANGED <<clientVars, lockVars, connectVars, taskVars>>
  /\ UNCHANGED <<queued, shutdown, handle, consumer>>

-----------------------------------------------------------------------------
ConnectStep ==
  \/ ConnectStart \/ SetAdapter \/ SetSession \/ AddConnection
  \/ CloneAdapter \/ ConnectDone \/ CancelConnect

TaskStep(t) ==
  \/ SendBegin(t) \/ SendEnqueue(t)
  \/ \E forced \in BOOLEAN : Disconnect(t, forced)
  \/ TryStartClosing(t) \/ CloseAdapter(t) \/ Joined(t) \/ GracefulTimeout(t)
  \/ MarkClosed(t) \/ CheckSession(t) \/ ClearSession(t) \/ ClearAdapter(t)
  \/ Cancel(t)

LoopStep(c) == LoopTakes(c) \/ LoopWritten(c) \/ LoopFails(c) \/ LoopShutdown(c)

Next ==
  \/ ConnectStep
  \/ \E t \in Tasks : TaskStep(t)
  \/ \E c \in Conns : LoopStep(c)

Spec == Init /\ [][Next]_vars

(* Ready tasks are polled, timers fire, and tokio mutexes queue their       *)
(* waiters, so a task that waits for a lock gets it when the lock is free   *)
(* again and again.  An event loop that is not writing sees a shutdown      *)
(* signal.  Nothing is assumed of the peer: a write may never finish.       *)
Progress(t) ==
  \/ TryStartClosing(t) \/ CloseAdapter(t) \/ Joined(t) \/ GracefulTimeout(t)
  \/ MarkClosed(t) \/ CheckSession(t) \/ ClearSession(t) \/ ClearAdapter(t)
  \/ SendEnqueue(t)

Fairness ==
  /\ WF_vars(SetAdapter \/ SetSession \/ AddConnection \/ CloneAdapter \/ ConnectDone)
  /\ \A t \in Tasks : SF_vars(Progress(t))
  /\ \A c \in Conns : SF_vars(LoopShutdown(c))

FairSpec == Spec /\ Fairness

-----------------------------------------------------------------------------
(* Properties                                                              *)

(* set_connection's unwrap of the adapter it has just stored does not panic.*)
UnwrapSafe == connecting = "clone" => adapter # NoConn

(* Whoever sees a session also finds an adapter: send's error "No connection*)
(* adapter available" never occurs, nor does the panic of an unwrap.  Rests *)
(* on connect writing adapter before session and on close clearing them in  *)
(* the opposite order.                                                      *)
SessionHasAdapter == (session => adapter # NoConn) /\ UnwrapSafe

(* A disconnect that returned Ok has closed the session: until the next     *)
(* connect there is no session, no adapter, and the state is Closed.        *)
OkMeansClosed ==
  \A t \in Tasks : pc[t] = "closedOk" =>
    ~session /\ adapter = NoConn /\ state = "Closed"

(* One closer at a time: no connection is closed twice concurrently.        *)
SingleCloser ==
  \A t, u \in Tasks : pc[t] \in Closing /\ pc[u] \in Closing => t = u

(* No lock outlives the call that took it: session_id is locked by a task in*)
(* send only, connection_adapter by a task waiting for an event loop only.  *)
LocksOwned ==
  /\ sessionLock # Free => pc[sessionLock] = "send"
  /\ adapterLock # Free => pc[adapterLock] = "join"

(* A graceful disconnect ends even if the peer never reads again, and      *)
(* whatever forced disconnects and reconnects run next to it.               *)
GracefulCloseEnds ==
  \A t \in Tasks : (pc[t] \in Closing /\ ~force[t]) ~> (pc[t] \in Resting)

(* A send returns, even while a graceful close holds the adapter.  Only a   *)
(* forced close that waits for a blocked event loop may hold it up.         *)
SendEnds ==
  \A t \in Tasks :
    (pc[t] = "send") ~> (pc[t] \in Resting \/ \E u \in Tasks : force[u] /\ pc[u] = "join")
=============================================================================
