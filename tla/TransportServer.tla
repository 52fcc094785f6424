--------------------------- MODULE TransportServer ---------------------------
(***************************************************************************)
(* Session registry of a TransportServer                                   *)
(* (src/src/transport/transport_server.rs) and the way of a connection's   *)
(* events to the application.                                              *)
(*                                                                         *)
(* Per session four tasks run: the event loop of the connection            *)
(* (src/src/adapters/tcp.rs), the reader that set_connection spawns (it    *)
(* turns connection events into Transport events), the handler that        *)
(* add_session spawns (it turns those into ServerEvents and removes the    *)
(* session when it is closed), and the listener that accepted it.          *)
(* Application tasks close sessions and send to them.                      *)
(*                                                                         *)
(* Both channels are tokio broadcast channels: an event that is sent while *)
(* nobody has subscribed is lost, and a subscriber that falls behind by    *)
(* more than the capacity gets an error, which ends both loops.            *)
(*                                                                         *)
(* The maps are LockFreeHashMaps; their operations are taken as atomic and *)
(* as successful.  The locks inside a Transport are those of module        *)
(* Transport; here a close that waits for the event loop is one step.      *)
(***************************************************************************)
EXTENDS Naturals, SequencesExt

CONSTANTS
  Listeners,        \* the accept loops, one per protocol
  Tasks,            \* application tasks
  MaxSessions,      \* bound: connections ever accepted
  MaxMessages,      \* bound: messages a peer sends over one connection
  RawCapacity,      \* capacity of the connection's event channel
  ForwardCapacity,  \* capacity of the Transport's event channel
  CancelAllowed     \* whether the application drops a running close

ASSUME TransportServerAssumption ==
  /\ MaxSessions \in Nat /\ MaxMessages \in Nat
  /\ RawCapacity \in Nat \ {0} /\ ForwardCapacity \in Nat \ {0}
  /\ CancelAllowed \in BOOLEAN

Sessions == 1..MaxSessions
NoSession == 0

VARIABLES
  generator,   \* session_id_generator
  listener,    \* step and session of each listener
  transports, stats,  \* the keys of the two maps
  states,      \* entries of the ConnectionStateManager
  conn,        \* event loop of each connection
  shutdown,    \* whether it was sent the shutdown signal
  link,        \* Transport::session_id and connection_adapter are Some
  reader, raw,        \* reader task, and the events it has not read yet
  handler, forward,   \* handler task, and the events it has not read yet
  received,    \* messages read from each connection
  task,        \* step, session, force flag and remaining sessions of each task
  emitted      \* the ServerEvents sent about each session

registryVars == <<transports, stats, states>>
connVars == <<conn, shutdown, received>>
pathVars == <<reader, raw, handler, forward>>
vars == <<generator, listener, registryVars, connVars, link, pathVars, task, emitted>>

RemoveSteps == {"removeTransport", "removeStats", "removeState"}
AddSteps == {"setConnection", "addTransport", "addStats", "addState", "spawn", "publish"}
CloseSteps == {"emit", "disconnect", "join", "mark"}
ClosedEvents == {"closedByPeer", "closedByServer"}

ListenerStates == [step : {"accept"} \cup AddSteps, session : Sessions \cup {NoSession}]
TaskStates ==
  [step : {"idle", "next", "try"} \cup CloseSteps \cup RemoveSteps,
   session : Sessions \cup {NoSession}, force : BOOLEAN, todo : SUBSET Sessions]
Channels == Seq({"message", "closed"})
Announcements == Seq({"established", "message"} \cup ClosedEvents)

TypeOK ==
  /\ generator \in 1..(MaxSessions + 1)
  /\ listener \in [Listeners -> ListenerStates]
  /\ transports \subseteq Sessions /\ stats \subseteq Sessions
  /\ states \in [Sessions -> {"Unknown", "Connected", "Closing", "Closed"}]
  /\ conn \in [Sessions -> {"none", "ready", "writing", "ended"}]
  /\ shutdown \in [Sessions -> BOOLEAN]
  /\ link \in [Sessions -> BOOLEAN]
  /\ reader \in [Sessions -> {"none", "spawned", "running", "ended"}]
  /\ handler \in [Sessions -> {"none", "spawned", "running", "ended"} \cup RemoveSteps]
  /\ raw \in [Sessions -> Channels] /\ forward \in [Sessions -> Channels]
  /\ received \in [Sessions -> 0..MaxMessages]
  /\ task \in [Tasks -> TaskStates]
  /\ emitted \in [Sessions -> Announcements]

Init ==
  /\ generator = 1
  /\ listener = [l \in Listeners |-> [step |-> "accept", session |-> NoSession]]
  /\ transports = {} /\ stats = {}
  /\ states = [s \in Sessions |-> "Unknown"]
  /\ conn = [s \in Sessions |-> "none"]
  /\ shutdown = [s \in Sessions |-> FALSE]
  /\ link = [s \in Sessions |-> FALSE]
  /\ reader = [s \in Sessions |-> "none"] /\ raw = [s \in Sessions |-> <<>>]
  /\ handler = [s \in Sessions |-> "none"] /\ forward = [s \in Sessions |-> <<>>]
  /\ received = [s \in Sessions |-> 0]
  /\ task = [t \in Tasks |-> [step |-> "idle", session |-> NoSession,
                              force |-> FALSE, todo |-> {}]]
  /\ emitted = [s \in Sessions |-> <<>>]

Emit(s, event) == emitted' = [emitted EXCEPT ![s] = Append(@, event)]

\* remove_session: three maps, one after the other.
RemovalAfter(step) ==
  CASE step = "removeTransport" -> "removeStats"
    [] step = "removeStats" -> "removeState"
    [] step = "removeState" -> "done"

RemovePart(step, s) ==
  /\ transports' = IF step = "removeTransport" THEN transports \ {s} ELSE transports
  /\ stats' = IF step = "removeStats" THEN stats \ {s} ELSE stats
  /\ states' = IF step = "removeState" THEN [states EXCEPT ![s] = "Unknown"] ELSE states

-----------------------------------------------------------------------------
(* start_protocol_listener and add_session                                 *)

\* accept, generate_session_id and set_session_id.  The event loop of the
\* connection is running from the accept on; what happens to it before the id is
\* drawn cannot be told from what happens after.
Accept(l) ==
  /\ listener[l].step = "accept" /\ generator <= MaxSessions
  /\ generator' = generator + 1
  /\ listener' = [listener EXCEPT ![l] = [step |-> "setConnection", session |-> generator]]
  /\ conn' = [conn EXCEPT ![generator] = "ready"]
  /\ UNCHANGED <<registryVars, shutdown, received, link, pathVars, task, emitted>>

ListenerGoto(l, step) == listener' = [listener EXCEPT ![l].step = step]

\* Transport::set_connection on the new Transport, which nobody else has yet.
SetConnection(l) ==
  /\ listener[l].step = "setConnection"
  /\ link' = [link EXCEPT ![listener[l].session] = TRUE]
  /\ reader' = [reader EXCEPT ![listener[l].session] = "spawned"]
  /\ ListenerGoto(l, "addTransport")
  /\ UNCHANGED <<generator, registryVars, connVars, raw, handler, forward, task, emitted>>

\* Mutant: the session enters the map only after its handler was started.
AddTransportAfterSpawn(l) ==
  LET s == listener[l].session
  IN  /\ \/ listener[l].step = "addTransport" /\ UNCHANGED transports
            /\ ListenerGoto(l, "addStats")
         \/ listener[l].step = "publish" /\ s \notin transports
            /\ transports' = transports \cup {s} /\ UNCHANGED listener
      /\ UNCHANGED <<generator, stats, states, connVars, link, pathVars, task, emitted>>

AddTransport(l) ==
  /\ listener[l].step = "addTransport"
  /\ transports' = transports \cup {listener[l].session}
  /\ ListenerGoto(l, "addStats")
  /\ UNCHANGED <<generator, stats, states, connVars, link, pathVars, task, emitted>>

AddStats(l) ==
  /\ listener[l].step = "addStats"
  /\ stats' = stats \cup {listener[l].session}
  /\ ListenerGoto(l, "addState")
  /\ UNCHANGED <<generator, transports, states, connVars, link, pathVars, task, emitted>>

AddState(l) ==
  /\ listener[l].step = "addState"
  /\ states' = [states EXCEPT ![listener[l].session] = "Connected"]
  /\ ListenerGoto(l, "spawn")
  /\ UNCHANGED <<generator, transports, stats, connVars, link, pathVars, task, emitted>>

SpawnHandler(l) ==
  /\ listener[l].step = "spawn"
  /\ handler' = [handler EXCEPT ![listener[l].session] = "spawned"]
  /\ ListenerGoto(l, "publish")
  /\ UNCHANGED <<generator, registryVars, connVars, link, reader, raw, forward, task, emitted>>

\* ConnectionEstablished is sent once add_session has returned.
Establish(l) ==
  /\ listener[l].step = "publish"
  /\ Emit(listener[l].session, "established")
  /\ listener' = [listener EXCEPT ![l] = [step |-> "accept", session |-> NoSession]]
  /\ UNCHANGED <<generator, registryVars, connVars, link, pathVars, task>>

-----------------------------------------------------------------------------
(* The event loop of the connection                                        *)

\* event_sender.send: without a subscriber the event is lost.
PostRaw(s, event) ==
  raw' = IF reader[s] = "running" THEN [raw EXCEPT ![s] = Append(@, event)] ELSE raw

LoopReceives(s) ==
  /\ conn[s] = "ready" /\ received[s] < MaxMessages
  /\ received' = [received EXCEPT ![s] = @ + 1]
  /\ PostRaw(s, "message")
  /\ UNCHANGED <<generator, listener, registryVars, conn, shutdown, link>>
  /\ UNCHANGED <<reader, handler, forward, task, emitted>>

\* The application sent something, perhaps before a close, and the peer does not
\* read it yet.
LoopWrites(s) ==
  /\ conn[s] = "ready" /\ (link[s] \/ shutdown[s])
  /\ conn' = [conn EXCEPT ![s] = "writing"]
  /\ UNCHANGED <<generator, listener, registryVars, shutdown, received, link>>
  /\ UNCHANGED <<pathVars, task, emitted>>

LoopWritten(s) ==
  /\ conn[s] = "writing"
  /\ conn' = [conn EXCEPT ![s] = "ready"]
  /\ UNCHANGED <<generator, listener, registryVars, shutdown, received, link>>
  /\ UNCHANGED <<pathVars, task, emitted>>

\* The peer closed, or a read or a write failed.
LoopFails(s) ==
  /\ conn[s] \in {"ready", "writing"}
  /\ conn' = [conn EXCEPT ![s] = "ended"]
  /\ PostRaw(s, "closed")
  /\ UNCHANGED <<generator, listener, registryVars, shutdown, received, link>>
  /\ UNCHANGED <<reader, handler, forward, task, emitted>>

\* Active close: no event is sent.
LoopShutdown(s) ==
  /\ conn[s] = "ready" /\ shutdown[s]
  /\ conn' = [conn EXCEPT ![s] = "ended"]
  /\ UNCHANGED <<generator, listener, registryVars, shutdown, received, link>>
  /\ UNCHANGED <<pathVars, task, emitted>>

-----------------------------------------------------------------------------
(* The reader and the handler of a session                                 *)

\* The connection is locked by a close that waits for its event loop.
Joining(s) == \E t \in Tasks : task[t].step = "join" /\ task[t].session = s

ReaderSubscribes(s) ==
  /\ reader[s] = "spawned" /\ ~Joining(s)
  /\ reader' = [reader EXCEPT ![s] = "running"]
  /\ UNCHANGED <<generator, listener, registryVars, connVars, link>>
  /\ UNCHANGED <<raw, handler, forward, task, emitted>>

\* Transport::on_event forwards the event, if the handler has subscribed.
ReaderForwards(s) ==
  /\ reader[s] = "running" /\ Len(raw[s]) \in 1..RawCapacity
  /\ raw' = [raw EXCEPT ![s] = Tail(@)]
  /\ forward' = IF handler[s] \in {"running"} \cup RemoveSteps
                THEN [forward EXCEPT ![s] = Append(@, Head(raw[s]))] ELSE forward
  /\ UNCHANGED <<generator, listener, registryVars, connVars, link>>
  /\ UNCHANGED <<reader, handler, task, emitted>>

\* recv returns Lagged, and while let Ok(..) ends.
ReaderLags(s) ==
  /\ reader[s] = "running" /\ Len(raw[s]) > RawCapacity
  /\ reader' = [reader EXCEPT ![s] = "ended"]
  /\ raw' = [raw EXCEPT ![s] = <<>>]
  /\ UNCHANGED <<generator, listener, registryVars, connVars, link>>
  /\ UNCHANGED <<handler, forward, task, emitted>>

\* get_event_stream, which returns None once the Transport was closed.
HandlerSubscribes(s) ==
  /\ handler[s] = "spawned" /\ ~Joining(s)
  /\ handler' = [handler EXCEPT ![s] = IF link[s] THEN "running" ELSE "ended"]
  /\ UNCHANGED <<generator, listener, registryVars, connVars, link>>
  /\ UNCHANGED <<reader, raw, forward, task, emitted>>

HandlerMessage(s) ==
  /\ handler[s] = "running" /\ Len(forward[s]) \in 1..ForwardCapacity
  /\ Head(forward[s]) = "message"
  /\ forward' = [forward EXCEPT ![s] = Tail(@)]
  /\ Emit(s, "message")
  /\ UNCHANGED <<generator, listener, registryVars, connVars, link>>
  /\ UNCHANGED <<reader, raw, handler, task>>

\* Mutant: the event is passed on, the session is not cleaned up.
HandlerClosedWithoutCleanup(s) ==
  /\ handler[s] = "running" /\ Len(forward[s]) \in 1..ForwardCapacity
  /\ Head(forward[s]) = "closed"
  /\ forward' = [forward EXCEPT ![s] = Tail(@)]
  /\ Emit(s, "closedByPeer")
  /\ UNCHANGED <<generator, listener, registryVars, connVars, link>>
  /\ UNCHANGED <<reader, raw, handler, task>>

\* handle_transport_event for ConnectionClosed: the event, then remove_session.
HandlerClosed(s) ==
  /\ handler[s] = "running" /\ Len(forward[s]) \in 1..ForwardCapacity
  /\ Head(forward[s]) = "closed"
  /\ forward' = [forward EXCEPT ![s] = Tail(@)]
  /\ Emit(s, "closedByPeer")
  /\ handler' = [handler EXCEPT ![s] = "removeTransport"]
  /\ UNCHANGED <<generator, listener, registryVars, connVars, link>>
  /\ UNCHANGED <<reader, raw, task>>

HandlerRemoves(s) ==
  /\ handler[s] \in RemoveSteps
  /\ RemovePart(handler[s], s)
  /\ LET next == RemovalAfter(handler[s])
     IN  handler' = [handler EXCEPT ![s] = IF next = "done" THEN "running" ELSE next]
  /\ UNCHANGED <<generator, listener, connVars, link, reader, raw, forward, task, emitted>>

HandlerLags(s) ==
  /\ handler[s] = "running" /\ Len(forward[s]) > ForwardCapacity
  /\ handler' = [handler EXCEPT ![s] = "ended"]
  /\ forward' = [forward EXCEPT ![s] = <<>>]
  /\ UNCHANGED <<generator, listener, registryVars, connVars, link>>
  /\ UNCHANGED <<reader, raw, task, emitted>>

-----------------------------------------------------------------------------
(* Application tasks: close_session, force_close_session,                   *)
(* close_all_sessions, send_to_session                                      *)

TaskGoto(t, step) == task' = [task EXCEPT ![t].step = step]

\* A close call ends; close_all_sessions goes on with the next session.
CloseDone(t) ==
  task' = [task EXCEPT ![t].step = IF task[t].todo = {} THEN "idle" ELSE "next",
                       ![t].session = NoSession]

\* The application knows a session from ConnectionEstablished or active_sessions.
CloseSession(t, s, forced) ==
  /\ task[t].step = "idle"
  /\ s \in transports \/ Contains(emitted[s], "established")
  /\ task' = [task EXCEPT ![t] = [step |-> "try", session |-> s,
                                  force |-> forced, todo |-> {}]]
  /\ UNCHANGED <<generator, listener, registryVars, connVars, link, pathVars, emitted>>

CloseAllSessions(t) ==
  /\ task[t].step = "idle" /\ transports # {}
  /\ task' = [task EXCEPT ![t] = [step |-> "next", session |-> NoSession,
                                  force |-> FALSE, todo |-> transports]]
  /\ UNCHANGED <<generator, listener, registryVars, connVars, link, pathVars, emitted>>

\* The remaining sessions are closed forcefully once graceful_timeout has passed.
NextSession(t) ==
  /\ task[t].step = "next"
  /\ \E s \in task[t].todo, forced \in {task[t].force, TRUE} :
       task' = [task EXCEPT ![t] = [step |-> "try", session |-> s, force |-> forced,
                                    todo |-> task[t].todo \ {s}]]
  /\ UNCHANGED <<generator, listener, registryVars, connVars, link, pathVars, emitted>>

\* Mutant: the state is written, but not compared first.
StartClosingAlways(t) ==
  LET s == task[t].session
  IN  /\ task[t].step = "try"
      /\ IF states[s] # "Unknown"
         THEN states' = [states EXCEPT ![s] = "Closing"] /\ TaskGoto(t, "emit")
         ELSE UNCHANGED states /\ CloseDone(t)
      /\ UNCHANGED <<generator, listener, transports, stats, connVars, link, pathVars, emitted>>

TryStartClosing(t) ==
  LET s == task[t].session
  IN  /\ task[t].step = "try"
      /\ IF states[s] = "Connected"
         THEN states' = [states EXCEPT ![s] = "Closing"] /\ TaskGoto(t, "emit")
         ELSE UNCHANGED states /\ CloseDone(t)
      /\ UNCHANGED <<generator, listener, transports, stats, connVars, link, pathVars, emitted>>

\* The close event is sent before the resources are cleaned up.
EmitClosed(t) ==
  /\ task[t].step = "emit"
  /\ Emit(task[t].session, "closedByServer")
  /\ TaskGoto(t, "disconnect")
  /\ UNCHANGED <<generator, listener, registryVars, connVars, link, pathVars>>

\* transport.disconnect(), if the session is still registered: Transport's own
\* close_session signals the event loop and waits for it.
Disconnect(t) ==
  LET s == task[t].session
  IN  /\ task[t].step = "disconnect"
      /\ IF s \in transports /\ link[s]
         THEN shutdown' = [shutdown EXCEPT ![s] = TRUE] /\ TaskGoto(t, "join")
         ELSE UNCHANGED shutdown /\ TaskGoto(t, "mark")
      /\ UNCHANGED <<generator, listener, registryVars, conn, received, link, pathVars, emitted>>

Joined(t) ==
  /\ task[t].step = "join" /\ conn[task[t].session] = "ended"
  /\ link' = [link EXCEPT ![task[t].session] = FALSE]
  /\ TaskGoto(t, "mark")
  /\ UNCHANGED <<generator, listener, registryVars, connVars, pathVars, emitted>>

\* Mutant: nobody watches a deadline while the event loop is writing.
NoDeadline(t) == Joined(t)

\* graceful_timeout.  Transport's close goes on and clears its state, unless
\* do_close_session's own timer, set to the same span, dropped it first.
CloseTimeout(t) ==
  /\ task[t].step = "join"
  /\ \/ link' = [link EXCEPT ![task[t].session] = FALSE]
     \/ ~task[t].force /\ UNCHANGED link
  /\ TaskGoto(t, "mark")
  /\ UNCHANGED <<generator, listener, registryVars, connVars, pathVars, emitted>>

\* A missing entry is not put back.
MarkClosed(t) ==
  /\ task[t].step = "mark"
  /\ states' = [states EXCEPT ![task[t].session] = IF @ = "Unknown" THEN @ ELSE "Closed"]
  /\ TaskGoto(t, "removeTransport")
  /\ UNCHANGED <<generator, listener, transports, stats, connVars, link, pathVars, emitted>>

\* Mutant: remove_session forgets the state of the session.
TaskRemovesWithoutState(t) ==
  LET step == task[t].step
  IN  /\ step \in RemoveSteps
      /\ RemovePart(IF step = "removeState" THEN "done" ELSE step, task[t].session)
      /\ IF step = "removeState" THEN CloseDone(t) ELSE TaskGoto(t, RemovalAfter(step))
      /\ UNCHANGED <<generator, listener, connVars, link, pathVars, emitted>>

\* Mutant: the call does not return after remove_session.
TaskRemovesForever(t) ==
  /\ task[t].step \in RemoveSteps
  /\ RemovePart(task[t].step, task[t].session)
  /\ TaskGoto(t, RemovalAfter(task[t].step))
  /\ UNCHANGED <<generator, listener, connVars, link, pathVars, emitted>>

TaskRemoves(t) ==
  LET step == task[t].step
  IN  /\ step \in RemoveSteps
      /\ RemovePart(step, task[t].session)
      /\ IF step = "removeState" THEN CloseDone(t) ELSE TaskGoto(t, RemovalAfter(step))
      /\ UNCHANGED <<generator, listener, connVars, link, pathVars, emitted>>

\* send_to_session and request_to_session find the Transport closed and remove
\* the session.  A send that fails changes nothing: none of the adapters' errors
\* has the text that would remove the session.
SendToClosed(t, s) ==
  /\ task[t].step = "idle" /\ s \in transports /\ ~link[s]
  /\ task' = [task EXCEPT ![t].step = "removeTransport", ![t].session = s]
  /\ UNCHANGED <<generator, listener, registryVars, connVars, link, pathVars, emitted>>

\* The application drops a close that waits for the event loop.
Cancel(t) ==
  /\ CancelAllowed
  /\ task[t].step = "join"
  /\ task' = [task EXCEPT ![t] = [step |-> "idle", session |-> NoSession,
                                  force |-> FALSE, todo |-> {}]]
  /\ UNCHANGED <<generator, listener, registryVars, connVars, link, pathVars, emitted>>

-----------------------------------------------------------------------------
AddStep(l) ==
  SetConnection(l) \/ AddTransport(l) \/ AddStats(l) \/ AddState(l)
  \/ SpawnHandler(l) \/ Establish(l)

LoopStep(s) ==
  \/ LoopReceives(s) \/ LoopWrites(s) \/ LoopWritten(s)
  \/ LoopFails(s) \/ LoopShutdown(s)

ReaderStep(s) == ReaderSubscribes(s) \/ ReaderForwards(s) \/ ReaderLags(s)

HandlerStep(s) ==
  \/ HandlerSubscribes(s) \/ HandlerMessage(s) \/ HandlerClosed(s)
  \/ HandlerRemoves(s) \/ HandlerLags(s)

CloseStep(t) ==
  \/ NextSession(t) \/ TryStartClosing(t) \/ EmitClosed(t) \/ Disconnect(t)
  \/ Joined(t) \/ CloseTimeout(t) \/ MarkClosed(t) \/ TaskRemoves(t)

Next ==
  \/ \E l \in Listeners : Accept(l) \/ AddStep(l)
  \/ \E s \in Sessions : LoopStep(s) \/ ReaderStep(s) \/ HandlerStep(s)
  \/ \E t \in Tasks :
       \/ \E s \in Sessions :
            SendToClosed(t, s) \/ \E forced \in BOOLEAN : CloseSession(t, s, forced)
       \/ CloseAllSessions(t) \/ CloseStep(t) \/ Cancel(t)

Spec == Init /\ [][Next]_vars

(* Spawned tasks that are ready are polled, and timers fire.  Nothing is    *)
(* assumed of the peers: a write may block forever.                         *)
Fairness ==
  /\ \A l \in Listeners : WF_vars(AddStep(l))
  /\ \A s \in Sessions : WF_vars(ReaderStep(s)) /\ WF_vars(HandlerStep(s))
  /\ \A t \in Tasks : WF_vars(CloseStep(t))

FairSpec == Spec /\ Fairness

-----------------------------------------------------------------------------
(* Properties                                                              *)

Adding(s) == \E l \in Listeners : listener[l].session = s
Removing(s) ==
  \/ handler[s] \in RemoveSteps
  \/ \E t \in Tasks : task[t].session = s /\ task[t].step \in RemoveSteps

(* The three maps agree about every session that nobody is adding or        *)
(* removing, however close calls, peer closes and sends removing a session  *)
(* overlap: no entry of stats or of the state manager outlives its session. *)
MapsAgree ==
  \A s \in Sessions : ~Adding(s) /\ ~Removing(s) =>
    (s \in transports <=> s \in stats) /\ (s \in transports <=> states[s] # "Unknown")

(* One closer per session: two calls never disconnect the same Transport,   *)
(* and the server announces its own close of a session at most once.        *)
ClosesOnce ==
  /\ \A t, u \in Tasks :
       /\ task[t].step \in CloseSteps /\ task[u].step \in CloseSteps
       /\ task[t].session = task[u].session
       => t = u
  /\ \A s \in Sessions : \A i, j \in DOMAIN emitted[s] :
       emitted[s][i] = "closedByServer" /\ emitted[s][j] = "closedByServer" => i = j

(* A session is registered before the application hears anything about it:  *)
(* once an event about it was sent, it is never registered (again).         *)
NoLateRegistration ==
  [][\A s \in Sessions : s \in transports' \ transports => emitted[s] = <<>>]_vars

\* A close was dropped while it waited, and no later close can take over.
Abandoned(s) ==
  states[s] = "Closing" /\ \A t \in Tasks : task[t].session # s \/ task[t].step \notin CloseSteps

(* Whatever close call won the right to close a session, gracefully or      *)
(* forced, with a peer that never reads, the session leaves the registry,   *)
(* unless the application drops that call.                                  *)
ClosingEnds ==
  \A s \in Sessions :
    (states[s] = "Closing") ~> (Abandoned(s) \/ (s \notin transports /\ s \notin stats))

(* A close event that reached the Transport's channel while the handler was *)
(* subscribed, and not too far behind, cleans the session up and is         *)
(* announced.                                                               *)
PeerCloseHandled ==
  \A s \in Sessions :
    (Contains(forward[s], "closed") /\ Len(forward[s]) <= ForwardCapacity)
      ~> (s \notin transports /\ Contains(emitted[s], "closedByPeer"))

(* The session of a connection that ended leaves the registry.              *)
DeadSessionsRemoved ==
  \A s \in Sessions : (conn[s] = "ended" /\ s \in transports) ~> (s \notin transports)
=============================================================================
