------------------------ MODULE TransportServerProofs ------------------------
(***************************************************************************)
(* Proofs about TransportServer, for every number of listeners, tasks,     *)
(* sessions and messages and all channel capacities: the three maps of the *)
(* registry agree, a session is closed once, and it is registered before   *)
(* anything is said about it.                                              *)
(***************************************************************************)
EXTENDS TransportServer, TLAPS

-----------------------------------------------------------------------------
(* The inductive invariant                                                 *)

(* Every session id goes to one listener.                                   *)
ListenersInv ==
  /\ \A l \in Listeners : listener[l].step = "accept" <=> listener[l].session = NoSession
  /\ \A l \in Listeners : listener[l].session < generator
  /\ \A l, m \in Listeners :
       listener[l].session = listener[m].session /\ listener[l].session # NoSession => l = m

Registering(s) ==
  \E l \in Listeners :
    /\ listener[l].session = s
    /\ listener[l].step \in {"setConnection", "addTransport", "addStats", "addState"}

Unregistered(s) == s >= generator \/ Registering(s)

(* Before add_session has written the last of its maps nobody can do more   *)
(* about a session than ask for its close, in vain: its state is missing,   *)
(* its Transport is open and it has no handler.                             *)
UnregisteredInv ==
  \A s \in Sessions : Unregistered(s) =>
    /\ states[s] = "Unknown" /\ handler[s] = "none" /\ emitted[s] = <<>>
    /\ \A t \in Tasks : task[t].session = s => task[t].step = "try"
    /\ s \in transports => link[s]

(* The maps are written in this order.                                      *)
AddingInv ==
  /\ \A s \in Sessions : s >= generator => s \notin transports /\ s \notin stats
  /\ \A l \in Listeners :
       LET s == listener[l].session
           at == listener[l].step
       IN  /\ at \in {"setConnection", "addTransport"} => s \notin transports /\ s \notin stats
           /\ at = "addTransport" => link[s]
           /\ at = "addStats" => s \in transports /\ s \notin stats
           /\ at = "addState" => s \in transports /\ s \in stats
           /\ at = "spawn" => handler[s] = "none"

RemoverAt(s, step) ==
  handler[s] = step \/ \E t \in Tasks : task[t].session = s /\ task[t].step = step

(* Entries are removed in the order they were added in, and whoever removed *)
(* one goes on to the next.                                                 *)
RemovingInv ==
  \A s \in Sessions :
    /\ RemoverAt(s, "removeStats") => s \notin transports
    /\ RemoverAt(s, "removeState") => s \notin transports /\ s \notin stats
    /\ ~Unregistered(s) =>
         /\ s \in transports => s \in stats
         /\ s \in stats => states[s] # "Unknown"
         /\ s \in stats /\ s \notin transports => RemoverAt(s, "removeStats")
         /\ states[s] # "Unknown" /\ s \notin stats => RemoverAt(s, "removeState")

Announced(s) == \E i \in DOMAIN emitted[s] : emitted[s][i] = "closedByServer"

(* The state Connected is the right to close, and it is used up.            *)
ClosingInv ==
  /\ \A s \in Sessions : states[s] = "Connected" =>
       /\ ~Announced(s)
       /\ \A t \in Tasks : task[t].session = s => task[t].step \notin CloseSteps
  /\ \A t \in Tasks : task[t].step = "emit" => ~Announced(task[t].session)

(* A task that closes or removes has a session.                             *)
TasksInv ==
  \A t \in Tasks :
    task[t].step \in {"try"} \cup CloseSteps \cup RemoveSteps => task[t].session \in Sessions

IInv ==
  /\ TypeOK
  /\ ListenersInv
  /\ UnregisteredInv
  /\ AddingInv
  /\ RemovingInv
  /\ ClosingInv
  /\ ClosesOnce
  /\ TasksInv

-----------------------------------------------------------------------------
(* What the updates of listeners and tasks change                          *)

LEMMA ListenerGotoEffect ==
  ASSUME listener \in [Listeners -> ListenerStates], NEW l \in Listeners,
         NEW step \in {"accept"} \cup AddSteps, ListenerGoto(l, step)
  PROVE  /\ listener' \in [Listeners -> ListenerStates]
         /\ listener'[l].step = step /\ listener'[l].session = listener[l].session
         /\ \A m \in Listeners : m # l => listener'[m] = listener[m]
  BY DEF ListenerGoto, ListenerStates

LEMMA ListenerSessions ==
  ASSUME listener \in [Listeners -> ListenerStates]
  PROVE  \A l \in Listeners : listener[l].session \in Nat
  BY TransportServerAssumption DEF ListenerStates, Sessions, NoSession

LEMMA ListenerSet ==
  ASSUME listener \in [Listeners -> ListenerStates], NEW l \in Listeners,
         NEW step \in {"accept"} \cup AddSteps, NEW s \in Sessions \cup {NoSession},
         listener' = [listener EXCEPT ![l] = [step |-> step, session |-> s]]
  PROVE  /\ listener' \in [Listeners -> ListenerStates]
         /\ listener'[l].step = step /\ listener'[l].session = s
         /\ \A m \in Listeners : m # l => listener'[m] = listener[m]
  BY DEF ListenerStates

LEMMA TaskGotoEffect ==
  ASSUME task \in [Tasks -> TaskStates], NEW t \in Tasks,
         NEW step \in {"idle", "next", "try"} \cup CloseSteps \cup RemoveSteps,
         TaskGoto(t, step)
  PROVE  /\ task' \in [Tasks -> TaskStates]
         /\ task'[t].step = step /\ task'[t].session = task[t].session
         /\ \A u \in Tasks : u # t => task'[u] = task[u]
  BY DEF TaskGoto, TaskStates

LEMMA CloseDoneEffect ==
  ASSUME task \in [Tasks -> TaskStates], NEW t \in Tasks, CloseDone(t)
  PROVE  /\ task' \in [Tasks -> TaskStates]
         /\ task'[t].step \in {"idle", "next"} /\ task'[t].session = NoSession
         /\ \A u \in Tasks : u # t => task'[u] = task[u]
<1>1. PICK step \in {"idle", "next"} :
        task' = [task EXCEPT ![t].step = step, ![t].session = NoSession]
  BY DEF CloseDone
<1>2. task'[t] = [task[t] EXCEPT !.step = step, !.session = NoSession]
  BY <1>1
<1>3. task'[t] \in TaskStates /\ task'[t].step = step /\ task'[t].session = NoSession
  BY <1>2 DEF TaskStates
<1> QED
  BY <1>1, <1>3

LEMMA SendToClosedEffect ==
  ASSUME task \in [Tasks -> TaskStates], NEW t \in Tasks, NEW s \in Sessions,
         SendToClosed(t, s)
  PROVE  /\ task' \in [Tasks -> TaskStates]
         /\ task'[t].step = "removeTransport" /\ task'[t].session = s
         /\ \A u \in Tasks : u # t => task'[u] = task[u]
<1>1. task' = [task EXCEPT ![t].step = "removeTransport", ![t].session = s]
  BY DEF SendToClosed
<1>2. task'[t] = [task[t] EXCEPT !.step = "removeTransport", !.session = s]
  BY <1>1
<1>3. "removeTransport" \in RemoveSteps
  BY DEF RemoveSteps
<1>4. task'[t] \in TaskStates /\ task'[t].step = "removeTransport" /\ task'[t].session = s
  BY <1>2, <1>3 DEF TaskStates
<1> QED
  BY <1>1, <1>4

LEMMA CloseSessionEffect ==
  ASSUME task \in [Tasks -> TaskStates], NEW t \in Tasks, NEW s \in Sessions,
         NEW forced \in BOOLEAN, CloseSession(t, s, forced)
  PROVE  /\ task' \in [Tasks -> TaskStates]
         /\ task'[t].step = "try" /\ task'[t].session = s
         /\ \A u \in Tasks : u # t => task'[u] = task[u]
<1> DEFINE new == [step |-> "try", session |-> s, force |-> forced, todo |-> {}]
<1>1. task' = [task EXCEPT ![t] = new]
  BY DEF CloseSession
<1>2. new \in TaskStates /\ new.step = "try" /\ new.session = s
  BY DEF TaskStates
<1> HIDE DEF new
<1> QED
  BY <1>1, <1>2

LEMMA CloseAllSessionsEffect ==
  ASSUME task \in [Tasks -> TaskStates], transports \subseteq Sessions,
         NEW t \in Tasks, CloseAllSessions(t)
  PROVE  /\ task' \in [Tasks -> TaskStates]
         /\ task'[t].step = "next" /\ task'[t].session = NoSession
         /\ \A u \in Tasks : u # t => task'[u] = task[u]
  BY DEF CloseAllSessions, TaskStates

LEMMA NextSessionEffect ==
  ASSUME task \in [Tasks -> TaskStates], NEW t \in Tasks, NextSession(t)
  PROVE  /\ task' \in [Tasks -> TaskStates]
         /\ task'[t].step = "try" /\ task'[t].session \in Sessions
         /\ \A u \in Tasks : u # t => task'[u] = task[u]
<1>1. PICK s \in task[t].todo, forced \in {task[t].force, TRUE} :
        task' = [task EXCEPT ![t] = [step |-> "try", session |-> s, force |-> forced,
                                     todo |-> task[t].todo \ {s}]]
  BY DEF NextSession
<1>2. s \in Sessions /\ forced \in BOOLEAN /\ task[t].todo \ {s} \in SUBSET Sessions
  BY DEF TaskStates
<1> QED
  BY <1>1, <1>2 DEF TaskStates

LEMMA CancelEffect ==
  ASSUME task \in [Tasks -> TaskStates], NEW t \in Tasks, Cancel(t)
  PROVE  /\ task' \in [Tasks -> TaskStates]
         /\ task'[t].step = "idle" /\ task'[t].session = NoSession
         /\ \A u \in Tasks : u # t => task'[u] = task[u]
  BY DEF Cancel, TaskStates

-----------------------------------------------------------------------------
(* Type correctness                                                        *)

LEMMA TypeInit == Init => TypeOK
<1> SUFFICES ASSUME Init PROVE TypeOK
  OBVIOUS
<1>1. listener \in [Listeners -> ListenerStates] /\ task \in [Tasks -> TaskStates]
  BY DEF Init, ListenerStates, TaskStates
<1>2. <<>> \in Channels /\ <<>> \in Announcements
  BY DEF Channels, Announcements
<1>3. /\ raw \in [Sessions -> Channels] /\ forward \in [Sessions -> Channels]
      /\ emitted \in [Sessions -> Announcements]
  BY <1>2 DEF Init
<1>4. /\ generator \in 1..(MaxSessions + 1) /\ received \in [Sessions -> 0..MaxMessages]
      /\ transports \subseteq Sessions /\ stats \subseteq Sessions
  BY TransportServerAssumption DEF Init
<1>5. /\ states \in [Sessions -> {"Unknown", "Connected", "Closing", "Closed"}]
      /\ conn \in [Sessions -> {"none", "ready", "writing", "ended"}]
      /\ shutdown \in [Sessions -> BOOLEAN] /\ link \in [Sessions -> BOOLEAN]
      /\ reader \in [Sessions -> {"none", "spawned", "running", "ended"}]
      /\ handler \in [Sessions -> {"none", "spawned", "running", "ended"} \cup RemoveSteps]
  BY DEF Init
<1> QED
  BY <1>1, <1>3, <1>4, <1>5 DEF TypeOK

(* A listener that is adding a session, and a task that closes or removes   *)
(* one, know which.                                                         *)
TypeInv == TypeOK /\ ListenersInv /\ TasksInv

LEMMA ListenerType ==
  ASSUME TypeInv, NEW l \in Listeners, Accept(l) \/ AddStep(l) PROVE TypeOK'
<1> USE TransportServerAssumption
    DEF TypeInv, TypeOK, ListenersInv, registryVars, connVars, pathVars
<1>1. CASE Accept(l)
  <2>1. generator \in Sessions
    BY <1>1 DEF Accept, Sessions
  <2>2. listener' \in [Listeners -> ListenerStates]
    BY <1>1, <2>1, ListenerSet DEF Accept, AddSteps
  <2> QED
    BY <1>1, <2>1, <2>2 DEF Accept, Sessions
<1>2. CASE listener[l].step # "accept"
  <2>1. listener[l].session \in Sessions
    BY <1>2 DEF ListenerStates
  <2>2. CASE SetConnection(l) \/ AddTransport(l) \/ AddStats(l)
    <3>1. CASE SetConnection(l)
      BY <2>1, <3>1, ListenerGotoEffect DEF SetConnection, AddSteps
    <3>2. CASE AddTransport(l)
      BY <2>1, <3>2, ListenerGotoEffect DEF AddTransport, AddSteps
    <3>3. CASE AddStats(l)
      BY <2>1, <3>3, ListenerGotoEffect DEF AddStats, AddSteps
    <3> QED
      BY <2>2, <3>1, <3>2, <3>3
  <2>3. CASE AddState(l) \/ SpawnHandler(l)
    BY <2>1, <2>3, ListenerGotoEffect DEF AddState, SpawnHandler, AddSteps
  <2>4. CASE Establish(l)
    <3>1. listener' \in [Listeners -> ListenerStates]
      BY <2>4, ListenerSet DEF Establish, AddSteps
    <3>2. Append(emitted[listener[l].session], "established") \in Announcements
      BY <2>1 DEF Announcements
    <3> QED
      BY <2>1, <2>4, <3>1, <3>2 DEF Establish, Emit
  <2> QED
    BY <1>2, <2>2, <2>3, <2>4 DEF AddStep, Accept
<1> QED
  BY <1>1, <1>2
  DEF AddStep, SetConnection, AddTransport, AddStats, AddState, SpawnHandler, Establish

LEMMA SessionType ==
  ASSUME TypeInv, NEW s \in Sessions, LoopStep(s) \/ ReaderStep(s) \/ HandlerStep(s)
  PROVE  TypeOK'
<1> USE TransportServerAssumption
    DEF TypeInv, TypeOK, registryVars, connVars, pathVars
<1>1. CASE LoopStep(s)
  <2>1. ASSUME NEW e \in {"message", "closed"}, PostRaw(s, e)
        PROVE  raw' \in [Sessions -> Channels]
    BY <2>1 DEF PostRaw, Channels
  <2>2. CASE LoopReceives(s)
    BY <2>1, <2>2 DEF LoopReceives
  <2>3. CASE LoopFails(s)
    BY <2>1, <2>3 DEF LoopFails
  <2>4. CASE LoopWrites(s) \/ LoopWritten(s) \/ LoopShutdown(s)
    BY <2>4 DEF LoopWrites, LoopWritten, LoopShutdown
  <2> QED
    BY <1>1, <2>2, <2>3, <2>4 DEF LoopStep
<1>2. CASE ReaderStep(s)
  <2>1. CASE ReaderForwards(s)
    <3>1. raw[s] # <<>> /\ raw[s] \in Channels
      BY <2>1 DEF ReaderForwards
    <3>2. Tail(raw[s]) \in Channels /\ Append(forward[s], Head(raw[s])) \in Channels
      BY <3>1 DEF Channels
    <3> QED
      BY <2>1, <3>2 DEF ReaderForwards
  <2>2. <<>> \in Channels
    BY DEF Channels
  <2>3. CASE ReaderSubscribes(s) \/ ReaderLags(s)
    <3>1. CASE ReaderSubscribes(s)
      BY <3>1 DEF ReaderSubscribes
    <3>2. CASE ReaderLags(s)
      BY <2>2, <3>2 DEF ReaderLags
    <3> QED
      BY <2>3, <3>1, <3>2
  <2> QED
    BY <1>2, <2>1, <2>3 DEF ReaderStep
<1>3. CASE HandlerStep(s)
  <2>1. CASE HandlerMessage(s) \/ HandlerClosed(s)
    <3>1. forward[s] # <<>> /\ forward[s] \in Channels
      BY <2>1 DEF HandlerMessage, HandlerClosed
    <3>2. Tail(forward[s]) \in Channels
      BY <3>1 DEF Channels
    <3>3. \A e \in {"message", "closedByPeer"} : Append(emitted[s], e) \in Announcements
      BY DEF Announcements, ClosedEvents
    <3>4. CASE HandlerMessage(s)
      BY <3>2, <3>3, <3>4 DEF HandlerMessage, Emit
    <3>5. CASE HandlerClosed(s)
      BY <3>2, <3>3, <3>5 DEF HandlerClosed, Emit, RemoveSteps
    <3> QED
      BY <2>1, <3>4, <3>5
  <2>2. <<>> \in Channels
    BY DEF Channels
  <2>4. CASE HandlerSubscribes(s) \/ HandlerLags(s)
    <3>1. CASE HandlerSubscribes(s)
      BY <3>1 DEF HandlerSubscribes
    <3>2. CASE HandlerLags(s)
      BY <2>2, <3>2 DEF HandlerLags
    <3> QED
      BY <2>4, <3>1, <3>2
  <2>3. CASE HandlerRemoves(s)
    BY <2>3 DEF HandlerRemoves, RemovePart, RemovalAfter, RemoveSteps
  <2> QED
    BY <1>3, <2>1, <2>3, <2>4 DEF HandlerStep
<1> QED
  BY <1>1, <1>2, <1>3

LEMMA TaskType ==
  ASSUME TypeInv, NEW t \in Tasks,
         \/ \E s \in Sessions : SendToClosed(t, s)
         \/ \E s \in Sessions, forced \in BOOLEAN : CloseSession(t, s, forced)
         \/ CloseAllSessions(t) \/ CloseStep(t) \/ Cancel(t)
  PROVE  TypeOK'
<1> USE TransportServerAssumption
    DEF TypeInv, TypeOK, TasksInv, CloseSteps, RemoveSteps, registryVars, connVars, pathVars
<1>1. ASSUME NEW s \in Sessions, SendToClosed(t, s) PROVE TypeOK'
  <2>1. task' \in [Tasks -> TaskStates]
    BY <1>1, SendToClosedEffect
  <2> QED
    BY <1>1, <2>1 DEF SendToClosed
<1>2. ASSUME NEW s \in Sessions, NEW forced \in BOOLEAN, CloseSession(t, s, forced)
      PROVE  TypeOK'
  <2>1. task' \in [Tasks -> TaskStates]
    BY <1>2, CloseSessionEffect
  <2> QED
    BY <1>2, <2>1 DEF CloseSession
<1>3. CASE CloseAllSessions(t) \/ Cancel(t)
  <2>1. task' \in [Tasks -> TaskStates]
    BY <1>3, CloseAllSessionsEffect, CancelEffect
  <2> QED
    BY <1>3, <2>1 DEF CloseAllSessions, Cancel
<1>4. CASE CloseStep(t)
  <2>1. CASE NextSession(t)
    <3>1. task' \in [Tasks -> TaskStates]
      BY <2>1, NextSessionEffect
    <3> QED
      BY <2>1, <3>1 DEF NextSession
  <2>2. CASE TryStartClosing(t)
    BY <2>2, TaskGotoEffect, CloseDoneEffect DEF TryStartClosing
  <2>3. CASE EmitClosed(t)
    <3>1. Append(emitted[task[t].session], "closedByServer") \in Announcements
      BY <2>3 DEF EmitClosed, Announcements, ClosedEvents
    <3> QED
      BY <2>3, <3>1, TaskGotoEffect DEF EmitClosed, Emit
  <2>4. CASE Disconnect(t)
    BY <2>4, TaskGotoEffect DEF Disconnect
  <2>5. CASE Joined(t) \/ CloseTimeout(t)
    <3>1. task' \in [Tasks -> TaskStates]
      <4>1. TaskGoto(t, "mark")
        BY <2>5 DEF Joined, CloseTimeout
      <4> QED
        BY <4>1, TaskGotoEffect
    <3>2. link' = link \/ link' = [link EXCEPT ![task[t].session] = FALSE]
      BY <2>5 DEF Joined, CloseTimeout
    <3>3. link' \in [Sessions -> BOOLEAN]
      BY <3>2
    <3>4. UNCHANGED <<generator, listener, registryVars, connVars, pathVars, emitted>>
      BY <2>5 DEF Joined, CloseTimeout
    <3> QED
      BY <3>1, <3>3, <3>4
  <2>6. CASE MarkClosed(t)
    <3>1. task' \in [Tasks -> TaskStates]
      <4>1. TaskGoto(t, "removeTransport")
        BY <2>6 DEF MarkClosed
      <4> QED
        BY <4>1, TaskGotoEffect
    <3> QED
      BY <2>6, <3>1 DEF MarkClosed
  <2>7. CASE TaskRemoves(t)
    BY <2>7, TaskGotoEffect, CloseDoneEffect DEF TaskRemoves, RemovePart, RemovalAfter
  <2> QED
    BY <1>4, <2>1, <2>2, <2>3, <2>4, <2>5, <2>6, <2>7 DEF CloseStep
<1> QED
  BY <1>1, <1>2, <1>3, <1>4

LEMMA TypeStep == TypeInv /\ [Next]_vars => TypeOK'
<1> SUFFICES ASSUME TypeInv, [Next]_vars PROVE TypeOK'
  OBVIOUS
<1>1. CASE UNCHANGED vars
  BY <1>1 DEF vars, registryVars, connVars, pathVars, TypeInv, TypeOK
<1> QED
  BY <1>1, ListenerType, SessionType, TaskType DEF Next

-----------------------------------------------------------------------------
(* The invariant is inductive                                              *)

AnnouncedOnce(s) ==
  \A i, j \in DOMAIN emitted[s] :
    emitted[s][i] = "closedByServer" /\ emitted[s][j] = "closedByServer" => i = j

(* What an event adds to the history of its session.                        *)
LEMMA EmitEffect ==
  ASSUME TypeOK, NEW s \in Sessions, NEW event, Emit(s, event)
  PROVE  /\ emitted'[s] # <<>>
         /\ Announced(s)' <=> Announced(s) \/ event = "closedByServer"
         /\ AnnouncedOnce(s) /\ (event = "closedByServer" => ~Announced(s)) => AnnouncedOnce(s)'
         /\ \A r \in Sessions : r # s => emitted'[r] = emitted[r]
<1>1. emitted[s] \in Announcements /\ emitted'[s] = Append(emitted[s], event)
  BY DEF Emit, TypeOK
<1>2. /\ DOMAIN emitted[s] = 1..Len(emitted[s])
      /\ DOMAIN emitted'[s] = 1..(Len(emitted[s]) + 1)
      /\ Len(emitted[s]) \in Nat
      /\ \A i \in 1..Len(emitted[s]) : emitted'[s][i] = emitted[s][i]
      /\ emitted'[s][Len(emitted[s]) + 1] = event
  BY <1>1 DEF Announcements
<1>3. emitted'[s] # <<>>
  BY <1>2
<1>4. Announced(s)' <=> Announced(s) \/ event = "closedByServer"
  <2>1. \A i \in 1..(Len(emitted[s]) + 1) : i \in 1..Len(emitted[s]) \/ i = Len(emitted[s]) + 1
    BY <1>2
  <2>2. \A i \in 1..Len(emitted[s]) : i \in 1..(Len(emitted[s]) + 1)
    BY <1>2
  <2>3. Len(emitted[s]) + 1 \in 1..(Len(emitted[s]) + 1)
    BY <1>2
  <2> QED
    BY <1>2, <2>1, <2>2, <2>3 DEF Announced
<1>5. ASSUME AnnouncedOnce(s), event = "closedByServer" => ~Announced(s)
      PROVE  AnnouncedOnce(s)'
  <2> SUFFICES ASSUME NEW i \in 1..(Len(emitted[s]) + 1), NEW j \in 1..(Len(emitted[s]) + 1),
                      emitted'[s][i] = "closedByServer", emitted'[s][j] = "closedByServer"
               PROVE  i = j
    BY <1>2 DEF AnnouncedOnce
  <2>1. CASE event = "closedByServer"
    <3>1. \A k \in 1..Len(emitted[s]) : emitted'[s][k] # "closedByServer"
      BY <1>2, <1>5, <2>1 DEF Announced
    <3> QED
      BY <1>2, <3>1
  <2>2. CASE event # "closedByServer"
    <3>1. i \in 1..Len(emitted[s]) /\ j \in 1..Len(emitted[s])
      BY <1>2, <2>2
    <3> QED
      BY <1>2, <1>5, <3>1 DEF AnnouncedOnce
  <2> QED
    BY <2>1, <2>2
<1>6. \A r \in Sessions : r # s => emitted'[r] = emitted[r]
  BY DEF Emit, TypeOK
<1> QED
  BY <1>3, <1>4, <1>5, <1>6

LEMMA IInvInit == Init => IInv
<1> SUFFICES ASSUME Init PROVE IInv
  OBVIOUS
<1>1. \A s \in Sessions : s \in Nat \ {0} /\ s >= generator
  BY TransportServerAssumption DEF Init, Sessions
<1>2. ListenersInv /\ TasksInv
  BY DEF Init, ListenersInv, TasksInv, CloseSteps, RemoveSteps, NoSession
<1>3. UnregisteredInv /\ AddingInv
  BY <1>1 DEF Init, UnregisteredInv, AddingInv, NoSession
<1>4. RemovingInv
  BY <1>1 DEF Init, RemovingInv, RemoverAt, Unregistered
<1>5. ClosingInv /\ ClosesOnce
  BY DEF Init, ClosingInv, ClosesOnce, Announced, CloseSteps
<1> QED
  BY TypeInit, <1>2, <1>3, <1>4, <1>5 DEF IInv

(* Steps that touch neither the maps nor who is working on them.            *)
LEMMA QuietPreserves ==
  ASSUME IInv, TypeOK',
         UNCHANGED <<generator, listener, transports, stats, states, link, handler, task, emitted>>
  PROVE  IInv'
  BY DEF IInv, ListenersInv, UnregisteredInv, Unregistered, Registering, AddingInv,
         RemovingInv, RemoverAt, ClosingInv, Announced, ClosesOnce, TasksInv

(* Which listener is adding which session, and what that leaves unregistered. *)
LEMMA ListenerEffect ==
  ASSUME IInv, NEW l \in Listeners, Accept(l) \/ AddStep(l)
  PROVE  /\ ListenersInv'
         /\ \A r \in Sessions :
              Unregistered(r)' <=>
                Unregistered(r) /\ ~(listener[l].step = "addState" /\ listener[l].session = r)
         /\ \A m \in Listeners : m # l => listener'[m] = listener[m]
<1> USE DEF IInv, TypeOK, ListenersInv
<1> \A m \in Listeners : listener[m].session \in Sessions \cup {NoSession}
  BY DEF ListenerStates
<1> generator \in Nat \ {0} /\ Sessions \subseteq Nat \ {0} /\ NoSession \notin Sessions
    /\ NoSession < generator
  BY TransportServerAssumption DEF Sessions, NoSession
<1>1. CASE Accept(l)
  <2>1. generator \in Sessions
    BY <1>1, TransportServerAssumption DEF Accept, Sessions
  <2>2. /\ listener'[l].step = "setConnection" /\ listener'[l].session = generator
        /\ \A m \in Listeners : m # l => listener'[m] = listener[m]
    BY <1>1, <2>1, ListenerSet DEF Accept, AddSteps
  <2>3. generator' = generator + 1 /\ listener[l].step = "accept"
    BY <1>1 DEF Accept
  <2>4. ListenersInv'
    <3>1. \A m \in Listeners : listener[m].session # generator
      OBVIOUS
    <3>2. \A m \in Listeners : listener'[m].step = "accept" <=> listener'[m].session = NoSession
      BY <2>1, <2>2
    <3>3. \A m \in Listeners : listener'[m].session < generator'
      <4>1. \A m \in Listeners : listener[m].session \in Nat /\ listener[m].session < generator
        BY ListenerSessions
      <4>2. \A m \in Listeners : listener'[m].session \in {listener[m].session, generator}
        BY <2>2
      <4> HIDE DEF IInv, TypeOK, ListenersInv
      <4> QED
        BY <2>3, <4>1, <4>2
    <3>4. ASSUME NEW m \in Listeners, NEW k \in Listeners,
                 listener'[m].session = listener'[k].session, listener'[m].session # NoSession
          PROVE  m = k
      BY <2>2, <3>1, <3>4
    <3> QED
      BY <3>2, <3>3, <3>4
  <2>5. \A r \in Sessions : Unregistered(r)' <=> Unregistered(r)
    BY <2>1, <2>2, <2>3 DEF Unregistered, Registering
  <2> QED
    BY <2>2, <2>3, <2>4, <2>5
<1>2. ASSUME NEW step \in AddSteps, ListenerGoto(l, step), generator' = generator,
             listener[l].step # "accept", step # "setConnection",
             \/ step \in {"addTransport", "addStats", "addState"}
                /\ listener[l].step \in {"setConnection", "addTransport", "addStats"}
             \/ step \in {"spawn", "publish"}
                /\ listener[l].step \in {"addState", "spawn"}
                /\ (step = "spawn" <=> listener[l].step = "addState")
      PROVE  /\ ListenersInv'
             /\ \A r \in Sessions :
                  Unregistered(r)' <=>
                    Unregistered(r) /\ ~(listener[l].step = "addState" /\ listener[l].session = r)
             /\ \A m \in Listeners : m # l => listener'[m] = listener[m]
  <2>1. /\ listener'[l].step = step /\ listener'[l].session = listener[l].session
        /\ \A m \in Listeners : m # l => listener'[m] = listener[m]
    BY <1>2, ListenerGotoEffect
  <2>2. ListenersInv'
    BY <1>2, <2>1 DEF AddSteps
  <2>3. ASSUME NEW r \in Sessions
        PROVE  Unregistered(r)' <=>
                 Unregistered(r) /\ ~(listener[l].step = "addState" /\ listener[l].session = r)
    <3>1. CASE listener[l].session = r
      BY <1>2, <2>1, <3>1 DEF Unregistered, Registering
    <3>2. CASE listener[l].session # r
      BY <1>2, <2>1, <3>2 DEF Unregistered, Registering
    <3> QED
      BY <3>1, <3>2
  <2> QED
    BY <2>1, <2>2, <2>3
<1>3. CASE Establish(l)
  <2>1. /\ listener'[l].step = "accept" /\ listener'[l].session = NoSession
        /\ \A m \in Listeners : m # l => listener'[m] = listener[m]
    BY <1>3, ListenerSet DEF Establish
  <2>2. listener[l].step = "publish" /\ generator' = generator
    BY <1>3 DEF Establish
  <2>3. ListenersInv'
    BY <2>1, <2>2
  <2>4. \A r \in Sessions : Unregistered(r)' <=> Unregistered(r)
    BY <2>1, <2>2 DEF Unregistered, Registering
  <2> QED
    BY <2>1, <2>2, <2>3, <2>4
<1> QED
  BY <1>1, <1>2, <1>3
  DEF AddStep, SetConnection, AddTransport, AddStats, AddState, SpawnHandler, AddSteps

(* The steps of add_session.                                                *)
LEMMA ListenerPreserves ==
  ASSUME IInv, TypeOK', NEW l \in Listeners, Accept(l) \/ AddStep(l) PROVE IInv'
<1> DEFINE s == listener[l].session
<1> USE DEF registryVars, connVars, pathVars
<1>a. /\ ListenersInv' /\ \A m \in Listeners : m # l => listener'[m] = listener[m]
      /\ \A r \in Sessions :
           Unregistered(r)' <=> Unregistered(r) /\ ~(listener[l].step = "addState" /\ s = r)
  BY ListenerEffect
<1>b. task' = task /\ TasksInv'
  BY DEF IInv, TasksInv, Accept, AddStep, SetConnection, AddTransport, AddStats, AddState,
         SpawnHandler, Establish
<1>c. TypeOK /\ ListenersInv
  BY DEF IInv
<1>d. /\ generator \in Nat \ {0} /\ Sessions \subseteq Nat \ {0}
      /\ \A m \in Listeners : listener[m].session \in Nat
  BY <1>c, TransportServerAssumption DEF TypeOK, Sessions, NoSession, ListenerStates
<1>e. listener[l].step # "accept" => s \in Sessions /\ s < generator
  BY <1>c DEF TypeOK, ListenersInv, ListenerStates
<1>f. \A m \in Listeners : m # l /\ listener[l].step # "accept" => listener[m].session # s
  BY <1>c DEF ListenersInv
<1>1. CASE Accept(l)
  <2>1. /\ generator \in Sessions /\ generator' = generator + 1
        /\ UNCHANGED <<transports, stats, states, handler, link, emitted>>
    BY <1>1, <1>d, TransportServerAssumption DEF Accept, Sessions
  <2>2. listener'[l].step = "setConnection" /\ listener'[l].session = generator
    BY <1>1, <1>c, <2>1, ListenerSet DEF Accept, AddSteps, TypeOK
  <2>3. UnregisteredInv'
    BY <1>1, <1>a, <1>b, <2>1 DEF IInv, UnregisteredInv, Accept
  <2>4. AddingInv'
    BY <1>a, <1>d, <2>1, <2>2 DEF IInv, AddingInv
  <2>5. RemovingInv'
    BY <1>1, <1>a, <1>b, <2>1 DEF IInv, RemovingInv, RemoverAt, Accept
  <2>6. ClosingInv' /\ ClosesOnce'
    BY <1>b, <2>1 DEF IInv, ClosingInv, ClosesOnce, Announced
  <2> QED
    BY <1>a, <1>b, <2>3, <2>4, <2>5, <2>6 DEF IInv
\* What the three steps before the state is written have in common.
<1>2. ASSUME s \in Sessions, generator' = generator,
             UNCHANGED <<states, handler, emitted>>, Unregistered(s),
             \A r \in Sessions : Unregistered(r)' <=> Unregistered(r),
             \A r \in Sessions \ {s} : (r \in transports') = (r \in transports),
             \A r \in Sessions \ {s} : (r \in stats') = (r \in stats),
             \A r \in Sessions \ {s} : link'[r] = link[r],
             s \in transports' => link'[s],
             AddingInv'
      PROVE  IInv'
  <2>1. UnregisteredInv'
    <3>1. ASSUME NEW r \in Sessions, Unregistered(r)
          PROVE  r \in transports' => link'[r]
      BY <1>2, <3>1 DEF IInv, UnregisteredInv
    <3> QED
      BY <1>b, <1>2, <3>1 DEF IInv, UnregisteredInv
  <2>2. RemovingInv'
    <3>1. \A r \in Sessions : Unregistered(r) =>
            ~RemoverAt(r, "removeStats") /\ ~RemoverAt(r, "removeState")
      BY DEF IInv, UnregisteredInv, RemoverAt
    <3>2. \A r \in Sessions, step \in RemoveSteps : RemoverAt(r, step)' <=> RemoverAt(r, step)
      BY <1>b, <1>2 DEF RemoverAt
    <3>3. ASSUME NEW r \in Sessions, r # s
          PROVE  /\ (r \in transports') <=> (r \in transports)
                 /\ (r \in stats') <=> (r \in stats)
      BY <1>2, <3>3
    <3> QED
      BY <1>2, <3>1, <3>2, <3>3 DEF IInv, RemovingInv, RemoveSteps
  <2>3. ClosingInv' /\ ClosesOnce'
    BY <1>b, <1>2 DEF IInv, ClosingInv, ClosesOnce, Announced
  <2> QED
    BY <1>a, <1>b, <1>2, <2>1, <2>2, <2>3 DEF IInv
<1>6. CASE SetConnection(l)
  <2>1. /\ s \in Sessions /\ generator' = generator /\ listener[l].step = "setConnection"
        /\ UNCHANGED <<transports, stats, states, handler, emitted>>
        /\ link'[s] /\ \A r \in Sessions : r # s => link'[r] = link[r]
        /\ listener'[l].step = "addTransport" /\ listener'[l].session = s
    BY <1>6, <1>c, <1>e, ListenerGotoEffect DEF SetConnection, TypeOK, AddSteps
  <2>2. Unregistered(s) /\ \A r \in Sessions : Unregistered(r)' <=> Unregistered(r)
    BY <1>a, <2>1 DEF Unregistered, Registering
  <2>3. AddingInv'
    <3>1. \A r \in Sessions : r >= generator' => r \notin transports' /\ r \notin stats'
      BY <1>d, <1>e, <2>1 DEF IInv, AddingInv
    <3>2. s \notin stats /\ s \notin transports
      BY <2>1 DEF IInv, AddingInv
    <3>3. ASSUME NEW m \in Listeners, m # l
          PROVE  listener'[m] = listener[m] /\ listener[m].session # s
      BY <1>a, <1>d, <1>f, <2>1, <3>3, <1>c DEF ListenersInv, NoSession
    <3>4. ASSUME NEW m \in Listeners, m # l, listener'[m].step = "addTransport"
          PROVE  link'[listener'[m].session]
      BY <1>c, <2>1, <3>3, <3>4 DEF IInv, AddingInv, TypeOK, ListenersInv, ListenerStates
    <3> QED
      BY <2>1, <3>1, <3>2, <3>3, <3>4 DEF IInv, AddingInv
  <2> QED
    BY <1>2, <2>1, <2>2, <2>3
<1>7. CASE AddTransport(l)
  <2>1. /\ s \in Sessions /\ generator' = generator /\ listener[l].step = "addTransport"
        /\ UNCHANGED <<stats, states, handler, link, emitted>>
        /\ transports' = transports \cup {s}
        /\ listener'[l].step = "addStats" /\ listener'[l].session = s
    BY <1>7, <1>c, <1>e, ListenerGotoEffect DEF AddTransport, TypeOK, AddSteps
  <2>2. Unregistered(s) /\ \A r \in Sessions : Unregistered(r)' <=> Unregistered(r)
    BY <1>a, <2>1 DEF Unregistered, Registering
  <2>3. AddingInv'
    BY <1>a, <1>d, <1>e, <1>f, <2>1 DEF IInv, AddingInv
  <2>4. link[s]
    BY <2>1 DEF IInv, AddingInv
  <2> QED
    BY <1>2, <2>1, <2>2, <2>3, <2>4
<1>8. CASE AddStats(l)
  <2>1. /\ s \in Sessions /\ generator' = generator /\ listener[l].step = "addStats"
        /\ UNCHANGED <<transports, states, handler, link, emitted>>
        /\ stats' = stats \cup {s}
        /\ listener'[l].step = "addState" /\ listener'[l].session = s
    BY <1>8, <1>c, <1>e, ListenerGotoEffect DEF AddStats, TypeOK, AddSteps
  <2>2. Unregistered(s) /\ \A r \in Sessions : Unregistered(r)' <=> Unregistered(r)
    BY <1>a, <2>1 DEF Unregistered, Registering
  <2>3. AddingInv'
    BY <1>a, <1>d, <1>e, <1>f, <2>1 DEF IInv, AddingInv
  <2>4. s \in transports => link[s]
    BY <2>1, <2>2 DEF IInv, UnregisteredInv
  <2> QED
    BY <1>2, <2>1, <2>2, <2>3, <2>4
<1>3. CASE AddState(l)
  <2>1. /\ s \in Sessions /\ generator' = generator /\ listener[l].step = "addState"
        /\ UNCHANGED <<transports, stats, handler, link, emitted>>
        /\ states'[s] = "Connected" /\ \A r \in Sessions : r # s => states'[r] = states[r]
        /\ listener'[l].step = "spawn" /\ listener'[l].session = s
    BY <1>3, <1>c, <1>e, ListenerGotoEffect DEF AddState, TypeOK, AddSteps
  <2>2. Unregistered(s) /\ \A r \in Sessions : Unregistered(r)' <=> Unregistered(r) /\ r # s
    BY <1>a, <2>1 DEF Unregistered, Registering
  <2>3. /\ s \in transports /\ s \in stats /\ handler[s] = "none" /\ emitted[s] = <<>>
        /\ \A t \in Tasks : task[t].session = s => task[t].step = "try"
    BY <2>1, <2>2 DEF IInv, UnregisteredInv, AddingInv
  <2>4. UnregisteredInv'
    BY <1>b, <2>1, <2>2 DEF IInv, UnregisteredInv
  <2>5. AddingInv'
    BY <1>a, <1>d, <1>e, <1>f, <2>1, <2>3 DEF IInv, AddingInv
  <2>6. RemovingInv'
    <3>1. \A r \in Sessions, step \in RemoveSteps : RemoverAt(r, step)' <=> RemoverAt(r, step)
      BY <1>b, <2>1 DEF RemoverAt
    <3>2. \A step \in RemoveSteps : ~RemoverAt(s, step)
      BY <2>3 DEF RemoverAt, RemoveSteps
    <3> QED
      BY <2>1, <2>2, <2>3, <3>1, <3>2 DEF IInv, RemovingInv, RemoveSteps
  <2>7. ClosingInv' /\ ClosesOnce'
    BY <1>b, <2>1, <2>3 DEF IInv, ClosingInv, ClosesOnce, Announced, CloseSteps
  <2> QED
    BY <1>a, <1>b, <2>4, <2>5, <2>6, <2>7 DEF IInv
<1>4. CASE SpawnHandler(l)
  <2>1. /\ s \in Sessions /\ generator' = generator /\ listener[l].step = "spawn"
        /\ UNCHANGED <<transports, stats, states, link, emitted>>
        /\ handler'[s] = "spawned" /\ \A r \in Sessions : r # s => handler'[r] = handler[r]
        /\ listener'[l].step = "publish" /\ listener'[l].session = s
    BY <1>4, <1>c, <1>e, ListenerGotoEffect DEF SpawnHandler, TypeOK, AddSteps
  <2>2. ~Unregistered(s) /\ \A r \in Sessions : Unregistered(r)' <=> Unregistered(r)
    BY <1>a, <1>c, <1>d, <1>e, <2>1 DEF Unregistered, Registering, ListenersInv
  <2>3. handler[s] = "none"
    BY <2>1 DEF IInv, AddingInv
  <2>4. UnregisteredInv'
    BY <1>b, <2>1, <2>2 DEF IInv, UnregisteredInv
  <2>5. AddingInv'
    <3>1. ASSUME NEW m \in Listeners, listener'[m].step = "spawn", m # l
          PROVE  listener'[m] = listener[m] /\ listener[m].session # s
                 /\ listener[m].session \in Sessions
      BY <1>a, <1>c, <1>f, <2>1, <3>1 DEF ListenersInv, ListenerStates, TypeOK
    <3> QED
      BY <1>a, <1>d, <2>1, <3>1 DEF IInv, AddingInv
  <2>6. RemovingInv'
    <3>1. \A r \in Sessions, step \in RemoveSteps : RemoverAt(r, step)' <=> RemoverAt(r, step)
      BY <1>b, <2>1, <2>3 DEF RemoverAt, RemoveSteps
    <3> QED
      BY <2>1, <2>2, <3>1 DEF IInv, RemovingInv, RemoveSteps
  <2>7. ClosingInv' /\ ClosesOnce'
    BY <1>b, <2>1 DEF IInv, ClosingInv, ClosesOnce, Announced
  <2> QED
    BY <1>a, <1>b, <2>4, <2>5, <2>6, <2>7 DEF IInv
<1>5. CASE Establish(l)
  <2>1. /\ s \in Sessions /\ generator' = generator /\ listener[l].step = "publish"
        /\ UNCHANGED <<transports, stats, states, handler, link>>
        /\ listener'[l].step = "accept" /\ Emit(s, "established")
    BY <1>5, <1>c, <1>e, ListenerSet DEF Establish, TypeOK
  <2>2. ~Unregistered(s) /\ \A r \in Sessions : Unregistered(r)' <=> Unregistered(r)
    BY <1>a, <1>c, <1>d, <1>e, <2>1 DEF Unregistered, Registering, ListenersInv
  <2>3. \A r \in Sessions : /\ Announced(r)' <=> Announced(r)
                            /\ AnnouncedOnce(r) => AnnouncedOnce(r)'
                            /\ r # s => emitted'[r] = emitted[r]
    <3>1. PICK r \in Sessions : r = s /\ Emit(r, "established")
      BY <2>1
    <3> QED
      BY <1>c, <3>1, EmitEffect DEF Announced, AnnouncedOnce
  <2>4. UnregisteredInv'
    BY <1>b, <2>1, <2>2, <2>3 DEF IInv, UnregisteredInv
  <2>5. AddingInv'
    BY <1>a, <1>d, <2>1 DEF IInv, AddingInv
  <2>6. RemovingInv'
    BY <1>b, <2>1, <2>2 DEF IInv, RemovingInv, RemoverAt
  <2>7. ClosingInv' /\ ClosesOnce'
    <3>1. \A r \in Sessions : AnnouncedOnce(r)'
      BY <2>3 DEF IInv, ClosesOnce, AnnouncedOnce
    <3> QED
      BY <1>b, <2>1, <2>3, <3>1
      DEF IInv, ClosingInv, ClosesOnce, AnnouncedOnce, TasksInv, CloseSteps
  <2> QED
    BY <1>a, <1>b, <2>4, <2>5, <2>6, <2>7 DEF IInv
<1> QED
  BY <1>1, <1>6, <1>7, <1>8, <1>3, <1>4, <1>5 DEF AddStep

(* A session that is being registered has no handler, and only tasks that   *)
(* are about to ask for its close.                                          *)
LEMMA RegisteredFacts ==
  ASSUME IInv
  PROVE  /\ \A s \in Sessions : handler[s] # "none" => ~Unregistered(s)
         /\ \A s \in Sessions : states[s] # "Unknown" => ~Unregistered(s)
         /\ \A t \in Tasks : /\ task[t].session \in Sessions
                             /\ task[t].step # "try"
                             => ~Unregistered(task[t].session)
  BY DEF IInv, UnregisteredInv

(* One step of remove_session, whoever takes it: that one goes on to the    *)
(* next map, everybody else stays where he is.                              *)
LEMMA RemovalPreserves ==
  ASSUME IInv, NEW s \in Sessions, NEW step \in RemoveSteps,
         RemovePart(step, s), RemoverAt(s, step), ~Unregistered(s),
         \A r \in Sessions : Unregistered(r)' <=> Unregistered(r),
         \A r \in Sessions, at \in RemoveSteps :
           r # s => (RemoverAt(r, at)' <=> RemoverAt(r, at)),
         step # "removeState" => RemoverAt(s, RemovalAfter(step))',
         \A at \in RemoveSteps :
           /\ RemoverAt(s, at)' => RemoverAt(s, at) \/ at = RemovalAfter(step)
           /\ RemoverAt(s, at) /\ at # step => RemoverAt(s, at)'
  PROVE  /\ RemovingInv'
         /\ \A r \in Sessions : r # s => /\ (r \in transports') <=> (r \in transports)
                                         /\ (r \in stats') <=> (r \in stats)
                                         /\ states'[r] = states[r]
         /\ states'[s] \in {states[s], "Unknown"}
<1> states \in [Sessions -> {"Unknown", "Connected", "Closing", "Closed"}]
  BY DEF IInv, TypeOK
<1>1. /\ \A r \in Sessions : r # s => /\ (r \in transports') <=> (r \in transports)
                                      /\ (r \in stats') <=> (r \in stats)
                                      /\ states'[r] = states[r]
      /\ states'[s] \in {states[s], "Unknown"}
  BY DEF RemovePart
<1>2. /\ RemoverAt(s, "removeStats") => s \notin transports
      /\ RemoverAt(s, "removeState") => s \notin transports /\ s \notin stats
      /\ s \in transports => s \in stats
      /\ s \in stats => states[s] # "Unknown"
      /\ s \in stats /\ s \notin transports => RemoverAt(s, "removeStats")
      /\ states[s] # "Unknown" /\ s \notin stats => RemoverAt(s, "removeState")
  BY DEF IInv, RemovingInv
<1>3. /\ RemoverAt(s, "removeStats")' => s \notin transports'
      /\ RemoverAt(s, "removeState")' => s \notin transports' /\ s \notin stats'
      /\ s \in transports' => s \in stats'
      /\ s \in stats' => states'[s] # "Unknown"
      /\ s \in stats' /\ s \notin transports' => RemoverAt(s, "removeStats")'
      /\ states'[s] # "Unknown" /\ s \notin stats' => RemoverAt(s, "removeState")'
  <2>1. CASE step = "removeTransport"
    <3>1. /\ s \notin transports' /\ stats' = stats /\ states' = states
          /\ RemovalAfter(step) = "removeStats"
      BY <2>1 DEF RemovePart, RemovalAfter
    <3> QED
      BY <1>2, <2>1, <3>1 DEF RemoveSteps
  <2>2. CASE step = "removeStats"
    <3>1. /\ transports' = transports /\ s \notin stats' /\ states' = states
          /\ RemovalAfter(step) = "removeState"
      BY <2>2 DEF RemovePart, RemovalAfter
    <3> QED
      BY <1>2, <2>2, <3>1 DEF RemoveSteps
  <2>3. CASE step = "removeState"
    <3>1. /\ transports' = transports /\ stats' = stats /\ states'[s] = "Unknown"
          /\ RemovalAfter(step) = "done"
      BY <2>3 DEF RemovePart, RemovalAfter
    <3> QED
      BY <1>2, <2>3, <3>1 DEF RemoveSteps
  <2> QED
    BY <2>1, <2>2, <2>3 DEF RemoveSteps
<1>4. ASSUME NEW r \in Sessions, r # s
      PROVE  /\ RemoverAt(r, "removeStats")' => r \notin transports'
             /\ RemoverAt(r, "removeState")' => r \notin transports' /\ r \notin stats'
             /\ ~Unregistered(r)' =>
                  /\ r \in transports' => r \in stats'
                  /\ r \in stats' => states'[r] # "Unknown"
                  /\ r \in stats' /\ r \notin transports' => RemoverAt(r, "removeStats")'
                  /\ states'[r] # "Unknown" /\ r \notin stats' => RemoverAt(r, "removeState")'
  BY <1>1, <1>4 DEF IInv, RemovingInv, RemoveSteps
<1>5. RemovingInv'
  BY <1>3, <1>4 DEF RemovingInv
<1> QED
  BY <1>1, <1>5

(* The steps of a session's handler.                                        *)
LEMMA HandlerPreserves ==
  ASSUME IInv, TypeOK', NEW s \in Sessions, HandlerStep(s) PROVE IInv'
<1> USE DEF registryVars, connVars, pathVars
<1>a. /\ handler \in [Sessions -> {"none", "spawned", "running", "ended"} \cup RemoveSteps]
      /\ emitted \in [Sessions -> Announcements]
  BY DEF IInv, TypeOK
<1>b. /\ UNCHANGED <<generator, listener, link, task>>
      /\ handler[s] # "none" /\ \A r \in Sessions : r # s => handler'[r] = handler[r]
  BY <1>a DEF HandlerStep, HandlerSubscribes, HandlerMessage, HandlerClosed,
              HandlerRemoves, HandlerLags, RemoveSteps
<1>c. ~Unregistered(s) /\ \A r \in Sessions : Unregistered(r)' <=> Unregistered(r)
  BY <1>b, RegisteredFacts DEF Unregistered, Registering
<1>d. ListenersInv' /\ TasksInv'
  BY <1>b DEF IInv, ListenersInv, TasksInv
\* A listener knows the session only after it has spawned the handler.
<1>e. ASSUME NEW l \in Listeners, listener[l].session = s
      PROVE  listener[l].step \notin {"setConnection", "addTransport", "addStats", "addState", "spawn"}
  BY <1>b, <1>c, <1>e DEF IInv, AddingInv, Unregistered, Registering
<1>1. ASSUME UNCHANGED <<transports, stats, states>>,
             handler[s] \notin RemoveSteps, handler'[s] \notin {"removeStats", "removeState"},
             \/ UNCHANGED emitted
             \/ \E event \in {"message", "closedByPeer"} : Emit(s, event)
      PROVE  IInv'
  <2>1. \A r \in Sessions : /\ Announced(r)' <=> Announced(r)
                            /\ AnnouncedOnce(r) => AnnouncedOnce(r)'
                            /\ r # s => emitted'[r] = emitted[r]
    <3>1. CASE UNCHANGED emitted
      BY <3>1 DEF Announced, AnnouncedOnce
    <3>2. ASSUME NEW event \in {"message", "closedByPeer"}, Emit(s, event)
          PROVE  \A r \in Sessions : /\ Announced(r)' <=> Announced(r)
                                     /\ AnnouncedOnce(r) => AnnouncedOnce(r)'
                                     /\ r # s => emitted'[r] = emitted[r]
      <4>1. TypeOK
        BY DEF IInv
      <4> QED
        BY <3>2, <4>1, EmitEffect DEF Announced, AnnouncedOnce, ClosedEvents
    <3> QED
      BY <1>1, <3>1, <3>2
  <2>2. UnregisteredInv'
    BY <1>1, <1>b, <1>c, <2>1 DEF IInv, UnregisteredInv
  <2>3. AddingInv'
    <3>1. ASSUME NEW l \in Listeners, listener[l].step = "spawn"
          PROVE  handler'[listener[l].session] = "none"
      <4>1. listener[l].session \in Sessions /\ listener[l].session # s
        BY <1>e, <3>1 DEF IInv, TypeOK, ListenersInv, ListenerStates
      <4> QED
        BY <1>b, <3>1, <4>1 DEF IInv, AddingInv
    <3> QED
      BY <1>1, <1>b, <3>1 DEF IInv, AddingInv
  <2>4. RemovingInv'
    <3>1. \A r \in Sessions, step \in {"removeStats", "removeState"} :
            RemoverAt(r, step)' <=> RemoverAt(r, step)
      BY <1>1, <1>b DEF RemoverAt, RemoveSteps
    <3> QED
      BY <1>1, <1>c, <3>1 DEF IInv, RemovingInv
  <2>5. ClosingInv' /\ ClosesOnce'
    <3>1. \A r \in Sessions : AnnouncedOnce(r)'
      BY <2>1 DEF IInv, ClosesOnce, AnnouncedOnce
    <3> QED
      BY <1>1, <1>b, <2>1, <3>1
      DEF IInv, ClosingInv, ClosesOnce, AnnouncedOnce, TasksInv, CloseSteps
  <2> QED
    BY <1>d, <2>2, <2>3, <2>4, <2>5 DEF IInv
<1>2. CASE HandlerRemoves(s)
  <2>1. /\ handler[s] \in RemoveSteps /\ RemovePart(handler[s], s) /\ UNCHANGED emitted
        /\ handler'[s] = IF RemovalAfter(handler[s]) = "done" THEN "running"
                         ELSE RemovalAfter(handler[s])
    BY <1>2, <1>a DEF HandlerRemoves
  <2>2. PICK step \in RemoveSteps : step = handler[s]
    BY <2>1
  <2>3. /\ step # "removeState" => handler'[s] = RemovalAfter(step)
        /\ step = "removeState" => handler'[s] = "running"
    BY <2>1, <2>2 DEF RemovalAfter, RemoveSteps
  <2>4. /\ RemoverAt(s, step)
        /\ step # "removeState" => RemoverAt(s, RemovalAfter(step))'
        /\ \A r \in Sessions, at \in RemoveSteps :
             r # s => (RemoverAt(r, at)' <=> RemoverAt(r, at))
    BY <1>b, <2>2, <2>3 DEF RemoverAt
  <2>5. \A at \in RemoveSteps :
          /\ RemoverAt(s, at)' => RemoverAt(s, at) \/ at = RemovalAfter(step)
          /\ RemoverAt(s, at) /\ at # step => RemoverAt(s, at)'
    BY <1>b, <2>2, <2>3 DEF RemoverAt, RemoveSteps
  <2>6. /\ RemovingInv'
        /\ \A r \in Sessions : r # s => /\ (r \in transports') <=> (r \in transports)
                                        /\ (r \in stats') <=> (r \in stats)
                                        /\ states'[r] = states[r]
        /\ states'[s] \in {states[s], "Unknown"}
    BY <1>c, <2>1, <2>2, <2>4, <2>5, RemovalPreserves
  <2>7. UnregisteredInv'
    BY <1>b, <1>c, <2>1, <2>6 DEF IInv, UnregisteredInv
  <2>8. AddingInv'
    <3>1. \A r \in Sessions : r >= generator' => r \notin transports' /\ r \notin stats'
      BY <1>b, <1>c, <2>6 DEF IInv, AddingInv, Unregistered
    <3>2. ASSUME NEW l \in Listeners,
                 listener[l].step \in {"setConnection", "addTransport", "addStats", "addState", "spawn"}
          PROVE  listener[l].session \in Sessions /\ listener[l].session # s
      BY <1>e, <3>2 DEF IInv, TypeOK, ListenersInv, ListenerStates
    <3> QED
      BY <1>b, <2>6, <3>1, <3>2 DEF IInv, AddingInv
  <2>9. ClosingInv' /\ ClosesOnce'
    BY <1>b, <2>1, <2>6 DEF IInv, ClosingInv, ClosesOnce, Announced
  <2> QED
    BY <1>d, <2>6, <2>7, <2>8, <2>9 DEF IInv
<1>3. CASE HandlerSubscribes(s) \/ HandlerLags(s)
  <2>1. /\ UNCHANGED <<transports, stats, states, emitted>>
        /\ handler[s] \in {"spawned", "running"} /\ handler'[s] \in {"running", "ended"}
    BY <1>3, <1>a DEF HandlerSubscribes, HandlerLags
  <2> QED
    BY <1>1, <2>1 DEF RemoveSteps
<1>4. CASE HandlerMessage(s) \/ HandlerClosed(s)
  <2>1. /\ UNCHANGED <<transports, stats, states>>
        /\ handler[s] = "running" /\ handler'[s] \in {"running", "removeTransport"}
        /\ \E event \in {"message", "closedByPeer"} : Emit(s, event)
    BY <1>4, <1>a DEF HandlerMessage, HandlerClosed
  <2> QED
    BY <1>1, <2>1 DEF RemoveSteps
<1> QED
  BY <1>2, <1>3, <1>4 DEF HandlerStep

(* A task step that does not enter or leave remove_session, and leaves      *)
(* alone every session that is not registered.                              *)
LEMMA TaskPreserves ==
  ASSUME IInv, TypeOK', NEW t \in Tasks,
         UNCHANGED <<generator, listener, transports, stats, handler>>,
         \A u \in Tasks : u # t => task'[u] = task[u],
         task[t].step \notin {"removeStats", "removeState"},
         task'[t].step \notin {"removeStats", "removeState"},
         \A r \in Sessions : (states'[r] = "Unknown") <=> (states[r] = "Unknown"),
         \A r \in Sessions : Unregistered(r) =>
           /\ emitted'[r] = emitted[r] /\ link'[r] = link[r]
           /\ task'[t].session = r => task'[t].step = "try",
         task'[t].step \in {"try"} \cup CloseSteps \cup RemoveSteps => task'[t].session \in Sessions,
         ClosingInv', ClosesOnce'
  PROVE  IInv'
<1>1. \A r \in Sessions : Unregistered(r)' <=> Unregistered(r)
  BY DEF Unregistered, Registering
<1>2. ListenersInv' /\ TasksInv'
  BY DEF IInv, ListenersInv, TasksInv
<1>3. UnregisteredInv'
  <2> SUFFICES ASSUME NEW r \in Sessions, Unregistered(r)
               PROVE  /\ states'[r] = "Unknown" /\ handler'[r] = "none" /\ emitted'[r] = <<>>
                      /\ \A u \in Tasks : task'[u].session = r => task'[u].step = "try"
                      /\ r \in transports' => link'[r]
    BY <1>1 DEF UnregisteredInv
  <2> QED
    BY DEF IInv, UnregisteredInv
<1>4. AddingInv'
  <2>1. ASSUME NEW l \in Listeners, listener[l].step = "addTransport"
        PROVE  link'[listener[l].session]
    <3>1. listener[l].session \in Sessions /\ Unregistered(listener[l].session)
      BY <2>1 DEF IInv, TypeOK, ListenersInv, ListenerStates, Unregistered, Registering
    <3> QED
      BY <2>1, <3>1 DEF IInv, AddingInv
  <2> QED
    BY <2>1 DEF IInv, AddingInv
<1>5. RemovingInv'
  <2>1. \A r \in Sessions, step \in {"removeStats", "removeState"} :
          RemoverAt(r, step)' <=> RemoverAt(r, step)
    BY DEF RemoverAt
  <2> QED
    BY <1>1, <2>1 DEF IInv, RemovingInv
<1> QED
  BY <1>2, <1>3, <1>4, <1>5 DEF IInv

(* Only try_start_closing makes a closer, and only the one that announces   *)
(* a close uses that up.                                                    *)
LEMMA CloserStays ==
  ASSUME IInv, NEW t \in Tasks, UNCHANGED emitted,
         \A u \in Tasks : u # t => task'[u] = task[u],
         \A r \in Sessions : states'[r] = "Connected" => states[r] = "Connected",
         task'[t].step # "emit",
         task'[t].step \in CloseSteps =>
           task[t].step \in CloseSteps /\ task'[t].session = task[t].session
  PROVE  ClosingInv' /\ ClosesOnce'
<1>1. ClosingInv'
  BY DEF IInv, ClosingInv, Announced
<1>2. ClosesOnce'
  BY DEF IInv, ClosesOnce
<1> QED
  BY <1>1, <1>2

(* The steps of the tasks before and after try_start_closing.               *)
LEMMA RequestPreserves ==
  ASSUME IInv, TypeOK', NEW t \in Tasks,
         \/ \E s \in Sessions : SendToClosed(t, s)
         \/ \E s \in Sessions, forced \in BOOLEAN : CloseSession(t, s, forced)
         \/ CloseAllSessions(t) \/ NextSession(t) \/ Cancel(t)
  PROVE  IInv'
<1> USE DEF registryVars, connVars, pathVars
<1>a. task \in [Tasks -> TaskStates] /\ transports \subseteq Sessions
  BY DEF IInv, TypeOK
<1>1. ASSUME UNCHANGED <<generator, listener, transports, stats, states, handler, link, emitted>>,
             \A u \in Tasks : u # t => task'[u] = task[u],
             task[t].step \notin RemoveSteps,
             \/ task'[t].step \in {"idle", "next"} /\ task'[t].session = NoSession
             \/ task'[t].step = "try" /\ task'[t].session \in Sessions
             \/ /\ task'[t].step = "removeTransport" /\ task'[t].session \in Sessions
                /\ ~Unregistered(task'[t].session)
      PROVE  IInv'
  <2>1. ClosingInv' /\ ClosesOnce'
    BY <1>1, CloserStays DEF CloseSteps
  <2>2. NoSession \notin Sessions
    BY TransportServerAssumption DEF NoSession, Sessions
  <2>3. /\ task'[t].step \notin {"removeStats", "removeState"}
        /\ task[t].step \notin {"removeStats", "removeState"}
        /\ task'[t].step \in {"try"} \cup CloseSteps \cup RemoveSteps => task'[t].session \in Sessions
        /\ \A r \in Sessions : Unregistered(r) /\ task'[t].session = r => task'[t].step = "try"
    BY <1>1, <2>2 DEF CloseSteps, RemoveSteps
  <2> QED
    BY <1>1, <2>1, <2>3, TaskPreserves
<1>2. ASSUME NEW s \in Sessions, SendToClosed(t, s) PROVE IInv'
  <2>1. /\ UNCHANGED <<generator, listener, transports, stats, states, handler, link, emitted>>
        /\ task[t].step = "idle" /\ s \in transports /\ ~link[s]
    BY <1>2 DEF SendToClosed
  <2>2. ~Unregistered(s)
    BY <2>1 DEF IInv, UnregisteredInv
  <2> QED
    BY <1>1, <1>2, <1>a, <2>1, <2>2, SendToClosedEffect DEF RemoveSteps
<1>3. ASSUME NEW s \in Sessions, NEW forced \in BOOLEAN, CloseSession(t, s, forced)
      PROVE  IInv'
  <2>1. /\ UNCHANGED <<generator, listener, transports, stats, states, handler, link, emitted>>
        /\ task[t].step = "idle"
    BY <1>3 DEF CloseSession
  <2> QED
    BY <1>1, <1>3, <1>a, <2>1, CloseSessionEffect DEF RemoveSteps
<1>4. CASE CloseAllSessions(t) \/ NextSession(t) \/ Cancel(t)
  <2>1. /\ UNCHANGED <<generator, listener, transports, stats, states, handler, link, emitted>>
        /\ task[t].step \in {"idle", "next", "join"}
    BY <1>4 DEF CloseAllSessions, NextSession, Cancel
  <2> QED
    BY <1>1, <1>4, <1>a, <2>1, CloseAllSessionsEffect, NextSessionEffect, CancelEffect
    DEF RemoveSteps
<1> QED
  BY <1>2, <1>3, <1>4

(* The steps of a close, up to remove_session.                              *)
LEMMA ClosePreserves ==
  ASSUME IInv, TypeOK', NEW t \in Tasks,
         \/ TryStartClosing(t) \/ EmitClosed(t) \/ Disconnect(t) \/ Joined(t)
         \/ CloseTimeout(t) \/ MarkClosed(t)
  PROVE  IInv'
<1> USE DEF registryVars, connVars, pathVars
<1>a. /\ task \in [Tasks -> TaskStates] /\ link \in [Sessions -> BOOLEAN]
      /\ states \in [Sessions -> {"Unknown", "Connected", "Closing", "Closed"}]
  BY DEF IInv, TypeOK
<1>b. PICK s : s = task[t].session
  OBVIOUS
<1>c. s \in Sessions /\ NoSession \notin Sessions
  BY <1>b, TransportServerAssumption
  DEF IInv, TasksInv, CloseSteps, RemoveSteps, NoSession, Sessions,
      TryStartClosing, EmitClosed, Disconnect, Joined, CloseTimeout, MarkClosed
<1>d. /\ UNCHANGED <<generator, listener, transports, stats, handler>>
      /\ task[t].step \in {"try"} \cup CloseSteps
  BY DEF TryStartClosing, EmitClosed, Disconnect, Joined, CloseTimeout, MarkClosed, CloseSteps
\* Every step but try_start_closing finds the session registered.
<1>1. ASSUME task[t].step # "try",
             \A u \in Tasks : u # t => task'[u] = task[u],
             task'[t].session = s, task'[t].step \in CloseSteps \cup {"removeTransport"},
             \A r \in Sessions : (states'[r] = "Unknown") <=> (states[r] = "Unknown"),
             \A r \in Sessions : r # s => emitted'[r] = emitted[r] /\ link'[r] = link[r],
             ClosingInv', ClosesOnce'
      PROVE  IInv'
  <2>1. ~Unregistered(s)
    BY <1>1, <1>b, <1>c, RegisteredFacts
  <2>2. /\ task'[t].step \notin {"removeStats", "removeState"}
        /\ task[t].step \notin {"removeStats", "removeState"}
    BY <1>1, <1>d DEF CloseSteps
  <2> QED
    BY <1>1, <1>c, <1>d, <2>1, <2>2, TaskPreserves
<1>2. CASE TryStartClosing(t)
  <2>1. task[t].step = "try" /\ UNCHANGED <<link, emitted>>
    BY <1>2 DEF TryStartClosing
  <2>2. CASE states[s] = "Connected"
    <3>1. /\ task'[t].step = "emit" /\ task'[t].session = s
          /\ \A u \in Tasks : u # t => task'[u] = task[u]
      BY <1>2, <1>a, <1>b, <2>2, TaskGotoEffect DEF TryStartClosing, CloseSteps
    <3>2. states'[s] = "Closing" /\ \A r \in Sessions : r # s => states'[r] = states[r]
      BY <1>2, <1>a, <1>b, <1>c, <2>2 DEF TryStartClosing
    <3>3. ~Unregistered(s)
      BY <1>c, <2>2, RegisteredFacts
    <3>4. /\ ~Announced(s)
          /\ \A u \in Tasks : task[u].session = s => task[u].step \notin CloseSteps
      BY <1>c, <2>2 DEF IInv, ClosingInv
    <3>5. ClosingInv'
      BY <1>c, <2>1, <3>1, <3>2, <3>4 DEF IInv, ClosingInv, Announced
    <3>6. ClosesOnce'
      BY <1>c, <2>1, <3>1, <3>4 DEF IInv, ClosesOnce
    <3>7. \A r \in Sessions : Unregistered(r) => ~(task'[t].session = r)
      BY <3>1, <3>3
    <3> QED
      BY <1>c, <1>d, <2>1, <2>2, <3>1, <3>2, <3>5, <3>6, <3>7, TaskPreserves
  <2>3. CASE states[s] # "Connected"
    <3>1. /\ task'[t].step \in {"idle", "next"} /\ task'[t].session = NoSession
          /\ \A u \in Tasks : u # t => task'[u] = task[u]
          /\ UNCHANGED states
      BY <1>2, <1>a, <1>b, <2>3, CloseDoneEffect DEF TryStartClosing
    <3>2. ClosingInv' /\ ClosesOnce'
      BY <2>1, <3>1, CloserStays DEF CloseSteps
    <3> QED
      BY <1>c, <1>d, <2>1, <3>1, <3>2, TaskPreserves DEF CloseSteps, RemoveSteps
  <2> QED
    BY <2>2, <2>3
<1>3. CASE EmitClosed(t)
  <2>1. /\ task[t].step = "emit" /\ UNCHANGED <<states, link>> /\ Emit(s, "closedByServer")
        /\ task'[t].step = "disconnect" /\ task'[t].session = s
        /\ \A u \in Tasks : u # t => task'[u] = task[u]
    BY <1>3, <1>a, <1>b, TaskGotoEffect DEF EmitClosed, CloseSteps
  <2>2. ~Announced(s)
    BY <1>b, <2>1 DEF IInv, ClosingInv
  <2>3. /\ AnnouncedOnce(s) => AnnouncedOnce(s)'
        /\ \A r \in Sessions : r # s => emitted'[r] = emitted[r]
    <3>1. TypeOK
      BY DEF IInv
    <3> QED
      BY <1>c, <2>1, <2>2, <3>1, EmitEffect
  <2>4. states[s] # "Connected"
    BY <1>b, <1>c, <2>1 DEF IInv, ClosingInv, CloseSteps
  <2>5. \A u \in Tasks : u # t /\ task[u].step \in CloseSteps => task[u].session # s
    BY <1>b, <2>1 DEF IInv, ClosesOnce, CloseSteps
  <2>6. ClosingInv'
    <3>1. \A r \in Sessions : r # s => (Announced(r)' <=> Announced(r))
      BY <2>3 DEF Announced
    <3>2. ASSUME NEW r \in Sessions, states'[r] = "Connected"
          PROVE  /\ ~Announced(r)'
                 /\ \A u \in Tasks : task'[u].session = r => task'[u].step \notin CloseSteps
      BY <2>1, <2>4, <3>1, <3>2 DEF IInv, ClosingInv
    <3>3. ASSUME NEW u \in Tasks, task'[u].step = "emit"
          PROVE  ~Announced(task[u].session)' /\ task'[u] = task[u]
      <4>1. u # t /\ task'[u] = task[u] /\ task[u].session \in Sessions /\ task[u].session # s
        BY <2>1, <2>5, <3>3 DEF IInv, TasksInv, CloseSteps
      <4>2. emitted'[task[u].session] = emitted[task[u].session]
        BY <2>3, <4>1
      <4> QED
        BY <3>3, <4>1, <4>2 DEF IInv, ClosingInv, Announced
    <3> QED
      BY <3>2, <3>3 DEF ClosingInv, Announced
  <2>7. ClosesOnce'
    <3>1. \A r \in Sessions : AnnouncedOnce(r)'
      BY <2>3, <1>c DEF IInv, ClosesOnce, AnnouncedOnce
    <3>2. \A u \in Tasks : /\ task'[u].session = task[u].session
                           /\ task'[u].step \in CloseSteps => task[u].step \in CloseSteps
      BY <2>1, <1>b DEF CloseSteps
    <3> QED
      BY <3>1, <3>2 DEF IInv, ClosesOnce, AnnouncedOnce
  <2> QED
    BY <1>1, <2>1, <2>3, <2>6, <2>7 DEF CloseSteps
<1>4. CASE Disconnect(t) \/ Joined(t) \/ CloseTimeout(t)
  <2>1. /\ task[t].step \in {"disconnect", "join"} /\ UNCHANGED <<states, emitted>>
        /\ \A r \in Sessions : r # s => link'[r] = link[r]
    BY <1>4, <1>a, <1>b DEF Disconnect, Joined, CloseTimeout
  <2>2. /\ task'[t].step \in {"join", "mark"} /\ task'[t].session = s
        /\ \A u \in Tasks : u # t => task'[u] = task[u]
    BY <1>4, <1>a, <1>b, TaskGotoEffect DEF Disconnect, Joined, CloseTimeout, CloseSteps
  <2>3. ClosingInv' /\ ClosesOnce'
    BY <1>b, <2>1, <2>2, CloserStays DEF CloseSteps
  <2> QED
    BY <1>1, <2>1, <2>2, <2>3 DEF CloseSteps
<1>5. CASE MarkClosed(t)
  <2>1. /\ task[t].step = "mark" /\ UNCHANGED <<link, emitted>>
        /\ \A r \in Sessions : r # s => states'[r] = states[r]
        /\ states'[s] = IF states[s] = "Unknown" THEN "Unknown" ELSE "Closed"
    BY <1>5, <1>a, <1>b, <1>c DEF MarkClosed
  <2>2. /\ task'[t].step = "removeTransport" /\ task'[t].session = s
        /\ \A u \in Tasks : u # t => task'[u] = task[u]
    BY <1>5, <1>a, <1>b, TaskGotoEffect DEF MarkClosed, RemoveSteps
  <2>3. \A r \in Sessions :
          /\ states'[r] = "Connected" => states[r] = "Connected"
          /\ (states'[r] = "Unknown") <=> (states[r] = "Unknown")
    BY <2>1
  <2>4. ClosingInv' /\ ClosesOnce'
    BY <1>b, <2>1, <2>2, <2>3, CloserStays DEF CloseSteps
  <2> QED
    BY <1>1, <2>1, <2>2, <2>3, <2>4 DEF CloseSteps
<1> QED
  BY <1>2, <1>3, <1>4, <1>5

(* The steps of a task in remove_session.                                   *)
LEMMA TaskRemovesPreserves ==
  ASSUME IInv, TypeOK', NEW t \in Tasks, TaskRemoves(t) PROVE IInv'
<1> USE DEF registryVars, connVars, pathVars
<1>a. task \in [Tasks -> TaskStates]
  BY DEF IInv, TypeOK
<1>0. PICK s : s = task[t].session
  OBVIOUS
<1>b. PICK step \in RemoveSteps : s = task[t].session /\ step = task[t].step
  BY <1>0 DEF TaskRemoves
<1>c. s \in Sessions /\ NoSession \notin Sessions
  BY <1>b, TransportServerAssumption DEF IInv, TasksInv, NoSession, Sessions
<1>d. /\ UNCHANGED <<generator, listener, handler, link, emitted>> /\ RemovePart(step, s)
  BY <1>b DEF TaskRemoves
<1>e. /\ step # "removeState" => task'[t].session = s /\ task'[t].step = RemovalAfter(step)
      /\ step = "removeState" => task'[t].session = NoSession /\ task'[t].step \in {"idle", "next"}
      /\ \A u \in Tasks : u # t => task'[u] = task[u]
  <2>1. CASE step = "removeState"
    BY <1>a, <1>b, <2>1, CloseDoneEffect DEF TaskRemoves
  <2>2. CASE step # "removeState"
    <3>1. RemovalAfter(step) \in RemoveSteps
      BY <2>2 DEF RemovalAfter, RemoveSteps
    <3> QED
      BY <1>a, <1>b, <2>2, <3>1, TaskGotoEffect DEF TaskRemoves
  <2> QED
    BY <2>1, <2>2
<1>1. ~Unregistered(s) /\ \A r \in Sessions : Unregistered(r)' <=> Unregistered(r)
  BY <1>b, <1>c, <1>d, RegisteredFacts DEF Unregistered, Registering, RemoveSteps
<1>2. ListenersInv' /\ TasksInv'
  BY <1>c, <1>d, <1>e DEF IInv, ListenersInv, TasksInv, CloseSteps, RemoveSteps
<1>3. /\ RemoverAt(s, step)
      /\ step # "removeState" => RemoverAt(s, RemovalAfter(step))'
      /\ \A r \in Sessions, at \in RemoveSteps :
           r # s => (RemoverAt(r, at)' <=> RemoverAt(r, at))
  BY <1>b, <1>c, <1>d, <1>e DEF RemoverAt
<1>4. ASSUME NEW at \in RemoveSteps
      PROVE  /\ RemoverAt(s, at)' => RemoverAt(s, at) \/ at = RemovalAfter(step)
             /\ RemoverAt(s, at) /\ at # step => RemoverAt(s, at)'
  BY <1>b, <1>c, <1>d, <1>e DEF RemoverAt
<1>5. /\ RemovingInv'
      /\ \A r \in Sessions : r # s => /\ (r \in transports') <=> (r \in transports)
                                      /\ (r \in stats') <=> (r \in stats)
                                      /\ states'[r] = states[r]
      /\ states'[s] \in {states[s], "Unknown"}
  BY <1>1, <1>c, <1>d, <1>3, <1>4, RemovalPreserves
<1>6. UnregisteredInv'
  <2>1. ASSUME NEW r \in Sessions, Unregistered(r), NEW u \in Tasks, task'[u].session = r
        PROVE  task'[u].step = "try"
    <3>1. u # t
      BY <1>1, <1>c, <1>e, <2>1
    <3> QED
      BY <1>e, <2>1, <3>1 DEF IInv, UnregisteredInv
  <2>2. ASSUME NEW r \in Sessions, Unregistered(r)
        PROVE  /\ states'[r] = "Unknown" /\ handler'[r] = "none" /\ emitted'[r] = <<>>
               /\ r \in transports' => link'[r]
    BY <1>1, <1>d, <1>5, <2>2 DEF IInv, UnregisteredInv
  <2> QED
    BY <1>1, <2>1, <2>2 DEF UnregisteredInv
<1>7. AddingInv'
  <2>1. \A r \in Sessions : r >= generator' => r \notin transports' /\ r \notin stats'
    BY <1>d, <1>1, <1>5 DEF IInv, AddingInv, Unregistered
  <2>2. ASSUME NEW l \in Listeners,
               listener[l].step \in {"setConnection", "addTransport", "addStats", "addState"}
        PROVE  listener[l].session \in Sessions /\ listener[l].session # s
    BY <1>1, <2>2
    DEF IInv, TypeOK, ListenersInv, ListenerStates, Unregistered, Registering
  <2> QED
    BY <1>d, <1>5, <2>1, <2>2 DEF IInv, AddingInv
<1>8. ClosingInv' /\ ClosesOnce'
  <2>1. \A r \in Sessions : states'[r] = "Connected" => states[r] = "Connected"
    BY <1>5
  <2>2. task'[t].step \notin CloseSteps
    BY <1>e DEF CloseSteps, RemovalAfter, RemoveSteps
  <2> QED
    BY <1>d, <1>e, <2>1, <2>2, CloserStays DEF CloseSteps
<1> QED
  BY <1>2, <1>5, <1>6, <1>7, <1>8 DEF IInv

LEMMA IInvStep == IInv /\ [Next]_vars => IInv'
<1> SUFFICES ASSUME IInv, [Next]_vars PROVE IInv'
  OBVIOUS
<1>1. TypeOK'
  BY TypeStep DEF IInv, TypeInv
<1>2. CASE UNCHANGED vars
  BY <1>1, <1>2, QuietPreserves DEF vars, registryVars, connVars, pathVars
<1>3. ASSUME NEW s \in Sessions, LoopStep(s) \/ ReaderStep(s) PROVE IInv'
  BY <1>1, <1>3, QuietPreserves
  DEF LoopStep, LoopReceives, LoopWrites, LoopWritten, LoopFails, LoopShutdown,
      ReaderStep, ReaderSubscribes, ReaderForwards, ReaderLags,
      registryVars, connVars, pathVars
<1>4. ASSUME NEW t \in Tasks, CloseStep(t) PROVE IInv'
  BY <1>1, <1>4, RequestPreserves, ClosePreserves, TaskRemovesPreserves DEF CloseStep
<1> QED
  BY <1>1, <1>2, <1>3, <1>4, ListenerPreserves, HandlerPreserves, RequestPreserves DEF Next

THEOREM Invariance == Spec => []IInv
  BY IInvInit, IInvStep, PTL DEF Spec

-----------------------------------------------------------------------------
(* What the runs check, for every value of the constants                   *)

(* The state of the server always has its types.                            *)
THEOREM TypeCorrect == Spec => []TypeOK
<1>1. IInv => TypeOK
  BY DEF IInv
<1> QED
  BY Invariance, <1>1, PTL

(* Whatever adds and removes sessions at the same time, the three maps of   *)
(* the registry agree about every session that nobody is working on.        *)
THEOREM MapsAgreeTheorem == Spec => []MapsAgree
<1>1. ASSUME IInv PROVE MapsAgree
  <2> SUFFICES ASSUME NEW s \in Sessions, ~Adding(s), ~Removing(s)
               PROVE  /\ s \in transports <=> s \in stats
                      /\ s \in transports <=> states[s] # "Unknown"
    BY DEF MapsAgree
  <2>1. ~RemoverAt(s, "removeStats") /\ ~RemoverAt(s, "removeState")
    BY DEF Removing, RemoverAt, RemoveSteps
  <2>2. CASE Unregistered(s)
    <3>1. s >= generator
      BY <2>2 DEF Unregistered, Registering, Adding
    <3> QED
      BY <1>1, <2>2, <3>1 DEF IInv, AddingInv, UnregisteredInv
  <2>3. CASE ~Unregistered(s)
    BY <1>1, <2>1, <2>3 DEF IInv, RemovingInv
  <2> QED
    BY <2>2, <2>3
<1> QED
  BY Invariance, <1>1, PTL

(* At most one call closes a session, and it is announced at most once.     *)
THEOREM ClosesOnceTheorem == Spec => []ClosesOnce
<1>1. IInv => ClosesOnce
  BY DEF IInv
<1> QED
  BY Invariance, <1>1, PTL

(* Once an event about a session was sent, it is never registered again.    *)
THEOREM NoLateRegistrationTheorem == Spec => NoLateRegistration
<1>1. ASSUME IInv, [Next]_vars
      PROVE  [\A s \in Sessions : s \in transports' \ transports => emitted[s] = <<>>]_vars
  <2> SUFFICES ASSUME NEW s \in Sessions, s \in transports' \ transports
               PROVE  emitted[s] = <<>>
    BY DEF vars
  <2>1. PICK l \in Listeners : AddTransport(l)
    <3> USE DEF registryVars, connVars, pathVars
    <3>1. ASSUME NEW l \in Listeners, Accept(l) \/ AddStep(l)
          PROVE  AddTransport(l) \/ transports' = transports
      BY <3>1 DEF Accept, AddStep, SetConnection, AddStats, AddState, SpawnHandler, Establish
    <3>2. ASSUME NEW r \in Sessions, LoopStep(r) \/ ReaderStep(r) PROVE transports' = transports
      BY <3>2 DEF LoopStep, LoopReceives, LoopWrites, LoopWritten, LoopFails, LoopShutdown,
                  ReaderStep, ReaderSubscribes, ReaderForwards, ReaderLags
    <3>3. ASSUME NEW r \in Sessions, HandlerStep(r) PROVE transports' \subseteq transports
      BY <3>3 DEF HandlerStep, HandlerSubscribes, HandlerMessage, HandlerClosed, HandlerRemoves,
                  HandlerLags, RemovePart
    <3>4. ASSUME NEW t \in Tasks, NEW r \in Sessions, NEW forced \in BOOLEAN,
                 SendToClosed(t, r) \/ CloseSession(t, r, forced)
          PROVE  transports' = transports
      BY <3>4 DEF SendToClosed, CloseSession
    <3>5. ASSUME NEW t \in Tasks, CloseAllSessions(t) \/ CloseStep(t) \/ Cancel(t)
          PROVE  transports' \subseteq transports
      BY <3>5 DEF CloseAllSessions, CloseStep, NextSession, TryStartClosing, EmitClosed, Disconnect,
                  Joined, CloseTimeout, MarkClosed, TaskRemoves, Cancel, RemovePart
    <3>6. UNCHANGED vars => transports' = transports
      BY DEF vars
    <3> QED
      BY <1>1, <3>1, <3>2, <3>3, <3>4, <3>5, <3>6 DEF Next
  <2>2. listener[l].session = s /\ Registering(s)
    BY <2>1 DEF AddTransport, Registering
  <2> QED
    BY <1>1, <2>2 DEF IInv, UnregisteredInv, Unregistered
<1> QED
  BY Invariance, <1>1, PTL DEF Spec, NoLateRegistration

=============================================================================
