-------------------------------- MODULE Actor --------------------------------
(***************************************************************************)
(* An OptimizedActor (src/src/transport/actor.rs): four tasks between the  *)
(* application and one protocol adapter.  The command adapter answers the  *)
(* application's commands and passes them on, the command pipeline moves   *)
(* packets to the data channel, the data pipeline sends them in batches    *)
(* under the adapter's lock, and the receive pipeline only watches for the *)
(* end of the connection.                                                  *)
(*                                                                         *)
(* run_dual_pipeline keeps one end of each internal channel until all four *)
(* tasks are done, so no task learns from its channel that another ended.  *)
(***************************************************************************)
EXTENDS Naturals, SequencesExt

CONSTANTS
  MaxPackets,    \* bound: packets the application hands over
  MaxCommands,   \* bound: commands that carry no packet
  max_batch_size

VARIABLES
  commands,      \* channel of TransportCommands
  internal,      \* channel of ActorCommands
  data,          \* channel of packets
  batch,         \* packets the data pipeline has collected
  batch_size,    \* how many they were at first
  tasks,         \* state of the four tasks
  application,   \* whether the application still holds the command sender
  via,           \* per packet, whether it came as a command or over the data channel
  others,        \* commands without packet so far
  answer,        \* of each packet sent as a command
  connected,     \* the adapter's is_connected
  sent,          \* packets the adapter took
  failed,        \* packets it refused, with an error event
  closed,        \* ConnectionClosed events of the actor
  stats

channels == <<commands, internal, data>>
app == <<application, via, others>>
vars == <<channels, batch, batch_size, tasks, app, answer, connected, sent, failed, closed, stats>>

Packets == 1..MaxPackets
Tasks == {"command_adapter", "command_pipeline", "data_pipeline", "receive_pipeline"}
Send(p) == [kind |-> "send", packet |-> p]
Close == [kind |-> "close"]
Query == [kind |-> "query"]
SendPacket(p) == [kind |-> "packet", packet |-> p]
Shutdown == [kind |-> "shutdown"]

TypeOK ==
  /\ \A i \in DOMAIN data : data[i] \in Packets
  /\ Len(batch) <= max_batch_size
  /\ tasks \in [Tasks -> {"running", "ended"}] /\ application \in BOOLEAN
  /\ via \in Seq({"command", "data"}) /\ Len(via) <= MaxPackets
  /\ answer \in [Packets -> {"none", "ok", "error"}]
  /\ connected \in BOOLEAN /\ closed \in 0..1
  /\ sent \in Seq(Packets) /\ failed \subseteq Packets

Init ==
  /\ commands = <<>> /\ internal = <<>> /\ data = <<>> /\ batch = <<>> /\ batch_size = 0
  /\ tasks = [t \in Tasks |-> "running"]
  /\ application = TRUE /\ via = <<>> /\ others = 0
  /\ answer = [p \in Packets |-> "none"]
  /\ connected = TRUE /\ sent = <<>> /\ failed = {} /\ closed = 0
  /\ stats = [packets_sent |-> 0, error_count |-> 0, total_batch_packets |-> 0]

Running(t) == tasks[t] = "running"
End(t) == tasks' = [tasks EXCEPT ![t] = "ended"]
Joined == \A t \in Tasks : ~Running(t)

-----------------------------------------------------------------------------
(* The application                                                         *)

\* The channel takes commands as long as the command adapter runs.
Submit ==
  /\ application /\ Running("command_adapter") /\ Len(via) < MaxPackets
  /\ via' = Append(via, "command")
  /\ commands' = Append(commands, Send(Len(via) + 1))
  /\ UNCHANGED <<internal, data, batch, batch_size, tasks, application, others, answer, connected, sent, failed, closed, stats>>

SubmitOther ==
  /\ application /\ Running("command_adapter") /\ others < MaxCommands
  /\ others' = others + 1
  /\ \E c \in {Close, Query} : commands' = Append(commands, c)
  /\ UNCHANGED <<internal, data, batch, batch_size, tasks, application, via, answer, connected, sent, failed, closed, stats>>

\* The data channel takes packets until the actor returns.
Push ==
  /\ ~Joined /\ Len(via) < MaxPackets
  /\ via' = Append(via, "data")
  /\ data' = Append(data, Len(via) + 1)
  /\ UNCHANGED <<commands, internal, batch, batch_size, tasks, application, others, answer, connected, sent, failed, closed, stats>>

DropSender ==
  /\ application /\ application' = FALSE
  /\ UNCHANGED <<channels, batch, batch_size, tasks, via, others, answer, connected, sent, failed, closed, stats>>

\* The peer closes the connection, or the adapter is closed elsewhere.
ConnectionEnds ==
  /\ connected /\ connected' = FALSE
  /\ UNCHANGED <<channels, batch, batch_size, tasks, app, answer, sent, failed, closed, stats>>

-----------------------------------------------------------------------------
(* The command adapter                                                     *)

\* A query, and a command for another session, are only answered.
Forward ==
  /\ Running("command_adapter") /\ commands # <<>>
  /\ LET c == Head(commands) IN
       /\ commands' = Tail(commands)
       /\ CASE c.kind = "send" /\ Running("command_pipeline") ->
                 /\ internal' = Append(internal, SendPacket(c.packet))
                 /\ answer' = [answer EXCEPT ![c.packet] = "ok"]
                 /\ UNCHANGED tasks
            [] c.kind = "send" /\ ~Running("command_pipeline") ->
                 /\ answer' = [answer EXCEPT ![c.packet] = "error"]
                 /\ End("command_adapter") /\ UNCHANGED internal
            [] c.kind = "close" ->
                 /\ internal' = IF Running("command_pipeline")
                                THEN Append(internal, Shutdown) ELSE internal
                 /\ End("command_adapter") /\ UNCHANGED answer
            [] OTHER -> UNCHANGED <<internal, answer, tasks>>
  /\ UNCHANGED <<data, batch, batch_size, app, connected, sent, failed, closed, stats>>

CommandsEnd ==
  /\ Running("command_adapter") /\ commands = <<>> /\ ~application
  /\ End("command_adapter")
  /\ UNCHANGED <<channels, batch, batch_size, app, answer, connected, sent, failed, closed, stats>>

-----------------------------------------------------------------------------
(* The command pipeline                                                    *)

ForwardPacket ==
  /\ Running("command_pipeline") /\ internal # <<>> /\ Head(internal).kind = "packet"
  /\ internal' = Tail(internal)
  /\ data' = Append(data, Head(internal).packet)
  /\ UNCHANGED <<commands, batch, batch_size, tasks, app, answer, connected, sent, failed, closed, stats>>

\* Mutant: the data pipeline is stopped too, whatever it still has to send.
StopBoth ==
  /\ Running("command_pipeline") /\ internal # <<>> /\ Head(internal).kind = "shutdown"
  /\ internal' = Tail(internal) /\ closed' = closed + 1
  /\ tasks' = [tasks EXCEPT !["command_pipeline"] = "ended", !["data_pipeline"] = "ended"]
  /\ UNCHANGED <<commands, data, batch, batch_size, app, answer, connected, sent, failed, stats>>

\* Shutdown announces the end of the connection; the adapter is not closed.
Stop ==
  /\ Running("command_pipeline") /\ internal # <<>> /\ Head(internal).kind = "shutdown"
  /\ internal' = Tail(internal) /\ closed' = closed + 1
  /\ End("command_pipeline")
  /\ UNCHANGED <<commands, data, batch, batch_size, app, answer, connected, sent, failed, stats>>

-----------------------------------------------------------------------------
(* The data pipeline                                                       *)

\* Mutant: one packet more than fits.
CollectOneMore ==
  /\ Running("data_pipeline") /\ batch = <<>> /\ data # <<>>
  /\ \E n \in 1..(max_batch_size + 1) :
       /\ n <= Len(data)
       /\ batch' = SubSeq(data, 1, n) /\ data' = SubSeq(data, n + 1, Len(data))
       /\ batch_size' = n
  /\ UNCHANGED <<commands, internal, tasks, app, answer, connected, sent, failed, closed, stats>>

\* One packet, and more that are there already.
Collect ==
  /\ Running("data_pipeline") /\ batch = <<>> /\ data # <<>>
  /\ \E n \in 1..max_batch_size :
       /\ n <= Len(data)
       /\ batch' = SubSeq(data, 1, n) /\ data' = SubSeq(data, n + 1, Len(data))
       /\ batch_size' = n
  /\ UNCHANGED <<commands, internal, tasks, app, answer, connected, sent, failed, closed, stats>>

\* The batch is counted with its last packet.
Count(field) ==
  stats' = [stats EXCEPT ![field] = @ + 1,
                         !.total_batch_packets = IF Len(batch) = 1 THEN @ + batch_size ELSE @]

\* Mutant: the batch is emptied from its end.
SendLast ==
  /\ Running("data_pipeline") /\ batch # <<>> /\ connected
  /\ batch' = Front(batch) /\ sent' = Append(sent, Last(batch))
  /\ Count("packets_sent")
  /\ UNCHANGED <<channels, batch_size, tasks, app, answer, connected, failed, closed>>

SendNext ==
  /\ Running("data_pipeline") /\ batch # <<>> /\ connected
  /\ batch' = Tail(batch) /\ sent' = Append(sent, Head(batch))
  /\ Count("packets_sent")
  /\ UNCHANGED <<channels, batch_size, tasks, app, answer, connected, failed, closed>>

\* Mutant: the rest of the batch is given up with the packet that failed.
GiveUpBatch ==
  /\ Running("data_pipeline") /\ batch # <<>> /\ connected
  /\ batch' = <<>> /\ failed' = failed \cup {Head(batch)}
  /\ stats' = [stats EXCEPT !.error_count = @ + 1, !.total_batch_packets = @ + batch_size]
  /\ UNCHANGED <<channels, batch_size, tasks, app, answer, connected, sent, closed>>

\* The adapter is connected and refuses the packet: the loop goes on.
SendFails ==
  /\ Running("data_pipeline") /\ batch # <<>> /\ connected
  /\ batch' = Tail(batch) /\ failed' = failed \cup {Head(batch)}
  /\ Count("error_count")
  /\ UNCHANGED <<channels, batch_size, tasks, app, answer, connected, sent, closed>>

\* Mutant: only the batch is left, not the outer loop.
DropBatch ==
  /\ Running("data_pipeline") /\ batch # <<>> /\ ~connected
  /\ batch' = <<>>
  /\ UNCHANGED <<channels, batch_size, tasks, app, answer, connected, sent, failed, closed, stats>>

\* Not connected, before the send or after it failed: the pipeline ends, and the
\* rest of the batch is lost.
DataStops ==
  /\ Running("data_pipeline") /\ batch # <<>> /\ ~connected
  /\ End("data_pipeline") /\ batch' = <<>>
  /\ \E errors \in 0..1 : stats' = [stats EXCEPT !.error_count = @ + errors]
  /\ UNCHANGED <<channels, batch_size, app, answer, connected, sent, failed, closed>>

\* The receive pipeline looks every 100 ms whether the adapter is connected.
ReceiveStops ==
  /\ Running("receive_pipeline") /\ ~connected
  /\ End("receive_pipeline")
  /\ UNCHANGED <<channels, batch, batch_size, app, answer, connected, sent, failed, closed, stats>>

-----------------------------------------------------------------------------
Step(t) ==
  CASE t = "command_adapter" -> Forward \/ CommandsEnd
    [] t = "command_pipeline" -> ForwardPacket \/ Stop
    [] t = "data_pipeline" -> Collect \/ SendNext \/ SendFails \/ DataStops
    [] t = "receive_pipeline" -> ReceiveStops

Next ==
  \/ Submit \/ SubmitOther \/ Push \/ DropSender \/ ConnectionEnds
  \/ Forward \/ CommandsEnd \/ ForwardPacket \/ Stop
  \/ Collect \/ SendNext \/ SendFails \/ DataStops \/ ReceiveStops

Spec == Init /\ [][Next]_vars

(* The runtime runs every task that can go on.                              *)
Fairness == \A t \in Tasks : WF_vars(Step(t))

-----------------------------------------------------------------------------
(* Properties                                                              *)

(* Packets that came the same way reach the adapter in the order in which   *)
(* they were handed over, each at most once.                                *)
OrderKept ==
  \A i, j \in DOMAIN sent : i < j /\ via[sent[i]] = via[sent[j]] => sent[i] < sent[j]

(* Between two batches the counters of packets and of batches agree; after  *)
(* the pipeline has given up a batch only the packets are counted.          *)
CountersAgree ==
  batch = <<>> =>
    LET attempts == stats.packets_sent + stats.error_count
    IN  IF Running("data_pipeline") THEN attempts = stats.total_batch_packets
        ELSE attempts >= stats.total_batch_packets

(* A packet whose command was answered with Ok reaches the adapter, or is   *)
(* reported as an error, unless the connection ends: also if Shutdown is on *)
(* its way or has been served.  (Packets are bounded by MaxPackets.)        *)
AcceptedIsTried ==
  []<>(\A p \in Packets :
         answer[p] = "ok" => Contains(sent, p) \/ p \in failed \/ ~connected)

(* The actor ends once it was shut down and the connection is closed - if   *)
(* there is still a packet for the data pipeline, which learns of either    *)
(* only then.                                                               *)
ActorEnds ==
  (closed = 1 /\ ~connected /\ (data # <<>> \/ batch # <<>>)) ~> Joined
=============================================================================
