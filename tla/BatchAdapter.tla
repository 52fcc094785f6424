----------------------------- MODULE BatchAdapter -----------------------------
(***************************************************************************)
(* The FlumePoweredProtocolAdapter (src/src/transport/protocol_adapter.rs):*)
(* clones share two unbounded queues of packets and the statistics; each   *)
(* clone has its own connected flag.  Senders enqueue, and whoever calls   *)
(* process_send_batch or process_receive_batch takes packets out again.    *)
(*                                                                         *)
(* process_send_batch takes its packets, then yields, then counts them: a  *)
(* call that is dropped at the yield takes its packets with it.  Latency   *)
(* and cache counters are left out; every packet counts as one byte.       *)
(***************************************************************************)
EXTENDS Naturals, Sequences, FiniteSetsExt

CONSTANTS
  Clones,       \* clones of the adapter, one task each
  MaxPackets,   \* bound: packets per direction
  max_batch     \* argument of the batch calls

VARIABLES
  send_queue, recv_queue,
  accepted,     \* packets that send_nowait took
  arrived,      \* packets that came in
  step,         \* what each clone's task is doing
  batch,        \* packets each task has in hand
  sent,         \* batches that were processed, as one sequence of packets
  received,     \* packets returned to each task
  lost,         \* packets that went with a dropped call
  is_connected, \* flag of each clone
  status,       \* ConnectionStatus events
  stats

queues == <<send_queue, recv_queue, accepted, arrived>>
vars == <<queues, step, batch, sent, received, lost, is_connected, status, stats>>

Packets == 1..MaxPackets
Zero == [packets_sent |-> 0, bytes_sent |-> 0, packets_received |-> 0,
         total_batch_size |-> 0, max_batch_size |-> 0]

TypeOK ==
  /\ send_queue \in Seq(Packets) /\ recv_queue \in Seq(Packets)
  /\ accepted \in 0..MaxPackets /\ arrived \in 0..MaxPackets
  /\ step \in [Clones -> {"idle", "count", "yield", "receive"}]
  /\ \A c \in Clones : batch[c] \in Seq(Packets) /\ Len(batch[c]) <= max_batch
  /\ lost \subseteq Packets
  /\ is_connected \in [Clones -> BOOLEAN] /\ status \in BOOLEAN

Init ==
  /\ send_queue = <<>> /\ recv_queue = <<>> /\ accepted = 0 /\ arrived = 0
  /\ step = [c \in Clones |-> "idle"] /\ batch = [c \in Clones |-> <<>>]
  /\ sent = <<>> /\ received = [c \in Clones |-> <<>>] /\ lost = {}
  /\ is_connected = [c \in Clones |-> TRUE] /\ status = TRUE
  /\ stats = Zero

RecordBatch(s, n) ==
  [s EXCEPT !.total_batch_size = @ + n, !.max_batch_size = IF n > @ THEN n ELSE @]

-----------------------------------------------------------------------------
\* send_nowait: the packet is in the queue before it is counted.
SendNowait(c) ==
  /\ step[c] = "idle" /\ accepted < MaxPackets
  /\ accepted' = accepted + 1
  /\ send_queue' = Append(send_queue, accepted + 1)
  /\ step' = [step EXCEPT ![c] = "count"]
  /\ UNCHANGED <<recv_queue, arrived, batch, sent, received, lost, is_connected, status, stats>>

RecordSend(c) ==
  /\ step[c] = "count"
  /\ stats' = [stats EXCEPT !.packets_sent = @ + 1, !.bytes_sent = @ + 1]
  /\ step' = [step EXCEPT ![c] = "idle"]
  /\ UNCHANGED <<queues, batch, sent, received, lost, is_connected, status>>

\* Mutant: the packets stay in the queue until they are processed.
CollectCopies(c) ==
  /\ step[c] = "idle" /\ send_queue # <<>>
  /\ LET n == Min({max_batch, Len(send_queue)}) IN
       batch' = [batch EXCEPT ![c] = SubSeq(send_queue, 1, n)]
  /\ step' = [step EXCEPT ![c] = "yield"]
  /\ UNCHANGED <<queues, sent, received, lost, is_connected, status, stats>>

\* process_send_batch up to the yield: the packets that are there, at most
\* max_batch.  Another task may take some of them between two try_recv calls.
Collect(c) ==
  /\ step[c] = "idle" /\ send_queue # <<>>
  /\ LET n == Min({max_batch, Len(send_queue)}) IN
       /\ batch' = [batch EXCEPT ![c] = SubSeq(send_queue, 1, n)]
       /\ send_queue' = SubSeq(send_queue, n + 1, Len(send_queue))
  /\ step' = [step EXCEPT ![c] = "yield"]
  /\ UNCHANGED <<recv_queue, accepted, arrived, sent, received, lost, is_connected, status, stats>>

\* Mutant: only the batch is counted, not its packets.
ProcessCountingOnce(c) ==
  /\ step[c] = "yield"
  /\ sent' = sent \o batch[c]
  /\ stats' = [RecordBatch(stats, 1) EXCEPT !.bytes_sent = @ + Len(batch[c])]
  /\ step' = [step EXCEPT ![c] = "idle"] /\ batch' = [batch EXCEPT ![c] = <<>>]
  /\ UNCHANGED <<queues, received, lost, is_connected, status>>

\* After the yield.  The bytes are counted a second time.
Process(c) ==
  /\ step[c] = "yield"
  /\ sent' = sent \o batch[c]
  /\ stats' = [RecordBatch(stats, Len(batch[c])) EXCEPT !.bytes_sent = @ + Len(batch[c])]
  /\ step' = [step EXCEPT ![c] = "idle"] /\ batch' = [batch EXCEPT ![c] = <<>>]
  /\ UNCHANGED <<queues, received, lost, is_connected, status>>

\* The caller drops the future at the yield.
Dropped(c) ==
  /\ step[c] = "yield"
  /\ lost' = lost \cup Range(batch[c])
  /\ step' = [step EXCEPT ![c] = "idle"] /\ batch' = [batch EXCEPT ![c] = <<>>]
  /\ UNCHANGED <<queues, sent, received, is_connected, status, stats>>

-----------------------------------------------------------------------------
\* simulate_receive.
Arrive ==
  /\ arrived < MaxPackets
  /\ arrived' = arrived + 1 /\ recv_queue' = Append(recv_queue, arrived + 1)
  /\ UNCHANGED <<send_queue, accepted, step, batch, sent, received, lost, is_connected, status, stats>>

\* process_receive_batch: packet after packet, next to other receivers.
ReceiveOne(c) ==
  /\ \/ step[c] = "idle"
     \/ step[c] = "receive" /\ Len(batch[c]) < max_batch
  /\ recv_queue # <<>>
  /\ recv_queue' = Tail(recv_queue)
  /\ batch' = [batch EXCEPT ![c] = Append(@, Head(recv_queue))]
  /\ stats' = [stats EXCEPT !.packets_received = @ + 1]
  /\ step' = [step EXCEPT ![c] = "receive"]
  /\ UNCHANGED <<send_queue, accepted, arrived, sent, received, lost, is_connected, status>>

Received(c) ==
  /\ step[c] = "receive" /\ (recv_queue = <<>> \/ Len(batch[c]) = max_batch)
  /\ received' = [received EXCEPT ![c] = @ \o batch[c]]
  /\ stats' = RecordBatch(stats, Len(batch[c]))
  /\ step' = [step EXCEPT ![c] = "idle"] /\ batch' = [batch EXCEPT ![c] = <<>>]
  /\ UNCHANGED <<queues, sent, lost, is_connected, status>>

-----------------------------------------------------------------------------
\* set_connected reaches the flag of this clone only.
SetConnected(c) ==
  /\ step[c] = "idle"
  /\ \E value \in BOOLEAN :
       is_connected' = [is_connected EXCEPT ![c] = value] /\ status' = value
  /\ UNCHANGED <<queues, step, batch, sent, received, lost, stats>>

Next ==
  \/ Arrive
  \/ \E c \in Clones :
       \/ SendNowait(c) \/ RecordSend(c) \/ Collect(c) \/ Process(c) \/ Dropped(c)
       \/ ReceiveOne(c) \/ Received(c) \/ SetConnected(c)

Spec == Init /\ [][Next]_vars

-----------------------------------------------------------------------------
(* Properties                                                              *)

InHand(kind) == UNION {Range(batch[c]) : c \in {d \in Clones : step[d] = kind}}
All(n) == 1..n

(* Every packet that send_nowait accepted is in the queue, in one task's    *)
(* hands, processed or lost with a dropped call, and processed once only;   *)
(* what arrived is in the queue or went to exactly one task.                *)
NoneTwice ==
  /\ Cardinality(Range(sent)) = Len(sent)
  /\ Range(send_queue) \cup InHand("yield") \cup Range(sent) \cup lost = All(accepted)
  /\ Len(send_queue) + Len(sent) + Cardinality(lost) + Cardinality(InHand("yield")) = accepted
  /\ Range(recv_queue) \cup InHand("receive") \cup UNION {Range(received[c]) : c \in Clones}
       = All(arrived)
  /\ \A c \in Clones : \A i, j \in DOMAIN received[c] : i < j => received[c][i] < received[c][j]

(* When all calls have returned, the shared counters account for every      *)
(* packet: the batches for those processed in either direction, and the     *)
(* bytes once when a packet is accepted and again when it is processed.     *)
StatsAgree ==
  (\A c \in Clones : step[c] = "idle") =>
    /\ stats.packets_sent = accepted
    /\ stats.bytes_sent = accepted + Len(sent)
    /\ stats.packets_received = arrived - Len(recv_queue)
    /\ stats.total_batch_size = Len(sent) + stats.packets_received
=============================================================================
