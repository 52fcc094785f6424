----------------------------- MODULE TcpFraming -----------------------------
(***************************************************************************)
(* Packets over one direction of a TCP connection: the event loop of the   *)
(* sending TcpAdapter writes them, TCP carries a stream of bytes, and the  *)
(* event loop of the receiving TcpAdapter cuts packets out of what a read  *)
(* returns (src/src/adapters/tcp.rs, src/src/packet.rs).                   *)
(*                                                                         *)
(* Bytes are modelled in units, so that a packet has a header unit that    *)
(* tells its length and at least one more.  TCP is external: it delivers   *)
(* the units in order and without loss, in pieces of its own choice.       *)
(***************************************************************************)
EXTENDS Naturals, Sequences

CONSTANTS
  Sizes,        \* the length of each packet that is sent
  ReadCapacity, \* most units one read returns: the 8192 bytes of its buffer
  WireCapacity, \* units the socket buffers hold
  Garbage,      \* a packet parsed from the middle of a real one
  Incomplete, Invalid  \* the other outcomes of parsing

Packets == 1..Len(Sizes)

ASSUME TcpFramingAssumption ==
  /\ Sizes \in Seq(Nat) /\ \A p \in Packets : Sizes[p] >= 2
  /\ ReadCapacity \in Nat \ {0} /\ WireCapacity \in Nat \ {0}
  /\ {Garbage, Incomplete, Invalid} \cap Packets = {}
  /\ Garbage # Incomplete /\ Garbage # Invalid

VARIABLES
  accepted,  \* packets that send has put into the send queue
  taken,     \* packets that the event loop has taken out of it
  rest,      \* units of the last packet taken that are not written yet
  wire,      \* the units on their way
  sender,    \* whether the sending event loop still runs
  receiver,  \* "open", or the reason the receiving event loop closed with
  delivered, \* packets in the MessageReceived events
  aligned    \* whether each read returned exactly one packet (history)

vars == <<accepted, taken, rest, wire, sender, receiver, delivered, aligned>>

TypeOK ==
  /\ accepted \in 0..Len(Sizes) /\ taken \in 0..accepted
  /\ rest \in 0..(IF taken = 0 THEN 0 ELSE Sizes[taken])
  /\ wire \in Seq([packet : Packets, first : BOOLEAN])
  /\ Len(wire) <= WireCapacity
  /\ sender \in BOOLEAN
  /\ receiver \in {"open", "normal", "error"}
  /\ delivered \in Seq(Packets \cup {Garbage})
  /\ aligned \in BOOLEAN

Init ==
  /\ accepted = 0 /\ taken = 0 /\ rest = 0
  /\ wire = <<>>
  /\ sender = TRUE /\ receiver = "open"
  /\ delivered = <<>>
  /\ aligned = TRUE

Least(m, n) == IF m < n THEN m ELSE n

-----------------------------------------------------------------------------
(* The sending side                                                        *)

\* TcpAdapter::send: into the queue, unless the event loop has ended.
Send ==
  /\ sender /\ accepted < Len(Sizes)
  /\ accepted' = accepted + 1
  /\ UNCHANGED <<taken, rest, wire, sender, receiver, delivered, aligned>>

\* send_queue.recv(), and write_packet_to_stream begins.
Take ==
  /\ sender /\ rest = 0 /\ taken < accepted
  /\ taken' = taken + 1
  /\ rest' = Sizes[taken + 1]
  /\ UNCHANGED <<accepted, wire, sender, receiver, delivered, aligned>>

\* write_all writes as much as the socket takes, until nothing is left.
WriteSome ==
  /\ sender /\ rest > 0 /\ receiver = "open"
  /\ \E n \in 1..Least(rest, WireCapacity - Len(wire)) :
       /\ wire' = wire \o [i \in 1..n |-> [packet |-> taken,
                                           first |-> rest = Sizes[taken] /\ i = 1]]
       /\ rest' = rest - n
  /\ UNCHANGED <<accepted, taken, sender, receiver, delivered, aligned>>

\* Mutant: a failed write does not end the event loop.
WriteFailureIgnored ==
  /\ sender /\ receiver # "open" /\ rest > 0
  /\ rest' = 0
  /\ UNCHANGED <<accepted, taken, wire, sender, receiver, delivered, aligned>>

\* The receiver has closed its socket: a write fails, a read returns no bytes.
SenderSeesClose ==
  /\ sender /\ receiver # "open"
  /\ sender' = FALSE
  /\ UNCHANGED <<accepted, taken, rest, wire, receiver, delivered, aligned>>

\* The shutdown signal: what is still queued is dropped.
Shutdown ==
  /\ sender /\ rest = 0
  /\ sender' = FALSE
  /\ UNCHANGED <<accepted, taken, rest, wire, receiver, delivered, aligned>>

-----------------------------------------------------------------------------
(* The receiving side                                                      *)

\* Mutant: a packet that fills the buffer exactly counts as incomplete.
ParseOffByOne(buffer) ==
  IF Head(buffer).first
  THEN {IF Len(buffer) > Sizes[Head(buffer).packet] THEN Head(buffer).packet ELSE Incomplete}
  ELSE {Incomplete, Invalid, Garbage}

\* try_parse_next_packet, and Packet::from_bytes: bytes that are no header give
\* any length and may be taken for a packet.
Parse(buffer) ==
  IF Head(buffer).first
  THEN {IF Len(buffer) >= Sizes[Head(buffer).packet] THEN Head(buffer).packet ELSE Incomplete}
  ELSE {Incomplete, Invalid, Garbage}

\* The event loop's reaction: a buffer without a complete packet is handled like
\* the end of the stream.
React(outcome) ==
  CASE outcome = Incomplete -> receiver' = "normal" /\ UNCHANGED delivered
    [] outcome = Invalid -> receiver' = "error" /\ UNCHANGED delivered
    [] OTHER -> delivered' = Append(delivered, outcome) /\ UNCHANGED receiver

\* Mutant: the bytes stay in the socket.
Peek ==
  /\ receiver = "open"
  /\ \E n \in 1..Least(Len(wire), ReadCapacity) :
       LET buffer == SubSeq(wire, 1, n)
       IN  /\ \E outcome \in Parse(buffer) : React(outcome)
           /\ UNCHANGED wire
           /\ aligned' = (aligned /\ Head(buffer).first /\ n = Sizes[Head(buffer).packet])
  /\ Len(delivered) < 3
  /\ UNCHANGED <<accepted, taken, rest, sender>>

\* fill_from_stream into a buffer of its own, from which at most one packet is
\* parsed; what else was read is dropped with the buffer.
Read ==
  /\ receiver = "open"
  /\ \E n \in 1..Least(Len(wire), ReadCapacity) :
       LET buffer == SubSeq(wire, 1, n)
       IN  /\ \E outcome \in Parse(buffer) : React(outcome)
           /\ wire' = SubSeq(wire, n + 1, Len(wire))
           /\ aligned' = (aligned /\ Head(buffer).first /\ n = Sizes[Head(buffer).packet])
  /\ UNCHANGED <<accepted, taken, rest, sender>>

\* A read of zero bytes: the sender is gone and the stream is drained.
EndOfStream ==
  /\ receiver = "open" /\ wire = <<>> /\ ~sender
  /\ receiver' = "normal"
  /\ UNCHANGED <<accepted, taken, rest, wire, sender, delivered, aligned>>

-----------------------------------------------------------------------------
Next ==
  \/ Send \/ Take \/ WriteSome \/ SenderSeesClose \/ Shutdown
  \/ Read \/ EndOfStream

Spec == Init /\ [][Next]_vars

\* The event loops run; TCP hands over what was sent and reports a closed socket.
Fairness == WF_vars(Read \/ EndOfStream) /\ WF_vars(SenderSeesClose)

FairSpec == Spec /\ Fairness

-----------------------------------------------------------------------------
(* Properties                                                              *)

(* However reads cut the stream, the packets that are delivered were sent,  *)
(* arrive in the order they were sent, and none arrives twice.              *)
OrderKept ==
  \A i \in DOMAIN delivered : delivered[i] # Garbage =>
    /\ delivered[i] <= taken
    /\ \A j \in DOMAIN delivered : i < j /\ delivered[j] # Garbage => delivered[i] < delivered[j]

(* As long as each read happened to return exactly one packet, nothing is   *)
(* lost or made up, and the end that is reported is the sender's.           *)
IntactIfAligned ==
  aligned => /\ \A i \in DOMAIN delivered : delivered[i] = i
             /\ receiver # "open" => ~sender

(* Both: what the receiving side may count on.                              *)
PacketsFramed == OrderKept /\ IntactIfAligned

(* If either event loop ends, both do: no half of a connection stays.       *)
BothEnd ==
  (~sender \/ receiver # "open") ~> (~sender /\ receiver # "open")

(* The receiver says that the peer closed only if the peer did.             *)
NormalMeansPeerClosed ==
  [][receiver = "open" /\ receiver' = "normal" => ~sender]_vars
=============================================================================
