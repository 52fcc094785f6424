----------------------------- MODULE EventStreams -----------------------------
(***************************************************************************)
(* A stream over the broadcast channel of a Transport (src/src/stream.rs). *)
(*                                                                         *)
(* An application task holds one stream and calls one method at a time.  A *)
(* call takes values out of the channel until one is of the kind it asks   *)
(* for, and may be dropped while it waits.  The channel holds Capacity     *)
(* values; a slower stream loses the oldest ones, which the code ignores.  *)
(***************************************************************************)
EXTENDS Naturals, Sequences, Functions

CONSTANTS
  Capacity,    \* of the broadcast channel
  MaxEvents    \* bound: events of the Transport

VARIABLES
  stream,      \* its type
  events,      \* all that was sent
  open,        \* the channel has a sender
  at,          \* how many values the stream took or lost
  call,        \* the method that is waiting, or "none"
  asked,       \* the methods called so far
  seen,        \* what was returned, as indices into events
  lost,        \* the stream was too slow once
  ended        \* the stream returned None

vars == <<stream, events, open, at, call, asked, seen, lost, ended>>

\* The TransportEvents that tell the methods apart: the packets of a
\* MessageReceived, ConnectionClosed, TransportError.
Kinds == {"request", "message", "closed", "error"}

\* The methods of each type of stream.
Methods == [EventStream |-> {"next", "next_connection_event", "next_data_event", "next_error_event"},
            PacketStream |-> {"next_packet"},
            ConnectionStream |-> {"next_connection"},
            ClientEventStream |-> {"client_next"}]

\* should_emit_event: no TransportEvent names a session, so a session filter
\* keeps them all.  The conversion to a ClientEvent drops requests.
Emits(method, kind) ==
  CASE method = "next" -> TRUE
    [] method \in {"next_packet", "next_data_event"} -> kind \in {"request", "message"}
    [] method \in {"next_connection", "next_connection_event"} -> kind = "closed"
    [] method = "next_error_event" -> kind = "error"
    [] method = "client_next" -> kind # "request"

TypeOK ==
  /\ stream \in DOMAIN Methods
  /\ events \in Seq(Kinds) /\ Len(events) <= MaxEvents
  /\ at \in 0..Len(events)
  /\ call \in Methods[stream] \cup {"none"} /\ asked \subseteq Methods[stream]
  /\ \A i \in DOMAIN seen : seen[i] \in 1..at
  /\ open \in BOOLEAN /\ lost \in BOOLEAN /\ ended \in BOOLEAN

Init ==
  /\ stream \in DOMAIN Methods
  /\ events = <<>> /\ open = TRUE /\ at = 0
  /\ call = "none" /\ asked = {} /\ seen = <<>> /\ lost = FALSE /\ ended = FALSE

Lags == Len(events) - at > Capacity

-----------------------------------------------------------------------------
SendEvent(kind) ==
  /\ open /\ Len(events) < MaxEvents
  /\ events' = Append(events, kind)
  /\ UNCHANGED <<stream, open, at, call, asked, seen, lost, ended>>

\* The Transport, the last holder of a sender, is dropped.
DropSender ==
  /\ open /\ open' = FALSE
  /\ UNCHANGED <<stream, events, at, call, asked, seen, lost, ended>>

Call(method) ==
  /\ call = "none" /\ ~ended
  /\ call' = method /\ asked' = asked \cup {method}
  /\ UNCHANGED <<stream, events, open, at, seen, lost, ended>>

\* The caller drops the future (a timeout, a select!): nothing is lost.
DropCall ==
  /\ call # "none" /\ call' = "none"
  /\ UNCHANGED <<stream, events, open, at, asked, seen, lost, ended>>

\* Mutant: next leaves the value that it returns in the channel.
PollWithoutTaking ==
  /\ call # "none" /\ at < Len(events) /\ ~Lags
  /\ LET emits == Emits(call, events[at + 1])
     IN  /\ call' = IF emits THEN "none" ELSE call
         /\ seen' = IF emits THEN Append(seen, at + 1) ELSE seen
         /\ at' = IF emits /\ call = "next" THEN at ELSE at + 1
  /\ UNCHANGED <<stream, events, open, asked, lost, ended>>

\* Mutant: the stream looks at the value after the next one.
PollSkipsOne ==
  /\ call # "none" /\ at + 1 < Len(events) /\ ~Lags
  /\ at' = at + 2
  /\ LET emits == Emits(call, events[at + 2])
     IN  /\ call' = IF emits THEN "none" ELSE call
         /\ seen' = IF emits THEN Append(seen, at + 2) ELSE seen
  /\ UNCHANGED <<stream, events, open, asked, lost, ended>>

\* The loop of each method: the next value is taken, and returned if it is of
\* the kind asked for.
PollNext ==
  /\ call # "none" /\ at < Len(events) /\ ~Lags
  /\ at' = at + 1
  /\ LET emits == Emits(call, events[at + 1])
     IN  /\ call' = IF emits THEN "none" ELSE call
         /\ seen' = IF emits THEN Append(seen, at + 1) ELSE seen
  /\ UNCHANGED <<stream, events, open, asked, lost, ended>>

\* The error of a channel that overtook the stream is ignored: the loop goes on
\* with the oldest value left.
StreamLags ==
  /\ call # "none" /\ Lags
  /\ at' = Len(events) - Capacity /\ lost' = TRUE
  /\ UNCHANGED <<stream, events, open, call, asked, seen, ended>>

\* None (an error, of a client stream), once the channel is closed and empty.
StreamEnds ==
  /\ call # "none" /\ ~open /\ at = Len(events)
  /\ call' = "none" /\ ended' = TRUE
  /\ UNCHANGED <<stream, events, open, at, asked, seen, lost>>

Next ==
  \/ \E kind \in Kinds : SendEvent(kind)
  \/ DropSender
  \/ \E method \in Methods[stream] : Call(method)
  \/ DropCall \/ PollNext \/ StreamLags \/ StreamEnds

Spec == Init /\ [][Next]_vars

-----------------------------------------------------------------------------
(* Properties                                                              *)

(* A stream returns events in the order in which they were sent, none      *)
(* twice.                                                                  *)
StreamsInOrder == \A i, j \in DOMAIN seen : i < j => seen[i] < seen[j]

(* As long as the channel did not overtake it, a stream has returned every *)
(* event, up to where it is, that all methods called on it ask for, and    *)
(* one that ended has returned every such event ever sent.  (What only     *)
(* some of the methods ask for may be gone: next_connection_event throws   *)
(* the data away that it meets.)                                           *)
StreamsComplete ==
  ~lost => \A e \in 1..(IF ended THEN Len(events) ELSE at) :
             (\A method \in asked : Emits(method, events[e])) => e \in Range(seen)
=============================================================================
