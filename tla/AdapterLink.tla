----------------------------- MODULE AdapterLink -----------------------------
(***************************************************************************)
(* A connection with a WebSocketAdapter or a QuicAdapter at both ends      *)
(* (src/src/adapters/websocket.rs, src/src/adapters/quic.rs).  Each end has*)
(* one event loop, a select over reading, writing and the shutdown signal; *)
(* while it writes a packet it does nothing else.                          *)
(*                                                                         *)
(* Both protocols keep messages apart, so what travels is whole messages:  *)
(* a packet is its number, a WebSocket peer that is another program may    *)
(* also send texts and pings.  tungstenite, quinn and the network below    *)
(* them are external: messages arrive in order (streams are accepted in    *)
(* the order they were opened), a write waits while Capacity messages are  *)
(* unread, and what is under way when an end hangs up may be lost.         *)
(***************************************************************************)
EXTENDS Naturals, SequencesExt

CONSTANTS
  Kinds,       \* the protocols: subset of {"websocket", "quic"}
  Capacity,    \* messages that fit into the buffers of one direction
  MaxPackets,  \* bound: packets that each end sends
  TooLong,     \* <<end, packet>>: those beyond the limit of read_to_end, 1 MiB
  Text, Ping,  \* WebSocket messages that are no packets
  Bye          \* a Close frame, or the end of the stream

VARIABLES
  kind,        \* protocol of the connection
  foreign,     \* whether the client end is another program
  handle,      \* the adapter: "open", "closing", "closed", "dropped"
  signal,      \* the shutdown signal has been sent, or its sender dropped
  accepted,    \* packets put into the send queue
  taken,       \* packets the event loop has taken out of it
  loop,        \* what each event loop is doing
  endedBy,     \* why it ended
  wire,        \* messages of each end that the other has not read
  delivered,   \* MessageReceived events of each end; 0 is a made-up packet
  closes,      \* reasons in the ConnectionClosed events of each end
  is_connected \* flag of a WebSocket adapter

handleVars == <<handle, signal, accepted>>
loopVars == <<taken, loop, endedBy, wire, delivered, closes, is_connected>>
vars == <<kind, foreign, handleVars, loopVars>>

Ends == {"client", "server"}
Other(e) == IF e = "client" THEN "server" ELSE "client"
Packets == 1..MaxPackets
Messages == Packets \cup {Text, Ping, Bye}

TypeOK ==
  /\ kind \in Kinds /\ foreign \in BOOLEAN
  /\ handle \in [Ends -> {"open", "closing", "closed", "dropped"}]
  /\ signal \in [Ends -> BOOLEAN]
  /\ accepted \in [Ends -> 0..MaxPackets] /\ taken \in [Ends -> 0..MaxPackets]
  /\ \A e \in Ends : taken[e] <= accepted[e]
  /\ loop \in [Ends -> {"select", "write", "closeFrame", "announced", "ended"}]
  /\ endedBy \in [Ends -> {"no", "signal", "peer", "write"}]
  /\ wire \in [Ends -> Seq(Messages)]
  /\ delivered \in [Ends -> Seq(Packets \cup {0})]
  /\ closes \in [Ends -> Seq({"normal", "error"})]
  /\ is_connected \in [Ends -> BOOLEAN]

Init ==
  /\ kind \in Kinds /\ foreign \in {FALSE, kind = "websocket"}
  /\ handle = [e \in Ends |-> "open"] /\ signal = [e \in Ends |-> FALSE]
  /\ accepted = [e \in Ends |-> 0] /\ taken = [e \in Ends |-> 0]
  /\ loop = [e \in Ends |-> "select"] /\ endedBy = [e \in Ends |-> "no"]
  /\ wire = [e \in Ends |-> <<>>]
  /\ delivered = [e \in Ends |-> <<>>] /\ closes = [e \in Ends |-> <<>>]
  /\ is_connected = [e \in Ends |-> TRUE]

Ended(e) == loop[e] = "ended"
Full(e) == Len(wire[e]) >= Capacity /\ ~Ended(Other(e))
Announce(e, reason) == closes' = [closes EXCEPT ![e] = Append(@, reason)]

\* The loop is left and drops the socket or the last handle of the connection.
\* The peer finds the end of the stream, perhaps without all that came before.
HangUp(e, why) ==
  /\ loop' = [loop EXCEPT ![e] = "ended"]
  /\ endedBy' = [endedBy EXCEPT ![e] = why]
  /\ \E n \in 0..Len(wire[e]) :
       wire' = IF Ended(Other(e)) THEN [f \in Ends |-> <<>>]
               ELSE [wire EXCEPT ![e] = Append(SubSeq(@, 1, n), Bye),
                                 ![Other(e)] = <<>>]

-----------------------------------------------------------------------------
(* The adapter                                                             *)

\* send: fails once the event loop has ended.
Send(e) ==
  /\ handle[e] = "open" /\ ~Ended(e) /\ accepted[e] < MaxPackets
  /\ accepted' = [accepted EXCEPT ![e] = @ + 1]
  /\ UNCHANGED <<kind, foreign, handle, signal, loopVars>>

\* close sends the signal and waits for the event loop to end.
Close(e) ==
  /\ handle[e] = "open"
  /\ handle' = [handle EXCEPT ![e] = "closing"]
  /\ signal' = [signal EXCEPT ![e] = TRUE]
  /\ UNCHANGED <<kind, foreign, accepted, loopVars>>

CloseReturns(e) ==
  /\ handle[e] = "closing" /\ Ended(e)
  /\ handle' = [handle EXCEPT ![e] = "closed"]
  /\ is_connected' = [is_connected EXCEPT ![e] = FALSE]
  /\ UNCHANGED <<kind, foreign, signal, accepted, taken, loop, endedBy, wire, delivered, closes>>

\* The adapter is dropped, and with it both senders: the loop's recv of the
\* signal returns.
Drop(e) ==
  /\ handle[e] = "open"
  /\ handle' = [handle EXCEPT ![e] = "dropped"]
  /\ signal' = [signal EXCEPT ![e] = TRUE]
  /\ UNCHANGED <<kind, foreign, accepted, loopVars>>

-----------------------------------------------------------------------------
(* The event loop: writing                                                 *)

Take(e) ==
  /\ loop[e] = "select" /\ taken[e] < accepted[e]
  /\ taken' = [taken EXCEPT ![e] = @ + 1]
  /\ loop' = [loop EXCEPT ![e] = "write"]
  /\ UNCHANGED <<kind, foreign, handleVars, endedBy, wire, delivered, closes, is_connected>>

\* The peer takes it, or is gone and the write succeeds nevertheless.
Write(e) ==
  /\ loop[e] = "write" /\ ~Full(e)
  /\ wire' = IF Ended(Other(e)) THEN wire ELSE [wire EXCEPT ![e] = Append(@, taken[e])]
  /\ loop' = [loop EXCEPT ![e] = "select"]
  /\ UNCHANGED <<kind, foreign, handleVars, taken, endedBy, delivered, closes, is_connected>>

\* Mutant: the loop goes on after it announced that the connection is lost.
WriteFailsAndGoesOn(e) ==
  /\ kind = "websocket" /\ loop[e] = "write" /\ Ended(Other(e))
  /\ Announce(e, "error")
  /\ loop' = [loop EXCEPT ![e] = "select"]
  /\ UNCHANGED <<kind, foreign, handleVars, taken, endedBy, wire, delivered, is_connected>>

WebSocketWriteFails(e) ==
  /\ kind = "websocket" /\ loop[e] = "write" /\ Ended(Other(e))
  /\ Announce(e, "error")
  /\ loop' = [loop EXCEPT ![e] = "announced"]
  /\ endedBy' = [endedBy EXCEPT ![e] = "write"]
  /\ UNCHANGED <<kind, foreign, handleVars, taken, wire, delivered, is_connected>>

\* open_uni or write_all fails: the loop ends and says nothing.
QuicWriteFails(e) ==
  /\ kind = "quic" /\ loop[e] = "write" /\ Ended(Other(e))
  /\ HangUp(e, "write")
  /\ UNCHANGED <<kind, foreign, handleVars, taken, delivered, closes, is_connected>>

-----------------------------------------------------------------------------
(* The event loop: reading                                                 *)

Incoming(e) == Head(wire[Other(e)])
Unreadable(e) == <<Other(e), Incoming(e)>> \in TooLong
Reading(e) == loop[e] = "select" /\ wire[Other(e)] # <<>>
Consume(e) == wire' = [wire EXCEPT ![Other(e)] = Tail(@)]

\* process_websocket_message: a packet, or a text that becomes the payload of a
\* packet with the id 0, or a ping, which is ignored.
WebSocketMessage(e) ==
  /\ kind = "websocket" /\ Reading(e) /\ Incoming(e) # Bye
  /\ delivered' = CASE Incoming(e) = Ping -> delivered
                    [] Incoming(e) = Text -> [delivered EXCEPT ![e] = Append(@, 0)]
                    [] OTHER -> [delivered EXCEPT ![e] = Append(@, Incoming(e))]
  /\ Consume(e)
  /\ UNCHANGED <<kind, foreign, handleVars, taken, loop, endedBy, closes, is_connected>>

\* A Close frame, or the end of the stream.
WebSocketClosed(e) ==
  /\ kind = "websocket" /\ Reading(e) /\ Incoming(e) = Bye
  /\ Announce(e, "normal") /\ Consume(e)
  /\ loop' = [loop EXCEPT ![e] = "announced"]
  /\ endedBy' = [endedBy EXCEPT ![e] = "peer"]
  /\ UNCHANGED <<kind, foreign, handleVars, taken, delivered, is_connected>>

\* The flag is cleared after the event was sent; then the loop is left.
ClearFlag(e) ==
  /\ loop[e] = "announced"
  /\ is_connected' = [is_connected EXCEPT ![e] = FALSE]
  /\ HangUp(e, endedBy[e])
  /\ UNCHANGED <<kind, foreign, handleVars, taken, delivered, closes>>

\* Mutant: streams are read by tasks of their own.
QuicAnyStream(e) ==
  /\ kind = "quic" /\ Reading(e)
  /\ \E i \in DOMAIN wire[Other(e)] :
       /\ wire[Other(e)][i] # Bye
       /\ delivered' = [delivered EXCEPT ![e] = Append(@, wire[Other(e)][i])]
       /\ wire' = [wire EXCEPT ![Other(e)] = RemoveAt(@, i)]
  /\ UNCHANGED <<kind, foreign, handleVars, taken, loop, endedBy, closes, is_connected>>

\* accept_uni and read_to_end, one stream after the other.
QuicStream(e) ==
  /\ kind = "quic" /\ Reading(e) /\ Incoming(e) # Bye /\ ~Unreadable(e)
  /\ delivered' = [delivered EXCEPT ![e] = Append(@, Incoming(e))]
  /\ Consume(e)
  /\ UNCHANGED <<kind, foreign, handleVars, taken, loop, endedBy, closes, is_connected>>

\* The peer closed the connection, or one of its packets is too long: either
\* ends the loop.
QuicClosed(e) ==
  /\ kind = "quic" /\ Reading(e) /\ (Incoming(e) = Bye \/ Unreadable(e))
  /\ Announce(e, IF Incoming(e) = Bye THEN "normal" ELSE "error")
  /\ HangUp(e, "peer")
  /\ UNCHANGED <<kind, foreign, handleVars, taken, delivered, is_connected>>

-----------------------------------------------------------------------------
(* The event loop: the shutdown signal                                     *)

WebSocketShutdown(e) ==
  /\ kind = "websocket" /\ loop[e] = "select" /\ signal[e]
  /\ loop' = [loop EXCEPT ![e] = "closeFrame"]
  /\ UNCHANGED <<kind, foreign, handleVars, taken, endedBy, wire, delivered, closes, is_connected>>

\* stream.close waits for room like any write, and may fail.
CloseFrame(e) ==
  /\ loop[e] = "closeFrame" /\ ~Full(e)
  /\ HangUp(e, "signal")
  /\ UNCHANGED <<kind, foreign, handleVars, taken, delivered, closes, is_connected>>

\* Mutant: another handle keeps the connection open.
QuicShutdownKeepsConnection(e) ==
  /\ kind = "quic" /\ loop[e] = "select" /\ signal[e]
  /\ loop' = [loop EXCEPT ![e] = "ended"]
  /\ endedBy' = [endedBy EXCEPT ![e] = "signal"]
  /\ UNCHANGED <<kind, foreign, handleVars, taken, wire, delivered, closes, is_connected>>

QuicShutdown(e) ==
  /\ kind = "quic" /\ loop[e] = "select" /\ signal[e]
  /\ HangUp(e, "signal")
  /\ UNCHANGED <<kind, foreign, handleVars, taken, delivered, closes, is_connected>>

-----------------------------------------------------------------------------
\* What another program at the client end may send besides packets.
ForeignMessage ==
  /\ foreign /\ ~Ended("client") /\ ~Full("client") /\ ~Ended("server")
  /\ Len(delivered["server"]) < MaxPackets
  /\ \E m \in {Text, Ping} : wire' = [wire EXCEPT !["client"] = Append(@, m)]
  /\ UNCHANGED <<kind, foreign, handleVars, taken, loop, endedBy, delivered, closes, is_connected>>

LoopStep(e) ==
  \/ Take(e) \/ Write(e) \/ WebSocketWriteFails(e) \/ QuicWriteFails(e)
  \/ WebSocketMessage(e) \/ WebSocketClosed(e) \/ ClearFlag(e)
  \/ QuicStream(e) \/ QuicClosed(e)
  \/ WebSocketShutdown(e) \/ CloseFrame(e) \/ QuicShutdown(e)

Next ==
  \/ ForeignMessage
  \/ \E e \in Ends : Send(e) \/ Close(e) \/ CloseReturns(e) \/ Drop(e) \/ LoopStep(e)

Spec == Init /\ [][Next]_vars

\* The runtime polls both event loops.
Fairness == \A e \in Ends : WF_vars(LoopStep(e))

-----------------------------------------------------------------------------
(* Properties                                                              *)

(* Packets arrive as they were sent: in order, none twice, none left out in *)
(* the middle, whatever else the peer sends and whoever hangs up.           *)
InOrder ==
  \A e \in Ends : \A i \in DOMAIN delivered[e] :
    LET p == delivered[e][i]
    IN  p # 0 =>
          /\ p <= taken[Other(e)]
          /\ \A j \in 1..(i - 1) : delivered[e][j] < p
          /\ \A q \in 1..(p - 1) : \E j \in 1..(i - 1) : delivered[e][j] = q

(* A loop that ended on its own has told the session so exactly once, one   *)
(* that was told to end does not; only a failed QUIC write goes unannounced.*)
AnnouncedOnce ==
  \A e \in Ends :
    /\ Len(closes[e]) <= 1
    /\ endedBy[e] = "signal" => closes[e] = <<>>
    /\ Ended(e) /\ endedBy[e] # "signal" /\ ~(kind = "quic" /\ endedBy[e] = "write")
         => Len(closes[e]) = 1

(* If one end's loop ends, so does the other's, even if it is writing.      *)
BothEnd == (\E e \in Ends : Ended(e)) ~> (\A e \in Ends : Ended(e))
=============================================================================
