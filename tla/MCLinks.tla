------------------------------- MODULE MCLinks -------------------------------
(***************************************************************************)
(* The event loops and workers of connections, side by side: the framing   *)
(* of the TCP adapter, the loops of the WebSocket and QUIC adapters, the   *)
(* worker of a LockFreeConnection, and an Actor.  A behaviour follows one  *)
(* of them, its subject, and leaves the others in an initial state.        *)
(***************************************************************************)
EXTENDS TcpFraming

CONSTANTS
  LinkKinds, LinkCapacity, LinkPackets, TooLong, Text, Ping, Bye,  \* of AdapterLink
  Handles, original, Threads, MaxCalls,                            \* of LockFreeConnection
  ActorPackets, MaxCommands, max_batch_size                        \* of Actor

ASSUME LinksAssumption ==
  /\ LinkKinds \subseteq {"websocket", "quic"} /\ LinkPackets \in Nat
  /\ {Text, Ping, Bye} \cap (0..LinkPackets) = {}
  /\ Text # Ping /\ Text # Bye /\ Ping # Bye
  /\ MaxCalls \in Nat
  /\ ActorPackets \in Nat /\ max_batch_size \in Nat

\* The third packet does not fit into one read.
SomePackets == <<2, 3, 5, 2>>

\* The second packet of the server is longer than one QUIC read allows.
SecondTooLong == {<<"server", 2>>}

VARIABLE subject

VARIABLES protocol, foreign, handle, signal, queued, sending, loop, endedBy, line, arrived,
          closes, is_connected

linkVars == <<protocol, foreign, handle, signal, queued, sending, loop, endedBy, line, arrived,
              closes, is_connected>>

Link == INSTANCE AdapterLink WITH
  Kinds <- LinkKinds, Capacity <- LinkCapacity, MaxPackets <- LinkPackets,
  kind <- protocol, accepted <- queued, taken <- sending, wire <- line, delivered <- arrived

VARIABLES queue, worker, command, bound, asked, answer, call, connectedFlags, reported, link,
          written, closedEvents

connectionVars == <<queue, worker, command, bound, asked, answer, call, connectedFlags, reported,
                    link, written, closedEvents>>

Connection == INSTANCE LockFreeConnection WITH
  kind <- asked, is_connected <- connectedFlags, closed <- closedEvents

VARIABLES commands, internal, data, batch, batch_size, tasks, application, via, others, tried,
          connected, sent, failed, closed, stats

actorVars == <<commands, internal, data, batch, batch_size, tasks, application, via, others, tried,
               connected, sent, failed, closed, stats>>

Agent == INSTANCE Actor WITH
  MaxPackets <- ActorPackets, answer <- tried

-----------------------------------------------------------------------------
all == <<subject, vars, linkVars, connectionVars, actorVars>>

MCInit ==
  /\ subject \in {"framing", "link", "connection", "actor"}
  /\ Init /\ Agent!Init
  /\ Connection!Init /\ (subject = "connection" \/ (reported /\ link))
  /\ Link!Init /\ (subject = "link" \/ (protocol = "quic" /\ ~foreign))

FramingStep(A) == subject = "framing" /\ A /\ UNCHANGED <<subject, linkVars, connectionVars, actorVars>>
LinkStep(A) == subject = "link" /\ A /\ UNCHANGED <<subject, vars, connectionVars, actorVars>>
ConnectionStep(A) == subject = "connection" /\ A /\ UNCHANGED <<subject, vars, linkVars, actorVars>>
ActorStep(A) == subject = "actor" /\ A /\ UNCHANGED <<subject, vars, linkVars, connectionVars>>

MCNext ==
  \/ FramingStep(Next) \/ LinkStep(Link!Next) \/ ConnectionStep(Connection!Next) \/ ActorStep(Agent!Next)

\* The fairness that each module states, of the steps of the subject.
MCFairness ==
  /\ WF_all(FramingStep(Read \/ EndOfStream)) /\ WF_all(FramingStep(SenderSeesClose))
  /\ \A e \in Link!Ends : WF_all(LinkStep(Link!LoopStep(e)))
  /\ WF_all(ConnectionStep(Connection!WorkerStep))
  /\ \A h \in Handles : WF_all(ConnectionStep(Connection!Return(h)))
  /\ \A t \in Agent!Tasks : WF_all(ActorStep(Agent!Step(t)))

MCSpec == MCInit /\ [][MCNext]_all /\ MCFairness

-----------------------------------------------------------------------------
(* The type invariants of the four modules.                                *)
TypesOK ==
  CASE subject = "framing" -> TypeOK [] subject = "link" -> Link!TypeOK
    [] subject = "connection" -> Connection!TypeOK [] subject = "actor" -> Agent!TypeOK

(* AdapterLink: packets arrive as they were sent, whatever the peer does,  *)
(* and the end of a loop is announced once, unless it was asked to end or  *)
(* a QUIC write failed.                                                    *)
LinkFaithful == subject = "link" => Link!InOrder /\ Link!AnnouncedOnce

(* LockFreeConnection: sends take effect in order, at most once, and those *)
(* that returned Ok did; a handle says "not connected" only of a connection*)
(* that is closed, or that said so itself at the start.                    *)
CommandsOnce == subject = "connection" => Connection!InOrderOnce /\ Connection!FalseMeansClosed

(* Actor: packets of either way keep their order, none is sent twice, and  *)
(* between batches the counters of packets and batches agree.              *)
BatchesInOrder == subject = "actor" => Agent!OrderKept /\ Agent!CountersAgree

(* TcpFraming and AdapterLink: if one end's loop ends, so does the other's.*)
LinksEnd == BothEnd /\ Link!BothEnd

(* LockFreeConnection: given a second worker thread every call returns, but*)
(* possibly that of the last caller to be woken.                           *)
CallsReturnButOne == Connection!CallsReturnButOne

(* Actor: a packet that was accepted is tried while the connection lives,  *)
(* and an actor that was shut down ends with its connection.               *)
ActorEnds == Agent!AcceptedIsTried /\ Agent!ActorEnds
=============================================================================
