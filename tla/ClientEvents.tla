----------------------------- MODULE ClientEvents -----------------------------
(***************************************************************************)
(* From the packets of one client connection to the events its application *)
(* sees (src/src/event.rs, on_event of src/src/transport/transport.rs,     *)
(* start_event_forwarding of src/src/transport/client.rs).                 *)
(*                                                                         *)
(* The Transport keeps one broadcast channel.  Every connect() starts a    *)
(* forwarding task that turns its events into ClientEvents on a second     *)
(* channel, to which the application subscribes.  A request becomes a      *)
(* context whose clones, one per subscriber, share a flag that says        *)
(* whether it was answered.                                                *)
(*                                                                         *)
(* Both channels hold Capacity values; a slower receiver loses the oldest  *)
(* ones and is told so.  The channels never close while the client lives.  *)
(***************************************************************************)
EXTENDS Naturals, Sequences, FiniteSets

CONSTANTS
  Kinds,        \* of events: "request", "message"
  Capacity,     \* of both broadcast channels
  MaxEvents,    \* bound: events of the connection
  MaxConnects,  \* bound: calls of connect()
  Subscribers   \* receivers of the second channel

VARIABLES
  events,       \* all that was sent into the first channel
  connects,     \* where in it each forwarding task subscribed
  forwarder,    \* position of each forwarding task, or Ended
  client,       \* all that was sent into the second channel
  at,           \* position of each subscriber
  holding,      \* contexts that each subscriber has not dropped, indices into client
  responded,    \* contexts whose flag is set
  responses     \* requests answered, as indices into events

vars == <<events, connects, forwarder, client, at, holding, responded, responses>>

Ended == MaxEvents + 1

TypeOK ==
  /\ events \in Seq(Kinds) /\ Len(events) <= MaxEvents
  /\ Len(connects) <= MaxConnects /\ Len(forwarder) = Len(connects)
  /\ \A f \in DOMAIN forwarder : forwarder[f] \in connects[f]..Ended
  /\ \A i \in DOMAIN client : client[i].event \in 1..Len(events)
  /\ \A a \in Subscribers : at[a] <= Len(client) /\ holding[a] \subseteq 1..at[a]
  /\ responded \subseteq {i \in DOMAIN client : events[client[i].event] = "request"}

Init ==
  /\ events = <<>> /\ connects = <<>> /\ forwarder = <<>> /\ client = <<>>
  /\ at = [a \in Subscribers |-> 0] /\ holding = [a \in Subscribers |-> {}]
  /\ responded = {} /\ responses = <<>>

\* A receiver at this position in a channel of this length has lost values.
Lags(position, length) == length - position > Capacity

-----------------------------------------------------------------------------
\* connect: a forwarding task subscribes, next to those of earlier connects.
Connect ==
  /\ Len(connects) < MaxConnects
  /\ connects' = Append(connects, Len(events))
  /\ forwarder' = Append(forwarder, Len(events))
  /\ UNCHANGED <<events, client, at, holding, responded, responses>>

\* on_event: responses go to the request tracker, everything else into the
\* channel.
OnEvent(kind) ==
  /\ connects # <<>> /\ Len(events) < MaxEvents
  /\ events' = Append(events, kind)
  /\ UNCHANGED <<connects, forwarder, client, at, holding, responded, responses>>

\* Mutant: the task stays behind and forwards the event once more.
ForwardAgain(f) ==
  /\ forwarder[f] < Len(events) /\ ~Lags(forwarder[f], Len(events))
  /\ client' = Append(client, [event |-> forwarder[f] + 1, by |-> f])
  /\ Len(client) < MaxEvents * MaxConnects
  /\ UNCHANGED <<events, connects, forwarder, at, holding, responded, responses>>

\* The task handles requests itself and converts the rest; each context that it
\* makes has a flag of its own.
Forward(f) ==
  /\ forwarder[f] < Len(events) /\ ~Lags(forwarder[f], Len(events))
  /\ forwarder' = [forwarder EXCEPT ![f] = @ + 1]
  /\ client' = Append(client, [event |-> forwarder[f] + 1, by |-> f])
  /\ UNCHANGED <<events, connects, at, holding, responded, responses>>

\* A task that lost an event ends.
ForwarderLags(f) ==
  /\ forwarder[f] # Ended /\ Lags(forwarder[f], Len(events))
  /\ forwarder' = [forwarder EXCEPT ![f] = Ended]
  /\ UNCHANGED <<events, connects, client, at, holding, responded, responses>>

-----------------------------------------------------------------------------
(* Subscribers                                                             *)

\* The subscriber receives a clone of the context.
Receive(a) ==
  /\ at[a] < Len(client) /\ ~Lags(at[a], Len(client))
  /\ at' = [at EXCEPT ![a] = @ + 1]
  /\ holding' = [holding EXCEPT ![a] = @ \cup {at[a] + 1}]
  /\ UNCHANGED <<events, connects, forwarder, client, responded, responses>>

SubscriberLags(a) ==
  /\ Lags(at[a], Len(client))
  /\ at' = [at EXCEPT ![a] = Len(client) - Capacity]
  /\ UNCHANGED <<events, connects, forwarder, client, holding, responded, responses>>

\* Mutant: each clone has a flag of its own.
RespondPerClone(a, c) ==
  /\ c \in holding[a]
  /\ holding' = [holding EXCEPT ![a] = @ \ {c}]
  /\ IF events[client[c].event] = "request"
     THEN responded' = responded \cup {c} /\ responses' = Append(responses, client[c].event)
     ELSE UNCHANGED <<responded, responses>>
  /\ UNCHANGED <<events, connects, forwarder, client, at>>

\* respond consumes the context; only the first of the clones sends.
Respond(a, c) ==
  /\ c \in holding[a]
  /\ holding' = [holding EXCEPT ![a] = @ \ {c}]
  /\ IF events[client[c].event] = "request" /\ c \notin responded
     THEN responded' = responded \cup {c} /\ responses' = Append(responses, client[c].event)
     ELSE UNCHANGED <<responded, responses>>
  /\ UNCHANGED <<events, connects, forwarder, client, at>>

DropContext(a, c) ==
  /\ c \in holding[a]
  /\ holding' = [holding EXCEPT ![a] = @ \ {c}]
  /\ UNCHANGED <<events, connects, forwarder, client, at, responded, responses>>

-----------------------------------------------------------------------------
Next ==
  \/ Connect
  \/ \E kind \in Kinds : OnEvent(kind)
  \/ \E f \in DOMAIN forwarder : Forward(f) \/ ForwarderLags(f)
  \/ \E a \in Subscribers :
       \/ Receive(a) \/ SubscriberLags(a)
       \/ \E c \in holding[a] : Respond(a, c) \/ DropContext(a, c)

Spec == Init /\ [][Next]_vars

-----------------------------------------------------------------------------
(* Properties                                                              *)

(* However many subscribers hold clones of its contexts, a request gets at  *)
(* most one response for each forwarding task that was running when it came *)
(* in: one, as long as the client connected once.                           *)
RespondOnce ==
  \A e \in DOMAIN events :
    Cardinality({i \in DOMAIN responses : responses[i] = e})
      <= Cardinality({f \in DOMAIN connects : connects[f] < e})

(* A forwarding task passes on the events from its subscription on, in      *)
(* order, each once and without a gap, until it ends.                       *)
ForwardedInOrder ==
  \A i \in DOMAIN client :
    LET f == client[i].by
        before == {j \in 1..(i - 1) : client[j].by = f}
    IN  /\ client[i].event > connects[f]
        /\ {client[j].event : j \in before} = (connects[f] + 1)..(client[i].event - 1)
=============================================================================
