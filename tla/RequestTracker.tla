--------------------------- MODULE RequestTracker ---------------------------
(***************************************************************************)
(* Request/response correlation of one Transport                           *)
(* (src/src/transport/transport.rs): the RequestTracker with its pending   *)
(* map, the request futures of Transport::request and                      *)
(* Transport::request_with_options, the callers that number the packets    *)
(* (TransportClient::request, TransportServer::request) and the response   *)
(* path of Transport::on_event.                                            *)
(*                                                                         *)
(* A request future is a model value and runs once.  A packet is abstracted*)
(* to its message id and to the request it belongs to; the content of a    *)
(* response is the request it answers.  The peer is external: it may answer*)
(* a request late, in any order, more than once, or never.                 *)
(***************************************************************************)
EXTENDS Naturals

CONSTANTS
  Requests,        \* the request futures
  OptionRequests,  \* those issued through request_with_options
  Counters,        \* message_id_counter instances numbering the other requests
  CounterStart,    \* their first value: 1 in a client, 20000 in a server
  UserIds,         \* ids the application sets in TransportOptions::message_id
  MaxId,           \* bound: no counter is drawn past this id
  NoRequest,       \* "no entry" in the pending map
  Empty, Dropped   \* a oneshot channel without value / whose sender is gone

\* The id generator inside RequestTracker, used by request_with_options.
Tracker == "tracker"

Ids == 1..MaxId
Sources == Counters \cup {Tracker}

ASSUME RequestTrackerAssumption ==
  /\ OptionRequests \subseteq Requests
  /\ Tracker \notin Counters
  /\ MaxId \in Nat
  /\ CounterStart \in Nat \ {0}
  /\ UserIds \subseteq Ids
  /\ NoRequest \notin Requests
  /\ Empty \notin Requests /\ Dropped \notin Requests /\ Empty # Dropped

VARIABLES
  nextId,    \* next value of each id generator
  pending,   \* RequestTracker::pending: id -> request holding the sender
  status,    \* progress or outcome of each request future
  id,        \* message id of each request, 0 before it has one
  chan,      \* the oneshot channel of each request
  link,      \* "up", "dead" (event loop ended, session_id still Some), "closed"
  hold,      \* the close of this connection: not begun ("free"), which kind holds
             \* connection_adapter, done with it ("over"), or dropped while it held it
  atPeer,    \* requests whose packet was handed to the connection
  answered,  \* requests the peer has answered at least once
  replies    \* response packets on their way to on_event

vars == <<nextId, pending, status, id, chan, link, hold, atPeer, answered, replies>>

Active == {"registered", "waiting"}
Outcomes == {"completed", "timeout", "connectionClosed", "sendFailed",
             "notConnected", "notARequest", "cancelled"}
Replies == [id : Ids, of : Requests]

TypeOK ==
  /\ nextId \in [Sources -> Nat \ {0}]
  /\ pending \in [Ids -> Requests \cup {NoRequest}]
  /\ status \in [Requests -> {"idle"} \cup Active \cup Outcomes]
  /\ id \in [Requests -> Ids \cup {0}]
  /\ chan \in [Requests -> Requests \cup {Empty, Dropped}]
  /\ link \in {"up", "dead", "closed"}
  /\ hold \in {"free", "graceful", "forced", "over", "abandoned"}
  /\ atPeer \subseteq Requests
  /\ answered \subseteq Requests
  /\ replies \subseteq Replies

Init ==
  /\ nextId = [s \in Sources |-> IF s = Tracker THEN 1 ELSE CounterStart]
  /\ pending = [i \in Ids |-> NoRequest]
  /\ status = [r \in Requests |-> "idle"]
  /\ id = [r \in Requests |-> 0]
  /\ chan = [r \in Requests |-> Empty]
  /\ link = "up" /\ hold = "free"
  /\ atPeer = {}
  /\ answered = {}
  /\ replies = {}

-----------------------------------------------------------------------------
(* The tracker                                                             *)

\* The oneshot receiver of r is still held by its future.
ReceiverAlive(r) == status[r] \in Active

\* Mutant: the tracker overrides the id the packet carries with its own.
RegisterOverridingId(r, i) ==
  /\ pending' = [pending EXCEPT ![nextId[Tracker]] = r]
  /\ id' = [id EXCEPT ![r] = i]
  /\ status' = [status EXCEPT ![r] = "registered"]
  /\ UNCHANGED chan

\* register_with_id: the insert replaces, and so drops, an older sender.
RegisterWithId(r, i) ==
  LET old == pending[i]
  IN  /\ pending' = [pending EXCEPT ![i] = r]
      /\ chan' = [q \in Requests |-> IF q = old /\ chan[q] = Empty
                                     THEN Dropped ELSE chan[q]]
      /\ id' = [id EXCEPT ![r] = i]
      /\ status' = [status EXCEPT ![r] = "registered"]

\* Mutant: responses are matched first come, first served, not by id.
CompleteInArrivalOrder(m) ==
  LET held == {i \in Ids : pending[i] # NoRequest}
  IN  IF held = {} THEN UNCHANGED <<pending, chan>>
      ELSE LET i == CHOOSE i \in held : \A j \in held : i <= j
           IN  /\ pending' = [pending EXCEPT ![i] = NoRequest]
               /\ chan' = [chan EXCEPT ![pending[i]] = m.of]

\* complete: remove the entry and send into its channel; a response without an
\* entry, and one whose receiver is gone, disappears.
Complete(m) ==
  LET q == pending[m.id]
  IN  /\ pending' = [pending EXCEPT ![m.id] = NoRequest]
      /\ chan' = [r \in Requests |-> IF r = q /\ ReceiverAlive(r)
                                     THEN m.of ELSE chan[r]]

-----------------------------------------------------------------------------
(* Request futures                                                         *)

Finish(r, outcome) == status' = [status EXCEPT ![r] = outcome]

\* TransportServer::request_to_session hands any packet to Transport::request,
\* which refuses one that is not a Request.
NotARequest(r) ==
  /\ status[r] = "idle" /\ r \notin OptionRequests
  /\ link # "closed"
  /\ Finish(r, "notARequest")
  /\ UNCHANGED <<nextId, pending, id, chan, link, hold, atPeer, answered, replies>>

\* TransportClient::request and TransportServer::request_to_session check
\* is_connected first ...
RequestRefused(r) ==
  /\ status[r] = "idle" /\ r \notin OptionRequests
  /\ link = "closed"
  /\ Finish(r, "notConnected")
  /\ UNCHANGED <<nextId, pending, id, chan, link, hold, atPeer, answered, replies>>

\* Mutant: the counter is read, not fetched and incremented.
RequestWithoutIncrement(r, c) ==
  /\ status[r] = "idle" /\ r \notin OptionRequests
  /\ link # "closed"
  /\ nextId[c] <= MaxId
  /\ RegisterWithId(r, nextId[c])
  /\ UNCHANGED <<nextId, link, hold, atPeer, answered, replies>>

\* Mutant: the counter wraps around to 0 at the end of the id range.
RequestWrappingToZero(r, c) ==
  /\ status[r] = "idle" /\ r \notin OptionRequests
  /\ link # "closed"
  /\ nextId[c] <= MaxId
  /\ nextId' = [nextId EXCEPT ![c] = (@ + 1) % (MaxId + 1)]
  /\ RegisterWithId(r, nextId[c])
  /\ UNCHANGED <<link, hold, atPeer, answered, replies>>

\* ... then draw an id, build the packet and enter Transport::request, which
\* registers the id before it sends.
Request(r, c) ==
  /\ status[r] = "idle" /\ r \notin OptionRequests
  /\ link # "closed"
  /\ nextId[c] <= MaxId
  /\ nextId' = [nextId EXCEPT ![c] = @ + 1]
  /\ RegisterWithId(r, nextId[c])
  /\ UNCHANGED <<link, hold, atPeer, answered, replies>>

\* request_with_options: no connection check, the id is the caller's or the
\* tracker's own next_id.
RequestWithOptions(r) ==
  /\ status[r] = "idle" /\ r \in OptionRequests
  /\ \/ /\ nextId[Tracker] <= MaxId
        /\ nextId' = [nextId EXCEPT ![Tracker] = @ + 1]
        /\ RegisterWithId(r, nextId[Tracker])
     \/ \E i \in UserIds : RegisterWithId(r, i) /\ UNCHANGED nextId
  /\ UNCHANGED <<link, hold, atPeer, answered, replies>>

\* A send waits for connection_adapter; a close keeps it while it waits for the
\* event loop to end.
AdapterFree == hold \notin {"graceful", "forced"}

\* self.send(packet).await succeeds: the packet is queued for the peer.  Only now
\* does the timeout of the request start.
SendOk(r) ==
  /\ status[r] = "registered" /\ AdapterFree
  /\ link = "up"
  /\ Finish(r, "waiting")
  /\ atPeer' = atPeer \cup {r}
  /\ UNCHANGED <<nextId, pending, id, chan, link, hold, answered, replies>>

\* self.send(packet).await? fails: the future returns, the entry stays.
SendFails(r) ==
  /\ status[r] = "registered" /\ AdapterFree
  /\ link # "up"
  /\ Finish(r, "sendFailed")
  /\ UNCHANGED <<nextId, pending, id, chan, link, hold, atPeer, answered, replies>>

\* timeout(.., rx): a value or a dropped sender is seen before the deadline.
Receive(r) ==
  /\ status[r] = "waiting"
  /\ chan[r] # Empty
  /\ Finish(r, IF chan[r] = Dropped THEN "connectionClosed" ELSE "completed")
  /\ UNCHANGED <<nextId, pending, id, chan, link, hold, atPeer, answered, replies>>

\* Mutant: the deadline is only watched while the session is open.
TimeoutWhileConnected(r) ==
  /\ status[r] = "waiting"
  /\ chan[r] = Empty /\ link # "closed"
  /\ Finish(r, "timeout")
  /\ UNCHANGED <<nextId, pending, id, chan, link, hold, atPeer, answered, replies>>

\* The deadline passes: the receiver is dropped, the entry stays in pending.
Timeout(r) ==
  /\ status[r] = "waiting"
  /\ chan[r] = Empty
  /\ Finish(r, "timeout")
  /\ UNCHANGED <<nextId, pending, id, chan, link, hold, atPeer, answered, replies>>

\* The caller drops the future at one of its await points.
Cancel(r) ==
  /\ status[r] \in Active
  /\ Finish(r, "cancelled")
  /\ UNCHANGED <<nextId, pending, id, chan, link, hold, atPeer, answered, replies>>

-----------------------------------------------------------------------------
(* Response path, peer and connection                                      *)

\* Transport::on_event for a Response packet.
OnResponse(m) ==
  /\ m \in replies
  /\ replies' = replies \ {m}
  /\ Complete(m)
  /\ UNCHANGED <<nextId, status, id, link, hold, atPeer, answered>>

\* The peer answers with the id of the request packet it received.
PeerAnswers(r) ==
  /\ r \in atPeer
  /\ answered' = answered \cup {r}
  /\ replies' = replies \cup {[id |-> id[r], of |-> r]}
  /\ UNCHANGED <<nextId, pending, status, id, chan, link, hold, atPeer>>

\* A response is lost with its connection, or because the event consumer loop
\* lagged behind the broadcast channel and stopped.
ReplyLost(m) ==
  /\ m \in replies
  /\ replies' = replies \ {m}
  /\ UNCHANGED <<nextId, pending, status, id, chan, link, hold, atPeer, answered>>

\* The event loop of the connection ends, because the peer is gone or a close asked
\* for it; nothing touches the tracker, and RequestTracker::clear has no caller.
LoopEnds ==
  /\ link = "up"
  /\ link' = "dead"
  /\ UNCHANGED <<nextId, pending, status, id, chan, hold, atPeer, answered, replies>>

\* close_session ("graceful") or force_close_session ("forced"), the one close of the
\* connection that try_start_closing admits, locks connection_adapter.
CloseBegins(kind) ==
  /\ link # "closed" /\ hold = "free"
  /\ hold' = kind
  /\ UNCHANGED <<nextId, pending, status, id, chan, link, atPeer, answered, replies>>

\* conn.close() returns once the loop has ended; a graceful close gives up at its
\* deadline, a forced one has none.
CloseReleases ==
  /\ \/ hold = "graceful"
     \/ hold = "forced" /\ link = "dead"
  /\ hold' = "over"
  /\ UNCHANGED <<nextId, pending, status, id, chan, link, atPeer, answered, replies>>

\* The caller drops the close, and with it the lock; the session stays.
CloseDropped ==
  /\ ~AdapterFree
  /\ hold' = "abandoned"
  /\ UNCHANGED <<nextId, pending, status, id, chan, link, atPeer, answered, replies>>

\* The close ends: session_id becomes None.
Close ==
  /\ link # "closed" /\ hold = "over"
  /\ link' = "closed"
  /\ UNCHANGED <<nextId, pending, status, id, chan, hold, atPeer, answered, replies>>

\* Mutant: a new connection restarts the message ids.
ReconnectResettingIds ==
  /\ link # "up" /\ AdapterFree
  /\ \A r \in Requests : status[r] \notin Active
  /\ link' = "up" /\ hold' = "free"
  /\ nextId' = [s \in Sources |-> IF s = Tracker THEN 1 ELSE CounterStart]
  /\ UNCHANGED <<pending, status, id, chan, atPeer, answered, replies>>

\* TransportClient::connect takes &mut self: no request or disconnect is borrowing it.
Reconnect ==
  /\ link # "up" /\ AdapterFree
  /\ \A r \in Requests : status[r] \notin Active
  /\ link' = "up" /\ hold' = "free"
  /\ UNCHANGED <<nextId, pending, status, id, chan, atPeer, answered, replies>>

RequestStep(r) ==
  \/ NotARequest(r) \/ RequestRefused(r)
  \/ \E c \in Counters : Request(r, c)
  \/ RequestWithOptions(r)
  \/ SendOk(r) \/ SendFails(r) \/ Receive(r) \/ Timeout(r) \/ Cancel(r)

ConnectionStep ==
  \/ LoopEnds \/ Reconnect
  \/ \E kind \in {"graceful", "forced"} : CloseBegins(kind)
  \/ CloseReleases \/ CloseDropped \/ Close

Next ==
  \/ \E r \in Requests : RequestStep(r) \/ PeerAnswers(r)
  \/ \E m \in replies : OnResponse(m) \/ ReplyLost(m)
  \/ ConnectionStep

Spec == Init /\ [][Next]_vars

\* The runtime polls a future that is ready, the mutex is handed on in the order of
\* the callers, and timers fire: that of a request once it is sent, that of a graceful
\* close.  Nothing is assumed of the peer, of the application, or of the event loop,
\* which a write to a peer that does not read may keep from ending.
Fairness ==
  /\ \A r \in Requests : /\ WF_vars(SendOk(r) \/ SendFails(r))
                         /\ WF_vars(Receive(r) \/ Timeout(r))
  /\ WF_vars(CloseReleases)

FairSpec == Spec /\ Fairness

-----------------------------------------------------------------------------
(* Properties                                                              *)

(* No lost wake-up: a future that still waits on an empty channel owns the  *)
(* pending entry of its id, so the response that carries that id reaches it.*)
(* Holds however ids collide: an overwritten sender is a dropped sender.    *)
NoLostWakeup ==
  \A r \in Requests :
    ReceiverAlive(r) /\ chan[r] = Empty => pending[id[r]] = r

(* Correlation: the response a request receives is the answer to that very  *)
(* request, whatever was timed out, cancelled, answered late or twice.      *)
Correlated ==
  \A r \in Requests : chan[r] \in Requests => chan[r] = r

(* No request loses its entry to another request: request never fails with  *)
(* "Connection closed" because somebody else registered the same id.        *)
NeverEvicted ==
  \A r \in Requests : chan[r] # Dropped

\* The abstraction of the tracker's state to the contract's.
Phase == [r \in Requests |-> CASE status[r] = "idle" -> "idle"
                               [] status[r] \in Active -> "open"
                               [] status[r] = "completed" -> "answered"
                               [] OTHER -> "failed"]

Contract == INSTANCE RequestContract WITH phase <- Phase, served <- answered

(* The tracker implements the request contract: a request completes at most *)
(* once, and only when the peer has answered this request.                  *)
ContractSafety == Contract!Spec

(* A request that was sent ends, without any help from the peer.  One that  *)
(* is not sent yet has no deadline: it gets past the send unless a forced   *)
(* close keeps the connection for good, waiting for an event loop that does *)
(* not end.                                                                 *)
RequestsEnd ==
  \A r \in Requests :
    /\ (status[r] = "waiting") ~> (status[r] \in Outcomes)
    /\ (status[r] = "registered") ~>
         (status[r] # "registered" \/ [](hold = "forced" /\ link = "up"))

(* One generator numbers all requests of this Transport.                    *)
SingleSource ==
  \/ OptionRequests = {} /\ \E c \in Counters : Counters = {c}
  \/ OptionRequests = Requests /\ UserIds = {}
=============================================================================
