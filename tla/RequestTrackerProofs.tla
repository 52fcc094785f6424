------------------------ MODULE RequestTrackerProofs ------------------------
(***************************************************************************)
(* Proofs about RequestTracker, for every set of requests, every number of *)
(* generators and every id range.                                          *)
(***************************************************************************)
EXTENDS RequestTracker, TLAPS

-----------------------------------------------------------------------------
(* Type correctness                                                        *)

(* Every request that was issued has an id, so a response always carries    *)
(* one.  TypeOK is not inductive without it.                                *)
IdAssigned ==
  /\ \A r \in Requests : ReceiverAlive(r) => id[r] # 0
  /\ \A r \in atPeer : id[r] # 0

TypeInv == TypeOK /\ IdAssigned

(* Registering a request under an id of the id range keeps the types of the *)
(* variables register_with_id writes.                                       *)
LEMMA RegisterType ==
  ASSUME TypeInv, NEW r \in Requests, NEW i \in Ids, RegisterWithId(r, i)
  PROVE  /\ pending' \in [Ids -> Requests \cup {NoRequest}]
         /\ status' \in [Requests -> {"idle"} \cup Active \cup Outcomes]
         /\ id' \in [Requests -> Ids \cup {0}]
         /\ chan' \in [Requests -> Requests \cup {Empty, Dropped}]
         /\ \A q \in Requests : status'[q] \in Active => id'[q] # 0
         /\ \A q \in Requests : id[q] # 0 => id'[q] # 0
  BY RequestTrackerAssumption
  DEF TypeInv, TypeOK, IdAssigned, ReceiverAlive, RegisterWithId, Ids, Active

LEMMA TypeInit == Init => TypeInv
  BY RequestTrackerAssumption
  DEF Init, TypeInv, TypeOK, IdAssigned, ReceiverAlive, Sources, Active, Ids

LEMMA TypeStep == TypeInv /\ [Next]_vars => TypeInv'
<1> SUFFICES ASSUME TypeInv, [Next]_vars PROVE TypeInv'
  OBVIOUS
<1> USE RequestTrackerAssumption
<1>1. ASSUME NEW r \in Requests, NEW c \in Counters, Request(r, c) PROVE TypeInv'
  <2>1. nextId[c] \in Ids /\ nextId' \in [Sources -> Nat \ {0}]
    BY <1>1 DEF Request, TypeInv, TypeOK, Ids, Sources
  <2>2. RegisterWithId(r, nextId[c])
    BY <1>1 DEF Request
  <2> QED
    BY <1>1, <2>1, <2>2, RegisterType
    DEF Request, TypeInv, TypeOK, IdAssigned, ReceiverAlive
<1>2. ASSUME NEW r \in Requests, RequestWithOptions(r) PROVE TypeInv'
  <2>1. PICK i \in Ids : RegisterWithId(r, i) /\ nextId' \in [Sources -> Nat \ {0}]
    BY <1>2 DEF RequestWithOptions, TypeInv, TypeOK, Ids, Sources
  <2> QED
    BY <1>2, <2>1, RegisterType
    DEF RequestWithOptions, TypeInv, TypeOK, IdAssigned, ReceiverAlive
<1>3. ASSUME NEW r \in Requests, NEW outcome \in {"waiting"} \cup Outcomes,
             outcome = "waiting" => status[r] = "registered",
             Finish(r, outcome), atPeer' \in {atPeer, atPeer \cup {r}},
             atPeer' # atPeer => outcome = "waiting",
             UNCHANGED <<nextId, pending, id, chan, link, hold, answered, replies>>
      PROVE  TypeInv'
  BY <1>3 DEF Finish, TypeInv, TypeOK, IdAssigned, ReceiverAlive, Active, Outcomes
<1>4. ASSUME NEW r \in Requests,
             \/ NotARequest(r) \/ RequestRefused(r) \/ SendOk(r) \/ SendFails(r)
             \/ Receive(r) \/ Timeout(r) \/ Cancel(r)
      PROVE  TypeInv'
  <2>1. CASE SendOk(r)
    BY <2>1, <1>3 DEF SendOk
  <2>2. CASE Receive(r)
    BY <2>2, <1>3 DEF Receive, Outcomes
  <2> QED
    BY <1>4, <2>1, <2>2, <1>3
    DEF NotARequest, RequestRefused, SendFails, Timeout, Cancel, Outcomes
<1>5. ASSUME NEW r \in Requests, PeerAnswers(r) PROVE TypeInv'
  <2>1. [id |-> id[r], of |-> r] \in Replies
    BY <1>5 DEF PeerAnswers, TypeInv, TypeOK, IdAssigned, Replies
  <2> QED
    BY <1>5, <2>1 DEF PeerAnswers, TypeInv, TypeOK, IdAssigned, ReceiverAlive
<1>6. ASSUME NEW m \in replies, OnResponse(m) PROVE TypeInv'
  <2>1. m.id \in Ids /\ m.of \in Requests
    BY DEF TypeInv, TypeOK, Replies
  <2> QED
    BY <1>6, <2>1
    DEF OnResponse, Complete, TypeInv, TypeOK, IdAssigned, ReceiverAlive
<1>7. CASE UNCHANGED <<nextId, pending, status, id, chan, atPeer, answered>>
           /\ link' \in {"up", "dead", "closed"} /\ replies' \subseteq replies
           /\ hold' \in {"free", "graceful", "forced", "over", "abandoned"}
  BY <1>7 DEF TypeInv, TypeOK, IdAssigned, ReceiverAlive
<1>8. ASSUME NEW m \in replies, ReplyLost(m) PROVE TypeInv'
  BY <1>8, <1>7 DEF ReplyLost, TypeInv, TypeOK
<1>9. CASE ConnectionStep \/ UNCHANGED vars
  BY <1>9, <1>7 DEF ConnectionStep, LoopEnds, CloseBegins, CloseReleases, CloseDropped, Close,
                    Reconnect, vars, TypeInv, TypeOK
<1> QED
  BY <1>1, <1>2, <1>4, <1>5, <1>6, <1>8, <1>9 DEF Next, RequestStep

(* In every reachable state the variables have the types the code gives     *)
(* them; in particular a response never carries the id 0 that no request    *)
(* ever draws.                                                              *)
THEOREM TypeCorrect == Spec => []TypeOK
<1>1. TypeInv => TypeOK
  BY DEF TypeInv
<1> QED
  BY TypeInit, TypeStep, <1>1, PTL DEF Spec

-----------------------------------------------------------------------------
(* No lost wake-up, whatever the ids                                       *)

(* An entry of the pending map sits under the id of the request that owns   *)
(* it, and a future that was not polled yet is neither numbered nor         *)
(* signalled.                                                               *)
WakeupInv ==
  /\ TypeInv
  /\ NoLostWakeup
  /\ \A i \in Ids : pending[i] # NoRequest => id[pending[i]] = i
  /\ \A r \in Requests : status[r] = "idle" => id[r] = 0 /\ chan[r] = Empty

LEMMA WakeupInit == Init => WakeupInv
  BY TypeInit, RequestTrackerAssumption
  DEF Init, WakeupInv, NoLostWakeup, ReceiverAlive, Active, Ids

(* Registering a fresh request keeps the owners of the entries right; the   *)
(* request it evicts is signalled through its dropped sender.               *)
LEMMA RegisterWakeup ==
  ASSUME WakeupInv, TypeInv', NEW r \in Requests, NEW i \in Ids,
         status[r] = "idle", RegisterWithId(r, i)
  PROVE  WakeupInv'
<1> USE RequestTrackerAssumption DEF WakeupInv, TypeInv, TypeOK
<1>1. \A j \in Ids : pending[j] # r
  BY DEF Ids
<1>2. \A q \in Requests : q # r => id'[q] = id[q] /\ status'[q] = status[q]
  BY DEF RegisterWithId
<1>3. id'[r] = i /\ status'[r] = "registered"
  BY DEF RegisterWithId
<1>4. \A j \in Ids : pending'[j] # NoRequest => id'[pending'[j]] = j
  BY <1>1, <1>2, <1>3 DEF RegisterWithId
<1>5. NoLostWakeup'
  <2> SUFFICES ASSUME NEW q \in Requests, status'[q] \in Active, chan'[q] = Empty
               PROVE  pending'[id'[q]] = q
    BY DEF NoLostWakeup, ReceiverAlive
  <2>1. CASE q = r
    BY <2>1, <1>3 DEF RegisterWithId
  <2>2. CASE q # r
    <3>1. status[q] \in Active /\ chan[q] = Empty /\ q # pending[i]
      BY <2>2, <1>2 DEF RegisterWithId
    <3>2. pending[id[q]] = q /\ id[q] \in Ids /\ id[q] # i
      BY <3>1 DEF NoLostWakeup, ReceiverAlive, IdAssigned
    <3> QED
      BY <3>2, <2>2, <1>2 DEF RegisterWithId
  <2> QED
    BY <2>1, <2>2
<1>6. \A q \in Requests : status'[q] = "idle" => id'[q] = 0 /\ chan'[q] = Empty
  <2> SUFFICES ASSUME NEW q \in Requests, status'[q] = "idle"
               PROVE  id'[q] = 0 /\ chan'[q] = Empty
    OBVIOUS
  <2>1. q # r /\ status[q] = "idle" /\ id[q] = 0 /\ chan[q] = Empty
    BY <1>2, <1>3
  <2>2. pending[i] # q
    <3>1. i # 0 /\ q # NoRequest
      BY DEF Ids
    <3> QED
      BY <2>1, <3>1
  <2> QED
    BY <2>1, <2>2, <1>2 DEF RegisterWithId
<1> QED
  BY <1>4, <1>5, <1>6

LEMMA WakeupStep == WakeupInv /\ [Next]_vars => WakeupInv'
<1> SUFFICES ASSUME WakeupInv, [Next]_vars PROVE WakeupInv'
  OBVIOUS
<1> USE RequestTrackerAssumption
<1>t. TypeInv'
  BY TypeStep DEF WakeupInv
<1>1. ASSUME NEW r \in Requests, NEW c \in Counters, Request(r, c) PROVE WakeupInv'
  <2>1. nextId[c] \in Ids
    BY <1>1 DEF Request, WakeupInv, TypeInv, TypeOK, Ids, Sources
  <2> QED
    BY <1>1, <1>t, <2>1, RegisterWakeup DEF Request
<1>2. ASSUME NEW r \in Requests, RequestWithOptions(r) PROVE WakeupInv'
  <2>1. PICK i \in Ids : RegisterWithId(r, i)
    BY <1>2 DEF RequestWithOptions, WakeupInv, TypeInv, TypeOK, Ids, Sources
  <2> QED
    BY <1>2, <1>t, <2>1, RegisterWakeup DEF RequestWithOptions
<1>3. ASSUME NEW r \in Requests, NEW outcome \in {"waiting"} \cup Outcomes,
             outcome = "waiting" => status[r] = "registered",
             Finish(r, outcome), UNCHANGED <<pending, id, chan>>
      PROVE  WakeupInv'
  BY <1>3, <1>t
  DEF Finish, WakeupInv, TypeInv, TypeOK, NoLostWakeup, ReceiverAlive, Active, Outcomes
<1>4. ASSUME NEW r \in Requests,
             \/ NotARequest(r) \/ RequestRefused(r) \/ SendOk(r) \/ SendFails(r)
             \/ Receive(r) \/ Timeout(r) \/ Cancel(r)
      PROVE  WakeupInv'
  BY <1>4, <1>3
  DEF NotARequest, RequestRefused, SendOk, SendFails, Receive, Timeout, Cancel, Outcomes
<1>5. ASSUME NEW m \in replies, OnResponse(m) PROVE WakeupInv'
  <2>1. m.id \in Ids /\ m.of \in Requests
    BY DEF WakeupInv, TypeInv, TypeOK, Replies
  <2>2. UNCHANGED <<id, status>> /\ Complete(m)
    BY <1>5 DEF OnResponse
  <2>3. \A i \in Ids : pending'[i] # NoRequest => pending'[i] = pending[i] /\ i # m.id
    BY <2>1, <2>2 DEF Complete, WakeupInv, TypeInv, TypeOK
  <2>4. NoLostWakeup'
    <3> SUFFICES ASSUME NEW q \in Requests, status[q] \in Active, chan'[q] = Empty
                 PROVE  pending'[id[q]] = q
      BY <2>2 DEF NoLostWakeup, ReceiverAlive
    <3>1. q # pending[m.id] /\ chan[q] = Empty
      BY <2>1, <2>2 DEF Complete, ReceiverAlive, WakeupInv, TypeInv, TypeOK
    <3>2. pending[id[q]] = q /\ id[q] \in Ids
      BY <3>1 DEF WakeupInv, NoLostWakeup, ReceiverAlive, TypeInv, TypeOK, IdAssigned
    <3> QED
      BY <2>1, <2>2, <3>1, <3>2 DEF Complete, WakeupInv, TypeInv, TypeOK
  <2>5. \A q \in Requests : status[q] = "idle" => chan'[q] = chan[q]
    BY <2>2 DEF Complete, ReceiverAlive, Active
  <2> QED
    BY <1>t, <2>2, <2>3, <2>4, <2>5 DEF WakeupInv
<1>6. CASE UNCHANGED <<pending, status, id, chan>>
  BY <1>6, <1>t DEF WakeupInv, NoLostWakeup, ReceiverAlive
<1> QED
  BY <1>1, <1>2, <1>4, <1>5, <1>6
  DEF Next, RequestStep, PeerAnswers, ReplyLost, ConnectionStep, LoopEnds, CloseBegins,
      CloseReleases, CloseDropped, Close, Reconnect, vars

(* A request future that still waits on an empty channel owns the entry of  *)
(* its id, for every mix of generators and every id the application sets:   *)
(* register_with_id never silences the sender it replaces.                  *)
THEOREM NoLostWakeupTheorem == Spec => []NoLostWakeup
<1>1. WakeupInv => NoLostWakeup
  BY DEF WakeupInv
<1> QED
  BY WakeupInit, WakeupStep, <1>1, PTL DEF Spec

-----------------------------------------------------------------------------
(* Correlation, when one generator numbers all requests                    *)

(* The generators that number requests under SingleSource.                  *)
Numbering == IF OptionRequests = {} THEN Counters ELSE {Tracker}

(* Ids are drawn once and in order, so a late or duplicate response can only*)
(* meet the entry of the request it answers, or no entry.                   *)
CorrelationInv ==
  /\ WakeupInv
  /\ Correlated
  /\ NeverEvicted
  /\ \A r \in Requests : \A s \in Numbering : id[r] < nextId[s]
  /\ \A q, r \in Requests : id[q] = id[r] /\ id[q] # 0 => q = r
  /\ \A m \in replies : id[m.of] = m.id /\ m.of \in answered
  /\ answered \subseteq atPeer
  /\ \A r \in Requests : chan[r] \in Requests => r \in answered

LEMMA CorrelationInit == Init => CorrelationInv
  BY WakeupInit, RequestTrackerAssumption
  DEF Init, CorrelationInv, Correlated, NeverEvicted, Numbering, Sources

(* A request registered under an id above all earlier ones evicts nobody.   *)
LEMMA RegisterFresh ==
  ASSUME CorrelationInv, WakeupInv', NEW r \in Requests, NEW i \in Ids,
         \A q \in Requests : id[q] # i,
         status[r] = "idle", RegisterWithId(r, i),
         \A q \in Requests : \A s \in Numbering : id'[q] < nextId'[s],
         UNCHANGED <<atPeer, answered, replies>>
  PROVE  CorrelationInv'
<1> USE RequestTrackerAssumption DEF CorrelationInv, WakeupInv, TypeInv, TypeOK
<1>1. pending[i] = NoRequest
  OBVIOUS
<1>2. chan' = chan /\ id' = [id EXCEPT ![r] = i]
  BY <1>1 DEF RegisterWithId
<1>3. \A m \in replies : m.of \in Requests /\ m.of # r
  <2> SUFFICES ASSUME NEW m \in replies PROVE m.of \in Requests /\ m.of # r
    OBVIOUS
  <2>1. m.of \in Requests /\ m.of \in atPeer
    BY DEF Replies
  <2> QED
    BY <2>1 DEF IdAssigned
<1>4. \A m \in replies' : id'[m.of] = m.id /\ m.of \in answered'
  BY <1>2, <1>3
<1>5. \A q, p \in Requests : id'[q] = id'[p] /\ id'[q] # 0 => q = p
  BY <1>2
<1> QED
  BY <1>2, <1>4, <1>5 DEF Correlated, NeverEvicted

LEMMA CorrelationStep ==
  ASSUME SingleSource
  PROVE  CorrelationInv /\ [Next]_vars => CorrelationInv'
<1> SUFFICES ASSUME CorrelationInv, [Next]_vars PROVE CorrelationInv'
  OBVIOUS
<1> USE RequestTrackerAssumption
<1>w. WakeupInv'
  BY WakeupStep DEF CorrelationInv
<1>1. ASSUME NEW r \in Requests, NEW s \in Sources, Numbering = {s},
             status[r] = "idle", nextId[s] <= MaxId,
             nextId' = [nextId EXCEPT ![s] = @ + 1],
             RegisterWithId(r, nextId[s]), UNCHANGED <<atPeer, answered, replies>>
      PROVE  CorrelationInv'
  <2>1. nextId[s] \in Ids /\ nextId'[s] = nextId[s] + 1
    BY <1>1 DEF CorrelationInv, WakeupInv, TypeInv, TypeOK, Ids
  <2>2. \A q \in Requests : id[q] \in Nat /\ id[q] < nextId[s]
    BY <1>1 DEF CorrelationInv, WakeupInv, TypeInv, TypeOK, Ids
  <2>3. \A q \in Requests : id'[q] \in {id[q], nextId[s]}
    BY <1>1 DEF RegisterWithId, CorrelationInv, WakeupInv, TypeInv, TypeOK
  <2>4. \A q \in Requests : \A x \in Numbering : id'[q] < nextId'[x]
    BY <1>1, <2>1, <2>2, <2>3 DEF Ids
  <2>5. \A q \in Requests : id[q] # nextId[s]
    BY <2>1, <2>2 DEF Ids
  <2> QED
    BY <1>1, <1>w, <2>1, <2>4, <2>5, RegisterFresh
<1>2. ASSUME NEW r \in Requests, NEW c \in Counters, Request(r, c)
      PROVE  CorrelationInv'
  <2>1. Numbering = {c}
    BY <1>2 DEF Request, SingleSource, Numbering
  <2> QED
    BY <1>1, <1>2, <2>1 DEF Request, Sources
<1>3. ASSUME NEW r \in Requests, RequestWithOptions(r) PROVE CorrelationInv'
  <2>1. Numbering = {Tracker} /\ UserIds = {}
    BY <1>3 DEF RequestWithOptions, SingleSource, Numbering
  <2> QED
    BY <1>1, <1>3, <2>1 DEF RequestWithOptions, Sources
<1>4. ASSUME NEW r \in Requests,
             \/ NotARequest(r) \/ RequestRefused(r) \/ SendOk(r) \/ SendFails(r)
             \/ Receive(r) \/ Timeout(r) \/ Cancel(r)
      PROVE  CorrelationInv'
  <2>1. UNCHANGED <<nextId, id, chan, answered, replies>> /\ atPeer \subseteq atPeer'
    BY <1>4
    DEF NotARequest, RequestRefused, SendOk, SendFails, Receive, Timeout, Cancel
  <2> QED
    BY <2>1, <1>w DEF CorrelationInv, Correlated, NeverEvicted
<1>5. ASSUME NEW r \in Requests, PeerAnswers(r) PROVE CorrelationInv'
  BY <1>5, <1>w DEF PeerAnswers, CorrelationInv, Correlated, NeverEvicted
<1>6. ASSUME NEW m \in replies, OnResponse(m) PROVE CorrelationInv'
  <2>1. m.id \in Ids /\ m.of \in Requests /\ id[m.of] = m.id /\ m.of \in answered
    BY DEF CorrelationInv, WakeupInv, TypeInv, TypeOK, Replies
  <2>2. \A r \in Requests : r = pending[m.id] => r = m.of
    BY <2>1 DEF CorrelationInv, WakeupInv, Ids
  <2>3. \A r \in Requests : chan'[r] = chan[r] \/ (chan'[r] = r /\ r \in answered)
    BY <1>6, <2>1, <2>2
    DEF OnResponse, Complete, CorrelationInv, WakeupInv, TypeInv, TypeOK
  <2> QED
    BY <1>6, <1>w, <2>3 DEF OnResponse, CorrelationInv, Correlated, NeverEvicted
<1>7. ASSUME NEW m \in replies, ReplyLost(m) PROVE CorrelationInv'
  BY <1>7, <1>w DEF ReplyLost, CorrelationInv, Correlated, NeverEvicted
<1>8. CASE ConnectionStep \/ UNCHANGED vars
  BY <1>8, <1>w
  DEF ConnectionStep, LoopEnds, CloseBegins, CloseReleases, CloseDropped, Close, Reconnect,
      vars, CorrelationInv, Correlated, NeverEvicted
<1> QED
  BY <1>2, <1>3, <1>4, <1>5, <1>6, <1>7, <1>8 DEF Next, RequestStep

(* If one generator numbers the requests of a Transport, a request receives *)
(* the answer to that request only, through timeouts, late and duplicate    *)
(* answers, reconnects and entries that are never cleared.                  *)
THEOREM CorrelatedTheorem ==
  ASSUME SingleSource PROVE Spec => []Correlated
<1>1. CorrelationInv => Correlated
  BY DEF CorrelationInv
<1> QED
  BY CorrelationInit, CorrelationStep, <1>1, PTL DEF Spec

(* Under the same hypothesis no request is evicted by another one.          *)
THEOREM NeverEvictedTheorem ==
  ASSUME SingleSource PROVE Spec => []NeverEvicted
<1>1. CorrelationInv => NeverEvicted
  BY DEF CorrelationInv
<1> QED
  BY CorrelationInit, CorrelationStep, <1>1, PTL DEF Spec

-----------------------------------------------------------------------------
(* Refinement of the request contract                                      *)

(* How one step of the tracker looks to the contract, request by request.   *)
LEMMA PhaseUpdate ==
  ASSUME TypeOK, NEW r \in Requests, NEW x,
         status' = [status EXCEPT ![r] = x],
         x \in {"registered", "waiting"} \cup Outcomes
  PROVE  Phase' = [Phase EXCEPT ![r] = IF x \in Active THEN "open"
                                       ELSE IF x = "completed" THEN "answered"
                                       ELSE "failed"]
  BY DEF Phase, TypeOK, Active, Outcomes

(* If one generator numbers the requests, the tracker implements the        *)
(* contract: every step opens, serves, answers or fails one request of the  *)
(* contract, or stutters, and a request is answered only after the peer     *)
(* answered it.                                                             *)
THEOREM ContractRefined ==
  ASSUME SingleSource PROVE Spec => ContractSafety
<1>1. Init => Contract!Init
  BY DEF Init, Contract!Init, Phase, Active
<1>2. CorrelationInv /\ [Next]_vars => [Contract!Next]_(Contract!vars)
  <2> SUFFICES ASSUME CorrelationInv, [Next]_vars
               PROVE  Contract!Next \/ UNCHANGED <<Phase, answered>>
    BY DEF Contract!vars
  <2> USE RequestTrackerAssumption
  <2>t. TypeOK
    BY DEF CorrelationInv, WakeupInv, TypeInv
  <2>1. ASSUME NEW r \in Requests, NEW i, status[r] = "idle",
               RegisterWithId(r, i), answered' = answered
        PROVE  Contract!Open(r)
    <3>1. Phase[r] = "idle"
      BY <2>1 DEF Phase, Active
    <3>2. Phase' = [Phase EXCEPT ![r] = "open"]
      BY <2>1, <2>t, PhaseUpdate DEF RegisterWithId, Active
    <3> QED
      BY <2>1, <3>1, <3>2 DEF Contract!Open
  <2>2. ASSUME NEW r \in Requests, NEW x \in Outcomes \ {"completed"},
               status[r] \in {"idle"} \cup Active,
               Finish(r, x), answered' = answered
        PROVE  Contract!Fail(r)
    <3>1. Phase[r] \in {"idle", "open"}
      BY <2>2 DEF Phase, Active
    <3>2. Phase' = [Phase EXCEPT ![r] = "failed"]
      BY <2>2, <2>t, PhaseUpdate DEF Finish, Active, Outcomes
    <3> QED
      BY <2>2, <3>1, <3>2 DEF Contract!Fail
  <2>3. ASSUME NEW r \in Requests, SendOk(r)
        PROVE  UNCHANGED <<Phase, answered>>
    BY <2>3, <2>t DEF SendOk, Finish, Phase, TypeOK, Active
  <2>4. ASSUME NEW r \in Requests, Receive(r)
        PROVE  Contract!Answer(r) \/ Contract!Fail(r)
    <3>1. Finish(r, "completed") /\ answered' = answered
      BY <2>4 DEF Receive, CorrelationInv, NeverEvicted
    <3>2. r \in answered
      BY <2>4, <2>t DEF Receive, CorrelationInv, NeverEvicted, TypeOK
    <3>3. Phase[r] = "open"
      BY <2>4 DEF Receive, Phase, Active
    <3>4. Phase' = [Phase EXCEPT ![r] = "answered"]
      BY <3>1, <2>t, PhaseUpdate DEF Finish, Active, Outcomes
    <3> QED
      BY <3>1, <3>2, <3>3, <3>4 DEF Contract!Answer
  <2>5. ASSUME NEW r \in Requests, PeerAnswers(r)
        PROVE  Contract!Serve(r)
    <3>1. status[r] # "idle"
      BY <2>5 DEF PeerAnswers, CorrelationInv, WakeupInv, TypeInv, IdAssigned
    <3>2. Phase[r] # "idle" /\ Phase' = Phase
      BY <2>5, <3>1, <2>t DEF PeerAnswers, Phase, TypeOK, Active, Outcomes
    <3> QED
      BY <2>5, <3>2 DEF PeerAnswers, Contract!Serve
  <2>6. CASE UNCHANGED <<status, answered>>
    BY <2>6 DEF Phase
  <2>7. ASSUME NEW r \in Requests, RequestStep(r)
        PROVE  Contract!Next \/ UNCHANGED <<Phase, answered>>
    <3>1. CASE \E c \in Counters : Request(r, c)
      BY <3>1, <2>1 DEF Request, Contract!Next
    <3>2. CASE RequestWithOptions(r)
      BY <3>2, <2>1 DEF RequestWithOptions, Contract!Next
    <3>3. CASE NotARequest(r) \/ RequestRefused(r) \/ SendFails(r) \/ Timeout(r) \/ Cancel(r)
      BY <3>3, <2>2
      DEF NotARequest, RequestRefused, SendFails, Timeout, Cancel, Outcomes, Active,
          Contract!Next
    <3>4. CASE SendOk(r) \/ Receive(r)
      BY <3>4, <2>3, <2>4 DEF Contract!Next
    <3> QED
      BY <2>7, <3>1, <3>2, <3>3, <3>4 DEF RequestStep
  <2>8. ASSUME NEW r \in Requests, PeerAnswers(r) PROVE Contract!Next
    BY <2>5, <2>8 DEF Contract!Next
  <2> QED
    BY <2>6, <2>7, <2>8
    DEF Next, OnResponse, ReplyLost, ConnectionStep, LoopEnds, CloseBegins, CloseReleases,
        CloseDropped, Close, Reconnect, vars
<1> QED
  BY CorrelationInit, CorrelationStep, <1>1, <1>2, PTL
  DEF Spec, ContractSafety, Contract!Spec
=============================================================================
