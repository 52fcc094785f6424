-------------------------- MODULE RequestContract --------------------------
(***************************************************************************)
(* What a request API promises its callers, without ids, maps or channels: *)
(* a request is opened once, ends once, and ends with an answer only if the*)
(* peer answered this request.                                             *)
(***************************************************************************)
CONSTANT Requests

VARIABLES
  phase,   \* "idle", "open", "answered" or "failed"
  served   \* the requests the peer has answered

vars == <<phase, served>>

Init ==
  /\ phase = [r \in Requests |-> "idle"]
  /\ served = {}

Open(r) ==
  /\ phase[r] = "idle"
  /\ phase' = [phase EXCEPT ![r] = "open"]
  /\ UNCHANGED served

\* The peer only ever sees requests that were opened; it may answer one whose
\* caller has given up.
Serve(r) ==
  /\ phase[r] # "idle"
  /\ served' = served \cup {r}
  /\ UNCHANGED phase

Answer(r) ==
  /\ phase[r] = "open"
  /\ r \in served
  /\ phase' = [phase EXCEPT ![r] = "answered"]
  /\ UNCHANGED served

Fail(r) ==
  /\ phase[r] \in {"idle", "open"}
  /\ phase' = [phase EXCEPT ![r] = "failed"]
  /\ UNCHANGED served

Next == \E r \in Requests : Open(r) \/ Serve(r) \/ Answer(r) \/ Fail(r)

Spec == Init /\ [][Next]_vars
=============================================================================
