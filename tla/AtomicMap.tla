----------------------------- MODULE AtomicMap -----------------------------
(***************************************************************************)
(* What the users of LockFreeHashMap rely on: a map whose operations take  *)
(* effect at one instant between call and return and answer with the value *)
(* the key had at that instant; a write may also fail, without effect.     *)
(***************************************************************************)
CONSTANTS Threads, Keys, Values, NoValue, Failed

VARIABLES
  map,     \* the value of each key, or NoValue
  open,    \* operation each thread is executing, or NoValue
  answer   \* answer to the last operation of each thread

vars == <<map, open, answer>>

Contents == Values \cup {NoValue}

\* Writing NoValue removes the key.
Operations ==
  [kind : {"get"}, key : Keys, value : {NoValue}]
    \cup [kind : {"write"}, key : Keys, value : Contents]

Init ==
  /\ map = [k \in Keys |-> NoValue]
  /\ open = [t \in Threads |-> NoValue]
  /\ answer = [t \in Threads |-> NoValue]

Call(t, operation) ==
  /\ open[t] = NoValue
  /\ open' = [open EXCEPT ![t] = operation]
  /\ UNCHANGED <<map, answer>>

TakeEffect(t) ==
  /\ open[t] # NoValue
  /\ map' = IF open[t].kind = "get" THEN map
            ELSE [map EXCEPT ![open[t].key] = open[t].value]
  /\ answer' = [answer EXCEPT ![t] = map[open[t].key]]
  /\ open' = [open EXCEPT ![t] = NoValue]

Fail(t) ==
  /\ open[t] # NoValue /\ open[t].kind = "write"
  /\ answer' = [answer EXCEPT ![t] = Failed]
  /\ open' = [open EXCEPT ![t] = NoValue]
  /\ UNCHANGED map

Next ==
  \E t \in Threads :
    (\E operation \in Operations : Call(t, operation)) \/ TakeEffect(t) \/ Fail(t)

Spec == Init /\ [][Next]_vars
=============================================================================
