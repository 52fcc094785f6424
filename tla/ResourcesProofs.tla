-------------------------- MODULE ResourcesProofs --------------------------
(***************************************************************************)
(* Proofs about the other parts of MCResources, whatever the packets, the  *)
(* events, the factories, the features of a build and the sizes of queues, *)
(* channels and batches: the event streams, the protocol registry, the     *)
(* batching adapter, a client's events, the settings and the packet        *)
(* format; and the theorems about all parts together.                      *)
(***************************************************************************)
EXTENDS PoolsProofs

-----------------------------------------------------------------------------
(* EventStreams                                                            *)

(* Up to where the stream is, it has returned what all its methods ask for; *)
(* a method that waits has been called, and none waits after the end.       *)
ReturnedInv ==
  ~lost => \A e \in 1..position :
             (\A method \in asked : Streams!Emits(method, emitted[e])) => \E i \in DOMAIN seen : seen[i] = e

WaitingInv ==
  /\ call # "none" => call \in asked
  /\ ended => call = "none" /\ ~open /\ position = Len(emitted)

StreamInv ==
  /\ Streams!TypeOK /\ seen \in Seq(Nat)
  /\ Streams!StreamsInOrder /\ ReturnedInv /\ WaitingInv

LEMMA StreamInitially == ASSUME ResourcesAssumption, Streams!Init PROVE StreamInv
<1>1. Streams!TypeOK /\ seen \in Seq(Nat)
  <2>1. emitted \in Seq(Streams!Kinds) /\ Len(emitted) = 0 /\ seen \in Seq(Nat) /\ DOMAIN seen = {}
    BY DEF Streams!Init
  <2>2. /\ stream \in DOMAIN Streams!Methods /\ position = 0 /\ call = "none" /\ asked = {}
        /\ open = TRUE /\ lost = FALSE /\ ended = FALSE
    BY DEF Streams!Init
  <2>3. StreamEvents \in Nat
    BY DEF ResourcesAssumption
  <2>4. Len(emitted) <= StreamEvents /\ position \in 0..Len(emitted)
    BY <2>1, <2>2, <2>3
  <2>5. call \in Streams!Methods[stream] \cup {"none"} /\ asked \subseteq Streams!Methods[stream]
    BY <2>2
  <2>6. \A i \in DOMAIN seen : seen[i] \in 1..position
    BY <2>1
  <2>7. open \in BOOLEAN /\ lost \in BOOLEAN /\ ended \in BOOLEAN
    BY <2>2
  <2> QED
    BY <2>1, <2>2, <2>4, <2>5, <2>6, <2>7 DEF Streams!TypeOK
<1>2. Streams!StreamsInOrder /\ ReturnedInv /\ WaitingInv
  BY DEF Streams!Init, Streams!StreamsInOrder, ReturnedInv, WaitingInv
<1> QED
  BY <1>1, <1>2 DEF StreamInv

LEMMA StreamTypesKept ==
  ASSUME ResourcesAssumption, StreamInv, Streams!Next
  PROVE  Streams!TypeOK' /\ seen' \in Seq(Nat)
<1>1. /\ stream \in DOMAIN Streams!Methods
      /\ emitted \in Seq(Streams!Kinds) /\ Len(emitted) <= StreamEvents /\ Len(emitted) \in Nat
      /\ position \in 0..Len(emitted) /\ seen \in Seq(Nat)
      /\ call \in Streams!Methods[stream] \cup {"none"} /\ asked \subseteq Streams!Methods[stream]
      /\ \A i \in DOMAIN seen : seen[i] \in 1..position
      /\ open \in BOOLEAN /\ lost \in BOOLEAN /\ ended \in BOOLEAN
  BY DEF StreamInv, Streams!TypeOK
<1>2. StreamCapacity \in Nat /\ StreamEvents \in Nat
  BY DEF ResourcesAssumption
<1>3. CASE \E kind \in Streams!Kinds : Streams!SendEvent(kind)
  <2>1. PICK kind \in Streams!Kinds : Streams!SendEvent(kind)
    BY <1>3
  <2>2. /\ emitted' \in Seq(Streams!Kinds) /\ Len(emitted') = Len(emitted) + 1
    BY <1>1, <2>1 DEF Streams!SendEvent
  <2> QED
    BY <1>1, <1>2, <2>1, <2>2 DEF Streams!SendEvent, Streams!TypeOK
<1>4. CASE Streams!DropSender \/ Streams!DropCall \/ Streams!StreamEnds
  BY <1>1, <1>4 DEF Streams!DropSender, Streams!DropCall, Streams!StreamEnds, Streams!TypeOK
<1>5. CASE \E method \in Streams!Methods[stream] : Streams!Call(method)
  BY <1>1, <1>5 DEF Streams!Call, Streams!TypeOK
<1>6. CASE Streams!PollNext
  <2>1. /\ position' = position + 1 /\ position' \in 0..Len(emitted)
        /\ UNCHANGED <<stream, emitted, open, asked, lost, ended>>
        /\ (call' = call \/ call' = "none")
    BY <1>1, <1>6 DEF Streams!PollNext
  <2>2. seen' = seen \/ seen' = Append(seen, position + 1)
    BY <1>6 DEF Streams!PollNext
  <2>3. /\ seen' \in Seq(Nat) /\ \A i \in DOMAIN seen' : seen'[i] \in 1..position'
    <3>1. position + 1 \in Nat /\ 1..position \subseteq 1..position' /\ position + 1 \in 1..position'
      BY <1>1, <2>1
    <3>2. CASE seen' = seen
      BY <1>1, <3>1, <3>2
    <3>3. CASE seen' = Append(seen, position + 1)
      <4>1. seen' \in Seq(Nat) /\ DOMAIN seen' = 1..(Len(seen) + 1) /\ DOMAIN seen = 1..Len(seen)
        BY <1>1, <3>1, <3>3
      <4>2. \A i \in 1..(Len(seen) + 1) :
              seen'[i] = IF i = Len(seen) + 1 THEN position + 1 ELSE seen[i]
        BY SMTT(30), <1>1, <3>1, <3>3
      <4>3. ASSUME NEW i \in 1..(Len(seen) + 1) PROVE seen'[i] \in 1..position'
        <5>1. i = Len(seen) + 1 \/ i \in DOMAIN seen
          BY <1>1, <4>1
        <5> QED
          BY <1>1, <3>1, <4>2, <5>1
      <4> QED
        BY <4>1, <4>3
    <3> QED
      BY <2>2, <3>2, <3>3
  <2> QED
    BY <1>1, <2>1, <2>3 DEF Streams!TypeOK
<1>7. CASE Streams!StreamLags
  <2>1. position' \in 0..Len(emitted) /\ position' > position
    BY <1>1, <1>2, <1>7 DEF Streams!StreamLags, Streams!Lags
  <2> QED
    BY <1>1, <1>7, <2>1 DEF Streams!StreamLags, Streams!TypeOK
<1> QED
  BY <1>3, <1>4, <1>5, <1>6, <1>7 DEF Streams!Next

\* What is returned comes after all that was returned before.
LEMMA StreamOrderKept ==
  ASSUME StreamInv, Streams!Next
  PROVE  Streams!StreamsInOrder'
<1>1. /\ seen \in Seq(Nat) /\ Streams!StreamsInOrder /\ position \in Nat
      /\ \A i \in DOMAIN seen : seen[i] \in 1..position
  BY DEF StreamInv, Streams!TypeOK
<1>2. seen' = seen \/ seen' = Append(seen, position + 1)
  BY DEF Streams!Next, Streams!SendEvent, Streams!DropSender, Streams!Call, Streams!DropCall,
         Streams!PollNext, Streams!StreamLags, Streams!StreamEnds
<1>3. CASE seen' = seen
  BY <1>1, <1>3 DEF Streams!StreamsInOrder
<1>4. CASE seen' = Append(seen, position + 1)
  BY <1>1, <1>4 DEF Streams!StreamsInOrder
<1> QED
  BY <1>2, <1>3, <1>4

\* A value that is passed over is one that the waiting method does not ask for.
LEMMA StreamReturnedKept ==
  ASSUME StreamInv, Streams!Next
  PROVE  ReturnedInv'
<1>1. /\ seen \in Seq(Nat) /\ ReturnedInv /\ WaitingInv /\ lost \in BOOLEAN
      /\ emitted \in Seq(Streams!Kinds) /\ position \in 0..Len(emitted)
  BY DEF StreamInv, Streams!TypeOK
<1>2. CASE \E kind \in Streams!Kinds : Streams!SendEvent(kind)
  <2>1. \A e \in 1..position : emitted'[e] = emitted[e]
    BY <1>1, <1>2 DEF Streams!SendEvent
  <2>2. UNCHANGED <<seen, lost, asked, position>>
    BY <1>2 DEF Streams!SendEvent
  <2> QED
    BY <1>1, <2>1, <2>2 DEF ReturnedInv
<1>3. CASE Streams!DropSender \/ Streams!DropCall \/ Streams!StreamEnds
  BY <1>1, <1>3 DEF Streams!DropSender, Streams!DropCall, Streams!StreamEnds, ReturnedInv
<1>4. CASE \E method \in Streams!Methods[stream] : Streams!Call(method)
  BY <1>1, <1>4 DEF Streams!Call, ReturnedInv
<1>5. CASE Streams!PollNext
  <2>1. /\ position' = position + 1 /\ UNCHANGED <<emitted, asked, lost>> /\ call \in asked
    BY <1>1, <1>5 DEF Streams!PollNext, WaitingInv
  <2>2. CASE Streams!Emits(call, emitted[position + 1])
    <3>1. seen' = Append(seen, position + 1)
      BY <1>5, <2>2 DEF Streams!PollNext
    <3>2. /\ \A i \in DOMAIN seen : i \in DOMAIN seen' /\ seen'[i] = seen[i]
          /\ Len(seen) + 1 \in DOMAIN seen' /\ seen'[Len(seen) + 1] = position + 1
      BY <1>1, <3>1
    <3> QED
      BY <1>1, <2>1, <3>2 DEF ReturnedInv
  <2>3. CASE ~Streams!Emits(call, emitted[position + 1])
    <3>1. seen' = seen
      BY <1>5, <2>3 DEF Streams!PollNext
    <3> QED
      BY <1>1, <2>1, <2>3, <3>1 DEF ReturnedInv
  <2> QED
    BY <2>2, <2>3
<1>6. CASE Streams!StreamLags
  BY <1>6 DEF Streams!StreamLags, ReturnedInv
<1> QED
  BY <1>2, <1>3, <1>4, <1>5, <1>6 DEF Streams!Next

LEMMA StreamWaitingKept ==
  ASSUME StreamInv, Streams!Next
  PROVE  WaitingInv'
<1>1. WaitingInv /\ open \in BOOLEAN /\ ended \in BOOLEAN
  BY DEF StreamInv, Streams!TypeOK
<1> QED
  BY <1>1 DEF WaitingInv, Streams!Next, Streams!SendEvent, Streams!DropSender, Streams!Call,
              Streams!DropCall, Streams!PollNext, Streams!StreamLags, Streams!StreamEnds

LEMMA StreamKept ==
  ASSUME ResourcesAssumption, StreamInv, Streams!Next
  PROVE  StreamInv'
BY StreamTypesKept, StreamOrderKept, StreamReturnedKept, StreamWaitingKept DEF StreamInv

LEMMA StreamStays == ASSUME StreamInv, UNCHANGED streamVars PROVE StreamInv'
<1>1. Streams!TypeOK' /\ seen' \in Seq(Nat)
  BY DEF StreamInv, streamVars, Streams!TypeOK
<1>2. Streams!StreamsInOrder' /\ ReturnedInv' /\ WaitingInv'
  BY DEF StreamInv, streamVars, Streams!StreamsInOrder, ReturnedInv, WaitingInv
<1> QED
  BY <1>1, <1>2 DEF StreamInv

LEMMA StreamPromises ==
  ASSUME StreamInv
  PROVE  Streams!StreamsInOrder /\ Streams!StreamsComplete
<1>1. Streams!StreamsInOrder /\ ReturnedInv /\ WaitingInv
  BY DEF StreamInv
<1> QED
  BY <1>1 DEF ReturnedInv, WaitingInv, Streams!StreamsComplete, Streams!Range

-----------------------------------------------------------------------------
(* ProtocolRegistry                                                        *)

(* A caller between the two locks has its factory registered by name, and a *)
(* plugin that may not serve a builtin protocol was not accepted.           *)
PendingInv ==
  \A c \in Callers : pending[c] # Registry!NoFactory =>
    pending[c].name \in DOMAIN factories /\ factories[pending[c].name] = pending[c]

PluginsInv == allow_override \/ \A n \in plugins : ~Registry!is_builtin_protocol(n)

RegistryInv ==
  /\ Registry!TypeOK /\ PendingInv /\ PluginsInv
  /\ Registry!OkMeansComplete /\ Registry!SchemesNamed
  /\ Registry!ConnectsToUri /\ Registry!BuiltinsKept

LEMMA FactoryTypes ==
  ASSUME ResourcesAssumption, NEW f \in Registry!Factories
  PROVE  Len(f.schemes) \in Nat /\ DOMAIN f.schemes = 1..Len(f.schemes)
<1>1. CASE f \in Custom
  <2>1. f.schemes \in Seq(STRING)
    BY <1>1 DEF ResourcesAssumption
  <2> QED
    BY <2>1
<1>2. CASE f \in Registry!Standard
  <2>1. ASSUME NEW S, NEW a \in S, NEW b \in S, NEW c \in S
        PROVE  <<a, b, c>> \in Seq(S) /\ <<a, b>> \in Seq(S)
    OBVIOUS
  <2>2. \E a, b, c : f.schemes = <<a, b, c>> \/ f.schemes = <<a, b>>
    BY <1>2 DEF Registry!Standard, Registry!Tcp, Registry!WebSocket, Registry!Quic
  <2>3. PICK a, b, c : f.schemes = <<a, b, c>> \/ f.schemes = <<a, b>>
    BY <2>2
  <2>4. f.schemes \in Seq({a, b, c})
    BY <2>1, <2>3
  <2> QED
    BY <2>4
<1> QED
  BY <1>1, <1>2 DEF Registry!Factories

\* The schemes that register fills are free ones of its factory.
LEMMA UntakenFree ==
  ASSUME ResourcesAssumption, NEW f \in Registry!Factories, NEW s \in Registry!Untaken(f)
  PROVE  /\ s \in Registry!Range(f.schemes) /\ s \in Registry!Schemes
         /\ s \notin DOMAIN schemes
<1> DEFINE seized == {i \in DOMAIN f.schemes : f.schemes[i] \in DOMAIN schemes}
<1>1. Len(f.schemes) \in Nat /\ DOMAIN f.schemes = 1..Len(f.schemes)
  BY FactoryTypes
<1>2. PICK j \in DOMAIN f.schemes : s = f.schemes[j] /\ \A k \in seized : j < k
  BY DEF Registry!Untaken
<1>3. s \in Registry!Range(f.schemes)
  BY <1>2 DEF Registry!Range
<1>4. s \notin DOMAIN schemes
  BY <1>1, <1>2
<1> QED
  BY <1>3, <1>4 DEF Registry!Schemes

LEMMA RegistryInitially == ASSUME Registry!Init PROVE RegistryInv
<1>1. DOMAIN factories = {} /\ DOMAIN schemes = {}
  BY DEF Registry!Init, Registry!Empty
<1>2. /\ pending = [c \in Callers |-> Registry!NoFactory] /\ complete = {} /\ opened = {}
      /\ plugins = {} /\ allow_override \in BOOLEAN /\ served = {}
  BY DEF Registry!Init
<1>3. Registry!TypeOK
  BY <1>1, <1>2 DEF Registry!TypeOK
<1> QED
  BY <1>1, <1>2, <1>3
     DEF RegistryInv, PendingInv, PluginsInv, Registry!OkMeansComplete, Registry!SchemesNamed,
         Registry!ConnectsToUri, Registry!BuiltinsKept

\* The name is taken before any scheme, and stays.
LEMMA RegisterNameKept ==
  ASSUME RegistryInv, NEW c \in Callers, NEW f \in Registry!Factories, Registry!RegisterName(c, f)
  PROVE  RegistryInv'
<1>1. /\ pending[c] = Registry!NoFactory /\ f.name \notin DOMAIN factories
      /\ factories' = Registry!Extend(factories, f.name, f)
      /\ pending' = [pending EXCEPT ![c] = f]
      /\ UNCHANGED <<schemes, complete, opened, plugins, allow_override, served>>
  BY DEF Registry!RegisterName, Registry!pluginVars
<1>2. /\ DOMAIN factories' = DOMAIN factories \cup {f.name}
      /\ factories'[f.name] = f
      /\ \A n \in DOMAIN factories : n # f.name /\ factories'[n] = factories[n]
  BY <1>1 DEF Registry!Extend
<1>3. Registry!TypeOK /\ PendingInv /\ PluginsInv /\ Registry!OkMeansComplete
      /\ Registry!SchemesNamed /\ Registry!ConnectsToUri /\ Registry!BuiltinsKept
  BY DEF RegistryInv
<1>4. pending \in [Callers -> Registry!Factories \cup {Registry!NoFactory}]
  BY <1>3 DEF Registry!TypeOK
<1>5. Registry!TypeOK'
  <2>1. pending' \in [Callers -> Registry!Factories \cup {Registry!NoFactory}]
    BY <1>1, <1>4
  <2>2. DOMAIN factories' \subseteq {g.name : g \in Registry!Factories}
    BY <1>2, <1>3 DEF Registry!TypeOK
  <2>3. \A n \in DOMAIN factories' : factories'[n] \in Registry!Factories /\ factories'[n].name = n
    BY <1>2, <1>3 DEF Registry!TypeOK
  <2> QED
    BY <1>1, <1>3, <2>1, <2>2, <2>3 DEF Registry!TypeOK
<1>6. PendingInv'
  BY <1>1, <1>2, <1>3, <1>4 DEF PendingInv
<1>7. Registry!OkMeansComplete'
  BY <1>1, <1>2, <1>3 DEF Registry!OkMeansComplete
<1>8. Registry!SchemesNamed'
  BY <1>1, <1>2, <1>3 DEF Registry!SchemesNamed
<1>9. PluginsInv' /\ Registry!ConnectsToUri' /\ Registry!BuiltinsKept'
  BY <1>1, <1>3 DEF PluginsInv, Registry!ConnectsToUri, Registry!BuiltinsKept
<1> QED
  BY <1>5, <1>6, <1>7, <1>8, <1>9 DEF RegistryInv

\* Only free schemes are filled, so that no complete registration loses one.
LEMMA RegisterSchemesKept ==
  ASSUME ResourcesAssumption, RegistryInv, NEW c \in Callers, Registry!RegisterSchemes(c)
  PROVE  RegistryInv'
<1> DEFINE f == pending[c]
           new == Registry!Untaken(f)
<1>1. /\ f # Registry!NoFactory
      /\ schemes' = [s \in DOMAIN schemes \cup new |-> IF s \in new THEN f ELSE schemes[s]]
      /\ complete' = IF new = Registry!Range(f.schemes) THEN complete \cup {f} ELSE complete
      /\ pending' = [pending EXCEPT ![c] = Registry!NoFactory]
      /\ UNCHANGED <<factories, opened, plugins, allow_override, served>>
  BY DEF Registry!RegisterSchemes, Registry!pluginVars
<1>2. Registry!TypeOK /\ PendingInv /\ PluginsInv /\ Registry!OkMeansComplete
      /\ Registry!SchemesNamed /\ Registry!ConnectsToUri /\ Registry!BuiltinsKept
  BY DEF RegistryInv
<1>3. pending \in [Callers -> Registry!Factories \cup {Registry!NoFactory}]
  BY <1>2 DEF Registry!TypeOK
<1>4. /\ f \in Registry!Factories
      /\ f.name \in DOMAIN factories /\ factories[f.name] = f
  BY <1>1, <1>2, <1>3 DEF PendingInv
<1>5. \A s \in new : /\ s \in Registry!Range(f.schemes) /\ s \in Registry!Schemes
                     /\ s \notin DOMAIN schemes
  BY <1>4, UntakenFree
<1> HIDE DEF f, new
<1>6. /\ DOMAIN schemes' = DOMAIN schemes \cup new
      /\ \A s \in new : schemes'[s] = f
      /\ \A s \in DOMAIN schemes : schemes'[s] = schemes[s]
  BY <1>1, <1>5
<1>7. Registry!TypeOK'
  <2>1. pending' \in [Callers -> Registry!Factories \cup {Registry!NoFactory}]
    BY <1>1, <1>3
  <2>2. DOMAIN schemes' \subseteq Registry!Schemes
    BY <1>2, <1>5, <1>6 DEF Registry!TypeOK
  <2>3. \A s \in DOMAIN schemes' : schemes'[s] \in Registry!Factories
                                   /\ s \in Registry!Range(schemes'[s].schemes)
    BY <1>2, <1>4, <1>5, <1>6 DEF Registry!TypeOK
  <2>4. complete' \subseteq Registry!Factories
    BY <1>1, <1>2, <1>4 DEF Registry!TypeOK
  <2> QED
    BY <1>1, <1>2, <2>1, <2>2, <2>3, <2>4 DEF Registry!TypeOK
<1>8. PendingInv'
  BY <1>1, <1>2, <1>3 DEF PendingInv
<1>9. Registry!OkMeansComplete'
  <2>1. ASSUME NEW g \in complete'
        PROVE  /\ g.name \in DOMAIN factories' /\ factories'[g.name] = g
               /\ \A s \in Registry!Range(g.schemes) : s \in DOMAIN schemes' /\ schemes'[s] = g
    <3>1. CASE g \in complete
      BY <1>1, <1>2, <1>6, <3>1 DEF Registry!OkMeansComplete
    <3>2. CASE g = f /\ new = Registry!Range(f.schemes)
      BY <1>1, <1>4, <1>6, <3>2
    <3> QED
      BY <1>1, <3>1, <3>2
  <2> QED
    BY <2>1 DEF Registry!OkMeansComplete
<1>10. Registry!SchemesNamed'
  BY <1>1, <1>2, <1>4, <1>6 DEF Registry!SchemesNamed
<1>11. PluginsInv' /\ Registry!ConnectsToUri' /\ Registry!BuiltinsKept'
  BY <1>1, <1>2 DEF PluginsInv, Registry!ConnectsToUri, Registry!BuiltinsKept
<1> QED
  BY <1>7, <1>8, <1>9, <1>10, <1>11 DEF RegistryInv

\* A connection leads to the address of its URI, except a WebSocket.
LEMMA CreateConnectionKept ==
  ASSUME RegistryInv, NEW s \in Registry!Schemes \cup {Registry!Bare}, NEW a \in Addresses,
         Registry!CreateConnection(s, a)
  PROVE  RegistryInv'
<1>1. PICK kind : opened' = {[scheme |-> s, address |-> a, kind |-> kind,
                              target |-> Registry!Target(kind, a)]}
  BY DEF Registry!CreateConnection
<1>2. UNCHANGED <<factories, schemes, pending, complete, plugins, allow_override, served>>
  BY DEF Registry!CreateConnection, Registry!pluginVars
<1>3. Registry!TypeOK /\ PendingInv /\ PluginsInv /\ Registry!OkMeansComplete
      /\ Registry!SchemesNamed /\ Registry!BuiltinsKept
  BY DEF RegistryInv
<1>4. \A o \in opened' : /\ o.scheme = s /\ o.address = a /\ o.kind = kind
                         /\ o.target = IF kind = "websocket" THEN configured ELSE a
  BY <1>1 DEF Registry!Target
<1>5. Registry!TypeOK'
  BY <1>2, <1>3, <1>4 DEF Registry!TypeOK
<1>6. Registry!ConnectsToUri'
  BY <1>4 DEF Registry!ConnectsToUri
<1>7. PendingInv' /\ PluginsInv' /\ Registry!BuiltinsKept'
  BY <1>2, <1>3 DEF PendingInv, PluginsInv, Registry!BuiltinsKept
<1>8. Registry!OkMeansComplete' /\ Registry!SchemesNamed'
  BY <1>2, <1>3 DEF Registry!OkMeansComplete, Registry!SchemesNamed
<1> QED
  BY <1>5, <1>6, <1>7, <1>8 DEF RegistryInv

LEMMA RegistryKept ==
  ASSUME ResourcesAssumption, RegistryInv, Registry!Next
  PROVE  RegistryInv'
<1>1. Registry!TypeOK /\ PendingInv /\ PluginsInv /\ Registry!OkMeansComplete
      /\ Registry!SchemesNamed /\ Registry!ConnectsToUri /\ Registry!BuiltinsKept
  BY DEF RegistryInv
<1>2. CASE \E c \in Callers, f \in Registry!Factories : Registry!RegisterName(c, f)
  BY <1>2, RegisterNameKept
<1>3. CASE \E c \in Callers : Registry!RegisterSchemes(c)
  BY <1>3, RegisterSchemesKept
<1>4. CASE \E c \in Callers : Registry!Cancel(c)
  <2>1. PICK c \in Callers : pending' = [pending EXCEPT ![c] = Registry!NoFactory]
    BY <1>4 DEF Registry!Cancel
  <2>2. UNCHANGED <<factories, schemes, complete, opened, plugins, allow_override, served>>
    BY <1>4 DEF Registry!Cancel, Registry!pluginVars
  <2>3. pending \in [Callers -> Registry!Factories \cup {Registry!NoFactory}]
    BY <1>1 DEF Registry!TypeOK
  <2>4. PendingInv' /\ pending' \in [Callers -> Registry!Factories \cup {Registry!NoFactory}]
    BY <1>1, <2>1, <2>2, <2>3 DEF PendingInv
  <2>5. Registry!TypeOK'
    BY <1>1, <2>2, <2>4 DEF Registry!TypeOK
  <2>6. /\ PluginsInv' /\ Registry!OkMeansComplete' /\ Registry!SchemesNamed'
        /\ Registry!ConnectsToUri' /\ Registry!BuiltinsKept'
    BY <1>1, <2>2 DEF PluginsInv, Registry!OkMeansComplete, Registry!SchemesNamed,
                      Registry!ConnectsToUri, Registry!BuiltinsKept
  <2> QED
    BY <2>4, <2>5, <2>6 DEF RegistryInv
<1>5. CASE \E s \in Registry!Schemes \cup {Registry!Bare}, a \in Addresses :
             Registry!CreateConnection(s, a)
  BY <1>5, CreateConnectionKept
<1>6. CASE \E n \in PluginNames : Registry!RegisterPlugin(n) \/ Registry!UnregisterPlugin(n)
                                  \/ Registry!CreateServer(n)
  <2>1. UNCHANGED <<factories, schemes, pending, complete, opened, allow_override>>
    BY <1>6 DEF Registry!RegisterPlugin, Registry!UnregisterPlugin, Registry!CreateServer,
                Registry!registryVars
  <2>2. /\ plugins' \subseteq PluginNames /\ served' \subseteq PluginNames
        /\ PluginsInv' /\ Registry!BuiltinsKept'
    BY <1>1, <1>6 DEF Registry!RegisterPlugin, Registry!UnregisterPlugin, Registry!CreateServer,
                      Registry!TypeOK, PluginsInv, Registry!BuiltinsKept
  <2>3. Registry!TypeOK'
    BY <1>1, <2>1, <2>2 DEF Registry!TypeOK
  <2>4. /\ PendingInv' /\ Registry!OkMeansComplete' /\ Registry!SchemesNamed'
        /\ Registry!ConnectsToUri'
    BY <1>1, <2>1 DEF PendingInv, Registry!OkMeansComplete, Registry!SchemesNamed,
                      Registry!ConnectsToUri
  <2> QED
    BY <2>2, <2>3, <2>4 DEF RegistryInv
<1> QED
  BY <1>2, <1>3, <1>4, <1>5, <1>6 DEF Registry!Next

LEMMA RegistryStays == ASSUME RegistryInv, UNCHANGED registryVars PROVE RegistryInv'
<1>1. Registry!TypeOK'
  BY DEF RegistryInv, registryVars, Registry!TypeOK
<1>2. PendingInv' /\ PluginsInv'
  BY DEF RegistryInv, registryVars, PendingInv, PluginsInv
<1>3. /\ Registry!OkMeansComplete' /\ Registry!SchemesNamed'
      /\ Registry!ConnectsToUri' /\ Registry!BuiltinsKept'
  BY DEF RegistryInv, registryVars, Registry!OkMeansComplete, Registry!SchemesNamed,
         Registry!ConnectsToUri, Registry!BuiltinsKept
<1> QED
  BY <1>1, <1>2, <1>3 DEF RegistryInv

-----------------------------------------------------------------------------
(* Sequences of packets                                                    *)

Elements(s) == {s[i] : i \in 1..Len(s)}
Once(s) == \A i, j \in 1..Len(s) : s[i] = s[j] => i = j
Increasing(s) == \A i, j \in 1..Len(s) : i < j => s[i] < s[j]

(* A queue that numbers are appended to one after the other, up to n.       *)
Latest(q, n) == Len(q) <= n /\ \A i \in 1..Len(q) : q[i] = (n - Len(q)) + i

LEMMA ElementsCounted ==
  ASSUME NEW S, NEW s \in Seq(S)
  PROVE  /\ IsFiniteSet(Elements(s)) /\ Elements(s) \subseteq S
         /\ Once(s) => Cardinality(Elements(s)) = Len(s)
<1>1. Len(s) \in Nat /\ s \in [1..Len(s) -> S]
  OBVIOUS
<1>2. s \in Surjection(1..Len(s), Elements(s))
  BY <1>1 DEF Surjection, Elements
<1>3. IsFiniteSet(1..Len(s)) /\ Cardinality(1..Len(s)) = Len(s)
  BY <1>1, FS_Interval
<1>4. /\ IsFiniteSet(Elements(s))
      /\ s \in Injection(1..Len(s), Elements(s)) => Cardinality(Elements(s)) = Cardinality(1..Len(s))
  BY <1>2, <1>3, FS_Surjection
<1>5. Once(s) => s \in Injection(1..Len(s), Elements(s))
  BY <1>1, <1>2 DEF Once, Injection, IsInjective, Surjection
<1>6. Elements(s) \subseteq S
  BY <1>1 DEF Elements
<1> QED
  BY <1>3, <1>4, <1>5, <1>6

LEMMA ElementsAdded ==
  ASSUME NEW S, NEW s \in Seq(S), NEW x \in S
  PROVE  Append(s, x) \in Seq(S) /\ Elements(Append(s, x)) = Elements(s) \cup {x}
<1> DEFINE t == Append(s, x)
<1>1. /\ t \in Seq(S) /\ Len(t) = Len(s) + 1 /\ t[Len(s) + 1] = x
      /\ \A i \in 1..Len(s) : t[i] = s[i]
  OBVIOUS
<1>2. Len(s) \in Nat
  OBVIOUS
<1> HIDE DEF t
<1>3. Elements(t) \subseteq Elements(s) \cup {x}
  BY <1>1, <1>2 DEF Elements
<1>4. Elements(s) \cup {x} \subseteq Elements(t)
  BY <1>1, <1>2 DEF Elements
<1> QED
  BY <1>1, <1>3, <1>4 DEF t

LEMMA ElementsJoined ==
  ASSUME NEW S, NEW s \in Seq(S), NEW t \in Seq(S)
  PROVE  /\ s \o t \in Seq(S) /\ Len(s \o t) = Len(s) + Len(t)
         /\ Elements(s \o t) = Elements(s) \cup Elements(t)
         /\ Once(s) /\ Once(t) /\ Elements(s) \cap Elements(t) = {} => Once(s \o t)
<1> DEFINE u == s \o t
<1>1. /\ u \in Seq(S) /\ Len(u) = Len(s) + Len(t)
      /\ \A i \in 1..Len(s) : u[i] = s[i]
      /\ \A i \in 1..Len(t) : u[Len(s) + i] = t[i]
  OBVIOUS
<1>2. Len(s) \in Nat /\ Len(t) \in Nat
  OBVIOUS
<1> HIDE DEF u
<1>3. ASSUME NEW i \in 1..Len(u)
      PROVE  \/ i \in 1..Len(s) /\ u[i] = s[i]
             \/ i - Len(s) \in 1..Len(t) /\ u[i] = t[i - Len(s)] /\ i = Len(s) + (i - Len(s))
  <2>1. CASE i <= Len(s)
    BY <1>1, <1>2, <2>1
  <2>2. CASE i > Len(s)
    <3>1. i - Len(s) \in 1..Len(t) /\ Len(s) + (i - Len(s)) = i
      BY <1>1, <1>2, <2>2
    <3> QED
      BY <1>1, <3>1
  <2> QED
    BY <1>2, <2>1, <2>2
<1>4. Elements(u) \subseteq Elements(s) \cup Elements(t)
  BY <1>3 DEF Elements
<1>5. Elements(s) \subseteq Elements(u)
  BY SMTT(30), <1>1, <1>2 DEF Elements
<1>6. Elements(t) \subseteq Elements(u)
  <2>1. ASSUME NEW i \in 1..Len(t) PROVE t[i] \in Elements(u)
    <3>1. Len(s) + i \in 1..Len(u) /\ u[Len(s) + i] = t[i]
      BY <1>1, <1>2
    <3> QED
      BY <3>1 DEF Elements
  <2> QED
    BY <2>1 DEF Elements
<1>7. ASSUME Once(s), Once(t), Elements(s) \cap Elements(t) = {},
             NEW i \in 1..Len(u), NEW j \in 1..Len(u), u[i] = u[j]
      PROVE  i = j
  <2>1. CASE i \in 1..Len(s) /\ u[i] = s[i] /\ j \in 1..Len(s) /\ u[j] = s[j]
    BY <1>7, <2>1 DEF Once
  <2>2. CASE i - Len(s) \in 1..Len(t) /\ u[i] = t[i - Len(s)]
             /\ j - Len(s) \in 1..Len(t) /\ u[j] = t[j - Len(s)]
    <3>1. i - Len(s) = j - Len(s)
      BY <1>7, <2>2 DEF Once
    <3> QED
      BY <1>1, <1>2, <3>1
  <2>3. CASE i \in 1..Len(s) /\ u[i] = s[i] /\ j - Len(s) \in 1..Len(t) /\ u[j] = t[j - Len(s)]
    BY <1>7, <2>3 DEF Elements
  <2>4. CASE j \in 1..Len(s) /\ u[j] = s[j] /\ i - Len(s) \in 1..Len(t) /\ u[i] = t[i - Len(s)]
    BY <1>7, <2>4 DEF Elements
  <2> QED
    BY <1>3, <2>1, <2>2, <2>3, <2>4
<1>8. Once(s) /\ Once(t) /\ Elements(s) \cap Elements(t) = {} => Once(u)
  BY <1>7 DEF Once
<1> QED
  BY <1>1, <1>4, <1>5, <1>6, <1>8 DEF u

LEMMA LatestAppended ==
  ASSUME NEW S, NEW q \in Seq(S), NEW n \in Nat, n + 1 \in S, Latest(q, n)
  PROVE  /\ Append(q, n + 1) \in Seq(S)
         /\ Latest(Append(q, n + 1), n + 1)
         /\ (n + 1) - Len(Append(q, n + 1)) = n - Len(q)
<1> DEFINE t == Append(q, n + 1)
<1>1. /\ t \in Seq(S) /\ Len(t) = Len(q) + 1 /\ t[Len(q) + 1] = n + 1 /\ Len(q) \in Nat
      /\ \A i \in 1..Len(q) : t[i] = q[i]
  OBVIOUS
<1> HIDE DEF t
<1>2. Len(q) <= n /\ \A i \in 1..Len(q) : q[i] = (n - Len(q)) + i
  BY DEF Latest
<1>3. ASSUME NEW i \in 1..Len(t) PROVE t[i] = ((n + 1) - Len(t)) + i
  <2>1. CASE i = Len(q) + 1
    BY <1>1, <2>1
  <2>2. CASE i \in 1..Len(q)
    BY <1>1, <1>2, <2>2
  <2> QED
    BY <1>1, <2>1, <2>2
<1>4. Latest(t, n + 1)
  BY <1>1, <1>2, <1>3 DEF Latest
<1> QED
  BY <1>1, <1>4 DEF t

\* What is taken out of a queue are the next numbers.
LEMMA LatestTaken ==
  ASSUME NEW S \in SUBSET Nat, NEW q \in Seq(S), NEW n \in Nat, Latest(q, n), NEW k \in 0..Len(q)
  PROVE  /\ SubSeq(q, 1, k) \in Seq(S) /\ Len(SubSeq(q, 1, k)) = k
         /\ SubSeq(q, k + 1, Len(q)) \in Seq(S) /\ Len(SubSeq(q, k + 1, Len(q))) = Len(q) - k
         /\ Latest(SubSeq(q, k + 1, Len(q)), n)
         /\ Once(SubSeq(q, 1, k))
         /\ Elements(SubSeq(q, 1, k)) = ((n - Len(q)) + 1)..((n - Len(q)) + k)
<1> DEFINE h == SubSeq(q, 1, k)
           r == SubSeq(q, k + 1, Len(q))
<1>1. Len(q) \in Nat /\ k \in Nat /\ k <= Len(q)
  OBVIOUS
<1>2. h \in Seq(S) /\ Len(h) = k /\ \A i \in 1..k : h[i] = q[i]
  BY <1>1, SubSeqProperties
<1>3. r \in Seq(S) /\ Len(r) = Len(q) - k /\ \A i \in 1..(Len(q) - k) : r[i] = q[k + i]
  <2>1. /\ r \in Seq(S)
        /\ Len(r) = IF k + 1 <= Len(q) THEN Len(q) - (k + 1) + 1 ELSE 0
        /\ \A i \in 1..(Len(q) - (k + 1) + 1) : r[i] = q[(k + 1) + i - 1]
    BY <1>1, SubSeqProperties
  <2>2. Len(r) = Len(q) - k
    BY <1>1, <2>1
  <2>3. ASSUME NEW i \in 1..(Len(q) - k) PROVE r[i] = q[k + i]
    <3>1. i \in 1..(Len(q) - (k + 1) + 1) /\ (k + 1) + i - 1 = k + i
      BY <1>1
    <3> QED
      BY <2>1, <3>1
  <2> QED
    BY <2>1, <2>2, <2>3
<1> HIDE DEF h, r
<1>4. Len(q) <= n /\ \A i \in 1..Len(q) : q[i] = (n - Len(q)) + i
  BY DEF Latest
<1>5. \A i \in 1..k : h[i] = (n - Len(q)) + i
  <2>1. \A i \in 1..k : i \in 1..Len(q)
    BY <1>1
  <2> QED
    BY <1>2, <1>4, <2>1
<1>6. Once(h)
  BY <1>1, <1>2, <1>4, <1>5 DEF Once
<1>7. Latest(r, n)
  <2>1. ASSUME NEW i \in 1..Len(r) PROVE r[i] = (n - Len(r)) + i
    <3>1. k + i \in 1..Len(q) /\ r[i] = q[k + i]
      BY <1>1, <1>3
    <3>2. r[i] = (n - Len(q)) + (k + i)
      BY <1>4, <3>1
    <3> QED
      BY <1>1, <1>3, <3>2
  <2> QED
    BY <1>1, <1>3, <1>4, <2>1 DEF Latest
<1>8. Elements(h) = ((n - Len(q)) + 1)..((n - Len(q)) + k)
  <2>1. Elements(h) \subseteq ((n - Len(q)) + 1)..((n - Len(q)) + k)
    BY <1>1, <1>2, <1>4, <1>5 DEF Elements
  <2>2. ASSUME NEW m \in ((n - Len(q)) + 1)..((n - Len(q)) + k) PROVE m \in Elements(h)
    <3>1. m - (n - Len(q)) \in 1..k
      BY <1>1, <1>4
    <3>2. h[m - (n - Len(q))] = m
      BY <1>1, <1>4, <1>5, <3>1
    <3> QED
      BY <1>2, <3>1, <3>2 DEF Elements
  <2> QED
    BY <2>1, <2>2
<1> QED
  BY <1>2, <1>3, <1>6, <1>7, <1>8 DEF h, r


\* What is taken from its front is the next number.
HeadTaken(q, n) ==
  /\ Len(q) > 0 /\ n - Len(q) \in Nat /\ Head(q) = (n - Len(q)) + 1
  /\ Len(Tail(q)) = Len(q) - 1 /\ Latest(Tail(q), n)

LEMMA OldestTaken ==
  ASSUME NEW S, NEW q \in Seq(S), q # <<>>, NEW n \in Nat, Latest(q, n)
  PROVE  HeadTaken(q, n) /\ Head(q) \in S /\ Tail(q) \in Seq(S)
<1> DEFINE t == Tail(q)
<1>1. /\ Len(q) \in Nat /\ Len(q) > 0 /\ Head(q) = q[1] /\ Head(q) \in S
      /\ t \in Seq(S) /\ Len(t) = Len(q) - 1 /\ \A i \in 1..Len(t) : t[i] = q[i + 1]
  <2>1. Len(q) \in Nat /\ Len(q) # 0
    BY EmptySeq
  <2>2. Head(q) = q[1]
    OBVIOUS
  <2> QED
    BY <2>1, <2>2, HeadTailProperties
<1> HIDE DEF t
<1>2. Len(q) <= n /\ \A i \in 1..Len(q) : q[i] = (n - Len(q)) + i
  BY DEF Latest
<1>3. q[1] = (n - Len(q)) + 1
  BY <1>1, <1>2
<1>4. ASSUME NEW i \in 1..Len(t) PROVE t[i] = (n - Len(t)) + i
  <2>1. i + 1 \in 1..Len(q) /\ t[i] = q[i + 1]
    BY <1>1
  <2>2. t[i] = (n - Len(q)) + (i + 1)
    BY <1>2, <2>1
  <2> QED
    BY <1>1, <2>2
<1>5. Latest(t, n)
  BY <1>1, <1>2, <1>4 DEF Latest
<1> QED
  BY <1>1, <1>2, <1>3, <1>5 DEF HeadTaken, t

LEMMA LatestElements ==
  ASSUME NEW S, NEW q \in Seq(S), NEW n \in Nat, Latest(q, n)
  PROVE  Elements(q) = ((n - Len(q)) + 1)..n
<1>1. Len(q) \in Nat /\ Len(q) <= n /\ \A i \in 1..Len(q) : q[i] = (n - Len(q)) + i
  BY DEF Latest
<1>2. Elements(q) \subseteq ((n - Len(q)) + 1)..n
  BY <1>1 DEF Elements
<1>3. ASSUME NEW m \in ((n - Len(q)) + 1)..n PROVE m \in Elements(q)
  <2>1. m - (n - Len(q)) \in 1..Len(q) /\ q[m - (n - Len(q))] = m
    <3>1. m - (n - Len(q)) \in 1..Len(q)
      BY <1>1
    <3>2. q[m - (n - Len(q))] = (n - Len(q)) + (m - (n - Len(q)))
      BY <1>1, <3>1
    <3> QED
      BY <1>1, <3>1, <3>2
  <2> QED
    BY <2>1 DEF Elements
<1> QED
  BY <1>2, <1>3
-----------------------------------------------------------------------------
(* The numbers up to n: in the hands of some callers, or done with         *)

InHands(Y, H) == UNION {H[c] : c \in Y}

Partition(done, Y, H, n) ==
  /\ \A c \in Y : H[c] \cap done = {} /\ \A d \in Y \ {c} : H[c] \cap H[d] = {}
  /\ done \cup InHands(Y, H) = 1..n

LEMMA PartitionSame ==
  ASSUME NEW done, NEW Y, NEW H, NEW G, NEW n \in Nat, Partition(done, Y, H, n),
         \A d \in Y : G[d] = H[d]
  PROVE  Partition(done, Y, G, n) /\ InHands(Y, G) = InHands(Y, H)
<1>1. InHands(Y, G) = InHands(Y, H)
  BY DEF InHands
<1> QED
  BY <1>1 DEF Partition

\* A caller takes the next numbers, whether or not it has some.
Taken(done, Y, H, G, n, k, c, old) ==
  /\ Partition(done, Y \cup {c}, G, n + k)
  /\ InHands(Y \cup {c}, G) = InHands(Y, H) \cup (n + 1)..(n + k)
  /\ InHands(Y, H) \cap (n + 1)..(n + k) = {}

LEMMA PartitionTaken ==
  ASSUME NEW done, NEW Y, NEW H, NEW G, NEW n \in Nat, NEW k \in Nat, NEW c, NEW old,
         Partition(done, Y, H, n), c \in Y => old = H[c], c \notin Y => old = {},
         G[c] = old \cup (n + 1)..(n + k),
         \A d \in Y \ {c} : G[d] = H[d]
  PROVE  Taken(done, Y, H, G, n, k, c, old)
<1> DEFINE new == (n + 1)..(n + k)
<1>1. 1..(n + k) = (1..n) \cup new /\ (1..n) \cap new = {}
  OBVIOUS
<1> HIDE DEF new
<1>2. G[c] = old \cup new
  BY DEF new
<1>3. /\ \A d \in Y : H[d] \cap done = {} /\ \A e \in Y \ {d} : H[d] \cap H[e] = {}
      /\ done \cup InHands(Y, H) = 1..n
  BY DEF Partition
<1>4. done \subseteq 1..n /\ \A d \in Y : H[d] \subseteq 1..n
  BY <1>3 DEF InHands
<1>5. old \subseteq 1..n /\ old \cap done = {} /\ \A d \in Y \ {c} : old \cap H[d] = {}
  BY <1>3, <1>4
<1>6. ASSUME NEW d \in Y \cup {c}
      PROVE  G[d] \cap done = {} /\ \A e \in (Y \cup {c}) \ {d} : G[d] \cap G[e] = {}
  <2>1. CASE d = c
    BY <1>1, <1>2, <1>4, <1>5, <2>1
  <2>2. CASE d # c
    <3>1. d \in Y /\ G[d] = H[d] /\ H[d] \subseteq 1..n
      BY <1>4, <2>2
    <3>2. G[d] \cap done = {}
      BY <1>3, <3>1
    <3>3. \A e \in Y \ {d} : e # c => G[d] \cap G[e] = {}
      BY <1>3, <3>1
    <3>4. G[d] \cap G[c] = {}
      BY <1>1, <1>2, <1>5, <2>2, <3>1
    <3> QED
      BY <2>2, <3>2, <3>3, <3>4
  <2> QED
    BY <2>1, <2>2
<1>7. InHands(Y \cup {c}, G) = InHands(Y, H) \cup new
  <2>1. ASSUME NEW m, NEW d \in Y \cup {c}, m \in G[d] PROVE m \in InHands(Y, H) \cup new
    BY <1>2, <2>1 DEF InHands
  <2>2. ASSUME NEW m \in InHands(Y, H) PROVE m \in InHands(Y \cup {c}, G)
    <3>1. PICK d \in Y : m \in H[d]
      BY <2>2 DEF InHands
    <3>2. m \in G[d]
      BY <1>2, <3>1
    <3> QED
      BY <3>1, <3>2 DEF InHands
  <2>3. new \subseteq InHands(Y \cup {c}, G)
    BY <1>2 DEF InHands
  <2>4. InHands(Y \cup {c}, G) \subseteq InHands(Y, H) \cup new
    BY <2>1 DEF InHands
  <2> QED
    BY <2>2, <2>3, <2>4
<1>8. done \cup InHands(Y \cup {c}, G) = 1..(n + k)
  BY <1>1, <1>3, <1>7
<1>9. InHands(Y, H) \cap new = {}
  BY <1>1, <1>3
<1>10. Partition(done, Y \cup {c}, G, n + k)
  BY <1>6, <1>8 DEF Partition
<1> QED
  BY <1>7, <1>9, <1>10 DEF new, Taken

\* A caller is done with what it has.
DoneWith(done, Y, H, G, n, c) ==
  /\ Partition(done \cup H[c], Y \ {c}, G, n)
  /\ H[c] \cap done = {} /\ H[c] \subseteq InHands(Y, H)
  /\ InHands(Y \ {c}, G) = InHands(Y, H) \ H[c]

LEMMA PartitionDone ==
  ASSUME NEW done, NEW Y, NEW H, NEW G, NEW n \in Nat, NEW c \in Y,
         Partition(done, Y, H, n), \A d \in Y \ {c} : G[d] = H[d]
  PROVE  DoneWith(done, Y, H, G, n, c)
<1>1. /\ \A d \in Y : H[d] \cap done = {} /\ \A e \in Y \ {d} : H[d] \cap H[e] = {}
      /\ done \cup InHands(Y, H) = 1..n
  BY DEF Partition
<1>2. H[c] \subseteq InHands(Y, H)
  BY DEF InHands
<1>3. InHands(Y \ {c}, G) = InHands(Y, H) \ H[c]
  <2>1. ASSUME NEW m \in InHands(Y \ {c}, G) PROVE m \in InHands(Y, H) \ H[c]
    <3>1. PICK d \in Y \ {c} : m \in G[d]
      BY DEF InHands
    <3>2. m \in H[d] /\ m \notin H[c]
      BY <1>1, <3>1
    <3> QED
      BY <3>1, <3>2 DEF InHands
  <2>2. ASSUME NEW m \in InHands(Y, H) \ H[c] PROVE m \in InHands(Y \ {c}, G)
    <3>1. PICK d \in Y : m \in H[d]
      BY DEF InHands
    <3>2. d \in Y \ {c} /\ m \in G[d]
      BY <2>2, <3>1
    <3> QED
      BY <3>2 DEF InHands
  <2> QED
    BY <2>1, <2>2
<1>4. (done \cup H[c]) \cup InHands(Y \ {c}, G) = 1..n
  BY <1>1, <1>2, <1>3
<1>5. ASSUME NEW d \in Y \ {c}
      PROVE  G[d] \cap (done \cup H[c]) = {} /\ \A e \in (Y \ {c}) \ {d} : G[d] \cap G[e] = {}
  <2>1. G[d] = H[d] /\ H[d] \cap done = {} /\ H[d] \cap H[c] = {}
    BY <1>1
  <2>2. ASSUME NEW e \in (Y \ {c}) \ {d} PROVE G[d] \cap G[e] = {}
    <3>1. G[e] = H[e] /\ H[d] \cap H[e] = {}
      BY <1>1, <2>2
    <3> QED
      BY <2>1, <3>1
  <2> QED
    BY <2>1, <2>2
<1>6. Partition(done \cup H[c], Y \ {c}, G, n)
  BY <1>4, <1>5 DEF Partition
<1> QED
  BY <1>1, <1>2, <1>3, <1>6 DEF DoneWith

LEMMA PartitionFinite ==
  ASSUME NEW done, NEW Y, NEW H, NEW n \in Nat, Partition(done, Y, H, n)
  PROVE  /\ IsFiniteSet(done) /\ Cardinality(done) \in Nat /\ done \subseteq 1..n
         /\ IsFiniteSet(InHands(Y, H)) /\ Cardinality(InHands(Y, H)) \in Nat
         /\ InHands(Y, H) \subseteq 1..n /\ InHands(Y, H) \cap done = {}
         /\ Cardinality(done) + Cardinality(InHands(Y, H)) = n
<1>1. done \cup InHands(Y, H) = 1..n
  BY DEF Partition
<1>2. InHands(Y, H) \cap done = {}
  BY DEF Partition, InHands
<1>3. done \in SUBSET (1..n) /\ InHands(Y, H) \in SUBSET (1..n)
  BY <1>1
<1>4. IsFiniteSet(1..n) /\ Cardinality(1..n) = n
  BY FS_Interval
<1>5. IsFiniteSet(done) /\ IsFiniteSet(InHands(Y, H))
  BY <1>3, <1>4, FS_Subset
<1>6. Cardinality(done) \in Nat /\ Cardinality(InHands(Y, H)) \in Nat
  BY <1>5, FS_CardinalityType
<1>7. /\ Cardinality(done \cup InHands(Y, H))
           = Cardinality(done) + Cardinality(InHands(Y, H)) - Cardinality(done \cap InHands(Y, H))
  BY <1>5, FS_Union
<1>8. done \cap InHands(Y, H) = {} /\ Cardinality({}) = 0
  BY <1>2, FS_EmptySet
<1>9. Cardinality(done) + Cardinality(InHands(Y, H)) = n
  <2> DEFINE a == Cardinality(done)  b == Cardinality(InHands(Y, H))
             u == Cardinality(done \cup InHands(Y, H))
             i == Cardinality(done \cap InHands(Y, H))
  <2>1. u = n /\ i = 0
    BY <1>1, <1>4, <1>8
  <2>2. u = a + b - i /\ a \in Nat /\ b \in Nat
    BY <1>6, <1>7
  <2> HIDE DEF a, b, u, i
  <2>3. a + b = n
    BY <2>1, <2>2
  <2> QED
    BY <2>3 DEF a, b
<1> QED
  BY <1>2, <1>3, <1>5, <1>6, <1>9

-----------------------------------------------------------------------------
(* BatchAdapter                                                            *)

Busy(kind) == {c \in Callers : doing[c] = kind}
Hands == [c \in Callers |-> Elements(batch[c])]
BatchesReturned == UNION {Elements(received[c]) : c \in Callers}
Recording == CountOf(Callers, doing, {"count"})

Counters == [packets_sent : Nat, bytes_sent : Nat, packets_received : Nat,
             total_batch_size : Nat, max_batch_size : Nat]

BatchTypes ==
  /\ Batch!TypeOK
  /\ processed \in Seq(Batch!Packets) /\ stats \in Counters
  /\ batch \in [Callers -> Seq(Batch!Packets)] /\ received \in [Callers -> Seq(Batch!Packets)]
  /\ \A c \in Callers : doing[c] \in {"idle", "count"} => batch[c] = <<>>

(* The queues hold the latest packets in order; the earlier ones are        *)
(* processed, lost or in one hand each.                                     *)
SendInv ==
  /\ Latest(send_queue, accepted)
  /\ Once(processed) /\ Elements(processed) \cap dropped = {}
  /\ \A c \in Callers : doing[c] = "yield" => Once(batch[c])
  /\ Partition(Elements(processed) \cup dropped, Busy("yield"), Hands, accepted - Len(send_queue))

ReceiveInv ==
  /\ Latest(recv_queue, arrived)
  /\ \A c \in Callers : Increasing(received[c])
  /\ \A c \in Callers : doing[c] = "receive" =>
       /\ Increasing(batch[c])
       /\ \A i \in 1..Len(received[c]), j \in 1..Len(batch[c]) : received[c][i] < batch[c][j]
  /\ Partition(BatchesReturned, Busy("receive"), Hands, arrived - Len(recv_queue))

(* The counters lag behind by the packets that are not counted yet.         *)
CountInv ==
  /\ stats.packets_sent + Recording = accepted
  /\ stats.bytes_sent + Recording = accepted + Len(processed)
  /\ stats.packets_received = arrived - Len(recv_queue)
  /\ stats.total_batch_size + Cardinality(InHands(Busy("receive"), Hands))
       = Len(processed) + stats.packets_received

BatchInv == BatchTypes /\ SendInv /\ ReceiveInv /\ CountInv

BatchSteps == {"idle", "count", "yield", "receive"}

LEMMA BatchTyped ==
  ASSUME ResourcesAssumption, BatchTypes
  PROVE  /\ MaxPackets \in Nat /\ max_batch \in Nat \ {0} /\ Batch!Packets \subseteq Nat
         /\ send_queue \in Seq(Batch!Packets) /\ Len(send_queue) \in Nat
         /\ recv_queue \in Seq(Batch!Packets) /\ Len(recv_queue) \in Nat
         /\ accepted \in 0..MaxPackets /\ arrived \in 0..MaxPackets
         /\ doing \in [Callers -> BatchSteps]
         /\ \A c \in Callers : Len(batch[c]) \in Nat /\ Len(batch[c]) <= max_batch
         /\ \A c \in Callers : batch[c] \in Seq(Batch!Packets) /\ received[c] \in Seq(Batch!Packets)
         /\ dropped \subseteq Batch!Packets
         /\ is_connected \in [Callers -> BOOLEAN] /\ status \in BOOLEAN
         /\ processed \in Seq(Batch!Packets) /\ Len(processed) \in Nat /\ stats \in Counters
         /\ batch \in [Callers -> Seq(Batch!Packets)] /\ received \in [Callers -> Seq(Batch!Packets)]
         /\ \A c \in Callers : doing[c] \in {"idle", "count"} => batch[c] = <<>>
<1>1. MaxPackets \in Nat /\ max_batch \in Nat \ {0}
  BY DEF ResourcesAssumption
<1>2. Batch!Packets \subseteq Nat
  BY <1>1 DEF Batch!Packets
<1>3. /\ send_queue \in Seq(Batch!Packets) /\ recv_queue \in Seq(Batch!Packets)
      /\ accepted \in 0..MaxPackets /\ arrived \in 0..MaxPackets
      /\ doing \in [Callers -> BatchSteps]
      /\ \A c \in Callers : Len(batch[c]) <= max_batch
      /\ dropped \subseteq Batch!Packets
      /\ is_connected \in [Callers -> BOOLEAN] /\ status \in BOOLEAN
  BY DEF BatchTypes, Batch!TypeOK, BatchSteps
<1>4. /\ processed \in Seq(Batch!Packets) /\ stats \in Counters
      /\ batch \in [Callers -> Seq(Batch!Packets)] /\ received \in [Callers -> Seq(Batch!Packets)]
      /\ \A c \in Callers : doing[c] \in {"idle", "count"} => batch[c] = <<>>
  BY DEF BatchTypes
<1> HIDE DEF BatchTypes
<1>5. \A c \in Callers : batch[c] \in Seq(Batch!Packets) /\ received[c] \in Seq(Batch!Packets)
  BY <1>4
<1>6. /\ Len(send_queue) \in Nat /\ Len(recv_queue) \in Nat /\ Len(processed) \in Nat
      /\ \A c \in Callers : Len(batch[c]) \in Nat
  BY <1>3, <1>4, <1>5
<1> QED
  BY <1>1, <1>2, <1>3, <1>4, <1>5, <1>6

\* The same facts about the next state make it well typed.
LEMMA BatchTypedNext ==
  ASSUME send_queue' \in Seq(Batch!Packets), recv_queue' \in Seq(Batch!Packets),
         accepted' \in 0..MaxPackets, arrived' \in 0..MaxPackets,
         doing' \in [Callers -> BatchSteps],
         batch' \in [Callers -> Seq(Batch!Packets)],
         \A c \in Callers : Len(batch'[c]) <= max_batch,
         \A c \in Callers : doing'[c] \in {"idle", "count"} => batch'[c] = <<>>,
         received' \in [Callers -> Seq(Batch!Packets)],
         dropped' \subseteq Batch!Packets, is_connected' \in [Callers -> BOOLEAN],
         status' \in BOOLEAN, processed' \in Seq(Batch!Packets), stats' \in Counters
  PROVE  BatchTypes'
<1>1. \A c \in Callers : batch'[c] \in Seq(Batch!Packets)
  OBVIOUS
<1>2. Batch!TypeOK'
  BY <1>1 DEF Batch!TypeOK, BatchSteps, Batch!Packets
<1> QED
  BY <1>2 DEF BatchTypes, Batch!Packets

LEMMA BatchInitially == ASSUME ResourcesAssumption, Batch!Init PROVE BatchInv
<1>1. /\ send_queue = <<>> /\ recv_queue = <<>> /\ accepted = 0 /\ arrived = 0
      /\ doing = [c \in Callers |-> "idle"] /\ batch = [c \in Callers |-> <<>>]
      /\ processed = <<>> /\ received = [c \in Callers |-> <<>>] /\ dropped = {}
      /\ is_connected = [c \in Callers |-> TRUE] /\ status = TRUE
  BY DEF Batch!Init
<1>2. stats = [packets_sent |-> 0, bytes_sent |-> 0, packets_received |-> 0,
               total_batch_size |-> 0, max_batch_size |-> 0]
  BY DEF Batch!Init, Batch!Zero
<1>3. MaxPackets \in Nat /\ max_batch \in Nat \ {0} /\ IsFiniteSet(Callers)
  BY DEF ResourcesAssumption
<1>4. \A S : <<>> \in Seq(S) /\ Len(<<>>) = 0
  OBVIOUS
<1>14. /\ Len(send_queue) = 0 /\ Len(recv_queue) = 0 /\ Len(processed) = 0
       /\ accepted = 0 /\ arrived = 0
  BY <1>1
<1>15. accepted - Len(send_queue) = 0 /\ arrived - Len(recv_queue) = 0
  BY <1>14
<1>5. BatchTypes
  <2>1. Batch!TypeOK
    BY <1>1, <1>3, <1>4 DEF Batch!TypeOK
  <2>2. stats \in Counters
    BY <1>2 DEF Counters
  <2> QED
    BY <1>1, <1>4, <2>1, <2>2 DEF BatchTypes
<1>6. Elements(processed) = {} /\ \A c \in Callers : Elements(received[c]) = {}
  BY <1>1, <1>4 DEF Elements
<1>7. \A kind \in {"yield", "receive"} : Busy(kind) = {}
  BY <1>1 DEF Busy
<1>8. InHands({}, Hands) = {}
  BY DEF InHands
<1>9. \A done : done = {} => Partition(done, {}, Hands, 0)
  BY <1>8 DEF Partition
<1>10. Latest(<<>>, 0) /\ Once(<<>>) /\ Increasing(<<>>)
  BY <1>4 DEF Latest, Once, Increasing
<1>11. SendInv
  <2>1. Elements(processed) \cup dropped = {}
    BY <1>1, <1>6
  <2> QED
    BY <1>1, <1>7, <1>9, <1>10, <1>15, <2>1 DEF SendInv
<1>12. ReceiveInv
  <2>1. BatchesReturned = {}
    BY <1>6 DEF BatchesReturned
  <2> QED
    BY <1>1, <1>7, <1>9, <1>10, <1>15, <2>1 DEF ReceiveInv
<1>13. CountInv
  <2>1. Recording = 0
    BY <1>1, NoneThere DEF Recording
  <2>2. Cardinality(InHands(Busy("receive"), Hands)) = 0
    BY <1>7, <1>8, FS_EmptySet
  <2>3. /\ stats.packets_sent = 0 /\ stats.bytes_sent = 0 /\ stats.packets_received = 0
        /\ stats.total_batch_size = 0
    BY <1>2
  <2> QED
    BY <1>14, <2>1, <2>2, <2>3 DEF CountInv
<1> QED
  BY <1>5, <1>11, <1>12, <1>13 DEF BatchInv

LEMMA RangeIs == ASSUME NEW S, NEW s \in Seq(S) PROVE Batch!Range(s) = Elements(s)
BY DEF Batch!Range, Elements

LEMMA MinOf ==
  ASSUME NEW a \in Nat, NEW b \in Nat
  PROVE  Batch!Min({a, b}) \in Nat /\ Batch!Min({a, b}) <= a /\ Batch!Min({a, b}) <= b
<1>1. \E x \in {a, b} : \A y \in {a, b} : x <= y
  <2>1. CASE a <= b
    BY <2>1
  <2>2. CASE b <= a
    BY <2>2
  <2> QED
    BY <2>1, <2>2
<1>2. Batch!Min({a, b}) \in {a, b} /\ \A y \in {a, b} : Batch!Min({a, b}) <= y
  BY <1>1 DEF Batch!Min
<1> QED
  BY <1>2

LEMMA Recorded ==
  ASSUME NEW s \in Counters, NEW n \in Nat
  PROVE  /\ Batch!RecordBatch(s, n) \in Counters
         /\ Batch!RecordBatch(s, n).packets_sent = s.packets_sent
         /\ Batch!RecordBatch(s, n).bytes_sent = s.bytes_sent
         /\ Batch!RecordBatch(s, n).packets_received = s.packets_received
         /\ Batch!RecordBatch(s, n).total_batch_size = s.total_batch_size + n
<1> DEFINE m == IF n > s.max_batch_size THEN n ELSE s.max_batch_size
           r == [s EXCEPT !.total_batch_size = s.total_batch_size + n, !.max_batch_size = m]
<1>1. Batch!RecordBatch(s, n) = r
  BY DEF Batch!RecordBatch
<1>2. m \in Nat /\ s.total_batch_size + n \in Nat
  BY DEF Counters
<1> HIDE DEF m
<1>3. r \in Counters
  BY <1>2 DEF Counters
<1>4. /\ r.packets_sent = s.packets_sent /\ r.bytes_sent = s.bytes_sent
      /\ r.packets_received = s.packets_received /\ r.total_batch_size = s.total_batch_size + n
  BY DEF Counters
<1> QED
  BY <1>1, <1>3, <1>4

LEMMA CountersTyped ==
  ASSUME NEW s \in Counters
  PROVE  /\ s.packets_sent \in Nat /\ s.bytes_sent \in Nat /\ s.packets_received \in Nat
         /\ s.total_batch_size \in Nat
BY DEF Counters

LEMMA SendRecorded ==
  ASSUME NEW s \in Counters, NEW r,
         r = [s EXCEPT !.packets_sent = s.packets_sent + 1, !.bytes_sent = s.bytes_sent + 1]
  PROVE  /\ r \in Counters
         /\ r.packets_sent = s.packets_sent + 1 /\ r.bytes_sent = s.bytes_sent + 1
         /\ r.packets_received = s.packets_received /\ r.total_batch_size = s.total_batch_size
<1> DEFINE a == s.packets_sent + 1  b == s.bytes_sent + 1
<1>1. r = [s EXCEPT !.packets_sent = a, !.bytes_sent = b] /\ a \in Nat /\ b \in Nat
  BY CountersTyped
<1> HIDE DEF a, b
<1>2. r \in Counters
  BY <1>1 DEF Counters
<1>3. /\ r.packets_sent = a /\ r.bytes_sent = b
      /\ r.packets_received = s.packets_received /\ r.total_batch_size = s.total_batch_size
  BY <1>1 DEF Counters
<1> QED
  BY <1>2, <1>3 DEF a, b

MoreBytes(s, n, r) ==
  /\ r \in Counters /\ r.bytes_sent = s.bytes_sent + n
  /\ r.packets_sent = s.packets_sent /\ r.packets_received = s.packets_received
  /\ r.total_batch_size = s.total_batch_size

LEMMA BytesRecorded ==
  ASSUME NEW s \in Counters, NEW n \in Nat, NEW r, r = [s EXCEPT !.bytes_sent = s.bytes_sent + n]
  PROVE  MoreBytes(s, n, r)
<1> DEFINE a == s.bytes_sent + n
<1>1. r = [s EXCEPT !.bytes_sent = a] /\ a \in Nat
  BY CountersTyped
<1> HIDE DEF a
<1>2. r \in Counters
  BY <1>1 DEF Counters
<1>3. /\ r.bytes_sent = a
      /\ r.packets_sent = s.packets_sent /\ r.packets_received = s.packets_received
      /\ r.total_batch_size = s.total_batch_size
  BY <1>1 DEF Counters
<1> QED
  BY <1>2, <1>3 DEF a, MoreBytes

LEMMA ReceiptRecorded ==
  ASSUME NEW s \in Counters, NEW n \in Nat, NEW r, r = [s EXCEPT !.packets_received = s.packets_received + n]
  PROVE  /\ r \in Counters /\ r.packets_received = s.packets_received + n
         /\ r.packets_sent = s.packets_sent /\ r.bytes_sent = s.bytes_sent
         /\ r.total_batch_size = s.total_batch_size
<1> DEFINE a == s.packets_received + n
<1>1. r = [s EXCEPT !.packets_received = a] /\ a \in Nat
  BY CountersTyped
<1> HIDE DEF a
<1>2. r \in Counters
  BY <1>1 DEF Counters
<1>3. /\ r.packets_received = a
      /\ r.packets_sent = s.packets_sent /\ r.bytes_sent = s.bytes_sent
      /\ r.total_batch_size = s.total_batch_size
  BY <1>1 DEF Counters
<1> QED
  BY <1>2, <1>3 DEF a

LEMMA RecordingMoved ==
  ASSUME ResourcesAssumption, NEW c \in Callers, \A d \in Callers \ {c} : doing'[d] = doing[d]
  PROVE  /\ Recording \in Nat
         /\ (doing[c] = "count" <=> doing'[c] = "count") => Recording' = Recording
         /\ doing[c] = "count" /\ doing'[c] # "count" => Recording' = Recording - 1
         /\ doing[c] # "count" /\ doing'[c] = "count" => Recording' = Recording + 1
<1>1. CountMoved(Callers, doing, doing', {"count"}, c)
  BY OneMoved DEF ResourcesAssumption
<1> QED
  BY <1>1 DEF CountMoved, Recording

LEMMA CountsTyped ==
  ASSUME ResourcesAssumption, BatchInv
  PROVE  /\ stats \in Counters
         /\ stats.packets_sent \in Nat /\ stats.bytes_sent \in Nat
         /\ stats.packets_received \in Nat /\ stats.total_batch_size \in Nat
         /\ accepted \in Nat /\ arrived \in Nat /\ Len(processed) \in Nat /\ Len(recv_queue) \in Nat
         /\ Latest(recv_queue, arrived) /\ arrived - Len(recv_queue) \in Nat
         /\ Latest(send_queue, accepted) /\ accepted - Len(send_queue) \in Nat
         /\ Len(send_queue) \in Nat
         /\ Partition(BatchesReturned, Busy("receive"), Hands, arrived - Len(recv_queue))
         /\ IsFiniteSet(InHands(Busy("receive"), Hands))
         /\ Cardinality(InHands(Busy("receive"), Hands)) \in Nat
<1>1. BatchTypes /\ SendInv /\ ReceiveInv
  BY DEF BatchInv
<1>2. /\ stats \in Counters /\ Len(processed) \in Nat /\ Len(recv_queue) \in Nat /\ Len(send_queue) \in Nat
      /\ accepted \in Nat /\ arrived \in Nat
  BY <1>1, BatchTyped
<1>3. /\ Latest(recv_queue, arrived) /\ arrived - Len(recv_queue) \in Nat
      /\ Latest(send_queue, accepted) /\ accepted - Len(send_queue) \in Nat
      /\ Partition(BatchesReturned, Busy("receive"), Hands, arrived - Len(recv_queue))
  BY <1>1, <1>2 DEF SendInv, ReceiveInv, Latest
<1> QED
  BY <1>2, <1>3, CountersTyped, PartitionFinite

-----------------------------------------------------------------------------
\* Steps that leave the packets of one direction where they are.

LEMMA SendFrame ==
  ASSUME SendInv, UNCHANGED <<processed, dropped>>,
         Latest(send_queue', accepted'),
         accepted' - Len(send_queue') = accepted - Len(send_queue),
         accepted - Len(send_queue) \in Nat,
         \A c \in Callers : (doing'[c] = "yield" <=> doing[c] = "yield"),
         \A c \in Callers : doing[c] = "yield" => batch'[c] = batch[c]
  PROVE  SendInv'
<1>1. Busy("yield")' = Busy("yield")
  BY DEF Busy
<1>2. \A c \in Busy("yield") : Hands'[c] = Hands[c]
  BY DEF Busy, Hands
<1>3. Partition(Elements(processed) \cup dropped, Busy("yield"), Hands, accepted - Len(send_queue))
  BY DEF SendInv
<1>4. Partition(Elements(processed) \cup dropped, Busy("yield"), Hands', accepted - Len(send_queue))
  BY <1>2, <1>3, PartitionSame
<1>5. Partition(Elements(processed) \cup dropped, Busy("yield"), Hands, accepted - Len(send_queue))'
  BY <1>1, <1>4
<1>6. /\ Once(processed') /\ Elements(processed') \cap dropped' = {}
      /\ \A c \in Callers : doing'[c] = "yield" => Once(batch'[c])
  BY DEF SendInv
<1> QED
  BY <1>5, <1>6 DEF SendInv

LEMMA ReceiveFrame ==
  ASSUME ReceiveInv, UNCHANGED received,
         Latest(recv_queue', arrived'),
         arrived' - Len(recv_queue') = arrived - Len(recv_queue),
         arrived - Len(recv_queue) \in Nat,
         \A c \in Callers : (doing'[c] = "receive" <=> doing[c] = "receive"),
         \A c \in Callers : doing[c] = "receive" => batch'[c] = batch[c]
  PROVE  /\ ReceiveInv'
         /\ InHands(Busy("receive"), Hands)' = InHands(Busy("receive"), Hands)
<1>1. Busy("receive")' = Busy("receive")
  BY DEF Busy
<1>2. \A c \in Busy("receive") : Hands'[c] = Hands[c]
  BY DEF Busy, Hands
<1>3. Partition(BatchesReturned, Busy("receive"), Hands, arrived - Len(recv_queue))
  BY DEF ReceiveInv
<1>4. /\ Partition(BatchesReturned, Busy("receive"), Hands', arrived - Len(recv_queue))
      /\ InHands(Busy("receive"), Hands') = InHands(Busy("receive"), Hands)
  BY <1>2, <1>3, PartitionSame
<1>5. BatchesReturned' = BatchesReturned
  BY DEF BatchesReturned
<1>6. /\ Partition(BatchesReturned, Busy("receive"), Hands, arrived - Len(recv_queue))'
      /\ InHands(Busy("receive"), Hands)' = InHands(Busy("receive"), Hands)
  BY <1>1, <1>4, <1>5
<1>7. /\ \A c \in Callers : Increasing(received'[c])
      /\ \A c \in Callers : doing'[c] = "receive" =>
           /\ Increasing(batch'[c])
           /\ \A i \in 1..Len(received'[c]), j \in 1..Len(batch'[c]) : received'[c][i] < batch'[c][j]
  BY DEF ReceiveInv
<1> QED
  BY <1>6, <1>7 DEF ReceiveInv

-----------------------------------------------------------------------------
\* Every operation.

LEMMA SendNowaitKeeps ==
  ASSUME ResourcesAssumption, BatchInv, NEW c \in Callers, Batch!SendNowait(c)
  PROVE  BatchInv'
<1> USE DEF BatchInv
<1>1. /\ doing[c] = "idle" /\ accepted < MaxPackets /\ accepted' = accepted + 1
      /\ send_queue' = Append(send_queue, accepted + 1)
      /\ doing' = [doing EXCEPT ![c] = "count"]
      /\ UNCHANGED <<recv_queue, arrived, batch, processed, received, dropped, is_connected, status, stats>>
  BY DEF Batch!SendNowait
<1>2. accepted + 1 \in Batch!Packets /\ accepted \in Nat /\ arrived \in Nat
  BY <1>1, BatchTyped DEF Batch!Packets
<1>3. /\ Latest(send_queue, accepted) /\ Len(send_queue) \in Nat /\ accepted - Len(send_queue) \in Nat
      /\ Latest(recv_queue, arrived) /\ Len(recv_queue) \in Nat /\ arrived - Len(recv_queue) \in Nat
  BY <1>2, BatchTyped DEF SendInv, ReceiveInv, Latest
<1>4. /\ send_queue' \in Seq(Batch!Packets) /\ Latest(send_queue', accepted')
      /\ accepted' - Len(send_queue') = accepted - Len(send_queue)
  BY <1>1, <1>2, <1>3, BatchTyped, LatestAppended
<1>5. doing' \in [Callers -> BatchSteps] /\ doing'[c] = "count"
      /\ \A d \in Callers \ {c} : doing'[d] = doing[d]
  BY <1>1, BatchTyped DEF BatchSteps
<1>6. /\ \A d \in Callers : (doing'[d] = "yield" <=> doing[d] = "yield")
      /\ \A d \in Callers : (doing'[d] = "receive" <=> doing[d] = "receive")
      /\ \A d \in Callers : doing'[d] \in {"idle", "count"} => doing[d] \in {"idle", "count"}
  BY <1>1, <1>5
<1>7. BatchTypes'
  <2>1. accepted' \in 0..MaxPackets
    BY <1>1, <1>2, BatchTyped
  <2> QED
    BY <1>1, <1>4, <1>5, <1>6, <2>1, BatchTyped, BatchTypedNext
<1>8. SendInv'
  BY <1>1, <1>3, <1>4, <1>6, SendFrame
<1>9. ReceiveInv' /\ InHands(Busy("receive"), Hands)' = InHands(Busy("receive"), Hands)
  BY <1>1, <1>3, <1>6, ReceiveFrame
<1>10. CountInv'
  <2>1. Recording \in Nat /\ Recording' = Recording + 1
    BY <1>1, <1>5, RecordingMoved
  <2>2. /\ stats'.packets_sent = stats.packets_sent /\ stats'.bytes_sent = stats.bytes_sent
        /\ stats'.packets_received = stats.packets_received
        /\ stats'.total_batch_size = stats.total_batch_size
        /\ accepted' = accepted + 1 /\ arrived' = arrived
        /\ Len(processed') = Len(processed) /\ Len(recv_queue') = Len(recv_queue)
    BY <1>1
  <2>3. /\ stats.packets_sent \in Nat /\ stats.bytes_sent \in Nat
        /\ stats.packets_received \in Nat /\ stats.total_batch_size \in Nat
    BY BatchTyped, CountersTyped
  <2>4. Len(processed) \in Nat
    BY BatchTyped
  <2> DEFINE h == Cardinality(InHands(Busy("receive"), Hands))
  <2>5. /\ stats.packets_sent + Recording = accepted
        /\ stats.bytes_sent + Recording = accepted + Len(processed)
        /\ stats.packets_received = arrived - Len(recv_queue)
        /\ stats.total_batch_size + h = Len(processed) + stats.packets_received
    BY DEF CountInv
  <2>6. h' = h
    BY <1>9
  <2> HIDE DEF h
  <2>7. stats'.packets_sent + Recording' = accepted'
    <3> DEFINE p == stats.packets_sent  q == Recording
    <3>1. p \in Nat /\ q \in Nat /\ accepted = p + q
      BY <2>1, <2>3, <2>5
    <3>2. stats'.packets_sent = p /\ Recording' = q + 1 /\ accepted' = accepted + 1
      BY <2>1, <2>2, Zenon
    <3> HIDE DEF p, q
    <3>3. p + (q + 1) = p + q + 1
      BY <3>1
    <3> QED
      BY <3>1, <3>2, <3>3, Zenon
  <2>8. stats'.bytes_sent + Recording' = accepted' + Len(processed')
    <3> DEFINE b == stats.bytes_sent  q == Len(processed)
    <3>1. b \in Nat /\ q \in Nat /\ b + Recording = accepted + q
      BY <2>3, <2>4, <2>5
    <3> HIDE DEF b, q
    <3>2. b + (Recording + 1) = (accepted + 1) + q
      BY <1>2, <2>1, <3>1
    <3> QED
      BY <2>1, <2>2, <3>2 DEF b, q
  <2>9. stats'.packets_received = arrived' - Len(recv_queue')
    BY <2>2, <2>5
  <2>10. stats'.total_batch_size + h' = Len(processed') + stats'.packets_received
    BY <2>2, <2>5, <2>6
  <2> QED
    BY <2>7, <2>8, <2>9, <2>10 DEF CountInv, h
<1> QED
  BY <1>7, <1>8, <1>9, <1>10

LEMMA RecordSendKeeps ==
  ASSUME ResourcesAssumption, BatchInv, NEW c \in Callers, Batch!RecordSend(c)
  PROVE  BatchInv'
<1> USE DEF BatchInv
<1>1. /\ doing[c] = "count" /\ doing' = [doing EXCEPT ![c] = "idle"]
      /\ stats' = [stats EXCEPT !.packets_sent = stats.packets_sent + 1,
                              !.bytes_sent = stats.bytes_sent + 1]
      /\ UNCHANGED <<send_queue, recv_queue, accepted, arrived, batch, processed, received,
                     dropped, is_connected, status>>
  BY DEF Batch!RecordSend, Batch!queues
<1>2. accepted \in Nat /\ arrived \in Nat
  BY BatchTyped
<1>3. /\ Latest(send_queue, accepted) /\ Len(send_queue) \in Nat /\ accepted - Len(send_queue) \in Nat
      /\ Latest(recv_queue, arrived) /\ Len(recv_queue) \in Nat /\ arrived - Len(recv_queue) \in Nat
  BY <1>2, BatchTyped DEF SendInv, ReceiveInv, Latest
<1>4. doing' \in [Callers -> BatchSteps] /\ doing'[c] = "idle"
      /\ \A d \in Callers \ {c} : doing'[d] = doing[d]
  BY <1>1, BatchTyped DEF BatchSteps
<1>5. /\ \A d \in Callers : (doing'[d] = "yield" <=> doing[d] = "yield")
      /\ \A d \in Callers : (doing'[d] = "receive" <=> doing[d] = "receive")
      /\ \A d \in Callers : doing'[d] \in {"idle", "count"} => doing[d] \in {"idle", "count"}
  BY <1>1, <1>4
<1>6. /\ stats' \in Counters /\ stats'.packets_sent = stats.packets_sent + 1
      /\ stats'.bytes_sent = stats.bytes_sent + 1
      /\ stats'.packets_received = stats.packets_received
      /\ stats'.total_batch_size = stats.total_batch_size
  <2>1. stats \in Counters
    BY BatchTyped
  <2> QED
    BY <1>1, <2>1, SendRecorded
<1>7. BatchTypes'
  BY <1>1, <1>4, <1>5, <1>6, BatchTyped, BatchTypedNext
<1>8. SendInv'
  BY <1>1, <1>3, <1>5, SendFrame
<1>9. ReceiveInv' /\ InHands(Busy("receive"), Hands)' = InHands(Busy("receive"), Hands)
  BY <1>1, <1>3, <1>5, ReceiveFrame
<1>10. CountInv'
  <2>1. Recording \in Nat /\ Recording' = Recording - 1
    BY <1>1, <1>4, RecordingMoved
  <2>2. /\ accepted' = accepted /\ arrived' = arrived
        /\ Len(processed') = Len(processed) /\ Len(recv_queue') = Len(recv_queue)
    BY <1>1
  <2>3. /\ stats.packets_sent \in Nat /\ stats.bytes_sent \in Nat
        /\ stats.packets_received \in Nat /\ stats.total_batch_size \in Nat
    BY BatchTyped, CountersTyped
  <2>4. Len(processed) \in Nat
    BY BatchTyped
  <2> DEFINE a == stats.packets_sent  b == stats.bytes_sent  q == Len(processed)
             h == Cardinality(InHands(Busy("receive"), Hands))
  <2>5. /\ a + Recording = accepted /\ b + Recording = accepted + q
        /\ stats.packets_received = arrived - Len(recv_queue)
        /\ stats.total_batch_size + h = q + stats.packets_received
    BY DEF CountInv
  <2>6. h' = h
    BY <1>9
  <2>7. a \in Nat /\ b \in Nat /\ q \in Nat
    BY <2>3, <2>4
  <2>8. /\ stats'.packets_sent = a + 1 /\ stats'.bytes_sent = b + 1 /\ Len(processed') = q
    BY <1>6, <2>2
  <2> HIDE DEF a, b, q, h
  <2>9. /\ (a + 1) + (Recording - 1) = accepted
        /\ (b + 1) + (Recording - 1) = accepted + q
    BY <1>2, <2>1, <2>5, <2>7
  <2>10. /\ stats'.packets_sent + Recording' = accepted'
         /\ stats'.bytes_sent + Recording' = accepted' + Len(processed')
    BY <2>1, <2>2, <2>8, <2>9
  <2>11. /\ stats'.packets_received = arrived' - Len(recv_queue')
         /\ stats'.total_batch_size + h' = Len(processed') + stats'.packets_received
    BY <1>6, <2>2, <2>5, <2>6, <2>8
  <2> QED
    BY <2>10, <2>11 DEF CountInv, h
<1> QED
  BY <1>7, <1>8, <1>9, <1>10

LEMMA ArriveKeeps ==
  ASSUME ResourcesAssumption, BatchInv, Batch!Arrive
  PROVE  BatchInv'
<1> USE DEF BatchInv
<1>1. /\ arrived < MaxPackets /\ arrived' = arrived + 1
      /\ recv_queue' = Append(recv_queue, arrived + 1)
      /\ UNCHANGED <<send_queue, accepted, doing, batch, processed, received, dropped,
                     is_connected, status, stats>>
  BY DEF Batch!Arrive
<1>2. arrived + 1 \in Batch!Packets /\ accepted \in Nat /\ arrived \in Nat
  BY <1>1, BatchTyped DEF Batch!Packets
<1>3. /\ Latest(send_queue, accepted) /\ Len(send_queue) \in Nat /\ accepted - Len(send_queue) \in Nat
      /\ Latest(recv_queue, arrived) /\ Len(recv_queue) \in Nat /\ arrived - Len(recv_queue) \in Nat
  BY <1>2, BatchTyped DEF SendInv, ReceiveInv, Latest
<1>4. /\ recv_queue' \in Seq(Batch!Packets) /\ Latest(recv_queue', arrived')
      /\ arrived' - Len(recv_queue') = arrived - Len(recv_queue)
  BY <1>1, <1>2, <1>3, BatchTyped, LatestAppended
<1>5. BatchTypes'
  <2>1. arrived' \in 0..MaxPackets
    BY <1>1, <1>2, BatchTyped
  <2> QED
    BY <1>1, <1>4, <2>1, BatchTyped, BatchTypedNext
<1>6. SendInv'
  BY <1>1, <1>3, SendFrame
<1>7. ReceiveInv' /\ InHands(Busy("receive"), Hands)' = InHands(Busy("receive"), Hands)
  BY <1>1, <1>3, <1>4, ReceiveFrame
<1>8. CountInv'
  <2>1. Recording' = Recording
    BY <1>1 DEF Recording
  <2> QED
    BY <1>1, <1>4, <1>7, <2>1 DEF CountInv
<1> QED
  BY <1>5, <1>6, <1>7, <1>8

LEMMA SetConnectedKeeps ==
  ASSUME ResourcesAssumption, BatchInv, NEW c \in Callers, Batch!SetConnected(c)
  PROVE  BatchInv'
<1> USE DEF BatchInv
<1>1. PICK value \in BOOLEAN :
        /\ is_connected' = [is_connected EXCEPT ![c] = value] /\ status' = value
        /\ UNCHANGED <<send_queue, recv_queue, accepted, arrived, doing, batch, processed,
                       received, dropped, stats>>
  BY DEF Batch!SetConnected, Batch!queues
<1>2. BatchTypes'
  <2>1. is_connected' \in [Callers -> BOOLEAN] /\ status' \in BOOLEAN
    BY <1>1, BatchTyped
  <2> QED
    BY <1>1, <2>1, BatchTyped, BatchTypedNext
<1>3. SendInv' /\ ReceiveInv' /\ CountInv'
  BY <1>1 DEF SendInv, ReceiveInv, CountInv, Busy, Hands, BatchesReturned, Recording
<1> QED
  BY <1>2, <1>3

LEMMA CollectKeeps ==
  ASSUME ResourcesAssumption, BatchInv, NEW c \in Callers, Batch!Collect(c)
  PROVE  BatchInv'
<1> USE DEF BatchInv
<1> DEFINE k == Batch!Min({max_batch, Len(send_queue)})
           n == accepted - Len(send_queue)
<1>1. /\ doing[c] = "idle" /\ doing' = [doing EXCEPT ![c] = "yield"]
      /\ batch' = [batch EXCEPT ![c] = SubSeq(send_queue, 1, k)]
      /\ send_queue' = SubSeq(send_queue, k + 1, Len(send_queue))
      /\ UNCHANGED <<recv_queue, accepted, arrived, processed, received, dropped,
                     is_connected, status, stats>>
  BY DEF Batch!Collect
<1>2. accepted \in Nat /\ arrived \in Nat /\ Len(send_queue) \in Nat
  BY BatchTyped
<1>3. k \in Nat /\ k <= max_batch /\ k <= Len(send_queue)
  BY <1>2, MinOf, BatchTyped
<1>4. /\ Latest(send_queue, accepted) /\ n \in Nat
      /\ Latest(recv_queue, arrived) /\ Len(recv_queue) \in Nat /\ arrived - Len(recv_queue) \in Nat
  BY <1>2, BatchTyped DEF SendInv, ReceiveInv, Latest
<1> HIDE DEF k
<1>5. /\ SubSeq(send_queue, 1, k) \in Seq(Batch!Packets) /\ Len(SubSeq(send_queue, 1, k)) = k
      /\ send_queue' \in Seq(Batch!Packets) /\ Len(send_queue') = Len(send_queue) - k
      /\ Latest(send_queue', accepted)
      /\ Once(SubSeq(send_queue, 1, k))
      /\ Elements(SubSeq(send_queue, 1, k)) = (n + 1)..(n + k)
  <2>1. k \in 0..Len(send_queue)
    BY <1>2, <1>3
  <2>2. Batch!Packets \in SUBSET Nat /\ send_queue \in Seq(Batch!Packets)
    BY BatchTyped
  <2> HIDE DEF BatchInv
  <2> QED
    BY <1>1, <1>2, <1>4, <2>1, <2>2, LatestTaken
<1>6. /\ doing' \in [Callers -> BatchSteps] /\ doing'[c] = "yield"
      /\ \A d \in Callers \ {c} : doing'[d] = doing[d]
      /\ batch' \in [Callers -> Seq(Batch!Packets)] /\ batch'[c] = SubSeq(send_queue, 1, k)
      /\ \A d \in Callers \ {c} : batch'[d] = batch[d]
  BY <1>1, <1>5, BatchTyped DEF BatchSteps
<1>7. BatchTypes'
  <2>1. \A d \in Callers : Len(batch'[d]) <= max_batch
    BY <1>3, <1>5, <1>6, BatchTyped
  <2>2. \A d \in Callers : doing'[d] \in {"idle", "count"} => batch'[d] = <<>>
    BY <1>6, BatchTyped
  <2> QED
    BY <1>1, <1>5, <1>6, <2>1, <2>2, BatchTyped, BatchTypedNext
<1>8. SendInv'
  <2> DEFINE Y == Busy("yield")  H == Hands  G == Hands'
             done == Elements(processed) \cup dropped
  <2>1. Partition(done, Y, H, n) /\ c \notin Y
    BY <1>1 DEF SendInv, Busy
  <2>2. G[c] = {} \cup (n + 1)..(n + k) /\ \A d \in Y \ {c} : G[d] = H[d]
    BY <1>5, <1>6 DEF Hands, Busy
  <2>3. Busy("yield")' = Y \cup {c}
    BY <1>6 DEF Busy
  <2>4. accepted' - Len(send_queue') = n + k
    <3>1. accepted' = accepted
      BY <1>1
    <3> QED
      BY <1>2, <1>3, <1>5, <3>1
  <2>5. n \in Nat /\ k \in Nat
    BY <1>3, <1>4
  <2>6. done' = done
    BY <1>1
  <2> HIDE DEF Y, H, G, n, done
  <2>7. Partition(done, Y \cup {c}, G, n + k)
    <3>1. Taken(done, Y, H, G, n, k, c, {})
      BY <2>1, <2>2, <2>5, PartitionTaken
    <3> QED
      BY <3>1 DEF Taken
  <2>8. Partition(done', Busy("yield")', G, accepted' - Len(send_queue'))
    BY <2>3, <2>4, <2>6, <2>7
  <2>9. Latest(send_queue', accepted') /\ Once(processed') /\ Elements(processed') \cap dropped' = {}
    BY <1>1, <1>5 DEF SendInv
  <2>10. \A d \in Callers : doing'[d] = "yield" => Once(batch'[d])
    BY <1>5, <1>6 DEF SendInv
  <2> QED
    BY <2>8, <2>9, <2>10 DEF SendInv, G, done
<1>9. ReceiveInv' /\ InHands(Busy("receive"), Hands)' = InHands(Busy("receive"), Hands)
  <2>1. \A d \in Callers : (doing'[d] = "receive" <=> doing[d] = "receive")
    BY <1>1, <1>6
  <2>2. \A d \in Callers : doing[d] = "receive" => batch'[d] = batch[d]
    BY <1>1, <1>6
  <2> QED
    BY <1>1, <1>4, <2>1, <2>2, ReceiveFrame
<1>10. CountInv'
  <2>1. Recording' = Recording
    BY <1>1, <1>6, RecordingMoved
  <2> QED
    BY <1>1, <1>9, <2>1 DEF CountInv
<1> QED
  BY <1>7, <1>8, <1>9, <1>10

\* Process and Dropped: the caller is done with its batch.
LEMMA YieldDone ==
  ASSUME ResourcesAssumption, BatchTypes, SendInv, NEW c \in Callers, doing[c] = "yield",
         doing' = [doing EXCEPT ![c] = "idle"], batch' = [batch EXCEPT ![c] = <<>>],
         UNCHANGED <<send_queue, accepted>>, Once(processed'),
         Elements(processed') \cap dropped' = {},
         Elements(processed') \cup dropped' = (Elements(processed) \cup dropped) \cup Elements(batch[c])
  PROVE  /\ SendInv'
         /\ Once(batch[c]) /\ Elements(batch[c]) \cap (Elements(processed) \cup dropped) = {}
<1> DEFINE done == Elements(processed) \cup dropped
           Y == Busy("yield")  H == Hands  G == Hands'  n == accepted - Len(send_queue)
<1>1. Partition(done, Y, H, n) /\ c \in Y /\ Once(batch[c]) /\ H[c] = Elements(batch[c])
  BY DEF SendInv, Busy, Hands
<1>2. accepted \in Nat /\ Len(send_queue) \in Nat /\ Latest(send_queue, accepted)
      /\ doing \in [Callers -> BatchSteps] /\ batch \in [Callers -> Seq(Batch!Packets)]
  BY BatchTyped DEF SendInv
<1>3. n \in Nat
  BY <1>2 DEF Latest
<1>4. /\ \A d \in Callers \ {c} : doing'[d] = doing[d] /\ batch'[d] = batch[d]
      /\ doing'[c] = "idle"
  BY <1>2
<1>5. Busy("yield")' = Y \ {c} /\ \A d \in Y \ {c} : G[d] = H[d]
  BY <1>4 DEF Busy, Hands
<1> HIDE DEF done, Y, H, G, n
<1>6. Partition(done \cup H[c], Y \ {c}, G, n) /\ H[c] \cap done = {}
  <2>1. DoneWith(done, Y, H, G, n, c)
    BY <1>1, <1>3, <1>5, PartitionDone
  <2> QED
    BY <2>1 DEF DoneWith
<1>7. Partition(Elements(processed') \cup dropped', Busy("yield")', G, n)
  BY <1>1, <1>5, <1>6 DEF done
<1>8. n' = n
  BY DEF n
<1>9. Partition(Elements(processed) \cup dropped, Busy("yield"), Hands, accepted - Len(send_queue))'
  BY <1>7, <1>8 DEF G, n
<1>10. \A d \in Callers : doing'[d] = "yield" => Once(batch'[d])
  BY <1>4 DEF SendInv
<1>11. Latest(send_queue', accepted')
  BY <1>2
<1> QED
  BY <1>1, <1>6, <1>9, <1>10, <1>11 DEF SendInv, done

LEMMA BatchReleased ==
  ASSUME ResourcesAssumption, BatchTypes, NEW c \in Callers,
         doing' = [doing EXCEPT ![c] = "idle"], batch' = [batch EXCEPT ![c] = <<>>]
  PROVE  /\ doing' \in [Callers -> BatchSteps] /\ batch' \in [Callers -> Seq(Batch!Packets)]
         /\ doing'[c] = "idle" /\ \A d \in Callers \ {c} : doing'[d] = doing[d] /\ batch'[d] = batch[d]
         /\ \A d \in Callers : Len(batch'[d]) <= max_batch
         /\ \A d \in Callers : doing'[d] \in {"idle", "count"} => batch'[d] = <<>>
<1>1. /\ doing \in [Callers -> BatchSteps] /\ batch \in [Callers -> Seq(Batch!Packets)]
      /\ max_batch \in Nat /\ \A d \in Callers : Len(batch[d]) <= max_batch
      /\ \A d \in Callers : doing[d] \in {"idle", "count"} => batch[d] = <<>>
  BY BatchTyped
<1>2. doing' \in [Callers -> BatchSteps] /\ doing'[c] = "idle"
      /\ \A d \in Callers \ {c} : doing'[d] = doing[d] /\ batch'[d] = batch[d]
  BY <1>1 DEF BatchSteps
<1>3. <<>> \in Seq(Batch!Packets) /\ Len(<<>>) = 0
  OBVIOUS
<1>4. batch' \in [Callers -> Seq(Batch!Packets)] /\ batch'[c] = <<>>
  BY <1>1, <1>3
<1>5. \A d \in Callers : Len(batch'[d]) <= max_batch
  BY <1>1, <1>2, <1>3, <1>4
<1>6. \A d \in Callers : doing'[d] \in {"idle", "count"} => batch'[d] = <<>>
  BY <1>1, <1>2, <1>4
<1> QED
  BY <1>2, <1>4, <1>5, <1>6

LEMMA ProcessKeeps ==
  ASSUME ResourcesAssumption, BatchInv, NEW c \in Callers, Batch!Process(c)
  PROVE  BatchInv'
<1> USE DEF BatchInv
<1> DEFINE r == Batch!RecordBatch(stats, Len(batch[c]))
<1>1. /\ doing[c] = "yield" /\ doing' = [doing EXCEPT ![c] = "idle"]
      /\ batch' = [batch EXCEPT ![c] = <<>>] /\ processed' = processed \o batch[c]
      /\ stats' = [r EXCEPT !.bytes_sent = r.bytes_sent + Len(batch[c])]
      /\ UNCHANGED <<send_queue, recv_queue, accepted, arrived, received, dropped, is_connected, status>>
  BY DEF Batch!Process, Batch!queues
<1>2. /\ processed \in Seq(Batch!Packets) /\ batch[c] \in Seq(Batch!Packets) /\ Len(batch[c]) \in Nat
      /\ stats \in Counters /\ Len(processed) \in Nat /\ accepted \in Nat
      /\ arrived \in Nat /\ Len(recv_queue) \in Nat
  BY BatchTyped
<1>3. /\ stats' \in Counters /\ stats'.packets_sent = stats.packets_sent
      /\ stats'.bytes_sent = stats.bytes_sent + Len(batch[c])
      /\ stats'.packets_received = stats.packets_received
      /\ stats'.total_batch_size = stats.total_batch_size + Len(batch[c])
  <2>1. /\ r \in Counters /\ r.packets_sent = stats.packets_sent /\ r.bytes_sent = stats.bytes_sent
        /\ r.packets_received = stats.packets_received
        /\ r.total_batch_size = stats.total_batch_size + Len(batch[c])
    BY <1>2, Recorded
  <2> HIDE DEF r
  <2> QED
    <3>1. stats' = [r EXCEPT !.bytes_sent = r.bytes_sent + Len(batch[c])]
      BY <1>1
    <3>2. r \in Counters /\ Len(batch[c]) \in Nat
      BY <1>2, <2>1
    <3>3. MoreBytes(r, Len(batch[c]), stats')
      BY <3>1, <3>2, BytesRecorded
    <3> QED
      BY <2>1, <3>3 DEF MoreBytes
<1>4. /\ processed' \in Seq(Batch!Packets) /\ Len(processed') = Len(processed) + Len(batch[c])
      /\ Elements(processed') = Elements(processed) \cup Elements(batch[c])
      /\ Once(processed) /\ Once(batch[c]) /\ Elements(processed) \cap Elements(batch[c]) = {}
           => Once(processed')
  BY SMTT(30), <1>1, <1>2, ElementsJoined
<1>5. /\ Once(batch[c]) /\ Once(processed) /\ Elements(processed) \cap dropped = {}
      /\ Elements(batch[c]) \cap (Elements(processed) \cup dropped) = {}
  <2>1. accepted - Len(send_queue) \in Nat
    BY BatchTyped DEF SendInv, Latest
  <2>2. Partition(Elements(processed) \cup dropped, Busy("yield"), Hands, accepted - Len(send_queue))
    BY DEF SendInv
  <2>3. c \in Busy("yield") /\ Hands[c] = Elements(batch[c])
    BY <1>1 DEF Busy, Hands
  <2>4. Hands[c] \cap (Elements(processed) \cup dropped) = {}
    BY <2>2, <2>3 DEF Partition
  <2> QED
    BY <1>1, <2>3, <2>4 DEF SendInv
<1>6. BatchTypes'
  <2>1. /\ doing' \in [Callers -> BatchSteps] /\ batch' \in [Callers -> Seq(Batch!Packets)]
        /\ \A d \in Callers : Len(batch'[d]) <= max_batch
        /\ \A d \in Callers : doing'[d] \in {"idle", "count"} => batch'[d] = <<>>
    BY <1>1, BatchReleased
  <2>2. /\ send_queue \in Seq(Batch!Packets) /\ recv_queue \in Seq(Batch!Packets)
        /\ accepted \in 0..MaxPackets /\ arrived \in 0..MaxPackets
        /\ received \in [Callers -> Seq(Batch!Packets)] /\ dropped \subseteq Batch!Packets
        /\ is_connected \in [Callers -> BOOLEAN] /\ status \in BOOLEAN
    BY BatchTyped
  <2>3. /\ send_queue' \in Seq(Batch!Packets) /\ recv_queue' \in Seq(Batch!Packets)
        /\ accepted' \in 0..MaxPackets /\ arrived' \in 0..MaxPackets
        /\ received' \in [Callers -> Seq(Batch!Packets)] /\ dropped' \subseteq Batch!Packets
        /\ is_connected' \in [Callers -> BOOLEAN] /\ status' \in BOOLEAN
    BY <1>1, <2>2
  <2> QED
    BY <1>3, <1>4, <2>1, <2>3, BatchTypedNext
<1>7. SendInv'
  BY <1>1, <1>4, <1>5, YieldDone
<1>8. ReceiveInv' /\ InHands(Busy("receive"), Hands)' = InHands(Busy("receive"), Hands)
  <2>1. Latest(recv_queue', arrived') /\ arrived' - Len(recv_queue') = arrived - Len(recv_queue)
        /\ arrived - Len(recv_queue) \in Nat /\ received' = received
    <3>1. Latest(recv_queue, arrived)
      BY DEF ReceiveInv
    <3>2. arrived - Len(recv_queue) \in Nat
      BY <1>2, <3>1 DEF Latest
    <3>3. recv_queue' = recv_queue /\ arrived' = arrived /\ received' = received
      BY <1>1
    <3> QED
      BY <3>1, <3>2, <3>3
  <2>2. /\ \A d \in Callers : (doing'[d] = "receive" <=> doing[d] = "receive")
        /\ \A d \in Callers : doing[d] = "receive" => batch'[d] = batch[d]
    BY <1>1, BatchReleased
  <2> QED
    BY <2>1, <2>2, ReceiveFrame
<1>9. CountInv'
  <2>1. Recording \in Nat /\ Recording' = Recording
    BY <1>1, BatchReleased, RecordingMoved
  <2>2. accepted' = accepted /\ arrived' = arrived /\ Len(recv_queue') = Len(recv_queue)
    BY <1>1
  <2> DEFINE h == Cardinality(InHands(Busy("receive"), Hands))
  <2>3. /\ stats.packets_sent + Recording = accepted
        /\ stats.bytes_sent + Recording = accepted + Len(processed)
        /\ stats.packets_received = arrived - Len(recv_queue)
        /\ stats.total_batch_size + h = Len(processed) + stats.packets_received
    BY DEF CountInv
  <2>4. h' = h
    BY <1>8
  <2>5. /\ stats.packets_sent \in Nat /\ stats.bytes_sent \in Nat
        /\ stats.packets_received \in Nat /\ stats.total_batch_size \in Nat /\ h \in Nat
    BY CountsTyped
  <2> HIDE DEF h
  <2>6. Len(processed') = Len(processed) + Len(batch[c]) /\ Len(processed) \in Nat /\ Len(batch[c]) \in Nat
    BY <1>2, <1>4
  <2>7. stats'.packets_sent + Recording' = accepted'
    BY <1>3, <2>1, <2>2, <2>3
  <2>8. stats'.bytes_sent + Recording' = accepted' + Len(processed')
    <3> DEFINE b == stats.bytes_sent  q == Len(processed)  m == Len(batch[c])
    <3>1. stats'.bytes_sent = b + m /\ Len(processed') = q + m /\ b + Recording = accepted + q
      BY <1>3, <2>3, <2>6
    <3>2. b \in Nat /\ q \in Nat /\ m \in Nat /\ accepted \in Nat
      BY <1>2, <2>5, <2>6
    <3> HIDE DEF b, q, m
    <3>3. (b + m) + Recording = accepted + (q + m)
      BY <2>1, <3>1, <3>2
    <3> QED
      BY <2>1, <2>2, <3>1, <3>3
  <2>9. stats'.packets_received = arrived' - Len(recv_queue')
    BY <1>3, <2>2, <2>3
  <2>10. stats'.total_batch_size + h' = Len(processed') + stats'.packets_received
    <3> DEFINE b == stats.total_batch_size  q == Len(processed)  m == Len(batch[c])
               r0 == stats.packets_received
    <3>1. stats'.total_batch_size = b + m /\ Len(processed') = q + m /\ b + h = q + r0
          /\ stats'.packets_received = r0
      BY <1>3, <2>3, <2>6
    <3>2. b \in Nat /\ q \in Nat /\ m \in Nat /\ h \in Nat /\ r0 \in Nat
      BY <1>2, <2>5, <2>6
    <3> HIDE DEF b, q, m, r0
    <3>3. (b + m) + h = (q + m) + r0
      BY <3>1, <3>2
    <3> QED
      BY <2>4, <3>1, <3>3
  <2> QED
    BY <2>7, <2>8, <2>9, <2>10 DEF CountInv, h
<1> QED
  BY <1>6, <1>7, <1>8, <1>9


LEMMA DroppedKeeps ==
  ASSUME ResourcesAssumption, BatchInv, NEW c \in Callers, Batch!Dropped(c)
  PROVE  BatchInv'
<1> USE DEF BatchInv
<1>1. /\ doing[c] = "yield" /\ doing' = [doing EXCEPT ![c] = "idle"]
      /\ batch' = [batch EXCEPT ![c] = <<>>] /\ dropped' = dropped \cup Batch!Range(batch[c])
      /\ UNCHANGED <<send_queue, recv_queue, accepted, arrived, processed, received,
                     is_connected, status, stats>>
  BY DEF Batch!Dropped, Batch!queues
<1>2. /\ batch[c] \in Seq(Batch!Packets) /\ arrived \in Nat /\ Len(recv_queue) \in Nat
      /\ dropped \subseteq Batch!Packets
  BY BatchTyped
<1>3. dropped' = dropped \cup Elements(batch[c]) /\ Elements(batch[c]) \subseteq Batch!Packets
  BY <1>1, <1>2, RangeIs, ElementsCounted
<1>4. /\ Once(processed) /\ Elements(processed) \cap dropped = {}
      /\ Elements(batch[c]) \cap (Elements(processed) \cup dropped) = {}
  <2>1. Partition(Elements(processed) \cup dropped, Busy("yield"), Hands, accepted - Len(send_queue))
    BY DEF SendInv
  <2>2. c \in Busy("yield") /\ Hands[c] = Elements(batch[c])
    BY <1>1 DEF Busy, Hands
  <2>3. Hands[c] \cap (Elements(processed) \cup dropped) = {}
    BY <2>1, <2>2 DEF Partition
  <2> QED
    BY <2>2, <2>3 DEF SendInv
<1>5. BatchTypes'
  <2>1. dropped' \subseteq Batch!Packets
    BY <1>2, <1>3
  <2> QED
    BY <1>1, <2>1, BatchReleased, BatchTyped, BatchTypedNext
<1>6. SendInv'
  <2>1. Once(processed') /\ Elements(processed') \cap dropped' = {}
        /\ Elements(processed') \cup dropped' = (Elements(processed) \cup dropped) \cup Elements(batch[c])
    BY <1>1, <1>3, <1>4
  <2> QED
    BY <1>1, <2>1, YieldDone
<1>7. ReceiveInv' /\ InHands(Busy("receive"), Hands)' = InHands(Busy("receive"), Hands)
  <2>1. Latest(recv_queue', arrived') /\ arrived' - Len(recv_queue') = arrived - Len(recv_queue)
        /\ arrived - Len(recv_queue) \in Nat /\ received' = received
    <3>1. Latest(recv_queue, arrived)
      BY DEF ReceiveInv
    <3>2. arrived - Len(recv_queue) \in Nat
      BY <1>2, <3>1 DEF Latest
    <3>3. recv_queue' = recv_queue /\ arrived' = arrived /\ received' = received
      BY <1>1
    <3> QED
      BY <3>1, <3>2, <3>3
  <2>2. /\ \A d \in Callers : (doing'[d] = "receive" <=> doing[d] = "receive")
        /\ \A d \in Callers : doing[d] = "receive" => batch'[d] = batch[d]
    BY <1>1, BatchReleased
  <2> QED
    BY <2>1, <2>2, ReceiveFrame
<1>8. CountInv'
  <2>1. Recording' = Recording
    BY <1>1, BatchReleased, RecordingMoved
  <2> QED
    BY <1>1, <1>7, <2>1 DEF CountInv
<1> QED
  BY <1>5, <1>6, <1>7, <1>8

LEMMA ReceiveOneKeeps ==
  ASSUME ResourcesAssumption, BatchInv, NEW c \in Callers, Batch!ReceiveOne(c)
  PROVE  BatchInv'
<1> USE DEF BatchInv
<1> DEFINE p == Head(recv_queue)  n == arrived - Len(recv_queue)
<1>1. /\ \/ doing[c] = "idle"
         \/ doing[c] = "receive" /\ Len(batch[c]) < max_batch
      /\ recv_queue # <<>> /\ recv_queue' = Tail(recv_queue)
      /\ batch' = [batch EXCEPT ![c] = Append(batch[c], p)]
      /\ stats' = [stats EXCEPT !.packets_received = stats.packets_received + 1]
      /\ doing' = [doing EXCEPT ![c] = "receive"]
      /\ UNCHANGED <<send_queue, accepted, arrived, processed, received, dropped, is_connected, status>>
  BY DEF Batch!ReceiveOne
<1>2. /\ accepted \in Nat /\ arrived \in Nat /\ Len(recv_queue) \in Nat
      /\ recv_queue \in Seq(Batch!Packets) /\ batch[c] \in Seq(Batch!Packets)
      /\ Batch!Packets \subseteq Nat /\ Len(batch[c]) \in Nat /\ max_batch \in Nat \ {0}
  BY BatchTyped
<1>3. /\ HeadTaken(recv_queue, arrived) /\ p \in Batch!Packets
      /\ recv_queue' \in Seq(Batch!Packets)
  <2>1. Latest(recv_queue, arrived) /\ recv_queue # <<>>
    BY <1>1 DEF ReceiveInv
  <2> QED
    BY <1>1, <1>2, <2>1, OldestTaken
<1>4. n \in Nat /\ p = n + 1 /\ Len(recv_queue) > 0
  BY <1>3 DEF HeadTaken
<1>5. Len(recv_queue') = Len(recv_queue) - 1 /\ Latest(recv_queue', arrived')
  BY <1>1, <1>3 DEF HeadTaken
<1> HIDE DEF p
<1>6. /\ Append(batch[c], p) \in Seq(Batch!Packets)
      /\ Elements(Append(batch[c], p)) = Elements(batch[c]) \cup {p}
      /\ Len(Append(batch[c], p)) = Len(batch[c]) + 1
      /\ \A i \in 1..Len(batch[c]) : Append(batch[c], p)[i] = batch[c][i]
      /\ Append(batch[c], p)[Len(batch[c]) + 1] = p
  BY <1>2, <1>3, ElementsAdded
<1>7. /\ doing' \in [Callers -> BatchSteps] /\ doing'[c] = "receive"
      /\ \A d \in Callers \ {c} : doing'[d] = doing[d]
      /\ batch' \in [Callers -> Seq(Batch!Packets)] /\ batch'[c] = Append(batch[c], p)
      /\ \A d \in Callers \ {c} : batch'[d] = batch[d]
  BY <1>1, <1>6, BatchTyped DEF BatchSteps
<1>8. /\ stats' \in Counters /\ stats'.packets_received = stats.packets_received + 1
      /\ stats'.packets_sent = stats.packets_sent /\ stats'.bytes_sent = stats.bytes_sent
      /\ stats'.total_batch_size = stats.total_batch_size
  <2>1. stats \in Counters /\ 1 \in Nat
    BY BatchTyped
  <2> QED
    BY <1>1, <2>1, ReceiptRecorded
<1>9. doing[c] = "idle" => batch[c] = <<>> /\ Len(batch[c]) = 0
  <2>1. doing[c] = "idle" => batch[c] = <<>>
    BY BatchTyped
  <2> QED
    BY <2>1
<1>10. BatchTypes'
  <2>1. \A d \in Callers : Len(batch'[d]) <= max_batch
    <3>1. Len(batch[c]) + 1 <= max_batch
      BY SMTT(30), <1>1, <1>2, <1>9
    <3> QED
      BY <1>6, <1>7, <3>1, BatchTyped
  <2>2. \A d \in Callers : doing'[d] \in {"idle", "count"} => batch'[d] = <<>>
    BY <1>7, BatchTyped
  <2> QED
    BY <1>1, <1>3, <1>7, <1>8, <2>1, <2>2, BatchTyped, BatchTypedNext
<1>11. SendInv'
  <2>1. /\ Latest(send_queue', accepted') /\ accepted' - Len(send_queue') = accepted - Len(send_queue)
        /\ accepted - Len(send_queue) \in Nat
    BY <1>1, CountsTyped
  <2>2. /\ \A d \in Callers : (doing'[d] = "yield" <=> doing[d] = "yield")
        /\ \A d \in Callers : doing[d] = "yield" => batch'[d] = batch[d]
    BY <1>1, <1>7
  <2> QED
    BY <1>1, <2>1, <2>2, SendFrame
<1>12. n' = n + 1
  BY <1>1, <1>2, <1>5
<1>13. /\ Partition(BatchesReturned, Busy("receive"), Hands, n)'
       /\ InHands(Busy("receive"), Hands)' = InHands(Busy("receive"), Hands) \cup {n + 1}
       /\ n + 1 \notin InHands(Busy("receive"), Hands)
       /\ InHands(Busy("receive"), Hands) \subseteq 1..n /\ IsFiniteSet(InHands(Busy("receive"), Hands))
  <2> DEFINE Y == Busy("receive")  H == Hands  G == Hands'  old == Elements(batch[c])  k == 1
  <2>1. Partition(BatchesReturned, Y, H, n) /\ (c \in Y => old = H[c])
    BY DEF ReceiveInv, Busy, Hands
  <2>2. c \notin Y => old = {}
    BY <1>1, <1>9 DEF Busy, Elements
  <2>3. (n + 1)..(n + k) = {n + 1}
    BY <1>4
  <2>4. G[c] = old \cup (n + 1)..(n + k) /\ \A d \in Y \ {c} : G[d] = H[d]
    BY <1>4, <1>6, <1>7, <2>3 DEF Hands, Busy
  <2>5. Busy("receive")' = Y \cup {c} /\ BatchesReturned' = BatchesReturned
    BY <1>1, <1>7 DEF Busy, BatchesReturned
  <2>6. k \in Nat
    OBVIOUS
  <2> HIDE DEF Y, H, G, old, n, k
  <2>7. /\ Partition(BatchesReturned, Y \cup {c}, G, n + k)
        /\ InHands(Y \cup {c}, G) = InHands(Y, H) \cup (n + 1)..(n + k)
        /\ InHands(Y, H) \cap (n + 1)..(n + k) = {}
    <3>1. Taken(BatchesReturned, Y, H, G, n, k, c, old)
      BY <1>4, <2>1, <2>2, <2>4, <2>6, PartitionTaken
    <3> QED
      BY <3>1 DEF Taken
  <2>8. InHands(Y, H) \subseteq 1..n /\ IsFiniteSet(InHands(Y, H))
    BY <1>4, <2>1, PartitionFinite
  <2>9. Partition(BatchesReturned', Busy("receive")', G, n')
    BY <1>12, <2>5, <2>7 DEF k
  <2> QED
    BY <2>3, <2>5, <2>7, <2>8, <2>9 DEF G, Y, H
<1>14. ReceiveInv'
  <2>1. /\ \A d \in Callers : Increasing(received[d])
        /\ \A d \in Callers : doing[d] = "receive" =>
             /\ Increasing(batch[d])
             /\ \A i \in 1..Len(received[d]), j \in 1..Len(batch[d]) : received[d][i] < batch[d][j]
    BY DEF ReceiveInv
  <2>2. received' = received
    BY <1>1
  <2>3. \A m \in Elements(batch[c]) : m \in Nat /\ m < p
    <3>1. CASE doing[c] = "idle"
      BY <1>9, <3>1 DEF Elements
    <3>2. CASE doing[c] = "receive"
      <4>1. Elements(batch[c]) \subseteq InHands(Busy("receive"), Hands)
        BY <3>2 DEF InHands, Hands, Busy
      <4> QED
        BY <1>4, <1>13, <4>1
    <3> QED
      BY <1>1, <3>1, <3>2
  <2>4. \A i \in 1..Len(received[c]) : received[c][i] \in Nat /\ received[c][i] < p
    <3>1. Partition(BatchesReturned, Busy("receive"), Hands, n)
      BY DEF ReceiveInv
    <3>2. BatchesReturned \subseteq 1..n
      BY <1>4, <3>1, PartitionFinite
    <3>3. \A i \in 1..Len(received[c]) : received[c][i] \in BatchesReturned
      BY DEF BatchesReturned, Elements
    <3> QED
      <4> HIDE DEF n
      <4>1. ASSUME NEW i \in 1..Len(received[c]) PROVE received[c][i] \in 1..n
        BY <3>2, <3>3
      <4> QED
        BY <1>4, <4>1
  <2> DEFINE s == batch[c]  t == Append(batch[c], p)  r == received[c]
  <2>5. /\ Len(s) \in Nat /\ Len(t) = Len(s) + 1 /\ t[Len(s) + 1] = p
        /\ \A i \in 1..Len(s) : t[i] = s[i] /\ s[i] < p
    BY <1>2, <1>6, <2>3 DEF Elements
  <2>6. Increasing(s) /\ \A i \in 1..Len(r), j \in 1..Len(s) : r[i] < s[j]
    <3>1. CASE doing[c] = "idle"
      <4>1. \A i \in 1..Len(batch[c]) : FALSE
        BY <1>9, <3>1
      <4> QED
        BY <4>1 DEF Increasing
    <3>2. CASE doing[c] = "receive"
      BY <2>1, <3>2
    <3> QED
      BY <1>1, <3>1, <3>2
  <2>7. \A i \in 1..Len(r) : r[i] < p
    BY <2>4
  <2> HIDE DEF s, t, r
  <2>8. Increasing(t)
    BY <2>5, <2>6 DEF Increasing
  <2>9. ASSUME NEW i \in 1..Len(r), NEW j \in 1..Len(t) PROVE r[i] < t[j]
    <3>1. CASE j = Len(s) + 1
      BY <2>5, <2>7, <3>1
    <3>2. CASE j \in 1..Len(s)
      BY <2>5, <2>6, <3>2
    <3> QED
      BY <2>5, <3>1, <3>2
  <2>10. batch'[c] = t /\ received'[c] = r
    BY <1>7, <2>2 DEF t, r
  <2>11. ASSUME NEW d \in Callers, doing'[d] = "receive"
         PROVE  /\ Increasing(batch'[d])
                /\ \A i \in 1..Len(received'[d]), j \in 1..Len(batch'[d]) : received'[d][i] < batch'[d][j]
    <3>1. CASE d = c
      BY <2>8, <2>9, <2>10, <3>1
    <3>2. CASE d # c
      BY <1>7, <2>1, <2>2, <2>11, <3>2
    <3> QED
      BY <3>1, <3>2
  <2>12. Latest(recv_queue', arrived') /\ \A d \in Callers : Increasing(received'[d])
    BY <1>5, <2>1, <2>2
  <2> QED
    BY <1>13, <2>11, <2>12 DEF ReceiveInv, n
<1>15. CountInv'
  <2> DEFINE a == stats.total_batch_size  q == Len(processed)  r == stats.packets_received
             h == Cardinality(InHands(Busy("receive"), Hands))
  <2>1. h' = h + 1
    <3> DEFINE A == InHands(Busy("receive"), Hands)
    <3>1. IsFiniteSet(A) /\ n + 1 \notin A /\ A' = A \cup {n + 1}
      BY <1>13
    <3> HIDE DEF A, n
    <3>2. Cardinality(A \cup {n + 1}) = Cardinality(A) + 1
      BY <3>1, FS_AddElement
    <3> QED
      BY <3>1, <3>2 DEF A
  <2>2. Recording' = Recording
    <3>1. doing[c] # "count" /\ doing'[c] # "count"
      BY <1>1, <1>7
    <3> QED
      BY <1>7, <3>1, RecordingMoved
  <2>3. /\ stats.packets_sent + Recording = accepted
        /\ stats.bytes_sent + Recording = accepted + q
        /\ r = n /\ a + h = q + r
    BY DEF CountInv
  <2>4. a \in Nat /\ q \in Nat /\ r \in Nat /\ h \in Nat
    BY CountsTyped
  <2>5. /\ stats'.packets_sent + Recording' = accepted'
        /\ stats'.bytes_sent + Recording' = accepted' + Len(processed')
    BY <1>1, <1>8, <2>2, <2>3
  <2>6. stats'.packets_received = r + 1 /\ stats'.total_batch_size = a /\ Len(processed') = q
    BY <1>1, <1>8
  <2> HIDE DEF a, q, r, h, n
  <2>7. stats'.packets_received = n'
    BY <1>12, <2>3, <2>6
  <2>8. a + (h + 1) = q + (r + 1)
    BY <2>3, <2>4
  <2>9. stats'.total_batch_size + h' = Len(processed') + stats'.packets_received
    BY <2>1, <2>6, <2>8
  <2> QED
    BY <2>5, <2>7, <2>9 DEF CountInv, n, h
<1> QED
  BY <1>10, <1>11, <1>14, <1>15

LEMMA ReceivedKeeps ==
  ASSUME ResourcesAssumption, BatchInv, NEW c \in Callers, Batch!Received(c)
  PROVE  BatchInv'
<1> USE DEF BatchInv
<1> DEFINE s == batch[c]  r == received[c]  n == arrived - Len(recv_queue)
<1>1. /\ doing[c] = "receive" /\ received' = [received EXCEPT ![c] = r \o s]
      /\ stats' = Batch!RecordBatch(stats, Len(s))
      /\ doing' = [doing EXCEPT ![c] = "idle"] /\ batch' = [batch EXCEPT ![c] = <<>>]
      /\ UNCHANGED <<send_queue, recv_queue, accepted, arrived, processed, dropped, is_connected, status>>
  BY DEF Batch!Received, Batch!queues
<1>2. /\ s \in Seq(Batch!Packets) /\ r \in Seq(Batch!Packets) /\ Len(s) \in Nat /\ Len(r) \in Nat
      /\ Batch!Packets \subseteq Nat /\ stats \in Counters /\ n \in Nat
      /\ received \in [Callers -> Seq(Batch!Packets)]
  <2>1. s \in Seq(Batch!Packets) /\ r \in Seq(Batch!Packets) /\ Batch!Packets \subseteq Nat
        /\ received \in [Callers -> Seq(Batch!Packets)]
    BY BatchTyped
  <2>2. Len(s) \in Nat /\ Len(r) \in Nat
    BY <2>1
  <2>3. stats \in Counters /\ n \in Nat
    BY CountsTyped
  <2> QED
    BY <2>1, <2>2, <2>3
<1>3. /\ stats' \in Counters /\ stats'.packets_sent = stats.packets_sent
      /\ stats'.bytes_sent = stats.bytes_sent
      /\ stats'.packets_received = stats.packets_received
      /\ stats'.total_batch_size = stats.total_batch_size + Len(s)
  BY <1>1, <1>2, Recorded
<1>4. /\ r \o s \in Seq(Batch!Packets) /\ Len(r \o s) = Len(r) + Len(s)
      /\ Elements(r \o s) = Elements(r) \cup Elements(s)
  BY <1>2, ElementsJoined
<1>5. /\ received' \in [Callers -> Seq(Batch!Packets)] /\ received'[c] = r \o s
      /\ \A d \in Callers \ {c} : received'[d] = received[d]
  BY <1>1, <1>2, <1>4
<1>6. Increasing(s) /\ Increasing(r) /\ \A i \in 1..Len(r), j \in 1..Len(s) : r[i] < s[j]
  BY <1>1 DEF ReceiveInv
<1>7. Increasing(r \o s)
  <2> DEFINE t == r \o s
  <2>1. ASSUME NEW i \in 1..Len(t) PROVE
           \/ i \in 1..Len(r) /\ t[i] = r[i]
           \/ i \notin 1..Len(r) /\ i - Len(r) \in 1..Len(s) /\ t[i] = s[i - Len(r)]
    <3>1. CASE i <= Len(r)
      BY <1>2, <1>4, <3>1
    <3>2. CASE i > Len(r)
      BY <1>2, <1>4, <3>2
    <3> QED
      BY <1>2, <1>4, <3>1, <3>2
  <2>2. \A i \in 1..Len(r) : r[i] \in Nat
    <3> HIDE DEF r
    <3>1. \A i \in 1..Len(r) : r[i] \in Batch!Packets
      BY <1>2
    <3> QED
      BY <1>2, <3>1
  <2>3. \A i \in 1..Len(s) : s[i] \in Nat
    <3> HIDE DEF s
    <3>1. \A i \in 1..Len(s) : s[i] \in Batch!Packets
      BY <1>2
    <3> QED
      BY <1>2, <3>1
  <2>4. Len(t) \in Nat
    BY <1>2, <1>4
  <2> HIDE DEF s, r, t
  <2>5. ASSUME NEW i \in 1..Len(t), NEW j \in 1..Len(t), i < j PROVE t[i] < t[j]
    <3>1. CASE j \in 1..Len(r) /\ t[j] = r[j]
      <4>1. i \in 1..Len(r)
        BY <1>2, <2>4, <2>5, <3>1
      <4>2. t[i] = r[i]
        BY <2>1, <4>1
      <4> QED
        BY <1>6, <2>5, <3>1, <4>1, <4>2 DEF Increasing
    <3>2. CASE j \notin 1..Len(r) /\ j - Len(r) \in 1..Len(s) /\ t[j] = s[j - Len(r)]
      <4>1. CASE i \in 1..Len(r) /\ t[i] = r[i]
        BY <1>6, <3>2, <4>1
      <4>2. CASE i - Len(r) \in 1..Len(s) /\ t[i] = s[i - Len(r)]
        <5>1. i - Len(r) < j - Len(r)
          BY <1>2, <2>4, <2>5
        <5> QED
          BY <1>6, <3>2, <4>2, <5>1 DEF Increasing
      <4> QED
        BY <2>1, <4>1, <4>2
    <3> QED
      BY <2>1, <3>1, <3>2
  <2> QED
    BY <2>5 DEF Increasing, t
<1>8. BatchTypes'
  BY <1>1, <1>3, <1>5, BatchReleased, BatchTyped, BatchTypedNext
<1>9. SendInv'
  <2>1. /\ Latest(send_queue', accepted') /\ accepted' - Len(send_queue') = accepted - Len(send_queue)
        /\ accepted - Len(send_queue) \in Nat
    BY <1>1, CountsTyped
  <2>2. /\ \A d \in Callers : (doing'[d] = "yield" <=> doing[d] = "yield")
        /\ \A d \in Callers : doing[d] = "yield" => batch'[d] = batch[d]
    BY <1>1, BatchReleased
  <2> QED
    BY <1>1, <2>1, <2>2, SendFrame
<1>10. /\ \A d \in Callers \ {c} : doing'[d] = doing[d] /\ batch'[d] = batch[d]
       /\ doing'[c] = "idle" /\ batch' \in [Callers -> Seq(Batch!Packets)]
  BY <1>1, BatchReleased
<1>11. n' = n
  BY <1>1
<1>12. /\ Partition(BatchesReturned, Busy("receive"), Hands, n)'
       /\ InHands(Busy("receive"), Hands)' = InHands(Busy("receive"), Hands) \ Elements(s)
       /\ Elements(s) \subseteq InHands(Busy("receive"), Hands)
  <2> DEFINE Y == Busy("receive")  H == Hands  G == Hands'  done == BatchesReturned
  <2>1. Partition(done, Y, H, n) /\ c \in Y /\ H[c] = Elements(s)
    BY <1>1 DEF ReceiveInv, Busy, Hands
  <2>2. Busy("receive")' = Y \ {c} /\ \A d \in Y \ {c} : G[d] = H[d]
    BY <1>10 DEF Busy, Hands
  <2>3. BatchesReturned' = done \cup Elements(s)
    BY <1>4, <1>5 DEF BatchesReturned
  <2> HIDE DEF Y, H, G, n, done, s
  <2>4. /\ Partition(done \cup H[c], Y \ {c}, G, n)
        /\ H[c] \subseteq InHands(Y, H)
        /\ InHands(Y \ {c}, G) = InHands(Y, H) \ H[c]
    <3>1. DoneWith(done, Y, H, G, n, c)
      BY <1>2, <2>1, <2>2, PartitionDone
    <3> QED
      BY <3>1 DEF DoneWith
  <2>5. Partition(BatchesReturned', Busy("receive")', G, n')
    BY <1>11, <2>1, <2>2, <2>3, <2>4
  <2> QED
    BY <2>1, <2>2, <2>4, <2>5 DEF G, Y, H
<1>13. ReceiveInv'
  <2>1. \A d \in Callers : Increasing(received'[d])
    <3>1. \A d \in Callers : Increasing(received[d])
      BY DEF ReceiveInv
    <3> QED
      BY <1>5, <1>7, <3>1
  <2>2. ASSUME NEW d \in Callers, doing'[d] = "receive"
        PROVE  /\ Increasing(batch'[d])
               /\ \A i \in 1..Len(received'[d]), j \in 1..Len(batch'[d]) : received'[d][i] < batch'[d][j]
    <3>1. d # c
      BY <1>10, <2>2
    <3>2. doing[d] = "receive" /\ batch'[d] = batch[d] /\ received'[d] = received[d]
      BY <1>5, <1>10, <2>2, <3>1
    <3> QED
      BY <3>2 DEF ReceiveInv
  <2>3. Latest(recv_queue', arrived')
    BY <1>1 DEF ReceiveInv
  <2> QED
    BY <1>12, <2>1, <2>2, <2>3 DEF ReceiveInv, n
<1>14. CountInv'
  <2> DEFINE a == stats.total_batch_size  q == Len(processed)
             h == Cardinality(InHands(Busy("receive"), Hands))  m == Len(s)
  <2>1. h' = h - m
    <3>1. Once(s)
      <4> HIDE DEF s
      <4>1. \A i \in 1..Len(s) : s[i] \in Batch!Packets
        BY <1>2
      <4>2. \A i \in 1..Len(s) : s[i] \in Nat
        BY <1>2, <4>1
      <4>3. ASSUME NEW i \in 1..Len(s), NEW j \in 1..Len(s), s[i] = s[j], i # j PROVE FALSE
        <5>1. CASE i < j
          BY <1>6, <4>2, <4>3, <5>1 DEF Increasing
        <5>2. CASE j < i
          BY <1>6, <4>2, <4>3, <5>2 DEF Increasing
        <5> QED
          BY <1>2, <4>3, <5>1, <5>2
      <4> QED
        BY <4>3 DEF Once
    <3>2. IsFiniteSet(Elements(s)) /\ Cardinality(Elements(s)) = Len(s)
      BY <1>2, <3>1, ElementsCounted
    <3> DEFINE A == InHands(Busy("receive"), Hands)  B == Elements(s)
    <3>3. IsFiniteSet(A) /\ B \subseteq A /\ A' = A \ B
      BY <1>12, CountsTyped
    <3> HIDE DEF A, B
    <3>4. Cardinality(A \ B) = Cardinality(A) - Cardinality(A \cap B) /\ A \cap B = B
      BY <3>3, FS_Difference
    <3> QED
      BY <3>2, <3>3, <3>4 DEF A, B
  <2>2. Recording' = Recording
    BY <1>1, <1>10, RecordingMoved
  <2>3. /\ stats.packets_sent + Recording = accepted
        /\ stats.bytes_sent + Recording = accepted + q
        /\ stats.packets_received = n /\ a + h = q + stats.packets_received
    BY DEF CountInv
  <2>4. a \in Nat /\ q \in Nat /\ stats.packets_received \in Nat /\ h \in Nat /\ m \in Nat
    BY <1>2, CountsTyped
  <2>5. /\ stats'.packets_sent + Recording' = accepted'
        /\ stats'.bytes_sent + Recording' = accepted' + Len(processed')
    BY <1>1, <1>3, <2>2, <2>3
  <2>6. stats'.packets_received = stats.packets_received /\ stats'.total_batch_size = a + m
        /\ Len(processed') = q
    BY <1>1, <1>3
  <2> HIDE DEF a, q, h, n, m
  <2>7. stats'.packets_received = n'
    BY <1>11, <2>3, <2>6
  <2>8. (a + m) + (h - m) = a + h
    BY <2>4
  <2>9. stats'.total_batch_size + h' = Len(processed') + stats'.packets_received
    BY <2>1, <2>3, <2>6, <2>8
  <2> QED
    BY <2>5, <2>7, <2>9 DEF CountInv, n, h
<1> QED
  BY <1>8, <1>9, <1>13, <1>14

LEMMA BatchKept == ASSUME ResourcesAssumption, BatchInv, Batch!Next PROVE BatchInv'
<1>1. CASE Batch!Arrive
  BY <1>1, ArriveKeeps
<1>2. ASSUME NEW c \in Callers,
             \/ Batch!SendNowait(c) \/ Batch!RecordSend(c) \/ Batch!Collect(c) \/ Batch!Process(c)
             \/ Batch!Dropped(c) \/ Batch!ReceiveOne(c) \/ Batch!Received(c) \/ Batch!SetConnected(c)
      PROVE  BatchInv'
  BY <1>2, SendNowaitKeeps, RecordSendKeeps, CollectKeeps, ProcessKeeps, DroppedKeeps,
     ReceiveOneKeeps, ReceivedKeeps, SetConnectedKeeps
<1> QED
  BY <1>1, <1>2 DEF Batch!Next

LEMMA BatchStays == ASSUME BatchInv, UNCHANGED batchVars PROVE BatchInv'
<1>1. UNCHANGED <<send_queue, recv_queue, accepted, arrived, doing, batch, processed, received,
                  dropped, is_connected, status, stats>>
  BY DEF batchVars
<1>2. BatchTypes'
  BY <1>1 DEF BatchInv, BatchTypes, Batch!TypeOK, Batch!Packets
<1>3. SendInv' /\ ReceiveInv' /\ CountInv'
  BY <1>1 DEF BatchInv, SendInv, ReceiveInv, CountInv, Busy, Hands, BatchesReturned, Recording
<1> QED
  BY <1>2, <1>3 DEF BatchInv

LEMMA BatchPromises ==
  ASSUME ResourcesAssumption, BatchInv
  PROVE  Batch!TypeOK /\ Batch!NoneTwice /\ Batch!StatsAgree
<1> USE DEF BatchInv
<1>1. Batch!TypeOK
  BY DEF BatchTypes
<1>2. Batch!StatsAgree
  <2>1. SUFFICES ASSUME \A c \in Callers : doing[c] = "idle"
                 PROVE  /\ stats.packets_sent = accepted
                        /\ stats.bytes_sent = accepted + Len(processed)
                        /\ stats.packets_received = arrived - Len(recv_queue)
                        /\ stats.total_batch_size = Len(processed) + stats.packets_received
    BY DEF Batch!StatsAgree
  <2>2. Recording = 0
    BY <2>1, NoneThere DEF Recording
  <2>3. Cardinality(InHands(Busy("receive"), Hands)) = 0
    <3>1. InHands(Busy("receive"), Hands) = {}
      BY <2>1 DEF InHands, Busy
    <3> QED
      BY <3>1, FS_EmptySet
  <2> QED
    BY SMTT(30), <2>2, <2>3, CountsTyped DEF CountInv
<1>3. /\ send_queue \in Seq(Batch!Packets) /\ recv_queue \in Seq(Batch!Packets)
      /\ processed \in Seq(Batch!Packets)
      /\ \A c \in Callers : batch[c] \in Seq(Batch!Packets) /\ received[c] \in Seq(Batch!Packets)
  BY BatchTyped
<1>4. /\ Batch!Range(send_queue) = Elements(send_queue) /\ Batch!Range(recv_queue) = Elements(recv_queue)
      /\ Batch!Range(processed) = Elements(processed)
      /\ \A c \in Callers : /\ Batch!Range(batch[c]) = Elements(batch[c])
                            /\ Batch!Range(received[c]) = Elements(received[c])
  BY <1>3, RangeIs
<1>5. \A kind : Batch!InHand(kind) = InHands(Busy(kind), Hands)
  BY <1>4 DEF Batch!InHand, InHands, Busy, Hands
<1>6. UNION {Batch!Range(received[c]) : c \in Callers} = BatchesReturned
  BY <1>4 DEF BatchesReturned
<1>7. \A S : Batch!Cardinality(S) = Cardinality(S)
  BY DEF Batch!Cardinality, Cardinality
<1>8. Cardinality(Elements(processed)) = Len(processed) /\ IsFiniteSet(Elements(processed))
  BY <1>3, ElementsCounted DEF SendInv
<1>9. /\ accepted \in Nat /\ arrived \in Nat /\ Len(send_queue) \in Nat /\ Len(recv_queue) \in Nat
      /\ Len(processed) \in Nat
      /\ Latest(send_queue, accepted) /\ accepted - Len(send_queue) \in Nat
      /\ Latest(recv_queue, arrived) /\ arrived - Len(recv_queue) \in Nat
  BY CountsTyped
<1>10. /\ Elements(send_queue) = (accepted - Len(send_queue) + 1)..accepted
       /\ Elements(recv_queue) = (arrived - Len(recv_queue) + 1)..arrived
  BY <1>3, <1>9, LatestElements
<1> DEFINE done == Elements(processed) \cup dropped
           inY == InHands(Busy("yield"), Hands)  inR == InHands(Busy("receive"), Hands)
           n == accepted - Len(send_queue)  m == arrived - Len(recv_queue)
<1>11. /\ Partition(done, Busy("yield"), Hands, n) /\ Partition(BatchesReturned, Busy("receive"), Hands, m)
  BY DEF SendInv, ReceiveInv
<1>12. done \cup inY = 1..n /\ BatchesReturned \cup inR = 1..m
  BY <1>11 DEF Partition
<1>13. IsFiniteSet(done) /\ Cardinality(done) \in Nat /\ Cardinality(inY) \in Nat
       /\ Cardinality(done) + Cardinality(inY) = n
  BY <1>9, <1>11, PartitionFinite
<1>14. IsFiniteSet(dropped) /\ Cardinality(dropped) \in Nat
       /\ Cardinality(done) = Len(processed) + Cardinality(dropped)
  <2>1. IsFiniteSet(dropped)
    BY <1>13, FS_Subset
  <2>2. Cardinality(Elements(processed) \cup dropped)
          = Cardinality(Elements(processed)) + Cardinality(dropped)
              - Cardinality(Elements(processed) \cap dropped)
    BY <1>8, <2>1, FS_Union
  <2>3. Cardinality(Elements(processed) \cap dropped) = 0
    BY FS_EmptySet DEF SendInv
  <2>4. Cardinality(dropped) \in Nat
    BY <2>1, FS_CardinalityType
  <2> DEFINE x == Cardinality(dropped)  y == Cardinality(Elements(processed) \cap dropped)
             z == Cardinality(done)  w == Cardinality(Elements(processed))
  <2>5. z = w + x - y /\ y = 0 /\ w = Len(processed) /\ x \in Nat
    BY <1>8, <2>2, <2>3, <2>4
  <2> HIDE DEF x, y, z, w
  <2>6. z = Len(processed) + x
    BY <1>9, <2>5
  <2> QED
    BY <2>1, <2>4, <2>6 DEF x, z
<1>15. Elements(send_queue) \cup inY \cup Elements(processed) \cup dropped = 1..accepted
  <2>1. 1..accepted = (1..n) \cup ((n + 1)..accepted)
    BY <1>9
  <2> HIDE DEF n, inY
  <2> QED
    BY <1>10, <1>12, <2>1 DEF n
<1>16. Elements(recv_queue) \cup inR \cup BatchesReturned = 1..arrived
  <2>1. 1..arrived = (1..m) \cup ((m + 1)..arrived)
    BY <1>9
  <2> HIDE DEF m, inR
  <2> QED
    BY <1>10, <1>12, <2>1 DEF m
<1>17. Len(send_queue) + Len(processed) + Cardinality(dropped) + Cardinality(inY) = accepted
  <2> DEFINE x == Cardinality(dropped)  y == Cardinality(inY)  z == Cardinality(done)
  <2>1. z + y = accepted - Len(send_queue) /\ z = Len(processed) + x
        /\ x \in Nat /\ y \in Nat /\ z \in Nat
    BY <1>13, <1>14
  <2> HIDE DEF x, y, z
  <2>2. Len(send_queue) + Len(processed) + x + y = accepted
    BY <1>9, <2>1
  <2> QED
    BY <2>2 DEF x, y
<1>18. \A c \in Callers : \A i, j \in DOMAIN received[c] : i < j => received[c][i] < received[c][j]
  <2>1. \A c \in Callers : DOMAIN received[c] = 1..Len(received[c])
    BY <1>3
  <2> QED
    BY <2>1 DEF ReceiveInv, Increasing
<1>19. Batch!NoneTwice
  <2> HIDE DEF BatchInv, done, inY, inR, n, m
  <2>1. Batch!Cardinality(Batch!Range(processed)) = Len(processed)
    BY <1>4, <1>7, <1>8
  <2>2. Batch!Range(send_queue) \cup Batch!InHand("yield") \cup Batch!Range(processed) \cup dropped
          = Batch!All(accepted)
    BY <1>4, <1>5, <1>15 DEF Batch!All, inY
  <2>3. Len(send_queue) + Len(processed) + Batch!Cardinality(dropped)
          + Batch!Cardinality(Batch!InHand("yield")) = accepted
    BY <1>5, <1>7, <1>17 DEF inY
  <2>4. Batch!Range(recv_queue) \cup Batch!InHand("receive")
          \cup UNION {Batch!Range(received[c]) : c \in Callers} = Batch!All(arrived)
    BY <1>4, <1>5, <1>6, <1>16 DEF Batch!All, inR
  <2> QED
    BY <1>18, <2>1, <2>2, <2>3, <2>4 DEF Batch!NoneTwice
<1> QED
  BY <1>1, <1>2, <1>19
-----------------------------------------------------------------------------
(* ClientEvents                                                            *)

(* The events that f passed on with the first n entries of the channel.     *)
PassedOn(s, f, n) == {s[j].event : j \in {k \in 1..n : s[k].by = f}}
(* How often e occurs.                                                      *)
Times(s, e) == Cardinality({i \in 1..Len(s) : s[i] = e})

Continued(s, x, f) ==
  /\ \A n \in 0..Len(s) : PassedOn(Append(s, x), f, n) = PassedOn(s, f, n)
  /\ x.by # f => PassedOn(Append(s, x), f, Len(s) + 1) = PassedOn(s, f, Len(s))
  /\ x.by = f => PassedOn(Append(s, x), f, Len(s) + 1) = PassedOn(s, f, Len(s)) \cup {x.event}

LEMMA PassedOnAppended ==
  ASSUME NEW S, NEW s \in Seq(S), NEW x \in S, NEW f
  PROVE  Continued(s, x, f)
<1> DEFINE t == Append(s, x)  m == Len(s)
<1>1. m \in Nat /\ t[m + 1] = x /\ \A i \in 1..m : t[i] = s[i]
  OBVIOUS
<1> HIDE DEF t, m
<1>2. ASSUME NEW n \in 0..m PROVE PassedOn(t, f, n) = PassedOn(s, f, n)
  <2>1. \A i \in 1..n : t[i] = s[i]
    BY <1>1
  <2> QED
    BY <2>1 DEF PassedOn
<1>3. 1..(m + 1) = (1..m) \cup {m + 1}
  BY <1>1
<1>4. ASSUME x.by # f PROVE PassedOn(t, f, m + 1) = PassedOn(s, f, m)
  <2>1. {k \in 1..(m + 1) : t[k].by = f} = {k \in 1..m : s[k].by = f}
    BY <1>1, <1>3, <1>4
  <2> QED
    BY <1>1, <2>1 DEF PassedOn
<1>5. ASSUME x.by = f PROVE PassedOn(t, f, m + 1) = PassedOn(s, f, m) \cup {x.event}
  <2>1. {k \in 1..(m + 1) : t[k].by = f} = {k \in 1..m : s[k].by = f} \cup {m + 1}
    BY <1>1, <1>3, <1>5
  <2> QED
    BY <1>1, <2>1 DEF PassedOn
<1> QED
  BY <1>2, <1>4, <1>5 DEF t, m, Continued

LEMMA TimesAppended ==
  ASSUME NEW S, NEW s \in Seq(S), NEW x \in S, NEW e
  PROVE  /\ Times(s, e) \in Nat
         /\ Times(Append(s, x), e) = IF x = e THEN Times(s, e) + 1 ELSE Times(s, e)
<1> DEFINE t == Append(s, x)  m == Len(s)
           A == {i \in 1..m : s[i] = e}  B == {i \in 1..(m + 1) : t[i] = e}
<1>1. m \in Nat /\ Len(t) = m + 1 /\ t[m + 1] = x /\ \A i \in 1..m : t[i] = s[i]
  OBVIOUS
<1>2. IsFiniteSet(A) /\ Cardinality(A) \in Nat
  <2>1. A \in SUBSET (1..m) /\ IsFiniteSet(1..m)
    BY <1>1, FS_Interval
  <2> QED
    BY <2>1, FS_Subset, FS_CardinalityType
<1> HIDE DEF t
<1>3. 1..(m + 1) = (1..m) \cup {m + 1} /\ m + 1 \notin 1..m
  BY <1>1
<1>4. ASSUME x = e PROVE Cardinality(B) = Cardinality(A) + 1
  <2>1. B = A \cup {m + 1} /\ m + 1 \notin A
    BY <1>1, <1>3, <1>4
  <2> QED
    BY <1>2, <2>1, FS_AddElement
<1>5. ASSUME x # e PROVE B = A
  BY <1>1, <1>3, <1>5
<1>6. Times(s, e) = Cardinality(A) /\ Times(t, e) = Cardinality(B)
  BY <1>1 DEF Times
<1> HIDE DEF A, B
<1>7. Times(t, e) = IF x = e THEN Times(s, e) + 1 ELSE Times(s, e)
  BY <1>4, <1>5, <1>6
<1> QED
  BY <1>2, <1>6, <1>7 DEF t

Passed == [event : Nat, by : Nat]

EventTypes ==
  /\ Events!TypeOK
  /\ connects \in Seq(Nat) /\ forwarder \in Seq(Nat) /\ client \in Seq(Passed)
  /\ at \in [Callers -> Nat] /\ holding \in [Callers -> SUBSET Nat] /\ responses \in Seq(Nat)

(* Every entry of the channel continues what its task passed on before it.  *)
EntriesInOrder ==
  \A i \in 1..Len(client) :
    LET f == client[i].by
    IN  /\ f \in 1..Len(forwarder) /\ client[i].event > connects[f]
        /\ PassedOn(client, f, i - 1) = (connects[f] + 1)..(client[i].event - 1)

(* A task that runs has passed on everything up to its position.            *)
ForwardersReach ==
  \A f \in 1..Len(forwarder) :
    /\ connects[f] <= Len(events)
    /\ forwarder[f] # Events!Ended =>
         /\ forwarder[f] <= Len(events)
         /\ PassedOn(client, f, Len(client)) = (connects[f] + 1)..forwarder[f]

(* Every response belongs to one context whose flag is set.                 *)
ResponsesFlagged ==
  \A e \in Nat : Times(responses, e) = Cardinality({c \in responded : client[c].event = e})

EventInv == EventTypes /\ EntriesInOrder /\ ForwardersReach /\ ResponsesFlagged

LEMMA EventTyped ==
  ASSUME ResourcesAssumption, EventTypes
  PROVE  /\ MaxEvents \in Nat /\ MaxConnects \in Nat /\ EventCapacity \in Nat
         /\ Events!Ended = MaxEvents + 1
         /\ events \in Seq(EventKinds) /\ Len(events) \in Nat /\ Len(events) <= MaxEvents
         /\ connects \in Seq(Nat) /\ Len(connects) \in Nat /\ Len(connects) <= MaxConnects
         /\ forwarder \in Seq(Nat) /\ Len(forwarder) = Len(connects)
         /\ client \in Seq(Passed) /\ Len(client) \in Nat
         /\ \A i \in 1..Len(client) : client[i].event \in Nat /\ client[i].by \in Nat
         /\ \A i \in 1..Len(client) : client[i].event \in 1..Len(events)
         /\ \A f \in 1..Len(connects) : connects[f] \in Nat /\ forwarder[f] \in Nat
         /\ \A f \in 1..Len(connects) : forwarder[f] \in connects[f]..Events!Ended
         /\ at \in [Callers -> Nat] /\ holding \in [Callers -> SUBSET Nat]
         /\ \A a \in Callers : at[a] \in Nat /\ at[a] <= Len(client) /\ holding[a] \subseteq 1..at[a]
         /\ responded \subseteq 1..Len(client) /\ IsFiniteSet(responded)
         /\ \A c \in responded : events[client[c].event] = "request"
         /\ responses \in Seq(Nat)
<1>1. MaxEvents \in Nat /\ MaxConnects \in Nat /\ EventCapacity \in Nat
  BY DEF ResourcesAssumption
<1>2. Events!Ended = MaxEvents + 1
  BY DEF Events!Ended
<1>3. /\ connects \in Seq(Nat) /\ forwarder \in Seq(Nat) /\ client \in Seq(Passed)
      /\ at \in [Callers -> Nat] /\ holding \in [Callers -> SUBSET Nat] /\ responses \in Seq(Nat)
      /\ events \in Seq(EventKinds)
  BY DEF EventTypes, Events!TypeOK
<1>4. /\ Len(events) \in Nat /\ Len(connects) \in Nat /\ Len(client) \in Nat
      /\ DOMAIN client = 1..Len(client) /\ DOMAIN forwarder = 1..Len(forwarder)
  BY <1>3
<1>5. /\ Len(events) <= MaxEvents /\ Len(connects) <= MaxConnects /\ Len(forwarder) = Len(connects)
      /\ \A f \in 1..Len(forwarder) : forwarder[f] \in connects[f]..Events!Ended
      /\ \A i \in 1..Len(client) : client[i].event \in 1..Len(events)
      /\ \A a \in Callers : at[a] <= Len(client) /\ holding[a] \subseteq 1..at[a]
      /\ responded \subseteq {i \in 1..Len(client) : events[client[i].event] = "request"}
  BY <1>4 DEF EventTypes, Events!TypeOK
<1>6. \A f \in 1..Len(connects) : connects[f] \in Nat /\ forwarder[f] \in Nat
  BY <1>3, <1>5
<1>7. \A i \in 1..Len(client) : client[i].event \in Nat /\ client[i].by \in Nat
  <2>1. \A i \in 1..Len(client) : client[i] \in Passed
    BY <1>3
  <2> QED
    BY <2>1 DEF Passed
<1>8. responded \subseteq 1..Len(client) /\ \A c \in responded : events[client[c].event] = "request"
  BY <1>5
<1>9. IsFiniteSet(responded)
  <2>1. IsFiniteSet(1..Len(client))
    BY <1>4, FS_Interval
  <2> QED
    BY <1>8, <2>1, FS_Subset
<1>10. \A a \in Callers : at[a] \in Nat
  BY <1>3
<1> QED
  BY <1>1, <1>2, <1>3, <1>4, <1>5, <1>6, <1>7, <1>8, <1>9, <1>10

LEMMA EventTypedNext ==
  ASSUME events' \in Seq(EventKinds), Len(events') <= MaxEvents,
         connects' \in Seq(Nat), Len(connects') <= MaxConnects,
         forwarder' \in Seq(Nat), Len(forwarder') = Len(connects'),
         \A f \in 1..Len(forwarder') : forwarder'[f] \in connects'[f]..Events!Ended,
         client' \in Seq(Passed),
         \A i \in 1..Len(client') : client'[i].event \in 1..Len(events'),
         at' \in [Callers -> Nat], holding' \in [Callers -> SUBSET Nat],
         \A a \in Callers : at'[a] <= Len(client') /\ holding'[a] \subseteq 1..at'[a],
         responded' \subseteq 1..Len(client'),
         \A c \in responded' : events'[client'[c].event] = "request",
         responses' \in Seq(Nat)
  PROVE  EventTypes'
<1>1. DOMAIN client' = 1..Len(client') /\ DOMAIN forwarder' = 1..Len(forwarder')
  OBVIOUS
<1>2. responded' \subseteq {i \in 1..Len(client') : events'[client'[i].event] = "request"}
  OBVIOUS
<1>3. Events!TypeOK'
  BY <1>1, <1>2 DEF Events!TypeOK, Events!Ended
<1> QED
  BY <1>3 DEF EventTypes

LEMMA EventsInitially == ASSUME ResourcesAssumption, Events!Init PROVE EventInv
<1>1. /\ events = <<>> /\ connects = <<>> /\ forwarder = <<>> /\ client = <<>>
      /\ at = [a \in Callers |-> 0] /\ holding = [a \in Callers |-> {}]
      /\ responded = {} /\ responses = <<>>
  BY DEF Events!Init
<1>2. MaxEvents \in Nat /\ MaxConnects \in Nat
  BY DEF ResourcesAssumption
<1>3. \A S : <<>> \in Seq(S) /\ Len(<<>>) = 0 /\ DOMAIN <<>> = {}
  OBVIOUS
<1>4. EventTypes
  <2>1. Events!TypeOK
    BY <1>1, <1>2, <1>3 DEF Events!TypeOK
  <2> QED
    BY <1>1, <1>3, <2>1 DEF EventTypes
<1>5. EntriesInOrder /\ ForwardersReach
  <2>1. \A i \in 1..Len(client) : FALSE
    BY <1>1, <1>3
  <2>2. \A i \in 1..Len(forwarder) : FALSE
    BY <1>1, <1>3
  <2> QED
    BY <2>1, <2>2 DEF EntriesInOrder, ForwardersReach
<1>6. ResponsesFlagged
  <2>1. ASSUME NEW e \in Nat
        PROVE  Times(responses, e) = Cardinality({c \in responded : client[c].event = e})
    <3>1. {c \in responded : client[c].event = e} = {}
      BY <1>1
    <3>2. {i \in 1..Len(responses) : responses[i] = e} = {}
      BY <1>1, <1>3
    <3> QED
      BY <3>1, <3>2 DEF Times
  <2> QED
    BY <2>1 DEF ResponsesFlagged
<1> QED
  BY <1>4, <1>5, <1>6 DEF EventInv

LEMMA EntriesStay ==
  ASSUME EntriesInOrder, client' = client, Len(forwarder) \in Nat, Len(forwarder') \in Nat,
         Len(forwarder) <= Len(forwarder'),
         \A f \in 1..Len(forwarder) : connects'[f] = connects[f]
  PROVE  EntriesInOrder'
<1>1. ASSUME NEW i \in 1..Len(client)
      PROVE  /\ client[i].by \in 1..Len(forwarder')
             /\ connects'[client[i].by] = connects[client[i].by]
  BY DEF EntriesInOrder
<1> QED
  BY <1>1 DEF EntriesInOrder

LEMMA FlagsStay ==
  ASSUME ResponsesFlagged, responses' = responses, responded' = responded,
         \A c \in responded : client'[c] = client[c]
  PROVE  ResponsesFlagged'
<1>1. \A e : {c \in responded' : client'[c].event = e} = {c \in responded : client[c].event = e}
  OBVIOUS
<1> QED
  BY <1>1 DEF ResponsesFlagged

LEMMA ConnectKeeps == ASSUME ResourcesAssumption, EventInv, Events!Connect PROVE EventInv'
<1> USE DEF EventInv
<1> DEFINE m == Len(connects)  n == Len(events)
<1>1. /\ m < MaxConnects /\ connects' = Append(connects, n) /\ forwarder' = Append(forwarder, n)
      /\ UNCHANGED <<events, client, at, holding, responded, responses>>
  BY DEF Events!Connect
<1>2. /\ m \in Nat /\ n \in Nat /\ n <= MaxEvents /\ MaxEvents \in Nat /\ MaxConnects \in Nat
      /\ Events!Ended = MaxEvents + 1
      /\ connects \in Seq(Nat) /\ forwarder \in Seq(Nat) /\ Len(forwarder) = m
  BY EventTyped
<1>3. /\ connects' \in Seq(Nat) /\ forwarder' \in Seq(Nat)
      /\ Len(connects') = m + 1 /\ Len(forwarder') = m + 1
      /\ \A f \in 1..m : connects'[f] = connects[f] /\ forwarder'[f] = forwarder[f]
      /\ connects'[m + 1] = n /\ forwarder'[m + 1] = n
  <2> HIDE DEF n
  <2> QED
    BY <1>1, <1>2
<1>4. \A f \in 1..Len(forwarder') : f \in 1..m \/ f = m + 1
  BY <1>2, <1>3
<1>5. EventTypes'
  <2>1. \A f \in 1..Len(forwarder') : forwarder'[f] \in connects'[f]..Events!Ended
    <3>1. \A f \in 1..m : forwarder[f] \in connects[f]..Events!Ended
      BY EventTyped
    <3>2. n \in n..Events!Ended
      BY <1>2
    <3> QED
      BY <1>3, <1>4, <3>1, <3>2
  <2>2. Len(connects') <= MaxConnects /\ Len(forwarder') = Len(connects')
    BY <1>1, <1>2, <1>3
  <2> QED
    BY <1>1, <1>3, <2>1, <2>2, EventTyped, EventTypedNext
<1>6. EntriesInOrder'
  <2>1. Len(forwarder) \in Nat /\ Len(forwarder') \in Nat /\ Len(forwarder) <= Len(forwarder')
    BY <1>2, <1>3
  <2>2. \A f \in 1..Len(forwarder) : connects'[f] = connects[f]
    BY <1>2, <1>3
  <2> QED
    BY <1>1, <2>1, <2>2, EntriesStay
<1>7. ForwardersReach'
  <2>1. ASSUME NEW f \in 1..Len(forwarder')
        PROVE  /\ connects'[f] <= Len(events')
               /\ forwarder'[f] # Events!Ended =>
                    /\ forwarder'[f] <= Len(events')
                    /\ PassedOn(client', f, Len(client')) = (connects'[f] + 1)..forwarder'[f]
    <3>1. CASE f \in 1..m
      BY <1>1, <1>2, <1>3, <3>1 DEF ForwardersReach
    <3>2. CASE f = m + 1
      <4>1. \A i \in 1..Len(client) : client[i].by # f
        BY <1>2, <3>2 DEF EntriesInOrder
      <4>2. PassedOn(client, f, Len(client)) = {}
        BY <4>1 DEF PassedOn
      <4>3. (n + 1)..n = {} /\ n <= n
        BY <1>2
      <4> HIDE DEF n
      <4>4. connects'[f] = n /\ forwarder'[f] = n /\ Len(events') = n
        BY <1>1, <1>3, <3>2 DEF n
      <4> QED
        BY <1>1, <4>2, <4>3, <4>4
    <3> QED
      BY <1>4, <3>1, <3>2
  <2>2. Events!Ended' = Events!Ended
    BY DEF Events!Ended
  <2> QED
    BY <2>1, <2>2 DEF ForwardersReach
<1>8. ResponsesFlagged'
  BY <1>1, FlagsStay
<1> QED
  BY <1>5, <1>6, <1>7, <1>8

LEMMA OnEventKeeps ==
  ASSUME ResourcesAssumption, EventInv, NEW kind \in EventKinds, Events!OnEvent(kind)
  PROVE  EventInv'
<1> USE DEF EventInv
<1>1. /\ Len(events) < MaxEvents /\ events' = Append(events, kind)
      /\ UNCHANGED <<connects, forwarder, client, at, holding, responded, responses>>
  BY DEF Events!OnEvent
<1>2. events \in Seq(EventKinds) /\ Len(events) \in Nat /\ MaxEvents \in Nat
  BY EventTyped
<1>3. /\ events' \in Seq(EventKinds) /\ Len(events') = Len(events) + 1
      /\ \A i \in 1..Len(events) : events'[i] = events[i]
  BY <1>1, <1>2
<1>4. EventTypes'
  <2>1. Len(events') <= MaxEvents
    BY <1>1, <1>2, <1>3
  <2>2. \A i \in 1..Len(client') : client'[i].event \in 1..Len(events')
    <3>1. \A i \in 1..Len(client) : client[i].event \in 1..Len(events)
      BY EventTyped
    <3>2. \A e \in 1..Len(events) : e \in 1..Len(events')
      BY <1>2, <1>3
    <3> QED
      BY <1>1, <3>1, <3>2
  <2>3. \A c \in responded' : events'[client'[c].event] = "request"
    <3>1. \A c \in responded : client[c].event \in 1..Len(events) /\ events[client[c].event] = "request"
      BY EventTyped
    <3> QED
      BY <1>1, <1>3, <3>1
  <2> QED
    BY <1>1, <1>3, <2>1, <2>2, <2>3, EventTyped, EventTypedNext
<1>5. EntriesInOrder'
  BY <1>1 DEF EntriesInOrder
<1>6. ForwardersReach'
  <2>1. \A f \in 1..Len(forwarder) : connects[f] \in Nat /\ forwarder[f] \in Nat
    BY EventTyped
  <2> QED
    BY <1>1, <1>2, <1>3, <2>1 DEF ForwardersReach, Events!Ended
<1>7. ResponsesFlagged'
  BY <1>1, FlagsStay
<1> QED
  BY <1>4, <1>5, <1>6, <1>7

LEMMA ForwardKeeps ==
  ASSUME ResourcesAssumption, EventInv, NEW f \in DOMAIN forwarder, Events!Forward(f)
  PROVE  EventInv'
<1> USE DEF EventInv
<1> DEFINE n == Len(client)  x == [event |-> forwarder[f] + 1, by |-> f]
<1>1. /\ forwarder[f] < Len(events)
      /\ forwarder' = [forwarder EXCEPT ![f] = forwarder[f] + 1] /\ client' = Append(client, x)
      /\ UNCHANGED <<events, connects, at, holding, responded, responses>>
  BY DEF Events!Forward
<1>2. /\ forwarder \in Seq(Nat) /\ client \in Seq(Passed) /\ n \in Nat
      /\ Len(forwarder) = Len(connects) /\ Len(forwarder) \in Nat
      /\ Events!Ended = MaxEvents + 1 /\ MaxEvents \in Nat /\ Len(events) \in Nat
      /\ Len(events) <= MaxEvents
  BY EventTyped
<1>3. f \in 1..Len(forwarder) /\ forwarder[f] \in Nat /\ connects[f] \in Nat /\ f \in Nat
  <2>1. f \in 1..Len(forwarder)
    BY <1>2
  <2> QED
    BY <1>2, <2>1, EventTyped
<1> DEFINE p == forwarder[f]  from == connects[f]  last == Len(events)
<1>4. /\ p \in Nat /\ p < last /\ p + 1 \in 1..last /\ p # Events!Ended
      /\ p + 1 <= Events!Ended /\ p + 1 <= last
  <2>1. p < last
    BY <1>1
  <2> HIDE DEF p, last
  <2>2. p \in Nat /\ last \in Nat /\ last <= MaxEvents /\ MaxEvents \in Nat
    BY <1>2, <1>3 DEF p, last
  <2> QED
    BY <1>2, <2>1, <2>2
<1>5. /\ x \in Passed /\ x.by = f /\ x.event = forwarder[f] + 1
  BY <1>3 DEF Passed
<1> HIDE DEF x
<1>6. /\ client' \in Seq(Passed) /\ Len(client') = n + 1 /\ client'[n + 1] = x
      /\ \A i \in 1..n : client'[i] = client[i]
  BY <1>1, <1>2, <1>5
<1>7. /\ forwarder' \in Seq(Nat) /\ Len(forwarder') = Len(forwarder)
      /\ forwarder'[f] = forwarder[f] + 1
      /\ \A g \in 1..Len(forwarder) : g # f => forwarder'[g] = forwarder[g]
  <2>1. forwarder[f] + 1 \in Nat
    BY <1>3
  <2> QED
    BY <1>1, <1>2, <1>3, <2>1, ExceptSeq
<1>8. /\ PassedOn(client, f, n) = (connects[f] + 1)..forwarder[f] /\ connects[f] <= forwarder[f]
      /\ forwarder[f] + 1 \in connects[f]..Events!Ended /\ connects[f] <= Len(events)
  <2>1. forwarder[f] \in connects[f]..Events!Ended
    BY <1>2, <1>3, EventTyped
  <2>2. PassedOn(client, f, n) = (connects[f] + 1)..forwarder[f]
    BY <1>3, <1>4 DEF ForwardersReach
  <2> HIDE DEF p, from, last
  <2>3. from \in Nat /\ p \in from..Events!Ended /\ Events!Ended \in Nat
    BY <1>2, <1>3, <2>1 DEF p, from
  <2>4. from <= p /\ p + 1 \in from..Events!Ended /\ from <= last
    BY <1>2, <1>4, <2>3 DEF last
  <2> QED
    BY <2>2, <2>4 DEF p, from, last
<1>9. /\ \A g : \A m \in 0..n : PassedOn(client', g, m) = PassedOn(client, g, m)
      /\ \A g : g # f => PassedOn(client', g, n + 1) = PassedOn(client, g, n)
      /\ PassedOn(client', f, n + 1) = PassedOn(client, f, n) \cup {x.event}
  <2>1. ASSUME NEW g
        PROVE  /\ \A m \in 0..n : PassedOn(client', g, m) = PassedOn(client, g, m)
               /\ g # f => PassedOn(client', g, n + 1) = PassedOn(client, g, n)
               /\ g = f => PassedOn(client', g, n + 1) = PassedOn(client, g, n) \cup {x.event}
    <3>1. /\ \A m \in 0..n : PassedOn(Append(client, x), g, m) = PassedOn(client, g, m)
          /\ x.by # g => PassedOn(Append(client, x), g, n + 1) = PassedOn(client, g, n)
          /\ x.by = g => PassedOn(Append(client, x), g, n + 1) = PassedOn(client, g, n) \cup {x.event}
      <4>1. Continued(client, x, g)
        BY <1>2, <1>5, PassedOnAppended
      <4> QED
        BY <4>1 DEF Continued
    <3>2. client' = Append(client, x) /\ x.by = f
      BY <1>1, <1>5
    <3> QED
      BY <3>1, <3>2
  <2> QED
    BY <2>1
<1>10. EventTypes'
  <2>1. \A i \in 1..Len(client') : client'[i].event \in 1..Len(events')
    <3>1. x.event \in 1..Len(events)
      BY <1>4, <1>5
    <3>2. \A i \in 1..(n + 1) : i \in 1..n \/ i = n + 1
      BY <1>2
    <3>3. \A i \in 1..n : client[i].event \in 1..Len(events)
      BY EventTyped
    <3> QED
      BY <1>1, <1>6, <3>1, <3>2, <3>3
  <2>2. \A g \in 1..Len(forwarder') : forwarder'[g] \in connects'[g]..Events!Ended
    <3>1. \A g \in 1..Len(forwarder) : forwarder[g] \in connects[g]..Events!Ended
      BY <1>2, EventTyped
    <3>2. forwarder[f] + 1 \in connects[f]..Events!Ended
      BY <1>8
    <3> QED
      BY <1>1, <1>7, <3>1, <3>2
  <2>3. \A a \in Callers : at'[a] <= Len(client') /\ holding'[a] \subseteq 1..at'[a]
    <3>1. \A a \in Callers : at[a] \in Nat /\ at[a] <= n /\ holding[a] \subseteq 1..at[a]
      BY EventTyped
    <3>2. at' = at /\ holding' = holding /\ Len(client') = n + 1
      BY <1>1, <1>6
    <3> HIDE DEF n
    <3>3. \A a \in Callers : at[a] <= n + 1
      BY <1>2, <3>1
    <3> QED
      BY <3>1, <3>2, <3>3
  <2>4. responded' \subseteq 1..Len(client') /\ \A c \in responded' : events'[client'[c].event] = "request"
    <3>1. responded \subseteq 1..n /\ \A c \in responded : events[client[c].event] = "request"
      BY EventTyped
    <3>2. 1..n \subseteq 1..(n + 1)
      BY <1>2
    <3> QED
      BY <1>1, <1>6, <3>1, <3>2
  <2>5. Len(forwarder') = Len(connects')
    BY <1>1, <1>2, <1>7
  <2> QED
    BY <1>1, <1>6, <1>7, <2>1, <2>2, <2>3, <2>4, <2>5, EventTyped, EventTypedNext
<1>11. EntriesInOrder'
  <2>1. ASSUME NEW i \in 1..Len(client')
        PROVE  /\ client'[i].by \in 1..Len(forwarder') /\ client'[i].event > connects'[client'[i].by]
               /\ PassedOn(client', client'[i].by, i - 1)
                    = (connects'[client'[i].by] + 1)..(client'[i].event - 1)
    <3>1. CASE i \in 1..n
      <4>1. i - 1 \in 0..n
        BY <1>2, <3>1
      <4>2. client'[i] = client[i]
        BY <1>6, <3>1
      <4>3. PassedOn(client', client[i].by, i - 1) = PassedOn(client, client[i].by, i - 1)
        BY <1>9, <4>1
      <4> QED
        BY <1>1, <1>7, <3>1, <4>2, <4>3 DEF EntriesInOrder
    <3>2. CASE i = n + 1
      <4>1. client'[i].by = f /\ client'[i].event = forwarder[f] + 1 /\ i - 1 = n /\ n \in 0..n
        BY <1>2, <1>5, <1>6, <3>2
      <4>2. PassedOn(client', f, n) = (connects[f] + 1)..forwarder[f]
        BY <1>8, <1>9, <4>1
      <4>3. (forwarder[f] + 1) - 1 = forwarder[f] /\ forwarder[f] + 1 > connects[f]
        <5>1. ASSUME NEW a \in Nat, NEW b \in Nat, b <= a PROVE (a + 1) - 1 = a /\ a + 1 > b
          BY <5>1
        <5>2. connects[f] <= forwarder[f]
          BY <1>8
        <5> QED
          BY <1>3, <5>1, <5>2
      <4>4. f \in 1..Len(forwarder') /\ connects'[f] = connects[f]
        BY <1>1, <1>3, <1>7
      <4>5. /\ client'[i].by \in 1..Len(forwarder')
            /\ client'[i].event > connects'[client'[i].by]
        BY <4>1, <4>3, <4>4
      <4>6. PassedOn(client', client'[i].by, i - 1)
              = (connects'[client'[i].by] + 1)..(client'[i].event - 1)
        BY <4>1, <4>2, <4>3, <4>4
      <4> QED
        BY <4>5, <4>6
    <3> QED
      BY <1>2, <1>6, <3>1, <3>2
  <2> QED
    BY <2>1 DEF EntriesInOrder
<1>12. ForwardersReach'
  <2>1. ASSUME NEW g \in 1..Len(forwarder')
        PROVE  /\ connects'[g] <= Len(events')
               /\ forwarder'[g] # Events!Ended =>
                    /\ forwarder'[g] <= Len(events')
                    /\ PassedOn(client', g, Len(client')) = (connects'[g] + 1)..forwarder'[g]
    <3>1. CASE g = f
      <4>1. PassedOn(client', f, n + 1) = (connects[f] + 1)..(forwarder[f] + 1)
        <5>1. (connects[f] + 1)..(forwarder[f] + 1) = ((connects[f] + 1)..forwarder[f]) \cup {forwarder[f] + 1}
          BY <1>3, <1>8
        <5> QED
          BY <1>5, <1>8, <1>9, <5>1
      <4>2. forwarder[f] + 1 <= Len(events) /\ connects[f] <= Len(events)
        BY <1>4, <1>8
      <4> QED
        BY <1>1, <1>6, <1>7, <3>1, <4>1, <4>2
    <3>2. CASE g # f
      <4>1. g \in 1..Len(forwarder) /\ forwarder'[g] = forwarder[g]
        BY <1>7, <3>2
      <4>2. PassedOn(client', g, Len(client')) = PassedOn(client, g, n)
        BY <1>6, <1>9, <3>2
      <4> QED
        BY <1>1, <4>1, <4>2 DEF ForwardersReach
    <3> QED
      BY <3>1, <3>2
  <2>2. Events!Ended' = Events!Ended
    BY DEF Events!Ended
  <2> QED
    BY <2>1, <2>2 DEF ForwardersReach
<1>13. ResponsesFlagged'
  <2>1. \A c \in responded : client'[c] = client[c]
    BY <1>6, EventTyped
  <2> QED
    BY <1>1, <2>1, FlagsStay
<1> QED
  BY <1>10, <1>11, <1>12, <1>13

LEMMA ForwarderLagsKeeps ==
  ASSUME ResourcesAssumption, EventInv, NEW f \in DOMAIN forwarder, Events!ForwarderLags(f)
  PROVE  EventInv'
<1> USE DEF EventInv
<1>1. /\ forwarder' = [forwarder EXCEPT ![f] = Events!Ended]
      /\ UNCHANGED <<events, connects, client, at, holding, responded, responses>>
  BY DEF Events!ForwarderLags
<1>2. /\ forwarder \in Seq(Nat) /\ Len(forwarder) = Len(connects) /\ Len(forwarder) \in Nat
      /\ Events!Ended = MaxEvents + 1 /\ MaxEvents \in Nat
      /\ \A g \in 1..Len(forwarder) : forwarder[g] \in connects[g]..Events!Ended /\ connects[g] \in Nat
  BY EventTyped
<1>3. f \in 1..Len(forwarder)
  BY <1>2
<1>4. /\ forwarder' \in Seq(Nat) /\ Len(forwarder') = Len(forwarder)
      /\ forwarder'[f] = Events!Ended
      /\ \A g \in 1..Len(forwarder) : g # f => forwarder'[g] = forwarder[g]
  <2>1. Events!Ended \in Nat
    BY <1>2
  <2> QED
    BY <1>1, <1>2, <1>3, <2>1, ExceptSeq
<1>5. EventTypes'
  <2>1. \A g \in 1..Len(forwarder') : forwarder'[g] \in connects'[g]..Events!Ended
    <3>1. Events!Ended \in connects[f]..Events!Ended
      BY <1>2, <1>3
    <3> QED
      BY <1>1, <1>2, <1>4, <3>1
  <2>2. Len(forwarder') = Len(connects')
    BY <1>1, <1>2, <1>4
  <2> QED
    BY <1>1, <1>4, <2>1, <2>2, EventTyped, EventTypedNext
<1>6. EntriesInOrder'
  BY <1>1, <1>4 DEF EntriesInOrder
<1>7. ForwardersReach'
  BY <1>1, <1>4 DEF ForwardersReach, Events!Ended
<1>8. ResponsesFlagged'
  BY <1>1, FlagsStay
<1> QED
  BY <1>5, <1>6, <1>7, <1>8

\* What subscribers do with their positions and contexts.
LEMMA SubscriberSteps ==
  ASSUME ResourcesAssumption, EventInv,
         UNCHANGED <<events, connects, forwarder, client, responded, responses>>,
         at' \in [Callers -> Nat], holding' \in [Callers -> SUBSET Nat],
         \A a \in Callers : at'[a] <= Len(client) /\ holding'[a] \subseteq 1..at'[a]
  PROVE  EventInv'
<1> USE DEF EventInv
<1>1. EventTypes'
  BY EventTyped, EventTypedNext
<1>2. EntriesInOrder' /\ ForwardersReach'
  BY DEF EntriesInOrder, ForwardersReach, Events!Ended
<1>3. ResponsesFlagged'
  BY FlagsStay
<1> QED
  BY <1>1, <1>2, <1>3

LEMMA ReceiveKeeps ==
  ASSUME ResourcesAssumption, EventInv, NEW a \in Callers, Events!Receive(a)
  PROVE  EventInv'
<1>1. /\ at[a] < Len(client) /\ at' = [at EXCEPT ![a] = at[a] + 1]
      /\ holding' = [holding EXCEPT ![a] = holding[a] \cup {at[a] + 1}]
      /\ UNCHANGED <<events, connects, forwarder, client, responded, responses>>
  BY DEF Events!Receive
<1>2. /\ at \in [Callers -> Nat] /\ holding \in [Callers -> SUBSET Nat] /\ Len(client) \in Nat
      /\ \A b \in Callers : at[b] \in Nat /\ at[b] <= Len(client) /\ holding[b] \subseteq 1..at[b]
  BY EventTyped DEF EventInv
<1>3. at[a] + 1 \in Nat /\ at[a] + 1 <= Len(client)
      /\ holding[a] \cup {at[a] + 1} \subseteq 1..(at[a] + 1)
      /\ holding[a] \cup {at[a] + 1} \in SUBSET Nat
  BY <1>1, <1>2
<1>4. /\ at' \in [Callers -> Nat] /\ holding' \in [Callers -> SUBSET Nat]
      /\ \A b \in Callers : at'[b] <= Len(client) /\ holding'[b] \subseteq 1..at'[b]
  BY <1>1, <1>2, <1>3
<1> QED
  BY <1>1, <1>4, SubscriberSteps

LEMMA SubscriberLagsKeeps ==
  ASSUME ResourcesAssumption, EventInv, NEW a \in Callers, Events!SubscriberLags(a)
  PROVE  EventInv'
<1>1. /\ Len(client) - at[a] > EventCapacity
      /\ at' = [at EXCEPT ![a] = Len(client) - EventCapacity]
      /\ UNCHANGED <<events, connects, forwarder, client, holding, responded, responses>>
  BY DEF Events!SubscriberLags, Events!Lags
<1>2. /\ at \in [Callers -> Nat] /\ holding \in [Callers -> SUBSET Nat] /\ Len(client) \in Nat
      /\ EventCapacity \in Nat
      /\ \A b \in Callers : at[b] \in Nat /\ at[b] <= Len(client) /\ holding[b] \subseteq 1..at[b]
  BY EventTyped DEF EventInv
<1> DEFINE n == Len(client) - EventCapacity
<1>3. n \in Nat /\ n <= Len(client) /\ at[a] <= n
  BY <1>1, <1>2
<1>4. holding[a] \subseteq 1..n
  BY <1>2, <1>3
<1> HIDE DEF n
<1>5. /\ at' \in [Callers -> Nat] /\ holding' \in [Callers -> SUBSET Nat]
      /\ \A b \in Callers : at'[b] <= Len(client) /\ holding'[b] \subseteq 1..at'[b]
  <2>1. at' = [at EXCEPT ![a] = n]
    BY <1>1 DEF n
  <2> QED
    BY <1>1, <1>2, <1>3, <1>4, <2>1
<1> QED
  BY <1>1, <1>5, SubscriberSteps

\* Respond and DropContext: the context is gone.
LEMMA ContextGone ==
  ASSUME ResourcesAssumption, EventTypes, NEW a \in Callers, NEW c,
         holding' = [holding EXCEPT ![a] = holding[a] \ {c}], at' = at
  PROVE  /\ at' \in [Callers -> Nat] /\ holding' \in [Callers -> SUBSET Nat]
         /\ \A b \in Callers : at'[b] <= Len(client) /\ holding'[b] \subseteq 1..at'[b]
<1>1. /\ at \in [Callers -> Nat] /\ holding \in [Callers -> SUBSET Nat]
      /\ \A b \in Callers : at[b] <= Len(client) /\ holding[b] \subseteq 1..at[b]
  BY EventTyped
<1>2. holding[a] \ {c} \in SUBSET Nat /\ holding[a] \ {c} \subseteq 1..at[a]
  BY <1>1
<1> QED
  BY <1>1, <1>2

LEMMA DropContextKeeps ==
  ASSUME ResourcesAssumption, EventInv, NEW a \in Callers, NEW c \in holding[a],
         Events!DropContext(a, c)
  PROVE  EventInv'
<1>1. /\ holding' = [holding EXCEPT ![a] = holding[a] \ {c}]
      /\ UNCHANGED <<events, connects, forwarder, client, at, responded, responses>>
  BY DEF Events!DropContext
<1>2. EventTypes
  BY DEF EventInv
<1> QED
  BY <1>1, <1>2, ContextGone, SubscriberSteps

LEMMA RespondKeeps ==
  ASSUME ResourcesAssumption, EventInv, NEW a \in Callers, NEW c \in holding[a],
         Events!Respond(a, c)
  PROVE  EventInv'
<1> DEFINE e == client[c].event
<1>1. /\ holding' = [holding EXCEPT ![a] = holding[a] \ {c}]
      /\ UNCHANGED <<events, connects, forwarder, client, at>>
      /\ IF events[e] = "request" /\ c \notin responded
         THEN responded' = responded \cup {c} /\ responses' = Append(responses, e)
         ELSE UNCHANGED <<responded, responses>>
  BY DEF Events!Respond
<1>2. /\ at' \in [Callers -> Nat] /\ holding' \in [Callers -> SUBSET Nat]
      /\ \A b \in Callers : at'[b] <= Len(client) /\ holding'[b] \subseteq 1..at'[b]
  BY <1>1, ContextGone DEF EventInv
<1>3. CASE UNCHANGED <<responded, responses>>
  BY <1>1, <1>2, <1>3, SubscriberSteps
<1>4. CASE /\ events[e] = "request" /\ c \notin responded
           /\ responded' = responded \cup {c} /\ responses' = Append(responses, e)
  <2> USE DEF EventInv
  <2>1. /\ responded \subseteq 1..Len(client) /\ IsFiniteSet(responded)
        /\ \A d \in responded : events[client[d].event] = "request"
        /\ responses \in Seq(Nat) /\ Len(client) \in Nat
    BY EventTyped
  <2>2. c \in 1..Len(client)
    <3>1. holding[a] \subseteq 1..at[a] /\ at[a] \in Nat /\ at[a] <= Len(client)
      BY EventTyped
    <3> QED
      BY <2>1, <3>1
  <2>3. e \in Nat
    BY <2>2, EventTyped
  <2>4. responses' \in Seq(Nat)
    BY <1>4, <2>1, <2>3
  <2>5. EventTypes'
    <3>1. responded' \subseteq 1..Len(client') /\ \A d \in responded' : events'[client'[d].event] = "request"
      BY <1>1, <1>4, <2>1, <2>2
    <3>2. \A b \in Callers : at'[b] <= Len(client') /\ holding'[b] \subseteq 1..at'[b]
      BY <1>1, <1>2
    <3> QED
      BY <1>1, <1>2, <2>4, <3>1, <3>2, EventTyped, EventTypedNext
  <2>6. EntriesInOrder' /\ ForwardersReach'
    BY <1>1 DEF EntriesInOrder, ForwardersReach, Events!Ended
  <2>7. ResponsesFlagged'
    <3> HIDE DEF e
    <3>1. ASSUME NEW r \in Nat
          PROVE  Times(responses', r) = Cardinality({d \in responded' : client'[d].event = r})
      <4> DEFINE A == {d \in responded : client[d].event = r}
                 B == {d \in responded' : client[d].event = r}
      <4>1. /\ Times(responses, r) = Cardinality(A)
            /\ Times(responses', r) = IF e = r THEN Times(responses, r) + 1 ELSE Times(responses, r)
        <5>1. Times(responses, r) = Cardinality(A)
          BY DEF ResponsesFlagged
        <5>2. Times(Append(responses, e), r)
                = IF e = r THEN Times(responses, r) + 1 ELSE Times(responses, r)
          BY <2>1, <2>3, TimesAppended
        <5> QED
          BY <1>4, <5>1, <5>2
      <4>2. IsFiniteSet(A) /\ c \notin A
        BY <1>4, <2>1, FS_Subset
      <4>3. e = r => B = A \cup {c}
        BY <1>4 DEF e
      <4>4. e # r => B = A
        BY <1>4 DEF e
      <4> HIDE DEF A, B
      <4>5. Times(responses', r) = Cardinality(B)
        <5>1. Cardinality(A \cup {c}) = Cardinality(A) + 1
          BY <4>2, FS_AddElement
        <5> QED
          BY <4>1, <4>3, <4>4, <5>1
      <4> QED
        BY <1>1, <4>5 DEF B
    <3> QED
      BY <3>1 DEF ResponsesFlagged
  <2> QED
    BY <2>5, <2>6, <2>7
<1> QED
  BY <1>1, <1>3, <1>4

LEMMA EventsKept == ASSUME ResourcesAssumption, EventInv, Events!Next PROVE EventInv'
<1>1. CASE Events!Connect
  BY <1>1, ConnectKeeps
<1>2. CASE \E kind \in EventKinds : Events!OnEvent(kind)
  BY <1>2, OnEventKeeps
<1>3. CASE \E f \in DOMAIN forwarder : Events!Forward(f) \/ Events!ForwarderLags(f)
  BY <1>3, ForwardKeeps, ForwarderLagsKeeps
<1>4. ASSUME NEW a \in Callers, Events!Receive(a) \/ Events!SubscriberLags(a)
      PROVE  EventInv'
  BY <1>4, ReceiveKeeps, SubscriberLagsKeeps
<1>5. ASSUME NEW a \in Callers, NEW c \in holding[a], Events!Respond(a, c) \/ Events!DropContext(a, c)
      PROVE  EventInv'
  BY <1>5, RespondKeeps, DropContextKeeps
<1> QED
  BY <1>1, <1>2, <1>3, <1>4, <1>5 DEF Events!Next

LEMMA EventsStay == ASSUME EventInv, UNCHANGED eventVars PROVE EventInv'
<1>1. UNCHANGED <<events, connects, forwarder, client, at, holding, responded, responses>>
  BY DEF eventVars
<1> QED
  BY <1>1 DEF EventInv, EventTypes, Events!TypeOK, Events!Ended, EntriesInOrder, ForwardersReach,
              ResponsesFlagged

\* Each response to an event belongs to another forwarding task.
LEMMA EventsPromise ==
  ASSUME ResourcesAssumption, EventInv
  PROVE  Events!TypeOK /\ Events!RespondOnce /\ Events!ForwardedInOrder
<1> USE DEF EventInv
<1>1. Events!TypeOK
  BY DEF EventTypes
<1>2. /\ Len(connects) \in Nat /\ connects \in Seq(Nat) /\ Len(forwarder) = Len(connects)
      /\ responses \in Seq(Nat) /\ client \in Seq(Passed) /\ Len(client) \in Nat
      /\ events \in Seq(EventKinds)
      /\ responded \subseteq 1..Len(client)
      /\ \A i \in 1..Len(client) : client[i].event \in Nat /\ client[i].by \in Nat
  BY EventTyped
<1>3. /\ DOMAIN connects = 1..Len(connects) /\ DOMAIN responses = 1..Len(responses)
      /\ DOMAIN client = 1..Len(client) /\ DOMAIN events = 1..Len(events)
  BY <1>2
<1>4. ASSUME NEW i \in 1..Len(client), NEW j \in 1..Len(client), i < j,
             client[i].by = client[j].by, client[i].event = client[j].event
      PROVE  FALSE
  <2>1. PassedOn(client, client[j].by, j - 1) = (connects[client[j].by] + 1)..(client[j].event - 1)
    BY DEF EntriesInOrder
  <2>2. client[i].event \in PassedOn(client, client[j].by, j - 1)
    <3>1. i \in 1..(j - 1)
      BY <1>2, <1>4
    <3> QED
      BY <1>4, <3>1 DEF PassedOn
  <2>3. client[j].event \notin (connects[client[j].by] + 1)..(client[j].event - 1)
    BY <1>2
  <2> QED
    BY <1>4, <2>1, <2>2, <2>3
<1>5. Events!RespondOnce
  <2>1. ASSUME NEW e \in 1..Len(events)
        PROVE  Cardinality({i \in 1..Len(responses) : responses[i] = e})
                 <= Cardinality({f \in 1..Len(connects) : connects[f] < e})
    <3> DEFINE A == {c \in responded : client[c].event = e}
               B == {f \in 1..Len(connects) : connects[f] < e}
               by == [c \in A |-> client[c].by]
    <3>1. Cardinality({i \in 1..Len(responses) : responses[i] = e}) = Cardinality(A)
      BY DEF ResponsesFlagged, Times
    <3>2. IsFiniteSet(B)
      <4>1. B \in SUBSET (1..Len(connects)) /\ IsFiniteSet(1..Len(connects))
        BY <1>2, FS_Interval
      <4> QED
        BY <4>1, FS_Subset
    <3>3. by \in [A -> B]
      <4>1. ASSUME NEW c \in A PROVE client[c].by \in B
        <5>1. c \in 1..Len(client) /\ client[c].event = e
          BY <1>2
        <5>2. client[c].by \in 1..Len(forwarder) /\ client[c].event > connects[client[c].by]
          BY <5>1 DEF EntriesInOrder
        <5>3. connects[client[c].by] \in Nat /\ e \in Nat
          BY <1>2, <5>2
        <5> QED
          BY <1>2, <5>1, <5>2, <5>3
      <4> QED
        BY <4>1
    <3>4. \A c, d \in A : by[c] = by[d] => c = d
      <4>1. ASSUME NEW c \in A, NEW d \in A, by[c] = by[d], c # d PROVE FALSE
        <5>1. /\ c \in 1..Len(client) /\ d \in 1..Len(client) /\ client[c].event = client[d].event
              /\ client[c].by = client[d].by
          BY <1>2, <4>1
        <5>2. c < d \/ d < c
          BY <1>2, <4>1, <5>1
        <5> QED
          BY <1>4, <5>1, <5>2
      <4> QED
        BY <4>1
    <3>5. by \in Injection(A, B)
      BY <3>3, <3>4 DEF Injection, IsInjective
    <3> HIDE DEF A, B, by
    <3>6. Cardinality(A) <= Cardinality(B)
      BY <3>2, <3>5, FS_Injection
    <3> QED
      BY <3>1, <3>6 DEF B
  <2>2. \A S : Events!Cardinality(S) = Cardinality(S)
    BY DEF Events!Cardinality, Cardinality
  <2> QED
    BY <1>3, <2>1, <2>2 DEF Events!RespondOnce
<1>6. Events!ForwardedInOrder
  BY <1>3 DEF Events!ForwardedInOrder, EntriesInOrder, PassedOn
<1> QED
  BY <1>1, <1>5, <1>6
-----------------------------------------------------------------------------
(* Settings                                                                *)

(* The tables of a role are about the same fields and values, ...           *)
FieldsMatch(default, setters, presets, validated, merged) ==
  /\ default = [f \in DOMAIN default |-> default[f]]
  /\ DOMAIN setters = DOMAIN default /\ DOMAIN merged \subseteq DOMAIN default
  /\ validated \subseteq DOMAIN default
  /\ \A p \in presets : DOMAIN p \subseteq DOMAIN default

ValuesMatch(default, setters, presets) ==
  /\ \A f \in DOMAIN default : default[f] \in Setting!Values /\ setters[f] \subseteq Setting!Values
  /\ \A p \in presets : \A f \in DOMAIN p : p[f] \in setters[f] \cup {default[f]}

(* ... and merge takes every choice but the values it passes over and the  *)
(* default chosen again; untouched fields only where the default is         *)
(* imposed, and the fields that are left out never.                        *)
MergeMatches(default, setters, merged, imposed, left, passed) ==
  /\ left \cap DOMAIN merged = {}
  /\ \A f \in DOMAIN default \ left :
       /\ f \in DOMAIN merged
       /\ f \notin imposed => default[f] \notin merged[f]
       /\ setters[f] \cup {default[f]} \subseteq
            merged[f] \cup passed \cup (IF f \in imposed THEN {} ELSE {"usual"})

Lost == {"none", "alike"} \cup (IF role[1] = "client" THEN {"on"} ELSE {})

Tables ==
  /\ FieldsMatch(Setting!Default, Setting!Setters, Setting!Presets, Setting!Validated, Setting!Taken)
  /\ ValuesMatch(Setting!Default, Setting!Setters, Setting!Presets)
  /\ MergeMatches(Setting!Default, Setting!Setters, Setting!Taken,
                  Setting!Imposed, Setting!Forgotten, Lost)

LEMMA TcpClientTables == ASSUME role = <<"client", "tcp">> PROVE Tables
<1> DEFINE default == Setting!TcpClientDefault  setters == Setting!TcpClientSetters
           presets == Setting!TcpClientPresets  validated == Setting!TcpClientValidated
           merged == Setting!TcpClientMerge
           imposed == {"keepalive", "read_timeout", "write_timeout", "ping_interval",
                   "keep_alive_interval", "verify_certificate"}
           forgotten == {}
           passed == {"none", "alike", "on"}
<1>1. /\ Setting!Default = default /\ Setting!Setters = setters /\ Setting!Presets = presets
      /\ Setting!Validated = validated /\ Setting!Taken = merged
  BY DEF Setting!Default, Setting!Setters, Setting!Presets, Setting!Validated, Setting!Taken
<1>2. Setting!Imposed = imposed /\ Lost = passed
  BY DEF Setting!Imposed, Lost
<1>3. Setting!Forgotten = forgotten
  BY <1>1 DEF Setting!Forgotten, Setting!Fields
<1>4. FieldsMatch(default, setters, presets, validated, merged)
  BY DEF FieldsMatch, Setting!TcpClientDefault, Setting!TcpClientSetters, Setting!TcpClientValidated,
         Setting!TcpClientMerge, Setting!TcpClientPresets
<1>5. ValuesMatch(default, setters, presets)
  BY DEF ValuesMatch, Setting!TcpClientDefault, Setting!TcpClientSetters, Setting!TcpClientPresets,
         Setting!Values, Setting!Number, Setting!Counted, Setting!Option, Setting!Maybe, Setting!Some,
         Setting!Flag, Setting!Coarse
<1>6. MergeMatches(default, setters, merged, imposed, forgotten, passed)
  BY DEF MergeMatches, Setting!TcpClientDefault, Setting!TcpClientSetters, Setting!TcpClientMerge,
         Setting!Differing, Setting!Present,
         Setting!Number, Setting!Counted, Setting!Option, Setting!Maybe, Setting!Some,
         Setting!Flag, Setting!Coarse
<1> QED
  BY <1>1, <1>2, <1>3, <1>4, <1>5, <1>6 DEF Tables

LEMMA WebSocketClientTables == ASSUME role = <<"client", "websocket">> PROVE Tables
<1> DEFINE default == Setting!WebSocketClientDefault  setters == Setting!WebSocketClientSetters
           presets == Setting!WebSocketClientPresets  validated == Setting!WebSocketClientValidated
           merged == Setting!WebSocketClientMerge
           imposed == {"keepalive", "read_timeout", "write_timeout", "ping_interval",
                   "keep_alive_interval", "verify_certificate"}
           forgotten == {}
           passed == {"none", "alike", "on"}
<1>1. /\ Setting!Default = default /\ Setting!Setters = setters /\ Setting!Presets = presets
      /\ Setting!Validated = validated /\ Setting!Taken = merged
  BY DEF Setting!Default, Setting!Setters, Setting!Presets, Setting!Validated, Setting!Taken
<1>2. Setting!Imposed = imposed /\ Lost = passed
  BY DEF Setting!Imposed, Lost
<1>3. Setting!Forgotten = forgotten
  BY <1>1 DEF Setting!Forgotten, Setting!Fields
<1>4. FieldsMatch(default, setters, presets, validated, merged)
  BY DEF FieldsMatch, Setting!WebSocketClientDefault, Setting!WebSocketClientSetters, Setting!WebSocketClientValidated,
         Setting!WebSocketClientMerge, Setting!WebSocketClientPresets
<1>5. ValuesMatch(default, setters, presets)
  BY DEF ValuesMatch, Setting!WebSocketClientDefault, Setting!WebSocketClientSetters, Setting!WebSocketClientPresets,
         Setting!Values, Setting!Number, Setting!Counted, Setting!Option, Setting!Maybe, Setting!Some,
         Setting!Flag, Setting!Coarse
<1>6. MergeMatches(default, setters, merged, imposed, forgotten, passed)
  BY DEF MergeMatches, Setting!WebSocketClientDefault, Setting!WebSocketClientSetters, Setting!WebSocketClientMerge,
         Setting!Differing, Setting!Present,
         Setting!Number, Setting!Counted, Setting!Option, Setting!Maybe, Setting!Some,
         Setting!Flag, Setting!Coarse
<1> QED
  BY <1>1, <1>2, <1>3, <1>4, <1>5, <1>6 DEF Tables

LEMMA QuicClientTables == ASSUME role = <<"client", "quic">> PROVE Tables
<1> DEFINE default == Setting!QuicClientDefault  setters == Setting!QuicClientSetters
           presets == Setting!QuicClientPresets  validated == Setting!QuicClientValidated
           merged == Setting!QuicClientMerge
           imposed == {"keepalive", "read_timeout", "write_timeout", "ping_interval",
                   "keep_alive_interval", "verify_certificate"}
           forgotten == {}
           passed == {"none", "alike", "on"}
<1>1. /\ Setting!Default = default /\ Setting!Setters = setters /\ Setting!Presets = presets
      /\ Setting!Validated = validated /\ Setting!Taken = merged
  BY DEF Setting!Default, Setting!Setters, Setting!Presets, Setting!Validated, Setting!Taken
<1>2. Setting!Imposed = imposed /\ Lost = passed
  BY DEF Setting!Imposed, Lost
<1>3. Setting!Forgotten = forgotten
  BY <1>1 DEF Setting!Forgotten, Setting!Fields
<1>4. FieldsMatch(default, setters, presets, validated, merged)
  BY DEF FieldsMatch, Setting!QuicClientDefault, Setting!QuicClientSetters, Setting!QuicClientValidated,
         Setting!QuicClientMerge, Setting!QuicClientPresets
<1>5. ValuesMatch(default, setters, presets)
  BY DEF ValuesMatch, Setting!QuicClientDefault, Setting!QuicClientSetters, Setting!QuicClientPresets,
         Setting!Values, Setting!Number, Setting!Counted, Setting!Option, Setting!Maybe, Setting!Some,
         Setting!Flag, Setting!Coarse
<1>6. MergeMatches(default, setters, merged, imposed, forgotten, passed)
  BY DEF MergeMatches, Setting!QuicClientDefault, Setting!QuicClientSetters, Setting!QuicClientMerge,
         Setting!Differing, Setting!Present,
         Setting!Number, Setting!Counted, Setting!Option, Setting!Maybe, Setting!Some,
         Setting!Flag, Setting!Coarse
<1> QED
  BY <1>1, <1>2, <1>3, <1>4, <1>5, <1>6 DEF Tables

LEMMA TcpServerTables == ASSUME role = <<"server", "tcp">> PROVE Tables
<1> DEFINE default == Setting!TcpServerDefault  setters == Setting!TcpServerSetters
           presets == {}  validated == Setting!ServerValidated
           merged == Setting!TcpServerMerge
           imposed == {"nodelay", "keepalive"}
           forgotten == DOMAIN Setting!TcpServerDefault \ {"bind_address", "nodelay", "keepalive", "path",
                                   "cert_pem", "key_pem", "max_connections"}
           passed == {"none", "alike"}
<1>1. /\ Setting!Default = default /\ Setting!Setters = setters /\ Setting!Presets = presets
      /\ Setting!Validated = validated /\ Setting!Taken = merged
  BY DEF Setting!Default, Setting!Setters, Setting!Presets, Setting!Validated, Setting!Taken
<1>2. Setting!Imposed = imposed /\ Lost = passed
  BY DEF Setting!Imposed, Lost
<1>3. Setting!Forgotten = forgotten
  BY <1>1 DEF Setting!Forgotten, Setting!Fields
<1>4. FieldsMatch(default, setters, presets, validated, merged)
  BY DEF FieldsMatch, Setting!TcpServerDefault, Setting!TcpServerSetters, Setting!ServerValidated,
         Setting!TcpServerMerge
<1>5. ValuesMatch(default, setters, presets)
  BY DEF ValuesMatch, Setting!TcpServerDefault, Setting!TcpServerSetters, Setting!Values,
         Setting!Number, Setting!Counted, Setting!Option, Setting!Maybe, Setting!Some,
         Setting!Flag, Setting!Coarse
<1>6. MergeMatches(default, setters, merged, imposed, forgotten, passed)
  BY DEF MergeMatches, Setting!TcpServerDefault, Setting!TcpServerSetters, Setting!TcpServerMerge,
         Setting!Differing, Setting!Present,
         Setting!Number, Setting!Counted, Setting!Option, Setting!Maybe, Setting!Some,
         Setting!Flag, Setting!Coarse
<1> QED
  BY <1>1, <1>2, <1>3, <1>4, <1>5, <1>6 DEF Tables

LEMMA WebSocketServerTables == ASSUME role = <<"server", "websocket">> PROVE Tables
<1> DEFINE default == Setting!WebSocketServerDefault  setters == Setting!WebSocketServerSetters
           presets == {}  validated == Setting!ServerValidated
           merged == Setting!WebSocketServerMerge
           imposed == {"nodelay", "keepalive"}
           forgotten == DOMAIN Setting!WebSocketServerDefault \ {"bind_address", "nodelay", "keepalive", "path",
                                   "cert_pem", "key_pem", "subprotocols"}
           passed == {"none", "alike"}
<1>1. /\ Setting!Default = default /\ Setting!Setters = setters /\ Setting!Presets = presets
      /\ Setting!Validated = validated /\ Setting!Taken = merged
  BY DEF Setting!Default, Setting!Setters, Setting!Presets, Setting!Validated, Setting!Taken
<1>2. Setting!Imposed = imposed /\ Lost = passed
  BY DEF Setting!Imposed, Lost
<1>3. Setting!Forgotten = forgotten
  BY <1>1 DEF Setting!Forgotten, Setting!Fields
<1>4. FieldsMatch(default, setters, presets, validated, merged)
  BY DEF FieldsMatch, Setting!WebSocketServerDefault, Setting!WebSocketServerSetters, Setting!ServerValidated,
         Setting!WebSocketServerMerge
<1>5. ValuesMatch(default, setters, presets)
  BY DEF ValuesMatch, Setting!WebSocketServerDefault, Setting!WebSocketServerSetters, Setting!Values,
         Setting!Number, Setting!Counted, Setting!Option, Setting!Maybe, Setting!Some,
         Setting!Flag, Setting!Coarse
<1>6. MergeMatches(default, setters, merged, imposed, forgotten, passed)
  BY DEF MergeMatches, Setting!WebSocketServerDefault, Setting!WebSocketServerSetters, Setting!WebSocketServerMerge,
         Setting!Differing, Setting!Present,
         Setting!Number, Setting!Counted, Setting!Option, Setting!Maybe, Setting!Some,
         Setting!Flag, Setting!Coarse
<1> QED
  BY <1>1, <1>2, <1>3, <1>4, <1>5, <1>6 DEF Tables

LEMMA QuicServerTables == ASSUME role = <<"server", "quic">> PROVE Tables
<1> DEFINE default == Setting!QuicServerDefault  setters == Setting!QuicServerSetters
           presets == Setting!QuicServerInsecure  validated == Setting!ServerValidated
           merged == Setting!QuicServerMerge
           imposed == {"nodelay", "keepalive"}
           forgotten == DOMAIN Setting!QuicServerDefault \ {"bind_address", "nodelay", "keepalive", "path",
                                   "cert_pem", "key_pem"}
           passed == {"none", "alike"}
<1>1. /\ Setting!Default = default /\ Setting!Setters = setters /\ Setting!Presets = presets
      /\ Setting!Validated = validated /\ Setting!Taken = merged
  BY DEF Setting!Default, Setting!Setters, Setting!Presets, Setting!Validated, Setting!Taken
<1>2. Setting!Imposed = imposed /\ Lost = passed
  BY DEF Setting!Imposed, Lost
<1>3. Setting!Forgotten = forgotten
  BY <1>1 DEF Setting!Forgotten, Setting!Fields
<1>4. FieldsMatch(default, setters, presets, validated, merged)
  BY DEF FieldsMatch, Setting!QuicServerDefault, Setting!QuicServerSetters, Setting!ServerValidated,
         Setting!QuicServerMerge, Setting!QuicServerInsecure
<1>5. ValuesMatch(default, setters, presets)
  BY DEF ValuesMatch, Setting!QuicServerDefault, Setting!QuicServerSetters, Setting!QuicServerInsecure,
         Setting!Values, Setting!Number, Setting!Counted, Setting!Option, Setting!Maybe, Setting!Some,
         Setting!Flag, Setting!Coarse
<1>6. MergeMatches(default, setters, merged, imposed, forgotten, passed)
  BY DEF MergeMatches, Setting!QuicServerDefault, Setting!QuicServerSetters, Setting!QuicServerMerge,
         Setting!Differing, Setting!Present,
         Setting!Number, Setting!Counted, Setting!Option, Setting!Maybe, Setting!Some,
         Setting!Flag, Setting!Coarse
<1> QED
  BY <1>1, <1>2, <1>3, <1>4, <1>5, <1>6 DEF Tables

LEMMA EveryRole ==
  ASSUME ResourcesAssumption, role \in {"client", "server"} \X Protocols
  PROVE  Tables
<1>1. \/ role = <<"client", "tcp">> \/ role = <<"client", "websocket">> \/ role = <<"client", "quic">>
      \/ role = <<"server", "tcp">> \/ role = <<"server", "websocket">> \/ role = <<"server", "quic">>
  <2>1. /\ role = <<role[1], role[2]>>
        /\ role[1] \in {"client", "server"} /\ role[2] \in Protocols
    OBVIOUS
  <2>2. role[2] = "tcp" \/ role[2] = "websocket" \/ role[2] = "quic"
    BY <2>1 DEF ResourcesAssumption
  <2> QED
    BY <2>1, <2>2
<1> QED
  BY <1>1, TcpClientTables, WebSocketClientTables, QuicClientTables, TcpServerTables,
     WebSocketServerTables, QuicServerTables

-----------------------------------------------------------------------------
\* Everything about the tables that the steps use.
LEMMA TableFacts ==
  ASSUME Tables
  PROVE  /\ Setting!Default = [f \in Setting!Fields |-> Setting!Default[f]]
         /\ DOMAIN Setting!Default = Setting!Fields /\ Setting!Validated \subseteq Setting!Fields
         /\ \A f \in Setting!Fields : /\ Setting!Default[f] \in Setting!Values
                                      /\ Setting!Setters[f] \subseteq Setting!Values
         /\ \A p \in Setting!Presets : DOMAIN p \subseteq Setting!Fields
         /\ \A p \in Setting!Presets : \A f \in DOMAIN p :
              p[f] \in Setting!Setters[f] \cup {Setting!Default[f]}
         /\ Setting!Forgotten \cap DOMAIN Setting!Taken = {}
         /\ \A f \in Setting!Fields \ Setting!Forgotten :
              /\ f \in DOMAIN Setting!Taken
              /\ f \notin Setting!Imposed => Setting!Default[f] \notin Setting!Taken[f]
              /\ Setting!Setters[f] \cup {Setting!Default[f]} \subseteq
                   Setting!Taken[f] \cup Lost \cup (IF f \in Setting!Imposed THEN {} ELSE {"usual"})
BY DEF Tables, FieldsMatch, ValuesMatch, MergeMatches, Setting!Fields

(* What no call has chosen is the default, and what build returned passed   *)
(* validate.                                                                *)
SettingsInv ==
  /\ Setting!TypeOK
  /\ config \in [Setting!Sides -> [Setting!Fields -> Setting!Values]]
  /\ ~Setting!Merged =>
       \A s \in Setting!Sides :
         /\ s \in built => Setting!Valid(config[s])
         /\ \A f \in Setting!Fields \ chosen[s] : config[s][f] = Setting!Default[f]
  /\ Setting!ChoicesKept /\ Setting!MergedValid

SameTables ==
  /\ Setting!Default' = Setting!Default /\ Setting!Setters' = Setting!Setters
  /\ Setting!Fields' = Setting!Fields /\ Setting!Validated' = Setting!Validated
  /\ Setting!Imposed' = Setting!Imposed /\ Setting!Forgotten' = Setting!Forgotten

LEMMA RoleStays == ASSUME role' = role PROVE SameTables
BY DEF SameTables, Setting!Default, Setting!Setters, Setting!Fields, Setting!Validated, Setting!Imposed,
       Setting!Forgotten

LEMMA SettingsInitially == ASSUME ResourcesAssumption, Setting!Init PROVE SettingsInv
<1>1. PICK start \in [Setting!Sides -> Setting!Presets \cup {[f \in {} |-> "usual"]}] :
        /\ config = [s \in Setting!Sides |-> Setting!Override(Setting!Default, start[s])]
        /\ chosen = [s \in Setting!Sides |-> DOMAIN start[s]]
  BY DEF Setting!Init
<1>2. /\ role \in {"client", "server"} \X Protocols /\ built = {} /\ settingsStage = 0
      /\ intended = Setting!Default
  BY DEF Setting!Init
<1>3. Tables
  BY <1>2, EveryRole
<1>4. MaxChoices \in Nat
  BY DEF ResourcesAssumption
<1>5. ASSUME NEW s \in Setting!Sides
      PROVE  /\ DOMAIN start[s] \subseteq Setting!Fields
             /\ \A f \in DOMAIN start[s] : start[s][f] \in Setting!Setters[f] \cup {Setting!Default[f]}
  <2>1. CASE start[s] \in Setting!Presets
    BY <1>3, <2>1, TableFacts
  <2>2. CASE start[s] = [f \in {} |-> "usual"]
    BY <2>2
  <2> QED
    BY <1>1, <2>1, <2>2
<1>6. ASSUME NEW s \in Setting!Sides
      PROVE  /\ config[s] = [f \in Setting!Fields |->
                               IF f \in DOMAIN start[s] THEN start[s][f] ELSE Setting!Default[f]]
             /\ chosen[s] = DOMAIN start[s]
  <2>1. config[s] = Setting!Override(Setting!Default, start[s]) /\ chosen[s] = DOMAIN start[s]
    BY <1>1
  <2> QED
    BY <2>1 DEF Setting!Override, Setting!Fields
<1>7. ASSUME NEW s \in Setting!Sides, NEW f \in Setting!Fields
      PROVE  /\ config[s][f] \in Setting!Setters[f] \cup {Setting!Default[f]}
             /\ config[s][f] \in Setting!Values
             /\ f \notin chosen[s] => config[s][f] = Setting!Default[f]
  <2>1. config[s][f] = IF f \in DOMAIN start[s] THEN start[s][f] ELSE Setting!Default[f]
    <3>1. config[s] = [g \in Setting!Fields |->
                        IF g \in DOMAIN start[s] THEN start[s][g] ELSE Setting!Default[g]]
      BY <1>6, Zenon
    <3> QED
      BY <3>1, Zenon
  <2>2. config[s][f] \in Setting!Setters[f] \cup {Setting!Default[f]}
    BY <1>5, <2>1
  <2>3. Setting!Setters[f] \subseteq Setting!Values /\ Setting!Default[f] \in Setting!Values
    BY <1>3, TableFacts
  <2> QED
    BY <1>6, <2>1, <2>2, <2>3
<1>8. config \in [Setting!Sides -> [Setting!Fields -> Setting!Values]]
  <2>1. \A s \in Setting!Sides : config[s] \in [Setting!Fields -> Setting!Values]
    BY <1>6, <1>7
  <2> QED
    BY <1>1, <2>1
<1>9. Setting!Default \in [Setting!Fields -> Setting!Values]
  BY <1>3, TableFacts
<1>10. ~Setting!Merged
  BY <1>2, <1>4 DEF Setting!Merged
<1>11. Setting!TypeOK
  <2>1. chosen \in [Setting!Sides -> SUBSET Setting!Fields]
    BY <1>1, <1>5
  <2> QED
    BY <1>2, <1>4, <1>7, <1>9, <2>1 DEF Setting!TypeOK
<1> QED
  BY <1>2, <1>7, <1>8, <1>10, <1>11 DEF SettingsInv, Setting!ChoicesKept, Setting!MergedValid

LEMMA ChooseKeeps ==
  ASSUME ResourcesAssumption, SettingsInv, NEW s \in Setting!Sides, Setting!Choose(s)
  PROVE  SettingsInv'
<1> USE DEF SettingsInv
<1>0. PICK f \in Setting!Fields :
         \E v \in Setting!Setters[f] :
           /\ config' = [config EXCEPT ![s][f] = v]
           /\ chosen' = [chosen EXCEPT ![s] = chosen[s] \cup {f}]
  BY DEF Setting!Choose
<1>1. PICK v \in Setting!Setters[f] :
        /\ config' = [config EXCEPT ![s][f] = v]
        /\ chosen' = [chosen EXCEPT ![s] = chosen[s] \cup {f}]
  BY <1>0
<1>2. /\ settingsStage < MaxChoices /\ built' = built \ {s} /\ settingsStage' = settingsStage + 1
      /\ role' = role /\ intended' = intended
  BY DEF Setting!Choose
<1>3. /\ role \in {"client", "server"} \X Protocols /\ settingsStage \in 0..(MaxChoices + 1)
      /\ chosen \in [Setting!Sides -> SUBSET Setting!Fields] /\ built \subseteq Setting!Sides
      /\ intended \in [Setting!Fields -> Setting!Values]
      /\ config \in [Setting!Sides -> [Setting!Fields -> Setting!Values]]
      /\ \A r \in Setting!Sides : \A g \in Setting!Fields :
           config[r][g] \in Setting!Setters[g] \cup {Setting!Default[g]}
  BY DEF Setting!TypeOK
<1>4. Tables /\ MaxChoices \in Nat
  BY <1>3, EveryRole DEF ResourcesAssumption
<1>5. v \in Setting!Values
  BY <1>4, TableFacts
<1>6. /\ config' \in [Setting!Sides -> [Setting!Fields -> Setting!Values]]
      /\ config'[s][f] = v
      /\ \A g \in Setting!Fields \ {f} : config'[s][g] = config[s][g]
      /\ \A r \in Setting!Sides \ {s} : config'[r] = config[r]
  <2>1. config' = [config EXCEPT ![s] = [config[s] EXCEPT ![f] = v]]
    BY <1>1, <1>3
  <2>2. config[s] \in [Setting!Fields -> Setting!Values]
    BY <1>3
  <2> DEFINE c == [config[s] EXCEPT ![f] = v]
  <2>3. c \in [Setting!Fields -> Setting!Values] /\ c[f] = v
        /\ \A g \in Setting!Fields \ {f} : c[g] = config[s][g]
    BY <1>5, <2>2
  <2> HIDE DEF c
  <2>4. config' = [config EXCEPT ![s] = c]
    BY <2>1 DEF c
  <2> QED
    BY <1>3, <2>3, <2>4
<1>7. /\ chosen' \in [Setting!Sides -> SUBSET Setting!Fields] /\ chosen'[s] = chosen[s] \cup {f}
      /\ \A r \in Setting!Sides \ {s} : chosen'[r] = chosen[r]
  BY <1>1, <1>3
<1>8. ~Setting!Merged /\ ~Setting!Merged' /\ settingsStage' \in 0..(MaxChoices + 1)
  BY <1>2, <1>3, <1>4 DEF Setting!Merged
<1>9. SameTables
  BY <1>2, RoleStays
<1>10. Setting!TypeOK'
  <2>1. \A r \in Setting!Sides : \A g \in Setting!Fields :
          config'[r][g] \in Setting!Setters[g] \cup {Setting!Default[g]}
    BY <1>3, <1>6
  <2>2. \A r \in Setting!Sides : \A g \in Setting!Fields' :
          config'[r][g] \in Setting!Setters'[g] \cup {Setting!Default'[g]}
    BY <1>9, <2>1 DEF SameTables
  <2>3. chosen' \in [Setting!Sides -> SUBSET Setting!Fields'] /\ built' \subseteq Setting!Sides
        /\ intended' \in [Setting!Fields' -> Setting!Values]
    BY <1>2, <1>3, <1>7, <1>9 DEF SameTables
  <2> QED
    BY <1>2, <1>3, <1>8, <2>2, <2>3 DEF Setting!TypeOK, Setting!Sides, Setting!Values
<1>11. ASSUME NEW r \in Setting!Sides
       PROVE  /\ r \in built' => Setting!Valid(config[r])'
              /\ \A g \in Setting!Fields' \ chosen'[r] : config'[r][g] = Setting!Default'[g]
  <2>1. /\ r \in built => Setting!Valid(config[r])
        /\ \A g \in Setting!Fields \ chosen[r] : config[r][g] = Setting!Default[g]
    BY <1>8
  <2>2. \A g \in Setting!Fields \ chosen'[r] : config'[r][g] = Setting!Default[g]
    BY <1>6, <1>7, <2>1
  <2>3. r \in built' => Setting!Valid(config[r])'
    <3>1. r \in built' => r # s /\ config'[r] = config[r] /\ r \in built
      BY <1>2, <1>6
    <3> QED
      BY <1>9, <2>1, <3>1 DEF Setting!Valid, SameTables
  <2> QED
    BY <1>9, <2>2, <2>3 DEF SameTables
<1>12. Setting!ChoicesKept' /\ Setting!MergedValid'
  BY <1>8 DEF Setting!ChoicesKept, Setting!MergedValid
<1>13. config' \in [Setting!Sides -> [Setting!Fields' -> Setting!Values]]
  BY <1>6, <1>9 DEF SameTables
<1> QED
  BY <1>8, <1>10, <1>11, <1>12, <1>13 DEF Setting!Sides, Setting!Values

LEMMA BuildKeeps ==
  ASSUME ResourcesAssumption, SettingsInv, NEW s \in Setting!Sides, Setting!Build(s)
  PROVE  SettingsInv'
<1> USE DEF SettingsInv
<1>1. /\ settingsStage <= MaxChoices /\ Setting!Valid(config[s]) /\ built' = built \cup {s}
      /\ UNCHANGED <<role, config, chosen, settingsStage, intended>>
  BY DEF Setting!Build
<1>2. settingsStage \in 0..(MaxChoices + 1) /\ MaxChoices \in Nat
  BY DEF Setting!TypeOK, ResourcesAssumption
<1>3. ~Setting!Merged /\ ~Setting!Merged'
  BY <1>1, <1>2 DEF Setting!Merged
<1>4. SameTables
  BY <1>1, RoleStays
<1>5. Setting!TypeOK'
  BY <1>1, <1>4 DEF Setting!TypeOK, Setting!Sides, Setting!Values, SameTables
<1>6. config' \in [Setting!Sides -> [Setting!Fields' -> Setting!Values]]
  BY <1>1, <1>4 DEF SameTables
<1>7. ASSUME NEW r \in Setting!Sides
      PROVE  /\ r \in built' => Setting!Valid(config[r])'
             /\ \A g \in Setting!Fields' \ chosen'[r] : config'[r][g] = Setting!Default'[g]
  <2>1. r \in built' => Setting!Valid(config[r])
    BY <1>1, <1>3
  <2> QED
    BY <1>1, <1>3, <1>4, <2>1 DEF Setting!Valid, SameTables
<1>8. Setting!ChoicesKept' /\ Setting!MergedValid'
  BY <1>3 DEF Setting!ChoicesKept, Setting!MergedValid
<1> QED
  BY <1>3, <1>5, <1>6, <1>7, <1>8 DEF Setting!Sides, Setting!Values

\* A field of the upper config that merge takes had been chosen, or does not
\* differ in what counts; one that it does not take is told by its value.
LEMMA MergeKeeps ==
  ASSUME ResourcesAssumption, SettingsInv, Setting!Merge
  PROVE  SettingsInv'
<1> USE DEF SettingsInv
<1> DEFINE base == config["base"]  over == config["over"]
           took == {f \in DOMAIN Setting!Taken : over[f] \in Setting!Taken[f]}
           new == [f \in Setting!Fields |-> IF f \in took THEN over[f] ELSE base[f]]
<1>1. /\ settingsStage <= MaxChoices /\ settingsStage' = MaxChoices + 1
      /\ config' = [config EXCEPT !["base"] = new]
      /\ intended' = [f \in Setting!Fields |-> IF f \in chosen["over"] THEN over[f] ELSE base[f]]
      /\ UNCHANGED <<role, chosen, built>>
  BY DEF Setting!Merge
<1>2. /\ role \in {"client", "server"} \X Protocols /\ settingsStage \in 0..(MaxChoices + 1)
      /\ chosen \in [Setting!Sides -> SUBSET Setting!Fields] /\ built \subseteq Setting!Sides
      /\ config \in [Setting!Sides -> [Setting!Fields -> Setting!Values]]
      /\ \A r \in Setting!Sides : \A g \in Setting!Fields :
           config[r][g] \in Setting!Setters[g] \cup {Setting!Default[g]}
  BY DEF Setting!TypeOK
<1>3. Tables /\ MaxChoices \in Nat
  BY <1>2, EveryRole DEF ResourcesAssumption
<1>4. /\ base \in [Setting!Fields -> Setting!Values] /\ over \in [Setting!Fields -> Setting!Values]
      /\ "base" \in Setting!Sides /\ "over" \in Setting!Sides
      /\ \A r \in Setting!Sides : r = "base" \/ r = "over"
  BY <1>2 DEF Setting!Sides
<1>5. /\ new \in [Setting!Fields -> Setting!Values]
      /\ \A f \in Setting!Fields : new[f] = IF f \in took THEN over[f] ELSE base[f]
  BY <1>4
<1>6. /\ intended' \in [Setting!Fields -> Setting!Values]
      /\ \A f \in Setting!Fields : intended'[f] = IF f \in chosen["over"] THEN over[f] ELSE base[f]
  BY <1>1, <1>4
<1> HIDE DEF new
<1>7. /\ config' \in [Setting!Sides -> [Setting!Fields -> Setting!Values]]
      /\ config'["base"] = new /\ config'["over"] = over
  BY <1>1, <1>2, <1>4, <1>5
<1>8. SameTables
  BY <1>1, RoleStays
<1>9. ~Setting!Merged /\ Setting!Merged' /\ settingsStage' \in 0..(MaxChoices + 1)
  BY <1>1, <1>2, <1>3 DEF Setting!Merged
<1>10. Setting!TypeOK'
  <2>1. \A r \in Setting!Sides : \A g \in Setting!Fields :
          config'[r][g] \in Setting!Setters[g] \cup {Setting!Default[g]}
    <3>1. \A g \in Setting!Fields : new[g] \in Setting!Setters[g] \cup {Setting!Default[g]}
      BY <1>2, <1>4, <1>5
    <3> QED
      BY <1>2, <1>4, <1>7, <3>1
  <2>2. \A r \in Setting!Sides : \A g \in Setting!Fields' :
          config'[r][g] \in Setting!Setters'[g] \cup {Setting!Default'[g]}
    BY <1>8, <2>1 DEF SameTables
  <2>3. chosen' \in [Setting!Sides -> SUBSET Setting!Fields'] /\ built' \subseteq Setting!Sides
        /\ intended' \in [Setting!Fields' -> Setting!Values]
    BY <1>1, <1>2, <1>6, <1>8 DEF SameTables
  <2> QED
    BY <1>1, <1>2, <1>9, <2>2, <2>3 DEF Setting!TypeOK, Setting!Sides, Setting!Values
<1>11. ASSUME NEW f \in Setting!Fields
       PROVE  \/ new[f] = intended'[f]
              \/ /\ f \in chosen["over"]
                 /\ \/ over[f] \in Lost \/ (over[f] = "usual" /\ f \notin Setting!Imposed)
                    \/ f \in Setting!Forgotten
              \/ f \in Setting!Imposed \ chosen["over"]
  <2>1. f \notin chosen["over"] => over[f] = Setting!Default[f]
    BY <1>4, <1>9
  <2>2. CASE f \in Setting!Forgotten
    <3>1. f \notin took
      BY <1>3, <2>2, TableFacts
    <3> QED
      BY <1>5, <1>6, <2>2, <3>1
  <2>3. CASE f \notin Setting!Forgotten
    <3>1. /\ f \in DOMAIN Setting!Taken
          /\ f \notin Setting!Imposed => Setting!Default[f] \notin Setting!Taken[f]
          /\ Setting!Setters[f] \cup {Setting!Default[f]} \subseteq
               Setting!Taken[f] \cup Lost \cup (IF f \in Setting!Imposed THEN {} ELSE {"usual"})
      BY <1>3, <2>3, TableFacts
    <3>2. CASE f \in took
      BY <1>5, <1>6, <2>1, <3>1, <3>2
    <3>3. CASE f \notin took
      <4>1. over[f] \notin Setting!Taken[f] /\ over[f] \in Setting!Setters[f] \cup {Setting!Default[f]}
        BY <1>2, <1>4, <3>1, <3>3
      <4>2. over[f] \in Lost \/ (over[f] = "usual" /\ f \notin Setting!Imposed)
        BY <3>1, <4>1
      <4> QED
        BY <1>5, <1>6, <3>3, <4>2
    <3> QED
      BY <3>2, <3>3
  <2> QED
    BY <2>2, <2>3
<1>12. Setting!ChoicesKept'
  <2>1. ASSUME NEW f \in Setting!Fields'
        PROVE  \/ config'["base"][f] = intended'[f] \/ Setting!PassedOver(f)'
               \/ f \in Setting!Imposed' \ chosen'["over"]
    <3>1. f \in Setting!Fields /\ Setting!Imposed' = Setting!Imposed
          /\ Setting!Forgotten' = Setting!Forgotten
      BY <1>8, <2>1 DEF SameTables
    <3>2. ASSUME f \in chosen["over"],
                 \/ over[f] \in Lost \/ (over[f] = "usual" /\ f \notin Setting!Imposed)
                 \/ f \in Setting!Forgotten
          PROVE  Setting!PassedOver(f)'
      BY <1>1, <1>7, <3>1, <3>2 DEF Setting!PassedOver, Lost
    <3> QED
      BY <1>1, <1>7, <1>11, <3>1, <3>2
  <2> QED
    BY <2>1 DEF Setting!ChoicesKept
<1>13. Setting!MergedValid'
  <2>1. ASSUME built' = Setting!Sides PROVE Setting!Valid(config["base"])'
    <3>1. Setting!Valid(base) /\ Setting!Valid(over)
      BY <1>1, <1>4, <1>9, <2>1
    <3>2. Setting!Validated \subseteq Setting!Fields
      BY <1>3, TableFacts
    <3>3. \A f \in Setting!Validated : new[f] # "bad"
      BY <1>5, <3>1, <3>2 DEF Setting!Valid
    <3> QED
      BY <1>7, <1>8, <3>3 DEF Setting!Valid, SameTables
  <2> QED
    BY <2>1 DEF Setting!MergedValid, Setting!Sides
<1>14. config' \in [Setting!Sides -> [Setting!Fields' -> Setting!Values]]
  BY <1>7, <1>8 DEF SameTables
<1> QED
  BY <1>9, <1>10, <1>12, <1>13, <1>14 DEF Setting!Sides, Setting!Values

LEMMA SettingsKept == ASSUME ResourcesAssumption, SettingsInv, Setting!Next PROVE SettingsInv'
BY ChooseKeeps, BuildKeeps, MergeKeeps DEF Setting!Next

LEMMA SettingsStay == ASSUME SettingsInv, UNCHANGED settingsVars PROVE SettingsInv'
<1>1. UNCHANGED <<role, config, chosen, built, settingsStage, intended>>
  BY DEF settingsVars
<1>2. SameTables
  BY <1>1, RoleStays
<1>3. Setting!TypeOK' /\ config' \in [Setting!Sides -> [Setting!Fields' -> Setting!Values]]
  BY <1>1, <1>2 DEF SettingsInv, Setting!TypeOK, Setting!Sides, Setting!Values, SameTables
<1>4. Setting!ChoicesKept' /\ Setting!MergedValid'
  BY <1>1, <1>2 DEF SettingsInv, Setting!ChoicesKept, Setting!MergedValid, Setting!Merged, Setting!PassedOver,
                    Setting!Valid, Setting!Sides, SameTables
<1>5. ~Setting!Merged' =>
        \A s \in Setting!Sides :
          /\ s \in built' => Setting!Valid(config[s])'
          /\ \A f \in Setting!Fields' \ chosen'[s] : config'[s][f] = Setting!Default'[f]
  BY <1>1, <1>2 DEF SettingsInv, Setting!Merged, Setting!Valid, SameTables
<1> QED
  BY <1>3, <1>4, <1>5 DEF SettingsInv, Setting!Sides, Setting!Values
-----------------------------------------------------------------------------
(* PacketCodec                                                             *)

WireHeaders == [version : {1}, compression : {0, 1, 2}, packet_type : {0, 1, 2},
                ext_header_len : 0..(LengthRange - 1), payload_len : 0..(PayloadRange - 1)]
Headers == [version : {1}, compression : DOMAIN Codec!CompressionByte,
            packet_type : DOMAIN Codec!PacketTypeByte,
            ext_header_len : 0..(LengthRange - 1), payload_len : 0..(PayloadRange - 1)]
Units == Bytes \cup (Codec!Algorithms \X Payloads) \cup WireHeaders

LEMMA CodesDecoded ==
  /\ DOMAIN Codec!CompressionByte = {"none", "zstd", "zlib"}
  /\ DOMAIN Codec!PacketTypeByte = {"OneWay", "Request", "Response"}
  /\ \A c \in {"none", "zstd", "zlib"} : /\ Codec!CompressionByte[c] \in {0, 1, 2}
                                        /\ Codec!CompressionFrom(Codec!CompressionByte[c]) = c
  /\ \A t \in {"OneWay", "Request", "Response"} : /\ Codec!PacketTypeByte[t] \in {0, 1, 2}
                                                 /\ Codec!PacketTypeFrom(Codec!PacketTypeByte[t]) = t
<1>1. /\ DOMAIN Codec!CompressionByte = {"none", "zstd", "zlib"}
      /\ Codec!CompressionByte["none"] = 0 /\ Codec!CompressionByte["zstd"] = 1
      /\ Codec!CompressionByte["zlib"] = 2
  BY DEF Codec!CompressionByte
<1>2. /\ DOMAIN Codec!PacketTypeByte = {"OneWay", "Request", "Response"}
      /\ Codec!PacketTypeByte["OneWay"] = 0 /\ Codec!PacketTypeByte["Request"] = 1
      /\ Codec!PacketTypeByte["Response"] = 2
  BY DEF Codec!PacketTypeByte
<1>3. 0 # 1 /\ 0 # 2 /\ 1 # 2
  OBVIOUS
<1>4. /\ Codec!CompressionFrom(0) = "none" /\ Codec!CompressionFrom(1) = "zstd"
      /\ Codec!CompressionFrom(2) = "zlib"
  BY <1>3 DEF Codec!CompressionFrom
<1>5. /\ Codec!PacketTypeFrom(0) = "OneWay" /\ Codec!PacketTypeFrom(1) = "Request"
      /\ Codec!PacketTypeFrom(2) = "Response"
  BY <1>3 DEF Codec!PacketTypeFrom
<1> QED
  BY <1>1, <1>2, <1>4, <1>5

LEMMA HeaderDecoded ==
  ASSUME NEW h \in Headers
  PROVE  /\ Codec!HeaderToBytes(h) \in WireHeaders
         /\ Codec!HeaderToBytes(h).ext_header_len = h.ext_header_len
         /\ Codec!HeaderToBytes(h).payload_len = h.payload_len
         /\ Codec!HeaderFromBytes(Codec!HeaderToBytes(h)) = h
<1> DEFINE c == Codec!CompressionByte[h.compression]  t == Codec!PacketTypeByte[h.packet_type]
           b == [h EXCEPT !.compression = c, !.packet_type = t]
<1>1. Codec!HeaderToBytes(h) = b
  BY DEF Codec!HeaderToBytes
<1>2. /\ c \in {0, 1, 2} /\ Codec!CompressionFrom(c) = h.compression
      /\ t \in {0, 1, 2} /\ Codec!PacketTypeFrom(t) = h.packet_type
  BY CodesDecoded DEF Headers
<1> HIDE DEF c, t
<1>3. /\ b \in WireHeaders /\ b.ext_header_len = h.ext_header_len /\ b.payload_len = h.payload_len
      /\ b.compression = c /\ b.packet_type = t
  BY <1>2 DEF Headers, WireHeaders
<1>4. [b EXCEPT !.compression = h.compression, !.packet_type = h.packet_type] = h
  BY DEF Headers
<1> HIDE DEF b
<1>5. Codec!HeaderFromBytes(b) = h
  BY <1>2, <1>3, <1>4 DEF Codec!HeaderFromBytes
<1> QED
  BY <1>1, <1>3, <1>5

(* What every parser makes of b: nothing, or what the lengths say.          *)
Cut(b, from, len) == SubSeq(b, from, (from - 1) + len)
Parsed(b) ==
  IF b = <<>> \/ Len(b) < 1 + b[1].ext_header_len + b[1].payload_len THEN Refused
  ELSE [header |-> Codec!HeaderFromBytes(b[1]), ext_header |-> Cut(b, 2, b[1].ext_header_len),
        payload |-> Cut(b, 2 + b[1].ext_header_len, b[1].payload_len)]

TailIsCut(b, i, len) == SubSeq(Tail(b), i, (i - 1) + len) = Cut(b, i + 1, len)
LEMMA TailCut ==
  ASSUME NEW S, NEW b \in Seq(S), b # <<>>, NEW i \in Nat \ {0}, NEW len \in Nat,
         (i - 1) + len <= Len(b) - 1
  PROVE  TailIsCut(b, i, len)
<1> DEFINE t == Tail(b)  n == Len(b)  m == (i - 1) + len
           s == SubSeq(t, i, m)  u == SubSeq(b, i + 1, m + 1)
<1>1. n \in Nat /\ t \in Seq(S) /\ Len(t) = n - 1 /\ \A j \in 1..Len(t) : t[j] = b[j + 1]
  BY HeadTailProperties
<1>2. m \in Nat /\ m <= Len(t) /\ i <= m + 1
  BY <1>1
<1> HIDE DEF t, n, m
<1>3. /\ s \in Seq(S) /\ Len(s) = IF i <= m THEN m - i + 1 ELSE 0
      /\ \A j \in 1..(m - i + 1) : s[j] = t[i + j - 1]
  BY <1>1, <1>2, SubSeqProperties
<1>4. /\ u \in Seq(S) /\ Len(u) = IF i + 1 <= m + 1 THEN (m + 1) - (i + 1) + 1 ELSE 0
      /\ \A j \in 1..((m + 1) - (i + 1) + 1) : u[j] = b[(i + 1) + j - 1]
  <2>1. i + 1 \in Nat /\ m + 1 \in Nat /\ m + 1 <= Len(b) /\ i + 1 >= 1
    BY <1>1, <1>2 DEF n
  <2> QED
    BY <2>1, SubSeqProperties
<1> HIDE DEF s, u
<1>5. Len(s) = Len(u)
  BY <1>2, <1>3, <1>4
<1>6. ASSUME NEW j \in 1..Len(s) PROVE s[j] = u[j]
  <2>1. j \in 1..(m - i + 1) /\ j \in 1..((m + 1) - (i + 1) + 1) /\ i + j - 1 \in 1..Len(t)
    BY <1>1, <1>2, <1>3
  <2>2. s[j] = b[(i + j - 1) + 1] /\ u[j] = b[(i + 1) + j - 1]
    BY <1>1, <1>3, <1>4, <2>1
  <2>3. (i + j - 1) + 1 = (i + 1) + j - 1
    BY <2>1
  <2> QED
    BY <2>2, <2>3
<1>7. s = u
  BY <1>3, <1>4, <1>5, <1>6, SeqEqual
<1>8. (i + 1 - 1) + len = m + 1
  BY DEF m
<1> QED
  BY <1>7, <1>8 DEF TailIsCut, Cut, s, u, t, m

LEMMA CutTo ==
  \A b, from, start, len, to :
    (from = start /\ (from - 1) + len = to) => Cut(b, from, len) = SubSeq(b, start, to)
BY DEF Cut

\* The three parsers agree.
LEMMA ParsersAgree ==
  ASSUME NEW b \in Seq(Units), b # <<>> => b[1] \in WireHeaders, LengthRange \in Nat \ {0},
         PayloadRange \in Nat \ {0}
  PROVE  /\ Codec!FromBytes(b) = Parsed(b) /\ Codec!FromBytesZeroCopy(b) = Parsed(b)
         /\ Codec!SharedFromBytes(b) = Parsed(b)
<1>1. CASE b = <<>>
  BY <1>1 DEF Codec!FromBytes, Codec!FromBytesZeroCopy, Codec!SharedFromBytes, Parsed
<1>2. CASE b # <<>>
  <2> DEFINE h == b[1]  x == h.ext_header_len  y == h.payload_len  n == Len(b)
  <2>1. h.version = 1 /\ x \in Nat /\ y \in Nat
    BY <1>2 DEF WireHeaders
  <2>2. Head(b) = h /\ n \in Nat /\ n # 0 /\ Len(Tail(b)) = n - 1
    <3>1. n \in Nat /\ n # 0
      BY <1>2, EmptySeq
    <3> QED
      BY <1>2, <3>1, HeadTailProperties
  <2> HIDE DEF h, x, y, n
  <2>3. Parsed(b) = IF n < 1 + x + y THEN Refused
                    ELSE [header |-> Codec!HeaderFromBytes(h), ext_header |-> Cut(b, 2, x),
                          payload |-> Cut(b, 2 + x, y)]
    BY <1>2 DEF Parsed, h, x, y, n
  <2>4. Codec!FromBytes(b) = Parsed(b)
    <3>1. Codec!FromBytes(b)
            = IF h.version # 1 \/ Len(Tail(b)) < x + y THEN Refused
              ELSE [header |-> Codec!HeaderFromBytes(h), ext_header |-> SubSeq(Tail(b), 1, x),
                    payload |-> SubSeq(Tail(b), x + 1, x + y)]
      BY <1>2, <2>2 DEF Codec!FromBytes, Codec!Parse, x, y
    <3>2. Len(Tail(b)) < x + y <=> n < 1 + x + y
      BY <2>1, <2>2
    <3>3. ASSUME ~(n < 1 + x + y)
          PROVE  SubSeq(Tail(b), 1, x) = Cut(b, 2, x) /\ SubSeq(Tail(b), x + 1, x + y) = Cut(b, 2 + x, y)
      <4>1. SubSeq(Tail(b), 1, x) = Cut(b, 2, x)
        <5> DEFINE i == 1
        <5>1. i \in Nat \ {0} /\ x = (i - 1) + x /\ (i - 1) + x <= Len(b) - 1 /\ 2 = i + 1
          BY <2>1, <2>2, <3>3 DEF n
        <5> HIDE DEF i
        <5>2. TailIsCut(b, i, x)
          BY <1>2, <2>1, <5>1, TailCut
        <5>3. SubSeq(Tail(b), i, x) = Cut(b, 2, x)
          BY <5>1, <5>2 DEF TailIsCut
        <5> QED
          BY <5>3 DEF i
      <4>2. SubSeq(Tail(b), x + 1, x + y) = Cut(b, 2 + x, y)
        <5> DEFINE i == x + 1
        <5>1. i \in Nat \ {0} /\ x + y = (i - 1) + y /\ (i - 1) + y <= Len(b) - 1 /\ 2 + x = i + 1
          BY <2>1, <2>2, <3>3 DEF n
        <5> HIDE DEF i
        <5>2. TailIsCut(b, i, y)
          BY <1>2, <2>1, <5>1, TailCut
        <5>3. SubSeq(Tail(b), i, x + y) = Cut(b, 2 + x, y)
          BY <5>1, <5>2 DEF TailIsCut
        <5> QED
          BY <5>3 DEF i
      <4> QED
        BY <4>1, <4>2
    <3> QED
      BY <2>1, <2>3, <3>1, <3>2, <3>3
  <2>5. Codec!FromBytesZeroCopy(b) = Parsed(b)
    <3>1. Cut(b, 2, x) = SubSeq(b, 2, x + 1)
      <4>1. (2 - 1) + x = x + 1
        BY <2>1
      <4> QED
        BY <4>1, CutTo
    <3>2. Cut(b, 2 + x, y) = SubSeq(b, x + 2, x + y + 1)
      <4> DEFINE from == 2 + x  start == x + 2  to == x + y + 1
      <4>1. from = start /\ (from - 1) + y = to
        BY <2>1
      <4> HIDE DEF from, start, to
      <4>2. Cut(b, from, y) = SubSeq(b, start, to)
        BY <4>1, CutTo
      <4> QED
        BY <4>2 DEF from, start, to
    <3>3. Codec!FromBytesZeroCopy(b)
            = IF n < 1 + x + y THEN Refused
              ELSE [header |-> Codec!HeaderFromBytes(h), ext_header |-> SubSeq(b, 2, x + 1),
                    payload |-> SubSeq(b, x + 2, x + y + 1)]
      BY <1>2 DEF Codec!FromBytesZeroCopy, h, x, y, n
    <3> DEFINE e == Cut(b, 2, x)  d == Cut(b, 2 + x, y)  g == Codec!HeaderFromBytes(h)
    <3>4. Parsed(b) = IF n < 1 + x + y THEN Refused
                      ELSE [header |-> g, ext_header |-> e, payload |-> d]
      BY <2>3
    <3>5. Codec!FromBytesZeroCopy(b) = IF n < 1 + x + y THEN Refused
                      ELSE [header |-> g, ext_header |-> e, payload |-> d]
      BY <3>1, <3>2, <3>3
    <3> QED
      BY <3>4, <3>5
  <2>6. Codec!SharedFromBytes(b) = Parsed(b)
    <3>1. Cut(b, 2, x) = SubSeq(b, 2, 1 + x)
      <4>1. (2 - 1) + x = 1 + x
        BY <2>1
      <4> QED
        BY <4>1, CutTo
    <3>2. Cut(b, 2 + x, y) = SubSeq(b, (1 + x) + 1, (1 + x) + y)
      <4> DEFINE from == 2 + x  start == (1 + x) + 1  to == (1 + x) + y
      <4>1. from = start /\ (from - 1) + y = to
        BY <2>1
      <4> HIDE DEF from, start, to
      <4>2. Cut(b, from, y) = SubSeq(b, start, to)
        BY <4>1, CutTo
      <4> QED
        BY <4>2 DEF from, start, to
    <3>3. Codec!SharedFromBytes(b)
            = IF n < (1 + x) + y THEN Refused
              ELSE [header |-> Codec!HeaderFromBytes(h), ext_header |-> SubSeq(b, 2, 1 + x),
                    payload |-> SubSeq(b, (1 + x) + 1, (1 + x) + y)]
      BY <1>2, <2>2 DEF Codec!SharedFromBytes, x, y, n
    <3>a. 1 + x + y = (1 + x) + y
      OBVIOUS
    <3> DEFINE e == Cut(b, 2, x)  d == Cut(b, 2 + x, y)  g == Codec!HeaderFromBytes(h)
    <3>4. Parsed(b) = IF n < 1 + x + y THEN Refused
                      ELSE [header |-> g, ext_header |-> e, payload |-> d]
      BY <2>3
    <3>5. Codec!SharedFromBytes(b) = IF n < 1 + x + y THEN Refused
                      ELSE [header |-> g, ext_header |-> e, payload |-> d]
      BY <3>1, <3>2, <3>3, <3>a
    <3> QED
      BY <3>4, <3>5
  <2> QED
    BY <2>4, <2>5, <2>6
<1> QED
  BY <1>1, <1>2

\* A packet that was parsed is as long as its header says.
LEMMA ParsedLengths ==
  ASSUME NEW b \in Seq(Units), b # <<>> => b[1] \in WireHeaders, LengthRange \in Nat \ {0},
         PayloadRange \in Nat \ {0},
         Parsed(b) # Refused
  PROVE  /\ Len(Parsed(b).ext_header) < LengthRange /\ Len(Parsed(b).payload) < PayloadRange
         /\ Len(Parsed(b).payload) = Parsed(b).header.payload_len
<1> DEFINE h == b[1]  x == h.ext_header_len  y == h.payload_len  n == Len(b)
<1>1. /\ b # <<>> /\ ~(n < 1 + x + y)
      /\ Parsed(b) = [header |-> Codec!HeaderFromBytes(h), ext_header |-> Cut(b, 2, x),
                      payload |-> Cut(b, 2 + x, y)]
  BY DEF Parsed
<1>2. h \in WireHeaders
  BY <1>1
<1>3. x \in Nat /\ x < LengthRange /\ y \in Nat /\ y < PayloadRange /\ n \in Nat
  BY <1>2 DEF WireHeaders
<1>4. Codec!HeaderFromBytes(h).payload_len = y
  BY <1>2 DEF Codec!HeaderFromBytes, WireHeaders
<1> HIDE DEF h, x, y, n
<1>5. Len(Cut(b, 2, x)) = x
  <2>1. 2 \in Nat /\ (2 - 1) + x \in Nat /\ 2 >= 1 /\ (2 - 1) + x <= Len(b)
    BY <1>1, <1>3 DEF n
  <2>2. Len(SubSeq(b, 2, (2 - 1) + x)) = IF 2 <= (2 - 1) + x THEN ((2 - 1) + x) - 2 + 1 ELSE 0
    BY <2>1, SubSeqProperties
  <2> QED
    BY <1>3, <2>2 DEF Cut
<1>6. Len(Cut(b, 2 + x, y)) = y
  <2>1. 2 + x \in Nat /\ (2 + x - 1) + y \in Nat /\ 2 + x >= 1 /\ (2 + x - 1) + y <= Len(b)
    BY <1>1, <1>3 DEF n
  <2>2. Len(SubSeq(b, 2 + x, (2 + x - 1) + y))
          = IF 2 + x <= (2 + x - 1) + y THEN ((2 + x - 1) + y) - (2 + x) + 1 ELSE 0
    BY <2>1, SubSeqProperties
  <2> QED
    BY <1>3, <2>2 DEF Cut
<1> QED
  BY <1>1, <1>3, <1>4, <1>5, <1>6
\* What lies k behind the start of w, if it is e.
LEMMA CutIs ==
  ASSUME NEW S, NEW w \in Seq(S), NEW e \in Seq(S), NEW k \in Nat, NEW from, from = k + 1,
         k + Len(e) <= Len(w), \A i \in 1..Len(e) : w[k + i] = e[i]
  PROVE  Cut(w, from, Len(e)) = e
<1> DEFINE n == Len(e)  start == k + 1  to == k + n  c == SubSeq(w, start, to)
<1>1. n \in Nat /\ start \in Nat /\ to \in Nat /\ Len(w) \in Nat
  OBVIOUS
<1>2. from = start /\ (from - 1) + n = to
  BY <1>1
<1>3. \A i \in start..to : w[i] \in S
  <2>1. \A i \in start..to : i \in 1..Len(w)
    BY <1>1
  <2> QED
    BY <2>1, ElementOfSeq
<1>4. /\ c \in Seq(S) /\ Len(c) = IF start <= to THEN to - start + 1 ELSE 0
      /\ \A i \in 1..(to - start + 1) : c[i] = w[start + i - 1]
  BY <1>1, <1>3, SubSeqProperties
<1> HIDE DEF c
<1>5. Len(c) = n
  BY <1>1, <1>4
<1>6. ASSUME NEW i \in 1..Len(c) PROVE c[i] = e[i]
  <2>1. i \in 1..(to - start + 1) /\ i \in 1..n /\ start + i - 1 = k + i
    BY <1>1, <1>5
  <2>2. c[i] = w[k + i] /\ w[k + i] = e[i]
    BY <1>4, <2>1
  <2> QED
    BY <2>2
<1>7. c = e
  BY <1>4, <1>5, <1>6, SeqEqual
<1> HIDE DEF n, start, to
<1>8. Cut(w, from, n) = SubSeq(w, start, to)
  BY <1>2, CutTo
<1> QED
  BY <1>7, <1>8 DEF c, n

Pieces(w, h, e, d) ==
  /\ w \in Seq(Units) /\ Len(w) = 1 + Len(e) + Len(d) /\ w # <<>> /\ w[1] = h
  /\ Cut(w, 2, Len(e)) = e /\ Cut(w, 2 + Len(e), Len(d)) = d

LEMMA PiecesOfBytes ==
  ASSUME NEW h \in Units, NEW e \in Seq(Units), NEW d \in Seq(Units)
  PROVE  Pieces((<<h>> \o e) \o d, h, e, d)
<1> DEFINE a == <<h>> \o e  w == a \o d  m == Len(e)  n == Len(d)
<1>1. /\ <<h>> \in Seq(Units) /\ Len(<<h>>) = 1 /\ <<h>>[1] = h /\ m \in Nat /\ n \in Nat
  OBVIOUS
<1>2. /\ a \in Seq(Units) /\ Len(a) = 1 + m
      /\ \A i \in 1..(1 + m) : a[i] = IF i <= 1 THEN <<h>>[i] ELSE e[i - 1]
  BY <1>1, ConcatProperties
<1> HIDE DEF a
<1>3. /\ w \in Seq(Units) /\ Len(w) = (1 + m) + n
      /\ \A i \in 1..((1 + m) + n) : w[i] = IF i <= 1 + m THEN a[i] ELSE d[i - (1 + m)]
  <2>1. /\ w \in Seq(Units) /\ Len(w) = Len(a) + n
        /\ \A i \in 1..(Len(a) + n) : w[i] = IF i <= Len(a) THEN a[i] ELSE d[i - Len(a)]
    BY <1>2, ConcatProperties
  <2> HIDE DEF w, n, m
  <2> QED
    BY <1>2, <2>1
<1> HIDE DEF w
<1>4. w # <<>>
  BY <1>1, <1>3, EmptySeq
<1>5. w[1] = h
  <2>1. 1 \in 1..((1 + m) + n) /\ 1 <= 1 + m /\ 1 \in 1..(1 + m)
    BY <1>1
  <2> QED
    BY <1>1, <1>2, <1>3, <2>1
<1>6. Cut(w, 2, m) = e
  <2>1. \A i \in 1..m : w[1 + i] = e[i]
    <3> TAKE i \in 1..m
    <3>1. /\ 1 + i \in 1..((1 + m) + n) /\ 1 + i <= 1 + m /\ 1 + i \in 1..(1 + m)
          /\ ~(1 + i <= 1) /\ (1 + i) - 1 = i
      BY <1>1
    <3> DEFINE j == 1 + i
    <3> HIDE DEF j
    <3>2. w[j] = a[j] /\ a[j] = e[j - 1] /\ j - 1 = i
      BY <1>2, <1>3, <3>1 DEF j
    <3> QED
      BY <3>2 DEF j
  <2>2. 2 = 1 + 1 /\ 1 \in Nat /\ 1 + m <= Len(w)
    BY <1>1, <1>3
  <2> QED
    BY <1>3, <2>1, <2>2, CutIs
<1>7. Cut(w, 2 + m, n) = d
  <2> DEFINE k == 1 + m
  <2>1. \A i \in 1..n : w[k + i] = d[i]
    <3> TAKE i \in 1..n
    <3>1. /\ k + i \in 1..((1 + m) + n) /\ ~(k + i <= 1 + m) /\ (k + i) - (1 + m) = i
      BY <1>1
    <3> DEFINE j == k + i
    <3> HIDE DEF j
    <3>2. w[j] = d[j - (1 + m)] /\ j - (1 + m) = i
      BY <1>3, <3>1 DEF j
    <3> QED
      BY <3>2 DEF j
  <2>2. 2 + m = k + 1 /\ k \in Nat /\ k + n <= Len(w)
    BY <1>1, <1>3
  <2> HIDE DEF k
  <2> DEFINE from == 2 + m
  <2>3. from = k + 1
    BY <2>2
  <2> HIDE DEF from
  <2>4. Cut(w, from, n) = d
    BY <1>3, <2>1, <2>2, <2>3, CutIs
  <2> QED
    BY <2>4 DEF from
<1> QED
  BY <1>3, <1>4, <1>5, <1>6, <1>7 DEF Pieces, w, a
LEMMA SmallMod ==
  \A x \in Nat, m \in Nat \ {0} : x < m => x % m = x
  OBVIOUS

(* The packets that a sender builds: the lengths in the header are those of *)
(* the data as far as their fields hold them.                               *)
Packets ==
  {p \in [header : Headers, ext_header : ExtHeaders, payload : Codec!Data] :
     /\ p.header.ext_header_len = Len(p.ext_header) % LengthRange
     /\ p.header.payload_len = Len(p.payload) % PayloadRange}

WireOf(p, w) ==
  Pieces(w, Codec!HeaderToBytes(p.header), p.ext_header, p.payload)

LEMMA DataUnits ==
  ASSUME CodecAssumption
  PROVE  /\ ExtHeaders \subseteq Seq(Units) /\ Codec!Data \subseteq Seq(Units)
         /\ Payloads \subseteq Codec!Data
         /\ \A a \in Codec!Algorithms, d \in Payloads : /\ Codec!Compressed(a, d) \in Codec!Data
                                                       /\ Len(Codec!Compressed(a, d)) = 1
<1>1. Bytes \subseteq Units /\ Codec!Algorithms \X Payloads \subseteq Units
  BY DEF Units
<1>2. Seq(Bytes) \subseteq Seq(Units)
  <2> SUFFICES ASSUME NEW s \in Seq(Bytes) PROVE s \in Seq(Units)
    OBVIOUS
  <2>1. Len(s) \in Nat /\ s \in [1..Len(s) -> Bytes]
    BY LenProperties
  <2>2. s \in [1..Len(s) -> Units]
    BY <1>1, <2>1
  <2> QED
    BY <2>1, <2>2, SeqDef
<1>3. \A a \in Codec!Algorithms, d \in Payloads : /\ Codec!Compressed(a, d) \in Seq(Units)
                                                 /\ Len(Codec!Compressed(a, d)) = 1
  <2> SUFFICES ASSUME NEW a \in Codec!Algorithms, NEW d \in Payloads
               PROVE  Codec!Compressed(a, d) \in Seq(Units) /\ Len(Codec!Compressed(a, d)) = 1
    OBVIOUS
  <2> DEFINE u == <<a, d>>
  <2>1. u \in Units
    BY <1>1
  <2>2. Codec!Compressed(a, d) = <<u>>
    BY DEF Codec!Compressed
  <2> HIDE DEF u
  <2>3. <<u>> \in Seq(Units) /\ Len(<<u>>) = 1
    BY <2>1
  <2> QED
    BY <2>2, <2>3
<1> QED
  BY <1>2, <1>3 DEF CodecAssumption, Codec!Data

\* The three ways to write a packet write the same.
LEMMA WritersAgree ==
  ASSUME CodecAssumption, NEW p \in Packets
  PROVE  /\ WireOf(p, Codec!ToBytes(p))
         /\ Codec!ToBytesZeroCopy(p) = Codec!ToBytes(p) /\ Codec!SharedToBytes(p) = Codec!ToBytes(p)
<1> DEFINE h == Codec!HeaderToBytes(p.header)  e == p.ext_header  d == p.payload
<1>1. e \in Seq(Units) /\ d \in Seq(Units)
  BY DataUnits DEF Packets
<1>2. h \in Units
  <2>1. p.header \in Headers
    BY DEF Packets
  <2> QED
    BY <2>1, HeaderDecoded DEF Units
<1>3. /\ Codec!ToBytes(p) = (<<h>> \o e) \o d /\ Codec!SharedToBytes(p) = (<<h>> \o e) \o d
      /\ Codec!ToBytesZeroCopy(p) = <<h>> \o (e \o d)
  BY DEF Codec!ToBytes, Codec!SharedToBytes, Codec!ToBytesZeroCopy
<1> HIDE DEF h, e, d
<1>4. (<<h>> \o e) \o d = <<h>> \o (e \o d)
  <2>1. <<h>> \in Seq(Units)
    BY <1>2
  <2> QED
    BY <1>1, <2>1, ConcatAssociative
<1>5. Pieces((<<h>> \o e) \o d, h, e, d)
  BY <1>1, <1>2, PiecesOfBytes
<1> QED
  BY <1>3, <1>4, <1>5 DEF WireOf, h, e, d

\* What is parsed of a packet, or of the start of one, begins with a header.
LEMMA WireStarts ==
  ASSUME CodecAssumption, NEW p \in Packets, NEW w, WireOf(p, w)
  PROVE  /\ w \in Seq(Units) /\ w # <<>> /\ w[1] \in WireHeaders /\ Len(w) \in Nat
         /\ \A n \in 0..(Len(w) - 1) : /\ SubSeq(w, 1, n) \in Seq(Units)
                                       /\ Len(SubSeq(w, 1, n)) = n
                                       /\ SubSeq(w, 1, n) # <<>> => SubSeq(w, 1, n)[1] = w[1]
<1>1. w \in Seq(Units) /\ w # <<>> /\ w[1] \in WireHeaders /\ Len(w) \in Nat
  <2>1. p.header \in Headers
    BY DEF Packets
  <2> QED
    BY <2>1, HeaderDecoded, LenProperties DEF WireOf, Pieces
<1>2. ASSUME NEW n \in 0..(Len(w) - 1)
      PROVE  /\ SubSeq(w, 1, n) \in Seq(Units) /\ Len(SubSeq(w, 1, n)) = n
             /\ SubSeq(w, 1, n) # <<>> => SubSeq(w, 1, n)[1] = w[1]
  <2> DEFINE c == SubSeq(w, 1, n)
  <2>1. \A i \in 1..n : w[i] \in Units
    BY <1>1, ElementOfSeq
  <2>2. /\ c \in Seq(Units) /\ Len(c) = IF 1 <= n THEN n - 1 + 1 ELSE 0
        /\ \A i \in 1..(n - 1 + 1) : c[i] = w[1 + i - 1]
    BY <2>1, SubSeqProperties
  <2> HIDE DEF c
  <2>3. Len(c) = n
    BY <2>2
  <2>4. c # <<>> => c[1] = w[1]
    <3> HAVE c # <<>>
    <3>1. n # 0
      BY <2>2, <2>3, EmptySeq
    <3>2. 1 \in 1..(n - 1 + 1) /\ 1 + 1 - 1 = 1
      BY <3>1
    <3> QED
      BY <2>2, <3>2
  <2> QED
    BY <2>2, <2>3, <2>4 DEF c
<1> QED
  BY <1>1, <1>2

\* A packet whose lengths fit is parsed as it was, and no part of it is.
LEMMA RoundTrip ==
  ASSUME CodecAssumption, NEW p \in Packets, NEW w, WireOf(p, w), Len(p.ext_header) < LengthRange,
         Len(p.payload) < PayloadRange
  PROVE  Parsed(w) = p /\ \A n \in 0..(Len(w) - 1) : Parsed(SubSeq(w, 1, n)) = Refused
<1> DEFINE h == Codec!HeaderToBytes(p.header)  e == p.ext_header  d == p.payload
           x == Len(e)  y == Len(d)
<1>1. /\ x \in Nat /\ y \in Nat /\ LengthRange \in Nat \ {0} /\ x < LengthRange
      /\ PayloadRange \in Nat \ {0} /\ y < PayloadRange
  BY DataUnits, LenProperties DEF Packets, CodecAssumption
<1>2. h.ext_header_len = x /\ h.payload_len = y /\ Codec!HeaderFromBytes(h) = p.header
  <2>1. x % LengthRange = x /\ y % PayloadRange = y
    BY <1>1, SmallMod
  <2>2. /\ p.header \in Headers /\ p.header.ext_header_len = x % LengthRange
        /\ p.header.payload_len = y % PayloadRange
    BY DEF Packets
  <2> QED
    BY <2>1, <2>2, HeaderDecoded
<1>3. w # <<>> /\ w[1] = h /\ Len(w) = 1 + x + y /\ Cut(w, 2, x) = e /\ Cut(w, 2 + x, y) = d
  BY DEF WireOf, Pieces
<1>4. p = [header |-> p.header, ext_header |-> e, payload |-> d]
  BY DEF Packets
<1> HIDE DEF h, e, d, x, y
<1>5. Parsed(w) = p
  <2>1. ~(Len(w) < 1 + x + y)
    BY <1>1, <1>3
  <2> QED
    BY <1>2, <1>3, <1>4, <2>1 DEF Parsed
<1>6. ASSUME NEW n \in 0..(Len(w) - 1) PROVE Parsed(SubSeq(w, 1, n)) = Refused
  <2> DEFINE c == SubSeq(w, 1, n)
  <2>1. Len(c) = n /\ (c # <<>> => c[1] = h)
    BY <1>3, WireStarts
  <2>2. n < 1 + x + y
    BY <1>1, <1>3
  <2> HIDE DEF c
  <2>3. Parsed(c) = Refused
    BY <1>2, <2>1, <2>2 DEF Parsed
  <2> QED
    BY <2>3 DEF c
<1> QED
  BY <1>5, <1>6
(* The inductive invariant: the wire carries the packet, or the start of it,*)
(* and what was parsed is what the wire says.                               *)
CodecInv ==
  /\ features \in [Codec!Ends -> SUBSET Codec!Algorithms] /\ form \in [Codec!Ends -> Codec!Forms]
  /\ stage \in {"new", "packed", "wire", "parsed", "delivered"} /\ cut \in BOOLEAN
  /\ stage # "new" =>
       /\ sent.data \in Payloads /\ sent.ext_header \in ExtHeaders /\ packet \in Packets
       /\ packet.ext_header = sent.ext_header
       /\ packet.header.packet_type = sent.packet_type
       /\ packet.payload = IF packet.header.compression \in features["sender"]
                           THEN Codec!Compressed(packet.header.compression, sent.data)
                           ELSE sent.data
  /\ stage \in {"new", "packed"} => ~cut
  /\ stage \notin {"new", "packed"} =>
       IF cut THEN \E n \in 0..(Len(Codec!ToBytes(packet)) - 1) :
                     wire = SubSeq(Codec!ToBytes(packet), 1, n)
       ELSE wire = Codec!ToBytes(packet)
  /\ stage \in {"parsed", "delivered"} => parsed = Parsed(wire)
  /\ stage = "delivered" =>
       /\ parsed # Refused
       /\ delivered.to \in Codec!ReadersOf(parsed.header.packet_type)
       /\ delivered.data = IF delivered.to = "request_with_options"
                           THEN Codec!Decoded(parsed) ELSE parsed.payload

LEMMA CodecInitially == ASSUME Codec!Init PROVE CodecInv
<1>1. stage = "new" /\ ~cut /\ cut \in BOOLEAN
  BY DEF Codec!Init
<1>2. features \in [Codec!Ends -> SUBSET Codec!Algorithms] /\ form \in [Codec!Ends -> Codec!Forms]
  BY DEF Codec!Init
<1> QED
  BY <1>1, <1>2 DEF CodecInv

LEMMA CodecStays == ASSUME CodecInv, UNCHANGED codecVars PROVE CodecInv'
<1>1. /\ features' = features /\ stage' = stage /\ sent' = sent /\ packet' = packet /\ form' = form
      /\ wire' = wire /\ cut' = cut /\ parsed' = parsed /\ delivered' = delivered
  BY DEF codecVars
<1> QED
  BY <1>1 DEF CodecInv, Codec!Decoded, Codec!DecompressData

LEMMA SendWithOptionsKeeps ==
  ASSUME CodecAssumption, CodecInv, NEW d \in Payloads, NEW e \in ExtHeaders,
         NEW t \in DOMAIN Codec!PacketTypeByte, NEW c \in DOMAIN Codec!CompressionByte,
         Codec!SendWithOptions(d, e, t, c)
  PROVE  CodecInv'
<1> DEFINE h == Codec!FixedHeader(t, c, Len(e), Len(d))
           p == [header |-> h, ext_header |-> e, payload |-> d]
           q == Codec!CompressPayload(p, "sender")
<1>1. /\ stage' = "packed" /\ cut' = cut /\ ~cut /\ cut \in BOOLEAN /\ features' = features /\ form' = form
      /\ packet' = q /\ sent' = [data |-> d, ext_header |-> e, packet_type |-> t]
  BY DEF Codec!SendWithOptions, CodecInv
<1>2. features \in [Codec!Ends -> SUBSET Codec!Algorithms] /\ form \in [Codec!Ends -> Codec!Forms]
  BY DEF CodecInv
<1>3. h \in Headers /\ h.compression = c /\ h.packet_type = t /\ h.payload_len = Len(d) % PayloadRange
      /\ h.ext_header_len = Len(e) % LengthRange
  <2>1. /\ Len(e) \in Nat /\ Len(d) \in Nat /\ LengthRange \in Nat \ {0}
        /\ PayloadRange \in Nat \ {0}
    BY LenProperties DEF CodecAssumption
  <2>2. /\ Len(e) % LengthRange \in 0..(LengthRange - 1)
        /\ Len(d) % PayloadRange \in 0..(PayloadRange - 1)
    BY <2>1
  <2> DEFINE x == Len(e) % LengthRange  y == Len(d) % PayloadRange
  <2>3. h = [version |-> 1, compression |-> c, packet_type |-> t, ext_header_len |-> x,
             payload_len |-> y]
    BY DEF Codec!FixedHeader
  <2> HIDE DEF h, x, y
  <2>4. h \in Headers /\ h.compression = c /\ h.packet_type = t /\ h.payload_len = y
        /\ h.ext_header_len = x
    BY <2>1, <2>2, <2>3 DEF Headers, x, y
  <2> QED
    BY <2>4 DEF x, y
<1> HIDE DEF h
<1>4. /\ q \in Packets /\ q.ext_header = e /\ q.header.packet_type = t
      /\ q.header.compression = c
      /\ q.payload = IF c \in features["sender"] THEN Codec!Compressed(c, d) ELSE d
  <2>1. CASE c \in features["sender"]
    <3> DEFINE z == Codec!Compressed(c, d)  y == Len(z) % PayloadRange
               g == [h EXCEPT !.payload_len = y]
    <3>1. c \in Codec!Algorithms
      BY <1>2, <2>1 DEF Codec!Ends
    <3>2. z \in Codec!Data /\ Len(z) = 1
      BY <3>1, DataUnits
    <3>a. y \in 0..(PayloadRange - 1)
      <4>1. PayloadRange \in Nat \ {0} /\ Len(z) \in Nat
        BY <3>2 DEF CodecAssumption
      <4> QED
        BY <4>1
    <3>3. q = [header |-> g, ext_header |-> e, payload |-> z]
      BY <1>3, <2>1 DEF Codec!CompressPayload
    <3> HIDE DEF y
    <3>4. /\ g \in Headers /\ g.compression = c /\ g.packet_type = t /\ g.payload_len = y
          /\ g.ext_header_len = Len(e) % LengthRange
      <4> DEFINE x == Len(e) % LengthRange
      <4>1. h \in Headers /\ h.compression = c /\ h.packet_type = t /\ h.ext_header_len = x
        BY <1>3
      <4> HIDE DEF x
      <4>2. /\ g \in Headers /\ g.compression = c /\ g.packet_type = t /\ g.payload_len = y
            /\ g.ext_header_len = x
        BY <3>a, <4>1 DEF Headers
      <4> QED
        BY <4>2 DEF x
    <3> HIDE DEF g, z, q
    <3> QED
      BY <2>1, <3>2, <3>3, <3>4 DEF Packets, z, y
  <2>2. CASE c \notin features["sender"]
    <3>1. q = p
      BY <1>3, <2>2 DEF Codec!CompressPayload
    <3>2. d \in Codec!Data
      BY DataUnits
    <3> HIDE DEF q
    <3> QED
      BY <1>3, <2>2, <3>1, <3>2 DEF Packets
  <2> QED
    BY <2>1, <2>2
<1> HIDE DEF q
<1> QED
  BY <1>1, <1>2, <1>4 DEF CodecInv

LEMMA SerializeKeeps ==
  ASSUME CodecAssumption, CodecInv, Codec!Serialize
  PROVE  CodecInv'
<1>1. /\ stage = "packed" /\ stage' = "wire" /\ cut' = cut /\ features' = features /\ form' = form
      /\ packet' = packet /\ sent' = sent
      /\ wire' = CASE form["sender"] = "vec" -> Codec!ToBytes(packet)
                   [] form["sender"] = "zerocopy" -> Codec!ToBytesZeroCopy(packet)
                   [] OTHER -> Codec!SharedToBytes(packet)
  BY DEF Codec!Serialize
<1>2. packet \in Packets /\ ~cut /\ cut \in BOOLEAN
  BY <1>1 DEF CodecInv
<1>3. wire' = Codec!ToBytes(packet)
  <2> DEFINE w == Codec!ToBytes(packet)
  <2>1. Codec!ToBytesZeroCopy(packet) = w /\ Codec!SharedToBytes(packet) = w
    BY <1>2, WritersAgree
  <2> HIDE DEF w
  <2>2. wire' = CASE form["sender"] = "vec" -> w [] form["sender"] = "zerocopy" -> w [] OTHER -> w
    BY <1>1, <2>1 DEF w
  <2>3. wire' = w
    BY <2>2
  <2> QED
    BY <2>3 DEF w
<1>4. Codec!ToBytes(packet)' = Codec!ToBytes(packet)
  BY <1>1 DEF Codec!ToBytes, Codec!HeaderToBytes, Codec!CompressionByte, Codec!PacketTypeByte
<1> QED
  BY <1>1, <1>2, <1>3, <1>4 DEF CodecInv

LEMMA CutShortKeeps ==
  ASSUME CodecInv, Codec!CutShort
  PROVE  CodecInv'
<1>1. /\ stage = "wire" /\ stage' = "wire" /\ ~cut /\ cut' = TRUE /\ features' = features
      /\ form' = form /\ packet' = packet /\ sent' = sent
      /\ \E n \in 0..(Len(wire) - 1) : wire' = SubSeq(wire, 1, n)
  BY DEF Codec!CutShort
<1>2. wire = Codec!ToBytes(packet)
  BY <1>1 DEF CodecInv
<1>3. Codec!ToBytes(packet)' = Codec!ToBytes(packet)
  BY <1>1 DEF Codec!ToBytes, Codec!HeaderToBytes, Codec!CompressionByte, Codec!PacketTypeByte
<1> QED
  BY <1>1, <1>2, <1>3 DEF CodecInv

\* What is on the wire can be parsed by each of the parsers.
LEMMA WireParses ==
  ASSUME CodecAssumption, CodecInv, stage \notin {"new", "packed"}
  PROVE  /\ wire \in Seq(Units) /\ (wire # <<>> => wire[1] \in WireHeaders)
         /\ ~cut => wire # <<>>
         /\ LengthRange \in Nat \ {0} /\ PayloadRange \in Nat \ {0}
<1> DEFINE w == Codec!ToBytes(packet)
<1>1. packet \in Packets /\ cut \in BOOLEAN
  BY DEF CodecInv
<1>2. WireOf(packet, w)
  BY <1>1, WritersAgree
<1>3. IF cut THEN \E n \in 0..(Len(w) - 1) : wire = SubSeq(w, 1, n) ELSE wire = w
  BY DEF CodecInv
<1> HIDE DEF w
<1>4. /\ w \in Seq(Units) /\ w # <<>> /\ w[1] \in WireHeaders
      /\ \A n \in 0..(Len(w) - 1) : /\ SubSeq(w, 1, n) \in Seq(Units)
                                    /\ SubSeq(w, 1, n) # <<>> => SubSeq(w, 1, n)[1] = w[1]
  BY <1>1, <1>2, WireStarts
<1>5. CASE cut
  <2> PICK n \in 0..(Len(w) - 1) : wire = SubSeq(w, 1, n)
    BY <1>3, <1>5
  <2> QED
    BY <1>4, <1>5 DEF CodecAssumption
<1>6. CASE ~cut
  BY <1>3, <1>4, <1>6 DEF CodecAssumption
<1> QED
  BY <1>5, <1>6

LEMMA DeserializeKeeps ==
  ASSUME CodecAssumption, CodecInv, Codec!Deserialize
  PROVE  CodecInv'
<1>1. /\ stage = "wire" /\ stage' = "parsed" /\ cut' = cut /\ features' = features /\ form' = form
      /\ packet' = packet /\ sent' = sent /\ wire' = wire
      /\ parsed' = CASE form["receiver"] = "vec" -> Codec!FromBytes(wire)
                     [] form["receiver"] = "zerocopy" -> Codec!FromBytesZeroCopy(wire)
                     [] OTHER -> Codec!SharedFromBytes(wire)
  BY DEF Codec!Deserialize
<1>2. parsed' = Parsed(wire)
  <2> DEFINE p == Parsed(wire)
  <2>1. /\ Codec!FromBytes(wire) = p /\ Codec!FromBytesZeroCopy(wire) = p
        /\ Codec!SharedFromBytes(wire) = p
    BY <1>1, WireParses, ParsersAgree
  <2> HIDE DEF p
  <2>2. parsed' = CASE form["receiver"] = "vec" -> p [] form["receiver"] = "zerocopy" -> p
                    [] OTHER -> p
    BY <1>1, <2>1
  <2>3. parsed' = p
    BY <2>2
  <2> QED
    BY <2>3 DEF p
<1>3. Codec!ToBytes(packet)' = Codec!ToBytes(packet) /\ Parsed(wire)' = Parsed(wire)
  BY <1>1 DEF Codec!ToBytes, Codec!HeaderToBytes, Codec!CompressionByte, Codec!PacketTypeByte
<1> QED
  BY <1>1, <1>2, <1>3 DEF CodecInv

LEMMA DeliverKeeps ==
  ASSUME CodecInv, NEW to, Codec!Deliver(to)
  PROVE  CodecInv'
<1>1. /\ stage = "parsed" /\ parsed # Refused /\ stage' = "delivered"
      /\ cut' = cut /\ features' = features /\ form' = form /\ parsed' = parsed
      /\ packet' = packet /\ sent' = sent /\ wire' = wire
      /\ to \in Codec!ReadersOf(parsed.header.packet_type) /\ delivered'.to = to
      /\ delivered'.data = IF to = "request_with_options"
                           THEN Codec!Decoded(parsed) ELSE parsed.payload
  BY DEF Codec!Deliver
<1>2. /\ Codec!ToBytes(packet)' = Codec!ToBytes(packet) /\ Parsed(wire)' = Parsed(wire)
      /\ Codec!Decoded(parsed)' = Codec!Decoded(parsed)
  BY <1>1 DEF Codec!ToBytes, Codec!HeaderToBytes, Codec!CompressionByte, Codec!PacketTypeByte,
              Codec!Decoded, Codec!DecompressData
<1> QED
  BY <1>1, <1>2 DEF CodecInv, Codec!ReadersOf

LEMMA CodecKept ==
  ASSUME CodecAssumption, CodecInv, Codec!Next
  PROVE  CodecInv'
<1>1. CASE \E d \in Payloads, e \in ExtHeaders, t \in DOMAIN Codec!PacketTypeByte,
              c \in DOMAIN Codec!CompressionByte : Codec!SendWithOptions(d, e, t, c)
  BY <1>1, SendWithOptionsKeeps
<1>2. CASE \/ Codec!Serialize \/ Codec!CutShort \/ Codec!Deserialize
           \/ \E to \in Codec!Calls \cup {"context"} : Codec!Deliver(to)
  BY <1>2, SerializeKeeps, CutShortKeeps, DeserializeKeeps, DeliverKeeps
<1> QED
  BY <1>1, <1>2 DEF Codec!Next

\* A receiver that has the algorithm gets back what was compressed.
LEMMA Decompressed ==
  ASSUME CodecAssumption, NEW c, c \in features["receiver"], NEW d \in Payloads,
         c = "zstd" => Len(d) <= Limit
  PROVE  Codec!DecompressData(Codec!Compressed(c, d), c, "receiver") = d
<1> DEFINE b == Codec!Compressed(c, d)
           sources == {z \in Codec!Data : b = Codec!Compressed(c, z) /\ (c = "zstd" => Len(z) <= Limit)}
<1>1. d \in Codec!Data
  BY DataUnits
<1>2. \A z : Codec!Compressed(c, z) = b => z = d
  BY DEF Codec!Compressed
<1>3. sources = {d}
  BY <1>1, <1>2
<1>4. Codec!DecompressData(b, c, "receiver")
        = IF c \in features["receiver"] /\ sources # {} THEN CHOOSE z \in sources : TRUE ELSE Refused
  BY DEF Codec!DecompressData
<1> HIDE DEF sources, b
<1>5. (CHOOSE z \in sources : TRUE) = d
  BY <1>3
<1> QED
  BY <1>3, <1>4, <1>5 DEF b

LEMMA CodecPromises ==
  ASSUME CodecAssumption, CodecInv
  PROVE  Codec!TypeOK /\ Codec!ParsedIsSent /\ Codec!DataIntact
<1> DEFINE w == Codec!ToBytes(packet)
<1>1. Codec!TypeOK
  <2>1. /\ features \in [Codec!Ends -> SUBSET Codec!Algorithms]
        /\ stage \in {"new", "packed", "wire", "parsed", "delivered"}
        /\ stage # "new" => sent.data \in Payloads /\ sent.ext_header \in ExtHeaders
        /\ form \in [Codec!Ends -> Codec!Forms] /\ cut \in BOOLEAN
    BY DEF CodecInv
  <2>2. (stage \notin {"new", "packed"} /\ ~cut) => wire # <<>>
    BY WireParses
  <2>3. ASSUME stage = "parsed", parsed # Refused
        PROVE  /\ Len(parsed.ext_header) < LengthRange /\ Len(parsed.payload) < PayloadRange
               /\ Len(parsed.payload) = parsed.header.payload_len
    <3>1. parsed = Parsed(wire) /\ stage \notin {"new", "packed"}
      BY <2>3 DEF CodecInv
    <3> QED
      BY <2>3, <3>1, WireParses, ParsedLengths
  <2> QED
    BY <2>1, <2>2, <2>3 DEF Codec!TypeOK
<1>2. ASSUME stage \in {"parsed", "delivered"}, Codec!Representable
      PROVE  IF cut THEN parsed = Refused ELSE parsed = packet /\ parsed # Refused
  <2>1. packet \in Packets /\ packet.ext_header = sent.ext_header /\ parsed = Parsed(wire)
        /\ cut \in BOOLEAN
    BY <1>2 DEF CodecInv
  <2>2. IF cut THEN \E n \in 0..(Len(w) - 1) : wire = SubSeq(w, 1, n) ELSE wire = w
    BY <1>2 DEF CodecInv
  <2>3. Parsed(w) = packet /\ \A n \in 0..(Len(w) - 1) : Parsed(SubSeq(w, 1, n)) = Refused
    <3>1. Len(packet.ext_header) < LengthRange /\ Len(packet.payload) < PayloadRange
      BY <1>2, <2>1 DEF Codec!Representable
    <3>2. WireOf(packet, w)
      BY <2>1, WritersAgree
    <3> HIDE DEF w
    <3> QED
      BY <2>1, <3>1, <3>2, RoundTrip
  <2>4. packet # Refused
    <3>1. packet \in BuiltPackets
      BY <2>1 DEF Packets, Headers, BuiltPackets
    <3> QED
      BY <3>1 DEF CodecAssumption
  <2> HIDE DEF w
  <2> QED
    BY <2>1, <2>2, <2>3, <2>4
<1>3. Codec!ParsedIsSent
  <2> SUFFICES ASSUME stage \in {"parsed", "delivered"}, Codec!Representable
               PROVE  /\ (parsed = Refused) <=> cut
                      /\ ~cut => parsed = packet /\ parsed.ext_header = sent.ext_header
                                 /\ parsed.header.packet_type = sent.packet_type
    BY DEF Codec!ParsedIsSent
  <2>1. packet.ext_header = sent.ext_header /\ packet.header.packet_type = sent.packet_type
        /\ cut \in BOOLEAN
    BY DEF CodecInv
  <2> QED
    BY <1>2, <2>1
<1>4. Codec!DataIntact
  <2> SUFFICES ASSUME stage = "delivered", Codec!Representable, Codec!SameBuild, Codec!Inflatable,
                      delivered.to = "request_with_options" \/ packet.header.compression = "none"
               PROVE  delivered.data = sent.data
    BY DEF Codec!DataIntact, Codec!Delivered
  <2> DEFINE c == packet.header.compression  d == sent.data
  <2>1. /\ parsed # Refused /\ d \in Payloads
        /\ packet.payload = IF c \in features["sender"] THEN Codec!Compressed(c, d) ELSE d
        /\ delivered.data = IF delivered.to = "request_with_options"
                            THEN Codec!Decoded(parsed) ELSE parsed.payload
        /\ features \in [Codec!Ends -> SUBSET Codec!Algorithms]
    BY DEF CodecInv
  <2>2. parsed = packet
    BY <1>2, <2>1
  <2>3. CASE c \in features["sender"]
    <3>1. c \in features["receiver"] /\ c # "none"
      <4>1. features["sender"] \in SUBSET Codec!Algorithms /\ features["sender"] = features["receiver"]
        BY <2>1 DEF Codec!SameBuild, Codec!Ends
      <4>2. "none" \notin Codec!Algorithms
        BY DEF Codec!Algorithms
      <4> QED
        BY <2>3, <4>1, <4>2
    <3>2. delivered.data = Codec!Decoded(packet)
      BY <2>1, <2>2, <3>1
    <3>3. Codec!DecompressData(packet.payload, c, "receiver") = d
      <4>1. Codec!DecompressData(Codec!Compressed(c, d), c, "receiver") = d
        BY <2>1, <3>1, Decompressed DEF Codec!Inflatable
      <4>2. packet.payload = Codec!Compressed(c, d)
        BY <2>1, <2>3
      <4> QED
        BY <4>1, <4>2
    <3>4. d # Refused
      BY <2>1, DataUnits DEF CodecAssumption
    <3> QED
      BY <3>2, <3>3, <3>4 DEF Codec!Decoded
  <2>4. CASE c \notin features["sender"]
    <3>1. Codec!Decoded(packet) = packet.payload
      <4>1. c \notin features["receiver"]
        BY <2>4 DEF Codec!SameBuild
      <4>2. Codec!DecompressData(packet.payload, c, "receiver") = Refused
        BY <4>1 DEF Codec!DecompressData
      <4> QED
        BY <4>2 DEF Codec!Decoded
    <3> QED
      BY <2>1, <2>2, <2>4, <3>1
  <2> QED
    BY <2>3, <2>4
<1> QED
  BY <1>1, <1>3, <1>4
-----------------------------------------------------------------------------
(* The theorems                                                            *)

LEMMA RegistryInvariance == MCSpec => []RegistryInv
<1>1. MCInit => RegistryInv
  BY PartsStart, RegistryInitially
<1>2. RegistryInv /\ [MCNext]_all => RegistryInv'
  BY PartsStep, RegistryKept, RegistryStays, ResourcesAssumption
<1> QED
  BY <1>1, <1>2, PTL DEF MCSpec

LEMMA SettingsInvariance == MCSpec => []SettingsInv
<1>1. MCInit => SettingsInv
  BY PartsStart, SettingsInitially, ResourcesAssumption
<1>2. SettingsInv /\ [MCNext]_all => SettingsInv'
  BY PartsStep, SettingsKept, SettingsStay, ResourcesAssumption
<1> QED
  BY <1>1, <1>2, PTL DEF MCSpec

LEMMA CodecInvariance == MCSpec => []CodecInv
<1>1. MCInit => CodecInv
  BY PartsStart, CodecInitially
<1>2. CodecInv /\ [MCNext]_all => CodecInv'
  BY PartsStep, CodecKept, CodecStays, CodecAssumption
<1> QED
  BY <1>1, <1>2, PTL DEF MCSpec

LEMMA BatchInvariance == MCSpec => []BatchInv
<1>1. MCInit => BatchInv
  BY PartsStart, BatchInitially, ResourcesAssumption
<1>2. BatchInv /\ [MCNext]_all => BatchInv'
  BY PartsStep, BatchKept, BatchStays, ResourcesAssumption
<1> QED
  BY <1>1, <1>2, PTL DEF MCSpec

LEMMA EventsInvariance == MCSpec => []EventInv
<1>1. MCInit => EventInv
  BY PartsStart, EventsInitially, ResourcesAssumption
<1>2. EventInv /\ [MCNext]_all => EventInv'
  BY PartsStep, EventsKept, EventsStay, ResourcesAssumption
<1> QED
  BY <1>1, <1>2, PTL DEF MCSpec

LEMMA StreamInvariance == MCSpec => []StreamInv
<1>1. MCInit => StreamInv
  BY PartsStart, StreamInitially, ResourcesAssumption
<1>2. StreamInv /\ [MCNext]_all => StreamInv'
  BY PartsStep, StreamKept, StreamStays, ResourcesAssumption
<1> QED
  BY <1>1, <1>2, PTL DEF MCSpec

(* Of the protocol registry: a registration that returned Ok is complete    *)
(* and stays, a scheme belongs to the factory of its name, a connection     *)
(* leads to the address in its URI, and plugins serve no builtin protocol.  *)
THEOREM RegistryConsistentTheorem == MCSpec => []RegistryConsistent
<1>1. RegistryInv => RegistryConsistent
  BY DEF RegistryInv, RegistryConsistent
<1> QED
  BY <1>1, RegistryInvariance, PTL

(* Of the settings of all six roles: the merged config has for every field  *)
(* what was chosen last, with two exceptions.  merge passes over choices of *)
(* the upper config: no value, the default chosen again, a default port or  *)
(* number of retries with other details, what a client switches on (also    *)
(* verify_certificate), and the server fields it does not mention.  And an  *)
(* untouched field of the upper config replaces a choice of the lower one   *)
(* where its default is imposed: keepalives, optional timeouts, intervals,  *)
(* verify_certificate of a client, nodelay of a server.  Two configs that   *)
(* were built merge to one that validate accepts.                           *)
THEOREM ChoicesMergedTheorem == MCSpec => []ChoicesMerged
<1>1. SettingsInv => ChoicesMerged
  BY DEF SettingsInv, ChoicesMerged
<1> QED
  BY <1>1, SettingsInvariance, PTL

(* Of the packet format: if the lengths of the extended header and of the   *)
(* payload fit their fields, a packet is parsed as it was sent or not at    *)
(* all, whichever codecs the ends use; and between builds with the same     *)
(* features request_with_options returns the data of the response, if the   *)
(* decompressor takes that much; request and contexts get the data that was *)
(* sent if it was to go uncompressed.                                       *)
THEOREM PacketsIntactTheorem == MCSpec => []PacketsIntact
<1>1. CodecInv => PacketsIntact
  BY CodecPromises, CodecAssumption DEF PacketsIntact
<1> QED
  BY <1>1, CodecInvariance, PTL

(* Of the batching adapter: no accepted packet is processed or returned     *)
(* twice however its calls overlap, and at rest the counters account for    *)
(* every packet.                                                            *)
THEOREM BatchesAccountedTheorem == MCSpec => []BatchesAccounted
<1>1. BatchInv => BatchesAccounted
  BY BatchPromises, ResourcesAssumption DEF BatchesAccounted
<1> QED
  BY <1>1, BatchInvariance, PTL

(* Of a client's events: a request is answered at most once for each of the *)
(* tasks that forward it, and forwarding keeps the order without a gap.     *)
THEOREM RequestsAnsweredOnceTheorem == MCSpec => []RequestsAnsweredOnce
<1>1. EventInv => RequestsAnsweredOnce
  BY EventsPromise, ResourcesAssumption DEF RequestsAnsweredOnce
<1> QED
  BY <1>1, EventsInvariance, PTL

(* Of the event streams: events are returned in order, none twice, and a    *)
(* stream that has not lagged leaves out nothing that all its calls want.   *)
THEOREM StreamsFaithfulTheorem == MCSpec => []StreamsFaithful
<1>1. StreamInv => StreamsFaithful
  BY StreamPromises, ResourcesAssumption DEF StreamsFaithful
<1> QED
  BY <1>1, StreamInvariance, PTL

(* The variables of all nine keep their types.                              *)
THEOREM TypesOKTheorem == ASSUME OneExpander PROVE MCSpec => []TypesOK
<1>1. MCSpec => []TypeOK
  <2>1. MCInit => Init
    BY PartsStart
  <2>2. [MCNext]_all => [Next]_vars
    BY PartsStep
  <2>3. MCSpec => Spec
    BY <2>1, <2>2, PTL DEF MCSpec, Spec
  <2> QED
    BY <2>3, TypeCorrect, PTL
<1>2. MCSpec => []Subject
  <2>1. MCInit => Subject
    BY PartsStart
  <2>2. Subject /\ [MCNext]_all => Subject'
    BY PartsStep DEF Subject
  <2> QED
    BY <2>1, <2>2, PTL DEF MCSpec
<1>3. /\ QueueInv => Queue!TypeOK
      /\ MemoryInv => Memory!TypeOK
      /\ RegistryInv => Registry!TypeOK
      /\ SettingsInv => Setting!TypeOK
  BY MemoryPromises, ResourcesAssumption, MemoryAssumption DEF QueueInv, RegistryInv, SettingsInv
<1>4. /\ CodecInv => Codec!TypeOK
      /\ BatchInv => Batch!TypeOK
      /\ EventInv => Events!TypeOK
      /\ StreamInv => Streams!TypeOK
  BY CodecPromises, BatchPromises, EventsPromise, ResourcesAssumption, CodecAssumption DEF StreamInv
<1>5. Subject /\ TypeOK /\ QueueInv /\ MemoryInv /\ RegistryInv /\ SettingsInv
        /\ CodecInv /\ BatchInv /\ EventInv /\ StreamInv => TypesOK
  <2> SUFFICES ASSUME Subject, TypeOK, QueueInv, MemoryInv, RegistryInv, SettingsInv,
                      CodecInv, BatchInv, EventInv, StreamInv
               PROVE  TypesOK
    OBVIOUS
  <2>1. /\ Queue!TypeOK /\ Memory!TypeOK /\ Registry!TypeOK /\ Setting!TypeOK
        /\ Codec!TypeOK /\ Batch!TypeOK /\ Events!TypeOK /\ Streams!TypeOK
    BY <1>3, <1>4
  <2>2. CASE subject = "pool"
    BY <2>1, <2>2 DEF TypesOK
  <2>3. CASE subject = "queue"
    BY <2>1, <2>3 DEF TypesOK
  <2>4. CASE subject = "memory"
    BY <2>1, <2>4 DEF TypesOK
  <2>5. CASE subject = "registry"
    BY <2>1, <2>5 DEF TypesOK
  <2>6. CASE subject = "settings"
    BY <2>1, <2>6 DEF TypesOK
  <2>7. CASE subject = "codec"
    BY <2>1, <2>7 DEF TypesOK
  <2>8. CASE subject = "batch"
    BY <2>1, <2>8 DEF TypesOK
  <2>9. CASE subject = "events"
    BY <2>1, <2>9 DEF TypesOK
  <2>10. CASE subject = "streams"
    BY <2>1, <2>10 DEF TypesOK
  <2> QED
    BY <2>2, <2>3, <2>4, <2>5, <2>6, <2>7, <2>8, <2>9, <2>10 DEF Subject
<1> QED
  BY <1>1, <1>2, <1>5, QueueInvariance, MemoryInvariance, RegistryInvariance, SettingsInvariance,
     CodecInvariance, BatchInvariance, EventsInvariance, StreamInvariance, PTL

=============================================================================
