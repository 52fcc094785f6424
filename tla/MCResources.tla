----------------------------- MODULE MCResources -----------------------------
(***************************************************************************)
(* The parts of the library that share no state with a running connection, *)
(* side by side: the connection and the memory pool with their queue, the  *)
(* registry, the settings, the packet format, the adapter that batches     *)
(* packets, and the events of a client.  A behaviour follows one of them,  *)
(* its subject, and leaves the others in an initial state.                 *)
(***************************************************************************)
EXTENDS ConnectionPool

CONSTANTS
  Callers,                                     \* the tasks that use a part
  Users, MaxItems, QueueWord,                  \* of LockFreeQueue
  SizeClasses, capacity, max_cached, preallocated, threshold, MaxHeld, MemoryWord,  \* MemoryPool
  Custom, PluginNames, Addresses, configured,  \* ProtocolRegistry
  Protocols, MaxChoices,                       \* Settings
  Bytes, Payloads, ExtHeaders, LengthRange, PayloadRange, Limit, Refused,  \* PacketCodec
  MaxPackets, max_batch,                       \* BatchAdapter
  EventKinds, EventCapacity, MaxEvents, MaxConnects,  \* ClientEvents
  StreamCapacity, StreamEvents                 \* EventStreams

ASSUME ResourcesAssumption ==
  /\ IsFiniteSet(Users) /\ IsFiniteSet(Callers)
  /\ MaxItems \in Nat /\ QueueWord \in Nat /\ MaxItems < QueueWord
  /\ Custom \subseteq [name : STRING, schemes : Seq(STRING), kind : STRING]
  /\ Protocols \subseteq {"tcp", "websocket", "quic"} /\ MaxChoices \in Nat
  /\ MaxPackets \in Nat /\ max_batch \in Nat \ {0}
  /\ EventCapacity \in Nat /\ MaxEvents \in Nat /\ MaxConnects \in Nat
  /\ StreamCapacity \in Nat /\ StreamEvents \in Nat

-----------------------------------------------------------------------------
(* Values for the configuration                                            *)

CONSTANTS datum, extension

TwoSizes == <<"small", "large">>
SomeCapacities == [small |-> 1, large |-> 3]
SomeLimits == [small |-> 2, large |-> 1]
OneOfEach == [small |-> 1, large |-> 1]

\* One factory repeats a scheme of a standard one, the other a name.
SomeFactories == {[name |-> "custom", schemes |-> <<"x", "ws">>, kind |-> "tcp"],
                  [name |-> "tcp", schemes |-> <<"y">>, kind |-> "quic"]}

\* Data that compression shortens (uncompressed, its length field cannot hold its
\* length), data that it does not, and data that was compressed before; headers up
\* to one that its length field cannot hold.
SomePayloads == {<<>>, <<datum>>, <<datum, datum, datum>>, << <<"zlib", <<datum>> >> >>}
SomeBytes == {datum, extension, <<"zlib", <<datum>> >>}
SomeHeaders == {<<>>, <<extension>>, <<extension, extension>>}

VARIABLE subject

-----------------------------------------------------------------------------
(* LockFreeQueue and MemoryPool                                            *)

VARIABLES items, enqueued, dequeued, current_size, using

queueVars == <<items, enqueued, dequeued, current_size, using>>

Queue == INSTANCE LockFreeQueue WITH WordSize <- QueueWord

VARIABLES buffers, cached, cachedTotal, limit, taken, task, overtaken

memoryVars == <<buffers, cached, cachedTotal, limit, taken, task, overtaken>>

Memory == INSTANCE MemoryPool WITH
  Tasks <- Callers, Sizes <- SizeClasses, Word <- MemoryWord, total <- cachedTotal, held <- taken

\* Counters are wide enough for full caches, and what is preallocated fits them.
ASSUME MemoryAssumption ==
  LET most == [c \in Memory!Classes |-> max_cached[SizeClasses[c]] + Cardinality(Callers) - 1]
  IN  /\ SizeClasses \in Seq(STRING) /\ SizeClasses # <<>> /\ Callers # {} /\ MaxHeld \in Nat
      /\ \A c \in Memory!Classes :
           /\ capacity[SizeClasses[c]] \in Nat /\ max_cached[SizeClasses[c]] \in Nat
           /\ preallocated[SizeClasses[c]] \in 0..most[c]
           /\ max_cached[SizeClasses[c]] + 2 * Cardinality(Callers) <= MemoryWord
      /\ MemoryWord \in Nat /\ Memory!Space(most) < MemoryWord

-----------------------------------------------------------------------------
(* ProtocolRegistry and Settings                                           *)

VARIABLES factories, schemes, pending, complete, opened, plugins, allow_override, served

registryVars == <<factories, schemes, pending, complete, opened, plugins, allow_override, served>>

Registry == INSTANCE ProtocolRegistry

VARIABLES role, config, chosen, built, settingsStage, intended

settingsVars == <<role, config, chosen, built, settingsStage, intended>>

Setting == INSTANCE Settings WITH stage <- settingsStage

-----------------------------------------------------------------------------
(* PacketCodec and BatchAdapter                                            *)

VARIABLES features, stage, sent, packet, form, wire, cut, parsed, delivered

codecVars == <<features, stage, sent, packet, form, wire, cut, parsed, delivered>>

Codec == INSTANCE PacketCodec

BuiltPackets ==
  [header : [version : {1}, compression : DOMAIN Codec!CompressionByte,
             packet_type : DOMAIN Codec!PacketTypeByte, ext_header_len : Nat, payload_len : Nat],
   ext_header : ExtHeaders, payload : Codec!Data]

ASSUME CodecAssumption ==
  /\ Payloads \subseteq Seq(Bytes) /\ ExtHeaders \subseteq Seq(Bytes)
  /\ LengthRange \in Nat \ {0} /\ PayloadRange \in Nat \ {0, 1} /\ Limit \in Nat
  /\ Refused \notin Codec!Data /\ Refused \notin BuiltPackets

VARIABLES send_queue, recv_queue, accepted, arrived, doing, batch, processed, received,
          dropped, is_connected, status, stats

batchVars == <<send_queue, recv_queue, accepted, arrived, doing, batch, processed, received,
               dropped, is_connected, status, stats>>

Batch == INSTANCE BatchAdapter WITH
  Clones <- Callers, step <- doing, sent <- processed, lost <- dropped

-----------------------------------------------------------------------------
(* ClientEvents and EventStreams                                           *)

VARIABLES events, connects, forwarder, client, at, holding, responded, responses

eventVars == <<events, connects, forwarder, client, at, holding, responded, responses>>

Events == INSTANCE ClientEvents WITH
  Kinds <- EventKinds, Capacity <- EventCapacity, Subscribers <- Callers

VARIABLES stream, emitted, open, position, call, asked, seen, lost, ended

streamVars == <<stream, emitted, open, position, call, asked, seen, lost, ended>>

Streams == INSTANCE EventStreams WITH
  Capacity <- StreamCapacity, MaxEvents <- StreamEvents, events <- emitted, at <- position

-----------------------------------------------------------------------------
all == <<subject, vars, queueVars, memoryVars, registryVars, settingsVars, codecVars, batchVars,
         eventVars, streamVars>>

\* The settings, the codec and the streams start in one of several states: one of
\* them stands for the rest while another part is the subject.
MCInit ==
  /\ subject \in {"pool", "queue", "memory", "registry", "settings", "codec", "batch",
                  "events", "streams"}
  /\ Init /\ Queue!Init /\ Memory!Init /\ Batch!Init /\ Events!Init
  /\ Registry!Init /\ (subject = "registry" \/ ~allow_override)
  /\ Streams!Init /\ (subject = "streams" \/ stream = "EventStream")
  /\ Codec!Init /\ (subject = "codec" \/ (features = [end \in Codec!Ends |-> {}]
                                         /\ form = [end \in Codec!Ends |-> "vec"]))
  /\ Setting!Init /\ (subject = "settings" \/ (role = <<"client", "tcp">>
                                              /\ chosen = [s \in Setting!Sides |-> {}]))

MCNext ==
  \/ /\ subject = "pool" /\ Next
     /\ UNCHANGED <<subject, queueVars, memoryVars, registryVars, settingsVars, codecVars, batchVars, eventVars, streamVars>>
  \/ /\ subject = "queue" /\ Queue!Next
     /\ UNCHANGED <<subject, vars, memoryVars, registryVars, settingsVars, codecVars, batchVars, eventVars, streamVars>>
  \/ /\ subject = "memory" /\ Memory!Next
     /\ UNCHANGED <<subject, vars, queueVars, registryVars, settingsVars, codecVars, batchVars, eventVars, streamVars>>
  \/ /\ subject = "registry" /\ Registry!Next
     /\ UNCHANGED <<subject, vars, queueVars, memoryVars, settingsVars, codecVars, batchVars, eventVars, streamVars>>
  \/ /\ subject = "settings" /\ Setting!Next
     /\ UNCHANGED <<subject, vars, queueVars, memoryVars, registryVars, codecVars, batchVars, eventVars, streamVars>>
  \/ /\ subject = "codec" /\ Codec!Next
     /\ UNCHANGED <<subject, vars, queueVars, memoryVars, registryVars, settingsVars, batchVars, eventVars, streamVars>>
  \/ /\ subject = "batch" /\ Batch!Next
     /\ UNCHANGED <<subject, vars, queueVars, memoryVars, registryVars, settingsVars, codecVars, eventVars, streamVars>>
  \/ /\ subject = "events" /\ Events!Next
     /\ UNCHANGED <<subject, vars, queueVars, memoryVars, registryVars, settingsVars, codecVars, batchVars, streamVars>>
  \/ /\ subject = "streams" /\ Streams!Next
     /\ UNCHANGED <<subject, vars, queueVars, memoryVars, registryVars, settingsVars, codecVars, batchVars, eventVars>>

MCSpec == MCInit /\ [][MCNext]_all

-----------------------------------------------------------------------------
(* The type invariants of all these modules.                               *)
TypesOK ==
  CASE subject = "pool" -> TypeOK [] subject = "queue" -> Queue!TypeOK
    [] subject = "memory" -> Memory!TypeOK [] subject = "registry" -> Registry!TypeOK
    [] subject = "settings" -> Setting!TypeOK [] subject = "codec" -> Codec!TypeOK
    [] subject = "batch" -> Batch!TypeOK [] subject = "events" -> Events!TypeOK
    [] subject = "streams" -> Streams!TypeOK

(* LockFreeQueue and MemoryPool, which is built from such queues: counters *)
(* differ from what they count by exactly the calls that are under way, a  *)
(* cache exceeds its limit only by the returns that checked it at the same *)
(* time, and at rest the total is the memory in the queues, unless a clear *)
(* has reset it under another call.                                        *)
QueuesAccounted ==
  /\ subject = "queue" => Queue!SizeAccounted
  /\ subject = "memory" => Memory!CountersAgree /\ Memory!OvershootBounded /\ Memory!TotalAgrees

(* ProtocolRegistry: a registration that returned Ok is complete and stays,*)
(* the factory of a scheme is the one of its name however registrations    *)
(* overlap or stop half-way, a connection leads to the address in its URI, *)
(* and builtin protocols are not served by plugins.                        *)
RegistryConsistent ==
  subject = "registry" =>
    /\ Registry!OkMeansComplete /\ Registry!SchemesNamed
    /\ Registry!ConnectsToUri /\ Registry!BuiltinsKept

(* Settings: merging keeps what was chosen last for every field, but for    *)
(* the choices of the upper config that merge passes over and the untouched *)
(* defaults that it imposes; and two valid configs give a valid one.        *)
ChoicesMerged == subject = "settings" => Setting!ChoicesKept /\ Setting!MergedValid

(* PacketCodec: packets are parsed as they were sent, or not at all;        *)
(* request_with_options returns the data of every response, and what is     *)
(* not compressed arrives intact everywhere else.                           *)
PacketsIntact == subject = "codec" => Codec!ParsedIsSent /\ Codec!DataIntact

(* BatchAdapter: no accepted packet is processed or returned twice, and at *)
(* rest the counters account for every packet.                             *)
BatchesAccounted == subject = "batch" => Batch!NoneTwice /\ Batch!StatsAgree

(* ClientEvents: a request is answered once per forwarding task at most,   *)
(* and forwarding keeps the order and leaves no gap.                       *)
RequestsAnsweredOnce == subject = "events" => Events!RespondOnce /\ Events!ForwardedInOrder

(* EventStreams: events are returned in order, none twice, and nothing     *)
(* that all calls asked for is left out.                                   *)
StreamsFaithful == subject = "streams" => Streams!StreamsInOrder /\ Streams!StreamsComplete
=============================================================================
