SPECIFICATION MCSpec
CONSTANTS
  Tasks = {p1, p2}
  Expanders = {p2}
  initial_size = 2
  max_size = 4
  MaxId = 6
  Word = 8
  Callers = {t1, t2}
  Users = {u1, u2, u3}
  MaxItems = 4
  QueueWord = 8
  SizeClasses <- TwoSizes
  capacity <- SomeCapacities
  max_cached <- SomeLimits
  preallocated <- OneOfEach
  threshold = 3
  MaxHeld = 2
  MemoryWord = 16
  Custom <- SomeFactories
  PluginNames = {"tcp"}
  Addresses = {"given"}
  configured = "configured"
  Protocols = {"tcp", "websocket", "quic"}
  MaxChoices = 2
  Bytes <- SomeBytes
  Payloads <- SomePayloads
  ExtHeaders <- SomeHeaders
  LengthRange = 2
  PayloadRange = 3
  Limit = 2
  Refused = Refused
  datum = datum
  extension = extension
  MaxPackets = 3
  max_batch = 2
  EventKinds = {"request", "message"}
  EventCapacity = 1
  MaxEvents = 2
  MaxConnects = 2
  StreamCapacity = 2
  StreamEvents = 3
INVARIANTS
  TypesOK PoolConsistent QueuesAccounted RegistryConsistent ChoicesMerged
  PacketsIntact BatchesAccounted RequestsAnsweredOnce StreamsFaithful
CHECK_DEADLOCK FALSE
