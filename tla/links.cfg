SPECIFICATION MCSpec
CONSTANTS
  Sizes <- SomePackets
  ReadCapacity = 4
  WireCapacity = 6
  Garbage = Garbage
  Incomplete = Incomplete
  Invalid = Invalid
  LinkKinds = {"websocket", "quic"}
  LinkCapacity = 2
  LinkPackets = 2
  TooLong <- SecondTooLong
  Text = Text
  Ping = Ping
  Bye = Bye
  Handles = {h1, h2}
  original = h1
  Threads = 2
  MaxCalls = 3
  ActorPackets = 3
  MaxCommands = 1
  max_batch_size = 2
INVARIANTS TypesOK PacketsFramed LinkFaithful CommandsOnce BatchesInOrder
PROPERTIES LinksEnd CallsReturnButOne ActorEnds
CHECK_DEADLOCK FALSE
