SPECIFICATION Spec
CONSTANTS
  Sizes <- SomePackets
  ReadCapacity = 4
  WireCapacity = 6
  Garbage = Garbage
  Incomplete = Incomplete
  Invalid = Invalid
PROPERTY NormalMeansPeerClosed
CHECK_DEADLOCK FALSE
