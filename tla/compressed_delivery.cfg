SPECIFICATION Spec
CONSTANTS
  b = b
  e = e
  Payloads <- SomePayloads
  ExtHeaders <- SomeHeaders
  LengthRange = 2
  PayloadRange = 3
  Limit = 2
  Refused = Refused
INVARIANTS AlwaysDecompressed
CHECK_DEADLOCK FALSE
