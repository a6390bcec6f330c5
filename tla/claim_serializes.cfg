SPECIFICATION Spec
CONSTANTS
  FixedPartSize <- MCFixedPartSize
  MaxMessageSize = 64
  Names <- MCNames
  Messages <- MCMessages
  MaxFed = 70
  Contents = {}
INVARIANTS SerializesRequests
CHECK_DEADLOCK FALSE
