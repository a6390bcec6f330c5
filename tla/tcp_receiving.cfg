SPECIFICATION Spec
CONSTANTS
  Callers = {c1}
  Requests = {good, bad}
  Serializable = {good}
  FixedPartSize <- MCFixedPartSize
  MaxMessageSize = 16
  Responses <- MCResponses
  FillerTypes <- EventTypes
  InitialStreams <- BothStreams
  SendLimit = 100
  ReceiveLimit = 100
  MaxSends = 1
  MaxResponses = 2
  MaxStarts = 1
INVARIANTS TypeOK StreamFollowsSending OneResponsePerFiller
PROPERTIES ResponsesFifo
CHECK_DEADLOCK FALSE
