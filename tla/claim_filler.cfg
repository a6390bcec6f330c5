SPECIFICATION FairSpec
CONSTANTS
  Callers = {c1}
  Requests = {good, bad}
  Serializable = {}
  FixedPartSize <- MCFixedPartSize
  MaxMessageSize = 16
  Responses <- MCOneReply
  FillerTypes <- EventTypes
  InitialStreams <- Production
  SendLimit = 100
  ReceiveLimit = 100
  MaxSends = 0
  MaxResponses = 2
  MaxStarts = 1
PROPERTIES FreshFiller
CHECK_DEADLOCK FALSE
