SPECIFICATION FairSpec
CONSTANTS
  Callers = {c1, c2}
  Requests = {good, bad}
  Serializable = {good}
  FixedPartSize <- MCFixedPartSize
  MaxMessageSize = 16
  Responses <- MCTwoReplies
  FillerTypes <- EventTypes
  InitialStreams <- BothStreams
  SendLimit = 0
  ReceiveLimit = 100
  MaxSends = 3
  MaxResponses = 0
  MaxStarts = 2
INVARIANTS RequestsInOrder SendQueueBound NullStreamNeedsRestart DeadNeedsRestart
PROPERTIES ErrorSticks RequestsFifo StopEndsBoth ErrorEndsBoth AcceptedIsWritten
CHECK_DEADLOCK FALSE
