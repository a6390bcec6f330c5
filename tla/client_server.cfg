SPECIFICATION SpecBoth
CONSTANTS
  Clients = {me, other}
  Me = me
  NoOne = NoOne
  Descriptors <- MCDescriptors
  Backlog = 1
  ThreadLimit = 2
  MaxWrites = 1
  Callers = {c1}
  Requests = {r}
  EventTypesFilled <- MCEventTypes
  FixedPartSize <- MCFixedPartSize
  MaxMessageSize = 16
  SendLimit = 0
  ReceiveLimit = 100
  MaxSends = 1
  MaxStarts = 2
INVARIANTS  MutualWait
PROPERTIES EndOfServerEndsAdapter StopFreesReceiver
CHECK_DEADLOCK FALSE
