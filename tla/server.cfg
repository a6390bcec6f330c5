SPECIFICATION FairSpec
CONSTANTS
  Clients = {a, b, c}
  Descriptors <- MCDescriptors
  Backlog = 2
  ThreadLimit = 2
  MaxWrites = 2
  NoOne = NoOne
INVARIANTS OwnDescriptor NoDescriptorLost
PROPERTIES EndedIsClosed WrittenIsRead EveryoneAccepted
CHECK_DEADLOCK FALSE
