SPECIFICATION Spec
CONSTANTS
  Base = 4
  Block = 3
  Types <- MCTypes
  MaxDepth = 4
  Objects <- MCObjects
  Garbage = {}
  MaxObjects = 1
INVARIANTS SerializesToBE
CHECK_DEADLOCK FALSE
