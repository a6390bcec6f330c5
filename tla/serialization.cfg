SPECIFICATION Spec
CONSTANTS
  Base = 4
  Block = 3
  Types <- MCTypes
  MaxDepth = 4
  Objects <- MCObjects
  Garbage <- MCGarbage
  MaxObjects = 2
INVARIANTS RoundTrip SizesAgree NothingInvented RoomBounded
CHECK_DEADLOCK FALSE
