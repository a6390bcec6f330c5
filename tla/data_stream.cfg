SPECIFICATION Spec
CONSTANTS
  Byte <- MCByte
  Data <- MCData
  Others <- MCOthers
  MaxLength = 4
INVARIANTS PositionInside
 
CHECK_DEADLOCK FALSE
