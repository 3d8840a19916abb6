SPECIFICATION Spec
CONSTANTS
  Width = 4
  Period = 3
  MaxLen = 4
INVARIANT NoJunk
CHECK_DEADLOCK FALSE
