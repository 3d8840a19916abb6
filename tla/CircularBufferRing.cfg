SPECIFICATION Spec
CONSTANTS
  Width = 4
  Period = 3
  MaxLen = 5
VIEW WithoutIo
INVARIANTS
  TypeOK
  Window
PROPERTIES
  OverrunOnlyAtLimit
  CapacityBounded
  ImplementsStream
CHECK_DEADLOCK FALSE
