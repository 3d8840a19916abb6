SPECIFICATION Spec
CONSTANTS
  Scripts <- DatetimeScripts
  Holders = {}
  RemoteCalls <- NoCalls
  MaxTasks = 2
  MaxBytes = 2
INVARIANTS
  DisconnectingWrites
CHECK_DEADLOCK FALSE
