SPECIFICATION Spec
CONSTANTS
  Scripts <- ForceScripts
  Holders = {"local"}
  RemoteCalls <- NoCalls
  MaxTasks = 2
  MaxBytes = 2
INVARIANTS
  AssertionHolds
CHECK_DEADLOCK FALSE
