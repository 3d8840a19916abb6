SPECIFICATION Spec
CONSTANTS
  Scripts <- EchoScripts
  Holders = {}
  RemoteCalls <- NoCalls
  MaxTasks = 2
  MaxBytes = 4
INVARIANTS
  NoNullBuffer
CHECK_DEADLOCK FALSE
