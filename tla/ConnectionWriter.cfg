SPECIFICATION Spec
CONSTANTS
  Scripts <- WriterScripts
  Holders = {}
  RemoteCalls <- NoCalls
  MaxTasks = 4
  MaxBytes = 6
INVARIANTS
  NoUseAfterFree
  DispatchedWhileOpen
PROPERTIES
  ClosedIsFreed
  ImplementsSession
  ResetCloses
CHECK_DEADLOCK FALSE
