SPECIFICATION Spec
CONSTANT NumIoThreads = 3
INVARIANTS
  TypeOK
  RunReturnsLast
  LoopOutlivesAcceptor
  NoSleepAtZero
PROPERTIES
  ShutdownEnds
