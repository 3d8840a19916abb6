SPECIFICATION Spec
CONSTANTS
  Scripts <- AnyScripts
  Holders = {"local", "remote"}
  RemoteCalls <- AnyCall
  MaxTasks = 2
  MaxBytes = 2
INVARIANTS
  TypeOK
  EpollAgrees
  WritingHasBytes
  BytesHaveWriter
PROPERTIES
  ClosedIsFinal
CHECK_DEADLOCK FALSE
