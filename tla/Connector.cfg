SPECIFICATION Spec
CONSTANTS
  Sessions = {s1, s2}
  Fds = {f1, f2}
  None = none
INVARIANTS
  TypeOK
  NoForeignClose
  OneOutcome
  HandedOver
PROPERTIES
  AttemptReported
CHECK_DEADLOCK FALSE
