SPECIFICATION Spec
CONSTANTS
  Conns = {c1, c2, c3, c4, c5}
  Fds = {3, 4}
  MaxHeld = 1
  Listener = listener
  None = none
  MaxBacklog = 1
  MaxAborts = 1
  MaxTasks = 1
INVARIANTS
  TypeOK
  NoStalePointer
  MapHoldsTheOpen
  NoDescriptorLeak
PROPERTIES
  BacklogTaken
