SPECIFICATION Spec
CONSTANTS
  Owner = owner
  Remote = {r1, r2}
  Io = {io}
  Notify = notify_event
  Free = free
  NotifyMax = 2
  InitialEvents = 1
  MaxPosts = 2
INVARIANTS
  TypeOK
  NoLostWakeup
  NothingLost
  EpollEventsBounded
PROPERTIES
  InvokedInOrder
  PostedIsInvoked
  StopEndsRun
