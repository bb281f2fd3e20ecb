SPECIFICATION FairSpec
CONSTANTS
  Feed = {f1, f2}
  QueueMax = 3
  CriticalDepth = 2
  MaxEvents = 3
  MaxStarts = 2
INVARIANTS
  TypeOK
  OneCallerIfOrderly
  StoppedIsQuiet
  SessionFollowsService
  AliveIsReported
  EventHeldOnce
PROPERTIES
  EventsInOrder
  OperatorReturns
  QueueIsServed
CHECK_DEADLOCK FALSE
