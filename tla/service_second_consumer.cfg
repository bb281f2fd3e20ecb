SPECIFICATION Spec
CONSTANTS
  Feed = {f1, f2}
  QueueMax = 1
  CriticalDepth = 1
  MaxEvents = 3
  MaxStarts = 2
SYMMETRY FeedSymmetry
INVARIANTS
  OneCallerOfRunner
CHECK_DEADLOCK FALSE
