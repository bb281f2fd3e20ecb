SPECIFICATION FairSpec
CONSTANTS
  MaxUpdate = 3
  MaxAttempts = 2
INVARIANTS FeedTypeOK BookHasNoHole UpMeansReady
PROPERTIES ShutdownEnds FeedComesBack
CHECK_DEADLOCK FALSE
