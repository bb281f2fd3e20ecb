SPECIFICATION FairSpec
CONSTANTS
  Order = {o1, o2}
  NoOrder = NoOrder
  Qty <- Sizes
  Depth = {0, 1, 2}
  AllowDegraded = TRUE
  Modes = {"paper", "dry_run", "live"}
  Venue = "paper"
  ReportedQty = {}
  MaxAnswer = 0
  MaxLog = 0
  Faults = {"torn_write", "adapter_error"}
  Skew <- ClockBehind
  MaxClock = 0
INVARIANTS
  TypeOK
  LogReplays
  MemoryIsWhatReplayGives
  FilledWithinSize
  NothingRestsAtPaperVenue
PROPERTIES
  ClosedInLogIsFinal
  OrphansAreClosed
