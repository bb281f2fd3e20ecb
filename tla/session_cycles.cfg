SPECIFICATION FairSessionSpec
CONSTANTS
  Order = {o1, o2}
  NoOrder = NoOrder
  Qty = {1}
  Depth = {1}
  AllowDegraded = FALSE
  Modes = {"paper"}
  Venue = "contract"
  ReportedQty = {}
  MaxAnswer = 0
  MaxLog = 0
  Faults = {"torn_write", "reconcile_error"}
  Skew <- ClockExact
  MaxClock = 1
  NoSnapshot = NoSnapshot
  Configs = {{"every_fill", "on_stop", "tca_fails"}, {"every_fill", "on_stop", "limit"},
             {"every_fill", "on_stop", "save_fails"}, {"on_stop", "save_fails"}}
INVARIANTS
  SessionTypeOK
  PortfolioWithinLog
  SnapshotIsCurrent
  StoppedIsSaved
PROPERTIES
  SnapshotNeverForgets
  RunsOnlyAfterRecovery
  FillsReachSnapshot
