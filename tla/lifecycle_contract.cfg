SPECIFICATION Spec
CONSTANTS
  Order = {o1}
  NoOrder = NoOrder
  Qty = {3}
  Depth = {1}
  AllowDegraded = FALSE
  Modes = {"paper"}
  Venue = "contract"
  ReportedQty = {}
  MaxAnswer = 0
  MaxLog = 0
  Faults = {"torn_write", "register_error", "reconcile_error"}
  Skew <- ClockBehind
  MaxClock = 1
INVARIANTS
  StateIsWhatReplayGives
PROPERTIES
  LogIsALedger
