SPECIFICATION Spec
CONSTANTS
  Order = {o1}
  NoOrder = NoOrder
  Qty = {1}
  Depth = {1}
  AllowDegraded = FALSE
  Modes = {"paper"}
  Venue = "disorderly"
  ReportedQty = {1, 2}
  MaxAnswer = 3
  MaxLog = 5
  Faults = {"append_error", "register_error", "reconcile_error"}
  Skew <- ClockBehind
  MaxClock = 0

INVARIANTS
  LogNotAheadOfMemory
