SPECIFICATION Spec
CONSTANTS
  Order = {o1}
  NoOrder = NoOrder
  Qty = {1}
  Depth = {1}
  AllowDegraded = FALSE
  Modes = {"paper"}
  Venue = "paper"
  ReportedQty = {}
  MaxAnswer = 0
  MaxLog = 0
  Faults = {}
  Skew <- ClockBehind
  MaxClock = 0
INVARIANTS
  RestoredOrdersAreClosed
