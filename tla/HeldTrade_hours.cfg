SPECIFICATION Spec
CONSTANTS
  o1 = o1
  o2 = o2
  o3 = o3
  Orders = {o1, o2}
  MaxTime = 5
  Spread = {}
  Lead = TRUE
  Edge = {}
  Closed = {1, 2, 3}
  NewsLen = 0
  Alignment = FALSE
  CalmQuote = FALSE
  NotAfter = 5
  DropAt = 4
  Grace = 2
  Backstop = 24
  Scheduled = {"watch"}
  Passes = 1
  MaxFires = 1
  MaxWiden = 2
  Faults = {}
SYMMETRY OrderSymmetry
INVARIANT PulledOrderKept
CHECK_DEADLOCK FALSE
