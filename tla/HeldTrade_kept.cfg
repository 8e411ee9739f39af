SPECIFICATION Spec
CONSTANTS
  o1 = o1
  o2 = o2
  o3 = o3
  Orders = {o1, o2}
  MaxTime = 7
  Spread = {}
  Lead = TRUE
  Edge = {}
  Closed = {3}
  NewsLen = 0
  Alignment = TRUE
  CalmQuote = TRUE
  NotAfter = 7
  DropAt = 4
  Grace = 2
  Backstop = 2
  Scheduled = {"watch"}
  Passes = 2
  MaxFires = 1
  MaxWiden = 2
  Faults = {"cancel", "answer", "lookup", "positions", "crash"}
SYMMETRY OrderSymmetry
INVARIANTS TypeOK PulledOrderKept
CHECK_DEADLOCK FALSE
