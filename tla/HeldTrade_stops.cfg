SPECIFICATION Spec
CONSTANTS
  o1 = o1
  o2 = o2
  o3 = o3
  Orders = {o1, o2}
  MaxTime = 6
  Spread = {1}
  Lead = FALSE
  Edge = {}
  Closed = {}
  NewsLen = 0
  Alignment = FALSE
  CalmQuote = FALSE
  NotAfter = 6
  DropAt = 4
  Grace = 2
  Backstop = 24
  Scheduled = {"watch", "widen"}
  Passes = 2
  MaxFires = 1
  MaxWiden = 2
  Faults = {"write", "crash"}
SYMMETRY OrderSymmetry
INVARIANT DrawnStopRemembered
CHECK_DEADLOCK FALSE
