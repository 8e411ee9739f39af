SPECIFICATION Spec
CONSTANTS
  o1 = o1
  o2 = o2
  o3 = o3
  Orders = {o1, o2, o3}
  MaxTime = 5
  Spread = {1}
  Lead = TRUE
  Edge = {0}
  Closed = {1}
  NewsLen = 1
  Alignment = FALSE
  CalmQuote = TRUE
  NotAfter = 5
  DropAt = 4
  Grace = 2
  Backstop = 2
  Scheduled = {"control", "widen"}
  Passes = 2
  MaxFires = 2
  MaxWiden = 1
  Faults = {"write", "crash"}
SYMMETRY OrderSymmetry
INVARIANT PromotedOnce
CHECK_DEADLOCK FALSE
