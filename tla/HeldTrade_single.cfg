SPECIFICATION FairSpec
CONSTANTS
  o1 = o1
  o2 = o2
  o3 = o3
  Orders = {o1, o2, o3}
  MaxTime = 5
  Spread = {0, 1}
  Lead = TRUE
  Edge = {2}
  Closed = {1, 4}
  NewsLen = 4
  Alignment = FALSE
  CalmQuote = FALSE
  NotAfter = 5
  DropAt = 4
  Grace = 2
  Backstop = 24
  Scheduled = {"watch", "widen"}
  Passes = 2
  MaxFires = 1
  MaxWiden = 2
  Faults = {}
INVARIANT NoDoubleEntry
PROPERTY HeldOrderAnswered
CHECK_DEADLOCK FALSE
