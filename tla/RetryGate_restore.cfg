SPECIFICATION Spec
CONSTANTS
  b1 = b1
  b2 = b2
  b3 = b3
  o1 = o1
  o2 = o2
  o3 = o3
  o4 = o4
  c1 = c1
  p1 = p1
  NoOrder = NoOrder
  Callers = {c1}
  Replacers = {p1}
  Sweeping = TRUE
  Bars = {b1, b2}
  Orders = {o1, o2}
  Cap <- CapOne
  MultiShot = TRUE
  Faults <- AllButSupersede
SYMMETRY OrderSymmetry
INVARIANTS TypeOK SlotsWithinCap SupersededNeverEntered NeverCancelThenReject FreshAttemptNumber
