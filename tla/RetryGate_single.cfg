SPECIFICATION Spec
CONSTANTS
  b1 = b1
  b2 = b2
  b3 = b3
  o1 = o1
  o2 = o2
  o3 = o3
  o4 = o4
  c1 = c1
  p1 = p1
  NoOrder = NoOrder
  Callers = {c1}
  Replacers = {}
  Sweeping = FALSE
  Bars = {b1, b2, b3}
  Orders = {o1, o2, o3}
  Cap <- CapTwo
  MultiShot = FALSE
  Faults <- SingleFaults
SYMMETRY OrderSymmetry
PROPERTY PoisonedIdPlacesNothing
CHECK_DEADLOCK FALSE
