SPECIFICATION Spec
CONSTANTS
  steel = steel
  m1 = m1
  m2 = m2
  m3 = m3
  r1 = r1
  r2 = r2
  k1 = k1
  k2 = k2
  Cell = {steel}
  Movement = {m1}
  Reservation = {r1, r2}
  Clerk = {}
  Quantity = {1}
  Counted = {}
  AtOnce = 2
  None = None
SYMMETRY Interchangeable
INVARIANT NothingPromisedTwice
CHECK_DEADLOCK FALSE
