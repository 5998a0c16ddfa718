SPECIFICATION Spec
CONSTANTS
  steel = steel
  m1 = m1
  m2 = m2
  m3 = m3
  r1 = r1
  r2 = r2
  k1 = k1
  k2 = k2
  Cell = {steel}
  Movement = {m1, m2, m3}
  Reservation = {r1, r2}
  Clerk = {k1, k2}
  Quantity = {1}
  Counted = {0}
  AtOnce = 2
  None = None
SYMMETRY Interchangeable
INVARIANT TypeOK
INVARIANT OnHandIsTraced
INVARIANT ReleasedHoldsNothing
CHECK_DEADLOCK FALSE
