SPECIFICATION Spec
CONSTANTS
  steel = steel
  m1 = m1
  m2 = m2
  m3 = m3
  r1 = r1
  r2 = r2
  k1 = k1
  k2 = k2
  Cell = {steel}
  Movement = {m1, m2, m3}
  Reservation = {r1}
  Clerk = {k1}
  Quantity = {1, 2}
  Counted = {0, 1}
  AtOnce = 1
  None = None
SYMMETRY Interchangeable
INVARIANT OnlyCountsOverdraw
INVARIANT LedgerTellsTheBalance
CHECK_DEADLOCK FALSE
