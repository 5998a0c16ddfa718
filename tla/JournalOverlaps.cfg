SPECIFICATION Spec
CONSTANTS
  e1 = e1
  e2 = e2
  e3 = e3
  c1 = c1
  c2 = c2
  a1 = a1
  a2 = a2
  a3 = a3
  k1 = k1
  Entry = {e1, e2}
  Call = {c1, c2}
  Account = {a1, a2, a3}
  FirstAccount = {a1, a2}
  Periods = 0
  Year = {2025, 2026}
  Key = {k1}
  Input <- PostedInput
  Tolerance = 1
  None = None
SYMMETRY Interchangeable
INVARIANT LoneNumberIsFree
INVARIANT PostedWasBalanced
INVARIANT RowsAreWellFormed
PROPERTY ParentAccountDrains
CHECK_DEADLOCK FALSE
