SPECIFICATION Spec
CONSTANTS
  Clerk = {c1, c2}
  Commission = {x1, x2}
  Month = {m1, m2}
  Total = 2
  AssetMonth = {a1, a2, a3}
  Life = 2
  Items = 2
  Mapped = TRUE
  MaxValue = 2
  Policy = {p1, p2}
  Shares = 2
  Orders = 2
  MaxEntries = 1
  MaxVersion = 3
  PlanItems = 2
  MaxOrders = 2
  Node = {n1, n2, n3}
  Top = Top
  Workflow = {w1}
  Levels = 2
  Inspection = {i1, i2}
  Parameter = {q1, q2}
  MaxResults = 2
  Selection = {s1, s2}
  MaxChanges = 2
SYMMETRY Symmetry
INVARIANTS
  BackOfficeTypeOK
  PaidIsOnAPayslip
  NeverMoreThanWithheld
  DepreciationIsPosted
  PostedIsCapitalized
  NeverMoreThanThePool
  OnlyOneDefault
  OneOrderPerItem
  TreeIsSound
  FailedHasACause
  ConfirmedIsShown
  SubmitsOnce
  BusyIsWorking
  SelectedIsShown
PROPERTIES
  SettledIsNotEscalated
CHECK_DEADLOCK FALSE
