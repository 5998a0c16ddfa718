SPECIFICATION DocSpec
CONSTANTS
  e1 = e1
  e2 = e2
  e3 = e3
  t1 = t1
  t2 = t2
  clerk = clerk
  a1 = a1
  a2 = a2
  a3 = a3
  k1 = k1
  k2 = k2
  invoice = invoice
  transfer = transfer
  Entry = {e1, e2}
  Call = {t1, t2}
  Task = {t1, t2}
  Account = {a1, a2}
  FirstAccount = {a1, a2}
  Periods = 0
  Year = {2026}
  Key = {k1, k2}
  Doc = {invoice, transfer}
  NeedsMapping = {invoice}
  KeyOf <- Keys
  Posting <- Undated
  Input <- AllInput
  ManualInput = {}
  Tolerance = 0
  None = None
INVARIANT DocInv
INVARIANT OneEntryPerDocument
PROPERTY TasksEnd
PROPERTY LifecycleSpec
CHECK_DEADLOCK FALSE
