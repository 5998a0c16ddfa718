SPECIFICATION Spec
CONSTANTS
  Clerk = {c1, c2}
  Tables <- AllTables
  Milestones <- RowMilestones
  Final <- FinalStatuses
  Key = {k1, k2}
  MaxRows = 2
SYMMETRY Symmetry
INVARIANTS
  RegistersTypeOK
  NumbersAreDense
  KeysNeverRepeat
  MilestonesInOrder
  EffectsOnce
PROPERTY
  FinalStaysFinal
CHECK_DEADLOCK FALSE
