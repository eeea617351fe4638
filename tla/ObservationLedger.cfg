SPECIFICATION Spec
CONSTANTS
  Deliveries = {d1, d2, d3}
  Sources = {"ci", "lab"}
  Orderly = {"ci"}
  Owners = {"alice", "bob"}
  EventIds = {e1, e2, e3}
  Contents = {x, y}
  KeyRing <- Rotation
  I64Max = 2
  MaxTime = 1
SYMMETRY Symmetry
CHECK_DEADLOCK FALSE
INVARIANTS
  LedgerChained
  ReceiptsHold
  InsertsFit
  OrderlyNeverConflict
