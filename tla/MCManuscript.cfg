SPECIFICATION Spec
CONSTANTS
  r1 = r1
  r2 = r2
  c1 = c1
  c2 = c2
  c3 = c3
  c4 = c4
  Requests = {r1, r2}
  Chapters = {c1, c2, c3, c4}
  First <- MCFirst
  None = None
  Past = Past
  Kinds = {"create", "open", "reorder", "read", "agent", "save", "delete", "mark", "rollback", "put", "trash", "untrash", "purge", "bundle", "revert"}
  MaxInFlight = 2
  AutoKeep = 1
  MaxFaults = 1
SYMMETRY Symmetry
INVARIANTS
  AloneNeverConflicts
  CountCatchesUp
PROPERTIES
  RollbackIsReversible
  OutlineOrders
  CleanupSparesBound
