SPECIFICATION Spec
CONSTANTS
  c1 = c1
  c2 = c2
  c3 = c3
  Ops <- MCOps
  Units = {1, 2}
  MaxAttempts = 2
  GiftValid = 1
  MaxTime = 2
SYMMETRY OpSymmetry
INVARIANTS
  LedgerReconciles
  OneRowPerSuccess
  StatementExact
PROPERTIES
  ImplementsWallet
CHECK_DEADLOCK FALSE
