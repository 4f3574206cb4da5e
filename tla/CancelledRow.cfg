SPECIFICATION Spec
CONSTANTS
  Tasks = {t1, t2}
  Workers = {w1, w2}
  NoTask = NoTask
  Free = Free
  Stale = Stale
  ChanCap = 1
  MaxRetries = 1
  RetrySlots = 1
  Unhandled = {}
  SlowRelease = TRUE
  Deployments = {"cloud", "desktop"}
  Faults = {"cancel"}
  MaxFaults = 1
PROPERTIES
  CancelledIsTerminal
CHECK_DEADLOCK FALSE
