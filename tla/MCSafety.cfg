SPECIFICATION SideSpec
CONSTANTS
  t1 = t1
  t2 = t2
  w1 = w1
  w2 = w2
  Tasks <- MCTasks
  Workers <- MCWorkers
  NoTask = NoTask
  Free = Free
  Stale = Stale
  ChanCap = 1
  MaxRetries = 1
  RetrySlots = 1
  Unhandled = {t2}
  SlowRelease = TRUE
  Deployments = {"cloud", "desktop"}
  Faults = {"crash", "signal", "duplicate", "expiry", "db", "redis", "publish", "cancel"}
  MaxFaults = 1
  r1 = r1
  r2 = r2
  r3 = r3
  ann = ann
  bob = bob
  k1 = k1
  Nobody = Nobody
  Requests <- MCRequests
  Owner <- MCOwner
  Key <- MCKey
  Paid0 = 1
  Gift0 = 1
  Recognised = TRUE
  MaxImgFaults = 2
  MaxRestarts = 1
  DeskMaxEvents = 3
  Chapters = {h1, h2}
  Panels = {story}
  NoKey = NoKey
  MaxEvents = 4
  MaxInFlight = 1
SYMMETRY WorkerSymmetry
INVARIANTS
  OneRunnerPerTask
  RetryBudget
  NoSilentLoss
  MoneyConserved
  PayOnlyForATask
  NoTaskForFree
  UnsavedIsBackedUp
  StatusIsHonest
  ShellKeepsServerAndData
PROPERTIES
  CancelledNotRevived
CHECK_DEADLOCK FALSE
