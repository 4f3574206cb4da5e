SPECIFICATION Spec
CONSTANTS
  r0 = r0
  r1 = r1
  r2 = r2
  r3 = r3
  NoRequest = NoRequest
  Requests <- MCRequests
  Early <- MCEarly
  Kinds <- MCKinds
  MaxInFlight = 2
  MaxSessions = 1
  SessionTTL = 1
  TrialTicks = 1
  Periods = {1}
  MaxTime = 1
  MaxFaults = 1
SYMMETRY Symmetry
INVARIANTS
  RotationIsLinear
  CoolingIsQuiet
  NoFreeTime
  BanIsSeen
CHECK_DEADLOCK FALSE
