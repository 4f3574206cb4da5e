SPECIFICATION LoopsSpec
CONSTANTS
  Calls = {c1, c2, c3, c4}
  Window = 3
  Threshold = 50
  a = a
  b = b
  ann = ann
  s1 = s1
  t1 = t1
  t2 = t2
  w1 = w1
  w2 = w2
  NoTask = NoTask
  Free = Free
  Stale = Stale
  NoKey = NoKey
  Chapters = {h1}
  Panels = {story}
  MaxEvents = 4
  MaxInFlight = 1
INVARIANTS
  WindowBounded
PROPERTIES
  HalfOpenEnds
  BrokenIsRemoved
  PumpsEnd
  BroadcastsDrain
  EveryTaskFinishes
  UnsavedIsSaved
CHECK_DEADLOCK FALSE
