SPECIFICATION EdSpec
CONSTANTS
  NoKey = NoKey
  Chapters = {c1, c2}
  Panels = {story}
  MaxEvents = 4
  MaxInFlight = 1
INVARIANT
  LossWindowIsBacked
CHECK_DEADLOCK FALSE
