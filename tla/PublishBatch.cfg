SPECIFICATION PubSpec
CONSTANTS
  PubMaxEvents = 4
  MaxChapters = 3
PROPERTIES
  RefusedForAReason
CHECK_DEADLOCK FALSE
