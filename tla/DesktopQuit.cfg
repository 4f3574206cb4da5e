SPECIFICATION DeskSpec
CONSTANTS
  MaxRestarts = 1
  DeskMaxEvents = 3
INVARIANT QuitKillsServer
CHECK_DEADLOCK FALSE
