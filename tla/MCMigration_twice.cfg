SPECIFICATION Spec
CONSTANTS
  Files <- MCFiles
  MaxStarts = 3
  MaxSkips = 2
INVARIANTS
  ScreenTimeOnce
CHECK_DEADLOCK FALSE
