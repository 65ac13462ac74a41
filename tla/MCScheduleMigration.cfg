SPECIFICATION WalkAndMigrationSpec
CONSTANTS
  TicksPerMinute = 2
  MinutesPerDay = 3
  DaysPerWeek = 2
  Zone = 1
  MaxWindows = 2
  Deadlines <- MCDeadlines
  Files <- MCFiles
  MaxStarts = 3
  MaxSkips = 2
INVARIANTS
  NextStartIsFirstOpening
  NextStartAdmits
  EndTimeIsReached
  StateShownIsStateEnforced
  AppTimeOnce
  BadFilesAlone
CHECK_DEADLOCK FALSE
