SPECIFICATION Spec
CONSTANTS
  TicksPerMinute = 1
  MinutesPerDay = 2
  DaysPerWeek = 2
  Users = {u}
  Handlers = {h1, h2}
  Windows <- MCDaily
  BonusMinutes = {1}
  ServerZone = 1
  ClientZone = 0
  Forever = 99
  MaxSchedules = 1
  MaxTime = 3
  MaxBonusEnd = 4
SYMMETRY MCSymmetry
INVARIANTS
  TypeOK
  LockKept
  LockEnds
  BonusKept
  CleanupHarmless
PROPERTIES
  ImplementsPromises
