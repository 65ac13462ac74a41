SPECIFICATION Spec
CONSTANTS
  TicksPerMinute = 1
  MinutesPerDay = 3
  DaysPerWeek = 2
  Users = {u}
  Handlers = {h}
  Windows <- MCOverlap
  BonusMinutes = {1}
  ServerZone = 1
  ClientZone = 1
  Forever = 99
  MaxSchedules = 2
  MaxTime = 4
  MaxBonusEnd = 6
PROPERTIES
  BonusExtends
