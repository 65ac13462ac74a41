SPECIFICATION FairSpec
CONSTANTS
  TicksPerMinute = 1
  MinutesPerDay = 3
  DaysPerWeek = 2
  Configs <- MCConfigs
  Zone = 0
  MaxTime = 2
  Accounts <- MCAccounts
  Faults = {"hang"}
  MaxFaults = 2
PROPERTIES
  CachedRulesEnforced
