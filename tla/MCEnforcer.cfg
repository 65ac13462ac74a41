SPECIFICATION FairSpec
CONSTANTS
  TicksPerMinute = 1
  MinutesPerDay = 3
  DaysPerWeek = 2
  Configs <- MCConfigs
  Zone = 0
  MaxTime = 2
  Accounts <- MCAccounts
  Faults = {"fetch", "hang", "cacheOpen", "cacheWrite", "deny", "kill", "race", "update", "stop", "crash"}
  MaxFaults = 3
INVARIANTS
  TypeOK
  NoDeniedSession
  VersionsForward
PROPERTIES
  ImplementsRule
  SessionsEndDenied
  Converges
