SPECIFICATION Spec
CONSTANTS
  Hosts = {"h"}
  Users = {"u"}
  Exes <- MCExes
  Apps <- MCApps
  NameOf <- MCNames
  Unknown = "unknown"
  TicksPerDay = 2
  MaxTime = 2
  Faults = {"register", "untrusted", "send", "drop", "record", "restart", "exit"}
  MaxFaults = 2
INVARIANTS
  TypeOK
  AppTimeKept
  CountedOnce
  ScreenTimeWithinClock
  AppWithinScreen
PROPERTIES
  StatusesForward
CHECK_DEADLOCK FALSE
