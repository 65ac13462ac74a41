SPECIFICATION Spec
CONSTANTS
  Hosts = {"h"}
  Users = {"u"}
  Exes <- MCExes
  Apps <- MCApps
  NameOf <- MCNames
  Unknown = "unknown"
  TicksPerDay = 2
  MaxTime = 2
  Faults = {"send"}
  MaxFaults = 1
INVARIANTS
  ScreenTimeKept
CHECK_DEADLOCK FALSE
