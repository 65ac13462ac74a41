SPECIFICATION SpecAll
CONSTANTS
  Users = {"u"}
  Instants <- MCInstants
  MaxTime = 2
  MaxFaults = 4
INVARIANTS
  TypeOK
  PromisesEnforced
PROPERTIES
  LockTakesEffect
  FreeUsersLeave
