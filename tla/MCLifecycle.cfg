SPECIFICATION FairSpec
CONSTANTS
  Versions = {1, 2, 3}
  MaxFaults = 3
INVARIANTS
  TypeOK
  ServerTrusted
  OneIdentity
  ToldIsAccepted
  BinaryWhole
PROPERTIES
  UpdatesSettle
CHECK_DEADLOCK FALSE
