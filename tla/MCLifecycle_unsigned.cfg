SPECIFICATION Spec
CONSTANTS
  Versions = {1, 2}
  MaxFaults = 1
PROPERTIES
  InstallsWhatIsSigned
CHECK_DEADLOCK FALSE
