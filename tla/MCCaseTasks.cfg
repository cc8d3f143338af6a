CONSTANTS
  Sources <- MCSources
  Files <- MCFiles
  MaxCalls = 2
SPECIFICATION Spec
INVARIANTS AllOrNothing SerialExact WholeConfigurationOrNothing
