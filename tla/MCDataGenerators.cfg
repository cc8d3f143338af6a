CONSTANTS
  Programs <- MCPrograms
  MaxRuns = 2
  Specials = {0, 1}
  Expected = {3, 5}
  VarcharLen = 3
  Prefix = 2
  MaxRepeat = 2
  DistinctRows = 3
  RowsPerValue = 1
  Numbers = 3
  PairLists = 2
  WindowRows = {3}
  MaxPartition = 3
  Stride = 2
  ParallelRows = 5
SPECIFICATION FairSpec
INVARIANTS RowsAsAsked WindowTableExact PanicsOnlyForDatabase
PROPERTY Termination
