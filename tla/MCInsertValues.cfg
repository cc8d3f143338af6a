CONSTANTS
  TaskCount = 3
  Settings <- MCSettings
SPECIFICATION FairSpec
INVARIANTS RowsExact CountMatchesTable StatementsAsConfigured RootCauseReturned
PROPERTIES NoBatchAfterError Termination
