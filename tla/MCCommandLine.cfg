CONSTANTS
  Tokens <- MCTokens
  MaxArgs = 4
  Normal <- MCNormal
SPECIFICATION CommandSpec
INVARIANTS LeadingTaskRunsIfComplete OverridesReachTheTask
