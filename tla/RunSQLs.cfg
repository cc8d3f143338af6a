\* Two workers, two statements, at most two runs of each.
CONSTANTS
  ItemCount = 2
  Clients = {w1, w2}
  Limits = {0, 1, 2}
  MaxRuns = 2
  MaxRows = 1
SPECIFICATION FairSpec
INVARIANTS TypeOK RunNumbersUnique RunsAccounted FailFast OutcomeTruthful
PROPERTIES AtMostOneLateRun Termination ImplementsQuota
