\* Two workers; the first pair may run twice at once, the second has no name.
CONSTANTS
  ItemCount = 2
  Clients = {w1, w2}
  Limits = {0, 1, 2}
  MaxRuns = 2
  NoWriter = NoWriter
  PairName <- MCOneUnnamed
  InitialFiles <- MCFiles
SPECIFICATION FairSpec
INVARIANTS FirstFailureIsGenuine NoFailureSwallowed SuccessIsComplete
  SidesInStep
PROPERTIES FilesKept Termination
