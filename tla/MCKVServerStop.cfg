CONSTANTS
  Conns = {c1, c2}
  NoConn = NoConn
  MaxFds = 1
  Keys = {"", "k"}
  Scripts <- MCScripts
  Loads <- MCStopLoads
SPECIFICATION FairSpec
PROPERTY StopEnds
