CONSTANTS
  Conns = {c1, c2}
  NoConn = NoConn
  MaxFds = 2
  Keys = {"", "k"}
  Scripts <- MCScripts
  Loads <- MCLoads
SPECIFICATION FairSpec
INVARIANTS DiesOnlyOnSend DBAlive Isolation
PROPERTY StopEndsUnlessRaced
