CONSTANTS
  Workers = {w1, w2}
  Conns = {c1, c2}
  NoConn = NoConn
  SQLs <- MCSQLs
  Setups <- MCSetups
  Pools <- MCPools
  MaxExecs = 2
SPECIFICATION FairSpec
INVARIANT OneOwner
PROPERTIES ImplementsPrivateSessions Termination
