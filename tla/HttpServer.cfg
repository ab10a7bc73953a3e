SPECIFICATION FairSpec
CONSTANTS
  Conns = {c1, c2, c3}
  NoConn = NoConn
  Workers = {w1, w2}
  Backlog = 1
  MboxSize = 1
  Configs <- MCConfigs
  MaxLru = 1
INVARIANTS
  
  AsyncKept
PROPERTIES
  NobodyStarves
