SPECIFICATION FairSpec
CONSTANTS
  Conns = {c1, c2, c3}
  NoConn = NoConn
  Workers = {w1}
  Backlog = 1
  MboxSize = 1
  Configs <- MCSelfClose
  MaxLru = 2
PROPERTIES
  StopReturns
CHECK_DEADLOCK FALSE
