SPECIFICATION FairSpec
CONSTANTS
  Users = {j1, j2, k1}
  JSMUsers = {j1, j2}
  Conns = {c1, c2, c3}
  NoConn = NoConn
  MaxRefs = 3
  MaxTimers = 2
  MaxDrops = 1
  MaxDeaths = 1
  MaxHashFailures = 1
PROPERTIES NoUseAfterCloseYet NoLeakYet
CHECK_DEADLOCK FALSE
