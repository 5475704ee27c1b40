SPECIFICATION FairSpec
CONSTANTS
  Users = {stream, consumer, cleanup}
  Conns = {c1, c2, c3}
  NoConn = NoConn
  MaxTries = 2
  MaxDrops = 1
  MaxFaults = 1
  MaxCount = 3
INVARIANTS LegacyNoUseAfterClose CacheIsLive
PROPERTY LegacyNoLeak
CHECK_DEADLOCK FALSE
