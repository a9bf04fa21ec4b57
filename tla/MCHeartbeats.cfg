CONSTANTS
  s1 = s1
  s2 = s2
  Servers = {s1, s2}
  ServerList <- TwoServers
  Nodes = {n1}
  None = None
  Interval = 4
  Timeout = 5
  MaxTerms = 3
  MaxFailures = 2
SPECIFICATION FairSpec
INVARIANTS HeartbeatsTypeOK
PROPERTIES RemovedOnlyIfSilent DeadAreRemoved
CHECK_DEADLOCK FALSE
