CONSTANTS
  g1 = g1
  g2 = g2
  c1 = c1
  c2 = c2
  n1 = n1
  n2 = n2
  Goroutines = {g1, g2}
  Main = g1
  ControlServers = {c1, c2}
  ControlPlaneAddrs <- TwoServers
  Nodes = {n1, n2}
  States <- ChainEnds
  InitialEnds <- TwoNodes
  None = None
  MaxChanges = 1
  MayFail = {n1, c1}
  MaxFailures = 1
SPECIFICATION Spec
INVARIANTS ConnectionsConsistent RepeatedOnlyAfterLoss
 
CHECK_DEADLOCK FALSE
