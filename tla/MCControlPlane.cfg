CONSTANTS
  s1 = s1
  s2 = s2
  n1 = n1
  n2 = n2
  n3 = n3
  Servers = {s1, s2}
  ServerList <- TwoServers
  Nodes = {n1, n2, n3}
  Initial <- TwoNodes
  Nil = Nil
  MayCrash = {n1}
  MayLeave = {n1, n2}
  MaySuspect = {n2}
  MaxEvents = 3
SPECIFICATION Spec
INVARIANTS ControlPlaneTypeOK ReplicasAgree NoServerPanics WiredUnlessDisturbed RefusedAfterLostAnswer
CHECK_DEADLOCK FALSE
