CONSTANTS
  t1 = t1
  t2 = t2
  Topics = {t1, t2}
  Existing <- OneTopic
  Threads = {h1, h2}
  None = None
  Limit = 3
  MaxEvents = 3
  MaxInputs = 3
SYMMETRY Symmetry
SPECIFICATION Spec
INVARIANTS CacheIsTheBoard ViewFollowsSelection 
CHECK_DEADLOCK FALSE
