CONSTANTS
  N = 2
  Initial = 2
  Writes = {w1, w2}
  MaxFaults = 0
  MayCrash = {1}
  MayLeave = {}
  MaxChanges = 1
SPECIFICATION ReconfigurationSpec
INVARIANT HeadSendsItsOwn
CHECK_DEADLOCK FALSE
