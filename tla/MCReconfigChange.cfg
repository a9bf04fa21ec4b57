CONSTANTS
  N = 3
  Initial = 2
  Writes = {w1, w2}
  MaxFaults = 1
  MayCrash = {1, 2}
  MayLeave = {1, 2}
  MaxChanges = 1
SPECIFICATION ReconfigurationSpec
SYMMETRY WriteSymmetry
INVARIANTS ReconfigurationTypeOK OnlyCrashesKill WiredAsChain
CHECK_DEADLOCK FALSE
