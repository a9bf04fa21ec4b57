CONSTANTS
  N = 3
  Initial = 2
  Writes = {w1}
  MaxFaults = 0
  MayCrash = {2}
  MayLeave = {}
  MaxChanges = 1
SPECIFICATION FairReconfigurationSpec
PROPERTIES AnsweredDespiteCrash JoinerCatchesUp
CHECK_DEADLOCK FALSE
