CONSTANTS
  N = 3
  Initial = 3
  Writes = {w1, w2}
  MaxFaults = 0
  MayCrash = {2}
  MayLeave = {}
  MaxChanges = 1
SPECIFICATION ReconfigurationSpec
SYMMETRY WriteSymmetry
INVARIANTS MembersSurvive AnsweredSurvives StoragesAgree NothingLeftBehind
CHECK_DEADLOCK FALSE
