SPECIFICATION Spec
CONSTANTS
  N = 3
  Writes = {w1, w2}
  MaxFaults = 1
SYMMETRY WriteSymmetry
INVARIANT TypeOK
INVARIANT BuffersFollowHead
INVARIANT AppliedDownstreamFirst
INVARIANT AnsweredIsEverywhere
INVARIANT OwnResult
INVARIANT NeverPanics
INVARIANT NothingForgotten
INVARIANT WaitingIsNotInVain
PROPERTY ImplementsCommittedLog
CHECK_DEADLOCK FALSE
