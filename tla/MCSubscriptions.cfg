CONSTANTS
  t1 = t1
  t2 = t2
  unknown = unknown
  s1 = s1
  s2 = s2
  Topics <- MCTopics
  Users = {u1}
  Streams <- MCStreams
  Requests <- MCRequests
  Capacity = 1
  MaxWrites = 3
  MaxTokens = 2
SPECIFICATION Spec
SYMMETRY StreamSymmetry
INVARIANTS SubscriptionsTypeOK NeverSendsOnClosed SubscribersUpToDate TokensOpenOnce
CHECK_DEADLOCK FALSE
