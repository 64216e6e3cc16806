SPECIFICATION Spec

CONSTANTS
  Nodes <- MCThree
  Requests <- MCSpent
  Times <- MCTimes
  QueueLimit = 1
  Possible <- MCOverlap
  MaxFaults = 2

INVARIANTS OneAtATime
CHECK_DEADLOCK FALSE
