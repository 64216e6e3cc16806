SPECIFICATION Spec

CONSTANTS
  Nodes <- MCTwo
  Requests <- MCQueued
  Times <- MCTimes
  QueueLimit = 2
  Possible <- MCFaults
  MaxFaults = 1

INVARIANTS Once
CHECK_DEADLOCK FALSE
