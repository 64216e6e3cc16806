SPECIFICATION Spec

CONSTANTS
  Nodes <- MCTwo
  Requests <- MCLegacy
  Times <- MCTimes
  QueueLimit = 1
  Possible <- MCRestart
  MaxFaults = 2

INVARIANTS ChainsValid OnceInBooks
CHECK_DEADLOCK FALSE
