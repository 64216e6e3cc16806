SPECIFICATION Spec

CONSTANTS
  Nodes <- MCTwo
  Requests <- MCRequests
  Times <- MCTimes
  QueueLimit = 2
  Possible <- MCNoRestart
  MaxFaults = 2

INVARIANTS OnceInBooks FundsCovered AcceptedKept ChainsAgree
CHECK_DEADLOCK FALSE
