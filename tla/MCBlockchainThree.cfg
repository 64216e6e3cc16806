SPECIFICATION Spec

CONSTANTS
  Nodes <- MCThree
  Requests <- MCCredit
  Times <- MCTimes
  QueueLimit = 1
  Possible <- MCHandling
  MaxFaults = 2

INVARIANTS OnceInBooks
PROPERTIES RequestsSettled
CHECK_DEADLOCK FALSE
