SPECIFICATION Spec

CONSTANTS
  Nodes <- MCTwo
  Requests <- MCPayments
  Times <- MCTimes
  QueueLimit = 1
  Possible <- MCFaults
  MaxFaults = 2

CONSTRAINT RestartsAreEarly

INVARIANTS ChainsValid OnceInBooks FundsCovered AcceptedKept ChainsAgree
PROPERTIES RequestsSettled
CHECK_DEADLOCK FALSE
