SPECIFICATION Spec

CONSTANTS
  Events <- MCTrades
  MaxLength <- MCMaxLength
  Prefetch = 2
  MaxFaults = 1

INVARIANTS NothingVanishes AuditTrail ProjectedInOrder
PROPERTIES QueuesDrain
CHECK_DEADLOCK FALSE
