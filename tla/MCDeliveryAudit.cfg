SPECIFICATION Spec

CONSTANTS
  Events <- MCOrder
  MaxLength <- MCMaxLength
  Prefetch = 2
  MaxFaults = 0

INVARIANTS AuditTrailComplete
CHECK_DEADLOCK FALSE
