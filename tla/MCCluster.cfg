SPECIFICATION ClusterSpec

CONSTANTS
  Nodes <- MCNodes
  MaxCrashes = 1
  MaxRestarts = 0
  Commands = {c1, c2}
  Nothing = Nothing

INVARIANTS
  SingleEngine
  ConfirmedRecoverable

PROPERTIES
  CommandsAnswered
  ImplementsDurableLog

CHECK_DEADLOCK FALSE
