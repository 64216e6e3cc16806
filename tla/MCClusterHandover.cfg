SPECIFICATION ClusterSpec

CONSTANTS
  Nodes <- MCNodes
  MaxCrashes = 1
  MaxRestarts = 1
  Commands = {c1, c2}
  Nothing = Nothing

INVARIANT
  ConfirmedRecoverable

CHECK_DEADLOCK FALSE
