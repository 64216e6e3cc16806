SPECIFICATION MerkleSpec

CONSTANTS
  MaxClock = 2
  MaxIds = 3
  MaxFaults = 0
  NoWindow = NoWindow
  NoTx = NoTx

INVARIANT
  LeavesReplayable

CHECK_DEADLOCK FALSE
