SPECIFICATION MerkleSpec

CONSTANTS
  MaxClock = 3
  MaxIds = 3
  MaxFaults = 2
  NoWindow = NoWindow
  NoTx = NoTx

INVARIANTS
  MissedOnlyIfLate
  CountedOnce
  RootProvesLeaves

CHECK_DEADLOCK FALSE
