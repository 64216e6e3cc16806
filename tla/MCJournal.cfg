SPECIFICATION Spec

CONSTANTS
  Commands = {a, b}
  MaxCommands = 5
  SnapshotEvery = 2
  CrashForms = {"line"}
  SyncResults = {"ok"}

SYMMETRY Symmetry

INVARIANTS
  TypeOK
  SequenceMatchesEngine
  DiskIsHistory
  ConfirmedSurvive

PROPERTY
  ImplementsDurableLog
