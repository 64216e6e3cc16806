SPECIFICATION Spec

CONSTANTS
  Commands = {a, b}
  MaxCommands = 4
  SnapshotEvery = 2
  CrashForms = {"line", "torn"}
  SyncResults = {"ok"}

SYMMETRY Symmetry

INVARIANT
  ConfirmedSurvive
