SPECIFICATION Spec
CONSTANTS
  Task = {t1, t2}
  MaxEntries = 2
  MaxShared = 1
  MaxBusy = 2
  MaxCalls = 2
  MaxQuiet = 1
  MaxAttempts = 2
SYMMETRY Symmetric
INVARIANTS
  FactoryMatches
  InOrderOnce
  AliveIsRunning
  OnlyOutermost
  Accounted
PROPERTIES
  OnlyWhatPassed
  IntoOpenEntry
CHECK_DEADLOCK FALSE
