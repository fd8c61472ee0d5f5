CONSTANTS
  Threads = {m, t1, t2}
  Main = m
  None = None
  Vars = {0, 1}
  SyncVars = {1}
  Lens = {0, 1, 2}
  SyncOps = {"LOCK", "UNLOCK"}
  MaxThread = 3
  MaxFile = 5
  \* Five events of two elements each: the detector never meets its bound.
  MaxEvents = 10
SYMMETRY MCSymmetry
SPECIFICATION LoadSpec
INVARIANTS
  FilterLosesNoRace
  CleanTracesPass
CHECK_DEADLOCK FALSE
