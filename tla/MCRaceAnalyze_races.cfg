CONSTANTS
  Main = main
  Threads = {main, a, b}
  SyncVars = {m}
  Vars = {x}
  SyncOps <- MCSyncOps
  MaxEvents = 6
  Insts = {1, 2}
  MaxReport = 4
SYMMETRY MCSymmetry
SPECIFICATION ReportSpec
INVARIANTS
  RacesAreReal
  RacyVarsReported
  OwnTickLeads
  SyncPairsAreNearest
  SummariesBalance
  ReportTellsAllRaces
CHECK_DEADLOCK FALSE
