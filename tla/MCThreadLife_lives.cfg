SPECIFICATION FairSpec
CONSTANTS
  main = main
  a = a
  b = b
  c = c
  h0 = h0
  h1 = h1
  h2 = h2
  Threads = {main, a, b, c}
  Main = main
  NoThread = NoThread
  Handles = {h0, h1, h2}
  MainHandle = h0
  NoTid <- MCNoTid
  MaxThread = 3
  Configs <- MCConfigs
  MayFail = TRUE
  MaxLog = 2
CHECK_DEADLOCK FALSE
INVARIANTS TypeOK IdsAreDistinct LookupIsRight TraceTellsLives
PROPERTIES CreateReturns
