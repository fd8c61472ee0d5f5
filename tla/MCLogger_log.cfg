SPECIFICATION Spec
CONSTANTS
  t1 = t1
  t2 = t2
  Threads = {t1, t2}
  Slots = 6
  MaxNumber <- MCMaxNumber
  Empty = Empty
  Torn = Torn
  Configs <- MCConfigs
  LibcSizes = {1, 3}
  MaxHooks = 2
CHECK_DEADLOCK FALSE
INVARIANTS HolesAreOwned ProgramOrder BatchesFit QuietExitSavesAll
PROPERTIES ImplementsEventLog
