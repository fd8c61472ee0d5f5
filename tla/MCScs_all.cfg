SPECIFICATION FairSpec
CONSTANTS
  t1 = t1
  t2 = t2
  Threads = {t1, t2}
  Supervisor = Supervisor
  NoOne = NoOne
  MaxMoney = 100
  Modulus = 10000
  InitMoney <- MCInitMoney
  RandMoney <- MCRandMoney
  RandomMoney = TRUE
  ResetInterval = 2
  SyncOnly = FALSE
  MaxOps = 2
INVARIANTS Exclusive WakeInv RationKept
PROPERTIES BlockedReleased ExitCompletes
