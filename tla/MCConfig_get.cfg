SPECIFICATION ConfigSpec
CONSTANTS
  t1 = t1
  t2 = t2
  t3 = t3
  t4 = t4
  Threads = {t1, t2, t3, t4}
  NoOne = NoOne
INVARIANTS
  OneConfig
PROPERTIES
  EverybodyReturns
\* Every thread has what it asked for in the end.
CHECK_DEADLOCK FALSE
