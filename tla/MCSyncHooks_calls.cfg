CONSTANTS
  Threads = {t1, t2}
  Mutexes = {m}
  RwLocks = {rw}
  Conds = {c}
  Vars = {x}
  Program <- CallProgram
  t1 = t1
  t2 = t2
  None = None
SPECIFICATION Spec
INVARIANTS
  SectionsAreDisjoint
  LoggedOrderIsReal
  RealOrderIsLogged
CHECK_DEADLOCK FALSE
