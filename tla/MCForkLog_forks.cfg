SPECIFICATION Spec
CONSTANTS
  t1 = t1
  t2 = t2
  parent = parent
  child = child
  Threads = {t1, t2}
  Main = t1
  Procs = {parent, child}
  First = parent
  MaxSlots = 3
  MaxTime = 2
  NoOne = NoOne
INVARIANTS
  SavedEventsAreOwn
  TracesAreKept
