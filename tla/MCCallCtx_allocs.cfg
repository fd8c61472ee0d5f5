SPECIFICATION Spec
CONSTANTS
  t1 = t1
  t2 = t2
  f = f
  m = m
  Threads = {t1, t2}
  Main = t1
  Calls = {f, m}
  Allocs = {m}
  Wrapper <- Wrappers
  LogMemAlloc = TRUE
  MaxDepth = 2
  MaxAllocs = 3
INVARIANTS
  RecordsTellChains
  FlushTellsAll
  PopsMatch
