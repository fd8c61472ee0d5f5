CONSTANTS
  Heap = {p}
  Stack = {s}
  Size = 3
  NoCall = NoCall
SPECIFICATION LibcSpec
INVARIANTS
  MissedAreTerminators
  FalseWritesAreBounds
  HookReadsArguments
