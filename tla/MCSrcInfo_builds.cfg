SPECIFICATION Spec
CONSTANTS
  a = a
  b = b
  c = c
  m1 = m1
  m2 = m2
  Files = {a, b, c}
  Name <- Names
  Code <- Texts
  ModLimit = 4
  Span = 4
  None = None
INVARIANTS
  HooksHaveLines
  OpsAreOfOneText
  RowsAreOfOneText
