\* One document of up to four values and three wrappers.
SPECIFICATION JsonSpec
CONSTANTS
  Cells = {c1, c2, c3, c4}
  Null = Null
  True = True
  Root = w0
  Wraps = {w0, w1, w2}
  Keys = {k1, k2}
  MaxLen = 2
  None = None
SYMMETRY Symmetric
INVARIANTS
  RefsExact
  WrappersTrue
\* What JSON is not made for ends the behaviour.
CHECK_DEADLOCK FALSE
