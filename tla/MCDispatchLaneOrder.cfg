CONSTANTS
  Widths = {1}
  Calls = 4
  Workers = {w1}
  Depth = 1
  Kinds = {"async", "sync"}
  NoThread = NoThread
SPECIFICATION Spec
INVARIANT FirstInFirstOut
CHECK_DEADLOCK FALSE
