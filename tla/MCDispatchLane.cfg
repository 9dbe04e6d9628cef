CONSTANTS
  Widths = {1, 2}
  Calls = 3
  Workers = {w1, w2}
  Depth = 2
  Kinds = {"async", "barrier_async", "sync", "barrier_sync"}
  NoThread = NoThread
SPECIFICATION Spec
SYMMETRY Symmetry
INVARIANTS TypeOK WordBalance NothingStranded SelfSyncCaught
PROPERTIES OvertakesBeforeWakeup KeepsContract
CHECK_DEADLOCK FALSE
