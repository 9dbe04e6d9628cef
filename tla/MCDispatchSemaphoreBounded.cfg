CONSTANTS
  Threads = {t1, t2, t3}
  CreateValues = {0}
  LongMax = 3
  NULL = NULL
  DEAD = DEAD
SPECIFICATION FairSpec
PROPERTIES BoundedWaitDrains
CHECK_DEADLOCK FALSE
