CONSTANTS
  Threads = {t1, t2, t3}
  CreateValues <- MCCreateValues
  LongMax = 3
  NULL = NULL
  DEAD = DEAD
SPECIFICATION FairSpec
INVARIANTS TypeOK WakeupBalance NoOvergrant DisposeJustified
PROPERTIES OnePort AbstractSpec WaitersServed
CHECK_DEADLOCK FALSE
