CONSTANTS
  Threads = {t1, t2, t3}
  Builds = {TRUE, FALSE}
  MaxGen = 4
  NoThread = NoThread
SPECIFICATION FairSpec
INVARIANTS TypeOK BlockRunsOnce ReturnSeesBlock SleepersFlagged OnlyRecursionCrashes
PROPERTIES OnceReturns
CHECK_DEADLOCK FALSE
