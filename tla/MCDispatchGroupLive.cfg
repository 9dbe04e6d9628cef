CONSTANTS
  Threads = {t1, t2}
  Notifs = {n1, n2}
  MaxCount = 2
  MaxEnters = 3
  NoItem = NoItem
SPECIFICATION FairSpec
PROPERTIES WaitReturns NotifyFires
CHECK_DEADLOCK FALSE
