CONSTANTS
  Threads = {t1, t2}
  Notifs = {n1, n2}
  MaxCount = 2
  MaxEnters = 2
  NoItem = NoItem
SPECIFICATION FairSpec
PROPERTIES NotifyOnceEmpty
CHECK_DEADLOCK FALSE
