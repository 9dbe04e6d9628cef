CONSTANTS
  Threads = {t1, t2, t3}
  Notifs = {n1, n2}
  MaxCount = 2
  MaxEnters = 3
  NoItem = NoItem
SPECIFICATION Spec
SYMMETRY MCSymmetry
INVARIANTS TypeOK WaitSawEmpty NotifiedOnce NoUseAfterFree
CHECK_DEADLOCK FALSE
