CONSTANTS
  Chains = {sema, group, third, ui}
  GroupChains = {group, ui}
  MainChains = {ui}
  Stages = 4
  Workers = 2
  Cells = {c1, c2}
  maxQueueLength = 7
  SyncCalls = {s1, s2}
  AsyncCalls = {a1}
  NoCall = NoCall
  Tasks = 4
  Limit = 2
  Threads = {t1, t2}
  Keys = {name, age}
  Objects = {a, b}
  Nil = Nil
  Torn = Torn
  MaxQueued = 2
  MaxLength = 6
  Greatest = 2
SPECIFICATION FairSpec
INVARIANTS TypeOK RequestsInOrder ImageOrTask ViewsBounded TasksAccounted AlgorithmsAgree
PROPERTIES ChainsComplete ImagesArrive CallsEnd TasksEnd AtomicSpec ReadsReturn
CHECK_DEADLOCK FALSE
