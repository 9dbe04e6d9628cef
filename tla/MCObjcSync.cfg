CONSTANTS
  Clients = {k1, k2, k3}
  Locks = {x, y}
  MaxOpen = 2
  MaxStray = 1
  Nobody = Nobody
SPECIFICATION Spec
SYMMETRY Symmetry
INVARIANTS TypeOK MutualExclusion SyncDataBalance
CHECK_DEADLOCK FALSE
