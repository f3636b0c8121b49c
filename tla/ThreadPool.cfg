\* Two workers, two clients, two cycles of init and deinit.
SPECIFICATION FairSpec
CONSTANTS
  Clients = {c1, c2}
  PoolSize = 2
  WeakCas = FALSE
  MaxTasks = 2
  MaxCbs = 1
  MaxCycles = 2
INVARIANTS
  PoolSafe
PROPERTIES
  PoolProgress
CHECK_DEADLOCK FALSE
