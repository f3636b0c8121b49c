\* One loop, two connections, one thread of the application, two runs.
SPECIFICATION FairSpec
CONSTANTS
  Workers = {w1}
  Users = {u1, u2}
  Apps = {a1}
  NoOne = NoOne
  MaxRuns = 2
INVARIANTS
  UsersExact
PROPERTIES
  ServerProgress
CHECK_DEADLOCK FALSE
