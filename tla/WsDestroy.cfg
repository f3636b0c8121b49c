\* The owner lets the server go while its one user is connected.
SPECIFICATION Spec
CONSTANTS
  Workers = {w1}
  Users = {u1}
  Apps = {a1}
  NoOne = NoOne
  MaxRuns = 1
INVARIANTS
  FrameHasServer
CHECK_DEADLOCK FALSE
