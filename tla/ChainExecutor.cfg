\* Two keys, the chain of one of them removed at any time, two workers and a
\* stop, every worker scheduled fairly.
SPECIFICATION FairSpec
CONSTANTS
  Clients = {c1, c2}
  Workers = {w1, w2}
  Keys = {k1, k2}
  Removable = {k1}
  Chains = {ch1, ch2, ch3}
  MaxTasks = 2
  None = None
INVARIANTS
  TokenInv
  ChainExclusive
  NoStrandedTask
  KeySerial
PROPERTIES
  ChainsProgress
CHECK_DEADLOCK FALSE
