\* Guard build, 128 bytes, 16-byte slots: blocks of 3 and 4 slots in 8; every
\* thread scheduled fairly.
SPECIFICATION FairSpec
CONSTANTS
  Producers = {p1, p2}
  NoOne = NoOne
  Size = 8
  Align = 16
  Guard = 1
  Requests = {16, 17, 33}
  MaxMsgs = 4
INVARIANTS
  BlocksIntact
PROPERTIES
  ImplementsQueue
  RingProgress
