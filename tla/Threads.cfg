SPECIFICATION ThreadsSpec
CONSTANTS
  \* the event: a finite timeout (1) and the infinite one (all ones)
  Waiters = {w1, w2}
  Setters = {s1, s2}
  Bits = 3
  Timeouts = {1, 7}
  MaxSets = 3
  NoWaiter = NoWaiter
  \* the handler: stop at any time, room for one message
  Producers = {p1, p2}
  Capacity = 1
  MaxMsgs = 2
  MaxThreads = 2
  NoOne = NoOne
  \* the Linux server
  NumWorkers = 2
  MaxLinuxRuns = 2
INVARIANTS
  SingleConsumer
  HandledInOrder
  BufferUsed
  LinuxServed
PROPERTIES
  EventServes
  HandlerProgress
CHECK_DEADLOCK FALSE
