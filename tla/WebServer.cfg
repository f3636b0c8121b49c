SPECIFICATION FairSpec
CONSTANTS
  NumThreads = 2
  Clients = {c1}
  Requests = {r1, r2}
  MaxRuns = 2
  NoWorker = NoWorker
INVARIANTS
  AnsweredOnce
  EventsLive
PROPERTIES
  WebProgress
CHECK_DEADLOCK FALSE
