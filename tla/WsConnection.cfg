\* Three frames out of ten kinds: text, fragments, ping, pong, close, unmasked.
SPECIFICATION FairSpec
CONSTANTS
  Requests <- MCRequests
  FrameSet <- MCFrameSet
  ClientKey <- MCClientKey
  Key <- MCKey
  MaxFrames = 3
INVARIANTS
  StreamFaithful
PROPERTIES
  CloseEnds
  EveryMessageArrives
CHECK_DEADLOCK FALSE
