\* Guard build of the smallest buffer line 26 accepts, 64 bytes, with slots
\* of 32 bytes.
SPECIFICATION Spec
CONSTANTS
  Producers = {p1}
  NoOne = NoOne
  Size = 2
  Align = 32
  Guard = 1
  Requests = {16}
  MaxMsgs = 3
INVARIANTS
  EmptyBufferFits
