\* The memory of a chunk may not be available.
SPECIFICATION MapSpec
CONSTANTS
  ChunkSize = 2
  MaxChunks = 3
  Values = {0, 1, 2}
  Default = 0
  Keys = {k1, k2, k3}
  Absent = Absent
  Faults = {"chunk"}
INVARIANTS
  SizesAgree
