SPECIFICATION LibrarySpec
CONSTANTS
  \* the map: three keys on chunks of two objects, anything may fail
  ChunkSize = 2
  MaxChunks = 4
  Values = {0, 1}
  Default = 0
  Keys = {k1, k2, k3}
  Absent = Absent
  Faults = {"object", "chunk", "key"}
  \* the heap: chunks of three words of two pages
  WordBits = 2
  NumBlocks = 3
  PageSize = 8
  Alignment = 2
  HeapSizes = {0, 1, 7, 24}
  MaxHeapChunks = 2
  MaxLive = 3
  \* frames of up to three values, a spline of five points
  FrameSizes = {1, 2, 3}
  IndexMod = 16
  NumPts = 5
  MaxPushes = 7
  \* rings of up to four nodes
  Nodes = {n1, n2, n3, n4}
  \* two threads on a callback keeper
  KeeperThreads = {t1, t2}
  KeeperKeys = {key1, key2}
  MaxBinds = 3
  NoCb = NoCb
  \* the cache of objects
  Objects = {o1, o2, o3, o4}
  MaxCached = 2
  \* two threads on the data port
  PortThreads = {d1, d2}
  PortData <- MCPortData
  HeaderSize = 16
  \* ftell fails behind two records of 19 bytes, and a write stops within a
  \* header, or between a carriage return and its line feed
  MaxLong = 36
  PortCuts = {5, 17}
  MaxBytes = 38
  \* the compressor, on blocks of 40 bytes
  Plain <- MCPlain
  BlockMax = 40
  DictSize = 16
  Damage = {0, 1, 17, 18, 33, 64, 255}
  Matches <- MCMatches
INVARIANTS
  HeapExact
  StoresExact
  CalledOnce
  OneOwner
  AddressIsRecord
  LzoExact
PROPERTIES
  ImplementsMap
CHECK_DEADLOCK FALSE
