SPECIFICATION AllSpec
CONSTANTS
  \* texts of up to six symbols; a handler that stops at the third event
  Symbols = {"{", "}", "[", "]", ",", ":", "s", "v", "x", "nl", "/", "*"}
  MaxText = 6
  FlagSets <- MCFlagSets
  StopAts = {0, 3}
  \* the edges of the ranges of code points and of UTF-8
  Codepoints = {1, 10, 31, 34, 47, 65, 92, 127, 128, 2047, 2048, 55295, 57344, 65279, 65535, 65536, 1114111}
  Octets = {0, 34, 65, 127, 128, 143, 144, 159, 160, 191, 192, 193, 194, 223, 224, 225, 236, 237, 238, 239, 240, 241, 243, 244, 245, 255}
  MaxCodepoints = 3
  MaxOctets = 4
  \* integers of 5 and 10 bits for 32 and 64
  UintBits = 5
  Uint64Bits = 10
  FastMax = 7
  MaxDigits = 3
  DblMaxTenth = 2000
  MaxExp = 12
  IntMaxTenth = 20
  NumberSymbols = {0, 1, 2, 3, 5, 6, 9, 10, 11, 12, 13, 14, 15}
  MaxNumber = 6
  PointMin = 3
  PointMax = 4
  Radix = 2
  \* words of ten bits, six of them
  WordBits = 10
  PowLong = 4
  PowShort = 2
  ChunkDigits = 3
  Capacity = 6
  Addends = {0, 1, 1023}
  Factors = {0, 1, 3, 31, 1023}
  Shifts = {0, 1, 9, 10, 11, 20}
  Powers = {0, 1, 2, 3, 7}
  Decimals <- MCDecimals
  MaxBig = 1073741824
  MaxBigSteps = 4
  \* indexes of five bits
  IndexLimit = 32
  PointerSymbols = {0, 3, 10, 11, 12, 13, 16, 99, 101, 111, 112, 114, 115}
  MaxSource = 5
  Pointers <- MCPointers
  Leaves = {7}
  MaxPointerSteps = 3
  \* counts of less than six; patterns of up to six pieces
  Letters = {1, 33}
  MaxSubject = 3
  RegexAlphabets <- MCAlphabets
  MaxPieces = 11
  CountLimit = 6
  \* integers of four bits for 64
  SchemaCases <- MCSchemas
  Int64Limit = 8
  \* two values, chunks of six cells, a user buffer of three
  Roots = {v1, v2}
  ChunkCapacity = 6
  UserCapacity = 3
  DefaultCapacity = 1
  Names = {m1, m2}
  Ints = {i1, i2}
  Strings = {s1, s2}
  MaxValueSteps = 6
  MaxNesting = 2
SYMMETRY MCSymmetry
INVARIANTS
  WrittenAsRead
  ParsersAgree
  TextExact
  NumberExact
  BigExact
  ContainersExact
  PointerExact
  RegexExact
  SchemaExact
CHECK_DEADLOCK FALSE
