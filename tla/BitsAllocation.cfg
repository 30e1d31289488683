CONSTANTS
  BitsPerByte = 8
  ChunkSize = 2
  MaxBits = 41
  MaxLength = 6
  Bitmaps <- AllocationFiles
SPECIFICATION Spec
INVARIANT Ones
CHECK_DEADLOCK FALSE
