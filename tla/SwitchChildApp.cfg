SPECIFICATION Safe
CONSTANTS
  Inputs <- PacketIns
  Byte = 4
  MAX_LEN = 2
  FlushMax = 1
  MaxReads = 1
  MaxJobs = 1
INVARIANTS
  AppBufferFreedOnce
CHECK_DEADLOCK FALSE
