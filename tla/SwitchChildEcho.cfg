SPECIFICATION Safe
CONSTANTS
  Inputs <- EchoRequests
  Byte = 4
  MAX_LEN = 2
  FlushMax = 1
  MaxReads = 1
  MaxJobs = 1
INVARIANTS
  EchoReplyHasSameXid
CHECK_DEADLOCK FALSE
