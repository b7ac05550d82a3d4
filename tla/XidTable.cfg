SPECIFICATION Spec
CONSTANTS
  MAX_LEN = 2
  CC_XID_TIMEOUT = 2
  XidSpace = 16
  Prevs <- SomePrevs
  MaxTime = 3
  MaxLate = 2
INVARIANTS
  TypeOK
  AgreesWithCalls
  CrashesOnUsedBuckets
PROPERTIES
  TimedOutStays
CHECK_DEADLOCK FALSE
