SPECIFICATION Spec
CONSTANTS
  Inputs <- EveryKind
  Byte = 4
  MAX_LEN = 2
  FlushMax = 1
  MaxReads = 3
  MaxJobs = 2
INVARIANTS
  TypeOK
  CountsAgree
  AnswersInOrder
  EchoesMatchRequests
PROPERTIES
  ArrivedIsHandled
  FinalizeEnds
CHECK_DEADLOCK FALSE
