SPECIFICATION Spec
CONSTANTS
  Messages <- EveryMessage
  Second <- EchoRequest
  Cuts <- Boundaries
  Guesses <- ThreeTypes
INVARIANTS
  TypeOK
  AcceptedIsWhole
  ProperIsHandled
  
  ReadsInside
  RefusalIsAnswered
