SPECIFICATION Spec
CONSTANTS
  main = main
  other = other
  w1 = w1
  w2 = w2
  j1 = j1
  j2 = j2
  j3 = j3
  Clients <- TwoClients
  Workers <- TwoWorkers
  Jobs <- ThreeJobs
  NoOne = NoOne
INVARIANTS
  TypeOK
  TakenInOrder
  NoLostWakeup
PROPERTIES
  ImplementsPool
  EveryJobRuns
  WorkersLeave
CHECK_DEADLOCK FALSE
