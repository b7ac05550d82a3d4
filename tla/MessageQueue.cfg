SPECIFICATION Spec
CONSTANTS
  m1 = m1
  m2 = m2
  c1 = c1
  c2 = c2
  c3 = c3
  Msgs <- MCMsgs
  Cells <- MCCells
  HeadCell = HeadCell
  NULL = NULL
  Garbage = Garbage
  MaxMessages = 4
INVARIANTS
  TypeOK
  WalkSeesUndelivered
PROPERTIES
  DrainedForGood
  ImplementsOneShot
CHECK_DEADLOCK FALSE
