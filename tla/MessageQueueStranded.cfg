SPECIFICATION Safe
CONSTANTS
  m1 = m1
  m2 = m2
  c1 = c1
  c2 = c2
  c3 = c3
  Msgs <- MCMsgs
  Cells <- MCCells
  HeadCell = HeadCell
  NULL = NULL
  Garbage = Garbage
  MaxMessages = 4
INVARIANT
  LengthMeansDequeuable
CHECK_DEADLOCK FALSE
