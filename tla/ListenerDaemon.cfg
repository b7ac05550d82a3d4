SPECIFICATION Safe
CONSTANTS
  Main = main
  CC_ACCEPT_FD = 3
  FD_SETSIZE = 5
  MaxFiles = 7
  CC_LENGTH_OF_LISTEN_QUEUE = 2
  Stds <- AllOrNone
  Conns = {c1}
INVARIANTS
  ReadsItsConnection
CHECK_DEADLOCK FALSE
