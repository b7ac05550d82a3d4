SPECIFICATION Spec
CONSTANTS
  Main = main
  CC_ACCEPT_FD = 3
  FD_SETSIZE = 5
  MaxFiles = 7
  CC_LENGTH_OF_LISTEN_QUEUE = 2
  Stds <- AllOrNone
  Conns = {c1, c2, c3}
INVARIANTS
  TypeOK
  NoStrayHolder
  ZombieHasSignal
PROPERTIES
  QueuedIsTaken
  ChildrenAreReaped
CHECK_DEADLOCK FALSE
