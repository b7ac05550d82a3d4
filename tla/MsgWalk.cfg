SPECIFICATION Spec
CONSTANTS
  Word = 16
  Small = 2
  Large = 4
  FlowSize = 3
  Rooms <- AllRooms
  MaxQueues = 5
INVARIANTS
  TypeOK
  StaysInside
  AcceptedToTheEnd
  SecondPassFollowsFirst
PROPERTIES
  Returns
CHECK_DEADLOCK FALSE
