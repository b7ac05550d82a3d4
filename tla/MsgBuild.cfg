SPECIFICATION Spec
CONSTANTS
  Cells = {c1, c2, c3}
  NULL = NULL
  Bodies <- VendorBodies
  MaxActions = 2
  EntryBodies <- LongBodies
  FrameLengths <- FourFrames
  Growths = {4}
  MaxGrown = 1
  MaxFront = 4
SYMMETRY CellSymmetry
INVARIANTS
  TypeOK
  BuiltInside
  CreatedIsAccepted
PROPERTIES
  ImplementsList
CHECK_DEADLOCK FALSE
