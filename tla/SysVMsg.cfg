SPECIFICATION Spec
CONSTANTS
  Procs = {1, 2, 3}
  Order <- MCOrder
  Mortal = {}
  Paths <- MCPaths
  Programs <- MCPrograms
  Messages <- MCMessages
  Type <- MCType
  Size <- MCSize
  MaxSize = 2
  MaxItems = 2
  HalfGen = 4
  IntBits = 4
INVARIANTS WaitsAreSound
PROPERTIES KeepsPromises
CHECK_DEADLOCK FALSE
