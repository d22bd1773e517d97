SPECIFICATION FairSpec
CONSTANTS
  Procs = {1, 2, 3}
  Order <- MCOrder
  Mortal = {2}
  Paths <- MCPaths
  Programs <- MCPrograms
  MaxVal = 1
  MaxSems = 1
  MaxNsems = 2
  HalfGen = 4
INVARIANTS WaitsAreSound
PROPERTIES KeepsPromises WaitsEnd
CHECK_DEADLOCK FALSE
