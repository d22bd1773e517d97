SPECIFICATION Spec
CONSTANTS
  Procs = {1, 2, 3}
  Order <- MCOrder
  Mortal = {}
  Paths <- MCEntries
  Programs <- MCRaising
  MaxVal = 1
  MaxSems = 1
  MaxNsems = 2
  HalfGen = 4
INVARIANTS NobodyFeasible
CHECK_DEADLOCK FALSE
