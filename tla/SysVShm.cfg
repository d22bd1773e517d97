SPECIFICATION Spec
CONSTANTS
  Procs = {1, 2, 3}
  Parent = 1
  Born = {1, 2}
  Order <- MCOrder
  Slots = 2
  MaxMaps <- MCMaps
  MaxRemovals = 1
  Spaced = TRUE
  MapFails = FALSE
  Interrupts = {1}
  ExecFails = FALSE
  Kills = FALSE
INVARIANTS MappingsAgree RemovedWhenUnused
PROPERTY WaitersServed
CHECK_DEADLOCK FALSE
