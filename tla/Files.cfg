SPECIFICATION MCSpec
CONSTANTS
  Parts = {"links", "bindings", "access"}
  Procs = {1, 2}
  Names = {"a", "b", "c"}
  Data = {d1, d2}
  None = None
  d1 = d1
  d2 = d2
  t1 = t1
  Programs <- MCPrograms
  Disciplined = TRUE
  Apart = TRUE
  CommandLines <- MCCommandLines
  HostTree <- MCTree
  Fixed <- MCFixed
  Unmarked <- MCUnmarked
  Requests <- MCRequests
  Samples <- MCSamples
  Swaps = {}
  Users = {t1}
  Entries = {"f", "g"}
  Inodes = {"i", "j"}
  Overlapped = FALSE
  Moves = FALSE
  Asks = {"stat"}
  EntryStops = FALSE
INVARIANTS LinksCounted LikeMounts GlueFits AccessLent
PROPERTIES KeepsFiles KeepsPromises LookupsCreateNothing
CHECK_DEADLOCK FALSE
