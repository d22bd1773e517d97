SPECIFICATION MCSpec
CONSTANTS
  Parts = {"daemon"}
  Tracees = {1, 2}
  First = 1
  Heaps = {h1, h2, h3}
  Bss = 2
  Limit = 8
  Clones = {"fork", "thread"}
  Concurrent = FALSE
  Foreign = FALSE
  Asked = {0, 1}
  Ids = {0, 1, 2}
  HostId = 3
  Half = 4
  RealOnly = FALSE
  Files <- MCFiles
  ExecCalls <- MCExecCalls
  Libraries = {"A"}
  Runners <- MCRunners
  MAXSYMLINKS = 4
  Faults = {"leave"}
  Size = 2
  Bases <- MCBases
  Top = 24
  Binaries <- MCBinaries
  AnyTail = FALSE
  Sysnums = {"open", "brk"}
  FilterArchs <- MCFilterArchs
  Offset <- MCOffset
  Length = 2
  FilterLists <- MCFilterLists
  Kernels = {15, 18, 22, 23, 26, 40}
  Virtuals = {17, 40}
  Forced = {TRUE, FALSE}
  Missing <- MCMissing
  MaxCalls = 1
  Servers = {"doki-proot"}
  Clients = {ca, cb}
  Traffics <- MCTraffics
  MAX_CLIENTS = 2
  BUFFER_SIZE = 6
  Outputs <- MCOutputs
  Leaves = FALSE
  Signals = TRUE
  FreesTwice = {"continues", "aborts"}
INVARIANTS DaemonSurvives
CHECK_DEADLOCK FALSE
