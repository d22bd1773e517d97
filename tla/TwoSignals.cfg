SPECIFICATION Spec
CONSTANTS
  Syscalls <- MCFew
  Launch = "execve"
  Filtered <- MCFewFiltered
  ExitFlag <- MCFewExitFlag
  Ask = {}
  Substs = {}
  Chains = {"getdents"}
  Chained = {"getdents", "close"}
  Hosts <- MCReporting
  Disabling = {}
  ExitPends = {}
  Events = {"execve"}
  Forks = {}
  Traps = {"accept"}
  Again = {}
  RestartedAs = "open"
  MaxChain = 2
  MaxSignals = 2
INVARIANTS NoSignalLost
