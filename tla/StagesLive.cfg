SPECIFICATION FairSpec
CONSTANTS
  Syscalls <- MCFew
  Launch = "execve"
  Filtered <- MCFewFiltered
  ExitFlag <- MCFewExitFlag
  Ask = {}
  Substs = {}
  Chains = {"getdents"}
  Chained = {"getdents", "close"}
  Hosts <- MCReporting
  Disabling = {}
  ExitPends = {}
  Events = {"execve"}
  Forks = {"clone"}
  Traps = {"accept"}
  Again = {}
  RestartedAs = "open"
  MaxChain = 2
  MaxSignals = 1
PROPERTIES SyscallsEnd Redelivery
