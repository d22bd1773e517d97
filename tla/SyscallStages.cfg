SPECIFICATION MCSpec
CONSTANTS
  Syscalls <- MCSyscalls
  Launch = "execve"
  Filtered <- MCFiltered
  ExitFlag <- MCExitFlag
  Ask = {"semop", "openauxv"}
  Substs = {"chdir", "semop"}
  Chains = {"getdents"}
  Chained = {"getdents", "close"}
  Hosts <- MCBoth
  Disabling = {"ptrace"}
  ExitPends = {"openauxv"}
  Events = {"execve"}
  Forks = {"clone"}
  Traps = {"accept", "utime"}
  Again = {"utime"}
  RestartedAs = "open"
  MaxChain = 2
  MaxSignals = 1
INVARIANTS TypeOK HandledOnce ChainsInStep FollowedAsDecided QueueAnnounced NoSignalLost
PROPERTIES NoSignalInsideChain
