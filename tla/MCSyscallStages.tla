-------------------------- MODULE MCSyscallStages --------------------------
(* A small instance of SyscallStages: one kind of syscall per combination of *)
(* flags found in the filter lists of PRoot and of its extensions.           *)
EXTENDS SyscallStages

MCSyscalls == {"execve", "getpid", "open", "chdir", "getdents", "semop", "ptrace",
               "clone", "openauxv", "accept", "utime", "close"}
MCFiltered == MCSyscalls \ {"getpid", "clone", "close"}
MCExitFlag == {"execve", "chdir", "getdents", "ptrace", "accept", "utime"}

\* Fewer kinds for the liveness runs: one without flag, one with FILTER_SYSEXIT, one that forks,
\* one that chains, one that is refused.
MCFew == {"execve", "getpid", "open", "getdents", "accept", "close", "clone"}
MCFewFiltered == {"execve", "open", "getdents", "accept"}
MCFewExitFlag == {"execve", "getdents", "accept"}

MCHosts == {c \in HostTraits : c.policy => c.new \/ c.skip}

\* Hosts where the number of a syscall can be changed, and the others; hosts that
\* report the exit of a refused syscall, and the others.
MCReporting  == {c \in MCHosts : ~c.skip}
MCSkipping   == {c \in MCHosts : c.skip /\ c.policy}
MCBoth == MCReporting \cup MCSkipping

\* On the hosts that skip exits, nothing disables the acceleration.
MCNext == Next /\ (host.skip => h'.nr \notin Disabling)
MCSpec == Init /\ [][MCNext]_vars
=============================================================================
