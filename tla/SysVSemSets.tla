---------------------------- MODULE SysVSemSets ----------------------------
(* What the emulation of SysVSem shows to programs: SemaphoreSets.           *)
EXTENDS SysVSem

\* A call is pending from the time it is made to the time its result is decided,
\* which PRoot may remember for a while (status_after_wait) before the tracee gets it.
IsPending(p) ==
  \/ cf[p].reason # "NOT_WAITING"
  \/ ke[p].pos \in {"sysenter", "sigsys"} /\ cf[p].state = "NOT_WAITING"

Decided(p) ==
  IF cf[p].state \in {"RESTARTED_INTO_PPOLL_CANCELED", "SIGNALED_PPOLL", "ENTERED_GETPID"}
  THEN cf[p].status
  ELSE IF ke[p].pos \in {"dead", "gone"} /\ ~IsPending(p) THEN "gone" ELSE ke[p].ret

Semaphores ==
  INSTANCE SemaphoreSets WITH
    sets    <- sems,
    pending <- [p \in Procs |-> IF IsPending(p) THEN ke[p].call ELSE NoCall],
    result  <- [p \in Procs |-> Decided(p)]

\* The emulation implements its promise (semop(2), semctl(2)): the operations of a
\* call happen all at once, exactly when its result says so, for every interleaving of
\* calls, wake-ups, signals, time limits, removals and deaths.
KeepsPromises == Semaphores!Spec

=============================================================================
