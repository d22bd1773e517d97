--------------------------- MODULE SysVMsgQueues ----------------------------
(* What the emulation of SysVMsg shows to programs: MessageQueues.           *)
EXTENDS SysVMsg

\* A receiver that was woken to try again has no result yet.
IsPending(p) ==
  \/ cf[p].reason # "NOT_WAITING" \/ cf[p].retry
  \/ ke[p].pos \in {"sysenter", "sigsys"} /\ cf[p].state = "NOT_WAITING"

Decided(p) ==
  IF IsPending(p) THEN NoResult
  ELSE IF cf[p].state \in {"RESTARTED_INTO_PPOLL_CANCELED", "SIGNALED_PPOLL", "ENTERED_GETPID"}
  THEN cf[p].status
  ELSE IF ke[p].pos \in {"dead", "gone"} THEN "gone" ELSE ke[p].ret

Queues ==
  INSTANCE MessageQueues WITH
    pending <- [p \in Procs |-> IF IsPending(p) THEN ke[p].call ELSE NoCall],
    result  <- [p \in Procs |-> Decided(p)]

\* The emulation implements its promise (msgsnd(2), msgrcv(2)): no message is received
\* twice or dropped, and none by a receiver that was interrupted, whatever happens
\* between the wake-up of a receiver and its second try.
KeepsPromises == Queues!Spec

=============================================================================
