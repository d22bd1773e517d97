----------------------------- MODULE MCSysVMsg ------------------------------
(* A sender and two receivers, on two queues.                                *)
EXTENDS SysVMsgQueues

Queue(slot) == [slot |-> slot, gen |-> 0]
Get(key) == [f |-> "msgget", key |-> key, creat |-> TRUE, excl |-> FALSE]
Snd(slot, m) == [f |-> "msgsnd", id |-> Queue(slot), msg |-> m]
Rcv(slot, typ, max, flags) ==
  [f |-> "msgrcv", id |-> Queue(slot), typ |-> typ, max |-> max, flags |-> flags]
Delete(slot) == [f |-> "rmid", id |-> Queue(slot)]

MCMessages == {"a", "b"}
MCType == [a |-> 1, b |-> 2]
MCSize == [a |-> 1, b |-> 2]

\* 1 sends in the first queue and removes the second one; 2 waits in both, 3 waits in
\* the first one or looks at it.
MCPrograms == <<{Get("k"), Snd(1, "a"), Snd(1, "b"), Delete(2)},
                {Get("l"), Rcv(1, -2, 2, {}), Rcv(2, 0, 1, {})},
                {Rcv(1, 1, 2, {"EXCEPT"}), Rcv(1, 0, 1, {"NOWAIT", "COPY"})}>>

\* The first queue is removed too.
MCRemoving == <<{Get("k"), Snd(1, "a"), Delete(1)}, {Rcv(1, 0, 2, {})}, {}>>

MCPaths == <<{"sysenter"}, {"sysenter", "sigsys"}, {"sigsys"}>>

MCOrder == <<3, 2, 1>>
=============================================================================
