----------------------------- MODULE MCSysVSem -----------------------------
(* Three tracees on one set of two semaphores.                               *)
EXTENDS SysVSemSets

Set(gen) == [slot |-> 1, gen |-> gen]
Do(n, v) == [num |-> n, op |-> v, nowait |-> FALSE]
Try(n, v) == [num |-> n, op |-> v, nowait |-> TRUE]
Get == [f |-> "semget", key |-> "k", nsems |-> 2, creat |-> TRUE, excl |-> FALSE]
Ops(gen, sops, timed) == [f |-> "semop", id |-> Set(gen), sops |-> sops, timed |-> timed]
Value(n, v) == [f |-> "setval", id |-> Set(0), num |-> n, val |-> v]
Delete(gen) == [f |-> "rmid", id |-> Set(gen)]

\* Calls that release or acquire, and never both.  1 makes and removes the set and
\* releases; 2 acquires both semaphores, releases if it can; 3 acquires within a time
\* limit.
MCProducer == {Get, Ops(0, <<Do(1, 1), Do(2, 1)>>, FALSE), Delete(0)}
MCPrograms == <<MCProducer,
                {Ops(0, <<Do(1, -1), Do(2, -1)>>, FALSE), Ops(0, <<Do(1, 1), Try(2, 0)>>, FALSE),
                 Value(1, 0)},
                {Ops(0, <<Do(1, -1)>>, TRUE), Ops(1, <<Do(1, 1)>>, FALSE)}>>

ASSUME TakesOrGives

\* The same, with a value that is raised by hand.
MCRaising == [MCPrograms EXCEPT ![1] = @ \cup {Value(1, 1)}]

MCPaths == [p \in 1 .. 3 |-> {"sysenter", "sigsys"}]
MCEntries == [p \in 1 .. 3 |-> {"sysenter"}]

MCOrder == <<3, 2, 1>>
=============================================================================
