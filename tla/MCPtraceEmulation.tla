------------------------- MODULE MCPtraceEmulation -------------------------
(* Small families of programs for PtraceEmulation: 1 forks 2, which may fork *)
(* 3; who debugs whom, and how, differs from a run to the other.             *)
EXTENDS PtraceEmulation

Do(f) == Op(f, 0)

\* 1 attaches to its child, or the child makes itself traced.
MCCont == <<{Do("fork"), Op("wait", AnyPid), Op("poll", 2), Op("attach", 2), Op("cont", 2)},
            {Do("fork"), Do("raise"), Do("traceme")},
            {Do("raise")}>>

\* 1 follows the syscalls, the forks and the exit of its child.
MCOptions == <<{Do("fork"), Op("attach", 2), Op("wait", AnyPid), Op("setfork", 2),
                Op("setexit", 2), Op("cont", 2), Op("cont", 3), Op("syscall", 2),
                Op("detach", 2)},
               {Do("fork"), Do("other")},
               {Do("other")}>>

\* 2 attaches to the child it has, or to the one it is going to have.
MCStranger == <<{Do("fork"), Op("wait", AnyPid), Op("attach", 3), Op("wait", 3), Op("cont", 3)},
                {Do("fork")},
                {Do("raise")}>>

\* 3 attaches to its parent.
MCChild == <<{Do("fork"), Op("wait", AnyPid)},
             {Do("raise"), Do("fork")},
             {Op("attach", 2), Op("wait", 2), Op("cont", 2), Op("syscall", 2)}>>

\* 1 waits for two children, one of which makes itself traced.
MCTraceme == <<{Do("fork"), Op("wait", AnyPid), Op("cont", 3)}, {}, {Do("traceme"), Do("raise")}>>

\* Two families in one run: in "cont" nobody is killed, in "options" one process may be.
VARIABLE family
Families == [cont |-> MCCont, options |-> MCOptions]
MCEither == [p \in 1 .. 3 |-> MCCont[p] \cup MCOptions[p]]
MCInit == Init /\ family \in DOMAIN Families
MCNext ==
  /\ Next /\ UNCHANGED family
  /\ \A p \in Pids : kn'[p].op # kn[p].op => kn'[p].op.f \in {"none", "exit"} \/ kn'[p].op \in Families[family][p]
  /\ IF family = "cont" THEN kills' = kills ELSE fuel' > 0
MCSpec == MCInit /\ [][MCNext]_<<vars, family>>

\* Any programs, the constant; for questions that the families do not ask.
OneSpec == Init /\ family = "one" /\ [][Next /\ UNCHANGED family]_<<vars, family>>

\* Families "cont" and "options" differ in what may happen: nobody is killed in the first, and no debugger ends before
\* its debuggee.

\* A wait(2) that PRoot keeps waiting overlooks no event, and its ptracee is still alive unless somebody was killed.
WaitsAreAnswered == NoLostWakeup /\ (family = "cont" => WaitsForTheLiving)

\* The end of a process is told once, to the parent or the ptracer that waits for it, and not forgotten after a kill.
EndsTold == ToldOnce /\ (family = "options" => StatusNotLost)

\* A process that PRoot keeps stopped has a fork event or a ptracer that will restart it.
HeldOrFree == family = "cont" => HeldForFork /\ HeldForPtracer

\* When nothing is left to happen, nobody is stopped for ever.
AllEnd == family = "cont" => NobodyLeftBehind

=============================================================================
