------------------------ MODULE PtraceEmulationProofs ------------------------
(* The relations between tracees, their parents and their ptracers hold for    *)
(* any number of processes and any programs.                                   *)
EXTENDS PtraceEmulation, FiniteSetTheorems, SequenceTheorems, WellFoundedInduction, TLAPS

------------------------------------------------------------------------------
(* The states that the handlers of PRoot are given and return                *)

Nobody == Pids \cup {None}
EventInfo == [value : Events, pending : BOOLEAN]
AsPtracee == [ptracer : Nobody, proot : EventInfo, event : EventInfo, started : BOOLEAN, ignore : BOOLEAN,
              options : SUBSET {"fork", "exitev"}]
Corpse == [pid : Pids, parent : Nobody]
Tracees ==
  [exe : BOOLEAN, running : BOOLEAN, how : BOOLEAN, terminated : BOOLEAN, status : {0, 1},
   sigstop : {"IGNORED", "ALLOWED", "PENDING"}, parent : Nobody, chain : {"none", "queued", "running"},
   nb : Int, zombies : Seq(Corpse), waitPid : Pids \cup {None, AnyPid},
   waitsIn : {"DOESNT_WAIT", "KERNEL", "PROOT"}, as : AsPtracee]
Result == [pid : Nobody, dead : BOOLEAN]
Processes ==
  [at : {"free", "user", "kernel", "leaving", "stopped", "gone"}, event : Stops \cup {"none", "exited"}, seen : BOOLEAN,
   op : Operations \cup {NoOp}, void : BOOLEAN, again : BOOLEAN, result : Result, child : Nobody, parent : Nobody,
   sigstop : BOOLEAN, corpse : {"none", "corpse", "reaped"}, told : Seq(Nobody)]
States == [tr : [Pids -> Tracees], list : Seq(Pids), kn : [Pids -> Processes],
           crashed : {"no", "restart_how", "parent", "new_child"}]

StoppedByEvent(s) == \A p \in Pids : s.kn[p].at = "stopped" => s.kn[p].event \in Stops
ForkedAChild(s) == \A p \in Pids : s.kn[p].event = "fork" => s.kn[p].child \in Pids

------------------------------------------------------------------------------
(* The invariant.  x is the tracee that remove_tracee() has unlinked and has   *)
(* not done with yet, None between two events.                                 *)

Ptracees(s, r) == {q \in Listed(s) : s.tr[q].as.ptracer = r}
Leaving(s, x, r) == IF x \in Pids /\ s.tr[x].as.ptracer = r THEN 1 ELSE 0

Counted(s, x) ==
  \A r \in Listed(s) : s.tr[r].nb = Cardinality(Ptracees(s, r)) + Len(s.tr[r].zombies) + Leaving(s, x, r)
Known(s, x) ==
  /\ \A q \in Listed(s) : s.tr[q].parent \in Listed(s) \cup {None, x}
  /\ \A q \in Listed(s) \cup ({x} \cap Pids) : s.tr[q].as.ptracer \in Listed(s) \cup {None, x}
InTable(s, x) ==
  /\ IsInjective(s.list) /\ x \notin Listed(s)
  /\ \A q \in Pids : s.tr[q].terminated => q \in Listed(s) \cup {x}

Related(s, x) == s \in States /\ StoppedByEvent(s) /\ InTable(s, x) /\ Known(s, x) /\ Counted(s, x)

PtraceInv == Related(State, None) /\ ForkedAChild(State) /\ fuel \in Nat /\ kills \in Nat

\* A step of a handler that touches no relation.
Calm(s, u) ==
  /\ u \in States /\ StoppedByEvent(u) /\ u.list = s.list
  /\ \A q \in Pids :
       /\ u.tr[q].nb = s.tr[q].nb /\ u.tr[q].parent = s.tr[q].parent /\ u.tr[q].zombies = s.tr[q].zombies
       /\ u.tr[q].as.ptracer = s.tr[q].as.ptracer
       /\ u.tr[q].terminated => s.tr[q].terminated \/ q \in Listed(s)
       /\ u.kn[q].child = s.kn[q].child /\ u.kn[q].event \in {s.kn[q].event, "exited"}

\* A tracee that changes without a change of its relations.
SameTies(t, v) == v.nb = t.nb /\ v.parent = t.parent /\ v.zombies = t.zombies /\ v.as.ptracer = t.as.ptracer

LEMMA StateFields ==
  ASSUME NEW s \in States
  PROVE  /\ s.tr \in [Pids -> Tracees] /\ s.list \in Seq(Pids) /\ s.kn \in [Pids -> Processes]
         /\ s.crashed \in {"no", "restart_how", "parent", "new_child"}
BY DEF States

LEMMA ListedPids ==
  ASSUME NEW s \in States
  PROVE  Listed(s) \subseteq Pids
BY StateFields DEF Listed, Range

LEMMA CalmItself ==
  ASSUME NEW s \in States, StoppedByEvent(s)
  PROVE  Calm(s, s)
BY DEF Calm

LEMMA CalmTransitive ==
  ASSUME NEW s, NEW u, NEW v, Calm(s, u), Calm(u, v)
  PROVE  Calm(s, v)
BY DEF Calm, Listed

LEMMA TraceeCalm ==
  ASSUME NEW s \in States, StoppedByEvent(s), NEW p \in Pids, NEW t \in Tracees, SameTies(s.tr[p], t),
         t.terminated => s.tr[p].terminated \/ p \in Listed(s)
  PROVE  Calm(s, [s EXCEPT !.tr[p] = t])
<1> DEFINE u == [s EXCEPT !.tr[p] = t]
<1>1. /\ u \in States /\ u.list = s.list /\ u.kn = s.kn /\ u.crashed = s.crashed
      /\ \A q \in Pids : u.tr[q] = IF q = p THEN t ELSE s.tr[q]
  BY DEF States
<1> QED  BY <1>1 DEF Calm, StoppedByEvent, SameTies

LEMMA ProcessCalm ==
  ASSUME NEW s \in States, StoppedByEvent(s), NEW p \in Pids, NEW c \in Processes,
         c.child = s.kn[p].child, c.event \in {s.kn[p].event, "exited"}, c.at = "stopped" => c.event \in Stops
  PROVE  Calm(s, [s EXCEPT !.kn[p] = c])
<1> DEFINE u == [s EXCEPT !.kn[p] = c]
<1>1. /\ u \in States /\ u.list = s.list /\ u.tr = s.tr /\ u.crashed = s.crashed
      /\ \A q \in Pids : u.kn[q] = IF q = p THEN c ELSE s.kn[q]
  BY DEF States
<1> QED  BY <1>1 DEF Calm, StoppedByEvent

LEMMA CrashCalm ==
  ASSUME NEW s \in States, StoppedByEvent(s), NEW why \in {"restart_how", "parent", "new_child"}
  PROVE  Calm(s, Crash(s, why))
BY DEF Calm, StoppedByEvent, Crash, States

LEMMA DeadProcess ==
  ASSUME NEW c \in Processes, NEW d, d = [c EXCEPT !.at = "gone", !.event = "exited", !.seen = FALSE]
  PROVE  d \in Processes /\ d.child = c.child /\ d.event = "exited" /\ d.at = "gone"
BY DEF Processes

LEMMA OrphanProcess ==
  ASSUME NEW c \in Processes, NEW d, d = [c EXCEPT !.parent = None, !.corpse = "none"]
  PROVE  d \in Processes /\ d.child = c.child /\ d.event = c.event /\ d.at = c.at
BY DEF Processes, Nobody

LEMMA DiesCalm ==
  ASSUME NEW s \in States, StoppedByEvent(s), NEW p \in Pids
  PROVE  Calm(s, Dies(s, p))
<1> DEFINE u == Dies(s, p)
<1>1. /\ u.list = s.list /\ u.tr = s.tr /\ u.crashed = s.crashed
      /\ u = [s EXCEPT !.kn = u.kn]
  BY DEF States, Dies
<1>2. ASSUME NEW q \in Pids
      PROVE  /\ u.kn[q] \in Processes /\ u.kn[q].child = s.kn[q].child
             /\ u.kn[q].event \in {s.kn[q].event, "exited"}
             /\ u.kn[q].at = IF q = p THEN "gone" ELSE s.kn[q].at
             /\ u.kn[q].event = IF q = p THEN "exited" ELSE s.kn[q].event
  <2>1. u.kn[q] = IF q = p THEN [s.kn[p] EXCEPT !.at = "gone", !.event = "exited", !.seen = FALSE]
                  ELSE IF s.kn[q].parent = p THEN [s.kn[q] EXCEPT !.parent = None, !.corpse = "none"]
                  ELSE s.kn[q]
    BY <1>2 DEF States, Dies
  <2>2. s.kn[q] \in Processes /\ s.kn[p] \in Processes
    BY <1>2 DEF States
  <2> HIDE DEF u
  <2>3. CASE q = p
    BY <2>1, <2>2, <2>3, DeadProcess
  <2>4. CASE q # p /\ s.kn[q].parent = p
    BY <2>1, <2>2, <2>4, OrphanProcess
  <2>5. CASE q # p /\ s.kn[q].parent # p
    BY <2>1, <2>2, <2>5
  <2> QED  BY <2>3, <2>4, <2>5
<1>3. u.kn \in [Pids -> Processes]
  BY <1>2 DEF Dies, States
<1>4. u \in States
  BY <1>1, <1>3 DEF States
<1> QED  BY <1>1, <1>2, <1>4 DEF Calm, StoppedByEvent

LEMMA ResumeCalm ==
  ASSUME NEW s \in States, StoppedByEvent(s), NEW p \in Pids, s.kn[p].at = "stopped"
  PROVE  Calm(s, Resume(s, p))
<1> DEFINE c == s.kn[p]
<1>1. c \in Processes /\ c.event \in Stops
  BY DEF States, StoppedByEvent
<1>2. CASE c.event \in {"enter", "fork", "stop"}
  <2>1. PICK at \in {"kernel", "leaving", "user"} : Resume(s, p) = [s EXCEPT !.kn[p].at = at]
    BY <1>2 DEF Resume
  <2>2. [s EXCEPT !.kn[p].at = at] = [s EXCEPT !.kn[p] = [c EXCEPT !.at = at]]
    BY DEF States
  <2>3. [c EXCEPT !.at = at] \in Processes
    BY <1>1 DEF Processes
  <2>4. [c EXCEPT !.at = at].child = c.child /\ [c EXCEPT !.at = at].event = c.event
    BY <1>1 DEF Processes
  <2>5. [c EXCEPT !.at = at].at # "stopped"
    BY <1>1 DEF Processes
  <2> DEFINE d == [c EXCEPT !.at = at]
  <2>6. /\ d \in Processes /\ d.child = s.kn[p].child /\ d.event \in {s.kn[p].event, "exited"}
        /\ d.at # "stopped" /\ Resume(s, p) = [s EXCEPT !.kn[p] = d]
    BY <2>1, <2>2, <2>3, <2>4, <2>5
  <2> HIDE DEF d
  <2> QED  BY <2>6, ProcessCalm
<1>3. CASE c.event = "exitev"
  BY <1>3, DiesCalm DEF Resume
<1>4. CASE c.event = "exit"
  <2> DEFINE told == IF c.result.dead THEN Append(c.told, c.result.pid) ELSE c.told
             op == IF c.again THEN c.op ELSE NoOp
             d == [c EXCEPT !.at = "user", !.op = op, !.void = FALSE, !.result = NoResult, !.told = told]
  <2>1. Resume(s, p) = [s EXCEPT !.kn[p] = d]
    BY <1>4, <1>1 DEF Resume, Processes
  <2>2. told \in Seq(Nobody)
    BY <1>1, AppendProperties DEF Processes, Result
  <2>3. op \in Operations \cup {NoOp} /\ NoResult \in Result
    BY <1>1 DEF Processes, Result, NoResult, Nobody
  <2>4. d \in Processes /\ d.child = c.child /\ d.event = c.event /\ d.at = "user"
    <3> HIDE DEF told, op
    <3> QED  BY <1>1, <2>2, <2>3 DEF Processes
  <2> HIDE DEF d
  <2> QED  BY <2>1, <2>4, ProcessCalm
<1> QED  BY <1>1, <1>2, <1>3, <1>4 DEF Stops

LEMMA CalmFacts ==
  ASSUME NEW s, NEW u, Calm(s, u)
  PROVE  u \in States /\ StoppedByEvent(u) /\ Listed(u) = Listed(s)
BY DEF Calm, Listed

LEMMA RestartCalm ==
  ASSUME NEW s \in States, StoppedByEvent(s), NEW p \in Pids, NEW signal
  PROVE  Calm(s, RestartTracee(s, p, signal).s) /\ RestartTracee(s, p, signal).ok \in BOOLEAN
<1> DEFINE u == Resume(s, p)
           v == [u EXCEPT !.tr[p].running = TRUE, !.tr[p].how = FALSE]
<1>1. \/ RestartTracee(s, p, signal) = [s |-> s, ok |-> FALSE]
      \/ RestartTracee(s, p, signal) = [s |-> Crash(s, "restart_how"), ok |-> FALSE]
      \/ s.kn[p].at = "stopped" /\ RestartTracee(s, p, signal) = [s |-> v, ok |-> TRUE]
  BY DEF RestartTracee
<1>2. CASE s.kn[p].at = "stopped" /\ RestartTracee(s, p, signal) = [s |-> v, ok |-> TRUE]
  <2>1. Calm(s, u) /\ u \in States /\ StoppedByEvent(u)
    BY <1>2, ResumeCalm, CalmFacts
  <2> DEFINE t == [u.tr[p] EXCEPT !.running = TRUE, !.how = FALSE]
  <2> HIDE DEF u
  <2>2. v = [u EXCEPT !.tr[p] = t]
    BY <2>1 DEF States
  <2>3. t \in Tracees /\ SameTies(u.tr[p], t) /\ t.terminated = u.tr[p].terminated
    <3>1. u.tr[p] \in Tracees
      BY <2>1 DEF States
    <3> QED  BY <3>1 DEF Tracees, SameTies
  <2>4. Calm(u, v)
    <3> HIDE DEF t
    <3> QED  BY <2>1, <2>2, <2>3, TraceeCalm
  <2> QED  BY <1>2, <2>1, <2>4, CalmTransitive
<1>3. CASE RestartTracee(s, p, signal) = [s |-> s, ok |-> FALSE]
  BY <1>3, CalmItself
<1>4. CASE RestartTracee(s, p, signal) = [s |-> Crash(s, "restart_how"), ok |-> FALSE]
  BY <1>4, CrashCalm
<1> HIDE DEF u, v
<1> QED  BY <1>1, <1>2, <1>3, <1>4

LEMMA SetResultCalm ==
  ASSUME NEW s \in States, StoppedByEvent(s), NEW p \in Pids, NEW pid \in Nobody, NEW dead \in BOOLEAN
  PROVE  Calm(s, SetResult(s, p, pid, dead))
<1> DEFINE c == [s.kn[p] EXCEPT !.result = [pid |-> pid, dead |-> dead], !.again = FALSE]
<1>1. SetResult(s, p, pid, dead) = [s EXCEPT !.kn[p] = c]
  BY DEF SetResult, States
<1>2. s.kn[p] \in Processes /\ [pid |-> pid, dead |-> dead] \in Result
  BY DEF States, Result
<1>3. c \in Processes /\ c.child = s.kn[p].child /\ c.event = s.kn[p].event /\ c.at = s.kn[p].at
  BY <1>2 DEF Processes
<1>4. c.at = "stopped" => c.event \in Stops
  BY <1>3 DEF StoppedByEvent
<1> HIDE DEF c
<1> QED  BY <1>1, <1>3, <1>4, ProcessCalm

LEMMA SendStopCalm ==
  ASSUME NEW s \in States, StoppedByEvent(s), NEW p \in Pids
  PROVE  Calm(s, SendStop(s, p))
<1> DEFINE c == [s.kn[p] EXCEPT !.sigstop = TRUE]
<1>1. SendStop(s, p) = s \/ SendStop(s, p) = [s EXCEPT !.kn[p] = c]
  BY DEF SendStop, States
<1>2. s.kn[p] \in Processes
  BY DEF States
<1>3. c \in Processes /\ c.child = s.kn[p].child /\ c.event = s.kn[p].event /\ c.at = s.kn[p].at
  BY <1>2 DEF Processes
<1>4. c.at = "stopped" => c.event \in Stops
  BY <1>3 DEF StoppedByEvent
<1> HIDE DEF c
<1> QED  BY <1>1, <1>3, <1>4, ProcessCalm, CalmItself

LEMMA RestartOriginalCalm ==
  ASSUME NEW s \in States, StoppedByEvent(s), NEW p \in Pids
  PROVE  Calm(s, RestartOriginalSyscall(s, p))
<1> DEFINE t == [s.tr[p] EXCEPT !.chain = "queued"]
<1>1. RestartOriginalSyscall(s, p) = [s EXCEPT !.tr[p] = t]
  BY DEF RestartOriginalSyscall, States
<1>2. s.tr[p] \in Tracees
  BY DEF States
<1>3. t \in Tracees /\ SameTies(s.tr[p], t) /\ t.terminated = s.tr[p].terminated
  BY <1>2 DEF Tracees, SameTies
<1> HIDE DEF t
<1> QED  BY <1>1, <1>3, TraceeCalm

\* A step that changes a tracee and its process.
Both(s, p, t, c) == [s EXCEPT !.tr[p] = t, !.kn[p] = c]

LEMMA BothCalm ==
  ASSUME NEW s \in States, StoppedByEvent(s), NEW p \in Pids, NEW t \in Tracees, NEW c \in Processes,
         SameTies(s.tr[p], t), t.terminated => s.tr[p].terminated \/ p \in Listed(s),
         c.child = s.kn[p].child, c.event \in {s.kn[p].event, "exited"}, c.at = "stopped" => c.event \in Stops
  PROVE  Calm(s, Both(s, p, t, c))
<1> DEFINE u == [s EXCEPT !.tr[p] = t]
<1>1. Calm(s, u)
  BY TraceeCalm
<1>2. u \in States /\ StoppedByEvent(u) /\ u.kn = s.kn
  BY <1>1, CalmFacts DEF States
<1>3. Both(s, p, t, c) = [u EXCEPT !.kn[p] = c]
  BY DEF States, Both
<1>4. Calm(u, [u EXCEPT !.kn[p] = c])
  <2> HIDE DEF u
  <2> QED  BY <1>2, ProcessCalm
<1> QED  BY <1>1, <1>3, <1>4, CalmTransitive

LEMMA ChainNextCalm ==
  ASSUME NEW s \in States, StoppedByEvent(s), NEW p \in Pids
  PROVE  Calm(s, ChainNextSyscall(s, p))
<1>1. s.tr[p] \in Tracees /\ s.kn[p] \in Processes
  BY DEF States
<1>2. CASE s.tr[p].chain = "none"
  BY <1>2, CalmItself DEF ChainNextSyscall
<1>3. CASE s.tr[p].chain = "queued"
  <2> DEFINE t == [s.tr[p] EXCEPT !.chain = "running"]
             c == [s.kn[p] EXCEPT !.again = TRUE, !.void = FALSE, !.result = NoResult]
  <2>1. ChainNextSyscall(s, p) = Both(s, p, t, c)
    BY ZenonT(60), <1>3 DEF ChainNextSyscall, States, Both
  <2>2. t \in Tracees /\ SameTies(s.tr[p], t) /\ t.terminated = s.tr[p].terminated
    BY <1>1 DEF Tracees, SameTies
  <2>3. c \in Processes /\ c.child = s.kn[p].child /\ c.event = s.kn[p].event /\ c.at = s.kn[p].at
    BY ZenonT(60), <1>1 DEF Processes, NoResult, Result, Nobody
  <2>4. c.at = "stopped" => c.event \in Stops
    BY <2>3 DEF StoppedByEvent
  <2> HIDE DEF t, c
  <2> QED  BY <2>1, <2>2, <2>3, <2>4, BothCalm
<1>4. CASE s.tr[p].chain = "running"
  <2> DEFINE t == [s.tr[p] EXCEPT !.chain = "none"]
             c == [s.kn[p] EXCEPT !.again = FALSE]
  <2>1. ChainNextSyscall(s, p) = Both(s, p, t, c)
    BY <1>4 DEF ChainNextSyscall, States, Both
  <2>2. t \in Tracees /\ SameTies(s.tr[p], t) /\ t.terminated = s.tr[p].terminated
    BY <1>1 DEF Tracees, SameTies
  <2>3. c \in Processes /\ c.child = s.kn[p].child /\ c.event = s.kn[p].event /\ c.at = s.kn[p].at
    BY <1>1 DEF Processes
  <2>4. c.at = "stopped" => c.event \in Stops
    BY <2>3 DEF StoppedByEvent
  <2> HIDE DEF t, c
  <2> QED  BY <2>1, <2>2, <2>3, <2>4, BothCalm
<1> QED  BY <1>1, <1>2, <1>3, <1>4 DEF Tracees

LEMMA WaitEnterCalm ==
  ASSUME NEW s \in States, StoppedByEvent(s), NEW p \in Pids, NEW pid
  PROVE  Calm(s, TranslateWaitEnter(s, p, pid))
<1>1. s.tr[p] \in Tracees /\ s.kn[p] \in Processes
  BY DEF States
<1>2. PICK waits \in {"PROOT", "KERNEL"}, void \in BOOLEAN :
        TranslateWaitEnter(s, p, pid) = [s EXCEPT !.tr[p].waitsIn = waits, !.kn[p].void = void]
  BY DEF TranslateWaitEnter
<1> DEFINE t == [s.tr[p] EXCEPT !.waitsIn = waits]
           c == [s.kn[p] EXCEPT !.void = void]
<1>3. TranslateWaitEnter(s, p, pid) = Both(s, p, t, c)
  BY <1>2 DEF States, Both
<1>4. t \in Tracees /\ SameTies(s.tr[p], t) /\ t.terminated = s.tr[p].terminated
  BY <1>1 DEF Tracees, SameTies
<1>5. c \in Processes /\ c.child = s.kn[p].child /\ c.event = s.kn[p].event /\ c.at = s.kn[p].at
  BY <1>1 DEF Processes
<1>6. c.at = "stopped" => c.event \in Stops
  BY <1>5 DEF StoppedByEvent
<1> HIDE DEF t, c
<1> QED  BY <1>3, <1>4, <1>5, <1>6, BothCalm

------------------------------------------------------------------------------
(* The handlers that touch no relation                                       *)

\* A field of a tracee that is no relation.
LEMMA TraceeFields ==
  ASSUME NEW t \in Tracees
  PROVE  /\ t.as \in AsPtracee /\ t.as.proot \in EventInfo /\ t.as.event \in EventInfo
         /\ t.nb \in Int /\ t.parent \in Nobody /\ t.zombies \in Seq(Corpse) /\ t.as.ptracer \in Nobody
BY DEF Tracees, AsPtracee

LEMMA PtraceeChange ==
  ASSUME NEW t \in Tracees, NEW as \in AsPtracee
  PROVE  /\ [t EXCEPT !.as = as] \in Tracees
         /\ as.ptracer = t.as.ptracer => SameTies(t, [t EXCEPT !.as = as])
         /\ [t EXCEPT !.as = as].terminated = t.terminated /\ [t EXCEPT !.as = as].as = as
BY DEF Tracees, SameTies

Done(t) == [t EXCEPT !.as.proot.pending = FALSE, !.how = TRUE]

LEMMA DoneTracee ==
  ASSUME NEW t \in Tracees
  PROVE  Done(t) \in Tracees /\ SameTies(t, Done(t)) /\ Done(t).terminated = t.terminated
<1> DEFINE proot == [t.as.proot EXCEPT !.pending = FALSE]
           as == [t.as EXCEPT !.proot = proot]
           v == [t EXCEPT !.as = as]
<1>1. t.as \in AsPtracee /\ t.as.proot \in EventInfo
  BY TraceeFields
<1>2. proot \in EventInfo
  BY <1>1 DEF EventInfo
<1>3. as \in AsPtracee /\ as.ptracer = t.as.ptracer
  <2> HIDE DEF proot
  <2> QED  BY <1>1, <1>2 DEF AsPtracee
<1>4. v \in Tracees /\ SameTies(t, v) /\ v.terminated = t.terminated
  <2> HIDE DEF as
  <2> QED  BY <1>3, PtraceeChange
<1>5. Done(t) = [v EXCEPT !.how = TRUE]
  BY DEF Done, Tracees, AsPtracee
<1>6. [v EXCEPT !.how = TRUE] \in Tracees /\ SameTies(v, [v EXCEPT !.how = TRUE])
      /\ [v EXCEPT !.how = TRUE].terminated = v.terminated
  <2> HIDE DEF v
  <2> QED  BY <1>4 DEF Tracees, SameTies
<1> HIDE DEF v
<1> QED  BY <1>4, <1>5, <1>6 DEF SameTies

LEMMA HandledCalm ==
  ASSUME NEW s \in States, StoppedByEvent(s), NEW p \in Pids
  PROVE  Calm(s, Handled(s, p))
<1> DEFINE t == Done(s.tr[p])
<1>1. s.tr[p] \in Tracees
  BY DEF States
<1>2. t \in Tracees /\ SameTies(s.tr[p], t) /\ t.terminated = s.tr[p].terminated
  BY <1>1, DoneTracee
<1>3. Handled(s, p) = [s EXCEPT !.tr[p] = t]
  BY <1>1 DEF Handled, Done, States
<1> HIDE DEF t
<1> QED  BY <1>2, <1>3, TraceeCalm

LEMMA SysenterCalm ==
  ASSUME NEW s \in States, StoppedByEvent(s), NEW p \in Pids
  PROVE  Calm(s, HandleSysenter(s, p))
<1> DEFINE v == [s.tr[p] EXCEPT !.status = 1]
           e == [s EXCEPT !.tr[p].status = 1]
           h == HandleSysenter(s, p)
<1>1. e = [s EXCEPT !.tr[p] = v] /\ s.tr[p] \in Tracees
  BY DEF States
<1>2. v \in Tracees /\ SameTies(s.tr[p], v) /\ v.terminated = s.tr[p].terminated
  BY <1>1 DEF Tracees, SameTies
<1>3. Calm(s, e)
  <2> HIDE DEF v
  <2> QED  BY <1>1, <1>2, TraceeCalm
<1>4. \/ h = e
      \/ h = TranslateWaitEnter(e, p, s.kn[p].op.a)
      \/ h = [e EXCEPT !.kn[p].void = TRUE]
  BY DEF HandleSysenter
<1> HIDE DEF e, h
<1>5. e \in States /\ StoppedByEvent(e) /\ Calm(e, e)
  BY <1>3, CalmFacts, CalmItself
<1>6. CASE h = [e EXCEPT !.kn[p].void = TRUE]
  <2> DEFINE c == [e.kn[p] EXCEPT !.void = TRUE]
  <2>1. h = [e EXCEPT !.kn[p] = c] /\ e.kn[p] \in Processes
    BY <1>5, <1>6 DEF States
  <2>2. c \in Processes /\ c.child = e.kn[p].child /\ c.event = e.kn[p].event /\ c.at = e.kn[p].at
    BY <2>1 DEF Processes
  <2>3. c.at = "stopped" => c.event \in Stops
    BY <1>5, <2>2 DEF StoppedByEvent
  <2> HIDE DEF c
  <2>4. Calm(e, h)
    BY <1>5, <2>1, <2>2, <2>3, ProcessCalm
  <2> QED  BY <1>3, <2>4, CalmTransitive DEF h
<1>7. CASE h = TranslateWaitEnter(e, p, s.kn[p].op.a)
  <2>1. Calm(e, h)
    BY <1>5, <1>7, WaitEnterCalm
  <2> QED  BY <1>3, <2>1, CalmTransitive DEF h
<1> QED  BY <1>3, <1>4, <1>6, <1>7 DEF h

LEMMA SimpleEventCalm ==
  ASSUME NEW s \in States, StoppedByEvent(s), NEW p \in Listed(s), NEW event
  PROVE  Calm(s, HandleSimpleEvent(s, p, event).s)
<1> DEFINE done == Handled(s, p)
           t == done.tr[p]
           h == HandleSimpleEvent(s, p, event)
<1>1. p \in Pids
  BY ListedPids
<1>2. Calm(s, done) /\ done \in States /\ StoppedByEvent(done) /\ Listed(done) = Listed(s)
  BY <1>1, HandledCalm, CalmFacts
<1> HIDE DEF done
<1>3. t \in Tracees
  BY <1>1, <1>2 DEF States
<1>4. CASE event = "sys"
  <2>1. h.s = HandleSysenter(done, p)
    BY <1>4 DEF HandleSimpleEvent, done
  <2>2. Calm(done, h.s)
    BY <1>1, <1>2, <2>1, SysenterCalm
  <2> QED  BY <1>2, <2>2, CalmTransitive
<1>5. CASE event = "stop"
  <2>1. \/ h.s = done
        \/ \E sigstop \in {"PENDING", "ALLOWED"} : h.s = [done EXCEPT !.tr[p].sigstop = sigstop]
    BY <1>5 DEF HandleSimpleEvent, done
  <2>2. ASSUME NEW sigstop \in {"PENDING", "ALLOWED"}, h.s = [done EXCEPT !.tr[p].sigstop = sigstop]
        PROVE  Calm(s, h.s)
    <3> DEFINE v == [t EXCEPT !.sigstop = sigstop]
    <3>1. h.s = [done EXCEPT !.tr[p] = v]
      BY <1>1, <1>2, <2>2 DEF States
    <3>2. v \in Tracees /\ SameTies(t, v) /\ v.terminated = t.terminated
      BY <1>3 DEF Tracees, SameTies
    <3>3. Calm(done, h.s)
      <4> HIDE DEF v
      <4> QED  BY <1>1, <1>2, <3>1, <3>2, TraceeCalm
    <3> QED  BY <1>2, <3>3, CalmTransitive
  <2> QED  BY <1>2, <2>1, <2>2
<1>6. CASE event = "exited"
  <2> DEFINE v == [t EXCEPT !.terminated = TRUE]
  <2>1. h.s = [done EXCEPT !.tr[p] = v]
    <3>1. h.s = [done EXCEPT !.tr[p].terminated = TRUE]
      BY <1>6 DEF HandleSimpleEvent, done
    <3> QED  BY <1>1, <1>2, <3>1 DEF States
  <2>2. v \in Tracees /\ SameTies(t, v)
    BY <1>3 DEF Tracees, SameTies
  <2>3. Calm(done, h.s)
    <3> HIDE DEF v
    <3> QED  BY <1>1, <1>2, <2>1, <2>2, TraceeCalm
  <2> QED  BY <1>2, <2>3, CalmTransitive
<1>7. CASE event \notin {"sys", "stop", "exited"}
  <2>1. h.s = done
    BY <1>7 DEF HandleSimpleEvent, done
  <2> QED  BY <1>2, <2>1
<1> QED  BY <1>4, <1>5, <1>6, <1>7

LEMMA ReleaseCalm ==
  ASSUME NEW s \in States, StoppedByEvent(s), NEW q \in Listed(s)
  PROVE  Calm(s, ReleaseEvent(s, q).s)
<1>1. CASE s.tr[q].as.proot.pending
  BY <1>1, SimpleEventCalm DEF ReleaseEvent
<1>2. CASE ~s.tr[q].as.proot.pending
  BY <1>2, CalmItself DEF ReleaseEvent
<1> QED  BY <1>1, <1>2

------------------------------------------------------------------------------
(* The changes of relations                                                  *)

\* What the steps of PRoot keep: the list, and the child of a fork event.
Follows(s, u) ==
  /\ u.list = s.list
  /\ \A q \in Pids : u.kn[q].child = s.kn[q].child /\ u.kn[q].event \in {s.kn[q].event, "exited"}

\* The relations still hold.
Keeps(s, u, x) == Related(u, x) /\ Follows(s, u)

\* The ptracer of q becomes a, the others keep theirs.
Moved(s, u, q, a) ==
  /\ u \in States /\ u.list = s.list /\ u.kn = s.kn
  /\ \A y \in Pids :
       /\ u.tr[y].nb = s.tr[y].nb /\ u.tr[y].parent = s.tr[y].parent /\ u.tr[y].zombies = s.tr[y].zombies
       /\ u.tr[y].terminated = s.tr[y].terminated
       /\ u.tr[y].as.ptracer = IF y = q THEN a ELSE s.tr[y].as.ptracer

\* The counter of r grows by d, if there is r.
Grown(s, u, r, d) ==
  /\ u \in States /\ u.list = s.list /\ u.kn = s.kn
  /\ \A y \in Pids :
       /\ u.tr[y].nb = s.tr[y].nb + (IF y = r THEN d ELSE 0)
       /\ u.tr[y].parent = s.tr[y].parent /\ u.tr[y].zombies = s.tr[y].zombies
       /\ u.tr[y].terminated = s.tr[y].terminated /\ u.tr[y].as.ptracer = s.tr[y].as.ptracer

LEMMA MovedBy ==
  ASSUME NEW s \in States, NEW q \in Pids, NEW as \in AsPtracee
  PROVE  Moved(s, [s EXCEPT !.tr[q].as = as], q, as.ptracer)
<1> DEFINE t == [s.tr[q] EXCEPT !.as = as]
           u == [s EXCEPT !.tr[q].as = as]
<1>1. s.tr[q] \in Tracees
  BY DEF States
<1>2. t \in Tracees /\ t.nb = s.tr[q].nb /\ t.parent = s.tr[q].parent /\ t.zombies = s.tr[q].zombies
      /\ t.terminated = s.tr[q].terminated /\ t.as.ptracer = as.ptracer
  BY <1>1 DEF Tracees
<1> HIDE DEF t
<1>3. u = [s EXCEPT !.tr[q] = t]
  BY DEF States, t
<1>4. /\ u \in States /\ u.list = s.list /\ u.kn = s.kn
      /\ \A y \in Pids : u.tr[y] = IF y = q THEN t ELSE s.tr[y]
  BY <1>2, <1>3 DEF States
<1> HIDE DEF u
<1>5. \A y \in Pids : u.tr[y].as.ptracer = IF y = q THEN as.ptracer ELSE s.tr[y].as.ptracer
  BY <1>2, <1>4
<1>6. \A y \in Pids : /\ u.tr[y].nb = s.tr[y].nb /\ u.tr[y].parent = s.tr[y].parent
                      /\ u.tr[y].zombies = s.tr[y].zombies /\ u.tr[y].terminated = s.tr[y].terminated
  BY <1>2, <1>4
<1>7. Moved(s, u, q, as.ptracer)
  BY <1>4, <1>5, <1>6 DEF Moved
<1> QED  BY <1>7 DEF u

LEMMA GrownBy ==
  ASSUME NEW s \in States, NEW r \in Nobody, NEW d \in Int
  PROVE  Grown(s, [s EXCEPT !.tr[r].nb = @ + d], r, d)
<1> DEFINE t == [s.tr[r] EXCEPT !.nb = @ + d]
           u == [s EXCEPT !.tr[r].nb = @ + d]
<1>1. CASE r \in Pids
  <2>1. s.tr[r] \in Tracees
    BY <1>1 DEF States
  <2>2. t \in Tracees /\ t.nb = s.tr[r].nb + d /\ t.parent = s.tr[r].parent /\ t.zombies = s.tr[r].zombies
        /\ t.terminated = s.tr[r].terminated /\ t.as.ptracer = s.tr[r].as.ptracer
    BY <2>1 DEF Tracees
  <2> HIDE DEF t
  <2>3. u = [s EXCEPT !.tr[r] = t]
    BY DEF States, t
  <2>4. /\ u \in States /\ u.list = s.list /\ u.kn = s.kn
        /\ \A y \in Pids : u.tr[y] = IF y = r THEN t ELSE s.tr[y]
    BY <2>2, <2>3 DEF States
  <2>5. \A y \in Pids : s.tr[y].nb \in Int
    BY TraceeFields DEF States
  <2> HIDE DEF u
  <2> QED  BY <1>1, <2>2, <2>4, <2>5 DEF Grown, u
<1>2. CASE r \notin Pids
  <2>1. u = s
    BY <1>2 DEF States
  <2>2. \A y \in Pids : s.tr[y].nb \in Int /\ y # r
    BY <1>2, TraceeFields DEF States
  <2> HIDE DEF u
  <2> QED  BY <1>2, <2>1, <2>2 DEF Grown, u
<1> QED  BY <1>1, <1>2

LEMMA RelatedFacts ==
  ASSUME NEW s, NEW x, Related(s, x)
  PROVE  s \in States /\ StoppedByEvent(s) /\ Listed(s) \subseteq Pids
BY ListedPids DEF Related

LEMMA PtraceesFinite ==
  ASSUME NEW s \in States, NEW r
  PROVE  IsFiniteSet(Ptracees(s, r)) /\ Cardinality(Ptracees(s, r)) \in Nat
<1>1. IsFiniteSet(Pids)
  BY FS_Interval, PtraceAssumption DEF Pids
<1>2. Ptracees(s, r) \subseteq Pids
  BY ListedPids DEF Ptracees
<1> QED  BY <1>1, <1>2, FS_Subset, FS_CardinalityType

LEMMA CalmKeeps ==
  ASSUME NEW s, NEW u, NEW x, Related(s, x), Calm(s, u)
  PROVE  Keeps(s, u, x)
<1>1. Listed(u) = Listed(s) /\ Listed(s) \subseteq Pids /\ u.list = s.list
  BY CalmFacts, RelatedFacts DEF Calm
<1>2. \A r \in Listed(u) : Ptracees(u, r) = Ptracees(s, r)
  BY <1>1 DEF Ptracees, Calm
<1>3. \A r : Leaving(u, x, r) = Leaving(s, x, r)
  BY DEF Leaving, Calm
<1>4. Counted(u, x)
  BY <1>1, <1>2, <1>3 DEF Counted, Calm, Related
<1>5. Known(u, x)
  BY <1>1 DEF Known, Calm, Related
<1>6. InTable(u, x)
  BY <1>1 DEF InTable, Calm, Related
<1> QED  BY <1>4, <1>5, <1>6 DEF Keeps, Related, Follows, Calm

LEMMA KeepsTransitive ==
  ASSUME NEW s, NEW u, NEW v, NEW x, Keeps(s, u, x), Keeps(u, v, x)
  PROVE  Keeps(s, v, x)
BY DEF Keeps, Follows

LEMMA KeepsItself ==
  ASSUME NEW s, NEW x, Related(s, x)
  PROVE  Keeps(s, s, x)
BY DEF Keeps, Follows

LEMMA AttachIs ==
  ASSUME NEW s \in States, NEW q \in Pids, NEW r \in Nobody
  PROVE  \E u : Moved(s, u, q, r) /\ Grown(u, AttachToPtracer(s, q, r), r, 1)
<1> DEFINE as == [NotPtracee EXCEPT !.ptracer = r]
           u == [s EXCEPT !.tr[q].as = as]
<1>1. as \in AsPtracee /\ as.ptracer = r
  BY DEF AsPtracee, NotPtracee, NoEvent, EventInfo, Events
<1> HIDE DEF as
<1>2. Moved(s, u, q, r)
  BY <1>1, MovedBy
<1>3. AttachToPtracer(s, q, r) = [u EXCEPT !.tr[r].nb = @ + 1]
  BY DEF AttachToPtracer, as
<1> HIDE DEF u
<1>4. Grown(u, AttachToPtracer(s, q, r), r, 1)
  BY <1>2, <1>3, GrownBy DEF Moved
<1> QED  BY <1>2, <1>4

LEMMA UntieIs ==
  ASSUME NEW s \in States, NEW q \in Pids
  PROVE  Moved(s, [s EXCEPT !.tr[q].as.ptracer = None], q, None)
<1> DEFINE as == [s.tr[q].as EXCEPT !.ptracer = None]
<1>1. s.tr[q].as \in AsPtracee
  BY TraceeFields DEF States
<1>2. as \in AsPtracee /\ as.ptracer = None
  BY <1>1 DEF AsPtracee, Nobody
<1>3. [s EXCEPT !.tr[q].as.ptracer = None] = [s EXCEPT !.tr[q].as = as]
  BY DEF States, Tracees
<1> HIDE DEF as
<1> QED  BY <1>2, <1>3, MovedBy

LEMMA DetachIs ==
  ASSUME NEW s \in States, NEW q \in Pids
  PROVE  \E u : Moved(s, u, q, None) /\ Grown(u, DetachFromPtracer(s, q), s.tr[q].as.ptracer, -1)
<1> DEFINE r == s.tr[q].as.ptracer
           u == [s EXCEPT !.tr[q].as.ptracer = None]
<1>1. Moved(s, u, q, None) /\ r \in Nobody
  BY UntieIs, TraceeFields DEF States
<1>2. DetachFromPtracer(s, q) = [u EXCEPT !.tr[r].nb = @ - 1]
  BY DEF DetachFromPtracer
<1> HIDE DEF u
<1>3. \/ r \in Pids /\ u.tr[r].nb \in Int
      \/ r \notin Pids /\ DOMAIN u.tr = Pids
  BY <1>1, TraceeFields DEF Moved, States
<1>4. [u EXCEPT !.tr[r].nb = @ - 1] = [u EXCEPT !.tr[r].nb = @ + (-1)]
  BY <1>1, <1>3 DEF Moved, States
<1> HIDE DEF r
<1>5. Grown(u, DetachFromPtracer(s, q), r, -1)
  BY <1>1, <1>2, <1>4, GrownBy DEF Moved
<1> QED  BY <1>1, <1>5 DEF r

LEMMA MovedKinds ==
  ASSUME NEW s, NEW u, NEW v, NEW q, NEW a, NEW r, NEW d, StoppedByEvent(s), Moved(s, u, q, a), Grown(u, v, r, d)
  PROVE  /\ v \in States /\ StoppedByEvent(v) /\ v.list = s.list /\ v.kn = s.kn /\ Listed(v) = Listed(s)
         /\ \A y \in Pids :
              /\ v.tr[y].nb = s.tr[y].nb + (IF y = r THEN d ELSE 0)
              /\ v.tr[y].parent = s.tr[y].parent /\ v.tr[y].zombies = s.tr[y].zombies
              /\ v.tr[y].terminated = s.tr[y].terminated
              /\ v.tr[y].as.ptracer = IF y = q THEN a ELSE s.tr[y].as.ptracer
<1>1. \A y \in Pids : v.tr[y].nb = s.tr[y].nb + (IF y = r THEN d ELSE 0)
  BY DEF Moved, Grown
<1>2. \A y \in Pids : v.tr[y].parent = s.tr[y].parent /\ v.tr[y].zombies = s.tr[y].zombies
                      /\ v.tr[y].terminated = s.tr[y].terminated
  BY DEF Moved, Grown
<1>3. \A y \in Pids : v.tr[y].as.ptracer = IF y = q THEN a ELSE s.tr[y].as.ptracer
  BY DEF Moved, Grown
<1>4. v \in States /\ StoppedByEvent(v) /\ v.list = s.list /\ v.kn = s.kn /\ Listed(v) = Listed(s)
  BY DEF Moved, Grown, StoppedByEvent, Listed
<1> QED  BY <1>1, <1>2, <1>3, <1>4

LEMMA AttachKeeps ==
  ASSUME NEW s, NEW x \in Nobody, Related(s, x), NEW q \in Listed(s), NEW r \in Listed(s), s.tr[q].as.ptracer = None
  PROVE  Keeps(s, AttachToPtracer(s, q, r), x)
<1> DEFINE v == AttachToPtracer(s, q, r)
<1>1. s \in States /\ StoppedByEvent(s) /\ Listed(s) \subseteq Pids /\ None \notin Pids /\ r # None /\ x \notin Listed(s)
  BY RelatedFacts DEF None, Pids, Related, InTable
<1>2. PICK u : Moved(s, u, q, r) /\ Grown(u, v, r, 1)
  BY <1>1, AttachIs DEF Nobody
<1>3. /\ v \in States /\ StoppedByEvent(v) /\ v.list = s.list /\ v.kn = s.kn /\ Listed(v) = Listed(s)
      /\ \A y \in Pids :
              /\ v.tr[y].nb = s.tr[y].nb + (IF y = r THEN 1 ELSE 0)
              /\ v.tr[y].parent = s.tr[y].parent /\ v.tr[y].zombies = s.tr[y].zombies
              /\ v.tr[y].terminated = s.tr[y].terminated
              /\ v.tr[y].as.ptracer = IF y = q THEN r ELSE s.tr[y].as.ptracer
  BY <1>1, <1>2, MovedKinds
<1> HIDE DEF v
<1>4. ASSUME NEW y \in Listed(s)
      PROVE  Cardinality(Ptracees(v, y)) = Cardinality(Ptracees(s, y)) + (IF y = r THEN 1 ELSE 0)
  <2>1. CASE y = r
    <3>1. Ptracees(v, y) = Ptracees(s, y) \cup {q} /\ q \notin Ptracees(s, y)
      BY <1>1, <1>3, <2>1 DEF Ptracees
    <3> QED  BY <1>1, <2>1, <3>1, PtraceesFinite, FS_AddElement
  <2>2. CASE y # r
    <3>1. Ptracees(v, y) = Ptracees(s, y)
      BY <1>1, <1>3, <2>2 DEF Ptracees
    <3> QED  BY <1>1, <2>2, <3>1, PtraceesFinite
  <2> QED  BY <2>1, <2>2
<1>5. \A y : Leaving(v, x, y) = Leaving(s, x, y)
  BY <1>1, <1>3 DEF Leaving
<1>6. Counted(v, x)
  <2>1. ASSUME NEW y \in Listed(v)
        PROVE  v.tr[y].nb = Cardinality(Ptracees(v, y)) + Len(v.tr[y].zombies) + Leaving(v, x, y)
    <3>1. y \in Listed(s) /\ y \in Pids
      BY <1>1, <1>3
    <3>2. s.tr[y].nb = Cardinality(Ptracees(s, y)) + Len(s.tr[y].zombies) + Leaving(s, x, y)
      BY <3>1 DEF Related, Counted
    <3>3. Cardinality(Ptracees(s, y)) \in Nat /\ Len(s.tr[y].zombies) \in Nat /\ Leaving(s, x, y) \in Nat
      BY <1>1, <3>1, PtraceesFinite, TraceeFields, LenProperties DEF Leaving, States
    <3>4. v.tr[y].nb = s.tr[y].nb + (IF y = r THEN 1 ELSE 0) /\ v.tr[y].zombies = s.tr[y].zombies
      BY <1>3, <3>1
    <3>5. Cardinality(Ptracees(v, y)) = Cardinality(Ptracees(s, y)) + (IF y = r THEN 1 ELSE 0)
      BY <1>4, <3>1
    <3>6. Leaving(v, x, y) = Leaving(s, x, y)
      BY <1>5
    <3>7. CASE y = r
      <4>1. v.tr[y].nb = s.tr[y].nb + 1 /\ Len(v.tr[y].zombies) = Len(s.tr[y].zombies)
        BY <3>4, <3>7
      <4>2. Cardinality(Ptracees(v, y)) = Cardinality(Ptracees(s, y)) + 1
        BY <3>5, <3>7
      <4>3. PICK a \in Nat, b \in Nat, c \in Nat :
              a = Cardinality(Ptracees(s, y)) /\ b = Len(s.tr[y].zombies) /\ c = Leaving(s, x, y)
        BY <3>3
      <4>4. (a + b + c) + 1 = (a + 1) + b + c
        OBVIOUS
      <4> QED  BY <3>2, <3>6, <4>1, <4>2, <4>3, <4>4
    <3>8. CASE y # r
      BY <3>2, <3>3, <3>4, <3>5, <3>6, <3>8
    <3> QED  BY <3>7, <3>8
  <2> QED  BY <2>1 DEF Counted
<1>7. Known(v, x)
  BY <1>1, <1>3 DEF Known, Related
<1>8. InTable(v, x)
  BY <1>1, <1>3 DEF InTable, Related
<1>9. Follows(s, v)
  BY <1>3 DEF Follows
<1> QED  BY <1>3, <1>6, <1>7, <1>8, <1>9 DEF Keeps, Related, v

\* The counts of a state of which one part has changed.
LEMMA CountedTerms ==
  ASSUME NEW s \in States, NEW x, NEW y \in Listed(s), Counted(s, x)
  PROVE  /\ s.tr[y].nb = Cardinality(Ptracees(s, y)) + Len(s.tr[y].zombies) + Leaving(s, x, y)
         /\ Cardinality(Ptracees(s, y)) \in Nat /\ Len(s.tr[y].zombies) \in Nat /\ Leaving(s, x, y) \in Nat
<1>1. y \in Pids
  BY ListedPids
<1>2. s.tr[y].zombies \in Seq(Corpse)
  BY <1>1, TraceeFields DEF States
<1> QED  BY <1>2, PtraceesFinite, LenProperties DEF Counted, Leaving

LEMMA DetachKeeps ==
  ASSUME NEW s, NEW x \in Nobody, Related(s, x), NEW q \in Listed(s)
  PROVE  Keeps(s, DetachFromPtracer(s, q), x)
<1> DEFINE v == DetachFromPtracer(s, q)
           r == s.tr[q].as.ptracer
<1>1. s \in States /\ StoppedByEvent(s) /\ Listed(s) \subseteq Pids /\ None \notin Pids /\ x \notin Listed(s)
  BY RelatedFacts DEF None, Pids, Related, InTable
<1>2. PICK u : Moved(s, u, q, None) /\ Grown(u, v, r, -1)
  BY <1>1, DetachIs
<1>3. /\ v \in States /\ StoppedByEvent(v) /\ v.list = s.list /\ v.kn = s.kn /\ Listed(v) = Listed(s)
      /\ \A y \in Pids :
              /\ v.tr[y].nb = s.tr[y].nb + (IF y = r THEN -1 ELSE 0)
              /\ v.tr[y].parent = s.tr[y].parent /\ v.tr[y].zombies = s.tr[y].zombies
              /\ v.tr[y].terminated = s.tr[y].terminated
              /\ v.tr[y].as.ptracer = IF y = q THEN None ELSE s.tr[y].as.ptracer
  BY <1>1, <1>2, MovedKinds
<1>4. ASSUME NEW y \in Listed(s)
      PROVE  Cardinality(Ptracees(v, y)) = Cardinality(Ptracees(s, y)) + (IF y = r THEN -1 ELSE 0)
  <2>1. CASE y = r
    <3>1. Ptracees(v, y) = Ptracees(s, y) \ {q} /\ q \in Ptracees(s, y)
      BY <1>1, <1>3, <2>1 DEF Ptracees
    <3>2. IsFiniteSet(Ptracees(s, y)) /\ Cardinality(Ptracees(s, y)) \in Nat
      BY <1>1, PtraceesFinite
    <3>3. Cardinality(Ptracees(s, y) \ {q}) = Cardinality(Ptracees(s, y)) - 1
      BY <3>1, <3>2, FS_RemoveElement
    <3> QED  BY <2>1, <3>1, <3>2, <3>3
  <2>2. CASE y # r
    <3>1. Ptracees(v, y) = Ptracees(s, y)
      BY <1>1, <1>3, <2>2 DEF Ptracees
    <3> QED  BY <1>1, <2>2, <3>1, PtraceesFinite
  <2> QED  BY <2>1, <2>2
<1>5. \A y : Leaving(v, x, y) = Leaving(s, x, y)
  BY <1>1, <1>3 DEF Leaving
<1> HIDE DEF v, r
<1>6. Counted(v, x)
  <2>1. ASSUME NEW y \in Listed(v)
        PROVE  v.tr[y].nb = Cardinality(Ptracees(v, y)) + Len(v.tr[y].zombies) + Leaving(v, x, y)
    <3>1. y \in Listed(s) /\ y \in Pids
      BY <1>1, <1>3, <2>1
    <3>2. /\ s.tr[y].nb = Cardinality(Ptracees(s, y)) + Len(s.tr[y].zombies) + Leaving(s, x, y)
          /\ Cardinality(Ptracees(s, y)) \in Nat /\ Len(s.tr[y].zombies) \in Nat /\ Leaving(s, x, y) \in Nat
      BY <1>1, <3>1, CountedTerms DEF Related
    <3>3. v.tr[y].nb = s.tr[y].nb + (IF y = r THEN -1 ELSE 0) /\ v.tr[y].zombies = s.tr[y].zombies
      BY <1>3, <3>1
    <3>4. Cardinality(Ptracees(v, y)) = Cardinality(Ptracees(s, y)) + (IF y = r THEN -1 ELSE 0)
      BY <1>4, <3>1
    <3>5. Leaving(v, x, y) = Leaving(s, x, y)
      BY <1>5
    <3>6. CASE y = r
      <4>1. /\ v.tr[y].nb = s.tr[y].nb + -1
            /\ Cardinality(Ptracees(v, y)) = Cardinality(Ptracees(s, y)) + -1
        BY <3>3, <3>4, <3>6
      <4>2. PICK a \in Nat, b \in Nat, c \in Nat :
              a = Cardinality(Ptracees(s, y)) /\ b = Len(s.tr[y].zombies) /\ c = Leaving(s, x, y)
        BY <3>2
      <4>3. (a + b + c) + -1 = (a + -1) + b + c
        OBVIOUS
      <4> QED  BY <3>2, <3>3, <3>5, <4>1, <4>2, <4>3
    <3>7. CASE y # r
      BY <3>2, <3>3, <3>4, <3>5, <3>7
    <3> QED  BY <3>6, <3>7
  <2> QED  BY <2>1 DEF Counted
<1>7. Known(v, x)
  BY <1>1, <1>3 DEF Known, Related
<1>8. InTable(v, x)
  BY <1>1, <1>3 DEF InTable, Related
<1>9. Follows(s, v)
  BY <1>3 DEF Follows
<1> QED  BY <1>3, <1>6, <1>7, <1>8, <1>9 DEF Keeps, Related, v

\* The one that leaves is detached: it does not count any more.
LEMMA DetachLeaving ==
  ASSUME NEW s, NEW x \in Pids, Related(s, x)
  PROVE  Keeps(s, DetachFromPtracer(s, x), x) /\ DetachFromPtracer(s, x).tr[x].as.ptracer = None
<1> DEFINE v == DetachFromPtracer(s, x)
           r == s.tr[x].as.ptracer
<1>1. s \in States /\ StoppedByEvent(s) /\ Listed(s) \subseteq Pids /\ None \notin Pids /\ x \notin Listed(s)
  BY RelatedFacts DEF None, Pids, Related, InTable
<1>2. PICK u : Moved(s, u, x, None) /\ Grown(u, v, r, -1)
  BY <1>1, DetachIs
<1>3. /\ v \in States /\ StoppedByEvent(v) /\ v.list = s.list /\ v.kn = s.kn /\ Listed(v) = Listed(s)
      /\ \A y \in Pids :
              /\ v.tr[y].nb = s.tr[y].nb + (IF y = r THEN -1 ELSE 0)
              /\ v.tr[y].parent = s.tr[y].parent /\ v.tr[y].zombies = s.tr[y].zombies
              /\ v.tr[y].terminated = s.tr[y].terminated
              /\ v.tr[y].as.ptracer = IF y = x THEN None ELSE s.tr[y].as.ptracer
  BY <1>1, <1>2, MovedKinds
<1>4. ASSUME NEW y \in Listed(s)
      PROVE  Ptracees(v, y) = Ptracees(s, y)
  BY <1>1, <1>3, <1>4 DEF Ptracees
<1>5. ASSUME NEW y \in Listed(s)
      PROVE  Leaving(v, x, y) = Leaving(s, x, y) + (IF y = r THEN -1 ELSE 0)
  BY <1>1, <1>3, <1>5 DEF Leaving
<1> HIDE DEF v, r
<1>6. Counted(v, x)
  <2>1. ASSUME NEW y \in Listed(v)
        PROVE  v.tr[y].nb = Cardinality(Ptracees(v, y)) + Len(v.tr[y].zombies) + Leaving(v, x, y)
    <3>1. y \in Listed(s) /\ y \in Pids
      BY <1>1, <1>3, <2>1
    <3>2. /\ s.tr[y].nb = Cardinality(Ptracees(s, y)) + Len(s.tr[y].zombies) + Leaving(s, x, y)
          /\ Cardinality(Ptracees(s, y)) \in Nat /\ Len(s.tr[y].zombies) \in Nat /\ Leaving(s, x, y) \in Nat
      BY <1>1, <3>1, CountedTerms DEF Related
    <3>3. v.tr[y].nb = s.tr[y].nb + (IF y = r THEN -1 ELSE 0) /\ v.tr[y].zombies = s.tr[y].zombies
      BY <1>3, <3>1
    <3>4. Ptracees(v, y) = Ptracees(s, y)
      BY <1>4, <3>1
    <3>5. Leaving(v, x, y) = Leaving(s, x, y) + (IF y = r THEN -1 ELSE 0)
      BY <1>5, <3>1
    <3>6. CASE y = r
      <4>1. v.tr[y].nb = s.tr[y].nb + -1 /\ Leaving(v, x, y) = Leaving(s, x, y) + -1
        BY <3>3, <3>5, <3>6
      <4>2. PICK a \in Nat, b \in Nat, c \in Nat :
              a = Cardinality(Ptracees(s, y)) /\ b = Len(s.tr[y].zombies) /\ c = Leaving(s, x, y)
        BY <3>2
      <4>3. (a + b + c) + -1 = a + b + (c + -1)
        OBVIOUS
      <4> QED  BY <3>2, <3>3, <3>4, <4>1, <4>2, <4>3
    <3>7. CASE y # r
      BY <3>2, <3>3, <3>4, <3>5, <3>7
    <3> QED  BY <3>6, <3>7
  <2> QED  BY <2>1 DEF Counted
<1>7. Known(v, x)
  BY <1>1, <1>3 DEF Known, Related
<1>8. InTable(v, x)
  BY <1>1, <1>3 DEF InTable, Related
<1>9. Follows(s, v)
  BY <1>3 DEF Follows
<1> QED  BY <1>3, <1>6, <1>7, <1>8, <1>9 DEF Keeps, Related, v

------------------------------------------------------------------------------
(* wait(2)                                                                   *)

\* A set of natural numbers has a least one.
LEMMA Least ==
  ASSUME NEW S \in SUBSET Nat, S # {}
  PROVE  \E x \in S : \A y \in S : x <= y
<1>1. IsWellFoundedOn(OpToRel(<, Nat), Nat)
  BY NatLessThanWellFounded
<1>2. PICK x \in S : \A y \in S : ~(<<y, x>> \in OpToRel(<, Nat))
  BY <1>1, WFMin
<1>3. \A y \in S : ~(y < x)
  BY <1>2 DEF OpToRel
<1>4. \A y \in S : x <= y
  BY <1>3
<1> QED  BY <1>4

LEMMA LeastIn ==
  ASSUME NEW S \in SUBSET Nat, S # {}
  PROVE  Min(S) \in S
BY Least DEF Min

LEMMA ZombieFound ==
  ASSUME NEW s \in States, NEW p \in Pids, NEW pid, Zombie(s, p, pid) # 0
  PROVE  Zombie(s, p, pid) \in 1 .. Len(s.tr[p].zombies)
<1> DEFINE found == {n \in 1 .. Len(s.tr[p].zombies) : Matches(pid, s.tr[p].zombies[n].pid)}
<1>1. Zombie(s, p, pid) = IF found # {} THEN Min(found) ELSE 0
  BY DEF Zombie, SelectInSeq
<1>2. found \in SUBSET Nat
  OBVIOUS
<1> QED  BY <1>1, <1>2, LeastIn

LEMMA PtraceeFound ==
  ASSUME NEW s \in States, NEW p \in Pids, NEW pid, NEW pevent, StoppedPtracee(s, p, pid, pevent) # 0
  PROVE  /\ StoppedPtracee(s, p, pid, pevent) \in 1 .. Len(s.list)
         /\ Matches(pid, s.list[StoppedPtracee(s, p, pid, pevent)])
         /\ s.list[StoppedPtracee(s, p, pid, pevent)] \in Listed(s)
<1> DEFINE found == {n \in 1 .. Len(s.list) :
                       /\ s.tr[s.list[n]].as.ptracer = p /\ Matches(pid, s.list[n])
                       /\ ~s.tr[s.list[n]].running
                       /\ pevent => s.tr[s.list[n]].as.event.pending}
           n == StoppedPtracee(s, p, pid, pevent)
<1>1. n = IF found # {} THEN Min(found) ELSE 0
  BY DEF StoppedPtracee, SelectInSeq
<1>2. found \in SUBSET Nat
  OBVIOUS
<1>3. n \in found
  BY <1>1, <1>2, LeastIn
<1>4. s.list \in Seq(Pids)
  BY DEF States
<1> QED  BY <1>3, <1>4 DEF Listed, Range

\* A tracee from the list tells its status.
LEMMA WaitStatusKeeps ==
  ASSUME NEW s, Related(s, None), NEW r \in Pids, NEW q \in Listed(s)
  PROVE  Keeps(s, UpdateWaitStatus(s, r, q).s, None) /\ UpdateWaitStatus(s, r, q).status \in Nobody
<1> DEFINE w == UpdateWaitStatus(s, r, q)
<1>1. s \in States /\ StoppedByEvent(s) /\ Listed(s) \subseteq Pids /\ q \in Pids /\ None \in Nobody
  BY RelatedFacts DEF Nobody
<1>2. CASE s.tr[q].parent = r /\ s.tr[q].as.event.value = "exited"
  <2> DEFINE u == RestartOriginalSyscall(s, r)
  <2>1. w = [s |-> DetachFromPtracer(u, q), status |-> 0]
    BY <1>2 DEF UpdateWaitStatus
  <2>2. Calm(s, u)
    BY <1>1, RestartOriginalCalm
  <2>3. Keeps(s, u, None) /\ Related(u, None) /\ Listed(u) = Listed(s)
    BY <2>2, CalmKeeps, CalmFacts DEF Keeps
  <2> HIDE DEF u
  <2>4. Keeps(u, DetachFromPtracer(u, q), None)
    BY <2>3, DetachKeeps DEF Nobody
  <2>5. Keeps(s, DetachFromPtracer(u, q), None)
    BY <2>3, <2>4, KeepsTransitive
  <2> QED  BY <1>1, <2>1, <2>5 DEF None
<1>3. CASE ~(s.tr[q].parent = r /\ s.tr[q].as.event.value = "exited")
  <2> DEFINE t == s.tr[q]
             event == [t.as.event EXCEPT !.pending = FALSE]
             as == [t.as EXCEPT !.event = event]
             u == [s EXCEPT !.tr[q].as.event.pending = FALSE]
  <2>1. w = [s |-> u, status |-> q]
    BY <1>3 DEF UpdateWaitStatus
  <2>2. t \in Tracees /\ t.as \in AsPtracee /\ t.as.event \in EventInfo
    BY <1>1, TraceeFields DEF States
  <2>3. event \in EventInfo
    BY <2>2 DEF EventInfo
  <2>4. as \in AsPtracee /\ as.ptracer = t.as.ptracer
    <3> HIDE DEF t, event
    <3> QED  BY <2>2, <2>3 DEF AsPtracee
  <2>5. u = [s EXCEPT !.tr[q] = [t EXCEPT !.as = as]]
    BY <1>1 DEF States, Tracees, AsPtracee
  <2>6. [t EXCEPT !.as = as] \in Tracees /\ SameTies(t, [t EXCEPT !.as = as])
        /\ [t EXCEPT !.as = as].terminated = t.terminated
    <3> HIDE DEF t, as
    <3> QED  BY <2>2, <2>4, PtraceeChange
  <2>7. Calm(s, u)
    <3> DEFINE v == [t EXCEPT !.as = as]
    <3> HIDE DEF v
    <3>1. u = [s EXCEPT !.tr[q] = v] /\ v \in Tracees /\ SameTies(s.tr[q], v) /\ v.terminated = s.tr[q].terminated
      BY <2>5, <2>6 DEF v
    <3> HIDE DEF u
    <3> QED  BY <1>1, <3>1, TraceeCalm
  <2> HIDE DEF u
  <2> QED  BY <1>1, <2>1, <2>7, CalmKeeps DEF Nobody
<1> QED  BY <1>2, <1>3

LEMMA RemovedAt ==
  ASSUME NEW S, NEW z \in Seq(S), NEW n \in 1 .. Len(z)
  PROVE  /\ RemoveAt(z, n) \in Seq(S) /\ Len(RemoveAt(z, n)) = Len(z) - 1
         /\ \A i \in 1 .. Len(z) - 1 : RemoveAt(z, n)[i] = IF i < n THEN z[i] ELSE z[i + 1]
<1> DEFINE a == SubSeq(z, 1, n - 1)
           b == SubSeq(z, n + 1, Len(z))
<1>1. n \in Nat /\ Len(z) \in Nat /\ 1 <= n /\ n <= Len(z)
  BY LenProperties
<1>2. /\ a \in Seq(S) /\ Len(a) = n - 1 /\ \A i \in 1 .. n - 1 : a[i] = z[i]
      /\ b \in Seq(S) /\ Len(b) = Len(z) - n /\ \A i \in 1 .. Len(z) - n : b[i] = z[n + i]
  BY <1>1
<1> HIDE DEF a, b
<1>3. /\ a \o b \in Seq(S) /\ Len(a \o b) = Len(z) - 1
      /\ \A i \in 1 .. Len(z) - 1 : (a \o b)[i] = IF i <= n - 1 THEN a[i] ELSE b[i - (n - 1)]
  <2>1. Len(a) + Len(b) = Len(z) - 1
    BY <1>1, <1>2
  <2>2. /\ a \o b \in Seq(S) /\ Len(a \o b) = Len(a) + Len(b)
        /\ \A i \in 1 .. Len(a) + Len(b) : (a \o b)[i] = IF i <= Len(a) THEN a[i] ELSE b[i - Len(a)]
    <3>1. a \in Seq(S) /\ b \in Seq(S)
      BY <1>2
    <3> QED  BY <3>1, ConcatProperties
  <2> QED  BY <1>2, <2>1, <2>2
<1>4. ASSUME NEW i \in 1 .. Len(z) - 1
      PROVE  (a \o b)[i] = IF i < n THEN z[i] ELSE z[i + 1]
  <2>1. CASE i < n
    BY <1>1, <1>2, <1>3, <2>1
  <2>2. CASE ~(i < n)
    <3>1. i - (n - 1) \in 1 .. Len(z) - n /\ n + (i - (n - 1)) = i + 1 /\ ~(i <= n - 1)
      BY <1>1, <2>2
    <3> QED  BY <1>2, <1>3, <2>2, <3>1
  <2> QED  BY <2>1, <2>2
<1>5. RemoveAt(z, n) = a \o b
  BY DEF RemoveAt, a, b
<1> QED  BY <1>3, <1>4, <1>5

\* The zombies of a tracee and its counter change.
Tallied(t, z, n) == [t EXCEPT !.zombies = z, !.nb = n]

LEMMA ZombiesChange ==
  ASSUME NEW t \in Tracees, NEW z \in Seq(Corpse), NEW n \in Int
  PROVE  /\ Tallied(t, z, n) \in Tracees /\ Tallied(t, z, n).nb = n /\ Tallied(t, z, n).zombies = z
         /\ Tallied(t, z, n).parent = t.parent /\ Tallied(t, z, n).terminated = t.terminated
         /\ Tallied(t, z, n).as = t.as
BY DEF Tracees, Tallied

\* A zombie is told and freed: one less is counted.
LEMMA ZombieStatusKeeps ==
  ASSUME NEW s, Related(s, None), NEW r \in Pids, NEW n \in 1 .. Len(s.tr[r].zombies)
  PROVE  Keeps(s, UpdateZombieStatus(s, r, n).s, None) /\ UpdateZombieStatus(s, r, n).status \in Nobody
<1> DEFINE z == s.tr[r].zombies[n]
           zombies == RemoveAt(s.tr[r].zombies, n)
           t == [s.tr[r] EXCEPT !.zombies = zombies, !.nb = @ - 1]
           u == [s EXCEPT !.tr[r].zombies = RemoveAt(@, n), !.tr[r].nb = @ - 1]
           w == UpdateZombieStatus(s, r, n)
<1>1. s \in States /\ StoppedByEvent(s) /\ Listed(s) \subseteq Pids /\ s.tr[r] \in Tracees
  BY RelatedFacts DEF States
<1>2. s.tr[r].zombies \in Seq(Corpse) /\ Len(s.tr[r].zombies) \in Nat /\ s.tr[r].nb \in Int
  BY <1>1, TraceeFields, LenProperties
<1>3. zombies \in Seq(Corpse) /\ Len(zombies) = Len(s.tr[r].zombies) - 1
  BY <1>2, RemovedAt
<1>4. u = [s EXCEPT !.tr[r] = t]
  BY <1>1 DEF States, Tracees
<1> HIDE DEF zombies
<1>5. /\ t \in Tracees /\ t.nb = s.tr[r].nb - 1 /\ t.zombies = zombies /\ t.parent = s.tr[r].parent
      /\ t.terminated = s.tr[r].terminated /\ t.as = s.tr[r].as
  <2> DEFINE n1 == s.tr[r].nb - 1
  <2>1. t = Tallied(s.tr[r], zombies, n1)
    BY <1>1 DEF Tracees, Tallied
  <2>2. n1 \in Int /\ zombies \in Seq(Corpse)
    BY <1>2, <1>3
  <2> DEFINE b == s.tr[r]
  <2>3. b \in Tracees /\ t = Tallied(b, zombies, n1)
    BY <1>1, <2>1
  <2> HIDE DEF t, n1, b
  <2>4. /\ Tallied(b, zombies, n1) \in Tracees /\ Tallied(b, zombies, n1).nb = n1
        /\ Tallied(b, zombies, n1).zombies = zombies /\ Tallied(b, zombies, n1).parent = b.parent
        /\ Tallied(b, zombies, n1).terminated = b.terminated /\ Tallied(b, zombies, n1).as = b.as
    BY Z3, <2>2, <2>3, ZombiesChange
  <2> QED  BY <2>3, <2>4 DEF n1, b
<1> HIDE DEF t
<1>6. /\ u \in States /\ u.list = s.list /\ u.kn = s.kn
      /\ \A y \in Pids : u.tr[y] = IF y = r THEN t ELSE s.tr[y]
  <2>1. u = [s EXCEPT !.tr = [s.tr EXCEPT ![r] = t]]
    BY <1>1, <1>4 DEF States
  <2>2. [s.tr EXCEPT ![r] = t] \in [Pids -> Tracees]
    BY <1>1, <1>5 DEF States
  <2> HIDE DEF u
  <2>3. \A y \in Pids : [s.tr EXCEPT ![r] = t][y] = IF y = r THEN t ELSE s.tr[y]
    BY <1>1 DEF States
  <2> QED  BY <1>1, <2>1, <2>2, <2>3 DEF States
<1>7. z \in Corpse
  BY <1>2
<1>8. \/ w = [s |-> RestartOriginalSyscall(u, r), status |-> 0]
      \/ w = [s |-> u, status |-> z.pid]
  BY DEF UpdateZombieStatus
<1> HIDE DEF u, w, z
<1>9. Listed(u) = Listed(s)
  BY <1>6 DEF Listed
<1>10. Counted(u, None)
  <2>1. ASSUME NEW y \in Listed(u)
        PROVE  u.tr[y].nb = Cardinality(Ptracees(u, y)) + Len(u.tr[y].zombies) + Leaving(u, None, y)
    <3>1. y \in Listed(s) /\ y \in Pids
      BY <1>1, <1>9, <2>1
    <3>2. /\ s.tr[y].nb = Cardinality(Ptracees(s, y)) + Len(s.tr[y].zombies) + Leaving(s, None, y)
          /\ Cardinality(Ptracees(s, y)) \in Nat /\ Len(s.tr[y].zombies) \in Nat /\ Leaving(s, None, y) \in Nat
      BY <1>1, <3>1, CountedTerms DEF Related
    <3>3. Ptracees(u, y) = Ptracees(s, y)
      BY <1>1, <1>5, <1>6, <1>9 DEF Ptracees
    <3>4. Leaving(u, None, y) = Leaving(s, None, y)
      BY DEF Leaving, None, Pids
    <3>5. CASE y = r
      <4>1. u.tr[y].nb = s.tr[y].nb - 1 /\ Len(u.tr[y].zombies) = Len(s.tr[y].zombies) - 1
        BY <1>3, <1>5, <1>6, <3>1, <3>5
      <4>2. PICK a \in Nat, b \in Nat, c \in Nat :
              a = Cardinality(Ptracees(s, y)) /\ b = Len(s.tr[y].zombies) /\ c = Leaving(s, None, y)
        BY <3>2
      <4>3. (a + b + c) - 1 = a + (b - 1) + c
        OBVIOUS
      <4> QED  BY <3>2, <3>3, <3>4, <4>1, <4>2, <4>3
    <3>6. CASE y # r
      <4>1. u.tr[y] = s.tr[y]
        BY <1>6, <3>1, <3>6
      <4> QED  BY <3>2, <3>3, <3>4, <4>1
    <3> QED  BY <3>5, <3>6
  <2> QED  BY <2>1 DEF Counted
<1>11. Known(u, None)
  BY <1>1, <1>5, <1>6, <1>9 DEF Known, Related
<1>12. InTable(u, None)
  BY <1>1, <1>5, <1>6, <1>9 DEF InTable, Related
<1>13. StoppedByEvent(u) /\ Follows(s, u)
  BY <1>1, <1>6 DEF StoppedByEvent, Follows
<1>14. Keeps(s, u, None)
  BY <1>6, <1>10, <1>11, <1>12, <1>13 DEF Keeps, Related
<1>15. Keeps(u, RestartOriginalSyscall(u, r), None)
  BY <1>6, <1>13, <1>14, RestartOriginalCalm, CalmKeeps DEF Keeps
<1>16. z.pid \in Nobody /\ 0 \in Nobody
  BY <1>7 DEF Corpse, Nobody, None
<1> QED  BY <1>8, <1>14, <1>15, <1>16, KeepsTransitive DEF w

\* One field of a tracee changes.
LEMMA FieldCalm ==
  ASSUME NEW s \in States, StoppedByEvent(s), NEW p \in Pids
  PROVE  /\ \A a \in Pids \cup {None, AnyPid} : Calm(s, [s EXCEPT !.tr[p].waitPid = a])
         /\ \A w \in {"DOESNT_WAIT", "KERNEL", "PROOT"} : Calm(s, [s EXCEPT !.tr[p].waitsIn = w])
         /\ \A n \in {0, 1} : Calm(s, [s EXCEPT !.tr[p].status = n])
         /\ \A g \in {"IGNORED", "ALLOWED", "PENDING"} : Calm(s, [s EXCEPT !.tr[p].sigstop = g])
         /\ \A b \in BOOLEAN : Calm(s, [s EXCEPT !.tr[p].how = b]) /\ Calm(s, [s EXCEPT !.tr[p].running = b])
<1>1. s.tr[p] \in Tracees
  BY DEF States
<1>2. ASSUME NEW a \in Pids \cup {None, AnyPid} PROVE Calm(s, [s EXCEPT !.tr[p].waitPid = a])
  <2> DEFINE t == [s.tr[p] EXCEPT !.waitPid = a]
  <2>1. [s EXCEPT !.tr[p].waitPid = a] = [s EXCEPT !.tr[p] = t]
    BY DEF States
  <2>2. t \in Tracees /\ SameTies(s.tr[p], t) /\ t.terminated = s.tr[p].terminated
    BY <1>1 DEF Tracees, SameTies
  <2> HIDE DEF t
  <2> QED  BY <2>1, <2>2, TraceeCalm
<1>3. ASSUME NEW w \in {"DOESNT_WAIT", "KERNEL", "PROOT"} PROVE Calm(s, [s EXCEPT !.tr[p].waitsIn = w])
  <2> DEFINE t == [s.tr[p] EXCEPT !.waitsIn = w]
  <2>1. [s EXCEPT !.tr[p].waitsIn = w] = [s EXCEPT !.tr[p] = t]
    BY DEF States
  <2>2. t \in Tracees /\ SameTies(s.tr[p], t) /\ t.terminated = s.tr[p].terminated
    BY <1>1 DEF Tracees, SameTies
  <2> HIDE DEF t
  <2> QED  BY <2>1, <2>2, TraceeCalm
<1>4. ASSUME NEW n \in {0, 1} PROVE Calm(s, [s EXCEPT !.tr[p].status = n])
  <2> DEFINE t == [s.tr[p] EXCEPT !.status = n]
  <2>1. [s EXCEPT !.tr[p].status = n] = [s EXCEPT !.tr[p] = t]
    BY DEF States
  <2>2. t \in Tracees /\ SameTies(s.tr[p], t) /\ t.terminated = s.tr[p].terminated
    BY <1>1 DEF Tracees, SameTies
  <2> HIDE DEF t
  <2> QED  BY <2>1, <2>2, TraceeCalm
<1>5. ASSUME NEW g \in {"IGNORED", "ALLOWED", "PENDING"} PROVE Calm(s, [s EXCEPT !.tr[p].sigstop = g])
  <2> DEFINE t == [s.tr[p] EXCEPT !.sigstop = g]
  <2>1. [s EXCEPT !.tr[p].sigstop = g] = [s EXCEPT !.tr[p] = t]
    BY DEF States
  <2>2. t \in Tracees /\ SameTies(s.tr[p], t) /\ t.terminated = s.tr[p].terminated
    BY <1>1 DEF Tracees, SameTies
  <2> HIDE DEF t
  <2> QED  BY <2>1, <2>2, TraceeCalm
<1>6. ASSUME NEW b \in BOOLEAN PROVE Calm(s, [s EXCEPT !.tr[p].how = b])
  <2> DEFINE t == [s.tr[p] EXCEPT !.how = b]
  <2>1. [s EXCEPT !.tr[p].how = b] = [s EXCEPT !.tr[p] = t]
    BY DEF States
  <2>2. t \in Tracees /\ SameTies(s.tr[p], t) /\ t.terminated = s.tr[p].terminated
    BY <1>1 DEF Tracees, SameTies
  <2> HIDE DEF t
  <2> QED  BY <2>1, <2>2, TraceeCalm
<1>7. ASSUME NEW b \in BOOLEAN PROVE Calm(s, [s EXCEPT !.tr[p].running = b])
  <2> DEFINE t == [s.tr[p] EXCEPT !.running = b]
  <2>1. [s EXCEPT !.tr[p].running = b] = [s EXCEPT !.tr[p] = t]
    BY DEF States
  <2>2. t \in Tracees /\ SameTies(s.tr[p], t) /\ t.terminated = s.tr[p].terminated
    BY <1>1 DEF Tracees, SameTies
  <2> HIDE DEF t
  <2> QED  BY <2>1, <2>2, TraceeCalm
<1> QED  BY <1>2, <1>3, <1>4, <1>5, <1>6, <1>7

\* What concerns its tracing, but its ptracer.
LEMMA AsCalm ==
  ASSUME NEW s \in States, StoppedByEvent(s), NEW p \in Pids, NEW as \in AsPtracee, as.ptracer = s.tr[p].as.ptracer
  PROVE  Calm(s, [s EXCEPT !.tr[p].as = as])
<1> DEFINE t == [s.tr[p] EXCEPT !.as = as]
<1>1. s.tr[p] \in Tracees
  BY DEF States
<1>2. [s EXCEPT !.tr[p].as = as] = [s EXCEPT !.tr[p] = t]
  BY DEF States
<1>3. t \in Tracees /\ SameTies(s.tr[p], t) /\ t.terminated = s.tr[p].terminated
  BY <1>1, PtraceeChange
<1> HIDE DEF t
<1> QED  BY <1>2, <1>3, TraceeCalm

LEMMA AsFieldCalm ==
  ASSUME NEW s \in States, StoppedByEvent(s), NEW p \in Pids
  PROVE  /\ \A e \in EventInfo : Calm(s, [s EXCEPT !.tr[p].as.event = e]) /\ Calm(s, [s EXCEPT !.tr[p].as.proot = e])
         /\ \A b \in BOOLEAN : Calm(s, [s EXCEPT !.tr[p].as.ignore = b]) /\ Calm(s, [s EXCEPT !.tr[p].as.started = b])
         /\ \A o \in SUBSET {"fork", "exitev"} : Calm(s, [s EXCEPT !.tr[p].as.options = o])
         /\ \A e \in Events : Calm(s, [s EXCEPT !.tr[p].as.proot.value = e])
         /\ \A b \in BOOLEAN : Calm(s, [s EXCEPT !.tr[p].as.proot.pending = b])
<1> DEFINE a == s.tr[p].as
<1>1. s.tr \in [Pids -> Tracees] /\ s.tr[p] \in Tracees /\ a \in AsPtracee /\ a.proot \in EventInfo
  BY TraceeFields DEF States
<1>2. ASSUME NEW e \in EventInfo PROVE Calm(s, [s EXCEPT !.tr[p].as.event = e])
  <2> DEFINE as == [a EXCEPT !.event = e]
  <2>1. [s EXCEPT !.tr[p].as.event = e] = [s EXCEPT !.tr[p].as = as]
    BY DEF States, Tracees
  <2>2. as \in AsPtracee /\ as.ptracer = a.ptracer
    <3> HIDE DEF a
    <3> QED  BY <1>1 DEF AsPtracee
  <2> HIDE DEF as
  <2> QED  BY <2>1, <2>2, AsCalm
<1>3. ASSUME NEW e \in EventInfo PROVE Calm(s, [s EXCEPT !.tr[p].as.proot = e])
  <2> DEFINE as == [a EXCEPT !.proot = e]
  <2>1. [s EXCEPT !.tr[p].as.proot = e] = [s EXCEPT !.tr[p].as = as]
    BY DEF States, Tracees
  <2>2. as \in AsPtracee /\ as.ptracer = a.ptracer
    <3> HIDE DEF a
    <3> QED  BY <1>1 DEF AsPtracee
  <2> HIDE DEF as
  <2> QED  BY <2>1, <2>2, AsCalm
<1>4. ASSUME NEW b \in BOOLEAN PROVE Calm(s, [s EXCEPT !.tr[p].as.ignore = b])
  <2> DEFINE as == [a EXCEPT !.ignore = b]
  <2>1. [s EXCEPT !.tr[p].as.ignore = b] = [s EXCEPT !.tr[p].as = as]
    BY DEF States, Tracees
  <2>2. as \in AsPtracee /\ as.ptracer = a.ptracer
    <3> HIDE DEF a
    <3> QED  BY <1>1 DEF AsPtracee
  <2> HIDE DEF as
  <2> QED  BY <2>1, <2>2, AsCalm
<1>5. ASSUME NEW b \in BOOLEAN PROVE Calm(s, [s EXCEPT !.tr[p].as.started = b])
  <2> DEFINE as == [a EXCEPT !.started = b]
  <2>1. [s EXCEPT !.tr[p].as.started = b] = [s EXCEPT !.tr[p].as = as]
    BY DEF States, Tracees
  <2>2. as \in AsPtracee /\ as.ptracer = a.ptracer
    <3> HIDE DEF a
    <3> QED  BY <1>1 DEF AsPtracee
  <2> HIDE DEF as
  <2> QED  BY <2>1, <2>2, AsCalm
<1>6. ASSUME NEW o \in SUBSET {"fork", "exitev"} PROVE Calm(s, [s EXCEPT !.tr[p].as.options = o])
  <2> DEFINE as == [a EXCEPT !.options = o]
  <2>1. [s EXCEPT !.tr[p].as.options = o] = [s EXCEPT !.tr[p].as = as]
    BY DEF States, Tracees
  <2>2. as \in AsPtracee /\ as.ptracer = a.ptracer
    <3> HIDE DEF a
    <3> QED  BY <1>1 DEF AsPtracee
  <2> HIDE DEF as
  <2> QED  BY <2>1, <2>2, AsCalm
<1>7. ASSUME NEW e \in Events PROVE Calm(s, [s EXCEPT !.tr[p].as.proot.value = e])
  <2> DEFINE r == [a.proot EXCEPT !.value = e]
  <2>1. r \in EventInfo
    <3> HIDE DEF a
    <3> QED  BY <1>1 DEF EventInfo
  <2>2. [s EXCEPT !.tr[p].as.proot.value = e] = [s EXCEPT !.tr[p].as.proot = r]
    BY DEF States, Tracees, AsPtracee
  <2> HIDE DEF r
  <2> QED  BY <1>3, <2>1, <2>2
<1>8. ASSUME NEW b \in BOOLEAN PROVE Calm(s, [s EXCEPT !.tr[p].as.proot.pending = b])
  <2> DEFINE r == [a.proot EXCEPT !.pending = b]
  <2>1. r \in EventInfo
    <3> HIDE DEF a
    <3> QED  BY <1>1 DEF EventInfo
  <2>2. [s EXCEPT !.tr[p].as.proot.pending = b] = [s EXCEPT !.tr[p].as.proot = r]
    BY DEF States, Tracees, AsPtracee
  <2> HIDE DEF r
  <2> QED  BY <1>3, <2>1, <2>2
<1> QED  BY <1>2, <1>3, <1>4, <1>5, <1>6, <1>7, <1>8

LEMMA KeepsCalm ==
  ASSUME NEW s, NEW u, NEW v, NEW x, Keeps(s, u, x), Calm(u, v)
  PROVE  Keeps(s, v, x)
<1>1. Keeps(u, v, x)
  BY CalmKeeps DEF Keeps
<1> QED  BY <1>1, KeepsTransitive

LEMMA KeepsFacts ==
  ASSUME NEW s, NEW u, NEW x, Keeps(s, u, x)
  PROVE  Related(u, x) /\ u \in States /\ StoppedByEvent(u) /\ Listed(u) = Listed(s) /\ Listed(u) \subseteq Pids
BY RelatedFacts DEF Keeps, Follows, Listed

\* The operation of a wait is one of the program.
Awaited == {op \in Operations : op.f \in {"wait", "poll"}}

LEMMA AwaitedPid ==
  ASSUME NEW op \in Awaited
  PROVE  op.a \in Pids \cup {None, AnyPid}
BY DEF Awaited, Operations, Op, Requests

LEMMA WaitExitKeeps ==
  ASSUME NEW s, Related(s, None), NEW p \in Pids, NEW op \in Awaited
  PROVE  Keeps(s, TranslateWaitExit(s, p, op), None)
<1> DEFINE e == [s EXCEPT !.tr[p].waitsIn = "DOESNT_WAIT"]
           z == Zombie(e, p, op.a)
           n == StoppedPtracee(e, p, op.a, TRUE)
           w == TranslateWaitExit(s, p, op)
<1>1. s \in States /\ StoppedByEvent(s) /\ None \in Nobody /\ 0 \in Nobody
  BY RelatedFacts DEF Nobody, None
<1>2. Calm(s, e)
  BY <1>1, FieldCalm
<1>3. Keeps(s, e, None) /\ Related(e, None) /\ e \in States /\ StoppedByEvent(e)
  BY <1>2, CalmKeeps, KeepsFacts
<1>4. CASE z # 0
  <2> DEFINE r == UpdateZombieStatus(e, p, z)
             dead == TRUE /\ r.status # 0
  <2>1. w = SetResult(r.s, p, r.status, dead)
    BY <1>4 DEF TranslateWaitExit
  <2>2. z \in 1 .. Len(e.tr[p].zombies)
    BY <1>3, <1>4, ZombieFound
  <2>3. dead \in BOOLEAN
    OBVIOUS
  <2> HIDE DEF e, z, dead
  <2>4. Keeps(e, r.s, None) /\ r.status \in Nobody
    BY <1>3, <2>2, ZombieStatusKeeps
  <2> HIDE DEF r, w
  <2>5. Calm(r.s, w)
    BY <2>1, <2>3, <2>4, KeepsFacts, SetResultCalm
  <2>6. Keeps(e, w, None)
    BY <2>4, <2>5, KeepsCalm
  <2> QED  BY <1>3, <2>6, KeepsTransitive DEF w
<1>5. CASE z = 0 /\ n # 0
  <2> DEFINE q == e.list[n]
             r == UpdateWaitStatus(e, p, q)
             dead == e.tr[q].as.event.value = "exited" /\ r.status # 0
  <2>1. w = SetResult(r.s, p, r.status, dead)
    BY <1>5 DEF TranslateWaitExit
  <2>2. q \in Listed(e)
    BY <1>3, <1>5, PtraceeFound
  <2>3. dead \in BOOLEAN
    OBVIOUS
  <2> HIDE DEF e, n, q, dead
  <2>4. Keeps(e, r.s, None) /\ r.status \in Nobody
    BY <1>3, <2>2, WaitStatusKeeps
  <2> HIDE DEF r, w
  <2>5. Calm(r.s, w)
    BY <2>1, <2>3, <2>4, KeepsFacts, SetResultCalm
  <2>6. Keeps(e, w, None)
    BY <2>4, <2>5, KeepsCalm
  <2> QED  BY <1>3, <2>6, KeepsTransitive DEF w
<1>6. CASE z = 0 /\ n = 0
  <2> DEFINE r == SetResult(e, p, None, FALSE)
             v == [r EXCEPT !.tr[p].waitPid = op.a]
  <2>1. w = r \/ w = v
    BY <1>6 DEF TranslateWaitExit
  <2> HIDE DEF e
  <2>2. Calm(e, r)
    BY <1>1, <1>3, SetResultCalm
  <2>3. Keeps(e, r, None)
    BY <1>3, <2>2, CalmKeeps
  <2> HIDE DEF r
  <2>4. Calm(r, v)
    BY <2>3, AwaitedPid, KeepsFacts, FieldCalm
  <2>5. Keeps(e, v, None)
    BY <2>3, <2>4, KeepsCalm
  <2> HIDE DEF v, w
  <2> QED  BY <1>3, <2>1, <2>3, <2>5, KeepsTransitive DEF w
<1> QED  BY <1>4, <1>5, <1>6

LEMMA WakePtracerKeeps ==
  ASSUME NEW s, Related(s, None), NEW ptracer \in Pids, NEW q \in Listed(s), NEW keep \in BOOLEAN
  PROVE  Keeps(s, WakePtracer(s, ptracer, q, keep).s, None) /\ WakePtracer(s, ptracer, q, keep).keep \in BOOLEAN
<1> DEFINE w == WakePtracer(s, ptracer, q, keep)
<1>1. s \in States /\ StoppedByEvent(s) /\ q \in Pids
  BY RelatedFacts
<1>2. CASE ~Matches(s.tr[ptracer].waitPid, q)
  <2>1. w = [s |-> s, keep |-> keep]
    BY <1>2 DEF WakePtracer
  <2> QED  BY <2>1, KeepsItself
<1>3. CASE Matches(s.tr[ptracer].waitPid, q)
  <2> DEFINE u == UpdateWaitStatus(s, ptracer, q)
             dead == s.tr[q].as.event.value = "exited"
             v == IF u.status = 0 THEN ChainNextSyscall(u.s, ptracer) ELSE SetResult(u.s, ptracer, q, dead)
             e == [v EXCEPT !.tr[ptracer].waitPid = None]
             r == RestartTracee(e, ptracer, 0)
  <2>1. w = [s |-> r.s, keep |-> keep /\ r.ok]
    BY <1>3 DEF WakePtracer
  <2>2. Keeps(s, u.s, None) /\ u.s \in States /\ StoppedByEvent(u.s)
    BY WaitStatusKeeps, KeepsFacts
  <2>3. dead \in BOOLEAN /\ q \in Nobody
    BY <1>1 DEF Nobody
  <2> HIDE DEF dead, u
  <2>4. Calm(u.s, v)
    BY <2>2, <2>3, ChainNextCalm, SetResultCalm
  <2>5. Keeps(s, v, None) /\ v \in States /\ StoppedByEvent(v)
    BY <2>2, <2>4, KeepsCalm, KeepsFacts
  <2> HIDE DEF v
  <2>6. Calm(v, e)
    BY <2>5, FieldCalm
  <2>7. Keeps(s, e, None) /\ e \in States /\ StoppedByEvent(e)
    BY <2>5, <2>6, KeepsCalm, KeepsFacts
  <2> HIDE DEF e
  <2>8. Calm(e, r.s) /\ r.ok \in BOOLEAN
    BY <2>7, RestartCalm
  <2>9. Keeps(s, r.s, None)
    BY <2>7, <2>8, KeepsCalm
  <2> HIDE DEF r
  <2> QED  BY <2>1, <2>8, <2>9
<1> QED  BY <1>2, <1>3

------------------------------------------------------------------------------
(* ptrace(2)                                                                 *)

LEMMA TraceMeKeeps ==
  ASSUME NEW s, Related(s, None), NEW p \in Listed(s)
  PROVE  Keeps(s, TraceMe(s, p), None)
<1> DEFINE r == s.tr[p].parent
           a == AttachToPtracer(s, p, r)
           e == [SendStop(a, r) EXCEPT !.tr[r].sigstop = "IGNORED", !.tr[r].waitsIn = "PROOT"]
<1>1. s \in States /\ StoppedByEvent(s) /\ Listed(s) \subseteq Pids /\ r \in Listed(s) \cup {None}
  BY RelatedFacts DEF Related, Known
<1>2. \/ TraceMe(s, p) = s
      \/ TraceMe(s, p) = Crash(s, "parent")
      \/ s.tr[p].as.ptracer = None /\ r # None /\ TraceMe(s, p) \in {a, e}
  BY DEF TraceMe
<1>3. CASE TraceMe(s, p) = s
  BY <1>3, KeepsItself
<1>4. CASE TraceMe(s, p) = Crash(s, "parent")
  BY <1>1, <1>4, CrashCalm, CalmKeeps
<1>5. CASE s.tr[p].as.ptracer = None /\ r # None /\ TraceMe(s, p) \in {a, e}
  <2>1. r \in Listed(s) /\ r \in Pids /\ None \in Nobody
    BY <1>1, <1>5 DEF Nobody
  <2>2. Keeps(s, a, None) /\ a \in States /\ StoppedByEvent(a)
    BY <1>5, <2>1, AttachKeeps, KeepsFacts
  <2> DEFINE b == SendStop(a, r)
             c == [b EXCEPT !.tr[r].sigstop = "IGNORED"]
  <2>3. e = [c EXCEPT !.tr[r].waitsIn = "PROOT"]
    OBVIOUS
  <2> HIDE DEF a, r
  <2>4. Keeps(s, b, None) /\ b \in States /\ StoppedByEvent(b)
    BY <2>1, <2>2, SendStopCalm, KeepsCalm, KeepsFacts
  <2> HIDE DEF b
  <2>a. Calm(b, c)
    BY <2>1, <2>4, FieldCalm
  <2>5. Keeps(s, c, None) /\ c \in States /\ StoppedByEvent(c)
    <3> HIDE DEF c
    <3> QED  BY <2>4, <2>a, KeepsCalm, KeepsFacts
  <2> HIDE DEF c
  <2>6. Keeps(s, e, None)
    <3>1. Calm(c, [c EXCEPT !.tr[r].waitsIn = "PROOT"])
      BY <2>1, <2>5, FieldCalm
    <3> QED  BY <2>3, <2>5, <3>1, KeepsCalm
  <2> HIDE DEF e
  <2> QED  BY <1>5, <2>2, <2>6
<1> QED  BY <1>2, <1>3, <1>4, <1>5

LEMMA AttachRequestKeeps ==
  ASSUME NEW s, Related(s, None), NEW p \in Listed(s), NEW q
  PROVE  Keeps(s, Attach(s, p, q), None)
<1> DEFINE a == AttachToPtracer(s, q, p)
<1>1. CASE q \in Listed(s) /\ s.tr[q].as.ptracer = None /\ q # p
  <2>1. Keeps(s, a, None)
    BY <1>1, AttachKeeps DEF Nobody
  <2>2. Attach(s, p, q) = SendStop(a, q)
    BY <1>1 DEF Attach
  <2> HIDE DEF a
  <2>3. Calm(a, SendStop(a, q))
    BY <1>1, <2>1, RelatedFacts, KeepsFacts, SendStopCalm
  <2> QED  BY <2>1, <2>2, <2>3, KeepsCalm
<1>2. CASE ~(q \in Listed(s) /\ s.tr[q].as.ptracer = None /\ q # p)
  BY <1>2, KeepsItself DEF Attach
<1> QED  BY <1>1, <1>2

LEMMA RestartingKeeps ==
  ASSUME NEW s, Related(s, None), NEW p, NEW op, op.a \in Listed(s)
  PROVE  Keeps(s, Restarting(s, p, op), None)
<1> DEFINE q == op.a
           e == [s EXCEPT !.tr[q].as.ignore = (op.f = "cont")]
           u == IF op.f = "detach" THEN DetachFromPtracer(s, q) ELSE e
           r == ReleaseEvent(u, q)
           signal == IF op.f = "detach" THEN r.signal ELSE 0
<1>1. s \in States /\ StoppedByEvent(s) /\ q \in Pids /\ None \in Nobody
  BY RelatedFacts DEF Nobody
<1>2. Keeps(s, u, None)
  <2>1. CASE op.f = "detach"
    BY <1>1, <2>1, DetachKeeps
  <2>2. CASE op.f # "detach"
    <3> DEFINE b == op.f = "cont"
    <3>1. b \in BOOLEAN /\ u = [s EXCEPT !.tr[q].as.ignore = b]
      BY <2>2
    <3> HIDE DEF b, u
    <3> QED  BY <1>1, <3>1, AsFieldCalm, CalmKeeps
  <2> QED  BY <2>1, <2>2
<1>3. Restarting(s, p, op) = RestartTracee(r.s, q, signal).s
  BY DEF Restarting
<1> HIDE DEF u, q
<1>4. Calm(u, r.s)
  BY <1>2, KeepsFacts, ReleaseCalm DEF q
<1>5. Keeps(s, r.s, None)
  BY <1>2, <1>4, KeepsCalm
<1> HIDE DEF r, signal
<1>6. Calm(r.s, RestartTracee(r.s, q, signal).s)
  BY <1>1, <1>5, KeepsFacts, RestartCalm
<1> QED  BY <1>3, <1>5, <1>6, KeepsCalm

LEMMA PtraceExitKeeps ==
  ASSUME NEW s, Related(s, None), NEW p \in Listed(s), NEW op \in Operations
  PROVE  Keeps(s, TranslatePtraceExit(s, p, op), None)
<1> DEFINE q == op.a
           n == StoppedPtracee(s, p, q, FALSE)
           found == Zombie(s, p, q) = 0 /\ n # 0
           w == TranslatePtraceExit(s, p, op)
<1>1. s \in States /\ StoppedByEvent(s) /\ p \in Pids
  BY RelatedFacts
<1>2. ASSUME op.f \in Requests, found PROVE q \in Listed(s) /\ q \in Pids
  <2>1. q \in Pids
    BY <1>2 DEF Operations, Op, Requests
  <2>2. Matches(q, s.list[n]) /\ s.list[n] \in Listed(s)
    <3> HIDE DEF q
    <3> QED  BY <1>1, <1>2, PtraceeFound
  <2>3. q # AnyPid
    BY <2>1 DEF AnyPid, Pids
  <2> QED  BY <2>1, <2>2, <2>3 DEF Matches
<1>3. \/ w = s \/ w = TraceMe(s, p) \/ w = Attach(s, p, q)
      \/ op.f \in Requests /\ found /\ w = Restarting(s, p, op)
      \/ op.f \in Requests /\ found /\ \E o \in SUBSET {"fork", "exitev"} : w = [s EXCEPT !.tr[q].as.options = o]
  BY DEF TranslatePtraceExit, Requests
<1> HIDE DEF w, found, q
<1>4. CASE op.f \in Requests /\ found /\ w = Restarting(s, p, op)
  <2>1. op.a \in Listed(s)
    BY <1>2, <1>4 DEF q
  <2> QED  BY <1>4, <2>1, RestartingKeeps DEF w
<1>5. CASE op.f \in Requests /\ found /\ \E o \in SUBSET {"fork", "exitev"} : w = [s EXCEPT !.tr[q].as.options = o]
  <2>1. PICK o \in SUBSET {"fork", "exitev"} : w = [s EXCEPT !.tr[q].as.options = o]
    BY <1>5
  <2>2. Calm(s, w)
    BY <1>1, <1>2, <1>5, <2>1, AsFieldCalm
  <2> QED  BY <2>2, CalmKeeps DEF w
<1> QED  BY <1>3, <1>4, <1>5, KeepsItself, TraceMeKeeps, AttachRequestKeeps DEF w

LEMMA EmulateExitKeeps ==
  ASSUME NEW s, Related(s, None), NEW p \in Listed(s), NEW emulated
  PROVE  Keeps(s, EmulateExit(s, p, emulated), None)
<1> DEFINE op == s.kn[p].op
           w == EmulateExit(s, p, emulated)
<1>1. s \in States /\ StoppedByEvent(s) /\ p \in Pids /\ s.kn[p] \in Processes
  BY RelatedFacts DEF States
<1>2. op \in Operations \cup {NoOp} /\ NoOp.f \notin Requests \cup {"traceme", "wait", "poll"}
  BY <1>1 DEF Processes, NoOp, Op, Requests
<1>3. \/ w = s
      \/ op.f \in Requests \cup {"traceme"} /\ w = TranslatePtraceExit(s, p, op)
      \/ op.f \in {"wait", "poll"} /\ w = TranslateWaitExit(s, p, op)
  BY DEF EmulateExit
<1> HIDE DEF op, w
<1>4. CASE op.f \in Requests \cup {"traceme"} /\ w = TranslatePtraceExit(s, p, op)
  BY <1>2, <1>4, PtraceExitKeeps DEF w
<1>5. CASE op.f \in {"wait", "poll"} /\ w = TranslateWaitExit(s, p, op)
  BY <1>1, <1>2, <1>5, WaitExitKeeps DEF w, Awaited
<1> QED  BY <1>3, <1>4, <1>5, KeepsItself DEF w

LEMMA SysexitKeeps ==
  ASSUME NEW s, Related(s, None), NEW p \in Listed(s)
  PROVE  Keeps(s, HandleSysexit(s, p), None)
<1> DEFINE h == Handled(s, p)
           done == [h EXCEPT !.tr[p].status = 0]
           emulated == s.tr[p].waitsIn = "PROOT"
           e == EmulateExit(done, p, emulated)
<1>1. s \in States /\ StoppedByEvent(s) /\ p \in Pids
  BY RelatedFacts
<1>2. Keeps(s, h, None) /\ h \in States /\ StoppedByEvent(h)
  BY <1>1, HandledCalm, CalmKeeps, KeepsFacts
<1>3. HandleSysexit(s, p) = ChainNextSyscall(e, p)
  BY DEF HandleSysexit
<1> HIDE DEF h, emulated
<1>4. Calm(h, done)
  BY <1>1, <1>2, FieldCalm
<1>5. Keeps(s, done, None) /\ Related(done, None) /\ Listed(done) = Listed(s)
  BY <1>2, <1>4, KeepsCalm, KeepsFacts
<1> HIDE DEF done
<1>6. Keeps(s, e, None) /\ e \in States /\ StoppedByEvent(e)
  BY <1>5, EmulateExitKeeps, KeepsTransitive, KeepsFacts
<1> HIDE DEF e
<1> QED  BY <1>1, <1>3, <1>6, ChainNextCalm, KeepsCalm

------------------------------------------------------------------------------
(* The events of a ptracee, but the fork event                               *)

LEMMA PtracerKnown ==
  ASSUME NEW s, Related(s, None), NEW q \in Listed(s), s.tr[q].as.ptracer # None
  PROVE  s.tr[q].as.ptracer \in Listed(s) /\ s.tr[q].as.ptracer \in Pids
BY RelatedFacts DEF Related, Known

LEMMA TellKeeps ==
  ASSUME NEW s, Related(s, None), NEW ptracer \in Pids, NEW q \in Listed(s), NEW event \in Events
  PROVE  Keeps(s, TellPtracer(s, ptracer, q, event).s, None) /\ TellPtracer(s, ptracer, q, event).keep \in BOOLEAN
<1> DEFINE info == [value |-> event, pending |-> TRUE]
           keep == event # "exited"
           u == [s EXCEPT !.tr[q].as.event = info]
<1>1. s \in States /\ StoppedByEvent(s) /\ q \in Pids /\ info \in EventInfo
  BY RelatedFacts DEF EventInfo
<1>2. TellPtracer(s, ptracer, q, event) = WakePtracer(u, ptracer, q, keep) /\ keep \in BOOLEAN
  BY DEF TellPtracer
<1> HIDE DEF info, keep
<1>3. Calm(s, u)
  BY <1>1, AsFieldCalm
<1>4. Keeps(s, u, None) /\ Related(u, None) /\ q \in Listed(u)
  BY <1>3, CalmKeeps, KeepsFacts
<1> HIDE DEF u
<1> QED  BY Z3, <1>2, <1>4, WakePtracerKeeps, KeepsTransitive

LEMMA ProotEventCalm ==
  ASSUME NEW s \in States, StoppedByEvent(s), NEW q \in Pids
  PROVE  /\ \A event \in Events : Calm(s, ProotEvent(s, q, event))
         /\ Calm(s, Started(s, q)) /\ Calm(s, NoSignal(s, q))
<1>1. ASSUME NEW event \in Events
      PROVE  Calm(s, ProotEvent(s, q, event))
  <2> DEFINE info == [value |-> event, pending |-> TRUE]
  <2>1. info \in EventInfo /\ ProotEvent(s, q, event) = [s EXCEPT !.tr[q].as.proot = info]
    BY DEF EventInfo, ProotEvent
  <2> HIDE DEF info
  <2>2. Calm(s, [s EXCEPT !.tr[q].as.proot = info])
    BY <2>1, AsFieldCalm
  <2> QED  BY <2>1, <2>2
<1>2. Calm(s, Started(s, q))
  BY AsFieldCalm DEF Started
<1>3. Calm(s, NoSignal(s, q))
  BY AsFieldCalm DEF NoSignal, Events
<1> QED  BY <1>1, <1>2, <1>3

LEMMA SimplePtraceeEventKeeps ==
  ASSUME NEW s, Related(s, None), NEW q \in Listed(s), s.tr[q].as.ptracer # None, NEW event \in Events
  PROVE  /\ Keeps(s, HandleSimplePtraceeEvent(s, q, event).s, None)
         /\ HandleSimplePtraceeEvent(s, q, event).keep \in BOOLEAN
<1> DEFINE r == s.tr[q].as.ptracer
           s1 == ProotEvent(s, q, event)
           s2 == Started(s1, q)
           e == HandleSimpleEvent(s2, q, event).s
           handled == NoSignal(e, q)
           w == HandleSimplePtraceeEvent(s, q, event)
<1>1. s \in States /\ StoppedByEvent(s) /\ q \in Pids /\ r \in Pids
  BY RelatedFacts, PtracerKnown
<1>2. w \in {[s |-> s1, keep |-> FALSE], TellPtracer(s1, r, q, event), TellPtracer(s2, r, q, event),
              TellPtracer(handled, r, q, event)}
  BY DEF HandleSimplePtraceeEvent
<1>a. Calm(s, s1)
  BY <1>1, ProotEventCalm
<1>3. Keeps(s, s1, None) /\ s1 \in States /\ StoppedByEvent(s1) /\ Related(s1, None) /\ Listed(s1) = Listed(s)
  BY <1>a, CalmKeeps, KeepsFacts
<1> HIDE DEF s1
<1>b. Calm(s1, s2)
  BY <1>1, <1>3, ProotEventCalm
<1>4. Keeps(s, s2, None) /\ s2 \in States /\ StoppedByEvent(s2) /\ Related(s2, None) /\ Listed(s2) = Listed(s)
  BY <1>3, <1>b, KeepsCalm, KeepsFacts
<1> HIDE DEF s2
<1>5. Calm(s2, e)
  BY <1>4, SimpleEventCalm
<1>6. Keeps(s, e, None) /\ e \in States /\ StoppedByEvent(e) /\ Listed(e) = Listed(s)
  BY <1>4, <1>5, KeepsCalm, KeepsFacts
<1> HIDE DEF e
<1>c. Calm(e, handled)
  BY <1>1, <1>6, ProotEventCalm
<1>7. Keeps(s, handled, None) /\ Related(handled, None) /\ Listed(handled) = Listed(s)
  BY <1>6, <1>c, KeepsCalm, KeepsFacts
<1> HIDE DEF handled, w, r
<1>8. ASSUME NEW u \in {s1, s2, handled}, w = TellPtracer(u, r, q, event)
      PROVE  Keeps(s, w.s, None) /\ w.keep \in BOOLEAN
  <2>1. Keeps(s, u, None) /\ Related(u, None) /\ q \in Listed(u)
    BY <1>3, <1>4, <1>7, <1>8
  <2>2. Keeps(u, w.s, None) /\ w.keep \in BOOLEAN
    BY <1>1, <1>8, <2>1, TellKeeps
  <2> QED  BY <2>1, <2>2, KeepsTransitive
<1>9. CASE w = [s |-> s1, keep |-> FALSE]
  BY <1>3, <1>9 DEF w
<1>10. CASE w \in {TellPtracer(s1, r, q, event), TellPtracer(s2, r, q, event), TellPtracer(handled, r, q, event)}
  BY <1>8, <1>10 DEF w
<1> QED  BY <1>2, <1>9, <1>10

------------------------------------------------------------------------------
(* The fork event                                                            *)

\* The list may grow.
Extends(s, u) ==
  /\ Related(u, None) /\ Listed(s) \subseteq Listed(u)
  /\ \A q \in Pids : u.kn[q].child = s.kn[q].child /\ u.kn[q].event \in {s.kn[q].event, "exited"}

LEMMA KeepsExtends ==
  ASSUME NEW s, NEW u, Keeps(s, u, None)
  PROVE  Extends(s, u)
BY KeepsFacts DEF Extends, Keeps, Follows

LEMMA ExtendsTransitive ==
  ASSUME NEW s, NEW u, NEW v, Extends(s, u), Extends(u, v)
  PROVE  Extends(s, v)
BY DEF Extends

LEMMA ExtendsCalm ==
  ASSUME NEW s, NEW u, NEW v, Extends(s, u), Calm(u, v)
  PROVE  Extends(s, v)
<1>1. Keeps(u, v, None)
  BY CalmKeeps DEF Extends
<1> QED  BY <1>1, KeepsExtends, ExtendsTransitive

LEMMA ExtendsFacts ==
  ASSUME NEW s, NEW u, Extends(s, u)
  PROVE  Related(u, None) /\ u \in States /\ StoppedByEvent(u) /\ Listed(s) \subseteq Listed(u) /\ Listed(u) \subseteq Pids
BY RelatedFacts DEF Extends

LEMMA NewTraceeType == NewTracee \in Tracees
<1>1. NoEvent \in EventInfo
  BY DEF NoEvent, EventInfo, Events
<1>2. NotPtracee \in AsPtracee
  BY <1>1 DEF NotPtracee, AsPtracee, Nobody
<1>3. <<>> \in Seq(Corpse)
  BY EmptySeq
<1> QED  BY <1>2, <1>3 DEF NewTracee, Tracees, Nobody

LEMMA AddedList ==
  ASSUME NEW z \in Seq(Pids), NEW c \in Pids, IsInjective(z), c \notin Range(z)
  PROVE  <<c>> \o z \in Seq(Pids) /\ IsInjective(<<c>> \o z) /\ Range(<<c>> \o z) = Range(z) \cup {c}
<1> DEFINE y == <<c>> \o z
<1>1. <<c>> \in Seq(Pids) /\ Len(<<c>>) = 1 /\ Len(z) \in Nat
  BY LenProperties
<1>2. /\ y \in Seq(Pids) /\ Len(y) = Len(z) + 1
      /\ \A i \in 1 .. Len(z) + 1 : y[i] = IF i = 1 THEN c ELSE z[i - 1]
  BY <1>1, ConcatProperties
<1>3. DOMAIN y = 1 .. Len(z) + 1 /\ DOMAIN z = 1 .. Len(z)
  BY <1>2, LenProperties
<1> HIDE DEF y
<1>4. \A i \in 1 .. Len(z) + 1 : i # 1 => i - 1 \in 1 .. Len(z)
  BY <1>1
<1>5. \A i \in 1 .. Len(z) : i + 1 \in 1 .. Len(z) + 1 /\ i + 1 # 1 /\ (i + 1) - 1 = i
  BY <1>1
<1>6. Range(y) = Range(z) \cup {c}
  <2>1. 1 \in 1 .. Len(z) + 1
    BY <1>1
  <2>2. \A i \in 1 .. Len(z) : y[i + 1] = z[i]
    BY <1>2, <1>5
  <2>3. y[1] = c
    BY <1>2, <2>1
  <2>4. Range(y) \subseteq Range(z) \cup {c}
    BY <1>2, <1>3, <1>4 DEF Range
  <2>5. ASSUME NEW x \in Range(z)
        PROVE  x \in Range(y)
    <3>1. PICK i \in 1 .. Len(z) : x = z[i]
      BY <1>3 DEF Range
    <3>2. i + 1 \in 1 .. Len(z) + 1 /\ y[i + 1] = x
      BY <1>5, <2>2, <3>1
    <3> QED  BY <1>3, <3>2 DEF Range
  <2>6. c \in Range(y)
    BY <1>3, <2>1, <2>3 DEF Range
  <2> QED  BY <2>4, <2>5, <2>6
<1>7. IsInjective(y)
  <2>1. \A i, j \in DOMAIN z : z[i] = z[j] => i = j
    BY DEF IsInjective
  <2>2. \A i \in DOMAIN z : z[i] # c
    BY DEF Range
  <2>3. ASSUME NEW i \in DOMAIN y, NEW j \in DOMAIN y, y[i] = y[j]
        PROVE  i = j
    <3>1. CASE i = 1 \/ j = 1
      <4>1. y[i] = c => i = 1
        BY <1>2, <1>3, <1>4, <2>2, <2>3
      <4>2. y[j] = c => j = 1
        BY <1>2, <1>3, <1>4, <2>2, <2>3
      <4>3. (i = 1 => y[i] = c) /\ (j = 1 => y[j] = c)
        BY <1>2, <1>3, <2>3
      <4> QED  BY <2>3, <3>1, <4>1, <4>2, <4>3
    <3>2. CASE i # 1 /\ j # 1
      <4>1. i - 1 \in DOMAIN z /\ j - 1 \in DOMAIN z
        BY <1>3, <1>4, <2>3, <3>2
      <4>2. y[i] = z[i - 1] /\ y[j] = z[j - 1]
        BY <1>2, <1>3, <2>3, <3>2
      <4>3. i - 1 = j - 1
        BY <2>1, <2>3, <4>1, <4>2
      <4> QED  BY <1>1, <1>3, <2>3, <4>3
    <3> QED  BY <3>1, <3>2
  <2> QED  BY <2>3 DEF IsInjective
<1> QED  BY <1>2, <1>6, <1>7 DEF y

LEMMA GetTraceeExtends ==
  ASSUME NEW s, Related(s, None), NEW c \in Pids
  PROVE  Extends(s, GetTracee(s, c)) /\ c \in Listed(GetTracee(s, c)) /\ GetTracee(s, c).kn = s.kn
<1> DEFINE u == GetTracee(s, c)
<1>1. s \in States /\ StoppedByEvent(s) /\ Listed(s) \subseteq Pids
  BY RelatedFacts
<1>2. CASE c \in Listed(s)
  BY <1>2, KeepsItself, KeepsExtends DEF GetTracee
<1>3. CASE c \notin Listed(s)
  <2>1. u = [s EXCEPT !.list = <<c>> \o s.list, !.tr[c] = NewTracee]
    BY <1>3 DEF GetTracee
  <2>2. <<c>> \o s.list \in Seq(Pids) /\ IsInjective(<<c>> \o s.list) /\ Range(<<c>> \o s.list) = Listed(s) \cup {c}
    BY <1>1, <1>3, AddedList DEF Related, InTable, States, Listed
  <2>3. /\ u \in States /\ u.list = <<c>> \o s.list /\ u.kn = s.kn
        /\ \A y \in Pids : u.tr[y] = IF y = c THEN NewTracee ELSE s.tr[y]
    <3> DEFINE z == <<c>> \o s.list
               f == [s.tr EXCEPT ![c] = NewTracee]
    <3>1. z \in Seq(Pids) /\ f \in [Pids -> Tracees] /\ \A y \in Pids : f[y] = IF y = c THEN NewTracee ELSE s.tr[y]
      BY <1>1, <2>2, NewTraceeType DEF States
    <3>2. u = [s EXCEPT !.list = z, !.tr = f]
      BY <1>1, <2>1 DEF States
    <3> HIDE DEF z, f, u
    <3>3. u \in States /\ u.list = z /\ u.kn = s.kn /\ u.tr = f
      BY <1>1, <3>1, <3>2 DEF States
    <3> QED  BY <3>1, <3>3 DEF z
  <2>4. Listed(u) = Listed(s) \cup {c}
    BY <2>2, <2>3 DEF Listed
  <2> HIDE DEF u
  <2>5. /\ NewTracee.as.ptracer = None /\ NewTracee.parent = None /\ NewTracee.nb = 0 /\ NewTracee.zombies = <<>>
        /\ NewTracee.terminated = FALSE
    BY DEF NewTracee, NotPtracee
  <2>6. None \notin Pids
    BY DEF None, Pids
  <2>7. \A y \in Listed(s) : s.tr[y].as.ptracer \in Listed(s) \cup {None} /\ s.tr[y].parent \in Listed(s) \cup {None}
    BY DEF Related, Known
  <2>8. ASSUME NEW y \in Listed(u)
        PROVE  u.tr[y].nb = Cardinality(Ptracees(u, y)) + Len(u.tr[y].zombies) + Leaving(u, None, y)
    <3>1. y \in Pids /\ Leaving(u, None, y) = 0 /\ Leaving(s, None, y) = 0
      BY <1>1, <2>4, <2>6, <2>8 DEF Leaving
    <3>2. CASE y = c
      <4>1. Ptracees(u, y) = {}
        BY <1>1, <1>3, <2>3, <2>4, <2>5, <2>6, <2>7, <3>2 DEF Ptracees
      <4>2. Cardinality(Ptracees(u, y)) = 0 /\ Len(u.tr[y].zombies) = 0 /\ u.tr[y].nb = 0
        BY <2>3, <2>5, <3>1, <3>2, <4>1, FS_EmptySet
      <4> QED  BY <3>1, <4>2
    <3>3. CASE y # c
      <4>1. y \in Listed(s) /\ u.tr[y] = s.tr[y]
        BY <2>3, <2>4, <2>8, <3>1, <3>3
      <4>2. Ptracees(u, y) = Ptracees(s, y)
        BY <1>1, <1>3, <2>3, <2>4, <2>5, <2>6, <3>1 DEF Ptracees
      <4>3. s.tr[y].nb = Cardinality(Ptracees(s, y)) + Len(s.tr[y].zombies) + Leaving(s, None, y)
        BY <4>1 DEF Related, Counted
      <4> QED  BY <3>1, <4>1, <4>2, <4>3
    <3> QED  BY <3>2, <3>3
  <2>9. Known(u, None)
    BY <1>1, <2>3, <2>4, <2>5, <2>6, <2>7 DEF Known
  <2>10. InTable(u, None)
    <3>1. IsInjective(u.list) /\ None \notin Listed(u)
      BY <1>1, <2>2, <2>3, <2>4, <2>6
    <3>2. \A y \in Pids : u.tr[y].terminated => y \in Listed(u) \cup {None}
      BY <2>3, <2>4, <2>5 DEF Related, InTable
    <3> QED  BY <3>1, <3>2 DEF InTable
  <2>11. StoppedByEvent(u)
    BY <1>1, <2>3 DEF StoppedByEvent
  <2> QED  BY <2>3, <2>4, <2>8, <2>9, <2>10, <2>11 DEF Extends, Related, Counted, u
<1> QED  BY <1>2, <1>3

\* The child of a fork gets its parent.
LEMMA InheritKeeps ==
  ASSUME NEW s, Related(s, None), NEW c \in Listed(s), NEW p \in Listed(s)
  PROVE  Keeps(s, Inherit(s, c, p), None) /\ \A q \in Pids : Inherit(s, c, p).tr[q].as = s.tr[q].as
<1> DEFINE u == Inherit(s, c, p)
           t == [s.tr[c] EXCEPT !.parent = p, !.exe = TRUE]
<1>1. s \in States /\ StoppedByEvent(s) /\ Listed(s) \subseteq Pids /\ c \in Pids /\ p \in Pids
  BY RelatedFacts
<1>2. s.tr[c] \in Tracees
  BY <1>1 DEF States
<1>3. u = [s EXCEPT !.tr[c] = t]
  BY <1>1 DEF Inherit, States
<1>4. /\ t \in Tracees /\ t.nb = s.tr[c].nb /\ t.zombies = s.tr[c].zombies /\ t.parent = p
      /\ t.terminated = s.tr[c].terminated /\ t.as = s.tr[c].as
  <2>1. p \in Nobody
    BY <1>1 DEF Nobody
  <2> QED  BY <1>2, <2>1 DEF Tracees
<1> HIDE DEF t
<1>5. /\ u \in States /\ u.list = s.list /\ u.kn = s.kn
      /\ \A y \in Pids : u.tr[y] = IF y = c THEN t ELSE s.tr[y]
  BY <1>1, <1>3, <1>4 DEF States
<1> HIDE DEF u
<1>6. Listed(u) = Listed(s)
  BY <1>5 DEF Listed
<1>7. \A y \in Pids : /\ u.tr[y].as = s.tr[y].as /\ u.tr[y].nb = s.tr[y].nb /\ u.tr[y].zombies = s.tr[y].zombies
                      /\ u.tr[y].terminated = s.tr[y].terminated
  BY <1>4, <1>5
<1>8. \A y \in Listed(s) : Ptracees(u, y) = Ptracees(s, y)
  BY <1>1, <1>6, <1>7 DEF Ptracees
<1>9. Counted(u, None)
  <2>1. \A y \in Listed(s) : Leaving(u, None, y) = Leaving(s, None, y)
    BY DEF Leaving, None, Pids
  <2> QED  BY <1>1, <1>6, <1>7, <1>8, <2>1 DEF Counted, Related
<1>10. Known(u, None)
  <2>1. \A y \in Listed(s) : u.tr[y].parent \in Listed(s) \cup {None}
    BY <1>1, <1>4, <1>5 DEF Related, Known
  <2> QED  BY <1>1, <1>6, <1>7, <2>1 DEF Known, Related
<1>11. InTable(u, None)
  BY <1>5, <1>6, <1>7 DEF InTable, Related
<1>12. StoppedByEvent(u) /\ Follows(s, u)
  BY <1>1, <1>5 DEF StoppedByEvent, Follows
<1> QED  BY <1>5, <1>7, <1>9, <1>10, <1>11, <1>12 DEF Keeps, Related, u

LEMMA AttachChildKeeps ==
  ASSUME NEW s, Related(s, None), NEW c \in Listed(s), NEW p \in Listed(s), s.tr[c].as.ptracer = None
  PROVE  Keeps(s, AttachChild(s, c, p), None)
<1> DEFINE as == s.tr[p].as
           r == as.ptracer
           o == as.options
           a == AttachToPtracer(s, c, r)
           u == AttachChild(s, c, p)
<1>1. s \in States /\ StoppedByEvent(s) /\ c \in Pids /\ p \in Pids /\ None \in Nobody
  BY RelatedFacts DEF Nobody
<1>2. \/ u = s
      \/ r # None /\ u = [a EXCEPT !.tr[c].as.options = o]
  BY DEF AttachChild
<1>3. CASE r # None /\ u = [a EXCEPT !.tr[c].as.options = o]
  <2>1. r \in Listed(s)
    BY <1>3, PtracerKnown
  <2>2. o \in SUBSET {"fork", "exitev"}
    <3>1. as \in AsPtracee
      BY <1>1, TraceeFields DEF States
    <3> QED  BY <3>1 DEF AsPtracee
  <2>3. Keeps(s, a, None) /\ a \in States /\ StoppedByEvent(a)
    BY <1>1, <2>1, AttachKeeps, KeepsFacts
  <2> HIDE DEF a, o
  <2>4. Calm(a, u)
    BY <1>1, <1>3, <2>2, <2>3, AsFieldCalm
  <2> QED  BY <2>3, <2>4, KeepsCalm
<1> QED  BY <1>2, <1>3, KeepsItself

LEMMA StartChildKeeps ==
  ASSUME NEW s, Related(s, None), NEW c \in Listed(s)
  PROVE  Keeps(s, StartChild(s, c), None)
<1> DEFINE s1 == [s EXCEPT !.tr[c].sigstop = "ALLOWED"]
           traced == s1.tr[c].as.ptracer # None
           n == IF s1.tr[c].as.ptracer = None THEN [s |-> s1, keep |-> FALSE]
                ELSE HandleSimplePtraceeEvent(s1, c, "stop")
           s2 == [n.s EXCEPT !.tr[c].as.proot = NoEvent]
           r == RestartTracee(s2, c, 0).s
<1>1. s \in States /\ StoppedByEvent(s) /\ c \in Pids
  BY RelatedFacts
<1>2. StartChild(s, c) = IF n.keep THEN s2 ELSE r
  BY DEF StartChild
<1>3. Calm(s, s1)
  BY <1>1, FieldCalm
<1>4. Keeps(s, s1, None) /\ Related(s1, None) /\ c \in Listed(s1)
  BY <1>3, CalmKeeps, KeepsFacts
<1> HIDE DEF s1
<1>5. Keeps(s1, n.s, None)
  <2>1. CASE s1.tr[c].as.ptracer = None
    BY <1>4, <2>1, KeepsItself
  <2>2. CASE s1.tr[c].as.ptracer # None
    <3>1. "stop" \in Events
      BY DEF Events
    <3> QED  BY <1>4, <2>2, <3>1, SimplePtraceeEventKeeps
  <2> QED  BY <2>1, <2>2
<1>6. Keeps(s, n.s, None) /\ n.s \in States /\ StoppedByEvent(n.s)
  BY <1>4, <1>5, KeepsTransitive, KeepsFacts
<1> HIDE DEF n
<1>7. NoEvent \in EventInfo
  BY DEF NoEvent, EventInfo, Events
<1>8. Calm(n.s, s2)
  BY <1>1, <1>6, <1>7, AsFieldCalm
<1>9. Keeps(s, s2, None) /\ s2 \in States /\ StoppedByEvent(s2)
  BY <1>6, <1>8, KeepsCalm, KeepsFacts
<1> HIDE DEF s2
<1>10. Keeps(s, r, None)
  BY <1>1, <1>9, RestartCalm, KeepsCalm
<1> HIDE DEF r
<1> QED  BY <1>2, <1>9, <1>10

LEMMA NewChildExtends ==
  ASSUME NEW s, Related(s, None), NEW p \in Listed(s), s.kn[p].child \in Pids
  PROVE  Extends(s, NewChild(s, p))
<1> DEFINE c == s.kn[p].child
           found == GetTracee(s, c)
           e == Inherit(found, c, p)
           child == AttachChild(e, c, p)
           w == NewChild(s, p)
<1>1. s \in States /\ StoppedByEvent(s)
  BY RelatedFacts
<1>2. \/ w = Crash(s, "new_child")
      \/ found.tr[c].as.ptracer = None /\ w \in {child, StartChild(child, c)}
  BY DEF NewChild
<1> HIDE DEF w
<1>3. CASE w = Crash(s, "new_child")
  <2>1. Calm(s, w)
    BY <1>1, <1>3, CrashCalm
  <2> QED  BY <2>1, CalmKeeps, KeepsExtends DEF w
<1>4. CASE found.tr[c].as.ptracer = None /\ w \in {child, StartChild(child, c)}
  <2>1. Extends(s, found) /\ c \in Listed(found)
    BY GetTraceeExtends
  <2>2. Related(found, None) /\ p \in Listed(found)
    BY <2>1, ExtendsFacts
  <2> HIDE DEF found, c
  <2>3. Keeps(found, e, None) /\ \A q \in Pids : e.tr[q].as = found.tr[q].as
    BY <2>1, <2>2, InheritKeeps
  <2>4. Related(e, None) /\ c \in Listed(e) /\ p \in Listed(e) /\ e.tr[c].as.ptracer = None
    BY <1>4, <2>1, <2>2, <2>3, KeepsFacts
  <2> HIDE DEF e
  <2>5. Keeps(e, child, None)
    BY <2>4, AttachChildKeeps
  <2>6. Keeps(found, child, None) /\ Related(child, None) /\ c \in Listed(child)
    BY <2>3, <2>4, <2>5, KeepsTransitive, KeepsFacts
  <2> HIDE DEF child
  <2>7. Keeps(child, StartChild(child, c), None)
    BY <2>6, StartChildKeeps
  <2>8. Keeps(found, w, None)
    BY <1>4, <2>6, <2>7, KeepsTransitive
  <2> QED  BY <2>1, <2>8, KeepsExtends, ExtendsTransitive DEF w
<1> QED  BY <1>2, <1>3, <1>4

LEMMA TraceeEventExtends ==
  ASSUME NEW s, Related(s, None), NEW p \in Listed(s), NEW event, event = "fork" => s.kn[p].child \in Pids
  PROVE  Extends(s, HandleTraceeEvent(s, p, event).s)
<1>1. s \in States /\ StoppedByEvent(s) /\ p \in Pids
  BY RelatedFacts
<1>2. CASE event = "fork"
  <2> DEFINE e == [s EXCEPT !.tr[p].how = TRUE]
             c == NewChild(e, p)
             w == [c EXCEPT !.tr[p].as.proot.pending = FALSE]
  <2>1. HandleTraceeEvent(s, p, event).s = w
    BY <1>2 DEF HandleTraceeEvent
  <2>2. Calm(s, e)
    BY <1>1, FieldCalm
  <2>3. Keeps(s, e, None) /\ Related(e, None) /\ p \in Listed(e) /\ e.kn[p].child = s.kn[p].child
    <3>1. e.kn[p].child = s.kn[p].child
      BY <1>1, <2>2 DEF Calm
    <3> HIDE DEF e
    <3> QED  BY <2>2, <3>1, CalmKeeps, KeepsFacts
  <2> HIDE DEF e
  <2>4. Extends(e, c)
    BY <1>2, <2>3, NewChildExtends
  <2>5. Extends(s, c) /\ c \in States /\ StoppedByEvent(c)
    BY <2>3, <2>4, KeepsExtends, ExtendsTransitive, ExtendsFacts
  <2> HIDE DEF c
  <2>6. Calm(c, w)
    BY <1>1, <2>5, AsFieldCalm
  <2> QED  BY <2>1, <2>5, <2>6, ExtendsCalm
<1>3. CASE event = "sys" /\ s.tr[p].status # 0
  <2>1. HandleTraceeEvent(s, p, event).s = HandleSysexit(s, p)
    BY <1>3 DEF HandleTraceeEvent
  <2> QED  BY <2>1, SysexitKeeps, KeepsExtends
<1>4. CASE event # "fork" /\ ~(event = "sys" /\ s.tr[p].status # 0)
  <2>1. HandleTraceeEvent(s, p, event) = HandleSimpleEvent(s, p, event)
    BY <1>4 DEF HandleTraceeEvent
  <2> QED  BY <1>1, <2>1, SimpleEventCalm, CalmKeeps, KeepsExtends
<1> QED  BY <1>2, <1>3, <1>4

LEMMA PtraceeEventExtends ==
  ASSUME NEW s, Related(s, None), NEW q \in Listed(s), s.tr[q].as.ptracer # None, NEW event \in Events,
         event = "fork" => s.kn[q].child \in Pids
  PROVE  Extends(s, HandlePtraceeEvent(s, q, event).s) /\ HandlePtraceeEvent(s, q, event).keep \in BOOLEAN
<1> DEFINE r == s.tr[q].as.ptracer
           s1 == ProotEvent(s, q, event)
           s2 == IF event = "fork" THEN Started(s1, q) ELSE s1
           e == HandleTraceeEvent(s2, q, event).s
           handled == NoSignal(e, q)
           w == HandlePtraceeEvent(s, q, event)
<1>1. s \in States /\ StoppedByEvent(s) /\ q \in Pids /\ r \in Pids
  BY RelatedFacts, PtracerKnown
<1>2. w \in {[s |-> s1, keep |-> FALSE], TellPtracer(handled, r, q, event), HandleSimplePtraceeEvent(s, q, event)}
  BY DEF HandlePtraceeEvent
<1>3. Calm(s, s1)
  BY <1>1, ProotEventCalm
<1>4. s1 \in States /\ StoppedByEvent(s1) /\ Keeps(s, s1, None)
  BY <1>3, CalmKeeps, KeepsFacts
<1>5. Calm(s1, s2)
  BY <1>1, <1>4, ProotEventCalm, CalmItself
<1>6. Keeps(s, s2, None) /\ Related(s2, None) /\ q \in Listed(s2) /\ s2.kn[q].child = s.kn[q].child
  <2>1. s2.kn[q].child = s.kn[q].child
    BY <1>1, <1>3, <1>5 DEF Calm
  <2> HIDE DEF s1, s2
  <2> QED  BY <1>4, <1>5, <2>1, KeepsCalm, KeepsFacts
<1> HIDE DEF s1, s2
<1>7. Extends(s2, e)
  BY <1>6, TraceeEventExtends
<1>8. Extends(s, e) /\ e \in States /\ StoppedByEvent(e)
  BY <1>6, <1>7, KeepsExtends, ExtendsTransitive, ExtendsFacts
<1> HIDE DEF e
<1>9. Calm(e, handled)
  BY <1>1, <1>8, ProotEventCalm
<1>10. Extends(s, handled) /\ Related(handled, None) /\ q \in Listed(handled)
  BY <1>8, <1>9, ExtendsCalm, ExtendsFacts
<1> HIDE DEF handled, w, r
<1>11. CASE w = [s |-> s1, keep |-> FALSE]
  BY <1>4, <1>11, KeepsExtends DEF w
<1>12. CASE w = TellPtracer(handled, r, q, event)
  <2>1. Keeps(handled, w.s, None) /\ w.keep \in BOOLEAN
    BY <1>1, <1>10, <1>12, TellKeeps
  <2> QED  BY <1>10, <2>1, KeepsExtends, ExtendsTransitive DEF w
<1>13. CASE w = HandleSimplePtraceeEvent(s, q, event)
  BY <1>13, SimplePtraceeEventKeeps, KeepsExtends DEF w
<1> QED  BY <1>2, <1>11, <1>12, <1>13

------------------------------------------------------------------------------
(* The removal of a terminated tracee                                        *)

LEMMA RemovedFirst ==
  ASSUME NEW z \in Seq(Pids), IsInjective(z), NEW p \in Range(z)
  PROVE  RemoveFirst(z, p) \in Seq(Pids) /\ IsInjective(RemoveFirst(z, p)) /\ Range(RemoveFirst(z, p)) = Range(z) \ {p}
<1> DEFINE found == {i \in 1 .. Len(z) : z[i] = p}
           n == Min(found)
           y == RemoveAt(z, n)
           L == Len(z)
<1>1. Len(z) \in Nat /\ DOMAIN z = 1 .. Len(z) /\ found # {} /\ found \in SUBSET Nat
  <2>1. Len(z) \in Nat /\ DOMAIN z = 1 .. Len(z)
    BY LenProperties
  <2>2. \E i \in 1 .. Len(z) : z[i] = p
    BY <2>1 DEF Range
  <2> QED  BY <2>1, <2>2
<1>2. n \in found
  <2> HIDE DEF found
  <2> QED  BY <1>1, LeastIn
<1>3. RemoveFirst(z, p) = y
  <2>1. \E i \in 1 .. Len(z) : z[i] = p
    BY <1>1
  <2> QED  BY <1>1, <2>1 DEF RemoveFirst, SelectInSeq
<1>4. n \in 1 .. Len(z) /\ z[n] = p
  BY <1>2
<1> HIDE DEF n, found
<1>5. /\ y \in Seq(Pids) /\ Len(y) = Len(z) - 1
      /\ \A i \in 1 .. Len(z) - 1 : y[i] = IF i < n THEN z[i] ELSE z[i + 1]
  BY <1>4, RemovedAt
<1>6. DOMAIN y = 1 .. Len(z) - 1
  BY <1>5, LenProperties
<1>7. L \in Nat /\ n \in 1 .. L /\ DOMAIN y = 1 .. L - 1 /\ DOMAIN z = 1 .. L
      /\ (\A i \in 1 .. L - 1 : y[i] = IF i < n THEN z[i] ELSE z[i + 1])
      /\ (\A i, j \in 1 .. L : z[i] = z[j] => i = j)
  BY <1>1, <1>4, <1>5, <1>6 DEF IsInjective
<1> HIDE DEF y, L
<1> DEFINE from(i) == IF i < n THEN i ELSE i + 1
<1>8. ASSUME NEW i \in 1 .. L - 1
      PROVE  y[i] = z[from(i)] /\ from(i) \in 1 .. L /\ from(i) # n /\ i \in Nat
  BY <1>7
<1>9. ASSUME NEW i \in 1 .. L - 1, NEW j \in 1 .. L - 1, from(i) = from(j)
      PROVE  i = j
  BY <1>7, <1>9
<1>10. ASSUME NEW k \in 1 .. L, k # n
       PROVE  \E i \in 1 .. L - 1 : from(i) = k
  <2>1. CASE k < n
    <3>1. k \in 1 .. L - 1 /\ from(k) = k
      BY <1>7, <2>1
    <3> QED  BY <3>1
  <2>2. CASE ~(k < n)
    <3>1. k - 1 \in 1 .. L - 1 /\ from(k - 1) = k
      BY <1>7, <1>10, <2>2
    <3> QED  BY <3>1
  <2> QED  BY <2>1, <2>2
<1> HIDE DEF from
<1>11. IsInjective(y)
  <2>1. ASSUME NEW i \in 1 .. L - 1, NEW j \in 1 .. L - 1, y[i] = y[j]
        PROVE  i = j
    <3>1. from(i) = from(j)
      BY <1>7, <1>8, <2>1
    <3> QED  BY <1>9, <3>1
  <2> QED  BY <1>7, <2>1 DEF IsInjective
<1>12. Range(y) = Range(z) \ {p}
  <2>1. ASSUME NEW v \in Range(y)
        PROVE  v \in Range(z) /\ v # p
    <3>1. PICK i \in 1 .. L - 1 : v = y[i]
      BY <1>7 DEF Range
    <3>2. v = z[from(i)] /\ from(i) \in 1 .. L /\ from(i) # n
      BY <1>8, <3>1
    <3> QED  BY <1>4, <1>7, <3>2 DEF Range
  <2>2. ASSUME NEW v \in Range(z), v # p
        PROVE  v \in Range(y)
    <3>1. PICK k \in 1 .. L : v = z[k]
      BY <1>7 DEF Range
    <3>2. PICK i \in 1 .. L - 1 : from(i) = k
      BY <1>4, <1>10, <2>2, <3>1
    <3>3. y[i] = v
      BY <1>8, <3>1, <3>2
    <3> QED  BY <1>7, <3>3 DEF Range
  <2> QED  BY <2>1, <2>2
<1> QED  BY <1>3, <1>5, <1>11, <1>12 DEF y

\* The rest of the processes is left alone.
Passes(s, u) == \A q \in Pids : u.kn[q].child = s.kn[q].child /\ u.kn[q].event \in {s.kn[q].event, "exited"}

LEMMA PassesTransitive ==
  ASSUME NEW s, NEW u, NEW v, Passes(s, u), Passes(u, v)
  PROVE  Passes(s, v)
BY DEF Passes

Unlink(s, p) == [s EXCEPT !.list = RemoveFirst(@, p)]

\* p is removed from the list, and leaves.
LEMMA UnlinkRelated ==
  ASSUME NEW s, Related(s, None), NEW p \in Listed(s)
  PROVE  /\ Related(Unlink(s, p), p) /\ Passes(s, Unlink(s, p)) /\ Listed(Unlink(s, p)) = Listed(s) \ {p}
<1> DEFINE u == Unlink(s, p)
           z == RemoveFirst(s.list, p)
<1>1. s \in States /\ StoppedByEvent(s) /\ Listed(s) \subseteq Pids /\ p \in Pids /\ None \notin Pids
  BY RelatedFacts DEF None, Pids
<1>2. z \in Seq(Pids) /\ IsInjective(z) /\ Range(z) = Listed(s) \ {p}
  <2>1. s.list \in Seq(Pids) /\ IsInjective(s.list) /\ p \in Range(s.list) /\ Range(s.list) = Listed(s)
    BY <1>1 DEF States, Related, InTable, Listed
  <2> QED  BY <2>1, RemovedFirst
<1>3. u = [s EXCEPT !.list = z]
  BY DEF Unlink
<1> HIDE DEF z
<1>4. u \in States /\ u.list = z /\ u.tr = s.tr /\ u.kn = s.kn
  BY <1>1, <1>2, <1>3 DEF States
<1>5. Listed(u) = Listed(s) \ {p}
  BY <1>2, <1>4 DEF Listed
<1> HIDE DEF u
<1>6. Counted(u, p)
  <2>1. ASSUME NEW r \in Listed(u)
        PROVE  u.tr[r].nb = Cardinality(Ptracees(u, r)) + Len(u.tr[r].zombies) + Leaving(u, p, r)
    <3>1. r \in Listed(s)
      BY <1>5
    <3>2. /\ s.tr[r].nb = Cardinality(Ptracees(s, r)) + Len(s.tr[r].zombies) + Leaving(s, None, r)
          /\ Cardinality(Ptracees(s, r)) \in Nat /\ Len(s.tr[r].zombies) \in Nat /\ Leaving(s, None, r) = 0
      BY <1>1, <3>1, CountedTerms DEF Related, Leaving
    <3>3. Ptracees(u, r) = Ptracees(s, r) \ {p}
      BY <1>4, <1>5 DEF Ptracees
    <3>4. CASE s.tr[p].as.ptracer = r
      <4>1. p \in Ptracees(s, r) /\ Leaving(u, p, r) = 1
        BY <1>1, <1>4, <3>4 DEF Ptracees, Leaving
      <4>2. IsFiniteSet(Ptracees(s, r))
        BY <1>1, PtraceesFinite
      <4>3. Cardinality(Ptracees(s, r) \ {p}) = Cardinality(Ptracees(s, r)) - 1
        BY <4>1, <4>2, FS_RemoveElement
      <4>4. PICK a \in Nat, b \in Nat : a = Cardinality(Ptracees(s, r)) /\ b = Len(s.tr[r].zombies)
        BY <3>2
      <4>5. a + b + 0 = (a - 1) + b + 1
        OBVIOUS
      <4>6. u.tr[r] = s.tr[r] /\ Cardinality(Ptracees(u, r)) = a - 1 /\ s.tr[r].nb = a + b + 0
        BY <1>4, <3>2, <3>3, <4>3, <4>4
      <4> QED  BY <4>1, <4>4, <4>5, <4>6
    <3>5. CASE s.tr[p].as.ptracer # r
      <4>1. Ptracees(s, r) \ {p} = Ptracees(s, r) /\ Leaving(u, p, r) = 0
        BY <1>1, <1>4, <3>5 DEF Ptracees, Leaving
      <4> QED  BY <1>4, <3>2, <3>3, <4>1
    <3> QED  BY <3>4, <3>5
  <2> QED  BY <2>1 DEF Counted
<1>7. Known(u, p)
  BY <1>1, <1>4, <1>5 DEF Known, Related
<1>8. InTable(u, p)
  BY <1>1, <1>2, <1>4, <1>5 DEF InTable, Related
<1>9. StoppedByEvent(u)
  BY <1>1, <1>4 DEF StoppedByEvent
<1> QED  BY <1>4, <1>5, <1>6, <1>7, <1>8, <1>9 DEF Related, Passes, u

\* Nobody is left that has p as its parent.
Childless(s, p) == \A q \in Listed(s) : s.tr[q].parent # p

LEMMA OrphanKeeps ==
  ASSUME NEW s, NEW p \in Pids, Related(s, p)
  PROVE  Keeps(s, OrphanChildren(s, p), p) /\ Childless(OrphanChildren(s, p), p)
<1> DEFINE u == OrphanChildren(s, p)
<1>1. s \in States /\ StoppedByEvent(s) /\ Listed(s) \subseteq Pids /\ None \in Nobody /\ p # None
  BY RelatedFacts DEF Nobody, None, Pids
<1>2. ASSUME NEW q \in Pids
      PROVE  /\ u.tr[q] \in Tracees /\ u.tr[q].nb = s.tr[q].nb /\ u.tr[q].zombies = s.tr[q].zombies
             /\ u.tr[q].terminated = s.tr[q].terminated /\ u.tr[q].as = s.tr[q].as
             /\ u.tr[q].parent = IF q \in Listed(s) /\ s.tr[q].parent = p THEN None ELSE s.tr[q].parent
  <2> DEFINE t == s.tr[q]
  <2>1. t \in Tracees
    BY <1>1 DEF States
  <2>2. u.tr[q] = IF q \in Listed(s) /\ t.parent = p THEN [t EXCEPT !.parent = None] ELSE t
    BY <1>1 DEF OrphanChildren, States
  <2> HIDE DEF t, u
  <2>3. CASE q \in Listed(s) /\ t.parent = p
    <3>1. u.tr[q] = [t EXCEPT !.parent = None]
      BY <2>2, <2>3
    <3> QED  BY <1>1, <2>1, <2>3, <3>1 DEF Tracees, t
  <2>4. CASE ~(q \in Listed(s) /\ t.parent = p)
    BY <2>1, <2>2, <2>4 DEF t
  <2> QED  BY <2>3, <2>4
<1>3. u = [s EXCEPT !.tr = u.tr] /\ DOMAIN u.tr = Pids
  BY <1>1 DEF OrphanChildren, States
<1>4. u.tr \in [Pids -> Tracees]
  BY <1>1, <1>2 DEF OrphanChildren, States
<1> HIDE DEF u
<1>5. u \in States /\ u.list = s.list /\ u.kn = s.kn /\ Listed(u) = Listed(s)
  BY <1>1, <1>3, <1>4 DEF States, Listed
<1>6. \A r \in Listed(s) : Ptracees(u, r) = Ptracees(s, r)
  BY <1>1, <1>2, <1>5 DEF Ptracees
<1>7. Counted(u, p)
  <2>1. \A r \in Listed(s) : Leaving(u, p, r) = Leaving(s, p, r)
    BY <1>2 DEF Leaving
  <2> QED  BY <1>1, <1>2, <1>5, <1>6, <2>1 DEF Counted, Related
<1>8. Known(u, p)
  BY <1>1, <1>2, <1>5 DEF Known, Related
<1>9. InTable(u, p)
  BY <1>1, <1>2, <1>5 DEF InTable, Related
<1>10. StoppedByEvent(u) /\ Follows(s, u)
  BY <1>1, <1>5 DEF StoppedByEvent, Follows
<1>11. Childless(u, p)
  BY <1>1, <1>2, <1>5 DEF Childless
<1> QED  BY <1>5, <1>7, <1>8, <1>9, <1>10, <1>11 DEF Keeps, Related, u

\* free_as_ptracer(): a ptracee of the one that leaves.
LEMMA UntieLeaving ==
  ASSUME NEW s, NEW p \in Pids, Related(s, p), NEW q \in Listed(s), s.tr[q].as.ptracer = p, NEW u, Moved(s, u, q, None)
  PROVE  Related(u, p)
<1>1. s \in States /\ StoppedByEvent(s) /\ Listed(s) \subseteq Pids /\ p # None /\ p \notin Listed(s) /\ q # p
  BY RelatedFacts DEF None, Pids, Related, InTable
<1>2. /\ u \in States /\ u.list = s.list /\ u.kn = s.kn /\ Listed(u) = Listed(s)
      /\ \A y \in Pids :
           /\ u.tr[y].nb = s.tr[y].nb /\ u.tr[y].parent = s.tr[y].parent /\ u.tr[y].zombies = s.tr[y].zombies
           /\ u.tr[y].terminated = s.tr[y].terminated
           /\ u.tr[y].as.ptracer = IF y = q THEN None ELSE s.tr[y].as.ptracer
  BY DEF Moved, Listed
<1>3. \A r \in Listed(s) : Ptracees(u, r) = Ptracees(s, r)
  BY <1>1, <1>2 DEF Ptracees, None, Pids
<1>4. \A r : Leaving(u, p, r) = Leaving(s, p, r)
  BY <1>1, <1>2 DEF Leaving
<1>5. Counted(u, p)
  BY <1>1, <1>2, <1>3, <1>4 DEF Counted, Related
<1>6. Known(u, p)
  BY <1>1, <1>2 DEF Known, Related
<1>7. InTable(u, p)
  BY <1>1, <1>2 DEF InTable, Related
<1>8. StoppedByEvent(u)
  BY <1>1, <1>2 DEF StoppedByEvent
<1> QED  BY <1>2, <1>5, <1>6, <1>7, <1>8 DEF Related

\* What the release of the ptracees of p leaves.
Released(s, u, p) ==
  /\ Keeps(s, u, p)
  /\ \A y \in Pids : u.tr[y].parent = s.tr[y].parent /\ u.tr[y].as.ptracer \in {s.tr[y].as.ptracer, None}

LEMMA ReleasedTransitive ==
  ASSUME NEW s, NEW u, NEW v, NEW p, Released(s, u, p), Released(u, v, p)
  PROVE  Released(s, v, p)
BY KeepsTransitive DEF Released

LEMMA FreePtraceeReleased ==
  ASSUME NEW s, NEW p \in Pids, Related(s, p), NEW q \in Listed(s), s.tr[q].as.ptracer = p
  PROVE  Released(s, FreePtracee(s, q), p) /\ FreePtracee(s, q).tr[q].as.ptracer = None
<1> DEFINE free == [s EXCEPT !.tr[q].as.ptracer = None]
           r == ReleaseEvent(free, q)
           told == s.tr[q].as.proot.pending \/ s.tr[q].as.event.pending
           c == RestartTracee(r.s, q, r.signal).s
           v == IF told THEN c ELSE free
           u == FreePtracee(s, q)
<1>1. s \in States /\ StoppedByEvent(s) /\ q \in Pids
  BY RelatedFacts
<1>2. u = [v EXCEPT !.tr[q].as = NotPtracee]
  BY DEF FreePtracee
<1>3. Moved(s, free, q, None)
  BY <1>1, UntieIs
<1> HIDE DEF free, told, u
<1>4. Related(free, p) /\ free \in States /\ StoppedByEvent(free) /\ Listed(free) = Listed(s)
  <2>1. Related(free, p)
    BY <1>1, <1>3, UntieLeaving
  <2>2. Listed(free) = Listed(s)
    BY <1>3 DEF Moved, Listed
  <2> QED  BY <2>1, <2>2, RelatedFacts
<1>5. Calm(free, v)
  <2>1. Calm(free, r.s)
    BY <1>4, ReleaseCalm
  <2>2. r.s \in States /\ StoppedByEvent(r.s)
    BY <2>1, CalmFacts
  <2> HIDE DEF r
  <2>3. Calm(r.s, c)
    BY <1>1, <2>2, RestartCalm
  <2> HIDE DEF c
  <2>4. Calm(free, c)
    BY <2>1, <2>3, CalmTransitive
  <2> QED  BY <1>4, <2>4, CalmItself
<1> HIDE DEF r, c, v
<1>6. v \in States /\ StoppedByEvent(v) /\ v.tr[q].as.ptracer = None
  BY <1>1, <1>3, <1>5, CalmFacts DEF Calm, Moved
<1>7. NotPtracee \in AsPtracee /\ NotPtracee.ptracer = None
  <2>1. NewTracee.as \in AsPtracee
    BY NewTraceeType, TraceeFields
  <2> QED  BY <2>1 DEF NewTracee, NotPtracee
<1>8. Calm(v, u)
  BY <1>1, <1>2, <1>6, <1>7, AsCalm
<1>9. Calm(free, u)
  BY <1>5, <1>8, CalmTransitive
<1>10. Keeps(free, u, p)
  BY <1>4, <1>9, CalmKeeps
<1>11. Keeps(s, u, p)
  BY <1>3, <1>10 DEF Keeps, Follows, Moved
<1>12. \A y \in Pids : /\ u.tr[y].parent = s.tr[y].parent
                       /\ u.tr[y].as.ptracer = IF y = q THEN None ELSE s.tr[y].as.ptracer
  BY <1>3, <1>9 DEF Calm, Moved
<1> QED  BY <1>1, <1>11, <1>12 DEF Released, u

\* Induction along a list.
LEMMA Counting ==
  ASSUME NEW N \in Nat, NEW P \in SUBSET Nat, 0 \in P, \A n \in 1 .. N : n - 1 \in P => n \in P
  PROVE  \A n \in 0 .. N : n \in P
<1> DEFINE Late == (0 .. N) \ P
<1>1. SUFFICES ASSUME Late # {} PROVE FALSE
  OBVIOUS
<1>2. PICK x \in Late : \A y \in Late : x <= y
  <2>1. Late \in SUBSET Nat
    OBVIOUS
  <2> HIDE DEF Late
  <2> QED  BY <1>1, <2>1, Least
<1>3. x \in 1 .. N /\ x - 1 \in 0 .. N /\ ~(x <= x - 1)
  BY <1>2
<1>4. x - 1 \in P
  BY <1>2, <1>3
<1> QED  BY <1>2, <1>3, <1>4

\* f is the sequence of the results of the steps G along the numbers 1 .. N.
Computes(f, S, s, N, G) == f \in [0 .. N -> S] /\ f[0] = s /\ \A n \in 1 .. N : f[n] = G[<<n, f[n - 1]>>]

LEMMA Recursion ==
  ASSUME NEW S, NEW s \in S, NEW N \in Nat, NEW G \in [(1 .. N) \X S -> S]
  PROVE  \E f : Computes(f, S, s, N, G)
<1> DEFINE Good(m) == \E f \in [0 .. m -> S] : f[0] = s /\ \A n \in 1 .. m : f[n] = G[<<n, f[n - 1]>>]
           P == {m \in Nat : Good(m)}
<1>1. ASSUME NEW m \in 1 .. N, Good(m - 1)
      PROVE  Good(m)
  <2>1. PICK f \in [0 .. m - 1 -> S] : f[0] = s /\ \A n \in 1 .. m - 1 : f[n] = G[<<n, f[n - 1]>>]
    BY <1>1
  <2>2. m - 1 \in 0 .. m - 1 /\ 0 \in 0 .. m - 1 /\ m # 0 /\ m \in 0 .. m
    BY <1>1
  <2>3. f[m - 1] \in S
    BY <2>1, <2>2
  <2>4. G[<<m, f[m - 1]>>] \in S
    <3>1. <<m, f[m - 1]>> \in (1 .. N) \X S
      BY <2>3
    <3> QED  BY <3>1
  <2> DEFINE g == [n \in 0 .. m |-> IF n = m THEN G[<<m, f[m - 1]>>] ELSE f[n]]
  <2>5. \A n \in 0 .. m : n # m => n \in 0 .. m - 1
    BY <1>1
  <2>6. g \in [0 .. m -> S]
    BY <2>1, <2>4, <2>5
  <2>7. g[0] = s
    BY <2>1, <2>2
  <2>8. \A n \in 1 .. m : g[n] = G[<<n, g[n - 1]>>]
    <3> TAKE n \in 1 .. m
    <3>1. n \in 0 .. m /\ n - 1 \in 0 .. m /\ n - 1 # m
      BY <1>1
    <3>2. g[n - 1] = f[n - 1]
      BY <3>1
    <3>3. CASE n = m  BY <3>1, <3>2, <3>3
    <3>4. CASE n # m
      <4>1. n \in 1 .. m - 1 /\ g[n] = f[n]
        BY <3>1, <3>4, <1>1
      <4> QED  BY <2>1, <3>2, <4>1
    <3> QED  BY <3>3, <3>4
  <2> QED  BY <2>6, <2>7, <2>8
<1>2. Good(0)
  <2> DEFINE g == [n \in 0 .. 0 |-> s]
  <2>1. g \in [0 .. 0 -> S] /\ g[0] = s /\ 1 .. 0 = {}
    OBVIOUS
  <2> QED  BY <2>1
<1>3. 0 \in P /\ P \in SUBSET Nat
  BY <1>2
<1>4. ASSUME NEW n \in 1 .. N, n - 1 \in P
      PROVE  n \in P
  BY <1>1, <1>4
<1>5. \A n \in 0 .. N : n \in P
  <2> HIDE DEF P
  <2> QED  BY <1>3, <1>4, Counting
<1> QED  BY <1>5 DEF Computes

\* No ptracee of p is left.
Alone(s, p) == \A q \in Listed(s) : s.tr[q].as.ptracer # p

LEMMA FreePtraceesReleased ==
  ASSUME NEW s, NEW p \in Pids, Related(s, p)
  PROVE  Released(s, FreePtracees(s, p), p) /\ Alone(FreePtracees(s, p), p)
<1> DEFINE N == Len(s.list)
           V == {u \in States : Released(s, u, p)}
           Step(n, u) == IF u.tr[s.list[n]].as.ptracer = p THEN FreePtracee(u, s.list[n]) ELSE u
           Eq(f) == f = [n \in 0 .. N |-> IF n = 0 THEN s ELSE Step(n, f[n - 1])]
           G == [x \in (1 .. N) \X V |-> Step(x[1], x[2])]
           g == CHOOSE f : Eq(f)
<1>1. s \in States /\ Listed(s) \subseteq Pids /\ s.list \in Seq(Pids) /\ N \in Nat /\ p # None
  BY RelatedFacts, LenProperties DEF States, None, Pids
<1>2. \A n \in 1 .. N : s.list[n] \in Listed(s)
  BY <1>1 DEF Listed, Range
<1>3. s \in V
  BY <1>1, KeepsItself DEF Released
<1>4. ASSUME NEW n \in 1 .. N, NEW u \in V
      PROVE  /\ Step(n, u) \in V /\ Released(u, Step(n, u), p)
             /\ Step(n, u).tr[s.list[n]].as.ptracer # p
  <2> DEFINE q == s.list[n]
             v == Step(n, u)
  <2>1. Released(s, u, p) /\ u \in States /\ Related(u, p) /\ q \in Listed(u)
    BY <1>2, KeepsFacts DEF Released
  <2>2. CASE u.tr[q].as.ptracer = p
    <3>1. v = FreePtracee(u, q)
      BY <2>2
    <3> HIDE DEF q, v
    <3>2. Released(u, v, p) /\ v.tr[q].as.ptracer = None
      BY <2>1, <2>2, <3>1, FreePtraceeReleased
    <3>3. Released(s, v, p) /\ v \in States
      BY <2>1, <3>2, ReleasedTransitive, KeepsFacts DEF Released
    <3> QED  BY <1>1, <3>2, <3>3 DEF q, v
  <2>3. CASE u.tr[q].as.ptracer # p
    <3>1. v = u
      BY <2>3
    <3>2. Released(u, u, p)
      BY <2>1, KeepsItself DEF Released
    <3> QED  BY <2>1, <2>3, <3>1, <3>2
  <2> QED  BY <2>2, <2>3
<1>5. FreePtracees(s, p) = g[N]
  BY DEF FreePtracees
<1> HIDE DEF Step
<1>6. G \in [(1 .. N) \X V -> V]
  BY <1>4
<1>7. PICK f : Computes(f, V, s, N, G)
  <2> HIDE DEF G, N, V
  <2> QED  BY <1>1, <1>3, <1>6, Recursion
<1>8. f \in [0 .. N -> V] /\ f[0] = s /\ \A n \in 1 .. N : f[n] = G[<<n, f[n - 1]>>]
  BY <1>7 DEF Computes
<1>9. \A n \in 1 .. N : f[n] = Step(n, f[n - 1])
  <2> TAKE n \in 1 .. N
  <2>1. f[n - 1] \in V
    BY <1>1, <1>8
  <2>2. G[<<n, f[n - 1]>>] = Step(n, f[n - 1])
    BY <2>1
  <2> QED  BY <1>8, <2>2
<1>10. Eq(f)
  BY <1>1, <1>8, <1>9
<1>11. Eq(g)
  BY <1>10
<1>12. g[0] = s /\ \A n \in 1 .. N : g[n] = Step(n, g[n - 1])
  <2>1. g = [n \in 0 .. N |-> IF n = 0 THEN s ELSE Step(n, g[n - 1])]
    BY <1>11
  <2>2. 0 \in 0 .. N /\ \A n \in 1 .. N : n \in 0 .. N /\ n # 0
    BY <1>1
  <2> HIDE DEF g, N
  <2> QED  BY <2>1, <2>2
<1> HIDE DEF g, V, G, Eq
<1> DEFINE P == {n \in Nat : g[n] \in V /\ \A i \in 1 .. n : g[n].tr[s.list[i]].as.ptracer # p}
<1>13. 0 \in P /\ P \in SUBSET Nat
  BY <1>3, <1>12
<1>14. ASSUME NEW n \in 1 .. N, n - 1 \in P
       PROVE  n \in P
  <2>1. g[n - 1] \in V /\ \A i \in 1 .. n - 1 : g[n - 1].tr[s.list[i]].as.ptracer # p
    BY <1>14
  <2>2. g[n] \in V /\ Released(g[n - 1], g[n], p) /\ g[n].tr[s.list[n]].as.ptracer # p
    BY <1>4, <1>12, <2>1
  <2>3. ASSUME NEW i \in 1 .. n
        PROVE  g[n].tr[s.list[i]].as.ptracer # p
    <3>1. CASE i = n
      BY <2>2, <3>1
    <3>2. CASE i # n
      <4>1. i \in 1 .. n - 1 /\ s.list[i] \in Pids
        BY <1>1, <1>2, <3>2
      <4>2. g[n].tr[s.list[i]].as.ptracer \in {g[n - 1].tr[s.list[i]].as.ptracer, None}
        BY <2>2, <4>1 DEF Released
      <4> QED  BY <1>1, <2>1, <4>1, <4>2
    <3> QED  BY <3>1, <3>2
  <2>4. n \in Nat
    BY <1>1
  <2> QED  BY <2>2, <2>3, <2>4
<1>15. \A n \in 0 .. N : n \in P
  <2> HIDE DEF P, N
  <2> QED  BY <1>1, <1>13, <1>14, Counting
<1>16. g[N] \in V /\ \A i \in 1 .. N : g[N].tr[s.list[i]].as.ptracer # p
  BY <1>1, <1>15
<1>17. Released(s, g[N], p)
  BY <1>16 DEF V
<1>18. Alone(g[N], p)
  <2>1. Listed(g[N]) = Listed(s)
    BY <1>17, KeepsFacts DEF Released
  <2>2. \A q \in Listed(s) : \E i \in 1 .. N : q = s.list[i]
    <3>1. DOMAIN s.list = 1 .. N
      BY <1>1, LenProperties
    <3> QED  BY <3>1 DEF Listed, Range
  <2> QED  BY <1>16, <2>1, <2>2 DEF Alone
<1> QED  BY <1>5, <1>17, <1>18

\* No parent and no ptracer is the tracee that leaves.
Clean(s, p) == Childless(s, p) /\ Alone(s, p)

LEMMA CalmClean ==
  ASSUME NEW s \in States, NEW u, NEW p, Calm(s, u), Clean(s, p)
  PROVE  Clean(u, p)
<1>1. Listed(u) = Listed(s) /\ Listed(s) \subseteq Pids
  BY CalmFacts, ListedPids
<1> QED  BY <1>1 DEF Clean, Childless, Alone, Calm

Zombified(s, p, r, z) == [s EXCEPT !.tr[r].zombies = <<z>> \o @, !.tr[p].as.ptracer = None]

\* The one that leaves becomes a zombie of its ptracer: it still counts.
LEMMA BecomesZombie ==
  ASSUME NEW s, NEW p \in Pids, Related(s, p), Clean(s, p), NEW r \in Pids, s.tr[p].as.ptracer = r,
         NEW z \in Corpse
  PROVE  /\ Keeps(s, Zombified(s, p, r, z), p) /\ Clean(Zombified(s, p, r, z), p)
         /\ Zombified(s, p, r, z).tr[p].as.ptracer = None
<1> DEFINE b == s.tr[r]
           y == <<z>> \o b.zombies
           t == Tallied(b, y, b.nb)
           v == [s EXCEPT !.tr[r] = t]
           u == Zombified(s, p, r, z)
<1>1. s \in States /\ StoppedByEvent(s) /\ Listed(s) \subseteq Pids /\ p # None /\ p \notin Listed(s) /\ r # None
  BY RelatedFacts DEF None, Pids, Related, InTable
<1>2. b \in Tracees /\ b.zombies \in Seq(Corpse) /\ b.nb \in Int /\ Len(b.zombies) \in Nat
  <2>1. b \in Tracees
    BY <1>1 DEF States
  <2> QED  BY <2>1, TraceeFields, LenProperties
<1>3. y \in Seq(Corpse) /\ Len(y) = Len(b.zombies) + 1
  <2>1. <<z>> \in Seq(Corpse) /\ Len(<<z>>) = 1
    OBVIOUS
  <2>2. y \in Seq(Corpse) /\ Len(y) = Len(<<z>>) + Len(b.zombies)
    BY <1>2, <2>1, ConcatProperties
  <2> QED  BY <1>2, <2>1, <2>2
<1>4. v = [s EXCEPT !.tr[r].zombies = <<z>> \o @]
  BY <1>1, <1>2 DEF States, Tallied, Tracees
<1>5. u = [v EXCEPT !.tr[p].as.ptracer = None]
  BY <1>4 DEF Zombified
<1> HIDE DEF y
<1>6. /\ t \in Tracees /\ t.nb = b.nb /\ t.zombies = y /\ t.parent = b.parent
      /\ t.terminated = b.terminated /\ t.as = b.as
  <2>1. b \in Tracees /\ b.nb \in Int /\ y \in Seq(Corpse)
    BY <1>2, <1>3
  <2> HIDE DEF b
  <2>2. /\ Tallied(b, y, b.nb) \in Tracees /\ Tallied(b, y, b.nb).nb = b.nb /\ Tallied(b, y, b.nb).zombies = y
        /\ Tallied(b, y, b.nb).parent = b.parent /\ Tallied(b, y, b.nb).terminated = b.terminated
        /\ Tallied(b, y, b.nb).as = b.as
    BY <2>1, ZombiesChange
  <2> QED  BY <2>2
<1> HIDE DEF t
<1>7. /\ v \in States /\ v.list = s.list /\ v.kn = s.kn
      /\ \A q \in Pids : v.tr[q] = IF q = r THEN t ELSE s.tr[q]
  BY <1>1, <1>6 DEF States
<1> HIDE DEF v
<1>8. Moved(v, u, p, None)
  BY <1>5, <1>7, UntieIs
<1> HIDE DEF u
<1>9. /\ u \in States /\ u.list = s.list /\ u.kn = s.kn /\ Listed(u) = Listed(s)
      /\ \A q \in Pids :
           /\ u.tr[q].nb = s.tr[q].nb /\ u.tr[q].parent = s.tr[q].parent
           /\ u.tr[q].terminated = s.tr[q].terminated
           /\ u.tr[q].zombies = IF q = r THEN y ELSE s.tr[q].zombies
           /\ u.tr[q].as.ptracer = IF q = p THEN None ELSE s.tr[q].as.ptracer
  <2>1. \A q \in Pids :
           /\ v.tr[q].nb = s.tr[q].nb /\ v.tr[q].parent = s.tr[q].parent
           /\ v.tr[q].terminated = s.tr[q].terminated
           /\ v.tr[q].zombies = IF q = r THEN y ELSE s.tr[q].zombies
           /\ v.tr[q].as.ptracer = s.tr[q].as.ptracer
    BY <1>6, <1>7
  <2>2. u \in States /\ u.list = s.list /\ u.kn = s.kn
    BY <1>7, <1>8 DEF Moved
  <2>3. Listed(u) = Listed(s)
    BY <2>2 DEF Listed
  <2> QED  BY <1>8, <2>1, <2>2, <2>3 DEF Moved
<1>10. Counted(u, p)
  <2>1. ASSUME NEW q \in Listed(u)
        PROVE  u.tr[q].nb = Cardinality(Ptracees(u, q)) + Len(u.tr[q].zombies) + Leaving(u, p, q)
    <3>1. q \in Listed(s) /\ q \in Pids /\ q # None /\ q # p
      BY <1>1, <1>9 DEF None, Pids
    <3>2. /\ s.tr[q].nb = Cardinality(Ptracees(s, q)) + Len(s.tr[q].zombies) + Leaving(s, p, q)
          /\ Cardinality(Ptracees(s, q)) \in Nat /\ Len(s.tr[q].zombies) \in Nat /\ Leaving(s, p, q) \in Nat
      BY <1>1, <3>1, CountedTerms DEF Related
    <3>3. Ptracees(u, q) = Ptracees(s, q)
      BY <1>1, <1>9 DEF Ptracees
    <3>4. Leaving(u, p, q) = 0
      BY <1>9, <3>1 DEF Leaving
    <3>5. CASE q = r
      <4>1. Leaving(s, p, q) = 1 /\ Len(u.tr[q].zombies) = Len(s.tr[q].zombies) + 1
        BY <1>3, <1>9, <3>1, <3>5 DEF Leaving
      <4>2. PICK a \in Nat, k \in Nat : a = Cardinality(Ptracees(s, q)) /\ k = Len(s.tr[q].zombies)
        BY <3>2
      <4>3. a + k + 1 = a + (k + 1) + 0
        OBVIOUS
      <4>4. u.tr[q].nb = s.tr[q].nb
        BY <1>9, <3>1
      <4> QED  BY <3>2, <3>3, <3>4, <4>1, <4>2, <4>3, <4>4
    <3>6. CASE q # r
      <4>1. Leaving(s, p, q) = 0 /\ u.tr[q].zombies = s.tr[q].zombies /\ u.tr[q].nb = s.tr[q].nb
        BY <1>9, <3>1, <3>6 DEF Leaving
      <4> QED  BY <3>2, <3>3, <3>4, <4>1
    <3> QED  BY <3>5, <3>6
  <2> QED  BY <2>1 DEF Counted
<1>11. Known(u, p)
  BY <1>1, <1>9 DEF Known, Related
<1>12. InTable(u, p)
  BY <1>1, <1>9 DEF InTable, Related
<1>13. StoppedByEvent(u) /\ Follows(s, u)
  BY <1>1, <1>9 DEF StoppedByEvent, Follows
<1>14. Clean(u, p)
  BY <1>1, <1>9 DEF Clean, Childless, Alone
<1> QED  BY <1>9, <1>10, <1>11, <1>12, <1>13, <1>14 DEF Keeps, Related, u

LEMMA DetachClean ==
  ASSUME NEW s, NEW p \in Pids, Related(s, p), Clean(s, p)
  PROVE  Clean(DetachFromPtracer(s, p), p)
<1> DEFINE v == DetachFromPtracer(s, p)
           r == s.tr[p].as.ptracer
<1>1. s \in States /\ StoppedByEvent(s) /\ Listed(s) \subseteq Pids /\ p \notin Listed(s)
  BY RelatedFacts DEF Related, InTable
<1>2. PICK u : Moved(s, u, p, None) /\ Grown(u, v, r, -1)
  BY <1>1, DetachIs
<1>3. Listed(v) = Listed(s) /\ \A y \in Listed(s) : v.tr[y].parent = s.tr[y].parent /\ v.tr[y].as.ptracer = s.tr[y].as.ptracer
  BY <1>1, <1>2, MovedKinds
<1> QED  BY <1>3 DEF Clean, Childless, Alone

LEMMA LeavePtracerKeeps ==
  ASSUME NEW s, NEW p \in Pids, Related(s, p), Clean(s, p)
  PROVE  /\ Keeps(s, LeavePtracer(s, p), p) /\ Clean(LeavePtracer(s, p), p)
         /\ LeavePtracer(s, p).tr[p].as.ptracer = None
<1> DEFINE as == s.tr[p].as
           r == as.ptracer
           z == [pid |-> p, parent |-> s.tr[p].parent]
           d == DetachFromPtracer(s, p)
           e == SetResult(d, r, None, FALSE)
           f == [e EXCEPT !.tr[r].waitPid = None]
           g == RestartTracee(f, r, 0).s
           u == LeavePtracer(s, p)
           exited == as.event = [value |-> "exited", pending |-> TRUE]
<1>1. s \in States /\ StoppedByEvent(s) /\ Listed(s) \subseteq Pids /\ r \in Listed(s) \cup {None, p}
  BY RelatedFacts DEF Related, Known
<1>2. \/ r = None /\ u = s
      \/ r # None /\ u = Zombified(s, p, r, z)
      \/ r # None /\ u \in {d, g}
  <2> DEFINE last == d.tr[r].nb = 0 /\ d.tr[r].waitPid # None
  <2>1. u = CASE r = None -> s
              [] r # None /\ exited -> Zombified(s, p, r, z)
              [] OTHER -> IF last THEN g ELSE d
    BY DEF LeavePtracer, Zombified
  <2> HIDE DEF last, exited, r, u, g, d, z
  <2> QED  BY <2>1
<1> HIDE DEF u, exited
<1>3. CASE r = None /\ u = s
  BY <1>3, KeepsItself DEF u
<1>4. CASE r # None /\ u = Zombified(s, p, r, z)
  <2>1. r \in Pids
    BY <1>1, <1>4
  <2>2. z \in Corpse
    <3>1. s.tr[p].parent \in Nobody
      BY <1>1, TraceeFields DEF States
    <3> QED  BY <3>1 DEF Corpse
  <2> HIDE DEF z
  <2>3. s.tr[p].as.ptracer = r
    OBVIOUS
  <2> HIDE DEF r
  <2> QED  BY <1>4, <2>1, <2>2, <2>3, BecomesZombie DEF u
<1>5. CASE r # None /\ u \in {d, g}
  <2>1. r \in Pids /\ None \in Nobody
    BY <1>1, <1>5 DEF Nobody
  <2>2. Keeps(s, d, p) /\ d.tr[p].as.ptracer = None /\ Clean(d, p) /\ d \in States /\ StoppedByEvent(d)
    BY DetachLeaving, DetachClean, KeepsFacts
  <2> HIDE DEF d, r
  <2>3. Calm(d, e)
    BY <2>1, <2>2, SetResultCalm
  <2>4. e \in States /\ StoppedByEvent(e)
    BY <2>3, CalmFacts
  <2> HIDE DEF e
  <2>5. Calm(e, f)
    BY <2>1, <2>4, FieldCalm
  <2>6. f \in States /\ StoppedByEvent(f)
    BY <2>5, CalmFacts
  <2> HIDE DEF f
  <2>7. Calm(f, g)
    BY <2>1, <2>6, RestartCalm
  <2> HIDE DEF g
  <2>8. Calm(d, u)
    BY <1>5, <2>2, <2>3, <2>5, <2>7, CalmTransitive, CalmItself
  <2>9. Keeps(s, u, p) /\ Clean(u, p)
    BY <2>2, <2>8, KeepsCalm, CalmClean
  <2>10. u.tr[p].as.ptracer = None
    BY <2>2, <2>8 DEF Calm
  <2> QED  BY <2>9, <2>10 DEF u
<1> QED  BY <1>2, <1>3, <1>4, <1>5

\* The entry of a tracee that nobody knows any more.
LEMMA ForgetRelated ==
  ASSUME NEW s, NEW p \in Pids, Related(s, p), Clean(s, p), s.tr[p].as.ptracer = None, NEW u,
         u = [s EXCEPT !.tr[p] = NewTracee]
  PROVE  Related(u, None) /\ Passes(s, u) /\ Listed(u) = Listed(s)
<1>1. s \in States /\ StoppedByEvent(s) /\ Listed(s) \subseteq Pids /\ p \notin Listed(s) /\ None \notin Pids
  BY RelatedFacts DEF Related, InTable, None, Pids
<1>2. /\ u \in States /\ u.list = s.list /\ u.kn = s.kn
      /\ \A q \in Pids : u.tr[q] = IF q = p THEN NewTracee ELSE s.tr[q]
  BY <1>1, NewTraceeType DEF States
<1>3. Listed(u) = Listed(s) /\ \A q \in Listed(s) : u.tr[q] = s.tr[q]
  BY <1>1, <1>2 DEF Listed
<1>4. Counted(u, None)
  <2>1. ASSUME NEW r \in Listed(u)
        PROVE  u.tr[r].nb = Cardinality(Ptracees(u, r)) + Len(u.tr[r].zombies) + Leaving(u, None, r)
    <3>1. r \in Listed(s) /\ r # None
      BY <1>1, <1>3
    <3>2. Ptracees(u, r) = Ptracees(s, r)
      BY <1>3 DEF Ptracees
    <3>3. Leaving(u, None, r) = Leaving(s, p, r)
      BY <1>1, <3>1 DEF Leaving
    <3> QED  BY <1>3, <3>1, <3>2, <3>3 DEF Related, Counted
  <2> QED  BY <2>1 DEF Counted
<1>5. Known(u, None)
  BY <1>1, <1>3 DEF Known, Related, Clean, Childless, Alone
<1>6. InTable(u, None)
  <2>1. NewTracee.terminated = FALSE
    BY DEF NewTracee
  <2> QED  BY <1>1, <1>2, <1>3, <2>1 DEF InTable, Related
<1>7. StoppedByEvent(u) /\ Passes(s, u)
  BY <1>1, <1>2 DEF StoppedByEvent, Passes
<1> QED  BY <1>2, <1>3, <1>4, <1>5, <1>6, <1>7 DEF Related

LEMMA KeepsPasses ==
  ASSUME NEW s, NEW u, NEW x, Keeps(s, u, x)
  PROVE  Passes(s, u)
BY DEF Keeps, Follows, Passes

LEMMA RemoveTraceeRelated ==
  ASSUME NEW s, Related(s, None), NEW p \in Listed(s)
  PROVE  Related(RemoveTracee(s, p), None) /\ Passes(s, RemoveTracee(s, p))
<1> DEFINE a == Unlink(s, p)
           b == OrphanChildren(a, p)
           c == FreePtracees(b, p)
           d == LeavePtracer(c, p)
           u == RemoveTracee(s, p)
<1>1. p \in Pids /\ p # None
  BY RelatedFacts DEF None, Pids
<1>2. u = [d EXCEPT !.tr[p] = NewTracee]
  BY DEF RemoveTracee, Unlink
<1>3. Related(a, p) /\ Passes(s, a)
  BY UnlinkRelated
<1> HIDE DEF a, u
<1>4. Keeps(a, b, p) /\ Childless(b, p) /\ Related(b, p)
  BY <1>1, <1>3, OrphanKeeps, KeepsFacts
<1> HIDE DEF b
<1>5. Released(b, c, p) /\ Alone(c, p)
  BY <1>1, <1>4, FreePtraceesReleased
<1>6. Keeps(b, c, p) /\ Related(c, p) /\ Clean(c, p)
  <2>1. Keeps(b, c, p) /\ Related(c, p) /\ Listed(c) = Listed(b) /\ Listed(c) \subseteq Pids
    BY <1>5, KeepsFacts DEF Released
  <2>2. Childless(c, p)
    BY <1>4, <1>5, <2>1 DEF Childless, Released
  <2> QED  BY <1>5, <2>1, <2>2 DEF Clean
<1> HIDE DEF c
<1>7. Keeps(c, d, p) /\ Related(d, p) /\ Clean(d, p) /\ d.tr[p].as.ptracer = None
  BY <1>1, <1>6, LeavePtracerKeeps, KeepsFacts
<1> HIDE DEF d
<1>8. Related(u, None) /\ Passes(d, u)
  BY <1>1, <1>2, <1>7, ForgetRelated
<1>9. Passes(s, d)
  BY <1>3, <1>4, <1>6, <1>7, KeepsPasses, PassesTransitive
<1> QED  BY <1>8, <1>9, PassesTransitive DEF u

LEMMA FreeTerminatedRelated ==
  ASSUME NEW s, Related(s, None)
  PROVE  Related(FreeTerminated(s), None) /\ Passes(s, FreeTerminated(s))
<1> DEFINE N == Len(s.list)
           V == {u \in States : Related(u, None) /\ Passes(s, u)}
           Step(n, u) == IF u.tr[s.list[n]].terminated THEN RemoveTracee(u, s.list[n]) ELSE u
           Eq(f) == f = [n \in 0 .. N |-> IF n = 0 THEN s ELSE Step(n, f[n - 1])]
           G == [x \in (1 .. N) \X V |-> Step(x[1], x[2])]
           g == CHOOSE f : Eq(f)
<1>1. s \in States /\ s.list \in Seq(Pids) /\ N \in Nat /\ None \notin Pids
  BY RelatedFacts, LenProperties DEF States, None, Pids
<1>2. \A n \in 1 .. N : s.list[n] \in Pids
  BY <1>1
<1>3. s \in V
  BY <1>1 DEF Passes
<1>4. ASSUME NEW n \in 1 .. N, NEW u \in V
      PROVE  Step(n, u) \in V
  <2> DEFINE q == s.list[n]
             v == RemoveTracee(u, q)
  <2>1. CASE u.tr[q].terminated
    <3>1. q \in Listed(u)
      BY <1>1, <1>2, <2>1 DEF Related, InTable
    <3>2. Step(n, u) = v
      BY <2>1
    <3> HIDE DEF q, v
    <3>3. Related(v, None) /\ Passes(u, v)
      BY <3>1, RemoveTraceeRelated DEF v
    <3>4. Passes(s, v) /\ v \in States
      BY <3>3, PassesTransitive, RelatedFacts
    <3> QED  BY <3>2, <3>3, <3>4
  <2>2. CASE ~u.tr[q].terminated
    BY <2>2
  <2> QED  BY <2>1, <2>2
<1>5. FreeTerminated(s) = g[N]
  BY DEF FreeTerminated
<1> HIDE DEF Step
<1>6. G \in [(1 .. N) \X V -> V]
  BY <1>4
<1>7. PICK f : Computes(f, V, s, N, G)
  <2> HIDE DEF G, N, V
  <2> QED  BY <1>1, <1>3, <1>6, Recursion
<1>8. f \in [0 .. N -> V] /\ f[0] = s /\ \A n \in 1 .. N : f[n] = G[<<n, f[n - 1]>>]
  BY <1>7 DEF Computes
<1>9. \A n \in 1 .. N : f[n] = Step(n, f[n - 1])
  <2> TAKE n \in 1 .. N
  <2>1. f[n - 1] \in V
    BY <1>1, <1>8
  <2>2. G[<<n, f[n - 1]>>] = Step(n, f[n - 1])
    BY <2>1
  <2> QED  BY <1>8, <2>2
<1>10. Eq(f)
  BY <1>1, <1>8, <1>9
<1>11. Eq(g)
  BY <1>10
<1>12. g[0] = s /\ \A n \in 1 .. N : g[n] = Step(n, g[n - 1])
  <2>1. g = [n \in 0 .. N |-> IF n = 0 THEN s ELSE Step(n, g[n - 1])]
    BY <1>11
  <2>2. 0 \in 0 .. N /\ \A n \in 1 .. N : n \in 0 .. N /\ n # 0
    BY <1>1
  <2> HIDE DEF g, N
  <2> QED  BY <2>1, <2>2
<1> HIDE DEF g, V, G, Eq
<1> DEFINE P == {n \in Nat : g[n] \in V}
<1>13. 0 \in P /\ P \in SUBSET Nat
  BY <1>3, <1>12
<1>14. ASSUME NEW n \in 1 .. N, n - 1 \in P
       PROVE  n \in P
  <2>1. g[n] \in V
    BY <1>4, <1>12, <1>14
  <2> QED  BY <1>1, <2>1
<1>15. \A n \in 0 .. N : n \in P
  <2> HIDE DEF P, N
  <2> QED  BY <1>1, <1>13, <1>14, Counting
<1>16. g[N] \in V
  BY <1>1, <1>15
<1> QED  BY <1>5, <1>16 DEF V

------------------------------------------------------------------------------
(* The steps of PRoot                                                        *)

LEMMA StateIs ==
  ASSUME NEW s \in States, tr' = s.tr, list' = s.list, kn' = s.kn, crashed' = s.crashed
  PROVE  State' = s
BY DEF State, States

LEMMA PassesForked ==
  ASSUME NEW s, NEW u, ForkedAChild(s), Passes(s, u)
  PROVE  ForkedAChild(u)
BY DEF ForkedAChild, Passes

LEMMA ExtendsPasses ==
  ASSUME NEW s, NEW u, Extends(s, u)
  PROVE  Passes(s, u)
BY DEF Extends, Passes

LEMMA CollectedExtends ==
  ASSUME PtraceInv, NEW p \in Pids, Waitable(p)
  PROVE  /\ Extends(State, Collected(p).s) /\ p \in Listed(Collected(p).s) /\ Collected(p).event \in Events
         /\ Collected(p).event = "fork" => Collected(p).s.kn[p].child \in Pids
<1> DEFINE ev == IF kn[p].event \in {"enter", "exit"} THEN "sys" ELSE kn[p].event
           g == GetTracee(State, p)
           corpse == IF ev = "exited" /\ kn[p].parent # None THEN "corpse" ELSE g.kn[p].corpse
           t == [g.tr[p] EXCEPT !.running = FALSE]
           c == [g.kn[p] EXCEPT !.seen = TRUE, !.corpse = corpse]
           u == [g EXCEPT !.tr[p].running = FALSE, !.kn[p].seen = TRUE, !.kn[p].corpse = corpse]
<1>1. Related(State, None) /\ ForkedAChild(State) /\ StoppedByEvent(State) /\ State \in States /\ State.kn = kn
  BY RelatedFacts DEF PtraceInv, State
<1>2. Collected(p) = [event |-> ev, s |-> [g EXCEPT !.tr[p].running = FALSE, !.kn[p].seen = TRUE,
                        !.kn[p].corpse = IF ev = "exited" /\ kn[p].parent # None THEN "corpse" ELSE @]]
  BY DEF Collected
<1>3. kn[p].event \in Stops \cup {"exited"}
  BY <1>1 DEF Waitable, StoppedByEvent
<1>4. ev \in Events /\ (ev = "fork" => kn[p].child \in Pids)
  BY <1>1, <1>3 DEF Stops, Events, ForkedAChild
<1> HIDE DEF ev
<1>5. Extends(State, g) /\ p \in Listed(g) /\ g.kn = kn
  BY <1>1, GetTraceeExtends
<1>6. g \in States /\ StoppedByEvent(g)
  BY <1>5, ExtendsFacts
<1> HIDE DEF g
<1>7. g.tr[p] \in Tracees /\ g.kn[p] \in Processes
  BY <1>6 DEF States
<1>8. corpse \in {"none", "corpse", "reaped"}
  BY <1>7 DEF Processes
<1>9. Collected(p).s = u /\ Collected(p).event = ev
  <2>1. [g EXCEPT !.tr[p].running = FALSE, !.kn[p].seen = TRUE,
                        !.kn[p].corpse = IF ev = "exited" /\ kn[p].parent # None THEN "corpse" ELSE @] = u
    BY <1>6, <1>7 DEF States, Processes
  <2> QED  BY <1>2, <2>1
<1>10. u = Both(g, p, t, c)
  BY <1>6, <1>7 DEF States, Both
<1> HIDE DEF corpse, u
<1>11. t \in Tracees /\ SameTies(g.tr[p], t) /\ t.terminated = g.tr[p].terminated
  BY <1>7 DEF Tracees, SameTies
<1>12. c \in Processes /\ c.child = g.kn[p].child /\ c.event = g.kn[p].event /\ c.at = g.kn[p].at
  BY <1>7, <1>8 DEF Processes
<1>13. c.at = "stopped" => c.event \in Stops
  BY <1>6, <1>12 DEF StoppedByEvent
<1> HIDE DEF t, c
<1>14. Calm(g, u)
  BY <1>6, <1>10, <1>11, <1>12, <1>13, BothCalm
<1>15. u.kn[p].child = kn[p].child
  BY <1>5, <1>14 DEF Calm
<1>16. Extends(State, u) /\ p \in Listed(u)
  BY <1>5, <1>14, ExtendsCalm, CalmFacts
<1> QED  BY <1>4, <1>9, <1>15, <1>16

LEMMA HandleEventStep ==
  ASSUME PtraceInv, NEW p \in Pids, HandleEvent(p)
  PROVE  PtraceInv'
<1> DEFINE c == Collected(p)
           h == IF c.s.tr[p].as.ptracer = None THEN [s |-> c.s, keep |-> FALSE]
                ELSE HandlePtraceeEvent(c.s, p, c.event)
           r == HandleTraceeEvent(h.s, p, c.event)
           e == RestartTracee(r.s, p, r.signal).s
           last == IF h.keep \/ h.s.crashed # "no" THEN h.s ELSE e
           u == FreeTerminated(last)
<1>1. Waitable(p) /\ Become(u)
  BY DEF HandleEvent
<1>2. /\ Extends(State, c.s) /\ p \in Listed(c.s) /\ c.event \in Events
      /\ c.event = "fork" => c.s.kn[p].child \in Pids
  BY <1>1, CollectedExtends
<1> HIDE DEF c, u
<1>3. Extends(c.s, h.s)
  <2>1. Related(c.s, None)
    BY <1>2, ExtendsFacts
  <2>2. CASE c.s.tr[p].as.ptracer = None
    BY <2>1, <2>2, KeepsItself, KeepsExtends
  <2>3. CASE c.s.tr[p].as.ptracer # None
    BY <1>2, <2>1, <2>3, PtraceeEventExtends
  <2> QED  BY <2>2, <2>3
<1> HIDE DEF h
<1>4. /\ Extends(State, h.s) /\ Related(h.s, None) /\ p \in Listed(h.s)
      /\ c.event = "fork" => h.s.kn[p].child \in Pids
  BY <1>2, <1>3, ExtendsTransitive, ExtendsFacts DEF Extends
<1>5. Extends(h.s, r.s)
  BY <1>4, TraceeEventExtends
<1>6. Extends(State, r.s) /\ r.s \in States /\ StoppedByEvent(r.s)
  BY <1>4, <1>5, ExtendsTransitive, ExtendsFacts
<1> HIDE DEF r
<1>7. Extends(State, e)
  BY <1>6, RestartCalm, ExtendsCalm
<1> HIDE DEF e
<1>8. Extends(State, last)
  BY <1>4, <1>7
<1>9. Related(last, None)
  BY <1>8, ExtendsFacts
<1> HIDE DEF last
<1>10. Related(u, None) /\ Passes(last, u) /\ u \in States
  BY <1>9, FreeTerminatedRelated, RelatedFacts DEF u
<1>11. Passes(State, u)
  BY <1>8, <1>10, ExtendsPasses, PassesTransitive
<1>12. ForkedAChild(u)
  BY <1>11, PassesForked DEF PtraceInv
<1>13. State' = u /\ fuel' = fuel /\ kills' = kills
  BY <1>1, <1>10, StateIs DEF Become
<1>14. Related(State', None) /\ ForkedAChild(State')
  BY <1>10, <1>12, <1>13
<1> QED  BY <1>13, <1>14 DEF PtraceInv

------------------------------------------------------------------------------
(* The steps of the processes                                                *)

Sound(c) == c \in Processes /\ (c.at = "stopped" => c.event \in Stops) /\ (c.event = "fork" => c.child \in Pids)

LEMMA KernelSound ==
  ASSUME PtraceInv
  PROVE  kn \in [Pids -> Processes] /\ \A q \in Pids : Sound(kn[q])
<1>1. State \in States /\ StoppedByEvent(State) /\ ForkedAChild(State) /\ State.kn = kn
  BY RelatedFacts DEF PtraceInv, State
<1> QED  BY <1>1 DEF States, StoppedByEvent, ForkedAChild, Sound

\* A step of the kernel touches no relation.
LEMMA KernelStep ==
  ASSUME PtraceInv, UNCHANGED <<tr, list, crashed>>, fuel' \in Nat, kills' \in Nat,
         kn' \in [Pids -> Processes], \A q \in Pids : Sound(kn'[q])
  PROVE  PtraceInv'
<1>1. Related(State, None) /\ State \in States
  BY RelatedFacts DEF PtraceInv
<1> DEFINE s == State
           u == State'
<1>2. u.tr = s.tr /\ u.list = s.list /\ u.kn = kn' /\ u.crashed = s.crashed
  BY DEF State
<1>3. u \in States
  BY <1>1, <1>2 DEF States, State
<1>4. StoppedByEvent(u) /\ ForkedAChild(u)
  BY <1>2 DEF StoppedByEvent, ForkedAChild, Sound
<1> HIDE DEF s, u
<1>5. Listed(u) = Listed(s) /\ (\A r : Ptracees(u, r) = Ptracees(s, r)) /\ \A r : Leaving(u, None, r) = Leaving(s, None, r)
  BY <1>2 DEF Listed, Ptracees, Leaving
<1>6. InTable(u, None) /\ Known(u, None) /\ Counted(u, None)
  BY <1>1, <1>2, <1>5 DEF InTable, Known, Counted, Related, s
<1>7. Related(u, None) /\ ForkedAChild(u)
  BY <1>3, <1>4, <1>6 DEF Related
<1> QED  BY <1>7 DEF PtraceInv, u

LEMMA StopBySound ==
  ASSUME NEW c \in Processes, NEW event \in Stops, event = "fork" => c.child \in Pids
  PROVE  Sound(StopBy(c, event))
BY DEF Sound, StopBy, Processes, Stops

LEMMA ProcessStep ==
  ASSUME PtraceInv, NEW p \in Pids, NEW c, Sound(c), UNCHANGED <<tr, list, crashed>>, fuel' \in Nat, kills' \in Nat,
         kn' = [kn EXCEPT ![p] = c]
  PROVE  PtraceInv'
<1>1. kn \in [Pids -> Processes] /\ \A q \in Pids : Sound(kn[q])
  BY KernelSound
<1>2. c \in Processes
  BY DEF Sound
<1>3. kn' \in [Pids -> Processes] /\ \A q \in Pids : Sound(kn'[q])
  BY <1>1, <1>2
<1> QED  BY <1>3, KernelStep

LEMMA ProcessFields ==
  ASSUME NEW c \in Processes
  PROVE  /\ \A op \in Operations \cup {NoOp} : [c EXCEPT !.op = op] \in Processes
         /\ \A b \in BOOLEAN : [c EXCEPT !.again = b] \in Processes /\ [c EXCEPT !.sigstop = b] \in Processes
         /\ [c EXCEPT !.child = None] \in Processes
         /\ \A r \in Result, b \in BOOLEAN : [c EXCEPT !.result = r, !.again = b] \in Processes
BY ZenonT(60) DEF Processes, Nobody

LEMMA CallStep ==
  ASSUME PtraceInv, NEW p \in Pids, Call(p) \/ CallAgain(p) \/ TakeSigstop(p)
  PROVE  PtraceInv'
<1>1. kn[p] \in Processes /\ fuel \in Nat /\ kills \in Nat
  BY KernelSound DEF PtraceInv
<1>2. CASE Call(p)
  <2>1. PICK op \in Programs[p] \cup {Op("exit", 0)} :
          /\ op.f # "exit" => fuel > 0
          /\ fuel' = IF op.f = "exit" THEN fuel ELSE fuel - 1
          /\ Process(p, StopBy([kn[p] EXCEPT !.op = op], "enter"))
    BY <1>2 DEF Call
  <2> DEFINE c == StopBy([kn[p] EXCEPT !.op = op], "enter")
  <2>2. op \in Operations
    BY PtraceAssumption DEF Operations, Op
  <2>3. Sound(c)
    BY <1>1, <2>2, ProcessFields, StopBySound DEF Stops
  <2>4. fuel' \in Nat
    BY <1>1, <2>1
  <2> HIDE DEF c
  <2>5. kn' = [kn EXCEPT ![p] = c] /\ UNCHANGED <<tr, list, crashed>> /\ kills' = kills
    BY <2>1 DEF Process, c
  <2> QED  BY <1>1, <2>3, <2>4, <2>5, ProcessStep
<1>3. CASE CallAgain(p)
  <2> DEFINE c == StopBy([kn[p] EXCEPT !.again = FALSE], "enter")
  <2>1. Sound(c)
    BY <1>1, ProcessFields, StopBySound DEF Stops
  <2>2. kn' = [kn EXCEPT ![p] = c] /\ UNCHANGED <<tr, list, crashed>> /\ kills' = kills /\ fuel' = fuel
    BY <1>3 DEF CallAgain, Process
  <2> HIDE DEF c
  <2> QED  BY <1>1, <2>1, <2>2, ProcessStep
<1>4. CASE TakeSigstop(p)
  <2> DEFINE c == StopBy([kn[p] EXCEPT !.sigstop = FALSE], "stop")
  <2>1. Sound(c)
    BY <1>1, ProcessFields, StopBySound DEF Stops
  <2>2. kn' = [kn EXCEPT ![p] = c] /\ UNCHANGED <<tr, list, crashed>> /\ kills' = kills /\ fuel' = fuel
    BY <1>4 DEF TakeSigstop, Process
  <2> HIDE DEF c
  <2> QED  BY <1>1, <2>1, <2>2, ProcessStep
<1> QED  BY <1>2, <1>3, <1>4

LEMMA RunStep ==
  ASSUME PtraceInv, NEW p \in Pids, RunOther(p) \/ RunExit(p) \/ LeaveFork(p)
  PROVE  PtraceInv'
<1>1. kn[p] \in Processes /\ fuel \in Nat /\ kills \in Nat
  BY KernelSound DEF PtraceInv
<1>2. CASE RunOther(p)
  <2> DEFINE b == kn[p].sigstop \/ kn[p].op.f = "raise"
             c == StopBy([kn[p] EXCEPT !.sigstop = b], "exit")
  <2>1. b \in BOOLEAN
    BY <1>1 DEF Processes
  <2>2. kn' = [kn EXCEPT ![p] = c] /\ UNCHANGED <<tr, list, crashed>> /\ kills' = kills /\ fuel' = fuel
    BY <1>2 DEF RunOther, Process
  <2> HIDE DEF b
  <2>3. Sound(c)
    BY <1>1, <2>1, ProcessFields, StopBySound DEF Stops
  <2> HIDE DEF c
  <2> QED  BY <1>1, <2>2, <2>3, ProcessStep
<1>3. CASE RunExit(p)
  <2> DEFINE c == StopBy(kn[p], "exitev")
  <2>1. Sound(c)
    BY <1>1, StopBySound DEF Stops
  <2>2. kn' = [kn EXCEPT ![p] = c] /\ UNCHANGED <<tr, list, crashed>> /\ kills' = kills /\ fuel' = fuel
    BY <1>3 DEF RunExit, Process
  <2> HIDE DEF c
  <2> QED  BY <1>1, <2>1, <2>2, ProcessStep
<1>4. CASE LeaveFork(p)
  <2> DEFINE c == StopBy([kn[p] EXCEPT !.child = None], "exit")
  <2>1. Sound(c)
    BY <1>1, ProcessFields, StopBySound DEF Stops
  <2>2. kn' = [kn EXCEPT ![p] = c] /\ UNCHANGED <<tr, list, crashed>> /\ kills' = kills /\ fuel' = fuel
    BY <1>4 DEF LeaveFork, Process
  <2> HIDE DEF c
  <2> QED  BY <1>1, <2>1, <2>2, ProcessStep
<1> QED  BY <1>2, <1>3, <1>4

LEMMA ForkStep ==
  ASSUME PtraceInv, NEW p \in Pids, RunFork(p)
  PROVE  PtraceInv'
<1>1. kn[p] \in Processes /\ kn \in [Pids -> Processes] /\ (\A q \in Pids : Sound(kn[q])) /\ fuel \in Nat /\ kills \in Nat
  BY KernelSound DEF PtraceInv
<1>2. UNCHANGED <<tr, list, crashed, fuel, kills>>
  BY DEF RunFork
<1>3. CASE kn' = [kn EXCEPT ![p] = StopBy(@, "exit")]
  <2> DEFINE c == StopBy(kn[p], "exit")
  <2>1. Sound(c) /\ kn' = [kn EXCEPT ![p] = c]
    BY <1>1, <1>3, StopBySound DEF Stops
  <2> HIDE DEF c
  <2> QED  BY <1>1, <1>2, <2>1, ProcessStep
<1>4. ASSUME NEW q \in Pids, kn' = [kn EXCEPT ![p] = StopBy([@ EXCEPT !.child = q], "fork"),
                              ![q] = [NoProcess EXCEPT !.at = "user", !.sigstop = TRUE, !.parent = p]]
      PROVE  PtraceInv'
  <2> DEFINE b == [kn[p] EXCEPT !.child = q]
             c == StopBy(b, "fork")
             d == [NoProcess EXCEPT !.at = "user", !.sigstop = TRUE, !.parent = p]
  <2>1. b \in Processes /\ b.child = q
    BY <1>1 DEF Processes, Nobody
  <2>2. Sound(c)
    <3> HIDE DEF b
    <3> QED  BY <2>1, StopBySound DEF Stops
  <2>3. Sound(d)
    <3>1. <<>> \in Seq(Nobody)
      BY EmptySeq
    <3> QED  BY <3>1 DEF Sound, NoProcess, NoResult, Processes, Result, Nobody
  <2>4. kn' = [kn EXCEPT ![p] = c, ![q] = d]
    BY <1>4
  <2> HIDE DEF c, d
  <2>5. c \in Processes /\ d \in Processes
    BY <2>2, <2>3 DEF Sound
  <2>6. kn' \in [Pids -> Processes] /\ \A y \in Pids : kn'[y] = IF y = q THEN d ELSE IF y = p THEN c ELSE kn[y]
    BY <1>1, <2>4, <2>5
  <2>7. \A y \in Pids : Sound(kn'[y])
    BY <1>1, <2>2, <2>3, <2>6
  <2> QED  BY <1>1, <1>2, <2>6, <2>7, KernelStep
<1> QED  BY <1>3, <1>4 DEF RunFork

LEMMA WaitStep ==
  ASSUME PtraceInv, NEW p \in Pids, RunWait(p)
  PROVE  PtraceInv'
<1> DEFINE back(result, again) == StopBy([kn[p] EXCEPT !.result = result, !.again = again], "exit")
<1>1. kn[p] \in Processes /\ kn \in [Pids -> Processes] /\ (\A q \in Pids : Sound(kn[q])) /\ fuel \in Nat /\ kills \in Nat
  BY KernelSound DEF PtraceInv
<1>2. UNCHANGED <<tr, list, crashed, fuel, kills>>
  BY DEF RunWait
<1>3. \A result \in Result, again \in BOOLEAN : Sound(back(result, again))
  BY <1>1, ProcessFields, StopBySound DEF Stops
<1>4. NoResult \in Result /\ \A q \in Pids : [pid |-> q, dead |-> TRUE] \in Result
  BY DEF Result, NoResult, Nobody
<1>5. \/ \E q \in Pids : kn' = [kn EXCEPT ![p] = back([pid |-> q, dead |-> TRUE], FALSE), ![q].corpse = "reaped"]
      \/ kn' = [kn EXCEPT ![p] = back(NoResult, FALSE)]
      \/ kn' = [kn EXCEPT ![p] = back(NoResult, TRUE)]
  BY DEF RunWait, ChildrenOf
<1> HIDE DEF back
<1>6. CASE kn' = [kn EXCEPT ![p] = back(NoResult, FALSE)]
  BY <1>1, <1>2, <1>3, <1>4, <1>6, ProcessStep
<1>7. CASE kn' = [kn EXCEPT ![p] = back(NoResult, TRUE)]
  BY <1>1, <1>2, <1>3, <1>4, <1>7, ProcessStep
<1>8. ASSUME NEW q \in Pids, kn' = [kn EXCEPT ![p] = back([pid |-> q, dead |-> TRUE], FALSE), ![q].corpse = "reaped"]
      PROVE  PtraceInv'
  <2> DEFINE c == back([pid |-> q, dead |-> TRUE], FALSE)
             k == [kn EXCEPT ![p] = c]
             d == [k[q] EXCEPT !.corpse = "reaped"]
  <2>1. Sound(c)
    BY <1>3, <1>4
  <2>2. kn' = [k EXCEPT ![q] = d]
    BY <1>8
  <2> HIDE DEF c
  <2>3. k \in [Pids -> Processes] /\ \A y \in Pids : Sound(k[y])
    BY <1>1, <2>1 DEF Sound
  <2> HIDE DEF k
  <2>4. Sound(d)
    <3>1. k[q] \in Processes /\ Sound(k[q])
      BY <2>3
    <3> QED  BY <3>1 DEF Sound, Processes
  <2> HIDE DEF d
  <2>5. kn' \in [Pids -> Processes] /\ \A y \in Pids : Sound(kn'[y])
    BY <2>2, <2>3, <2>4 DEF Sound
  <2> QED  BY <1>1, <1>2, <2>5, KernelStep
<1> QED  BY <1>5, <1>6, <1>7, <1>8

LEMMA KillStep ==
  ASSUME PtraceInv, NEW p \in Pids, Kill(p)
  PROVE  PtraceInv'
<1>1. kn[p] \in Processes /\ fuel \in Nat /\ kills \in Nat
  BY KernelSound DEF PtraceInv
<1>2. UNCHANGED <<tr, list, crashed, fuel>> /\ kills' \in Nat
  BY <1>1 DEF Kill
<1>3. CASE kn' = [kn EXCEPT ![p] = StopBy(@, "exitev")]
  <2> DEFINE c == StopBy(kn[p], "exitev")
  <2>1. Sound(c) /\ kn' = [kn EXCEPT ![p] = c]
    BY <1>1, <1>3, StopBySound DEF Stops
  <2> HIDE DEF c
  <2> QED  BY <1>1, <1>2, <2>1, ProcessStep
<1>4. CASE kn' = Dies(State, p).kn
  <2> DEFINE u == Dies(State, p)
  <2>1. State \in States /\ StoppedByEvent(State) /\ ForkedAChild(State) /\ Passes(State, State)
    BY RelatedFacts DEF PtraceInv, Passes
  <2>2. Calm(State, u)
    BY <2>1, DiesCalm
  <2> HIDE DEF u
  <2>3. u \in States /\ StoppedByEvent(u) /\ Passes(State, u)
    BY <2>2, CalmFacts DEF Calm, Passes
  <2>4. ForkedAChild(u)
    BY <2>1, <2>3, PassesForked
  <2>5. kn' \in [Pids -> Processes] /\ \A q \in Pids : Sound(kn'[q])
    BY <1>4, <2>3, <2>4 DEF u, States, StoppedByEvent, ForkedAChild, Sound
  <2> QED  BY <1>1, <1>2, <2>5, KernelStep
<1> QED  BY <1>3, <1>4 DEF Kill

------------------------------------------------------------------------------
(* The theorem                                                               *)

LEMMA InitInv == Init => PtraceInv
<1> SUFFICES ASSUME Init PROVE PtraceInv
  OBVIOUS
<1> DEFINE t == [NewTracee EXCEPT !.exe = TRUE, !.running = TRUE, !.sigstop = "ALLOWED"]
           c == [NoProcess EXCEPT !.at = "user"]
           s == State
<1>1. 1 \in Pids /\ None \notin Pids /\ fuel \in Nat /\ kills \in Nat
  BY PtraceAssumption DEF Init, Pids, None
<1>2. s.tr = tr /\ s.list = list /\ s.kn = kn /\ s.crashed = crashed
  BY DEF State
<1>3. \A p \in Pids : s.tr[p] = IF p = 1 THEN t ELSE NewTracee
  BY <1>2 DEF Init
<1>4. \A p \in Pids : s.kn[p] = IF p = 1 THEN c ELSE NoProcess
  BY <1>2 DEF Init
<1>5. t \in Tracees /\ SameTies(NewTracee, t) /\ t.terminated = FALSE /\ NewTracee.terminated = FALSE
  BY NewTraceeType DEF Tracees, SameTies, NewTracee
<1>6. Sound(c) /\ Sound(NoProcess) /\ c.event = "none" /\ NoProcess.event = "none"
  <2>1. <<>> \in Seq(Nobody)
    BY EmptySeq
  <2> QED  BY <2>1 DEF Sound, NoProcess, NoResult, Processes, Result, Nobody
<1> HIDE DEF t, c
<1>7. s \in States
  <2>1. <<1>> \in Seq(Pids)
    BY <1>1
  <2>2. tr \in [Pids -> Tracees]
    BY <1>5, NewTraceeType DEF Init, t
  <2>3. kn \in [Pids -> Processes]
    BY <1>6 DEF Init, Sound, c
  <2> QED  BY <2>1, <2>2, <2>3 DEF Init, State, States
<1>8. StoppedByEvent(s) /\ ForkedAChild(s)
  BY <1>4, <1>6 DEF StoppedByEvent, ForkedAChild, Sound
<1>9. s.list = <<1>> /\ Listed(s) = {1}
  BY <1>2 DEF Init, Listed, Range
<1> HIDE DEF s
<1>10. \A p \in Pids : s.tr[p].nb = 0 /\ s.tr[p].parent = None /\ s.tr[p].zombies = <<>> /\ s.tr[p].as.ptracer = None
                       /\ s.tr[p].terminated = FALSE
  <2>1. NewTracee.nb = 0 /\ NewTracee.parent = None /\ NewTracee.zombies = <<>> /\ NewTracee.as.ptracer = None
    BY DEF NewTracee, NotPtracee
  <2> QED  BY <1>3, <1>5, <2>1 DEF SameTies
<1>11. Counted(s, None)
  <2>1. Ptracees(s, 1) = {} /\ Leaving(s, None, 1) = 0
    BY <1>1, <1>9, <1>10 DEF Ptracees, Leaving, None
  <2>2. Cardinality(Ptracees(s, 1)) = 0
    BY <2>1, FS_EmptySet
  <2> QED  BY <1>1, <1>9, <1>10, <2>1, <2>2 DEF Counted
<1>12. Known(s, None)
  BY <1>1, <1>9, <1>10 DEF Known
<1>13. InTable(s, None)
  <2>1. IsInjective(s.list)
    BY <1>9 DEF IsInjective
  <2> QED  BY <1>1, <1>9, <1>10, <2>1 DEF InTable
<1> QED  BY <1>1, <1>7, <1>8, <1>11, <1>12, <1>13 DEF PtraceInv, Related, s

LEMMA NextInv == PtraceInv /\ [Next]_vars => PtraceInv'
<1> SUFFICES ASSUME PtraceInv, [Next]_vars PROVE PtraceInv'
  OBVIOUS
<1>1. CASE UNCHANGED vars
  <2>1. UNCHANGED <<tr, list, crashed>> /\ kn' = kn /\ fuel' \in Nat /\ kills' \in Nat
    BY <1>1 DEF vars, PtraceInv
  <2> QED  BY <2>1, KernelSound, KernelStep
<1>2. ASSUME NEW p \in Pids, HandleEvent(p) \/ Call(p) \/ Run(p) \/ Kill(p)
      PROVE  PtraceInv'
  <2>1. CASE HandleEvent(p)
    BY <2>1, HandleEventStep
  <2>2. CASE Call(p)
    BY <2>2, CallStep
  <2>3. CASE Kill(p)
    BY <2>3, KillStep
  <2>4. CASE Run(p)
    <3>1. CASE CallAgain(p) \/ TakeSigstop(p)
      BY <3>1, CallStep
    <3>2. CASE RunOther(p) \/ RunExit(p) \/ LeaveFork(p)
      BY <3>2, RunStep
    <3>3. CASE RunFork(p)
      BY <3>3, ForkStep
    <3>4. CASE RunWait(p)
      BY <3>4, WaitStep
    <3> QED  BY <2>4, <3>1, <3>2, <3>3, <3>4 DEF Run
  <2> QED  BY <1>2, <2>1, <2>2, <2>3, <2>4
<1> QED  BY <1>1, <1>2 DEF Next

LEMMA InvRelations == PtraceInv => Relations
<1> SUFFICES ASSUME PtraceInv, NEW p \in Range(list)
             PROVE  /\ tr[p].nb = Cardinality({q \in Range(list) : tr[q].as.ptracer = p}) + Len(tr[p].zombies)
                    /\ tr[p].parent \in Range(list) \cup {None} /\ tr[p].as.ptracer \in Range(list) \cup {None}
  BY DEF Relations
<1>1. Related(State, None) /\ State.tr = tr /\ Listed(State) = Range(list) /\ State \in States
  BY RelatedFacts DEF PtraceInv, State, Listed
<1>2. /\ tr[p].nb = Cardinality(Ptracees(State, p)) + Len(tr[p].zombies) + Leaving(State, None, p)
      /\ Cardinality(Ptracees(State, p)) \in Nat /\ Len(tr[p].zombies) \in Nat
  BY <1>1, CountedTerms DEF Related
<1>3. Leaving(State, None, p) = 0
  BY DEF Leaving, None, Pids
<1>4. Ptracees(State, p) = {q \in Range(list) : tr[q].as.ptracer = p}
  BY <1>1 DEF Ptracees
<1>5. tr[p].parent \in Range(list) \cup {None} /\ tr[p].as.ptracer \in Range(list) \cup {None}
  BY <1>1 DEF Related, Known
<1> QED  BY <1>2, <1>3, <1>4, <1>5

LEMMA InvAlways == Spec => []PtraceInv
BY InitInv, NextInv, PTL DEF Spec

\* A ptracer counts exactly the ptracees and the zombies it has, and no parent and no
\* ptracer is a tracee that has been freed (tracee/tracee.c, remove_tracee(); ptrace/wait.c).
THEOREM RelationsHold == Spec => []Relations
BY InvAlways, InvRelations, PTL

=============================================================================
