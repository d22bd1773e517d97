-------------------------- MODULE PtraceEmulation --------------------------
(***************************************************************************)
(* The table of tracees and the emulation of ptrace(2) and wait(2).        *)
(*                                                                         *)
(* ptrace(2) cannot be nested, so PRoot plays the kernel for the debuggers *)
(* ("ptracers") and the debuggees ("ptracees") among its own tracees: it   *)
(* keeps a stopped ptracee stopped until its ptracer restarts it, and it   *)
(* keeps a ptracer stopped at the end of its wait(2) until one of its      *)
(* ptracees has an event (ptrace/ptrace.c, ptrace/wait.c).  Entries are    *)
(* created by fork events and destroyed by exits, in the order the events  *)
(* of several processes happen to be collected in (tracee/tracee.c,        *)
(* tracee/event.c).                                                        *)
(*                                                                         *)
(* A step of PRoot handles one event of waitpid(2) to its end.  Its state  *)
(* is passed through the functions it calls as a record s with the table   *)
(* of tracees, the list they are chained in and the kernel's processes.    *)
(***************************************************************************)
EXTENDS Integers, Sequences, FiniteSets, SequencesExt

CONSTANTS
  NPids,        \* pids 1..NPids; pid 1 is the program PRoot launches
  Programs,     \* the operations each process may call
  Fuel,         \* bound on the operations called during a run
  MaxKills      \* bound on the SIGKILLs sent from outside

Pids == 1 .. NPids
None == 0                      \* no process: a NULL pointer
AnyPid == -1                   \* wait(-1)

\* poll is a wait with WNOHANG, cont and syscall are PTRACE_CONT and
\* PTRACE_SYSCALL, setfork and setexit set the option TRACEFORK or TRACEEXIT;
\* raise is kill(getpid(), SIGSTOP), by which a debuggee makes its tracing start.
Op(f, a) == [f |-> f, a |-> a]
NoOp == Op("none", 0)
Requests == {"attach", "cont", "syscall", "detach", "setfork", "setexit"}
Operations ==
  {Op(f, 0) : f \in {"other", "raise", "fork", "exit", "traceme"}}
  \cup {Op(f, a) : f \in Requests, a \in Pids}
  \cup {Op(f, a) : f \in {"wait", "poll"}, a \in Pids \cup {AnyPid}}

ASSUME PtraceAssumption ==
  /\ NPids \in Nat \ {0} /\ Fuel \in Nat /\ MaxKills \in Nat
  /\ Programs \in [Pids -> SUBSET Operations]

VARIABLES
  tr,           \* the Tracee structures, by pid
  list,         \* the list of tracees, newest first
  kn,           \* the processes of the kernel
  crashed,      \* why PRoot has crashed, if it has
  fuel, kills   \* the bounds left

vars == <<tr, list, kn, crashed, fuel, kills>>

-----------------------------------------------------------------------------
(* Values                                                                  *)

\* What the kernel reports of a process: a SIGSTOP, the two stops of a syscall,
\* the fork and exit events, its termination.  PRoot cannot tell the two stops
\* of a syscall from each other: both are a "sys" event.
Stops  == {"stop", "enter", "exit", "fork", "exitev"}
Events == {"none", "stop", "sys", "fork", "exitev", "exited"}

NoEvent == [value |-> "none", pending |-> FALSE]

\* tracee->as_ptracee; event is event4.ptracer, proot is event4.proot.
NotPtracee == [ptracer |-> None, proot |-> NoEvent, event |-> NoEvent,
               started |-> FALSE, ignore |-> FALSE, options |-> {}]

\* exe: the entry has inherited from its parent (tracee->exe # NULL); how:
\* tracee->restart_how # 0.
NewTracee == [exe |-> FALSE, running |-> FALSE, how |-> FALSE, terminated |-> FALSE, status |-> 0,
              sigstop |-> "IGNORED", parent |-> None, chain |-> "none",
              nb |-> 0, zombies |-> <<>>, waitPid |-> None, waitsIn |-> "DOESNT_WAIT",
              as |-> NotPtracee]

\* A process: where it is, the event it is stopped by, whether PRoot has
\* collected it, the operation in progress, whether it is voided or has to be
\* restarted, its result, the child just forked, a pending SIGSTOP, and for a
\* dead one whether its parent can collect it; told: the deaths it knows of.
NoResult  == [pid |-> None, dead |-> FALSE]
NoProcess == [at |-> "free", event |-> "none", seen |-> FALSE, op |-> NoOp,
              void |-> FALSE, again |-> FALSE, result |-> NoResult, child |-> None,
              parent |-> None, sigstop |-> FALSE, corpse |-> "none", told |-> <<>>]

Matches(pid, p) == pid \in {p, AnyPid}
Listed(s) == Range(s.list)

-----------------------------------------------------------------------------
(* The kernel                                                              *)

\* The children of a dead process are adopted by init, which collects them.
Dies(s, p) ==
  [s EXCEPT !.kn = [q \in Pids |->
     IF q = p THEN [@[p] EXCEPT !.at = "gone", !.event = "exited", !.seen = FALSE]
     ELSE IF @[q].parent = p THEN [@[q] EXCEPT !.parent = None, !.corpse = "none"]
     ELSE @[q]]]

StopBy(c, event) == [c EXCEPT !.at = "stopped", !.event = event, !.seen = FALSE]

\* ptrace(PTRACE_SYSCALL) on a stopped process.
Resume(s, p) ==
  LET c == s.kn[p] IN
  CASE c.event = "enter"  -> [s EXCEPT !.kn[p].at = "kernel"]
    [] c.event = "fork"   -> [s EXCEPT !.kn[p].at = "leaving"]
    [] c.event = "stop"   -> [s EXCEPT !.kn[p].at = "user"]
    [] c.event = "exitev" -> Dies(s, p)
    [] c.event = "exit"   ->
         [s EXCEPT !.kn[p] = [c EXCEPT
            !.at     = "user",
            !.op     = IF c.again THEN @ ELSE NoOp,
            !.void   = FALSE,
            !.result = NoResult,
            !.told   = IF c.result.dead THEN Append(@, c.result.pid) ELSE @]]

Crash(s, why) == [s EXCEPT !.crashed = IF @ = "no" THEN why ELSE @]

\* restart_tracee(); it returns whether the tracee has been restarted.
RestartTracee(s, p, signal) ==
  CASE s.tr[p].waitPid # None \/ signal = -1 -> [s |-> s, ok |-> FALSE]
    [] s.tr[p].waitPid = None /\ signal # -1 /\ ~s.tr[p].how ->
         [s |-> Crash(s, "restart_how"), ok |-> FALSE]        \* assert()
    [] OTHER ->
         IF s.kn[p].at # "stopped" THEN [s |-> s, ok |-> FALSE]
         ELSE [s |-> [Resume(s, p) EXCEPT !.tr[p].running = TRUE, !.tr[p].how = FALSE],
               ok |-> TRUE]

SetResult(s, p, pid, dead) ==
  [s EXCEPT !.kn[p].result = [pid |-> pid, dead |-> dead], !.kn[p].again = FALSE]

SendStop(s, p) ==
  IF s.kn[p].at \in {"free", "gone"} THEN s ELSE [s EXCEPT !.kn[p].sigstop = TRUE]

-----------------------------------------------------------------------------
(* tracee/tracee.c: looking for ptracees                                   *)

\* get_ptracee() returns zombies first, then the tracees in the order of the list;
\* here the place of the first that is found, 0 if there is none.
Zombie(s, ptracer, pid) ==
  SelectInSeq(s.tr[ptracer].zombies, LAMBDA z : Matches(pid, z.pid))

\* get_stopped_ptracee(ptracer, pid, only_with_pevent)
StoppedPtracee(s, ptracer, pid, pevent) ==
  SelectInSeq(s.list, LAMBDA p : /\ s.tr[p].as.ptracer = ptracer /\ Matches(pid, p)
                                 /\ ~s.tr[p].running
                                 /\ pevent => s.tr[p].as.event.pending)

AttachToPtracer(s, p, ptracer) ==
  [s EXCEPT !.tr[p].as = [NotPtracee EXCEPT !.ptracer = ptracer], !.tr[ptracer].nb = @ + 1]

\* Mutant: the counter of the ptracer is not updated.
DetachUncounted(s, p) == [s EXCEPT !.tr[p].as.ptracer = None]

DetachFromPtracer(s, p) ==
  LET ptracer == s.tr[p].as.ptracer
  IN [s EXCEPT !.tr[p].as.ptracer = None, !.tr[ptracer].nb = @ - 1]

-----------------------------------------------------------------------------
(* ptrace/wait.c                                                           *)

\* translate_wait_enter(): the syscall is voided if a ptracee is expected.
TranslateWaitEnter(s, p, pid) ==
  LET emulated == /\ s.tr[p].nb > 0
                  /\ \/ pid = AnyPid
                     \/ pid \in Listed(s) /\ s.tr[pid].as.ptracer = p
  IN [s EXCEPT !.tr[p].waitsIn = IF emulated THEN "PROOT" ELSE "KERNEL",
               !.kn[p].void    = emulated]

\* restart_original_syscall(); chain_next_syscall() queues it for real.
RestartOriginalSyscall(s, p) == [s EXCEPT !.tr[p].chain = "queued"]

ChainNextSyscall(s, p) ==
  CASE s.tr[p].chain = "none"    -> s
    [] s.tr[p].chain = "queued"  ->
         [s EXCEPT !.tr[p].chain = "running", !.kn[p].again = TRUE, !.kn[p].void = FALSE,
                   !.kn[p].result = NoResult]
    [] s.tr[p].chain = "running" -> [s EXCEPT !.tr[p].chain = "none", !.kn[p].again = FALSE]

\* Mutant: the terminating event of a child is told by PRoot as well.
UpdateWaitStatusTwice(s, ptracer, q) ==
  [s |-> [s EXCEPT !.tr[q].as.event.pending = FALSE], status |-> q]

\* update_wait_status(): the status is 0 when the wait has to be restarted, in
\* order to let the kernel report the termination of a child to its parent.
UpdateWaitStatus(s, ptracer, q) ==
  IF s.tr[q].parent = ptracer /\ s.tr[q].as.event.value = "exited"
  THEN [s |-> DetachFromPtracer(RestartOriginalSyscall(s, ptracer), q), status |-> 0]
  ELSE [s |-> [s EXCEPT !.tr[q].as.event.pending = FALSE], status |-> q]

\* The same for a zombie, which is freed.
UpdateZombieStatus(s, ptracer, n) ==
  LET z == s.tr[ptracer].zombies[n]
      buried == [s EXCEPT !.tr[ptracer].zombies = RemoveAt(@, n), !.tr[ptracer].nb = @ - 1]
  IN IF z.parent = ptracer
     THEN [s |-> RestartOriginalSyscall(buried, ptracer), status |-> 0]
     ELSE [s |-> buried, status |-> z.pid]

\* translate_wait_exit()
TranslateWaitExit(s0, p, op) ==
  LET s == [s0 EXCEPT !.tr[p].waitsIn = "DOESNT_WAIT"]
      z == Zombie(s, p, op.a)
      n == StoppedPtracee(s, p, op.a, TRUE)
      told(r, dead) == SetResult(r.s, p, r.status, dead /\ r.status # 0)
  IN CASE z # 0 -> told(UpdateZombieStatus(s, p, z), TRUE)
       [] z = 0 /\ n # 0 ->
            told(UpdateWaitStatus(s, p, s.list[n]), s.tr[s.list[n]].as.event.value = "exited")
       [] OTHER ->
            LET r == SetResult(s, p, None, FALSE)       \* -ECHILD or 0
            IN IF s.tr[p].nb = 0 \/ op.f = "poll" THEN r
               ELSE [r EXCEPT !.tr[p].waitPid = op.a]

\* Mutant: the event is noted but the ptracer is not woken.
WakePtracerNever(s, ptracer, q, keep) == [s |-> s, keep |-> keep]

\* The end of handle_ptracee_event(): the ptracer may be waiting for this event.
WakePtracer(s, ptracer, q, keep) ==
  IF ~Matches(s.tr[ptracer].waitPid, q) THEN [s |-> s, keep |-> keep]
  ELSE LET u == UpdateWaitStatus(s, ptracer, q)
           v == IF u.status = 0 THEN ChainNextSyscall(u.s, ptracer)
                ELSE SetResult(u.s, ptracer, q, s.tr[q].as.event.value = "exited")
           r == RestartTracee([v EXCEPT !.tr[ptracer].waitPid = None], ptracer, 0)
       IN [s |-> r.s, keep |-> keep /\ r.ok]

-----------------------------------------------------------------------------
(* The events of a tracee                                                  *)

\* Any event is pending for PRoot no more, and decides how to restart the tracee.
Handled(s, p) == [s EXCEPT !.tr[p].as.proot.pending = FALSE, !.tr[p].how = TRUE]

\* translate_syscall_enter(), unless the syscall is one that PRoot has chained.
HandleSysenter(s, p) ==
  LET op == s.kn[p].op
      e  == [s EXCEPT !.tr[p].status = 1]
  IN CASE s.tr[p].chain = "none" /\ op.f \in {"wait", "poll"} -> TranslateWaitEnter(e, p, op.a)
       [] s.tr[p].chain = "none" /\ op.f \in Requests \cup {"traceme"} ->
            [e EXCEPT !.kn[p].void = TRUE]                   \* translate_ptrace_enter()
       [] OTHER -> e

\* What handle_tracee_event() does with the events that need no other one: the
\* entry of a syscall, a SIGSTOP, an exit event and a termination.
HandleSimpleEvent(s, p, event) ==
  LET done == Handled(s, p)
  IN CASE event = "sys" -> [signal |-> 0, s |-> HandleSysenter(done, p)]
       [] event = "stop" ->
            CASE ~s.tr[p].exe -> [signal |-> -1, s |-> [done EXCEPT !.tr[p].sigstop = "PENDING"]]
              [] s.tr[p].exe /\ s.tr[p].sigstop = "IGNORED" ->
                   [signal |-> 0, s |-> [done EXCEPT !.tr[p].sigstop = "ALLOWED"]]
              [] OTHER -> [signal |-> 0, s |-> done]         \* delivered
       [] event = "exited" -> [signal |-> 0, s |-> [done EXCEPT !.tr[p].terminated = TRUE]]
       [] OTHER            -> [signal |-> 0, s |-> done]

\* The initial event of a ptracee whose ptracer restarts it, or has died.
ReleaseEvent(s, q) ==
  IF s.tr[q].as.proot.pending THEN HandleSimpleEvent(s, q, s.tr[q].as.proot.value)
  ELSE [s |-> s, signal |-> 0]

\* Mutant: a ptracer that has gone to wait is not interrupted.
TraceMeSilently(s, p) ==
  IF s.tr[p].as.ptracer # None THEN s
  ELSE IF s.tr[p].parent = None THEN Crash(s, "parent")
  ELSE AttachToPtracer(s, p, s.tr[p].parent)

\* translate_ptrace_exit(): TRACEME.
TraceMe(s, p) ==
  LET ptracer == s.tr[p].parent IN
  CASE s.tr[p].as.ptracer # None -> s                        \* -EPERM
    [] s.tr[p].as.ptracer = None /\ ptracer = None -> Crash(s, "parent")
    [] OTHER ->
         LET a == AttachToPtracer(s, p, ptracer) IN
         IF s.tr[ptracer].waitsIn = "KERNEL"
         THEN [SendStop(a, ptracer) EXCEPT !.tr[ptracer].sigstop = "IGNORED",
                                           !.tr[ptracer].waitsIn = "PROOT"]
         ELSE a

Attach(s, p, q) ==
  IF q \notin Listed(s) \/ s.tr[q].as.ptracer # None \/ q = p THEN s
  ELSE SendStop(AttachToPtracer(s, q, p), q)

\* The requests on a stopped ptracee; the last three do not restart it.
Restarting(s, p, op) ==
  LET q  == op.a
      s1 == IF op.f = "detach" THEN DetachFromPtracer(s, q)
            ELSE [s EXCEPT !.tr[q].as.ignore = (op.f = "cont")]
      r  == ReleaseEvent(s1, q)
  IN RestartTracee(r.s, q, IF op.f = "detach" THEN r.signal ELSE 0).s

TranslatePtraceExit(s, p, op) ==
  LET q == op.a
      found == Zombie(s, p, q) = 0 /\ StoppedPtracee(s, p, q, FALSE) # 0
  IN CASE op.f = "traceme" -> TraceMe(s, p)
       [] op.f = "attach"  -> Attach(s, p, q)
       [] op.f \in {"cont", "syscall", "detach"} /\ found -> Restarting(s, p, op)
       [] op.f = "setfork" /\ found -> [s EXCEPT !.tr[q].as.options = {"fork"}]
       [] op.f = "setexit" /\ found -> [s EXCEPT !.tr[q].as.options = {"exitev"}]
       [] OTHER -> s                                         \* -ESRCH

\* translate_syscall_exit(), for the syscalls of ptrace; emulated: the wait is.
EmulateExit(s, p, emulated) ==
  LET op == s.kn[p].op IN
  CASE s.tr[p].chain # "none" -> s
    [] s.tr[p].chain = "none" /\ op.f \in Requests \cup {"traceme"} -> TranslatePtraceExit(s, p, op)
    [] s.tr[p].chain = "none" /\ op.f \in {"wait", "poll"} /\ emulated -> TranslateWaitExit(s, p, op)
    [] OTHER -> s

\* The exit of a syscall, then chain_next_syscall().
HandleSysexit(s, p) ==
  LET done == [Handled(s, p) EXCEPT !.tr[p].status = 0]
  IN ChainNextSyscall(EmulateExit(done, p, s.tr[p].waitsIn = "PROOT"), p)

\* handle_ptracee_event() once PRoot has handled what it handles first.  The
\* ptracer is the one of its beginning.
TellPtracer(s, ptracer, q, event) ==
  WakePtracer([s EXCEPT !.tr[q].as.event = [value |-> event, pending |-> TRUE]],
              ptracer, q, event # "exited")

\* The event as PRoot will have to handle it, at once or when its ptracer restarts
\* the ptracee; once it is handled its value is the signal to deliver, none here.
ProotEvent(s, q, event) == [s EXCEPT !.tr[q].as.proot = [value |-> event, pending |-> TRUE]]
Started(s, q)           == [s EXCEPT !.tr[q].as.started = TRUE]
NoSignal(s, q)          == [s EXCEPT !.tr[q].as.proot.value = "none"]

\* Its events that need no other one: not the exit of a syscall, not a fork event.
HandleSimplePtraceeEvent(s, q, event) ==
  LET as == s.tr[q].as
      s1 == ProotEvent(s, q, event)
      s2 == Started(s1, q)
      handled == NoSignal(HandleSimpleEvent(s2, q, event).s, q)
  IN CASE event = "sys" /\ (as.ignore \/ ~as.started)          -> [s |-> s1, keep |-> FALSE]
       [] event = "exitev" /\ "exitev" \notin as.options       -> [s |-> s1, keep |-> FALSE]
       [] event = "sys" /\ ~as.ignore /\ as.started            -> TellPtracer(s1, as.ptracer, q, event)
       [] event = "exitev" /\ "exitev" \in as.options          -> TellPtracer(handled, as.ptracer, q, event)
       [] OTHER                                                -> TellPtracer(s2, as.ptracer, q, event)

\* get_tracee(pid, true)
GetTracee(s, p) ==
  IF p \in Listed(s) THEN s ELSE [s EXCEPT !.list = <<p>> \o @, !.tr[p] = NewTracee]

Inherit(s, c, p) == [s EXCEPT !.tr[c].parent = p, !.tr[c].exe = TRUE]

\* The child of a ptracee is traced as well, with PTRACE_O_TRACEFORK.
AttachChild(s, c, p) ==
  LET as == s.tr[p].as
  IN IF as.ptracer # None /\ "fork" \in as.options
     THEN [AttachToPtracer(s, c, as.ptracer) EXCEPT !.tr[c].as.options = as.options]
     ELSE s

\* The first SIGSTOP of the child came first: it is handled now.
StartChild(s, c) ==
  LET s1 == [s EXCEPT !.tr[c].sigstop = "ALLOWED"]
      n  == IF s1.tr[c].as.ptracer = None THEN [s |-> s1, keep |-> FALSE]
            ELSE HandleSimplePtraceeEvent(s1, c, "stop")
      s2 == [n.s EXCEPT !.tr[c].as.proot = NoEvent]
  IN IF n.keep THEN s2 ELSE RestartTracee(s2, c, 0).s

\* new_child()
NewChild(s, p) ==
  LET c == s.kn[p].child
      found == GetTracee(s, c)
      child == AttachChild(Inherit(found, c, p), c, p)
  IN IF found.tr[c].as.ptracer # None THEN Crash(s, "new_child")        \* assert()
     ELSE IF child.tr[c].sigstop # "PENDING" THEN child ELSE StartChild(child, c)

\* handle_tracee_event()
HandleTraceeEvent(s, p, event) ==
  CASE event = "fork" ->
         [s |-> [NewChild([s EXCEPT !.tr[p].how = TRUE], p)
                 EXCEPT !.tr[p].as.proot.pending = FALSE], signal |-> 0]
    [] event = "sys" /\ s.tr[p].status # 0 -> [s |-> HandleSysexit(s, p), signal |-> 0]
    [] OTHER -> HandleSimpleEvent(s, p, event)

\* handle_ptracee_event(): PRoot handles sysexits and fork events first.
HandlePtraceeEvent(s, q, event) ==
  LET as == s.tr[q].as
      s1 == ProotEvent(s, q, event)
      s2 == IF event = "fork" THEN Started(s1, q) ELSE s1
      handled == NoSignal(HandleTraceeEvent(s2, q, event).s, q)
      first == \/ event = "sys" /\ s.tr[q].status # 0 /\ ~as.ignore /\ as.started
               \/ event = "fork" /\ "fork" \in as.options
  IN CASE first                      -> TellPtracer(handled, as.ptracer, q, event)
       [] ~first /\ event = "fork"   -> [s |-> s1, keep |-> FALSE]
       [] ~first /\ event # "fork"   -> HandleSimplePtraceeEvent(s, q, event)

-----------------------------------------------------------------------------
(* remove_tracee(): a terminated tracee is unlinked                        *)

FreePtracee(s, q) ==
  LET free == [s EXCEPT !.tr[q].as.ptracer = None]
      r    == ReleaseEvent(free, q)
      told == s.tr[q].as.proot.pending \/ s.tr[q].as.event.pending
  IN [(IF told THEN RestartTracee(r.s, q, r.signal).s ELSE free) EXCEPT !.tr[q].as = NotPtracee]

\* Mutant: the ptracees keep a dangling ptracer.
FreePtraceesNot(s, p) == s

OrphanChildren(s, p) ==
  [s EXCEPT !.tr = [q \in Pids |->
     IF q \in Listed(s) /\ @[q].parent = p THEN [@[q] EXCEPT !.parent = None] ELSE @[q]]]

FreePtracees(s, p) ==
  LET freed[n \in 0 .. Len(s.list)] ==
        IF n = 0 THEN s
        ELSE LET q == s.list[n]
             IN IF freed[n - 1].tr[q].as.ptracer = p THEN FreePtracee(freed[n - 1], q) ELSE freed[n - 1]
  IN freed[Len(s.list)]

\* The ptracee is kept as a zombie if its termination is still to be told.
LeavePtracer(s, p) ==
  LET as == s.tr[p].as
      d  == DetachFromPtracer(s, p)
  IN CASE as.ptracer = None -> s
       [] as.ptracer # None /\ as.event = [value |-> "exited", pending |-> TRUE] ->
            [s EXCEPT !.tr[as.ptracer].zombies = <<[pid |-> p, parent |-> s.tr[p].parent]>> \o @,
                      !.tr[p].as.ptracer = None]
       [] OTHER ->
            IF d.tr[as.ptracer].nb = 0 /\ d.tr[as.ptracer].waitPid # None
            THEN RestartTracee([SetResult(d, as.ptracer, None, FALSE)
                                  EXCEPT !.tr[as.ptracer].waitPid = None], as.ptracer, 0).s
            ELSE d

RemoveTracee(s, p) ==
  LET u == [s EXCEPT !.list = RemoveFirst(@, p)]
  IN [LeavePtracer(FreePtracees(OrphanChildren(u, p), p), p) EXCEPT !.tr[p] = NewTracee]

FreeTerminated(s) ==
  LET left[n \in 0 .. Len(s.list)] ==
        IF n = 0 THEN s
        ELSE LET p == s.list[n]
             IN IF left[n - 1].tr[p].terminated THEN RemoveTracee(left[n - 1], p) ELSE left[n - 1]
  IN left[Len(s.list)]

-----------------------------------------------------------------------------
(* The steps of PRoot: event_loop()                                        *)

State == [tr |-> tr, list |-> list, kn |-> kn, crashed |-> crashed]

Become(s) ==
  /\ tr' = s.tr /\ list' = s.list /\ kn' = s.kn /\ crashed' = s.crashed
  /\ UNCHANGED <<fuel, kills>>

\* waitpid(-1) returns any event; the one of a termination releases the process
\* to its parent.
Waitable(p) ==
  /\ ~kn[p].seen
  /\ kn[p].at = "stopped" \/ (kn[p].at = "gone" /\ kn[p].event = "exited")

Collected(p) ==
  LET ev == IF kn[p].event \in {"enter", "exit"} THEN "sys" ELSE kn[p].event
      s1 == GetTracee(State, p)
  IN [event |-> ev,
      s |-> [s1 EXCEPT !.tr[p].running = FALSE,
                       !.kn[p].seen = TRUE,
                       !.kn[p].corpse = IF ev = "exited" /\ kn[p].parent # None
                                        THEN "corpse" ELSE @]]

HandleEvent(p) ==
  /\ Waitable(p) /\ crashed = "no"
  /\ LET c == Collected(p)
         h == IF c.s.tr[p].as.ptracer = None THEN [s |-> c.s, keep |-> FALSE]
              ELSE HandlePtraceeEvent(c.s, p, c.event)
         r == HandleTraceeEvent(h.s, p, c.event)
     IN Become(FreeTerminated(
          IF h.keep \/ h.s.crashed # "no" THEN h.s ELSE RestartTracee(r.s, p, r.signal).s))

-----------------------------------------------------------------------------
(* The steps of the processes                                              *)

Process(p, c) ==
  /\ crashed = "no"
  /\ kn' = [kn EXCEPT ![p] = c]
  /\ UNCHANGED <<tr, list, crashed, kills>>

\* A program calls an operation; it ends by itself when the fuel is spent.
Call(p) ==
  /\ kn[p].at = "user" /\ ~kn[p].sigstop /\ ~kn[p].again
  /\ \E op \in Programs[p] \cup {Op("exit", 0)} :
       /\ op.f # "exit" => fuel > 0
       /\ fuel' = IF op.f = "exit" THEN fuel ELSE fuel - 1
       /\ Process(p, StopBy([kn[p] EXCEPT !.op = op], "enter"))

\* A chained or interrupted syscall is called again.
CallAgain(p) ==
  /\ kn[p].at = "user" /\ ~kn[p].sigstop /\ kn[p].again
  /\ Process(p, StopBy([kn[p] EXCEPT !.again = FALSE], "enter"))
  /\ UNCHANGED fuel

TakeSigstop(p) ==
  /\ kn[p].at = "user" /\ kn[p].sigstop
  /\ Process(p, StopBy([kn[p] EXCEPT !.sigstop = FALSE], "stop"))
  /\ UNCHANGED fuel

RunOther(p) ==
  /\ kn[p].at = "kernel" /\ (kn[p].void \/ kn[p].op.f \in {"other", "raise"})
  /\ Process(p, StopBy([kn[p] EXCEPT !.sigstop = @ \/ kn[p].op.f = "raise"], "exit"))
  /\ UNCHANGED fuel

RunExit(p) ==
  /\ kn[p].at = "kernel" /\ kn[p].op.f = "exit"
  /\ Process(p, StopBy(kn[p], "exitev"))
  /\ UNCHANGED fuel

\* fork(): the child, traced as well, is about to be stopped by a SIGSTOP.
RunFork(p) ==
  /\ kn[p].at = "kernel" /\ kn[p].op.f = "fork" /\ crashed = "no"
  /\ \/ \E q \in Pids :
          /\ kn[q].at = "free" /\ \A o \in 1 .. q - 1 : kn[o].at # "free"
          /\ kn' = [kn EXCEPT ![p] = StopBy([@ EXCEPT !.child = q], "fork"),
                              ![q] = [NoProcess EXCEPT !.at = "user", !.sigstop = TRUE,
                                                       !.parent = p]]
     \/ /\ \A q \in Pids : kn[q].at # "free"
        /\ kn' = [kn EXCEPT ![p] = StopBy(@, "exit")]
  /\ UNCHANGED <<tr, list, crashed, fuel, kills>>

LeaveFork(p) ==
  /\ kn[p].at = "leaving"
  /\ Process(p, StopBy([kn[p] EXCEPT !.child = None], "exit"))
  /\ UNCHANGED fuel

\* wait(2), for real: a corpse is collected, or there is none to wait for, or
\* the wait is interrupted by a signal, to be called again.
ChildrenOf(p, pid) ==
  {q \in Pids : /\ kn[q].parent = p /\ Matches(pid, q)
                /\ (kn[q].at # "gone" \/ kn[q].corpse # "reaped")}

RunWait(p) ==
  /\ kn[p].at = "kernel" /\ kn[p].op.f \in {"wait", "poll"} /\ ~kn[p].void /\ crashed = "no"
  /\ LET pid    == kn[p].op.a
         dead   == {q \in ChildrenOf(p, pid) : kn[q].corpse = "corpse"}
         return(result, again) ==
           StopBy([kn[p] EXCEPT !.result = result, !.again = again], "exit")
     IN \/ \E q \in dead :
             kn' = [kn EXCEPT ![p] = return([pid |-> q, dead |-> TRUE], FALSE),
                              ![q].corpse = "reaped"]
        \/ /\ dead = {} /\ (ChildrenOf(p, pid) = {} \/ kn[p].op.f = "poll")
           /\ kn' = [kn EXCEPT ![p] = return(NoResult, FALSE)]
        \/ /\ dead = {} /\ ChildrenOf(p, pid) # {} /\ kn[p].op.f = "wait" /\ kn[p].sigstop
           /\ kn' = [kn EXCEPT ![p] = return(NoResult, TRUE)]
  /\ UNCHANGED <<tr, list, crashed, fuel, kills>>

\* A SIGKILL, from outside; the exit event is not always reported.
Kill(p) ==
  /\ kills > 0 /\ kills' = kills - 1
  /\ crashed = "no" /\ kn[p].at \notin {"free", "gone"}
  /\ \/ /\ kn[p].event # "exitev"
        /\ kn' = [kn EXCEPT ![p] = StopBy(@, "exitev")]
     \/ kn' = Dies(State, p).kn
  /\ UNCHANGED <<tr, list, crashed, fuel>>

-----------------------------------------------------------------------------
(* The specification                                                       *)

Init ==
  /\ tr = [p \in Pids |-> IF p = 1 THEN [NewTracee EXCEPT !.exe = TRUE, !.running = TRUE,
                                                          !.sigstop = "ALLOWED"]
                          ELSE NewTracee]
  /\ list = <<1>>
  /\ kn = [p \in Pids |-> IF p = 1 THEN [NoProcess EXCEPT !.at = "user"] ELSE NoProcess]
  /\ crashed = "no" /\ fuel = Fuel /\ kills = MaxKills

Run(p) == \/ CallAgain(p) \/ TakeSigstop(p) \/ RunOther(p) \/ RunExit(p) \/ RunFork(p)
          \/ LeaveFork(p) \/ RunWait(p)

Next == \E p \in Pids : HandleEvent(p) \/ Call(p) \/ Run(p) \/ Kill(p)

Spec == Init /\ [][Next]_vars

-----------------------------------------------------------------------------
(* Properties                                                              *)

TypeOK ==
  /\ list \in Seq(Pids) /\ IsInjective(list)
  /\ \A p \in Pids :
       /\ tr[p].parent \in Pids \cup {None} /\ tr[p].as.ptracer \in Pids \cup {None}
       /\ tr[p].waitPid \in Pids \cup {None, AnyPid} /\ tr[p].nb \in Nat
       /\ tr[p].sigstop \in {"IGNORED", "ALLOWED", "PENDING"}
       /\ tr[p].waitsIn \in {"DOESNT_WAIT", "KERNEL", "PROOT"}
       /\ tr[p].chain \in {"none", "queued", "running"}
       /\ tr[p].as.proot.value \in Events /\ tr[p].as.event.value \in Events
       /\ kn[p].at \in {"free", "user", "kernel", "leaving", "stopped", "gone"}
       /\ kn[p].corpse \in {"none", "corpse", "reaped"}

\* A ptracer counts the ptracees and zombies it has (tracee/tracee.h,
\* nb_ptracees): it neither waits for nobody nor gives up on a live ptracee.
\* And no parent or ptracer is a tracee that has been freed.
Relations ==
  \A p \in Range(list) :
    /\ tr[p].nb = Cardinality({q \in Range(list) : tr[q].as.ptracer = p}) + Len(tr[p].zombies)
    /\ tr[p].parent \in Range(list) \cup {None}
    /\ tr[p].as.ptracer \in Range(list) \cup {None}

\* No wake-up is lost: when a ptracer is kept at the end of its wait(2), there is
\* something to wait for and no event it waits for is pending
\* (ptrace/wait.c:194-219 and 366-389).
NoLostWakeup ==
  crashed = "no" => \A p \in Range(list) : tr[p].waitPid # None =>
    /\ tr[p].nb > 0
    /\ StoppedPtracee(State, p, tr[p].waitPid, TRUE) = 0
    /\ Zombie(State, p, tr[p].waitPid) = 0

\* What a ptracer waits for can still happen.
WaitsForTheLiving ==
  \A p \in Range(list) : tr[p].waitPid # None =>
    \E q \in Range(list) : tr[q].as.ptracer = p /\ (kn[q].at # "gone" \/ Waitable(q))

\* The termination of a process is told once to its parent.
ToldOnce == \A p \in Pids : IsInjective(kn[p].told)

\* A child collected by a wait(2) is known to its parent.
StatusNotLost ==
  \A q \in Pids : kn[q].corpse = "reaped" /\ kn[q].parent # None =>
    LET p == kn[q].parent IN q \in Range(kn[p].told) \/ kn[p].result.pid = q

\* Nobody is in limbo: a process PRoot has stopped and not restarted waits for
\* the fork event it comes from, or for one of its ptracees, or for its ptracer.
Kept(p) == crashed = "no" /\ kn[p].at = "stopped" /\ kn[p].seen

\* A child held since its first SIGSTOP has a fork event to come (tracee/event.c:644-645).
HeldForFork ==
  \A p \in Pids : Kept(p) /\ tr[p].sigstop = "PENDING" /\ ~tr[p].exe =>
    \E q \in Pids : kn[q].event = "fork" /\ kn[q].child = p /\ Waitable(q)

\* A process held at any other stop has a ptracer to restart it (ptrace/wait.c:249-251).
HeldForPtracer ==
  \A p \in Pids : Kept(p) /\ tr[p].exe /\ tr[p].waitPid = None =>
    tr[p].as.ptracer \in Range(list) /\ ~tr[p].running

\* Every program ends, so every run does: nothing can happen any more.
Quiescent ==
  crashed = "no" /\ \A p \in Pids :
    ~ \/ Waitable(p)
      \/ kn[p].at \in {"user", "leaving"}
      \/ /\ kn[p].at = "kernel"
         /\ \/ kn[p].op.f # "wait" \/ kn[p].void \/ kn[p].sigstop
            \/ ChildrenOf(p, kn[p].op.a) = {}
            \/ \E q \in ChildrenOf(p, kn[p].op.a) : kn[q].corpse = "corpse"

\* At the end of a run all are dead but those that wait for a ptracee they have
\* been told the stop of, and those these stop or wait for: no wait(2), emulated
\* or not, sleeps over an event (ptrace/ptrace.c:164-165).
NobodyLeftBehind ==
  Quiescent => \A p \in Pids :
    \/ kn[p].at \in {"free", "gone"}
    \/ kn[p].at = "kernel" /\ StoppedPtracee(State, p, kn[p].op.a, TRUE) = 0
    \/ Kept(p) /\ tr[p].waitPid = None /\ tr[p].as.ptracer # None
    \/ Kept(p) /\ \E q \in Pids : /\ Kept(q) /\ tr[q].as.ptracer = p
                                  /\ Matches(tr[p].waitPid, q) /\ ~tr[q].as.event.pending

-----------------------------------------------------------------------------
(* Expectations of the source that the code does not always meet           *)

\* "assert(tracee->restart_how != 0)" (tracee/event.c:729): a tracee is restarted
\* only when the handling of one of its stops has decided how.
RestartHowSet == crashed # "restart_how"

\* "Sanity checks." (tracee/tracee.c:421-431): the child of a fork event has
\* neither a parent nor a ptracer yet.
ChildUnattached == crashed # "new_child"

\* PTRACE_TRACEME needs the parent that tracee/tracee.h:100 says may be NULL.
ParentKnown == crashed # "parent"

\* A waiting ptracer that has been killed is left to die.
DeadDontWait == \A p \in Pids : Kept(p) /\ kn[p].event = "exitev" => tr[p].waitPid = None

\* A ptracee that has died while its ptracer was not notified can be waited for
\* (tracee/tracee.c:128-129).
ZombiesFound ==
  \A p \in Range(list) :
    (kn[p].at = "kernel" /\ kn[p].op.f \in {"wait", "poll"} /\ ~kn[p].void /\ tr[p].chain = "none")
      => \A z \in Range(tr[p].zombies) : ~Matches(kn[p].op.a, z.pid) \/ z.parent = p

=============================================================================
