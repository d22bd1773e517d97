--------------------------- MODULE SyscallStages ---------------------------
(***************************************************************************)
(* How PRoot follows one tracee through the stages of its system calls.    *)
(*                                                                         *)
(* The kernel stops the tracee at a seccomp event, at the entry and at the *)
(* exit of a syscall, at an exec or fork event and before a signal is      *)
(* delivered; handle_tracee_event() (tracee/event.c) interprets the stop   *)
(* with the few fields of the tracee that record where in a syscall it     *)
(* believes the tracee is, translates the syscall (syscall/syscall.c),     *)
(* replays chained syscalls (syscall/chain.c), and restarts the tracee     *)
(* with PTRACE_CONT or PTRACE_SYSCALL.  Kernel 4.8 swapped the order of    *)
(* the seccomp event and of the entry stop, so both orders are modelled,   *)
(* chosen at the initial state along with the other traits of the host.    *)
(***************************************************************************)
EXTENDS Integers, Sequences, FiniteSets

CONSTANTS
  Syscalls,     \* the kinds of syscalls a program makes
  Launch,       \* the execve of the launcher: the first syscall followed
  Filtered,     \* kinds in the seccomp filter: their entry is translated
  ExitFlag,     \* kinds filtered with FILTER_SYSEXIT
  Ask,          \* kinds whose entry handler may ask for the exit stage
  Substs,       \* kinds whose entry handler may change the syscall number
  Chains,       \* kinds whose exit handler may chain other syscalls
  Chained,      \* the syscalls that get chained
  Disabling,    \* kinds that disable the acceleration (PTRACE_TRACEME)
  ExitPends,    \* kinds whose exit asks for the next exit (openat of auxv)
  Events,       \* kinds stopped by PTRACE_EVENT_EXEC inside the syscall
  Forks,        \* kinds stopped by PTRACE_EVENT_FORK or CLONE inside it
  Traps,        \* kinds a host policy answers with SIGSYS
  Again,        \* kinds whose exit restarts another syscall (utime)
  RestartedAs,  \* the syscall put in place of one refused by the policy
  Hosts,        \* the hosts PRoot runs on
  MaxChain,     \* bound on the syscalls chained after one syscall
  MaxSignals    \* bound on the signals sent to the tracee

\* new: the entry stop precedes the seccomp event; filter: the tracee has PRoot's
\* filter; policy: a policy of the host refuses syscalls; skip: the exit of a
\* refused syscall is not reported; arm: 32-bit ARM; canset: the number of a
\* syscall can be changed at its entry.
HostTraits == [new : BOOLEAN, filter : BOOLEAN, policy : BOOLEAN, skip : BOOLEAN,
               arm : BOOLEAN, canset : BOOLEAN]

ASSUME StagesAssumption ==
  /\ Hosts \subseteq {c \in HostTraits : c.policy => c.new \/ c.skip}
  /\ Launch \in Events
  /\ ExitFlag \subseteq Filtered /\ Filtered \subseteq Syscalls
  /\ Ask \subseteq Filtered /\ Substs \subseteq Filtered
  /\ Chains \subseteq ExitFlag /\ Disabling \subseteq ExitFlag
  /\ ExitPends \subseteq ExitFlag \cup Ask
  /\ Chained \subseteq Syscalls /\ Chained \cap (Traps \cup Events \cup Forks) = {}
  /\ Events \subseteq ExitFlag /\ Events \cap Traps = {}
  /\ Forks \subseteq Syscalls \ Filtered
  /\ Traps \subseteq Syscalls /\ Again \subseteq ExitFlag /\ RestartedAs \in Filtered \ Traps
  /\ MaxChain \in Nat /\ MaxSignals \in Nat

VARIABLES
  host,         \* traits of the kernel and of its policy, fixed
  global,       \* static variables of event.c
  t,            \* the Tracee fields that track the stages
  k,            \* the tracee as the kernel sees it
  h             \* history of the current request of the program

vars == <<host, global, t, k, h>>

-----------------------------------------------------------------------------
(* Values                                                                  *)

Void   == "void"       \* PR_void, detranslated to SYSCALL_AVOIDER
Subst  == "subst"      \* another syscall put in place of the requested one
Faulty == "faulty"     \* the requested number, with arguments that make it fail
Numbers == Syscalls \cup {Void, Subst, Faulty}

\* PR_void and the two numbers put in place of a syscall are not syscalls of a program.
ASSUME NumbersAssumption == Syscalls \cap {Void, Subst, Faulty} = {}

Signals == 1 .. MaxSignals
NoSignal == 0

NoChain == [live |-> FALSE, calls |-> <<>>]     \* chain.syscalls == NULL

\* A syscall instruction about to be executed: src tells who asked for it.
NoCall == [src |-> "none", nr |-> Void]
Call(src, nr) == [src |-> src, nr |-> nr]

\* tracee->status is 0 in the sysenter stage, 1 or -errno in the sysexit stage.
IsInSysenter(tr) == tr.status = 0

\* See the "Don't overwrite restart_how" comment of handle_tracee_event().
SysexitNecessary(tr) == tr.pending \/ tr.chain.live \/ tr.restore

DefaultHow(tr) ==
  IF tr.how # "none" THEN tr.how
  ELSE IF tr.seccomp = "ENABLED" /\ ~SysexitNecessary(tr) THEN "CONT" ELSE "SYSCALL"

-----------------------------------------------------------------------------
(* translate_syscall() and the chain of syscalls                           *)

\* What the handlers of a syscall decide is data: o.res is the fate of the
\* requested syscall at its entry, o.ask the way its handler asks for the exit
\* stage; o.chain, o.pend and o.again are the effects of an exit handler.
EnterOutcomes(nr) ==
  {o \in [res : {"ok", "err", "void", "subst"}, ask : {"none", "how", "pending"}] :
     /\ o.res = "subst"   => nr \in Substs /\ (nr \in Ask => o.ask = "how")
     /\ o.ask = "how"     => nr \in Ask \ ExitPends
     /\ o.ask = "pending" => nr \in Ask \cap ExitPends}

ExitOutcomes(nr, room) ==
  {o \in [chain : UNION {[1 .. n -> Chained] : n \in 0 .. room},
          pend  : BOOLEAN, disable : BOOLEAN, again : BOOLEAN] :
     /\ o.chain # <<>> => nr \in Chains
     /\ o.pend    => nr \in ExitPends
     /\ o.disable => nr \in Disabling
     /\ o.again   => nr \in Again}

\* The sysenter half of translate_syscall(): the fields, and the number the
\* syscall is left with.  A syscall whose entry is the last stop followed
\* (restart_how is PTRACE_CONT) goes straight back to the sysenter stage.
TranslateEnter(tr, nr, o) ==
  LET chained == tr.chain.live
      failed  == ~chained /\ o.res = "err"
      asks    == chained \/ o.ask # "none" \/ (failed /\ host.arm)
      status  == IF failed THEN -1 ELSE 1
      how     == IF asks THEN "SYSCALL" ELSE tr.how
      number  == IF chained \/ o.res = "ok" THEN nr
                 ELSE IF o.res = "subst" THEN Subst ELSE Void
      t1 == [tr EXCEPT !.status  = IF how = "CONT" THEN 0 ELSE status,
                       !.how     = how,
                       !.pending = @ \/ (~chained /\ o.ask = "pending")]
  IN CASE number = nr \/ host.canset ->
            [t |-> t1, nr |-> number, void |-> number = Void]
       [] number # nr /\ number = Subst /\ ~host.canset ->      \* restart_current_syscall_as_chained()
            [t |-> [t1 EXCEPT !.chain = [live |-> TRUE, calls |-> <<Subst>>],
                              !.wa    = "FAULTY"],
             nr |-> Faulty, void |-> FALSE]
       [] OTHER ->
            [t |-> IF how = "CONT" THEN [t1 EXCEPT !.status = status, !.how = "SYSCALL"]
                                   ELSE t1,
             nr |-> Faulty, void |-> TRUE]

\* Mutants of ChainNext: the newest call first; an empty chain that is not freed.
ChainNextLifo(tr) ==
  IF tr.chain.calls = <<>> THEN [t |-> [tr EXCEPT !.chain = NoChain], queue |-> NoCall]
  ELSE [t     |-> [tr EXCEPT !.chain.calls = SubSeq(@, 1, Len(@) - 1), !.how = "SYSCALL"],
        queue |-> Call("chain", tr.chain.calls[Len(tr.chain.calls)])]

ChainNextForever(tr) ==
  IF ~tr.chain.live THEN [t |-> tr, queue |-> NoCall]
  ELSE IF tr.chain.calls = <<>>
  THEN [t |-> [tr EXCEPT !.how = "SYSCALL"], queue |-> Call("replaced", Void)]
  ELSE [t |-> [tr EXCEPT !.chain.calls = Tail(@), !.how = "SYSCALL"],
        queue |-> Call("chain", Head(tr.chain.calls))]

\* chain_next_syscall(): the next chained syscall is queued at the rewound
\* instruction pointer, or the chain is over.
ChainNext(tr) ==
  IF ~tr.chain.live THEN [t |-> tr, queue |-> NoCall]
  ELSE IF tr.chain.calls = <<>> THEN [t |-> [tr EXCEPT !.chain = NoChain], queue |-> NoCall]
  ELSE [t     |-> [tr EXCEPT !.chain.calls = Tail(@), !.how = "SYSCALL"],
        queue |-> Call(IF Head(tr.chain.calls) = Subst THEN "replaced" ELSE "chain",
                       Head(tr.chain.calls))]

\* The effects of translate_syscall_exit() and of the SYSCALL_CHAINED_EXIT event.
Requested(tr) == ~tr.chain.live \/ tr.wa = "REPLACED"

ExitEffects(tr, o) ==
  LET add(u)  == IF o.chain = <<>> THEN u
                 ELSE [u EXCEPT !.chain = [live |-> TRUE, calls |-> @.calls \o o.chain]]
      done(u) == [u EXCEPT !.wa      = "INACTIVE",
                           !.pending = @ \/ o.pend,
                           !.how     = IF o.pend \/ o.again THEN "SYSCALL" ELSE @,
                           !.restore = @ \/ o.again,
                           !.seccomp = IF o.disable /\ @ = "ENABLED" THEN "DISABLING" ELSE @]
  IN IF Requested(tr) THEN add(done(tr))
     ELSE IF tr.wa = "FAULTY" THEN [tr EXCEPT !.wa = "REPLACED"]
     ELSE add(tr)

\* The sysexit half.  push_specific_regs() ends a restart after SIGSYS as soon
\* as it restores the original registers, which it does not do while another
\* syscall is queued.
TranslateExit(tr, o) ==
  LET u == ExitEffects(tr, o)
      n == ChainNext([u EXCEPT !.status = 0])
  IN IF o.again /\ Requested(tr)          \* fix_and_restart_enosys_syscall()
     THEN [t |-> n.t, queue |-> Call("restart", RestartedAs)]
     ELSE [t     |-> IF n.queue = NoCall THEN [n.t EXCEPT !.restore = FALSE] ELSE n.t,
           queue |-> n.queue]

-----------------------------------------------------------------------------
(* handle_tracee_event(), one operator per kind of stop.  Each returns the  *)
(* fields, the number of the syscall, the queued syscall and the signal to  *)
(* restart the tracee with.                                                 *)

Outcome(tr, nr, queue, signal) == [t |-> tr, nr |-> nr, queue |-> queue, signal |-> signal]

\* Under acceleration the entry stop asks for the exit stop, and the exit stop
\* lets the tracee run to its next seccomp event.
StageDefaults(tr) ==
  IF tr.seccomp # "ENABLED" THEN tr
  ELSE IF IsInSysenter(tr) THEN [tr EXCEPT !.how = "SYSCALL", !.pending = TRUE]
  ELSE [tr EXCEPT !.how = "CONT", !.pending = FALSE]

\* Mutant: nothing redelivers a suppressed signal.
RedeliveredNever(tr) == NoSignal

\* A signal suppressed during a chain is redelivered once the chain is over.
Redelivered(tr) ==
  IF tr.suppressed # NoSignal /\ ~tr.chain.live /\ ~tr.restore
  THEN tr.suppressed ELSE NoSignal

\* Mutant: disabling the acceleration does not change how the tracee is followed.
AfterDisablingLater(tr) == tr

AfterDisabling(tr) ==
  IF tr.seccomp = "DISABLING" THEN [tr EXCEPT !.how = "SYSCALL", !.seccomp = "DISABLED"] ELSE tr

\* case SIGTRAP | 0x80
HandleSysTrap(tr, nr, oEnter, oExit) ==
  LET t1    == StageDefaults(tr)
      enter == TranslateEnter(t1, nr, oEnter)
      exit  == TranslateExit(t1, oExit)
      t2    == IF IsInSysenter(tr)
               THEN [enter.t EXCEPT !.skip = global.afterEnter /\ enter.void]
               ELSE exit.t
      sig   == Redelivered(t2)
      t3    == IF sig = NoSignal THEN t2 ELSE [t2 EXCEPT !.suppressed = NoSignal]
  IN CASE tr.seccomp = "DISABLING" ->
            Outcome([tr EXCEPT !.seccomp = "DISABLED",
                               !.status  = IF IsInSysenter(tr) THEN 1 ELSE @],
                    nr, k.queue, NoSignal)
       [] tr.seccomp # "DISABLING" /\ tr.handled ->
            Outcome(AfterDisabling([t1 EXCEPT !.handled = FALSE, !.how = "SYSCALL"]),
                    nr, k.queue, NoSignal)
       [] OTHER ->
            Outcome(AfterDisabling(t3),
                    IF IsInSysenter(tr) THEN enter.nr ELSE nr,
                    IF IsInSysenter(tr) THEN NoCall ELSE exit.queue,
                    sig)

\* case SIGTRAP | PTRACE_EVENT_SECCOMP << 8, once the order is detected: global
\* and tr are the values after the detection.
HandleSeccompEvent(tr0, after, nr, o) ==
  LET tr     == [tr0 EXCEPT !.skip = FALSE]
      common == nr \in ExitFlag \/ SysexitNecessary(tr)
      same(u) == Outcome(u, nr, NoCall, NoSignal)
      enter(how) == TranslateEnter([tr EXCEPT !.how = how], nr, o)
      e      == enter("CONT")
      how    == IF e.t.pending \/ e.t.seccomp = "DISABLING" THEN "SYSCALL" ELSE e.t.how
  IN IF after /\ ~IsInSysenter(tr) THEN same([tr EXCEPT !.how = tr.last])
     ELSE IF tr.seccomp # "ENABLED" THEN same(tr)
     ELSE IF common /\ after
     THEN Outcome([enter("SYSCALL").t EXCEPT !.how = "SYSCALL"],
                  enter("SYSCALL").nr, NoCall, NoSignal)
     ELSE IF common THEN same([tr EXCEPT !.how = "SYSCALL"])
     ELSE Outcome([e.t EXCEPT !.how = how, !.handled = ~after /\ how = "SYSCALL"],
                  e.nr, NoCall, NoSignal)

\* Mutant: restore_original_regs_after_seccomp_event is not set.
HandleRefusedUnmarked(tr, restarts) ==
  IF restarts
  THEN [t |-> [tr EXCEPT !.status = 0, !.how = "SYSCALL"], queue |-> Call("restart", RestartedAs)]
  ELSE [t |-> [tr EXCEPT !.status = 0], queue |-> NoCall]

\* handle_seccomp_event(): the refused syscall is emulated on the spot, or
\* another one is restarted in its place.
HandleRefused(tr, restarts) ==
  LET u == [tr EXCEPT !.status = 0] IN
  IF restarts
  THEN [t |-> [u EXCEPT !.restore = TRUE, !.how = "SYSCALL"],
        queue |-> Call("restart", RestartedAs)]
  ELSE [t |-> u, queue |-> NoCall]

\* case SIGSYS: the exit stage is handled first if the kernel has skipped it.
HandleSigSys(tr, nr, oExit, restarts) ==
  LET x  == IF IsInSysenter(tr) THEN [t |-> tr, queue |-> k.queue] ELSE TranslateExit(tr, oExit)
      r  == HandleRefused(x.t, restarts)
  IN IF tr.skip \/ (global.afterEnter /\ nr = Void)
     THEN Outcome([x.t EXCEPT !.skip = FALSE], nr, x.queue, NoSignal)
     ELSE Outcome(r.t, nr, r.queue, NoSignal)

\* Mutants: the test on restore_original_regs_after_seccomp_event is missing;
\* the suppressed signal is not saved.
HandleSignalAtRestart(tr, s) ==
  IF tr.chain.live THEN Outcome([tr EXCEPT !.suppressed = s], k.call.nr, k.queue, NoSignal)
  ELSE Outcome(tr, k.call.nr, k.queue, s)

HandleSignalDropped(tr, s) ==
  Outcome(tr, k.call.nr, k.queue, IF tr.chain.live \/ tr.restore THEN NoSignal ELSE s)

\* default: such a signal is delivered, unless syscalls are being chained.
HandleSignal(tr, s) ==
  IF tr.chain.live \/ tr.restore
  THEN Outcome([tr EXCEPT !.suppressed = s], k.call.nr, k.queue, NoSignal)
  ELSE Outcome(tr, k.call.nr, k.queue, s)

\* A bare SIGTRAP, a SIGSTOP, and a SIGSYS that no filter has raised have cases of their own:
\* they are delivered, whatever is being chained.
HandleBareSignal(tr, s) == Outcome(tr, k.call.nr, k.queue, s)

\* Mutant: the exec event does not keep last_restart_how.
HandleExecEventDefault(tr) == Outcome(tr, k.call.nr, k.queue, NoSignal)

\* case PTRACE_EVENT_EXEC, VFORK_DONE and EXIT; FORK and CLONE keep the default.
HandleExecEvent(tr) ==
  Outcome(IF tr.last = "none" THEN tr ELSE [tr EXCEPT !.how = tr.last], k.call.nr, k.queue, NoSignal)

HandleForkEvent(tr) == Outcome(tr, k.call.nr, k.queue, NoSignal)

-----------------------------------------------------------------------------
(* The kernel side: an external component, modelled from the stops the code *)
(* expects of it.                                                           *)

Refuses(nr) == host.policy /\ nr \in Traps \cup {Void}

Gates == IF host.new THEN <<"sysenter", "seccomp">> ELSE <<"seccomp", "sysenter">>

Issue(call) ==
  k' = [k EXCEPT !.pos = "gate", !.gates = Gates, !.call = call, !.queue = NoCall]

\* The program runs: it makes a syscall of its own.
ProgramCall(nr) ==
  /\ k.pos = "user" /\ k.queue = NoCall /\ ~k.sigsys
  /\ Issue(Call("program", nr))
  /\ h' = [h EXCEPT !.nr = nr, !.entered = 0, !.exited = 0, !.registered = <<>>, !.ran = <<>>]
  /\ UNCHANGED <<host, global, t>>

\* The instruction pointer was moved back to the trap: it is executed again.
QueuedCall ==
  /\ k.pos = "user" /\ k.queue # NoCall /\ ~k.sigsys
  /\ Issue(k.queue)
  /\ h' = IF k.queue.src = "restart"
          THEN [h EXCEPT !.nr = k.queue.nr, !.entered = 0, !.exited = 0] ELSE h
  /\ UNCHANGED <<host, global, t>>

\* The entry stop is reported only to a tracer that asked for it.
EntryGate ==
  /\ k.pos = "gate" /\ k.gates # <<>> /\ Head(k.gates) = "sysenter"
  /\ k' = [k EXCEPT !.gates = Tail(@), !.pos = IF k.mode = "SYSCALL" THEN "sysenter" ELSE "gate"]
  /\ UNCHANGED <<host, global, t, h>>

\* The filters are run, and run again on what a tracer put in place of the
\* syscall.  A refused syscall is not executed: SIGSYS is raised, and some
\* kernels do not report the exit of the syscall ("if seccomp triggered sysexit
\* skip", tracee/event.c:665).  A kernel of the old order that does report it
\* is left out.
FilterGate ==
  /\ k.pos = "gate" /\ k.gates # <<>> /\ Head(k.gates) \in {"seccomp", "recheck"}
  /\ k' = CASE Refuses(k.call.nr) ->
                 [k EXCEPT !.sigsys = TRUE, !.gates = <<>>,
                           !.pos = IF k.mode = "SYSCALL" /\ ~host.skip THEN "sysexit" ELSE "user"]
            [] ~Refuses(k.call.nr) /\ host.filter /\ k.call.nr \in Filtered
                 /\ Head(k.gates) = "seccomp" ->
                 [k EXCEPT !.pos = "seccomp",
                           !.gates = IF host.new THEN <<"recheck">> ELSE Tail(@)]
            [] OTHER -> [k EXCEPT !.gates = Tail(@)]
  /\ UNCHANGED <<host, global, t, h>>

\* The syscall is executed.  A successful execve or fork has one more stop
\* before the end of the syscall.
Execute ==
  /\ k.pos = "gate" /\ k.gates = <<>>
  /\ k' \in {[k EXCEPT !.pos = p] :
               p \in {"leaving"} \cup (IF k.call.nr \in Events THEN {"exec"} ELSE {})
                                 \cup (IF k.call.nr \in Forks THEN {"fork"} ELSE {})}
  /\ h' = [h EXCEPT !.ran = IF k.call.src = "chain" THEN Append(@, k.call.nr) ELSE @]
  /\ UNCHANGED <<host, global, t>>

ExitGate ==
  /\ k.pos = "leaving"
  /\ k' = [k EXCEPT !.pos = IF k.mode = "SYSCALL" THEN "sysexit" ELSE "user"]
  /\ UNCHANGED <<host, global, t, h>>

\* Signals are taken on the way back to the program.
SigSysStop ==
  /\ k.pos = "user" /\ k.sigsys
  /\ k' = [k EXCEPT !.pos = "sigsys", !.sigsys = FALSE]
  /\ UNCHANGED <<host, global, t, h>>

SignalStop ==
  /\ k.pos = "user" /\ ~k.sigsys /\ k.sent < MaxSignals
  /\ \E pos \in {"signal", "bare"} : k' = [k EXCEPT !.pos = pos, !.sent = @ + 1]
  /\ UNCHANGED <<host, global, t, h>>

-----------------------------------------------------------------------------
(* event_loop(): handle the stop, then restart_tracee()                    *)

Prepared == [t EXCEPT !.how = DefaultHow(t)]

\* Mutant: restart_how survives the restart.
RestartSticky(r, pos) ==
  /\ t' = [r.t EXCEPT !.last = r.t.how]
  /\ k' = [k EXCEPT !.pos = pos, !.mode = r.t.how, !.call.nr = r.nr, !.queue = r.queue]

\* The tracee resumes at pos in the mode it is restarted in.
Restart(r, pos) ==
  /\ t' = [r.t EXCEPT !.last = r.t.how, !.how = "none"]
  /\ k' = [k EXCEPT !.pos = pos, !.mode = r.t.how, !.call.nr = r.nr, !.queue = r.queue]

Delivered(s) == IF s = NoSignal THEN h.delivered ELSE h.delivered \cup {s}

Resumed == IF k.pos = "sysenter" THEN "gate" ELSE "user"

\* A stop at a syscall taken for its entry, and one taken for its exit.
SysenterStage ==
  /\ k.pos \in {"sysenter", "sysexit"} /\ IsInSysenter(t)
  /\ \E o \in EnterOutcomes(k.call.nr) :
       LET r == HandleSysTrap(Prepared, k.call.nr, o, o) IN
       /\ Restart(r, Resumed)
       /\ h' = [h EXCEPT !.entered = IF t.handled \/ t.chain.live THEN @ ELSE 1 + @,
                         !.delivered = Delivered(r.signal)]
  /\ UNCHANGED <<host, global>>

SysexitStage ==
  /\ k.pos \in {"sysenter", "sysexit"} /\ ~IsInSysenter(t)
  /\ \E o \in ExitOutcomes(h.nr, MaxChain - Len(h.registered)) :
       LET r == HandleSysTrap(Prepared, k.call.nr, o, o)
           translated == ~t.handled /\ t.wa # "FAULTY" IN
       /\ ~translated => o.chain = <<>>
       /\ k.sigsys => ~o.again               \* the result of a refused syscall is not -ENOSYS
       /\ Restart(r, Resumed)
       /\ h' = [h EXCEPT !.exited = IF translated /\ Requested(t) THEN 1 + @ ELSE @,
                         !.registered = @ \o o.chain,
                         !.delivered = Delivered(r.signal)]
  /\ UNCHANGED <<host, global>>

\* The first event ever received tells the order the kernel reports them in.
SeccompEvent ==
  /\ k.pos = "seccomp"
  /\ LET first == ~global.detected
         after == IF first THEN ~IsInSysenter(t) ELSE global.afterEnter
         tr    == IF first THEN [Prepared EXCEPT !.seccomp = "ENABLED"] ELSE Prepared IN
     /\ global' = [detected |-> TRUE, afterEnter |-> after]
     /\ \E o \in EnterOutcomes(k.call.nr) :
          LET r == HandleSeccompEvent(tr, after, k.call.nr, o)
              translated == /\ IsInSysenter(t) /\ ~t.chain.live /\ tr.seccomp = "ENABLED"
                            /\ after \/ ~(k.call.nr \in ExitFlag \/ SysexitNecessary(t)) IN
          /\ Restart(r, "gate")
          /\ h' = [h EXCEPT !.entered = IF translated THEN 1 + @ ELSE @]
  /\ UNCHANGED host

SigSysEvent ==
  /\ k.pos = "sigsys"
  /\ \E restarts \in BOOLEAN, o \in ExitOutcomes(h.nr, MaxChain - Len(h.registered)) :
       LET r == HandleSigSys(Prepared, k.call.nr, o, restarts) IN
       /\ (IsInSysenter(t) \/ t.wa = "FAULTY") => o.chain = <<>>
       /\ ~o.again
       /\ Restart(r, "user")
       /\ h' = [h EXCEPT !.exited = IF ~IsInSysenter(t) /\ Requested(t) THEN 1 + @ ELSE @,
                         !.registered = @ \o o.chain]
  /\ UNCHANGED <<host, global>>

SignalEvent ==
  /\ k.pos = "signal"
  /\ LET r == HandleSignal(Prepared, k.sent) IN
     /\ Restart(r, "user")
     /\ h' = [h EXCEPT !.delivered = Delivered(r.signal)]
  /\ UNCHANGED <<host, global>>

BareSignalEvent ==
  /\ k.pos = "bare"
  /\ LET r == HandleBareSignal(Prepared, k.sent) IN
     /\ Restart(r, "user")
     /\ h' = [h EXCEPT !.delivered = Delivered(r.signal)]
  /\ UNCHANGED <<host, global>>

ExecEvent ==
  /\ k.pos = "exec" /\ Restart(HandleExecEvent(Prepared), "leaving")
  /\ UNCHANGED <<host, global, h>>

ForkEvent ==
  /\ k.pos = "fork" /\ Restart(HandleForkEvent(Prepared), "leaving")
  /\ UNCHANGED <<host, global, h>>

-----------------------------------------------------------------------------
(* The specification                                                       *)

Init ==
  /\ host \in Hosts
  /\ global = [detected |-> FALSE, afterEnter |-> host.new /\ host.policy]   \* getenv("PROOT_ASSUME_NEW_SECCOMP")
  /\ t = [status |-> 0, seccomp |-> "DISABLED", pending |-> FALSE, how |-> "none",
          last |-> "SYSCALL", handled |-> FALSE, skip |-> FALSE, restore |-> FALSE,
          suppressed |-> NoSignal, chain |-> NoChain, wa |-> "INACTIVE"]
  /\ k = [pos |-> "gate", mode |-> "SYSCALL", gates |-> Gates,
          call |-> Call("program", Launch), queue |-> NoCall, sigsys |-> FALSE, sent |-> 0]
  /\ h = [nr |-> Launch, entered |-> 0, exited |-> 0, registered |-> <<>>, ran |-> <<>>,
          delivered |-> {}]

Kernel == QueuedCall \/ EntryGate \/ FilterGate \/ Execute \/ ExitGate \/ SigSysStop
Tracer == \/ SysenterStage \/ SysexitStage \/ SeccompEvent \/ SigSysEvent
          \/ SignalEvent \/ BareSignalEvent \/ ExecEvent \/ ForkEvent

Next == Kernel \/ Tracer \/ SignalStop \/ \E nr \in Syscalls : ProgramCall(nr)

Spec == Init /\ [][Next]_vars
FairSpec == Spec /\ WF_vars(Kernel) /\ WF_vars(Tracer)

-----------------------------------------------------------------------------
(* Properties                                                              *)

\* The values of tracee->chain.
Queues == [live : BOOLEAN, calls : Seq(Numbers)]

\* The fields of a tracee whose restart_how is one of hows.
Tracees(hows) ==
  [status : {-1, 0, 1}, seccomp : {"DISABLED", "DISABLING", "ENABLED"},
   pending : BOOLEAN, how : hows, last : {"CONT", "SYSCALL"},
   handled : BOOLEAN, skip : BOOLEAN, restore : BOOLEAN, suppressed : {NoSignal} \cup Signals,
   chain : Queues, wa : {"INACTIVE", "FAULTY", "REPLACED"}]

Calls == [src : {"none", "program", "chain", "replaced", "restart"}, nr : Numbers]

Stops == {"sysenter", "sysexit", "seccomp", "sigsys", "signal", "bare", "exec", "fork"}

Kernels ==
  [pos : {"user", "gate", "leaving"} \cup Stops, mode : {"CONT", "SYSCALL"},
   gates : Seq({"sysenter", "seccomp", "recheck"}), call : Calls, queue : Calls,
   sigsys : BOOLEAN, sent : 0 .. MaxSignals]

Histories ==
  [nr : Numbers, entered : Nat, exited : Nat, registered : Seq(Numbers),
   ran : Seq(Numbers), delivered : SUBSET Signals]

\* Between two stops restart_how is unset, and every number comes from the
\* program, from a chain or from a restart.
TypeOK ==
  /\ host \in Hosts
  /\ global \in [detected : BOOLEAN, afterEnter : BOOLEAN]
  /\ t \in Tracees({"none"})
  /\ k \in Kernels
  /\ h \in Histories

\* No filtered syscall the program asked for reaches the kernel before
\* translate_syscall_enter() has run on it, and none is translated twice: the
\* program never acts on a path outside of its root (tracee/event.c:484-621).
Confined ==
  (k.pos = "gate" /\ k.gates = <<>> /\ k.call.nr \in Filtered /\ k.call.src \in {"program", "restart"})
    => h.entered = 1

\* "These new syscalls will be triggered in order once the current syscall is
\* done" (syscall/chain.c:80-82): no chain is left behind in a running program.
ChainTriggered ==
  (k.pos = "user" /\ ~k.sigsys /\ k.queue = NoCall) => ~t.chain.live

\* When the tracee runs its own code, tracee->status says that the next stop
\* is an entry (tracee.h:139-147), and neither a chain nor the restart of a
\* refused syscall is left behind, which would suppress its signals.
InStep ==
  /\ (k.pos = "user" /\ ~k.sigsys) => IsInSysenter(t)
  /\ (k.pos = "user" /\ ~k.sigsys /\ k.queue = NoCall) => ~t.restore
  /\ ChainTriggered

\* The exit of a syscall whose translation needs it is always handled once.
ExitHandled ==
  (k.pos = "user" /\ ~k.sigsys /\ k.queue = NoCall /\ h.nr \in ExitFlag /\ h.entered = 1)
    => h.exited = 1

\* Once its acceleration is disabled, a tracee is followed with PTRACE_SYSCALL:
\* its next filtered syscall would otherwise reach the kernel untranslated
\* (tracee/event.c:532 and 612, "This syscall has disabled seccomp").
FollowedOnceDisabled ==
  (k.pos = "user" /\ ~k.sigsys /\ t.seccomp # "ENABLED") => k.mode = "SYSCALL"

\* Chained syscalls are executed once each, in the order they were registered
\* (syscall/chain.c:79-85, "triggered in order").  What waits behind a call made to
\* fail is its replacement, which no handler has registered.
Fifo ==
  h.registered = h.ran
       \o (IF k.queue.src = "chain" THEN <<k.queue.nr>> ELSE <<>>)
       \o (IF k.call.src = "chain" /\ k.pos \in {"gate", "sysenter", "seccomp"} THEN <<k.call.nr>> ELSE <<>>)
       \o (IF t.wa = "FAULTY" THEN <<>> ELSE t.chain.calls)

\* The assertions of handle_tracee_event() (tracee/event.c:526, 527, 576, 580).
AssertionsHold ==
  /\ k.pos = "seccomp" /\ global.detected =>
       IF global.afterEnter /\ ~IsInSysenter(t) THEN t.last # "CONT" ELSE IsInSysenter(t)
  /\ k.pos \in {"sysenter", "sysexit"} /\ t.handled /\ t.seccomp # "DISABLING" =>
       ~IsInSysenter(t) /\ ~global.afterEnter

\* The tracer has moved the instruction pointer back only for a chained syscall
\* or for the restart of a refused one, and remembers it until it is executed
\* (syscall/chain.c:103-153, tracee/seccomp.c:30-54): the default case of
\* handle_tracee_event() tells from it that a signal has to wait.
QueueAnnounced == k.queue # NoCall => t.chain.live \/ t.restore

\* No signal of the default case reaches the program inside of a chain, where its handler
\* would run with the registers of a syscall the program never made, be it at its own stop or
\* when it is redelivered.  This is not so of a bare SIGTRAP, SIGSTOP or SIGSYS.
NoSignalInsideChain ==
  [][h'.delivered # h.delivered /\ k.pos # "bare"
       => k'.queue = NoCall /\ ~t'.chain.live /\ ~t'.restore]_vars

\* "Redeliver signal suppressed during syscall chain once it's finished"
\* (tracee/event.c:516): every signal is delivered, pending or to be redelivered.
NoSignalLost ==
  \A s \in 1 .. k.sent :
    s \in h.delivered \/ s = t.suppressed \/ (k.pos \in {"signal", "bare"} /\ s = k.sent)

\* A syscall the program has made ends, and a suppressed signal is redelivered.
SyscallsEnd == (k.pos = "gate") ~> (k.pos = "user" /\ k.queue = NoCall)
Redelivery == (t.suppressed # NoSignal) ~> (t.suppressed = NoSignal)

\* The entry and the exit of a syscall that PRoot has to translate are each handled, and once, whatever combination
\* of acceleration, order of the stops, chains and refusals lies in between.
HandledOnce == Confined /\ ExitHandled

\* Entries and exits are never taken for one another, and chained syscalls run in order between them.
ChainsInStep == InStep /\ Fifo

\* What handle_tracee_event() asserts of the stop before holds, and a tracee is followed as it was decided.
FollowedAsDecided == AssertionsHold /\ FollowedOnceDisabled

=============================================================================
