------------------------------ MODULE SysVSem ------------------------------
(* System V semaphores, emulated by PRoot for the tracees of a session       *)
(* (extension/sysvipc/sysvipc_sem.c), over the wait mechanism of SysVWait.   *)
(* GETVAL, GETALL and the INFO commands change nothing and are left out, as  *)
(* are the errors in reading the arguments of a call.                        *)
EXTENDS SysVWait

CONSTANTS
  Programs,    \* the calls each tracee makes
  MaxVal,      \* SYSVIPC_MAX_SEMVAL
  MaxSems,     \* SYSVIPC_MAX_SEMS
  MaxNsems,    \* SYSVIPC_MAX_NSEMS
  HalfGen      \* half of the values of a generation, 2^15

ASSUME SemAssumption ==
  /\ MaxVal \in Nat /\ MaxSems \in Nat /\ MaxNsems \in Nat /\ HalfGen \in Nat \ {0}
  /\ \A p \in Procs : \A c \in Programs[p] :
       /\ c.f \in {"semget", "semop", "setval", "rmid"}
       /\ c.f = "semget" => c.nsems \in Int
       /\ c.f = "semop" => c.sops \in Seq([num : Int, op : Int, nowait : BOOLEAN])
       /\ c.f = "setval" => c.val \in Nat

VARIABLE sems  \* ipc_namespace->semaphores

vars == <<waitVars, sems>>

\* An identifier holds the index and, without its sign, the generation.
Modulus == 2 * HalfGen
IpcObjectId(i, gen) == [slot |-> i, gen |-> gen % Modulus]

\* LOOKUP_IPC_OBJECT: the generation is compared with its sign.
Lookup(id) == id.slot \in DOMAIN sems /\ sems[id.slot].valid /\ sems[id.slot].gen = id.gen

\* generation++ of an int16_t.
NextGen(gen) == IF gen = HalfGen - 1 THEN -HalfGen ELSE gen + 1

-----------------------------------------------------------------------------
(* sysvipc_sem_check(): all of the operations of a call, or none            *)

Wait == "wait"

\* Mutant: the operations that come before the one that fails are done.
SemCheckPartly(vals, sops) ==
  LET one(acc, o) ==
        LET value == acc.vals[o.num] + o.op
        IN IF acc.status # "OK" THEN acc
           ELSE IF value < 0 \/ (o.op = 0 /\ value # 0)
           THEN [acc EXCEPT !.status = IF o.nowait THEN "EAGAIN" ELSE Wait]
           ELSE IF value > MaxVal THEN [acc EXCEPT !.status = "ERANGE"]
           ELSE [acc EXCEPT !.vals[o.num] = value]
  IN Steps(one, [status |-> "OK", vals |-> vals], sops)

\* The next operation, if those before it can be done.
CheckOp(acc, o) ==
  LET blocked == IF o.nowait THEN "EAGAIN" ELSE Wait
      value   == acc.vals[o.num] + o.op
  IN CASE acc.status # "OK" -> acc
       [] acc.status = "OK" /\ o.op = 0 ->
            IF acc.vals[o.num] = 0 THEN acc ELSE [acc EXCEPT !.status = blocked]
       [] acc.status = "OK" /\ o.op # 0 ->
            IF value < 0 THEN [acc EXCEPT !.status = blocked]
            ELSE IF value > MaxVal THEN [acc EXCEPT !.status = "ERANGE"]
            ELSE [acc EXCEPT !.vals[o.num] = value]

SemCheck(vals, sops) ==
  LET end == Steps(CheckOp, [status |-> "OK", vals |-> vals], sops)
  IN IF end.status = "OK" THEN end ELSE [end EXCEPT !.vals = vals]

-----------------------------------------------------------------------------
(* The handlers; s holds what a handler changes                            *)

State == [cf |-> cf, ke |-> ke, crashed |-> crashed, sems |-> sems]

Update(s) == Become(s) /\ sems' = s.sems

\* The tracee p has its status, or waits.
Finish(s, p, status) == Update(SyscallCommon(s, p, status))

WaitsFor(s, q, i) == s.cf[q].reason = "SEMOP" /\ s.cf[q].obj = i

\* Mutant: the tracees that wait are not looked at.
CheckOthersNever(s, p, i) == s

\* Every other tracee that waits for the set is checked once, in the order of the list.
CheckOne(s, p, i, q) ==
  LET check == SemCheck(s.sems[i].vals, s.cf[q].arg) IN
  IF q = p \/ ~WaitsFor(s, q, i) \/ check.status = Wait THEN s
  ELSE WakeTracee([s EXCEPT !.sems[i].vals = check.vals, !.cf[q].obj = 0, !.cf[q].arg = NoArg],
                  q, check.status)

CheckOthers(s, p, i) == Steps(LAMBDA acc, q : CheckOne(acc, p, i, q), s, Order)

Semop(p, c) ==
  LET i == c.id.slot IN
  CASE ~Lookup(c.id) -> Finish(State, p, "EINVAL")
    [] Lookup(c.id) /\ (\E o \in Range(c.sops) : o.num \notin DOMAIN sems[i].vals) ->
         Finish(State, p, "EFBIG")
    [] OTHER ->
         LET check  == SemCheck(sems[i].vals, c.sops)
             asking == [State EXCEPT !.cf[p].reason = "SEMOP", !.cf[p].obj = i,
                                     !.cf[p].arg = c.sops, !.sems[i].vals = check.vals]
             others == CheckOthers(asking, p, i)
         IN IF check.status = Wait THEN Finish(others, p, NoResult)
            ELSE Finish([others EXCEPT !.cf[p].reason = "NOT_WAITING", !.cf[p].obj = 0,
                                         !.cf[p].arg = NoArg],
                        p, check.status)

Setval(p, c) ==
  IF ~Lookup(c.id) THEN Finish(State, p, "EINVAL")
  ELSE IF c.val > MaxVal THEN Finish(State, p, "ERANGE")
  ELSE IF c.num \notin DOMAIN sems[c.id.slot].vals THEN Finish(State, p, "EINVAL")
  ELSE Finish([State EXCEPT !.sems[c.id.slot].vals[c.num] = c.val], p, "OK")

\* The waiters of a set that goes away are woken.
WakeOne(s, i, q) == IF WaitsFor(s, q, i) THEN WakeTracee(s, q, "EIDRM") ELSE s

WakeAll(s, i) == Steps(LAMBDA acc, q : WakeOne(acc, i, q), s, Order)

Rmid(p, c) ==
  LET i == c.id.slot IN
  IF ~Lookup(c.id) THEN Finish(State, p, "EINVAL")
  ELSE Finish([WakeAll(State, i) EXCEPT !.sems[i].valid = FALSE, !.sems[i].vals = <<>>,
                                        !.sems[i].gen = NextGen(@)], p, "OK")

\* A key names one set; a new one takes the first slot that is free.  The program
\* gets the identifier, which is not kept here: programs know those they use.
Semget(p, c) ==
  LET found  == {i \in DOMAIN sems : sems[i].valid /\ c.key # "private" /\ sems[i].key = c.key}
      unused == {i \in DOMAIN sems : ~sems[i].valid}
      slot   == IF unused = {} THEN Len(sems) + 1 ELSE CHOOSE i \in unused : \A j \in unused : i <= j
      gen    == IF unused = {} THEN 0 ELSE sems[slot].gen
      new    == [key |-> c.key, gen |-> gen, valid |-> TRUE, vals |-> [n \in 1 .. c.nsems |-> 0]]
      fail(status) == Finish(State, p, status)
      first  == CHOOSE i \in found : \A j \in found : i <= j
  IN IF c.nsems \notin 1 .. MaxNsems THEN fail("EINVAL")
     ELSE IF found # {}
     THEN IF c.excl THEN fail("EEXIST")
          ELSE IF Len(sems[first].vals) < c.nsems THEN fail("EINVAL")
          ELSE Finish(State, p, "OK")
     ELSE IF ~c.creat THEN fail("ENOENT")
     ELSE IF unused = {} /\ Len(sems) >= MaxSems THEN fail("ENOSPC")
     ELSE Finish([State EXCEPT !.sems = IF unused = {} THEN Append(@, new)
                                        ELSE [@ EXCEPT ![slot] = new]], p, "OK")

\* sysvipc_syscall_common(), from the entry of a call or from its SIGSYS.
HandleCall(p) ==
  /\ Fresh(p)
  /\ LET c == ke[p].call IN
     \/ c.f = "semop" /\ Semop(p, c)
     \/ c.f = "setval" /\ Setval(p, c)
     \/ c.f = "rmid" /\ Rmid(p, c)
     \/ c.f = "semget" /\ Semget(p, c)

-----------------------------------------------------------------------------
(* The specification                                                       *)

Init == WaitInit /\ sems = <<>>

Timed(p) == ke[p].call.f = "semop" /\ ke[p].call.timed

Next ==
  \E p \in Procs :
    \/ HandleCall(p)
    \/ WaitNext(p) /\ UNCHANGED sems
    \/ (\E c \in Programs[p] : Call(p, c)) /\ UNCHANGED sems

Spec == Init /\ [][Next]_vars

\* PRoot handles the stops of a tracee that waits, the kernel goes on with it, and a
\* time limit expires.  Nothing is assumed of the calls that are not handled yet.
Progress(p) == (WaitSteps(p) \/ (Timed(p) /\ Interrupt(p))) /\ UNCHANGED sems

FairSpec == Spec /\ \A p \in Procs : WF_vars(Progress(p))

-----------------------------------------------------------------------------
(* Properties                                                              *)

TypeOK ==
  /\ \A i \in DOMAIN sems :
       /\ sems[i].valid \in BOOLEAN
       /\ sems[i].gen \in -HalfGen .. HalfGen - 1
       /\ sems[i].vals \in Seq(0 .. MaxVal)
  /\ \A p \in Procs :
       /\ cf[p].reason \in {"NOT_WAITING", "SEMOP"}
       /\ cf[p].state \in {"NOT_WAITING", "RESTARTED_INTO_PPOLL", "RESTARTED_INTO_PPOLL_CANCELED",
                           "ENTERED_PPOLL", "SIGNALED_PPOLL", "ENTERED_GETPID"}
       /\ cf[p].sigstop \in {"IGNORED", "ALLOWED"}
       /\ ke[p].pos \in {"user", "sysenter", "sigsys", "again", "ppoll", "sysexit",
                         "sigstop", "stopped", "dead", "gone"}
       /\ ke[p].sigstop \in BOOLEAN

\* No assertion of the wait mechanism fails: nobody is woken who does not wait, no
\* call is handled while another one of the tracee is still waiting
\* (extension/sysvipc/sysvipc.c:40, 234, 261, 268, 277, 287, 353, 363).
AssertionsHold == ~crashed

\* The SIGSTOP that ends a wait is never seen by the program, and a tracee whose wait
\* was ended has it pending until it leaves its ppoll (sysvipc.c:354-360).
WakeupsTaken ==
  \A p \in Procs :
    /\ ke[p].pos # "stopped"
    /\ ke[p].sigstop \/ ke[p].pos = "sigstop" => cf[p].sigstop = "IGNORED"
    /\ cf[p].state = "SIGNALED_PPOLL" /\ ke[p].pos = "ppoll" => ke[p].sigstop

\* "Returns 1 if tracee should still wait" (sysvipc_sem.c:77): a tracee that waits
\* is one whose operations cannot be done.
NobodyFeasible ==
  \A p \in Procs : cf[p].reason = "SEMOP" /\ sems[cf[p].obj].valid =>
    SemCheck(sems[cf[p].obj].vals, cf[p].arg).status = Wait

\* A tracee that waits, waits for a set that exists, with operations on its semaphores
\* (sysvipc_sem.c:162-172 uses them without a check).
WaitersHaveSets ==
  \A p \in Procs : cf[p].reason = "SEMOP" =>
    /\ cf[p].obj \in DOMAIN sems /\ sems[cf[p].obj].valid
    /\ cf[p].arg # NoArg /\ \A o \in Range(cf[p].arg) : o.num \in DOMAIN sems[cf[p].obj].vals

\* Who waits, waits for something that is not there yet, in a set that exists; who was woken leaves, and its call is
\* not confused with another one.
WaitsAreSound == TypeOK /\ AssertionsHold /\ WakeupsTaken /\ WaitersHaveSets /\ NobodyFeasible

\* A tracee whose wait is over, or that waits with a time limit, gets its result: the
\* wake-up that comes before, in or after the ppoll is never lost.
WaitsEnd ==
  \A p \in Procs :
    (\/ cf[p].state \in {"SIGNALED_PPOLL", "RESTARTED_INTO_PPOLL_CANCELED", "ENTERED_GETPID"}
     \/ cf[p].reason # "NOT_WAITING" /\ Timed(p))
      ~> (ke[p].pos \in {"user", "gone"})

-----------------------------------------------------------------------------
(* When one look at those who wait is enough (see SemaphoreLeft)           *)

\* A call that takes lowers values, and waits until it can; one that gives never
\* waits.  A call that does both may make another one possible that has been looked at.
Takes(sops) == \A o \in Range(sops) : o.op < 0 /\ ~o.nowait
Gives(sops) == \A o \in Range(sops) : o.op > 0 \/ o.nowait

TakesOrGives == \A p \in Procs : \A c \in Programs[p] : c.f = "semop" => Takes(c.sops) \/ Gives(c.sops)

\* No SETVAL raises a value of a set that somebody waits for.
Lowers ==
  \A p, q \in Procs :
    LET c == ke[p].call IN
    /\ Fresh(p) /\ c.f = "setval" /\ Lookup(c.id)
    /\ cf[q].reason = "SEMOP" /\ cf[q].obj = c.id.slot /\ c.num \in DOMAIN sems[c.id.slot].vals
    => c.val <= sems[c.id.slot].vals[c.num]

-----------------------------------------------------------------------------
(* Expectations of the source that the code does not always meet           *)

\* The identifier of a set finds it (extension/sysvipc/sysvipc_internal.h:203-221):
\* not once the generation is negative.
IdentifiersFind ==
  \A i \in DOMAIN sems : sems[i].valid => Lookup(IpcObjectId(i, sems[i].gen))

=============================================================================
