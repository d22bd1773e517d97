----------------------------- MODULE SysVWait ------------------------------
(* How the System V IPC extension makes a tracee wait                        *)
(* (extension/sysvipc/sysvipc.c): the refused or trapped syscall is replaced *)
(* by a ppoll(2) without end, or with the time limit of the call, which a    *)
(* SIGSTOP of PRoot ends.  The handlers of the calls themselves are in the   *)
(* modules that extend this one; what a tracee waits for is opaque here.     *)
EXTENDS Integers, Sequences, SequencesExt

CONSTANTS
  Procs,       \* the tracees of the session
  Order,       \* the list of tracees, the newest first, those to be freed included
  Mortal,      \* the tracees that may be killed
  Paths        \* per tracee, how PRoot sees its calls: at the entry, from the SIGSYS of a policy

ASSUME WaitAssumption ==
  /\ Order \in Seq(Procs) /\ Range(Order) = Procs /\ IsInjective(Order)
  /\ Paths \in [Procs -> SUBSET {"sysenter", "sigsys"}]

VARIABLES
  cf,          \* per tracee, struct SysVIpcConfig and tracee->sigstop
  ke,          \* per tracee, what the kernel knows of it
  crashed      \* an assertion has failed

waitVars == <<cf, ke, crashed>>

NoCall == [f |-> "none"]
NoArg  == <<>>

\* The result of a call is its status; a program that has made none has no result.
NoResult == "none"

NewConfig == [reason |-> "NOT_WAITING", state |-> "NOT_WAITING", status |-> NoResult,
              obj |-> 0, arg |-> NoArg, retry |-> FALSE, sigstop |-> "ALLOWED"]
NewProcess == [pos |-> "user", call |-> NoCall, ret |-> NoResult, sigstop |-> FALSE]

\* The state after a step for each element of a sequence in turn (a FoldLeft, as a
\* function of how many there were, which proofs can unfold).
Steps(one(_, _), s, seq) ==
  LET after[n \in 0 .. Len(seq)] == IF n = 0 THEN s ELSE one(after[n - 1], seq[n])
  IN after[Len(seq)]

\* What a handler reads and writes of the tracees.
Tracees == [cf |-> cf, ke |-> ke, crashed |-> crashed]

Failed(s) == [s EXCEPT !.crashed = TRUE]

\* Mutant: no SIGSTOP.
WakeTraceeSilently(s, q, status) ==
  [s EXCEPT !.cf[q].reason = "NOT_WAITING", !.cf[q].status = status,
            !.cf[q].state = IF @ = "ENTERED_PPOLL" THEN "SIGNALED_PPOLL"
                            ELSE "RESTARTED_INTO_PPOLL_CANCELED"]

\* sysvipc_wake_tracee(): a tracee in its ppoll is signalled, one that has not
\* called it yet will not call it.
WakeTracee(s, q, status) ==
  LET woken(state) == [s EXCEPT !.cf[q].reason = "NOT_WAITING", !.cf[q].status = status,
                                !.cf[q].state = state]
  IN CASE s.cf[q].reason # "NOT_WAITING" /\ s.cf[q].state = "ENTERED_PPOLL" ->
            [woken("SIGNALED_PPOLL") EXCEPT !.cf[q].sigstop = "IGNORED",
                                            !.ke[q].sigstop = s.ke[q].pos # "dead"]
       [] s.cf[q].reason # "NOT_WAITING" /\ s.cf[q].state = "RESTARTED_INTO_PPOLL" ->
            woken("RESTARTED_INTO_PPOLL_CANCELED")
       [] OTHER -> Failed(s)

\* The end of sysvipc_syscall_common(): the tracee waits, or gets its status, from
\* the SIGSYS at once and from the entry of its call at the exit of a getpid(2).
SyscallCommon(s, p, status) ==
  LET sigsys  == ke[p].pos = "sigsys"
      over(k) == [k EXCEPT !.call = NoCall]
  IN IF s.cf[p].reason # "NOT_WAITING"
     THEN [s EXCEPT !.cf[p].state = IF sigsys THEN "RESTARTED_INTO_PPOLL" ELSE "ENTERED_PPOLL",
                    !.ke[p].pos = IF sigsys THEN "again" ELSE "ppoll"]
     ELSE IF sigsys
     THEN [s EXCEPT !.ke[p] = [over(@) EXCEPT !.ret = status, !.pos = "user"]]
     ELSE [s EXCEPT !.cf[p].status = status, !.cf[p].state = "ENTERED_GETPID",
                    !.ke[p] = [over(@) EXCEPT !.pos = "sysexit"]]

\* A stop at a call; a call is handled as a new one when the tracee does not wait.
Handling(p) == ke[p].pos \in {"sysenter", "sigsys"} /\ ~crashed
Fresh(p)    == Handling(p) /\ cf[p].state = "NOT_WAITING"

Become(s) == cf' = s.cf /\ ke' = s.ke /\ crashed' = s.crashed

\* The call is over; what is read only while a tracee waits is forgotten.
Over(c) == [c EXCEPT !.state = "NOT_WAITING", !.status = NoResult, !.obj = 0, !.arg = NoArg]

\* SYSCALL_ENTER_START of a tracee that waits, SIGSYS_OCC of such a tracee.
EnterStage(s, p) ==
  CASE s.ke[p].pos = "sysenter" /\ s.cf[p].state = "RESTARTED_INTO_PPOLL" ->
         [s EXCEPT !.cf[p].state = "ENTERED_PPOLL", !.ke[p].pos = "ppoll"]
    [] s.ke[p].pos = "sysenter" /\ s.cf[p].state = "RESTARTED_INTO_PPOLL_CANCELED" ->
         [s EXCEPT !.cf[p] = Over(@), !.ke[p].pos = "sysexit", !.ke[p].ret = s.cf[p].status]
    [] OTHER -> Failed(s)

\* A tracee woken to try its call again (chain_state) is left to the module of that call.
SyscallEnterStart(p) ==
  /\ Handling(p) /\ cf[p].state # "NOT_WAITING" /\ ~cf[p].retry
  /\ Become(EnterStage(Tracees, p))

\* SYSCALL_EXIT_START: the ppoll has ended by itself, or it was ended.
ExitStage(s, p) ==
  LET c == s.cf[p]
      over == [s EXCEPT !.ke[p].pos = "user", !.ke[p].call = NoCall,
                        !.cf[p] = Over(@)]
  IN CASE c.state = "NOT_WAITING" -> over
       [] c.state = "ENTERED_PPOLL" /\ c.reason # "NOT_WAITING" ->
            [over EXCEPT !.cf[p].reason = "NOT_WAITING", !.ke[p].ret = "EINTR"]
       [] c.state \in {"SIGNALED_PPOLL", "ENTERED_GETPID"} /\ c.reason = "NOT_WAITING" ->
            [over EXCEPT !.ke[p].ret = c.status]
       [] OTHER -> Failed(s)

SyscallExitStart(p) ==
  /\ ke[p].pos = "sysexit" /\ ~crashed /\ ~cf[p].retry
  /\ Become(ExitStage(Tracees, p))

\* SIGSTOP in handle_tracee_event(): PRoot's own is ignored, another one would
\* stop the program.
HandleSigstop(p) ==
  /\ ke[p].pos = "sigstop" /\ ~crashed
  /\ cf' = [cf EXCEPT ![p].sigstop = "ALLOWED"]
  /\ ke' = [ke EXCEPT ![p].pos = IF cf[p].sigstop = "IGNORED" THEN "user" ELSE "stopped"]
  /\ UNCHANGED crashed

\* The entry of a tracee that has died is freed: it waits for nothing any more, and a
\* loop over the list that finds it passes it over.
FreeTracee(p) ==
  /\ ke[p].pos = "dead" /\ ~crashed
  /\ cf' = [cf EXCEPT ![p] = NewConfig]
  /\ ke' = [ke EXCEPT ![p] = [NewProcess EXCEPT !.pos = "gone"]]
  /\ UNCHANGED crashed

-----------------------------------------------------------------------------
(* The kernel                                                              *)

Moves(p, k) == ke' = [ke EXCEPT ![p] = k] /\ UNCHANGED <<cf, crashed>>

\* The program makes a call PRoot emulates.
Call(p, c) ==
  /\ ke[p].pos = "user" /\ ~ke[p].sigstop
  /\ \E path \in Paths[p] : Moves(p, [ke[p] EXCEPT !.pos = path, !.call = c, !.ret = NoResult])

\* The call restarted from a SIGSYS is made: signals wait until it is over.
MakeAgain(p) == ke[p].pos = "again" /\ Moves(p, [ke[p] EXCEPT !.pos = "sysenter"])

\* A signal that is pending ends a ppoll.
Leave(p) ==
  /\ ke[p].pos = "ppoll" /\ ke[p].sigstop
  /\ Moves(p, [ke[p] EXCEPT !.pos = "sysexit"])

\* A signal of somebody else ends a ppoll, and so does its time limit.
Interrupt(p) == ke[p].pos = "ppoll" /\ Moves(p, [ke[p] EXCEPT !.pos = "sysexit"])

\* A pending signal is taken before the program runs on.
TakeSigstop(p) ==
  /\ ke[p].pos = "user" /\ ke[p].sigstop
  /\ Moves(p, [ke[p] EXCEPT !.pos = "sigstop", !.sigstop = FALSE])

Kill(p) ==
  /\ p \in Mortal /\ ke[p].pos \notin {"dead", "gone"}
  /\ Moves(p, [ke[p] EXCEPT !.pos = "dead", !.sigstop = FALSE])

-----------------------------------------------------------------------------

WaitInit ==
  /\ cf = [p \in Procs |-> NewConfig]
  /\ ke = [p \in Procs |-> NewProcess]
  /\ crashed = FALSE

\* What PRoot and the kernel do in any case, and what they may do.
WaitSteps(p) ==
  \/ SyscallEnterStart(p) \/ SyscallExitStart(p) \/ HandleSigstop(p) \/ FreeTracee(p)
  \/ MakeAgain(p) \/ Leave(p) \/ TakeSigstop(p)

WaitNext(p) == WaitSteps(p) \/ Interrupt(p) \/ Kill(p)

=============================================================================
