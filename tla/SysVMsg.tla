------------------------------ MODULE SysVMsg -------------------------------
(* System V message queues, emulated by PRoot for the tracees of a session   *)
(* (extension/sysvipc/sysvipc_msg.c), over the wait mechanism of SysVWait.   *)
(* A receiver that waits is not given its message: it is woken to try again, *)
(* and what it was woken for may be gone by then.  Statistics, and the       *)
(* errors in reading or writing the memory of a tracee, are left out.        *)
EXTENDS SysVWait

CONSTANTS
  Programs,    \* the calls each tracee makes
  Messages,    \* the messages that are sent
  Type,        \* the type of a message
  Size,        \* the length of its text
  MaxSize,     \* SYSVIPC_MAX_MSG_SIZE
  MaxItems,    \* bound of the model on the messages a queue holds when one is sent
  HalfGen,     \* half of the values of a generation, 2^15
  IntBits      \* the width of an int, 32

ASSUME MsgAssumption ==
  /\ Type \in [Messages -> Int] /\ Size \in [Messages -> Nat]
  /\ MaxSize \in Nat /\ MaxItems \in Nat /\ HalfGen \in Nat \ {0} /\ IntBits \in Nat \ {0}
  /\ \A p \in Procs : \A c \in Programs[p] :
       /\ c.f \in {"msgget", "msgsnd", "msgrcv", "rmid"}
       /\ c.f = "msgsnd" => c.msg \in Messages
       /\ c.f = "msgrcv" => c.max \in Int /\ c.flags \subseteq {"NOWAIT", "NOERROR", "EXCEPT", "COPY"}

VARIABLE queues  \* ipc_namespace->queues

vars == <<waitVars, queues>>

State == [cf |-> cf, ke |-> ke, crashed |-> crashed, queues |-> queues]

Update(s) == Become(s) /\ queues' = s.queues

\* The tracee p has its status, or waits.
Finish(s, p, status) == Update(SyscallCommon(s, p, status))

\* LOOKUP_IPC_OBJECT and generation++ of an int16_t.
Lookup(id) == id.slot \in DOMAIN queues /\ queues[id.slot].valid /\ queues[id.slot].gen = id.gen
NextGen(gen) == IF gen = HalfGen - 1 THEN -HalfGen ELSE gen + 1

-----------------------------------------------------------------------------
(* Receiving                                                               *)

\* The type, a long, is passed as an int.
AsInt(n) == LET half == 2 ^ (IntBits - 1) IN ((n + half) % (2 * half)) - half

\* sysvipc_msg_match(): by type, any type if the filter is 0, up to a type if it is
\* negative, and the opposite with MSG_EXCEPT.
Matches(m, filter, flags) ==
  LET type == AsInt(Type[m])
      matched == filter = 0 \/ type = filter \/ (filter < 0 /\ type <= -filter)
  IN IF "EXCEPT" \in flags THEN ~matched ELSE matched

Accepted(c, m) == Matches(m, c.typ, c.flags)

\* The index in the queue of the message a call gets, 0 if there is none.  MSG_COPY
\* takes its filter as an index.
Found(items, c) ==
  LET all == IF "COPY" \in c.flags THEN {c.typ + 1} \cap DOMAIN items
             ELSE {n \in DOMAIN items : Accepted(c, items[n])}
  IN IF all = {} THEN 0 ELSE CHOOSE n \in all : \A o \in all : n <= o

WrongFlags(c) ==
  c.max < 0 \/ ("COPY" \in c.flags /\ ("NOWAIT" \notin c.flags \/ "EXCEPT" \in c.flags))

\* Mutant: the message is not taken off the queue.
DoMsgrcvKept(s, p, i, c) ==
  LET n == Found(s.queues[i].items, c) IN
  IF n # 0 THEN [s |-> s, status |-> s.queues[i].items[n]]
  ELSE IF "NOWAIT" \in c.flags THEN [s |-> s, status |-> "ENOMSG"]
  ELSE [s |-> [s EXCEPT !.cf[p].reason = "QUEUE_RECV", !.cf[p].obj = i, !.cf[p].arg = c],
        status |-> NoResult]

\* sysvipc_do_msgrcv() and sysvipc_msg_deliver(); the status is the message received.
DoMsgrcv(s, p, i, c) ==
  LET items == s.queues[i].items
      n     == Found(items, c)
  IN CASE WrongFlags(c) -> [s |-> s, status |-> "EINVAL"]
       [] ~WrongFlags(c) /\ n = 0 ->
            IF "NOWAIT" \in c.flags THEN [s |-> s, status |-> "ENOMSG"]
            ELSE [s |-> [s EXCEPT !.cf[p].reason = "QUEUE_RECV", !.cf[p].obj = i,
                                  !.cf[p].arg = c],
                  status |-> NoResult]
       [] OTHER ->
            IF Size[items[n]] > c.max /\ "NOERROR" \notin c.flags
            THEN [s |-> s, status |-> "E2BIG"]
            ELSE [s |-> IF "COPY" \in c.flags THEN s
                        ELSE [s EXCEPT !.queues[i].items = RemoveAt(@, n)],
                  status |-> items[n]]

Msgrcv(p, c) ==
  IF ~Lookup(c.id) THEN Finish(State, p, "EINVAL")
  ELSE LET r == DoMsgrcv(State, p, c.id.slot, c)
       IN Finish(r.s, p, r.status)

\* sysvipc_msgrcv_retry(): the receiver was woken for a message, or for nothing.
MsgrcvRetry(s, p) ==
  LET i == s.cf[p].obj
      r == DoMsgrcv(s, p, i, s.cf[p].arg)
      waits == r.s.cf[p].reason # "NOT_WAITING"
  IN IF s.cf[p].status # "EAGAIN" THEN [s EXCEPT !.cf[p].retry = FALSE]
     ELSE IF ~(i \in DOMAIN s.queues /\ s.queues[i].valid) THEN Failed(s)       \* assert()
     ELSE [r.s EXCEPT !.cf[p].retry = FALSE, !.cf[p].reason = "NOT_WAITING",
                      !.cf[p].status = IF waits THEN "EINTR" ELSE r.status]

\* The two stages at which a tracee woken to try again does so.
RetryAtEnter(p) ==
  /\ Handling(p) /\ cf[p].retry
  /\ LET s == IF ke[p].pos = "sysenter" THEN MsgrcvRetry(State, p) ELSE State
     IN Update(IF s.crashed THEN s ELSE EnterStage(s, p))

RetryAtExit(p) ==
  /\ ke[p].pos = "sysexit" /\ ~crashed /\ cf[p].retry
  /\ LET s == MsgrcvRetry(State, p) IN Update(IF s.crashed THEN s ELSE ExitStage(s, p))

-----------------------------------------------------------------------------
(* Sending, making and removing                                            *)

WaitsFor(s, q, i) == s.cf[q].reason = "QUEUE_RECV" /\ s.cf[q].obj = i

\* It is woken to look again (chain_state).
WakeToRetry(s, q) == WakeTracee([s EXCEPT !.cf[q].retry = TRUE], q, "EAGAIN")

\* Mutant: the first receiver that waits is woken, whatever it accepts.
WakeReceiverAny(s, i, m) ==
  LET n == SelectInSeq(Order, LAMBDA q : WaitsFor(s, q, i))
  IN IF n = 0 THEN s ELSE WakeToRetry(s, Order[n])

\* The first receiver in the list that waits for such a message is woken.
WakeReceiver(s, i, m) ==
  LET n == SelectInSeq(Order, LAMBDA q : WaitsFor(s, q, i) /\ Accepted(s.cf[q].arg, m))
  IN IF n = 0 THEN s ELSE WakeToRetry(s, Order[n])

Msgsnd(p, c) ==
  IF ~Lookup(c.id) \/ Size[c.msg] > MaxSize \/ Type[c.msg] < 1 THEN Finish(State, p, "EINVAL")
  ELSE Finish([WakeReceiver(State, c.id.slot, c.msg) EXCEPT
                 !.queues[c.id.slot].items = Append(@, c.msg)], p, "OK")

\* The receivers of a queue that goes away are woken.
WakeOne(s, i, q) ==
  IF WaitsFor(s, q, i) THEN WakeTracee([s EXCEPT !.cf[q].obj = 0, !.cf[q].arg = NoArg], q, "EIDRM")
  ELSE s

WakeAll(s, i) == Steps(LAMBDA acc, q : WakeOne(acc, i, q), s, Order)

Rmid(p, c) ==
  LET i == c.id.slot IN
  IF ~Lookup(c.id) THEN Finish(State, p, "EINVAL")
  ELSE Finish([WakeAll(State, i) EXCEPT !.queues[i].valid = FALSE, !.queues[i].items = <<>>,
                                        !.queues[i].gen = NextGen(@)], p, "OK")

\* A key names one queue; a new one takes the first slot that is free.
Msgget(p, c) ==
  LET found  == {i \in DOMAIN queues : queues[i].valid /\ c.key # "private" /\ queues[i].key = c.key}
      unused == {i \in DOMAIN queues : ~queues[i].valid}
      slot   == IF unused = {} THEN Len(queues) + 1 ELSE CHOOSE i \in unused : \A j \in unused : i <= j
      new    == [key |-> c.key, gen |-> IF unused = {} THEN 0 ELSE queues[slot].gen,
                 valid |-> TRUE, items |-> <<>>]
  IN IF found # {} THEN Finish(State, p, IF c.creat /\ c.excl THEN "EEXIST" ELSE "OK")
     ELSE IF ~c.creat THEN Finish(State, p, "ENOENT")
     ELSE Finish([State EXCEPT !.queues = IF unused = {} THEN Append(@, new)
                                          ELSE [@ EXCEPT ![slot] = new]], p, "OK")

HandleCall(p) ==
  /\ Fresh(p)
  /\ LET c == ke[p].call IN
     \/ c.f = "msgrcv" /\ Msgrcv(p, c)
     \/ c.f = "msgsnd" /\ Msgsnd(p, c)
     \/ c.f = "rmid" /\ Rmid(p, c)
     \/ c.f = "msgget" /\ Msgget(p, c)

-----------------------------------------------------------------------------
(* The specification                                                       *)

Init == WaitInit /\ queues = <<>>

Bounded(c) ==
  c.f = "msgsnd" /\ Lookup(c.id) => Len(queues[c.id.slot].items) < MaxItems

Next ==
  \E p \in Procs :
    \/ HandleCall(p)
    \/ RetryAtEnter(p) \/ RetryAtExit(p)
    \/ WaitNext(p) /\ UNCHANGED queues
    \/ (\E c \in Programs[p] : Bounded(c) /\ Call(p, c)) /\ UNCHANGED queues

Spec == Init /\ [][Next]_vars

-----------------------------------------------------------------------------
(* Properties                                                              *)

TypeOK ==
  /\ \A i \in DOMAIN queues :
       /\ queues[i].valid \in BOOLEAN /\ queues[i].gen \in -HalfGen .. HalfGen - 1
       /\ queues[i].items \in Seq(Messages)
  /\ \A p \in Procs :
       /\ cf[p].reason \in {"NOT_WAITING", "QUEUE_RECV"} /\ cf[p].retry \in BOOLEAN
       /\ cf[p].reason # "NOT_WAITING" => cf[p].state \in {"RESTARTED_INTO_PPOLL", "ENTERED_PPOLL"}
       /\ cf[p].retry => cf[p].state \in {"RESTARTED_INTO_PPOLL_CANCELED", "SIGNALED_PPOLL"}

\* "Deliver to waiting msgrcv" (sysvipc_msg.c:143): a receiver sleeps beside a message
\* it accepts only while another one was woken for such a message.  It does not hold
\* without the three conditions below.
NobodyOverlooked ==
  \A p \in Procs : cf[p].reason = "QUEUE_RECV" =>
    \A m \in Range(queues[cf[p].obj].items) : Accepted(cf[p].arg, m) =>
      \E q \in Procs : cf[q].retry /\ cf[q].obj = cf[p].obj /\ Accepted(cf[q].arg, m)

\* A receiver that waits, waits for a queue that exists: its removal would be missed
\* otherwise, and a sender to the next queue of the slot would wake it
\* (sysvipc_msg.c:143-164, 285-303).
ReceiversHaveQueues ==
  \A p \in Procs : cf[p].reason = "QUEUE_RECV" =>
    cf[p].obj \in DOMAIN queues /\ queues[cf[p].obj].valid

\* A receiver sleeps in a queue that exists, and beside a message it accepts only while another one was woken for it.
WaitsAreSound == TypeOK /\ ReceiversHaveQueues /\ NobodyOverlooked

-----------------------------------------------------------------------------
(* When one wake-up for each message is enough                             *)

\* A woken receiver lives until it looks again.
Survive == \A p \in Procs : cf[p].retry => ke[p].pos \notin {"dead", "gone"}

\* It has room for what it accepts.
Roomy ==
  \A p \in Procs : cf[p].retry /\ cf[p].obj \in DOMAIN queues =>
    \A m \in Range(queues[cf[p].obj].items) :
      Accepted(cf[p].arg, m) => Size[m] <= cf[p].arg.max \/ "NOERROR" \in cf[p].arg.flags

\* When more than two receivers wait, or were woken, at a queue, those that share a
\* message accept the same ones: otherwise one may take the message another one was
\* woken for, and leave it one that a third one waits for.
Receives(p, i) == (cf[p].reason = "QUEUE_RECV" \/ cf[p].retry) /\ cf[p].obj = i

Same(c, d) == \A m \in Messages : Accepted(c, m) <=> Accepted(d, m)

Alike ==
  \A p, q, r \in Procs :
    LET i == cf[p].obj IN
    /\ p # q /\ p # r /\ q # r /\ Receives(p, i) /\ Receives(q, i) /\ Receives(r, i)
    /\ \E m \in Messages : Accepted(cf[p].arg, m) /\ Accepted(cf[q].arg, m)
    => Same(cf[p].arg, cf[q].arg)

\* No queue is removed between the wake-up of a receiver and its second try.
QueuesStay ==
  \A p \in Procs : cf[p].retry => cf[p].obj \in DOMAIN queues /\ queues[cf[p].obj].valid

-----------------------------------------------------------------------------
(* Expectations of the source that the code does not always meet           *)

\* "assert(queue->valid)" and the other assertions (sysvipc_msg.c:259, sysvipc.c:234-363).
AssertionsHold == ~crashed

=============================================================================
