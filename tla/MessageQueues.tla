--------------------------- MODULE MessageQueues ----------------------------
(* What msgget(2), msgsnd(2), msgrcv(2) and msgctl(2) promise to the         *)
(* programs of a session: a message that was sent is received once, whole or *)
(* not at all, and every receiver gets the oldest one it accepts.            *)
EXTENDS Integers, Sequences, SequencesExt

CONSTANTS Procs, Type, Size

VARIABLES
  queues,      \* the queues, by slot
  pending,     \* per process, the call it has made and that has no result yet
  result       \* per process, the result of its last call

None == [f |-> "none"]

Names(id) == id.slot \in DOMAIN queues /\ queues[id.slot].valid /\ queues[id.slot].gen = id.gen

Here(p) == queues[pending[p].id.slot]

\* The messages p accepts: of one type, of the types up to a bound or of any type;
\* EXCEPT turns the choice around, COPY looks at a place of the queue.
Types(c) ==
  LET chosen == IF c.typ = 0 THEN Range(Type)
                ELSE {n \in Range(Type) : n = c.typ \/ n <= -c.typ}
  IN IF "EXCEPT" \in c.flags THEN Range(Type) \ chosen ELSE chosen

Candidates(p) ==
  {n \in DOMAIN Here(p).items :
     IF "COPY" \in pending[p].flags THEN n = pending[p].typ + 1
     ELSE Type[Here(p).items[n]] \in Types(pending[p])}

Oldest(p) == CHOOSE n \in Candidates(p) : \A o \in Candidates(p) : n <= o

Fits(p, m) == Size[m] <= pending[p].max \/ "NOERROR" \in pending[p].flags

Waits(p) == pending[p].f = "msgrcv" /\ "NOWAIT" \notin pending[p].flags

-----------------------------------------------------------------------------

Init ==
  /\ queues = <<>>
  /\ pending = [p \in Procs |-> None]
  /\ result = [p \in Procs |-> "none"]

Call(p) ==
  /\ pending[p] = None /\ result[p] # "gone"
  /\ pending'[p] # None
  /\ pending' = [pending EXCEPT ![p] = pending'[p]]
  /\ result' = [result EXCEPT ![p] = "none"]
  /\ UNCHANGED queues

Answer(p, r) ==
  /\ pending' = [pending EXCEPT ![p] = None]
  /\ result' = [result EXCEPT ![p] = r]

Send(p) ==
  /\ pending[p].f = "msgsnd" /\ Names(pending[p].id) /\ Type[pending[p].msg] > 0
  /\ queues' = [queues EXCEPT ![pending[p].id.slot].items = Append(@, pending[p].msg)]
  /\ Answer(p, "OK")

\* A message that was looked at stays in the queue.
Receive(p) ==
  /\ pending[p].f = "msgrcv" /\ Names(pending[p].id) /\ Candidates(p) # {}
  /\ Fits(p, Here(p).items[Oldest(p)])
  /\ Answer(p, Here(p).items[Oldest(p)])
  /\ queues' = IF "COPY" \in pending[p].flags THEN queues
               ELSE [queues EXCEPT ![pending[p].id.slot].items = RemoveAt(@, Oldest(p))]

\* A receiver that does not want to wait, or has not enough room, takes nothing.
ReceiveNothing(p) ==
  /\ pending[p].f = "msgrcv" /\ Names(pending[p].id)
  /\ \/ Candidates(p) = {} /\ ~Waits(p) /\ Answer(p, "ENOMSG")
     \/ Candidates(p) # {} /\ ~Fits(p, Here(p).items[Oldest(p)]) /\ Answer(p, "E2BIG")
  /\ UNCHANGED queues

\* A receiver that waits may be interrupted; it then takes nothing.
Interrupt(p) == Waits(p) /\ Names(pending[p].id) /\ Answer(p, "EINTR") /\ UNCHANGED queues

Refuse(p) ==
  /\ pending[p] # None
  /\ Answer(p, result'[p]) /\ result'[p] \in {"EINVAL", "ENOENT", "EEXIST"}
  /\ UNCHANGED queues

\* The removal of a queue ends the calls that wait for it.
RemoveQueue(p) ==
  /\ pending[p].f = "rmid" /\ Names(pending[p].id)
  /\ LET slot == pending[p].id.slot
         over == {q \in Procs : Waits(q) /\ pending[q].id = pending[p].id}
     IN /\ \E early \in SUBSET over :
             /\ pending' = [q \in Procs |-> IF q \in (over \ early) \cup {p} THEN None ELSE pending[q]]
             /\ result' = [q \in Procs |-> IF q = p THEN "OK"
                                           ELSE IF q \in over \ early THEN "EIDRM"
                                           ELSE result[q]]
        /\ queues'[slot].gen # queues[slot].gen
        /\ queues' = [queues EXCEPT ![slot] = [@ EXCEPT !.valid = FALSE, !.gen = queues'[slot].gen,
                                                        !.items = <<>>]]

\* A queue is found by its key, or made empty.
Get(p) ==
  /\ pending[p].f = "msgget" /\ Answer(p, "OK")
  /\ \/ /\ \E slot \in DOMAIN queues : queues[slot].valid /\ queues[slot].key = pending[p].key
        /\ UNCHANGED queues
     \/ /\ \A slot \in DOMAIN queues : queues[slot].valid => queues[slot].key # pending[p].key
        /\ \E slot \in DOMAIN queues' :
             /\ slot \notin DOMAIN queues \/ ~queues[slot].valid
             /\ queues'[slot].valid /\ queues'[slot].items = <<>>
             /\ \A s \in DOMAIN queues' \ {slot} : s \in DOMAIN queues /\ queues'[s] = queues[s]

\* A process that dies gives its call up, and makes no other.
Die(p) == Answer(p, "gone") /\ UNCHANGED queues

Next == \E p \in Procs : \/ Call(p) \/ Send(p) \/ Receive(p) \/ ReceiveNothing(p) \/ Interrupt(p)
                         \/ Refuse(p) \/ RemoveQueue(p) \/ Get(p) \/ Die(p)

Spec == Init /\ [][Next]_<<queues, pending, result>>

=============================================================================
