--------------------------- MODULE SemaphoreSets ---------------------------
(* What semget(2), semop(2) and semctl(2) promise to the programs of a       *)
(* session: the operations of a semop happen at once or not at all, in the   *)
(* order of some sequence of the calls that are waiting; the result of a     *)
(* call says whether they happened.                                          *)
EXTENDS Integers, Sequences, SequencesExt

CONSTANTS Procs, MaxVal, MaxSems

VARIABLES
  sets,        \* the semaphore sets, by slot
  pending,     \* per process, the call it has made and that has no result yet
  result       \* per process, the result of its last call

None == [f |-> "none"]

Names(id) == id.slot \in DOMAIN sets /\ sets[id.slot].valid /\ sets[id.slot].gen = id.gen

\* The values once the first i operations are done.
After(vals, sops, i) ==
  [n \in DOMAIN vals |->
     LET of == {j \in 1 .. i : sops[j].num = n}
     IN vals[n] + FoldFunctionOnSet(+, 0, [j \in DOMAIN sops |-> sops[j].op], of)]

\* The first operation that cannot be done, 0 if there is none.
Obstacle(vals, sops) ==
  LET impossible(i) ==
        IF sops[i].op = 0 THEN After(vals, sops, i)[sops[i].num] # 0
        ELSE After(vals, sops, i)[sops[i].num] \notin 0 .. MaxVal
      all == {i \in DOMAIN sops : impossible(i)}
  IN IF all = {} THEN 0 ELSE CHOOSE i \in all : \A j \in all : i <= j

\* The result of a semop; "none" when it has to wait.
Verdict(vals, sops) ==
  LET i == Obstacle(vals, sops) IN
  IF i = 0 THEN "OK"
  ELSE IF After(vals, sops, i)[sops[i].num] > MaxVal /\ sops[i].op > 0 THEN "ERANGE"
  ELSE IF sops[i].nowait THEN "EAGAIN"
  ELSE "none"

Waits(p) == pending[p].f = "semop"

Init ==
  /\ sets = <<>>
  /\ pending = [p \in Procs |-> None]
  /\ result = [p \in Procs |-> "none"]

Call(p) ==
  /\ pending[p] = None /\ result[p] # "gone"
  /\ pending'[p] # None
  /\ pending' = [pending EXCEPT ![p] = pending'[p]]
  /\ result' = [result EXCEPT ![p] = "none"]
  /\ UNCHANGED sets

\* The session once a call that waits is settled.
Settled(s, p, v) ==
  LET slot == s.pending[p].id.slot
      sops == s.pending[p].sops
  IN [sets |-> IF v = "OK" THEN [s.sets EXCEPT ![slot].vals = After(@, sops, Len(sops))] ELSE s.sets,
      pending |-> [s.pending EXCEPT ![p] = None],
      result |-> [s.result EXCEPT ![p] = v]]

\* Calls that wait are settled one after the other, in some order.
RECURSIVE Settles(_)
Settles(s) ==
  \/ s = [sets |-> sets', pending |-> pending', result |-> result']
  \/ \E p \in {q \in Procs : Waits(q) /\ Names(pending[q].id) /\ s.pending[q] # pending'[q]} :
       \E v \in {Verdict(s.sets[pending[p].id.slot].vals, pending[p].sops)} \ {"none"} :
         \E t \in {Settled(s, p, v)} : Settles(t)

Settle == Settles([sets |-> sets, pending |-> pending, result |-> result])

Answer(p, r) ==
  /\ pending' = [pending EXCEPT ![p] = None]
  /\ result' = [result EXCEPT ![p] = r]

\* A semop that waits may be interrupted; it then has no effect.
Interrupt(p) == Waits(p) /\ Names(pending[p].id) /\ Answer(p, "EINTR") /\ UNCHANGED sets

\* A call that names nothing, or a value out of its range, fails.
Refuse(p) ==
  /\ pending[p] # None
  /\ Answer(p, result'[p]) /\ result'[p] \in {"EINVAL", "EFBIG", "ERANGE", "ENOENT", "EEXIST", "ENOSPC"}
  /\ UNCHANGED sets

SetValue(p) ==
  /\ pending[p].f = "setval" /\ Names(pending[p].id)
  /\ pending[p].num \in DOMAIN sets[pending[p].id.slot].vals /\ pending[p].val \in 0 .. MaxVal
  /\ sets' = [sets EXCEPT ![pending[p].id.slot].vals[pending[p].num] = pending[p].val]
  /\ Answer(p, "OK")

\* The removal of a set ends the calls that wait for it; its identifier, which holds
\* the generation, does not name the next set of the slot.
RemoveSet(p) ==
  /\ pending[p].f = "rmid" /\ Names(pending[p].id)
  /\ LET slot == pending[p].id.slot
         over == {q \in Procs : Waits(q) /\ pending[q].id = pending[p].id}
     IN /\ \E early \in SUBSET over :
             /\ pending' = [q \in Procs |-> IF q \in (over \ early) \cup {p} THEN None ELSE pending[q]]
             /\ result' = [q \in Procs |-> IF q = p THEN "OK"
                                           ELSE IF q \in over \ early THEN "EIDRM"
                                           ELSE result[q]]
        /\ sets'[slot].gen # sets[slot].gen
        /\ sets' = [sets EXCEPT ![slot] = [@ EXCEPT !.valid = FALSE, !.gen = sets'[slot].gen,
                                                    !.vals = <<>>]]

\* A set is found by its key, or made where there is room.
Get(p) ==
  /\ pending[p].f = "semget" /\ Answer(p, "OK")
  /\ \E slot \in 1 .. MaxSems :
       \/ /\ slot \in DOMAIN sets /\ sets[slot].valid /\ sets[slot].key = pending[p].key
          /\ UNCHANGED sets
       \/ /\ slot \notin DOMAIN sets \/ ~sets[slot].valid
          /\ \A s \in DOMAIN sets : sets[s].valid => sets[s].key # pending[p].key
          /\ slot \in DOMAIN sets' /\ sets'[slot].vals = [n \in 1 .. pending[p].nsems |-> 0]
          /\ \A s \in DOMAIN sets \ {slot} : sets'[s] = sets[s]

\* A process that dies gives its call up, and makes no other.
Die(p) == Answer(p, "gone") /\ UNCHANGED sets

Next ==
  \/ \E p \in Procs : \/ Call(p) \/ Interrupt(p) \/ Refuse(p) \/ SetValue(p) \/ RemoveSet(p)
                      \/ Get(p) \/ Die(p)
  \/ Settle

Spec == Init /\ [][Next]_<<sets, pending, result>>

=============================================================================
