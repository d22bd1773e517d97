------------------------------- MODULE SysVShm -------------------------------
(* System V shared memory (extension/sysvipc/sysvipc_shm.c).  A segment is a *)
(* file that a helper process holds open; shmat(2) makes the tracee connect  *)
(* to the helper, receive the descriptor and map it, one chained syscall     *)
(* after the other.  How a tracee waits is the subject of SysVWait.          *)
EXTENDS Integers, FiniteSets, SequencesExt

CONSTANTS
  Procs,        \* the tracees, each one a process
  Parent,       \* the one that forks the processes not there at the start
  Born,         \* the processes there at the start
  Order,        \* the list of tracees, the newest first
  Slots,        \* the size of the table of segments
  MaxMaps,      \* per process, how much it maps by shmat(2): bounds the pages
  MaxRemovals,  \* of each slot: bounds the generations
  Spaced,       \* no program calls shmat(2) between another's call and the end of its socket(2)
  MapFails,     \* mmap(2) may fail
  Interrupts,   \* the tracees whose wait for the helper a signal may end
  ExecFails,    \* execve(2) may fail after PRoot has translated it
  Kills         \* a tracee may be killed inside of a call

ASSUME ShmAssumption == Order \in Seq(Procs) /\ ToSet(Order) = Procs /\ Parent \in Procs /\ Slots \in Nat \ {0}

VARIABLES
  segs,         \* the table: valid, generation, rmid_pending
  maps,         \* struct SysVIpcSharedMemMap: process, slot, address (0 while it is pending)
  chain,        \* per tracee: chain_state, wait_reason and the object of the call
  at,           \* per tracee: where the kernel has it
  memory,       \* per process: what its pages map, [addr, seg]
  requests,     \* what PRoot has written to the helper
  backlog,      \* the connections the helper has not accepted
  received,     \* per tracee: what the helper has sent it
  open,         \* the files that the helper holds
  crashed       \* an assertion has failed
vars == <<segs, maps, chain, at, memory, requests, backlog, received, open, crashed>>

Table == 1 .. Slots
File(i) == <<i, segs[i].generation>>
NoFile == <<0, 0>>
ENOMEM == -1               \* what a failing mmap(2) returns is no address
LEFT == -2                 \* never given an address: a signal has ended the wait of its call
NoAddress == {0, ENOMEM, LEFT}
Rest == [state |-> "NOT_CHAINED", waits |-> FALSE, obj |-> 0]
Free(s) == [s EXCEPT !.valid = FALSE, !.rmid_pending = FALSE, !.generation = @ + 1]

MapsOf(ms, i) == {m \in ms : m.slot = i}

\* The destructor of a mapping: the last one of a segment that IPC_RMID was called on frees the segment.
Drop(ss, ms, i) == IF ss[i].rmid_pending /\ MapsOf(ms, i) = {} THEN [ss EXCEPT ![i] = Free(@)] ELSE ss

\* What leaves the table leaves the helper.
Closing(ss) == {<<i, segs[i].generation>> : i \in {j \in Table : segs[j].valid /\ ~ss[j].valid}}

\* These mappings go, with the segments that were only kept for them.
Unmap(gone) ==
  LET ms == maps \ gone
      ss == [i \in Table |-> IF \E m \in gone : m.slot = i THEN Drop(segs, ms, i)[i] ELSE segs[i]]
  IN maps' = ms /\ segs' = ss /\ open' = open \ Closing(ss)

\* The first tracee of the list that waits starts its call with the socket(2).
Waiting(c) == {i \in DOMAIN Order : c[Order[i]].waits}

\* Mutant: nobody is woken.
WakeNobody(c) == c
WakePendingShmat(c) ==
  IF Waiting(c) = {} THEN c
  ELSE [c EXCEPT ![Order[Min(Waiting(c))]].waits = FALSE, ![Order[Min(Waiting(c))]].state = "SOCKET"]

\* A tracee that has been woken leaves its ppoll and calls socket(2).
Go(a, c) == [t \in Procs |-> IF a[t] = "ppoll" /\ ~c[t].waits THEN "socket" ELSE a[t]]

------------------------------------------------------------------------------
(* The handlers of PRoot                                                     *)

Program(t) == at[t] = "user" /\ ~crashed

\* shmget(2): the first unused slot.
Shmget(t) ==
  LET unused == {i \in Table : ~segs[i].valid}
  IN /\ Program(t) /\ unused # {} /\ segs[Min(unused)].generation < MaxRemovals
     /\ segs' = [segs EXCEPT ![Min(unused)].valid = TRUE]
     /\ open' = open \cup {File(Min(unused))}
     /\ UNCHANGED <<maps, chain, at, memory, requests, backlog, received, crashed>>

\* Somebody is between its connect(2) and its mmap(2).
Busy(t) == \E u \in Procs : chain[u].state \in {"CONNECT", "RECVMSG", "MMAP"}

Shmat(t, i) ==
  /\ Program(t) /\ segs[i].valid
  /\ Cardinality({m \in maps : m.proc = t /\ m.addr \notin NoAddress}) < MaxMaps[t]
  /\ Spaced => \A u \in Procs : chain[u].state # "SOCKET"
  /\ maps' = maps \cup {[proc |-> t, slot |-> i, addr |-> 0]}
  /\ chain' = [chain EXCEPT ![t] = [state |-> IF Busy(t) THEN "NOT_CHAINED" ELSE "SOCKET",
                                    waits |-> Busy(t), obj |-> i]]
  /\ at' = [at EXCEPT ![t] = IF Busy(t) THEN "ppoll" ELSE "socket"]
  /\ UNCHANGED <<segs, memory, requests, backlog, received, open, crashed>>

Pending(t) == {m \in maps : m.proc = t /\ m.slot = chain[t].obj /\ m.addr = 0}

\* Mutant: a call that fails keeps its mapping.
FailKept(t) ==
  LET c == WakePendingShmat([chain EXCEPT ![t] = Rest])
  IN /\ chain' = c /\ at' = Go([at EXCEPT ![t] = "user"], c)
     /\ UNCHANGED <<maps, segs, open, requests, memory, crashed>>

\* The call fails: the pending mapping goes, and the next tracee has its turn.
Fail(t) ==
  LET c == WakePendingShmat([chain EXCEPT ![t] = Rest])
  IN /\ chain' = c /\ at' = Go([at EXCEPT ![t] = "user"], c)
     /\ Unmap(Pending(t))
     /\ UNCHANGED <<requests, memory, crashed>>

\* A syscall of the chain has ended; res: what the kernel made of it.
ShmatChain(t) ==
  /\ at[t] \in {"done", "failed"} /\ ~crashed
  /\ UNCHANGED backlog
  /\ IF ~segs[chain[t].obj].valid \/ (chain[t].state = "MMAP" /\ Pending(t) = {})
     THEN crashed' = TRUE /\ UNCHANGED <<segs, maps, chain, at, memory, requests, received, open>>
     ELSE
     \/ /\ chain[t].state = "MMAP"
        /\ LET c == WakePendingShmat([chain EXCEPT ![t] = Rest])
               m == CHOOSE p \in Pending(t) : TRUE
               addr == IF at[t] = "failed" THEN ENOMEM ELSE received[t].addr
           IN /\ maps' = (maps \ {m}) \cup {[m EXCEPT !.addr = addr]}
              /\ chain' = c /\ at' = Go([at EXCEPT ![t] = "user"], c)
              /\ received' = [received EXCEPT ![t] = [file |-> NoFile, addr |-> 0]]
        /\ UNCHANGED <<segs, memory, requests, open, crashed>>
     \/ at[t] = "failed" /\ chain[t].state # "MMAP" /\ Fail(t) /\ UNCHANGED received
     \/ /\ at[t] = "done"
        /\ \/ /\ chain[t].state = "SOCKET"
              /\ chain' = [chain EXCEPT ![t].state = "CONNECT"]
              /\ at' = [at EXCEPT ![t] = "connect"] /\ UNCHANGED requests
           \/ /\ chain[t].state = "CONNECT"
              /\ requests' = Append(requests, File(chain[t].obj))
              /\ chain' = [chain EXCEPT ![t].state = "RECVMSG"]
              \* What was sent before the recvmsg(2) is there at once.
              /\ at' = [at EXCEPT ![t] = IF received[t].file # NoFile THEN "done" ELSE "recvmsg"]
           \/ /\ chain[t].state = "RECVMSG"
              /\ chain' = [chain EXCEPT ![t].state = "MMAP"]
              /\ at' = [at EXCEPT ![t] = "mmap"] /\ UNCHANGED requests
        /\ UNCHANGED <<segs, maps, memory, received, open, crashed>>

\* shmdt(2): becomes a munmap(2).
Shmdt(t) ==
  /\ Program(t)
  /\ \E m \in maps : /\ m.proc = t /\ m.addr \notin NoAddress
                     /\ Unmap({m})
                     /\ memory' = [memory EXCEPT ![t] = {x \in @ : x.addr # m.addr}]
  /\ UNCHANGED <<chain, at, requests, backlog, received, crashed>>

\* shmctl(2), IPC_RMID: at once, or when the last mapping is gone.
ShmctlRmid(t, i) ==
  LET ss == Drop([segs EXCEPT ![i].rmid_pending = TRUE], maps, i)
  IN /\ Program(t) /\ segs[i].valid
     /\ segs' = ss /\ open' = open \ Closing(ss)
     /\ crashed' = (~ss[i].valid /\ MapsOf(maps, i) # {})
     /\ UNCHANGED <<maps, chain, at, memory, requests, backlog, received>>

\* Mutant: the child has no mappings.
InheritsNone(t) == {}
Inherits(t) == {[m EXCEPT !.proc = t] : m \in {n \in maps : n.proc = Parent}}

\* fork(2): the child has the mappings of its parent.
InheritProcess(t) ==
  /\ at[t] = "unborn" /\ Program(Parent)
  /\ maps' = maps \cup Inherits(t)
  /\ memory' = [memory EXCEPT ![t] = memory[Parent]]
  /\ at' = [at EXCEPT ![t] = "user"]
  /\ UNCHANGED <<segs, chain, requests, backlog, received, open, crashed>>

RemoveMappings(t) == Unmap({m \in maps : m.proc = t})

\* execve(2): the mappings are dropped at its entry, the pages when the kernel does it.
Execve(t, ok) ==
  /\ Program(t) /\ RemoveMappings(t)
  /\ memory' = IF ok THEN [memory EXCEPT ![t] = {}] ELSE memory
  /\ UNCHANGED <<chain, at, requests, backlog, received, crashed>>

\* The process ends; its configuration is freed, its mappings with it.
Exit(t) ==
  /\ at[t] \notin {"unborn", "gone"} /\ ~crashed
  /\ Kills \/ Program(t)
  /\ Unmap({m \in maps : m.proc = t})
  /\ memory' = [memory EXCEPT ![t] = {}]
  /\ chain' = [chain EXCEPT ![t] = Rest]
  /\ at' = [at EXCEPT ![t] = "gone"]
  /\ UNCHANGED <<requests, backlog, received, crashed>>

------------------------------------------------------------------------------
(* The kernel and the helper                                                 *)

Ends(t, s) == at' = [at EXCEPT ![t] = s]

Socket(t) ==
  /\ at[t] = "socket" /\ \E s \in {"done", "failed"} : Ends(t, s)
  /\ UNCHANGED <<segs, maps, chain, memory, requests, backlog, received, open, crashed>>

Connect(t) ==
  /\ at[t] = "connect"
  /\ \/ backlog' = Append(backlog, t) /\ Ends(t, "done")
     \/ UNCHANGED backlog /\ Ends(t, "failed")
  /\ UNCHANGED <<segs, maps, chain, memory, requests, received, open, crashed>>

\* The helper accepts the oldest connection for the oldest request.
Helper ==
  /\ requests # <<>> /\ backlog # <<>>
  /\ received' = [received EXCEPT ![Head(backlog)].file = IF Head(requests) \in open THEN Head(requests) ELSE @]
  /\ requests' = Tail(requests) /\ backlog' = Tail(backlog)
  /\ at' = [at EXCEPT ![Head(backlog)] = IF @ # "recvmsg" THEN @
                                         ELSE IF Head(requests) \in open THEN "done" ELSE "failed"]
  /\ UNCHANGED <<segs, maps, chain, memory, open, crashed>>

Mmap(t) ==
  /\ at[t] = "mmap"
  /\ \/ LET used == {x.addr : x \in memory[t]}
            addr == Min((1 .. Cardinality(used) + 1) \ used)
        IN /\ memory' = [memory EXCEPT ![t] = @ \cup {[addr |-> addr, seg |-> received[t].file]}]
           /\ received' = [received EXCEPT ![t].addr = addr]
           /\ Ends(t, "done")
     \/ MapFails /\ Ends(t, "failed") /\ UNCHANGED <<memory, received>>
  /\ UNCHANGED <<segs, maps, chain, requests, backlog, open, crashed>>

\* A signal ends the wait: shmat(2) returns EINTR.  Nobody takes the pending mapping back; the next call of the process
\* finds its own, which is newer.
Interrupt(t) ==
  /\ t \in Interrupts /\ at[t] = "ppoll"
  /\ chain' = [chain EXCEPT ![t] = Rest]
  /\ Ends(t, "user")
  /\ maps' = {IF m \in Pending(t) THEN [m EXCEPT !.addr = LEFT] ELSE m : m \in maps}
  /\ UNCHANGED <<segs, memory, requests, backlog, received, open, crashed>>

Init ==
  /\ segs = [i \in Table |-> [valid |-> FALSE, generation |-> 0, rmid_pending |-> FALSE]]
  /\ maps = {} /\ chain = [t \in Procs |-> Rest]
  /\ at = [t \in Procs |-> IF t \in Born THEN "user" ELSE "unborn"]
  /\ memory = [t \in Procs |-> {}] /\ requests = <<>> /\ backlog = <<>>
  /\ received = [t \in Procs |-> [file |-> NoFile, addr |-> 0]]
  /\ open = {} /\ crashed = FALSE

Served(t) == Socket(t) \/ Connect(t) \/ Mmap(t) \/ ShmatChain(t)

Next ==
  \/ Helper
  \/ \E t \in Procs :
       \/ Served(t) \/ Interrupt(t) \/ Shmget(t) \/ Shmdt(t) \/ InheritProcess(t) \/ Exit(t)
       \/ \E ok \in {TRUE} \cup {~ExecFails} : Execve(t, ok)
       \/ \E i \in Table : Shmat(t, i) \/ ShmctlRmid(t, i)

\* The kernel, the helper and PRoot go on.
Spec == Init /\ [][Next]_vars /\ WF_vars(Helper) /\ \A t \in Procs : WF_vars(Served(t))

------------------------------------------------------------------------------
(* Properties                                                                *)

TypeOK ==
  /\ \A i \in Table : segs[i].rmid_pending => segs[i].valid
  /\ \A m \in maps : m.proc \in Procs /\ m.slot \in Table
  /\ open = {File(i) : i \in {j \in Table : segs[j].valid}}
  /\ Len(requests) <= Cardinality(Procs)

\* The helper pairs requests and connections by their order alone: what a process maps is nevertheless the segment
\* that it asked for, which still exists.
RightSegment ==
  \A m \in maps : m.addr \notin NoAddress =>
    /\ segs[m.slot].valid
    /\ [addr |-> m.addr, seg |-> File(m.slot)] \in memory[m.proc]

\* What a process maps is accounted for, so that shmdt(2) finds it and shm_nattch counts it, whatever came between:
\* a fork, an execve, an end.
EveryPageCounted ==
  \A t \in Procs : at[t] = "user" =>
    \A x \in memory[t] : \E m \in maps : m.proc = t /\ m.addr = x.addr

\* A segment that IPC_RMID was called on is freed with its last mapping: it exists only as long as a process has it
\* in its memory or is about to, or has kept the pending mapping of a wait for this segment that a signal has ended.
RemovedWhenUnused ==
  \A i \in Table : segs[i].rmid_pending =>
    \E m \in MapsOf(maps, i) : m.addr \notin {0, ENOMEM} \/ (m.addr = 0 /\ chain[m.proc].obj = i)

\* The assertions of sysvipc_shmat_chain() and sysvipc_do_rmid().
AssertionsHold == ~crashed

\* What a process has in its memory, PRoot's table and the files of the helper agree, whatever came between.
MappingsAgree == TypeOK /\ RightSegment /\ EveryPageCounted /\ AssertionsHold

\* A newer tracee waits for the helper as well, and comes first.
Overtaken(t) == \E i, j \in DOMAIN Order : i < j /\ Order[j] = t /\ chain[Order[i]].waits

\* A tracee that waits for the helper gets it, whatever becomes of the calls before it, unless newer ones overtake it
\* again and again.
WaitersServed == \A t \in Procs : <>[]~Overtaken(t) => (chain[t].waits ~> ~chain[t].waits)

\* Every waiter is served (does not hold: the newest one always comes first).
NobodyStarves == \A t \in Procs : chain[t].waits ~> ~chain[t].waits
==============================================================================
