----------------------------- MODULE SysVShmProofs -----------------------------
(* Theorems about SysVShm, for any number of processes, segments and calls:   *)
(* the memory of the programs, the table of PRoot and the files of the helper *)
(* agree.                                                                     *)
EXTENDS SysVShm, FiniteSetTheorems, SequenceTheorems, WellFoundedInduction, TLAPS

------------------------------------------------------------------------------
(* The invariant                                                             *)

Files == Nat \X Nat
Segment == [valid : BOOLEAN, generation : Nat, rmid_pending : BOOLEAN]
Mapping == [proc : Procs, slot : Table, addr : Int]
Chained == {"SOCKET", "CONNECT", "RECVMSG", "MMAP"}
Chain == [state : {"NOT_CHAINED"} \cup Chained, waits : BOOLEAN, obj : Nat]
Page == [addr : Nat \ {0}, seg : Files]
Message == [file : Files, addr : Nat]
Idle == {"user", "unborn", "gone"}
Places == Idle \cup {"ppoll", "socket", "connect", "recvmsg", "mmap", "done", "failed"}

Typed ==
  /\ segs \in [Table -> Segment] /\ maps \subseteq Mapping
  /\ chain \in [Procs -> Chain] /\ at \in [Procs -> Places]
  /\ memory \in [Procs -> SUBSET Page] /\ received \in [Procs -> Message]
  /\ requests \in Seq(Files) /\ backlog \in Seq(Procs)

\* Where the kernel has a tracee, and where PRoot has its chain.
Stage(t) ==
  /\ at[t] \in Idle => chain[t] = Rest
  /\ at[t] \notin Idle => chain[t].obj \in Table
  /\ chain[t].waits <=> at[t] = "ppoll"
  /\ at[t] = "ppoll" => chain[t].state = "NOT_CHAINED"
  /\ at[t] = "socket" => chain[t].state = "SOCKET"
  /\ at[t] = "connect" => chain[t].state = "CONNECT"
  /\ at[t] = "recvmsg" => chain[t].state = "RECVMSG"
  /\ at[t] = "mmap" => chain[t].state = "MMAP"
  /\ at[t] = "done" => chain[t].state \in Chained
  /\ at[t] = "failed" => chain[t].state \in Chained \ {"RECVMSG"}

\* What the helper has sent to a tracee, and when.
Has(t) == chain[t].state = "MMAP" \/ (chain[t].state = "RECVMSG" /\ at[t] = "done")
HasMapped(t) == at[t] = "done" /\ chain[t].state = "MMAP"
Got(t) ==
  /\ Has(t) => received[t].file = File(chain[t].obj)
  /\ HasMapped(t) => [addr |-> received[t].addr, seg |-> received[t].file] \in memory[t]
  /\ ~Has(t) /\ at[t] # "gone" => received[t].file = NoFile

\* A call has its pending mapping, a mapping its segment, and its page once there is one.
Placed(t) ==
  /\ at[t] \notin Idle => [proc |-> t, slot |-> chain[t].obj, addr |-> 0] \in maps
  /\ \A m \in maps : m.proc = t =>
       /\ segs[m.slot].valid /\ at[t] \notin {"unborn", "gone"}
       /\ m.addr \notin NoAddress => [addr |-> m.addr, seg |-> File(m.slot)] \in memory[t]

\* The pages: finitely many, one mapping at an address, each accounted for but that of a call which is not over.
Counted(t) ==
  /\ \A x, y \in memory[t] : x.addr = y.addr => x = y
  /\ \A x \in memory[t] :
       \/ \E m \in maps : m.proc = t /\ m.addr = x.addr
       \/ HasMapped(t) /\ x.addr = received[t].addr
  /\ IsFiniteSet({x.addr : x \in memory[t]})
  /\ HasMapped(t) => \A m \in maps : m.proc = t => m.addr # received[t].addr
  /\ at[t] \in {"unborn", "gone"} => memory[t] = {}

Sound(t) == Stage(t) /\ Got(t) /\ Placed(t) /\ Counted(t)

\* One tracee at most is in its chain.
OneChain == \A t, u \in Procs : chain[t].state # "NOT_CHAINED" /\ chain[u].state # "NOT_CHAINED" => t = u

\* A tracee that the helper has not accepted.
Connected(t) == \/ chain[t].state = "CONNECT" /\ at[t] = "done"
                \/ chain[t].state = "RECVMSG" /\ at[t] = "recvmsg"

\* The newest connection alone may be of a process that lives, and its request, if it is still there, is the newest.
Exchange ==
  /\ Len(requests) <= Len(backlog)
  /\ \A n \in 1 .. Len(backlog) :
       /\ at[backlog[n]] # "gone" => n = Len(backlog) /\ Connected(backlog[n])
       /\ chain[backlog[n]].state = "CONNECT" => Len(requests) < Len(backlog)
       /\ chain[backlog[n]].state = "RECVMSG" /\ Len(requests) = Len(backlog) =>
            requests[Len(requests)] = File(chain[backlog[n]].obj)
       /\ \A m \in 1 .. Len(backlog) : backlog[m] = backlog[n] => m = n
  /\ \A t \in Procs : chain[t].state = "CONNECT" /\ at[t] = "done" => \E n \in 1 .. Len(backlog) : backlog[n] = t

\* A segment that is only kept for its mappings has one; the helper holds the file of each.
Tabled ==
  /\ \A i \in Table : segs[i].rmid_pending => segs[i].valid /\ MapsOf(maps, i) # {}
  /\ open = {File(i) : i \in {j \in Table : segs[j].valid}}

Agreed == Typed /\ crashed = FALSE /\ OneChain /\ Exchange /\ Tabled /\ \A t \in Procs : Sound(t)

\* What is pending is of a call that goes on.
Pended ==
  /\ \A m \in maps : m.addr # ENOMEM /\ (m.addr = 0 => chain[m.proc].obj = m.slot)
  /\ \A t \in Procs : at[t] = "failed" => chain[t].state # "MMAP"

------------------------------------------------------------------------------
(* Numbers, sets and sequences                                               *)

\* A set of natural numbers has a least one.
LEMMA Least ==
  ASSUME NEW S \in SUBSET Nat, S # {}
  PROVE  Min(S) \in S /\ \A y \in S : Min(S) <= y
<1>1. IsWellFoundedOn(OpToRel(<, Nat), Nat)
  BY NatLessThanWellFounded
<1>2. PICK x \in S : \A y \in S : ~(<<y, x>> \in OpToRel(<, Nat))
  BY <1>1, WFMin
<1>3. \A y \in S : ~(y < x)
  BY <1>2 DEF OpToRel
<1>4. \A y \in S : x <= y
  BY <1>3
<1> QED  BY <1>4 DEF Min

LEMMA Constants ==
  /\ Slots \in Nat /\ Table \subseteq Nat /\ 0 \notin Table
  /\ Order \in Seq(Procs) /\ DOMAIN Order = 1 .. Len(Order) /\ Len(Order) \in Nat /\ DOMAIN Order \subseteq Nat
  /\ \A i \in DOMAIN Order : Order[i] \in Procs
  /\ \A t \in Procs : \E i \in DOMAIN Order : Order[i] = t
<1>1. Order \in Seq(Procs) /\ ToSet(Order) = Procs
  BY ShmAssumption
<1>2. \A t \in Procs : \E i \in DOMAIN Order : Order[i] = t
  BY <1>1 DEF ToSet
<1> QED  BY <1>1, <1>2, ShmAssumption DEF Table

\* The rest of a sequence.
LEMMA Rests ==
  ASSUME NEW S, NEW s \in Seq(S), s # <<>>
  PROVE  /\ Len(s) \in Nat \ {0} /\ Head(s) = s[1] /\ s[1] \in S
         /\ Tail(s) \in Seq(S) /\ Len(Tail(s)) = Len(s) - 1
         /\ \A n \in 1 .. Len(s) - 1 : Tail(s)[n] = s[n + 1]
  OBVIOUS

LEMMA Longer ==
  ASSUME NEW S, NEW s \in Seq(S), NEW x \in S
  PROVE  /\ Append(s, x) \in Seq(S) /\ Len(Append(s, x)) = Len(s) + 1 /\ Len(s) \in Nat
         /\ Append(s, x)[Len(s) + 1] = x /\ \A n \in 1 .. Len(s) : Append(s, x)[n] = s[n]
  OBVIOUS

------------------------------------------------------------------------------
(* What a step leaves alone                                                  *)

SameFile(i) == segs'[i].generation = segs[i].generation

\* Segments that are mapped stay.
Keeps == \A m \in maps : m \in maps' => segs'[m.slot].valid /\ SameFile(m.slot)

\* A tracee that a step is not about, but that it may wake.
Lasts(t) ==
  /\ UNCHANGED <<memory[t], received[t]>>
  /\ \A m \in Mapping : m.proc = t => (m \in maps <=> m \in maps')
Aside(t) == Lasts(t) /\ UNCHANGED <<chain[t], at[t]>>
Woken(t) == /\ Lasts(t) /\ at[t] = "ppoll" /\ at'[t] = "socket"
            /\ chain'[t] = [state |-> "SOCKET", waits |-> FALSE, obj |-> chain[t].obj]

LEMMA Untouched ==
  ASSUME Typed, Keeps, NEW t \in Procs, Sound(t), Aside(t) \/ Woken(t), maps' \subseteq Mapping
  PROVE  Sound(t)'
<1>1. /\ memory'[t] = memory[t] /\ received'[t] = received[t]
      /\ \A m \in Mapping : m.proc = t => (m \in maps <=> m \in maps')
  BY DEF Aside, Woken, Lasts
<1>2. /\ Stage(t)' /\ chain'[t].obj = chain[t].obj
      /\ \A p \in Idle : at'[t] = p <=> at[t] = p
      /\ (Has(t)' <=> Has(t)) /\ (HasMapped(t)' <=> HasMapped(t))
  <2>1. CASE Aside(t)
    <3>1. chain'[t] = chain[t] /\ at'[t] = at[t]
      BY <2>1 DEF Aside
    <3> QED  BY <3>1 DEF Sound, Stage, Has, HasMapped
  <2>2. CASE Woken(t)
    <3>1. /\ at[t] = "ppoll" /\ at'[t] = "socket"
          /\ chain'[t] = [state |-> "SOCKET", waits |-> FALSE, obj |-> chain[t].obj]
      BY <2>2 DEF Woken
    <3>2. chain[t].state = "NOT_CHAINED" /\ chain[t].obj \in Table
      BY <3>1 DEF Sound, Stage, Idle
    <3> QED  BY <3>1, <3>2 DEF Sound, Stage, Has, HasMapped, Idle, Chained, Table
  <2> QED  BY <2>1, <2>2
<1>3. at'[t] \in Idle <=> at[t] \in Idle
  BY <1>2 DEF Idle
<1>4. Placed(t)'
  <2>1. at'[t] \notin Idle => [proc |-> t, slot |-> chain'[t].obj, addr |-> 0] \in maps'
    <3>1. at[t] \notin Idle => [proc |-> t, slot |-> chain[t].obj, addr |-> 0] \in maps
      BY DEF Sound, Placed
    <3> QED  BY <1>1, <1>2, <1>3, <3>1 DEF Typed
  <2>2. ASSUME NEW m \in maps', m.proc = t
        PROVE  /\ segs'[m.slot].valid /\ at'[t] \notin {"unborn", "gone"}
               /\ m.addr \notin NoAddress => [addr |-> m.addr, seg |-> File(m.slot)'] \in memory[t]
    <3>1. m \in maps
      BY <1>1, <2>2
    <3>2. File(m.slot)' = File(m.slot)
      BY <3>1 DEF Keeps, SameFile, File
    <3> QED  BY <1>2, <2>2, <3>1, <3>2 DEF Sound, Placed, Keeps, Idle
  <2> QED  BY <1>1, <2>1, <2>2 DEF Placed, NoAddress, ENOMEM, LEFT
<1>5. Has(t) => SameFile(chain[t].obj)
  <2>1. Has(t) => at[t] \notin Idle
    BY DEF Sound, Stage, Has, Rest
  <2>2. at[t] \notin Idle => \E m \in maps : m \in maps' /\ m.slot = chain[t].obj
    <3>1. at[t] \notin Idle => [proc |-> t, slot |-> chain[t].obj, addr |-> 0] \in maps
      BY DEF Sound, Placed
    <3>2. at[t] \notin Idle => [proc |-> t, slot |-> chain[t].obj, addr |-> 0] \in maps'
      BY <1>1, <3>1 DEF Typed
    <3> QED  BY <3>1, <3>2
  <2> QED  BY <2>1, <2>2 DEF Keeps
<1>6. Got(t)'
  <2>1. Has(t) => (File(chain[t].obj))' = File(chain[t].obj)
    BY <1>2, <1>5 DEF File, SameFile
  <2>2. Got(t)
    BY DEF Sound
  <2>3. NoFile' = NoFile
    BY DEF NoFile
  <2> QED  BY <1>1, <1>2, <2>1, <2>2, <2>3 DEF Got, Idle
<1>7. Counted(t)'
  <2>1. Counted(t)
    BY DEF Sound
  <2>2. \A m \in maps : m.proc = t => m \in maps'
    BY <1>1 DEF Typed
  <2>3. \A m \in maps' : m.proc = t => m \in maps
    BY <1>1
  <2> QED  BY <1>1, <1>2, <2>1, <2>2, <2>3 DEF Counted, Idle
<1> QED  BY <1>2, <1>4, <1>6, <1>7 DEF Sound

LEMMA ExchangeKept ==
  ASSUME Typed, Exchange, UNCHANGED <<requests, backlog>>, \A u \in Procs : Stage(u),
         \A u \in Procs :
           \/ UNCHANGED <<chain[u], at[u]>> /\ (Connected(u) => SameFile(chain[u].obj))
           \/ at[u] # "gone" /\ ~Connected(u) /\ ~Connected(u)'
           \/ at'[u] = "gone" /\ chain'[u] = Rest
  PROVE  Exchange'
<1>1. ASSUME NEW n \in 1 .. Len(backlog)
      PROVE  /\ at'[backlog[n]] # "gone" => n = Len(backlog) /\ Connected(backlog[n])'
             /\ chain'[backlog[n]].state = "CONNECT" => Len(requests) < Len(backlog)
             /\ chain'[backlog[n]].state = "RECVMSG" /\ Len(requests) = Len(backlog) =>
                  requests[Len(requests)] = (File(chain[backlog[n]].obj))'
             /\ \A m \in 1 .. Len(backlog) : backlog[m] = backlog[n] => m = n
  <2> DEFINE u == backlog[n]
  <2>1. u \in Procs
    BY DEF Typed
  <2>2. /\ at[u] # "gone" => n = Len(backlog) /\ Connected(u)
        /\ chain[u].state = "CONNECT" => Len(requests) < Len(backlog)
        /\ chain[u].state = "RECVMSG" /\ Len(requests) = Len(backlog) => requests[Len(requests)] = File(chain[u].obj)
        /\ \A m \in 1 .. Len(backlog) : backlog[m] = u => m = n
    BY DEF Exchange
  <2>3. at[u] = "gone" => chain[u].state = "NOT_CHAINED"
    BY <2>1 DEF Stage, Rest, Idle
  <2> HIDE DEF u
  <2>4. CASE UNCHANGED <<chain[u], at[u]>> /\ (Connected(u) => SameFile(chain[u].obj))
    <3>1. Connected(u)' <=> Connected(u)
      BY <2>4 DEF Connected
    <3>2. chain[u].state = "RECVMSG" => (File(chain[u].obj))' = File(chain[u].obj)
      BY <2>2, <2>3, <2>4 DEF File, SameFile
    <3> QED  BY <2>2, <2>4, <3>1, <3>2 DEF u
  <2>5. CASE at[u] # "gone" /\ ~Connected(u) /\ ~Connected(u)'
    BY <2>2, <2>5
  <2>6. CASE at'[u] = "gone" /\ chain'[u] = Rest
    BY <2>2, <2>6 DEF Rest, u
  <2> QED  BY <2>1, <2>4, <2>5, <2>6 DEF u
<1>2. ASSUME NEW t \in Procs, chain'[t].state = "CONNECT" /\ at'[t] = "done"
      PROVE  \E n \in 1 .. Len(backlog) : backlog[n] = t
  <2>1. Connected(t)'
    BY <1>2 DEF Connected
  <2>2. UNCHANGED <<chain[t], at[t]>>
    BY <1>2, <2>1 DEF Rest
  <2> QED  BY <1>2, <2>2 DEF Exchange
<1> QED  BY <1>1, <1>2 DEF Exchange

\* A step of one tracee: what there is left to show.
LEMMA Alone ==
  ASSUME Agreed, NEW t \in Procs, Typed', crashed' = FALSE, OneChain', Tabled', Keeps, UNCHANGED <<requests, backlog>>,
         \A u \in Procs \ {t} : Aside(u) \/ Woken(u), Sound(t)',
         \/ at[t] # "gone" /\ ~Connected(t) /\ ~Connected(t)'
         \/ at'[t] = "gone"
  PROVE  Agreed'
<1>1. \A u \in Procs : Sound(u)'
  <2>1. ASSUME NEW u \in Procs \ {t} PROVE Sound(u)'
    BY Untouched DEF Agreed, Typed
  <2> QED  BY <2>1
<1>2. Exchange'
  <2>1. ASSUME NEW u \in Procs
        PROVE  \/ UNCHANGED <<chain[u], at[u]>> /\ (Connected(u) => SameFile(chain[u].obj))
               \/ at[u] # "gone" /\ ~Connected(u) /\ ~Connected(u)'
               \/ at'[u] = "gone" /\ chain'[u] = Rest
    <3>1. CASE u = t
      <4>1. Rest' = Rest
        BY DEF Rest
      <4>2. Stage(t)'
        BY DEF Sound
      <4> QED  BY <3>1, <4>1, <4>2 DEF Stage, Idle
    <3>2. CASE u # t /\ Woken(u)
      BY <3>2 DEF Woken, Connected
    <3>3. CASE u # t /\ Aside(u)
      <4>1. UNCHANGED <<chain[u], at[u]>> /\ \A m \in Mapping : m.proc = u => (m \in maps <=> m \in maps')
        BY <3>3 DEF Aside, Lasts
      <4>2. ASSUME Connected(u) PROVE SameFile(chain[u].obj)
        <5>1. [proc |-> u, slot |-> chain[u].obj, addr |-> 0] \in maps
          BY <4>2 DEF Connected, Agreed, Sound, Placed, Idle
        <5>2. [proc |-> u, slot |-> chain[u].obj, addr |-> 0] \in maps'
          BY <4>1, <5>1 DEF Agreed, Typed
        <5> QED  BY <5>1, <5>2 DEF Keeps
      <4> QED  BY <4>1, <4>2
    <3> QED  BY <3>1, <3>2, <3>3
  <2>2. \A u \in Procs : Stage(u)
    BY DEF Agreed, Sound
  <2> QED  BY <2>1, <2>2, ExchangeKept DEF Agreed
<1> QED  BY <1>1, <1>2 DEF Agreed

\* Where no chain begins.
LEMMA NoChain ==
  ASSUME OneChain, \A u \in Procs : chain'[u].state # "NOT_CHAINED" => chain[u].state # "NOT_CHAINED"
  PROVE  OneChain'
BY DEF OneChain

LEMMA Freed ==
  ASSUME NEW s \in Segment
  PROVE  Free(s) \in Segment /\ ~Free(s).valid /\ ~Free(s).rmid_pending
<1> DEFINE a == [s EXCEPT !.valid = FALSE]
           b == [a EXCEPT !.rmid_pending = FALSE]
           c == [b EXCEPT !.generation = @ + 1]
<1>1. a \in Segment /\ a.valid = FALSE
  BY DEF Segment
<1> HIDE DEF a
<1>2. b \in Segment /\ b.valid = FALSE /\ b.rmid_pending = FALSE
  BY <1>1 DEF Segment
<1> HIDE DEF b
<1>3. c \in Segment /\ c.valid = FALSE /\ c.rmid_pending = FALSE
  BY <1>2 DEF Segment
<1>4. Free(s) = c
  BY DEF Free, a, b
<1> QED  BY <1>3, <1>4

\* The mappings that go, and the segments with them.
LEMMA Unmapped ==
  ASSUME Typed, Tabled, NEW gone, gone \subseteq maps, Unmap(gone)
  PROVE  /\ maps' = maps \ gone /\ maps' \subseteq Mapping /\ segs' \in [Table -> Segment] /\ Tabled'
         /\ \A m \in maps' : segs'[m.slot] = segs[m.slot]
<1> DEFINE ms == maps \ gone
           ss == [i \in Table |-> IF \E m \in gone : m.slot = i THEN Drop(segs, ms, i)[i] ELSE segs[i]]
<1>1. maps' = ms /\ segs' = ss /\ open' = open \ Closing(ss)
  BY DEF Unmap
<1>2. ASSUME NEW i \in Table
      PROVE  /\ ss[i] \in Segment
             /\ MapsOf(ms, i) # {} => ss[i] = segs[i]
             /\ ss[i].valid => ss[i] = segs[i]
             /\ ss[i].rmid_pending => ss[i].valid /\ MapsOf(ms, i) # {}
  <2>1. segs[i] \in Segment /\ (segs[i].rmid_pending => segs[i].valid /\ MapsOf(maps, i) # {})
    BY DEF Typed, Tabled
  <2>2. CASE ~\E m \in gone : m.slot = i
    <3>1. ss[i] = segs[i]
      BY <2>2
    <3>2. MapsOf(ms, i) = MapsOf(maps, i)
      BY <2>2 DEF MapsOf
    <3> QED  BY <2>1, <3>1, <3>2
  <2>3. CASE \E m \in gone : m.slot = i
    <3>1. ss[i] = Drop(segs, ms, i)[i]
      BY <2>3
    <3>2. CASE segs[i].rmid_pending /\ MapsOf(ms, i) = {}
      <4>1. Drop(segs, ms, i) = [segs EXCEPT ![i] = Free(@)]
        BY <3>2, Zenon DEF Drop
      <4>2. ss[i] = Free(segs[i])
        BY <3>1, <4>1 DEF Typed
      <4>3. Free(segs[i]) \in Segment /\ ~Free(segs[i]).valid /\ ~Free(segs[i]).rmid_pending
        BY <2>1, Freed
      <4> QED  BY <3>2, <4>2, <4>3
    <3>3. CASE ~(segs[i].rmid_pending /\ MapsOf(ms, i) = {})
      <4>1. ss[i] = segs[i]
        BY <3>1, <3>3, Zenon DEF Drop
      <4> QED  BY <2>1, <3>3, <4>1
    <3> QED  BY <3>2, <3>3
  <2> QED  BY <2>2, <2>3
<1>3. ss \in [Table -> Segment]
  <2>1. DOMAIN ss = Table /\ ss = [i \in Table |-> ss[i]]
    OBVIOUS
  <2> HIDE DEF ss
  <2> QED  BY <1>2, <2>1
<1> HIDE DEF ss
<1>4. ms \subseteq Mapping /\ \A m \in ms : m.slot \in Table /\ MapsOf(ms, m.slot) # {}
  BY DEF Typed, Mapping, MapsOf
<1>5. Tabled'
  <2>1. \A i \in Table : segs'[i].rmid_pending => segs'[i].valid /\ MapsOf(maps', i) # {}
    BY <1>1, <1>2
  <2>2. open' = {<<i, segs'[i].generation>> : i \in {j \in Table : segs'[j].valid}}
    <3>1. open = {<<i, segs[i].generation>> : i \in {j \in Table : segs[j].valid}}
      BY DEF Tabled, File
    <3>2. Closing(ss) = {<<i, segs[i].generation>> : i \in {j \in Table : segs[j].valid /\ ~ss[j].valid}}
      BY DEF Closing
    <3>3. \A i \in Table : ss[i].valid => segs[i].valid /\ ss[i].generation = segs[i].generation
      BY <1>2
    <3> QED  BY <1>1, <3>1, <3>2, <3>3
  <2> QED  BY <2>1, <2>2 DEF Tabled, File, Table
<1> QED  BY <1>1, <1>2, <1>3, <1>4, <1>5

\* The end of a chain, and the one whose turn it is.
LEMMA Wakes ==
  ASSUME Typed, OneChain, \A u \in Procs : Stage(u), NEW t \in Procs, chain[t].state # "NOT_CHAINED",
         chain' = WakePendingShmat([chain EXCEPT ![t] = Rest]), at' = Go([at EXCEPT ![t] = "user"], chain')
  PROVE  /\ chain' \in [Procs -> Chain] /\ at' \in [Procs -> Places] /\ OneChain'
         /\ chain'[t] = Rest /\ at'[t] = "user"
         /\ \A u \in Procs \ {t} :
              \/ UNCHANGED <<chain[u], at[u]>>
              \/ /\ at[u] = "ppoll" /\ at'[u] = "socket"
                 /\ chain'[u] = [state |-> "SOCKET", waits |-> FALSE, obj |-> chain[u].obj]
<1> DEFINE c == [chain EXCEPT ![t] = Rest]
           a == [at EXCEPT ![t] = "user"]
<1>1. Rest \in Chain /\ Rest.waits = FALSE /\ Rest.state = "NOT_CHAINED"
  BY DEF Rest, Chain
<1>2. c \in [Procs -> Chain] /\ c[t] = Rest /\ \A u \in Procs \ {t} : c[u] = chain[u] /\ chain[u].state = "NOT_CHAINED"
  BY <1>1 DEF Typed, OneChain
<1>3. a \in [Procs -> Places] /\ a[t] = "user" /\ \A u \in Procs \ {t} : a[u] = at[u]
  BY DEF Typed, Places, Idle
<1>4. chain' = WakePendingShmat(c) /\ at' = Go(a, chain')
  OBVIOUS
<1> HIDE DEF c, a
<1>5. \A u \in Procs : at'[u] = IF a[u] = "ppoll" /\ ~chain'[u].waits THEN "socket" ELSE a[u]
  BY <1>4 DEF Go
<1>6. at' \in [Procs -> Places]
  <2>1. \A u \in Procs : (IF a[u] = "ppoll" /\ ~chain'[u].waits THEN "socket" ELSE a[u]) \in Places
    BY <1>3 DEF Places
  <2> QED  BY <1>4, <2>1 DEF Go
<1>7. \A u \in Procs : chain[u].waits <=> at[u] = "ppoll"
  BY DEF Stage
<1>8. CASE Waiting(c) = {}
  <2>1. chain' = c
    BY <1>4, <1>8 DEF WakePendingShmat
  <2>2. \A u \in Procs \ {t} : UNCHANGED <<chain[u], at[u]>>
    BY <1>2, <1>3, <1>5, <1>7, <2>1
  <2>3. OneChain'
    BY <1>1, <1>2, <2>1 DEF OneChain
  <2> QED  BY <1>1, <1>2, <1>3, <1>5, <1>6, <2>1, <2>2, <2>3
<1>9. CASE Waiting(c) # {}
  <2> DEFINE w == Order[Min(Waiting(c))]
             d == [c EXCEPT ![w].waits = FALSE]
             e == [d EXCEPT ![w].state = "SOCKET"]
  <2>1. w \in Procs /\ c[w].waits
    <3>1. Waiting(c) \in SUBSET Nat
      BY Constants DEF Waiting
    <3>2. Min(Waiting(c)) \in Waiting(c)
      BY <1>9, <3>1, Least
    <3> QED  BY <3>2, Constants DEF Waiting
  <2>2. chain' = e
    BY <1>4, <1>9, Zenon DEF WakePendingShmat
  <2> HIDE DEF w
  <2>3. w # t /\ c[w] = chain[w] /\ chain[w] \in Chain
    BY <1>1, <1>2, <2>1 DEF Typed
  <2>4. /\ d \in [Procs -> Chain] /\ d[w].waits = FALSE /\ d[w].obj = chain[w].obj
        /\ \A u \in Procs \ {w} : d[u] = c[u]
    BY <1>2, <2>1, <2>3 DEF Chain
  <2> HIDE DEF d
  <2>5. /\ e \in [Procs -> Chain] /\ e[w].waits = FALSE /\ e[w].obj = chain[w].obj /\ e[w].state = "SOCKET"
        /\ \A u \in Procs \ {w} : e[u] = c[u]
    BY <2>1, <2>4 DEF Chain, Chained
  <2> HIDE DEF e
  <2>6. e[w] = [state |-> "SOCKET", waits |-> FALSE, obj |-> chain[w].obj]
    BY <2>1, <2>5 DEF Chain
  <2>7. at[w] = "ppoll" /\ at'[w] = "socket"
    BY <1>3, <1>5, <1>7, <2>1, <2>2, <2>3, <2>5
  <2>8. ASSUME NEW u \in Procs \ {t, w} PROVE UNCHANGED <<chain[u], at[u]>>
    <3>1. chain'[u] = c[u] /\ c[u] = chain[u] /\ a[u] = at[u] /\ (chain[u].waits <=> at[u] = "ppoll")
      BY <1>2, <1>3, <1>7, <2>2, <2>5
    <3>2. at'[u] = IF a[u] = "ppoll" /\ ~chain'[u].waits THEN "socket" ELSE a[u]
      BY <1>5
    <3> QED  BY <3>1, <3>2
  <2>9. chain'[t] = Rest /\ at'[t] = "user"
    BY <1>2, <1>3, <1>5, <2>2, <2>3, <2>5
  <2>10. OneChain'
    BY <1>1, <1>2, <2>2, <2>5, <2>9 DEF OneChain
  <2> QED  BY <1>6, <2>2, <2>5, <2>6, <2>7, <2>8, <2>9, <2>10
<1> QED  BY <1>8, <1>9

------------------------------------------------------------------------------
(* The steps of a chain                                                      *)

\* Nobody else is concerned.
Others(t) == \A u \in Procs \ {t} : UNCHANGED <<chain[u], at[u]>>

\* A tracee goes from one syscall of its chain to the next, or leaves it.
LEMMA Moves ==
  ASSUME Agreed, NEW t \in Procs, UNCHANGED <<segs, maps, memory, received, requests, backlog, open, crashed>>,
         at' \in [Procs -> Places], chain' \in [Procs -> Chain], Others(t),
         chain'[t].state # "NOT_CHAINED" => chain[t].state # "NOT_CHAINED",
         at[t] \notin Idle, at'[t] \notin {"unborn", "gone"}, at'[t] \notin Idle => chain'[t].obj = chain[t].obj,
         ~HasMapped(t), ~HasMapped(t)', ~Connected(t), ~Connected(t)', Stage(t)', Got(t)'
  PROVE  Agreed'
<1>1. Typed'
  BY Constants DEF Agreed, Typed, Table
<1>2. OneChain'
  BY NoChain DEF Agreed, Others
<1>3. Tabled'
  BY DEF Agreed, Tabled, File, Table, MapsOf
<1>4. Keeps
  BY DEF Keeps, SameFile, Agreed, Sound, Placed, Typed, Mapping
<1>5. \A u \in Procs \ {t} : Aside(u)
  BY DEF Aside, Lasts, Others
<1>6. Placed(t)'
  BY DEF Agreed, Sound, Placed, File, NoAddress, ENOMEM, LEFT, Idle
<1>7. Counted(t)'
  BY DEF Agreed, Sound, Counted, Idle
<1>8. at[t] # "gone"
  BY DEF Idle
<1>9. Sound(t)' /\ crashed' = FALSE
  BY <1>6, <1>7, Constants DEF Agreed, Typed, Sound
<1> QED  BY <1>1, <1>2, <1>3, <1>4, <1>5, <1>8, <1>9, Alone

LEMMA SocketKeeps ==
  ASSUME Agreed, NEW t \in Procs, Socket(t)
  PROVE  Agreed'
<1>1. /\ at[t] = "socket" /\ chain' = chain
      /\ UNCHANGED <<segs, maps, memory, received, requests, backlog, open, crashed>>
  BY DEF Socket
<1>2. PICK s \in {"done", "failed"} : at' = [at EXCEPT ![t] = s]
  BY DEF Socket, Ends
<1>3. /\ at' \in [Procs -> Places] /\ chain' \in [Procs -> Chain] /\ Others(t) /\ at'[t] = s /\ chain'[t] = chain[t]
  BY <1>1, <1>2 DEF Agreed, Typed, Places, Others
<1>4. chain[t].state = "SOCKET" /\ chain[t].waits = FALSE /\ chain[t].obj \in Table /\ Stage(t) /\ Got(t)
  BY <1>1 DEF Agreed, Sound, Stage, Idle, Typed, Chain
<1>5. Stage(t)'
  BY <1>2, <1>3, <1>4 DEF Stage, Idle, Chained, Table
<1>6. Got(t)'
  BY <1>1, <1>3, <1>4 DEF Got, Has, HasMapped, File, NoFile
<1>7. ~HasMapped(t) /\ ~HasMapped(t)' /\ ~Connected(t) /\ ~Connected(t)'
  BY <1>1, <1>3, <1>4 DEF HasMapped, Connected, Idle
<1> QED  BY <1>1, <1>2, <1>3, <1>5, <1>6, <1>7, Moves DEF Idle

\* A signal ends a wait: its pending mapping stays, with no address, and nothing else has begun.
LEMMA InterruptKeeps ==
  ASSUME Agreed, NEW t \in Procs, Interrupt(t)
  PROVE  Agreed' /\ at'[t] = "user" /\ Others(t)
         /\ \A m \in maps' : m.addr = LEFT \/ (m \in maps /\ m \notin Pending(t))
<1> DEFINE left(m) == IF m \in Pending(t) THEN [m EXCEPT !.addr = LEFT] ELSE m
<1>1. /\ at[t] = "ppoll" /\ chain' = [chain EXCEPT ![t] = Rest] /\ at' = [at EXCEPT ![t] = "user"]
      /\ maps' = {left(m) : m \in maps}
      /\ UNCHANGED <<segs, memory, received, requests, backlog, open, crashed>>
  BY DEF Interrupt, Ends
<1>2. Rest \in Chain /\ Rest.state = "NOT_CHAINED" /\ Rest.waits = FALSE
  BY DEF Rest, Chain
<1>3. /\ at' \in [Procs -> Places] /\ chain' \in [Procs -> Chain] /\ Others(t) /\ at'[t] = "user" /\ chain'[t] = Rest
  BY <1>1, <1>2 DEF Agreed, Typed, Places, Others, Idle
<1>4. Stage(t) /\ Got(t) /\ Placed(t) /\ Counted(t) /\ Typed /\ chain[t].state = "NOT_CHAINED"
  BY <1>1 DEF Agreed, Sound, Stage
<1>5. Stage(t)'
  BY <1>2, <1>3 DEF Stage, Idle, Rest
<1>6. Got(t)'
  BY <1>1, <1>2, <1>3, <1>4 DEF Got, Has, HasMapped, NoFile
<1>7. ~HasMapped(t) /\ ~HasMapped(t)' /\ ~Connected(t) /\ ~Connected(t)' /\ at[t] # "gone"
  BY <1>1, <1>2, <1>3, <1>4 DEF HasMapped, Connected
<1>8. ASSUME NEW m \in maps
      PROVE  /\ left(m) \in Mapping /\ left(m).proc = m.proc /\ left(m).slot = m.slot
             /\ left(m) = m \/ (m.addr = 0 /\ m.proc = t /\ left(m).addr = LEFT)
             /\ m \in Pending(t) => left(m).addr = LEFT
  <2>1. m \in Mapping /\ LEFT \in Int
    BY <1>4 DEF Typed, LEFT
  <2>2. CASE m \in Pending(t)
    <3>1. left(m) = [m EXCEPT !.addr = LEFT] /\ m.addr = 0 /\ m.proc = t
      BY <2>2 DEF Pending
    <3>2. left(m) \in Mapping /\ left(m).proc = m.proc /\ left(m).slot = m.slot /\ left(m).addr = LEFT
      BY <2>1, <3>1 DEF Mapping
    <3> QED  BY <3>1, <3>2
  <2>3. CASE m \notin Pending(t)
    BY <2>1, <2>3
  <2> QED  BY <2>2, <2>3
<1> HIDE DEF left
<1>9. maps' \subseteq Mapping /\ \A n \in maps' : \E m \in maps : n = left(m) /\ n.slot = m.slot /\ n.proc = m.proc
  BY <1>1, <1>8
<1>10. Typed'
  BY <1>1, <1>3, <1>4, <1>9 DEF Typed, Table
<1>11. OneChain'
  BY <1>3, <1>4, <1>2, NoChain DEF Agreed, Others
<1>12. Tabled'
  <2>1. ASSUME NEW i \in Table, MapsOf(maps, i) # {} PROVE MapsOf(maps', i) # {}
    <3>1. PICK m \in maps : m.slot = i
      BY <2>1 DEF MapsOf
    <3>2. left(m) \in maps' /\ left(m).slot = i
      BY <1>1, <1>8, <3>1
    <3> QED  BY <3>2 DEF MapsOf
  <2> QED  BY <1>1, <2>1 DEF Agreed, Tabled, File, Table
<1>13. Keeps
  BY <1>1 DEF Keeps, SameFile, Agreed, Sound, Placed, Typed, Mapping
<1>14. ASSUME NEW m \in Mapping, m.proc = t => m.addr # 0 /\ m.addr # LEFT PROVE m \in maps <=> m \in maps'
  BY <1>1, <1>8, <1>9, <1>14
<1>15. \A u \in Procs \ {t} : Aside(u)
  BY <1>1, <1>3, <1>14 DEF Aside, Lasts, Others
<1>16. Placed(t)'
  <2>1. ASSUME NEW n \in maps', n.proc = t
        PROVE  segs[n.slot].valid /\ (n.addr \notin NoAddress => [addr |-> n.addr, seg |-> File(n.slot)] \in memory[t])
    <3>1. PICK m \in maps : n = left(m) /\ n.slot = m.slot /\ n.proc = m.proc
      BY <1>9
    <3>2. segs[m.slot].valid /\ (m.addr \notin NoAddress => [addr |-> m.addr, seg |-> File(m.slot)] \in memory[t])
      BY <1>4, <2>1, <3>1 DEF Placed
    <3>3. n = m \/ n.addr \in NoAddress
      BY <1>8, <3>1 DEF NoAddress
    <3> QED  BY <3>1, <3>2, <3>3
  <2>2. \A n \in maps' : n.proc = t =>
          /\ segs'[n.slot].valid
          /\ n.addr \notin NoAddress => [addr |-> n.addr, seg |-> (File(n.slot))'] \in memory'[t]
    BY <1>1, <2>1 DEF File
  <2> QED  BY <1>3, <2>2 DEF Placed, Idle, NoAddress, ENOMEM, LEFT
<1>17. Counted(t)'
  <2>1. \A x \in memory[t] : \E m \in maps' : m.proc = t /\ m.addr = x.addr
    <3>1. \A x \in memory[t] : x.addr # 0 /\ x.addr # LEFT
      BY <1>4 DEF Typed, Page, LEFT
    <3>2. \A x \in memory[t] : \E m \in maps : m.proc = t /\ m.addr = x.addr
      BY <1>4, <1>7 DEF Counted
    <3> QED  BY <1>4, <1>14, <3>1, <3>2 DEF Typed
  <2> QED  BY <1>1, <1>3, <1>4, <1>7, <2>1 DEF Counted
<1>18. Sound(t)' /\ crashed' = FALSE
  BY <1>1, <1>5, <1>6, <1>16, <1>17 DEF Agreed, Sound
<1>19. Agreed'
  BY <1>1, <1>7, <1>10, <1>11, <1>12, <1>13, <1>15, <1>18, Alone
<1> QED  BY <1>3, <1>8, <1>9, <1>19

\* A chain that goes on to its next syscall.
LEMMA GoesOn ==
  ASSUME Agreed, NEW t \in Procs, NEW s, NEW p, at[t] = "done", p # "NOT_CHAINED",
         \/ chain[t].state = "SOCKET" /\ s = "CONNECT" /\ p = "connect"
         \/ chain[t].state = "RECVMSG" /\ s = "MMAP" /\ p = "mmap",
         chain' = [chain EXCEPT ![t].state = s], at' = [at EXCEPT ![t] = p],
         UNCHANGED <<segs, maps, memory, received, requests, backlog, open, crashed>>
  PROVE  Agreed'
<1>1. /\ at' \in [Procs -> Places] /\ chain' \in [Procs -> Chain] /\ Others(t) /\ at'[t] = p
      /\ chain'[t].state = s /\ chain'[t].obj = chain[t].obj /\ chain'[t].waits = chain[t].waits
  BY DEF Agreed, Typed, Places, Others, Chain, Chained
<1>2. Stage(t) /\ Got(t) /\ chain[t].obj \in Table /\ chain[t].waits = FALSE
  BY DEF Agreed, Sound, Stage, Idle, Typed, Chain
<1>3. Stage(t)'
  BY <1>1, <1>2 DEF Stage, Idle, Table
<1>4. Got(t)'
  BY <1>1, <1>2 DEF Got, Has, HasMapped, File, NoFile
<1>5. ~HasMapped(t) /\ ~HasMapped(t)' /\ ~Connected(t) /\ ~Connected(t)'
  BY <1>1 DEF HasMapped, Connected, Idle
<1> QED  BY <1>1, <1>2, <1>3, <1>4, <1>5, Moves DEF Idle

\* connect(2): what is left of the others in the queue of the helper is of processes that are gone.
LEMMA ConnectKeeps ==
  ASSUME Agreed, NEW t \in Procs, Connect(t)
  PROVE  Agreed'
<1>1. /\ at[t] = "connect" /\ chain' = chain
      /\ UNCHANGED <<segs, maps, memory, received, requests, open, crashed>>
  BY DEF Connect
<1>2. PICK s \in {"done", "failed"} :
        /\ at' = [at EXCEPT ![t] = s]
        /\ IF s = "done" THEN backlog' = Append(backlog, t) ELSE UNCHANGED backlog
  BY DEF Connect, Ends
<1>3. /\ at' \in [Procs -> Places] /\ chain' \in [Procs -> Chain] /\ Others(t) /\ at'[t] = s /\ chain'[t] = chain[t]
  BY <1>1, <1>2 DEF Agreed, Typed, Places, Others
<1>4. chain[t].state = "CONNECT" /\ chain[t].waits = FALSE /\ chain[t].obj \in Table /\ Stage(t) /\ Got(t)
  BY <1>1 DEF Agreed, Sound, Stage, Idle, Typed, Chain
<1>5. Stage(t)'
  BY <1>2, <1>3, <1>4 DEF Stage, Idle, Chained, Table
<1>6. Got(t)'
  BY <1>1, <1>3, <1>4 DEF Got, Has, HasMapped, File, NoFile
<1>7. ~HasMapped(t) /\ ~HasMapped(t)' /\ ~Connected(t)
  BY <1>1, <1>3, <1>4 DEF HasMapped, Connected, Idle
<1>8. CASE s = "failed"
  <2>1. ~Connected(t)'
    BY <1>3, <1>4, <1>8 DEF Connected
  <2> QED  BY <1>1, <1>2, <1>3, <1>5, <1>6, <1>7, <1>8, <2>1, Moves DEF Idle
<1>9. CASE s = "done"
  <2>1. backlog \in Seq(Procs) /\ requests \in Seq(Files) /\ Len(requests) <= Len(backlog)
    BY DEF Agreed, Typed, Exchange
  <2>2. /\ backlog' = Append(backlog, t) /\ backlog' \in Seq(Procs) /\ Len(backlog') = Len(backlog) + 1
        /\ Len(backlog) \in Nat /\ backlog'[Len(backlog) + 1] = t
        /\ \A n \in 1 .. Len(backlog) : backlog'[n] = backlog[n]
    BY <1>2, <1>9, <2>1, Longer
  <2>3. ASSUME NEW n \in 1 .. Len(backlog) PROVE at[backlog[n]] = "gone" /\ backlog[n] \in Procs \ {t}
    <3>1. at[backlog[n]] # "gone" => Connected(backlog[n])
      BY DEF Agreed, Exchange
    <3>2. backlog[n] \in Procs
      BY <2>1
    <3>3. Connected(backlog[n]) => backlog[n] = t
      BY <1>4, <3>2 DEF Agreed, OneChain, Connected
    <3> QED  BY <1>1, <1>7, <3>1, <3>2, <3>3
  <2>4. ASSUME NEW n \in 1 .. Len(backlog) PROVE chain'[backlog[n]] = Rest /\ at'[backlog[n]] = "gone"
    BY <1>1, <1>3, <2>3 DEF Agreed, Sound, Stage, Idle, Others
  <2>5. Exchange'
    <3>1. Len(requests') <= Len(backlog')
      BY <1>1, <2>1, <2>2
    <3>2. ASSUME NEW n \in 1 .. Len(backlog')
          PROVE  /\ at'[backlog'[n]] # "gone" => n = Len(backlog') /\ Connected(backlog[n])'
                 /\ chain'[backlog'[n]].state = "CONNECT" => Len(requests') < Len(backlog')
                 /\ chain'[backlog'[n]].state = "RECVMSG" /\ Len(requests') = Len(backlog') =>
                      requests'[Len(requests')] = (File(chain[backlog[n]].obj))'
                 /\ \A m \in 1 .. Len(backlog') : backlog'[m] = backlog'[n] => m = n
      <4>1. CASE n = Len(backlog')
        <5>1. Connected(t)' /\ chain'[t].state = "CONNECT"
          BY <1>3, <1>4, <1>9 DEF Connected
        <5>2. backlog'[n] = t
          BY <2>2, <4>1
        <5>3. \A m \in 1 .. Len(backlog') : backlog'[m] = t => m = n
          BY <2>2, <2>3, <4>1
        <5>4. Len(requests') < Len(backlog')
          BY <1>1, <2>1, <2>2
        <5> QED  BY <4>1, <5>1, <5>2, <5>3, <5>4 DEF Connected
      <4>2. CASE n # Len(backlog')
        <5>1. n \in 1 .. Len(backlog) /\ backlog'[n] = backlog[n]
          BY <2>2, <4>2
        <5>2. chain'[backlog[n]].state = "NOT_CHAINED" /\ at'[backlog[n]] = "gone" /\ backlog[n] # t
          BY <2>3, <2>4, <5>1 DEF Rest
        <5>3. \A m \in 1 .. Len(backlog) : backlog[m] = backlog[n] => m = n
          BY <5>1 DEF Agreed, Exchange
        <5>4. \A m \in 1 .. Len(backlog') : backlog'[m] = backlog[n] => m = n
          BY <2>2, <5>2, <5>3
        <5> QED  BY <5>1, <5>2, <5>4
      <4> QED  BY <4>1, <4>2
    <3>3. ASSUME NEW u \in Procs, chain'[u].state = "CONNECT"
          PROVE  \E n \in 1 .. Len(backlog') : backlog'[n] = u
      <4>1. u = t
        BY <1>1, <1>4, <3>3 DEF Agreed, OneChain
      <4> QED  BY <2>2, <4>1
    <3> QED  BY <3>1, <3>2, <3>3 DEF Exchange
  <2>6. Keeps /\ \A u \in Procs \ {t} : Aside(u)
    BY <1>1, <1>3 DEF Keeps, SameFile, Aside, Lasts, Others, Agreed, Sound, Placed, Typed, Mapping
  <2>7. Sound(t)'
    <3>1. Placed(t)'
      BY <1>1, <1>2, <1>3, <1>4 DEF Agreed, Sound, Placed, File, NoAddress, ENOMEM, LEFT, Idle
    <3>2. Counted(t)'
      BY <1>1, <1>2, <1>3, <1>7 DEF Agreed, Sound, Counted
    <3> QED  BY <1>5, <1>6, <3>1, <3>2 DEF Sound
  <2>8. Typed'
    BY <1>1, <1>3, <2>2 DEF Agreed, Typed, Table
  <2>9. \A u \in Procs : Sound(u)'
    <3>1. maps' \subseteq Mapping
      BY <1>1, Constants DEF Agreed, Typed
    <3> QED  BY <2>6, <2>7, <3>1, Untouched DEF Agreed
  <2>10. OneChain' /\ Tabled' /\ crashed' = FALSE
    BY <1>1 DEF Agreed, OneChain, Tabled, File, Table, MapsOf
  <2> QED  BY <2>5, <2>8, <2>9, <2>10 DEF Agreed
<1> QED  BY <1>8, <1>9

\* PRoot asks the helper for the segment, once the tracee is connected.
LEMMA Asks ==
  ASSUME Agreed, NEW t \in Procs, at[t] = "done", chain[t].state = "CONNECT",
         requests' = Append(requests, File(chain[t].obj)), chain' = [chain EXCEPT ![t].state = "RECVMSG"],
         at' = [at EXCEPT ![t] = IF received[t].file # NoFile THEN "done" ELSE "recvmsg"],
         UNCHANGED <<segs, maps, memory, received, backlog, open, crashed>>
  PROVE  Agreed'
<1>1. chain[t].waits = FALSE /\ chain[t].obj \in Table /\ Stage(t) /\ Got(t)
  BY DEF Agreed, Sound, Stage, Idle, Typed, Chain
<1>2. received[t].file = NoFile
  BY <1>1 DEF Got, Has
<1>3. /\ at' \in [Procs -> Places] /\ chain' \in [Procs -> Chain] /\ Others(t) /\ at'[t] = "recvmsg"
      /\ chain'[t].state = "RECVMSG" /\ chain'[t].obj = chain[t].obj /\ chain'[t].waits = chain[t].waits
  BY <1>2 DEF Agreed, Typed, Places, Others, Chain, Chained
<1>4. Stage(t)'
  BY <1>1, <1>3 DEF Stage, Idle, Table
<1>5. Got(t)'
  BY <1>1, <1>2, <1>3 DEF Got, Has, HasMapped, NoFile
<1>6. ~HasMapped(t) /\ ~HasMapped(t)' /\ Connected(t)'
  BY <1>3 DEF HasMapped, Connected, Idle
<1>7. /\ requests \in Seq(Files) /\ File(chain[t].obj) \in Files /\ backlog \in Seq(Procs)
      /\ segs \in [Table -> Segment]
  BY <1>1, Constants DEF Agreed, Typed, Files, File, Segment
<1>8. /\ requests' \in Seq(Files) /\ Len(requests') = Len(requests) + 1 /\ Len(requests) \in Nat
      /\ requests'[Len(requests) + 1] = File(chain[t].obj)
  BY <1>7, Longer
<1>9. PICK k \in 1 .. Len(backlog) : backlog[k] = t
  BY DEF Agreed, Exchange
<1>10. /\ k = Len(backlog) /\ Len(requests) < Len(backlog) /\ Len(backlog) \in Nat
       /\ \A n \in 1 .. Len(backlog) : backlog[n] = t => n = k
  BY <1>7, <1>9 DEF Agreed, Exchange
<1>11. Exchange'
  <2>1. Len(requests') <= Len(backlog)
    BY <1>8, <1>10
  <2>2. ASSUME NEW n \in 1 .. Len(backlog), n # k
        PROVE  /\ at'[backlog[n]] = "gone" /\ chain'[backlog[n]].state = "NOT_CHAINED"
               /\ \A m \in 1 .. Len(backlog) : backlog[m] = backlog[n] => m = n
    <3>1. /\ at[backlog[n]] # "gone" => n = Len(backlog)
          /\ \A m \in 1 .. Len(backlog) : backlog[m] = backlog[n] => m = n
      BY DEF Agreed, Exchange
    <3>2. backlog[n] \in Procs \ {t} /\ at[backlog[n]] = "gone"
      BY <1>7, <1>10, <2>2, <3>1
    <3>3. chain[backlog[n]] = Rest
      BY <3>2 DEF Agreed, Sound, Stage, Idle
    <3> QED  BY <1>3, <3>1, <3>2, <3>3 DEF Others, Rest
  <2>3. (File(chain[t].obj))' = File(chain[t].obj)
    BY <1>3 DEF File
  <2>4. ASSUME NEW n \in 1 .. Len(backlog)
        PROVE  /\ at'[backlog[n]] # "gone" => n = Len(backlog) /\ Connected(backlog[n])'
               /\ chain'[backlog[n]].state = "CONNECT" => Len(requests') < Len(backlog)
               /\ chain'[backlog[n]].state = "RECVMSG" /\ Len(requests') = Len(backlog) =>
                    requests'[Len(requests')] = (File(chain[backlog[n]].obj))'
               /\ \A m \in 1 .. Len(backlog) : backlog[m] = backlog[n] => m = n
    <3>1. CASE n = k
      <4>1. requests'[Len(requests')] = (File(chain[t].obj))'
        BY <1>8, <2>3
      <4> QED  BY <1>3, <1>6, <1>9, <1>10, <3>1, <4>1 DEF Connected, File
    <3>2. CASE n # k
      BY <2>2, <3>2
    <3> QED  BY <3>1, <3>2
  <2>5. ASSUME NEW u \in Procs, chain'[u].state = "CONNECT" /\ at'[u] = "done"
        PROVE  \E n \in 1 .. Len(backlog) : backlog[n] = u
    <3>1. UNCHANGED <<chain[u], at[u]>>
      BY <1>3, <2>5 DEF Others
    <3> QED  BY <2>5, <3>1 DEF Agreed, Exchange
  <2> QED  BY <2>1, <2>4, <2>5 DEF Exchange
<1>12. Keeps /\ \A u \in Procs \ {t} : Aside(u)
  BY <1>3 DEF Keeps, SameFile, Aside, Lasts, Others, Agreed, Sound, Placed, Typed, Mapping
<1>13. Sound(t)'
  <2>1. Placed(t)'
    BY <1>3 DEF Agreed, Sound, Placed, File, NoAddress, ENOMEM, LEFT, Idle
  <2>2. Counted(t)'
    BY <1>3, <1>6 DEF Agreed, Sound, Counted
  <2> QED  BY <1>4, <1>5, <2>1, <2>2 DEF Sound
<1>14. Typed'
  BY <1>3, <1>8 DEF Agreed, Typed, Table
<1>15. \A u \in Procs : Sound(u)'
  <2>1. maps' \subseteq Mapping
    BY Constants DEF Agreed, Typed
  <2> QED  BY <1>12, <1>13, <2>1, Untouched DEF Agreed
<1>16. OneChain'
  BY <1>3, NoChain DEF Agreed, Others
<1>17. Tabled' /\ crashed' = FALSE
  BY DEF Agreed, Tabled, File, Table, MapsOf
<1> QED  BY <1>11, <1>14, <1>15, <1>16, <1>17 DEF Agreed

\* The helper answers: whoever it answers still waits for that very segment, unless it is gone.
LEMMA HelperKeeps ==
  ASSUME Agreed, Helper
  PROVE  Agreed'
<1>0. /\ requests # <<>> /\ backlog # <<>> /\ requests' = Tail(requests) /\ backlog' = Tail(backlog)
      /\ requests \in Seq(Files) /\ backlog \in Seq(Procs)
  BY DEF Helper, Agreed, Typed
<1>b. PICK b \in Procs : b = Head(backlog)
  BY <1>0, Rests
<1>r. PICK r \in Files : r = Head(requests)
  BY <1>0, Rests
<1>1. /\ received' = [received EXCEPT ![b].file = IF r \in open THEN r ELSE @]
      /\ at' = [at EXCEPT ![b] = IF @ # "recvmsg" THEN @ ELSE IF r \in open THEN "done" ELSE "failed"]
      /\ UNCHANGED <<segs, maps, chain, memory, open, crashed>>
  BY <1>b, <1>r DEF Helper
<1>2. /\ Len(backlog) \in Nat \ {0} /\ b = backlog[1] /\ b \in Procs /\ backlog' \in Seq(Procs)
      /\ Len(backlog') = Len(backlog) - 1 /\ \A n \in 1 .. Len(backlog) - 1 : backlog'[n] = backlog[n + 1]
  BY <1>0, <1>b, Rests
<1>3. /\ Len(requests) \in Nat \ {0} /\ r = requests[1] /\ r \in Files /\ requests' \in Seq(Files)
      /\ Len(requests') = Len(requests) - 1 /\ \A n \in 1 .. Len(requests) - 1 : requests'[n] = requests[n + 1]
  BY <1>0, <1>r, Rests
<1>4. /\ Len(requests) <= Len(backlog)
      /\ \A n \in 1 .. Len(backlog) :
           /\ at[backlog[n]] # "gone" => n = Len(backlog) /\ Connected(backlog[n])
           /\ chain[backlog[n]].state = "CONNECT" => Len(requests) < Len(backlog)
           /\ chain[backlog[n]].state = "RECVMSG" /\ Len(requests) = Len(backlog) =>
                requests[Len(requests)] = File(chain[backlog[n]].obj)
           /\ \A m \in 1 .. Len(backlog) : backlog[m] = backlog[n] => m = n
      /\ \A t \in Procs : chain[t].state = "CONNECT" /\ at[t] = "done" => \E n \in 1 .. Len(backlog) : backlog[n] = t
  BY DEF Agreed, Exchange
<1>5. ASSUME at[b] # "gone"
      PROVE  /\ chain[b].state = "RECVMSG" /\ at[b] = "recvmsg" /\ r = File(chain[b].obj) /\ r \in open
             /\ chain[b].obj \in Table /\ chain[b].waits = FALSE
  <2>1. Len(backlog) = 1 /\ Connected(b)
    BY <1>2, <1>4, <1>5
  <2>2. Len(requests) = 1
    BY <1>3, <1>4, <2>1
  <2>3. chain[b].state = "RECVMSG" /\ at[b] = "recvmsg"
    BY <1>2, <1>4, <2>1, <2>2 DEF Connected
  <2>4. r = File(chain[b].obj)
    BY <1>2, <1>3, <1>4, <2>1, <2>2, <2>3
  <2>5. [proc |-> b, slot |-> chain[b].obj, addr |-> 0] \in maps /\ chain[b].obj \in Table /\ chain[b].waits = FALSE
    BY <1>2, <2>3 DEF Agreed, Sound, Placed, Stage, Idle, Typed, Chain
  <2>6. segs[chain[b].obj].valid
    BY <1>2, <2>5 DEF Agreed, Sound, Placed
  <2> QED  BY <2>3, <2>4, <2>5, <2>6 DEF Agreed, Tabled
<1>6. received' \in [Procs -> Message] /\ \A u \in Procs \ {b} : received'[u] = received[u]
  <2>1. (IF r \in open THEN r ELSE received[b].file) \in Files /\ received \in [Procs -> Message]
    BY <1>2, <1>3 DEF Agreed, Typed, Message
  <2> QED  BY <1>1, <1>2, <2>1 DEF Message
<1>7. at' \in [Procs -> Places] /\ \A u \in Procs \ {b} : at'[u] = at[u]
  BY <1>1, <1>2 DEF Agreed, Typed, Places
<1>8. at[b] = "gone" => at'[b] = "gone"
  BY <1>1, <1>2 DEF Agreed, Typed
<1>9. at[b] # "gone" => /\ at'[b] = "done" /\ received'[b].file = r /\ received'[b] \in Message
  BY <1>1, <1>2, <1>5, <1>6 DEF Agreed, Typed, Message
<1>10. \A u \in Procs : at'[u] = "gone" <=> at[u] = "gone"
  BY <1>7, <1>8, <1>9
<1>11. Typed'
  BY <1>1, <1>2, <1>3, <1>6, <1>7 DEF Agreed, Typed, Table
<1>12. Exchange'
  <2>1. Len(requests') <= Len(backlog')
    BY <1>2, <1>3, <1>4
  <2>2. ASSUME NEW n \in 1 .. Len(backlog')
        PROVE  /\ at'[backlog'[n]] # "gone" => n = Len(backlog') /\ Connected(backlog[n])'
               /\ chain'[backlog'[n]].state = "CONNECT" => Len(requests') < Len(backlog')
               /\ chain'[backlog'[n]].state = "RECVMSG" /\ Len(requests') = Len(backlog') =>
                    requests'[Len(requests')] = (File(chain[backlog[n]].obj))'
               /\ \A m \in 1 .. Len(backlog') : backlog'[m] = backlog'[n] => m = n
    <3> DEFINE u == backlog[n + 1]
    <3>1. n + 1 \in 1 .. Len(backlog) /\ backlog'[n] = u /\ u \in Procs /\ u # b
      <4>1. 1 \in 1 .. Len(backlog) /\ n + 1 \in 1 .. Len(backlog) /\ n + 1 # 1 /\ n \in 1 .. Len(backlog) - 1
        BY <1>2
      <4>2. backlog[1] # backlog[n + 1]
        BY <1>4, <4>1
      <4> QED  BY <1>0, <1>2, <4>1, <4>2
    <3>2. /\ at[u] # "gone" => n + 1 = Len(backlog) /\ Connected(u)
          /\ chain[u].state = "CONNECT" => Len(requests) < Len(backlog)
          /\ chain[u].state = "RECVMSG" /\ Len(requests) = Len(backlog) => requests[Len(requests)] = File(chain[u].obj)
          /\ \A m \in 1 .. Len(backlog) : backlog[m] = u => m = n + 1
      BY <1>4, <3>1
    <3> HIDE DEF u
    <3>3. at'[u] = at[u] /\ chain'[u] = chain[u]
      BY <1>1, <1>7, <3>1
    <3>4. at'[backlog'[n]] # "gone" => n = Len(backlog') /\ Connected(backlog[n])'
      BY <1>2, <3>1, <3>2, <3>3 DEF Connected
    <3>5. chain'[backlog'[n]].state = "CONNECT" => Len(requests') < Len(backlog')
      BY <1>2, <1>3, <3>1, <3>2, <3>3
    <3>6. ASSUME chain'[backlog'[n]].state = "RECVMSG", Len(requests') = Len(backlog')
          PROVE  requests'[Len(requests')] = (File(chain[backlog[n]].obj))'
      <4>1. requests[Len(requests)] = File(chain[u].obj) /\ Len(requests) = Len(backlog)
        BY <1>2, <1>3, <3>1, <3>2, <3>3, <3>6
      <4>2. Len(requests') \in 1 .. Len(requests) - 1 /\ Len(requests') + 1 = Len(requests)
        BY <1>2, <1>3, <3>6
      <4>3. requests'[Len(requests')] = requests[Len(requests)]
        BY <1>3, <4>2
      <4> QED  BY <1>1, <3>1, <3>3, <4>1, <4>3 DEF File
    <3>7. ASSUME NEW m \in 1 .. Len(backlog'), backlog'[m] = backlog'[n] PROVE m = n
      <4>1. m \in 1 .. Len(backlog) - 1 /\ m + 1 \in 1 .. Len(backlog)
        BY <1>2
      <4>2. backlog[m + 1] = u
        BY <1>2, <3>1, <3>7, <4>1
      <4>3. m + 1 = n + 1
        BY <3>2, <4>1, <4>2
      <4> QED  BY <4>1, <4>3
    <3> QED  BY <3>4, <3>5, <3>6, <3>7
  <2>3. ASSUME NEW u \in Procs, chain'[u].state = "CONNECT", at'[u] = "done"
        PROVE  \E n \in 1 .. Len(backlog') : backlog'[n] = u
    <3>1. u # b
      BY <1>1, <1>5, <1>8, <2>3
    <3>2. PICK n \in 1 .. Len(backlog) : backlog[n] = u
      BY <1>1, <1>4, <1>7, <2>3, <3>1
    <3>3. n - 1 \in 1 .. Len(backlog') /\ backlog'[n - 1] = u
      <4>1. n # 1
        <5>1. b = backlog[1]
          BY <1>2
        <5> QED  BY <3>1, <3>2, <5>1, Zenon
      <4>2. n - 1 \in 1 .. Len(backlog) - 1 /\ (n - 1) + 1 = n
        BY <1>2, <4>1
      <4>3. n - 1 \in 1 .. Len(backlog') /\ backlog'[n - 1] = backlog[(n - 1) + 1]
        BY <1>2, <4>2
      <4> QED  BY <3>2, <4>2, <4>3
    <3> QED  BY <3>3
  <2> QED  BY <2>1, <2>2, <2>3 DEF Exchange
<1>13. Keeps
  BY <1>1 DEF Keeps, SameFile, Agreed, Sound, Placed, Typed, Mapping
<1>14. Sound(b)'
  <2>1. CASE at[b] = "gone"
    <3>1. at'[b] = "gone" /\ chain'[b] = Rest /\ chain[b] = Rest /\ memory[b] = {} /\ memory'[b] = {}
      BY <1>1, <1>2, <1>8, <2>1 DEF Agreed, Sound, Stage, Counted, Idle
    <3>2. Stage(b)'
      BY <3>1 DEF Stage, Rest, Idle
    <3>3. Got(b)'
      BY <3>1 DEF Got, Has, HasMapped, Rest
    <3>4. Placed(b)'
      BY <1>1, <1>2, <2>1, <3>1 DEF Agreed, Sound, Placed, Idle
    <3>5. Counted(b)'
      BY <1>2, <3>1 DEF Agreed, Sound, Counted, HasMapped
    <3> QED  BY <3>2, <3>3, <3>4, <3>5 DEF Sound
  <2>2. CASE at[b] # "gone"
    <3>1. /\ at[b] = "recvmsg" /\ at'[b] = "done" /\ chain'[b] = chain[b] /\ chain[b].state = "RECVMSG"
          /\ received'[b].file = File(chain[b].obj) /\ chain[b].obj \in Table /\ chain[b].waits = FALSE
          /\ memory'[b] = memory[b]
      BY <1>1, <1>5, <1>9, <2>2
    <3>2. Stage(b)'
      BY <3>1 DEF Stage, Idle, Chained, Table
    <3>3. Got(b)'
      BY <1>1, <3>1 DEF Got, Has, HasMapped, File
    <3>4. Placed(b)'
      BY <1>1, <1>2, <3>1 DEF Agreed, Sound, Placed, File, NoAddress, ENOMEM, LEFT, Idle
    <3>5. Counted(b)'
      <4>1. ~HasMapped(b) /\ ~HasMapped(b)'
        BY <1>1, <3>1 DEF HasMapped
      <4> QED  BY <1>1, <1>2, <3>1, <4>1 DEF Agreed, Sound, Counted
    <3> QED  BY <3>2, <3>3, <3>4, <3>5 DEF Sound
  <2> QED  BY <2>1, <2>2
<1>15. \A u \in Procs : Sound(u)'
  <2>1. maps' \subseteq Mapping
    BY <1>1, Constants DEF Agreed, Typed
  <2>2. \A u \in Procs \ {b} : Aside(u)
    BY <1>1, <1>6, <1>7 DEF Aside, Lasts
  <2> QED  BY <1>13, <1>14, <2>1, <2>2, Untouched DEF Agreed
<1>16. OneChain' /\ Tabled' /\ crashed' = FALSE
  BY <1>1 DEF Agreed, OneChain, Tabled, File, Table, MapsOf
<1> QED  BY <1>11, <1>12, <1>15, <1>16 DEF Agreed

\* There is room behind as many pages as there are.
LEMMA Room ==
  ASSUME NEW used, IsFiniteSet(used), NEW addr, addr = Min((1 .. Cardinality(used) + 1) \ used)
  PROVE  addr \in Nat \ {0} /\ addr \notin used
<1> DEFINE n == Cardinality(used)
           free == (1 .. n + 1) \ used
<1>1. n \in Nat
  BY FS_CardinalityType
<1> HIDE DEF n
<1>2. IsFiniteSet(1 .. n + 1) /\ Cardinality(1 .. n + 1) = n + 1
  BY <1>1, FS_Interval
<1>3. free # {}
  <2>1. SUFFICES ASSUME free = {} PROVE FALSE
    OBVIOUS
  <2>2. 1 .. n + 1 \subseteq used
    BY <2>1
  <2>3. Cardinality(1 .. n + 1) <= Cardinality(used)
    BY <1>1, <2>2, FS_Subset
  <2> QED  BY <1>1, <1>2, <2>3 DEF n
<1>4. free \in SUBSET Nat
  BY <1>1
<1> HIDE DEF free
<1>5. Min(free) \in free
  BY <1>3, <1>4, Least
<1>6. Min(free) \in Nat \ {0} /\ Min(free) \notin used
  BY <1>1, <1>5 DEF free
<1> QED  BY <1>6 DEF free, n

\* mmap(2): the page goes where there is none.
LEMMA MmapKeeps ==
  ASSUME Agreed, NEW t \in Procs, Mmap(t)
  PROVE  Agreed'
<1>1. at[t] = "mmap" /\ UNCHANGED <<segs, maps, chain, requests, backlog, open, crashed>>
  BY DEF Mmap
<1>2. /\ chain[t].state = "MMAP" /\ chain[t].waits = FALSE /\ chain[t].obj \in Table /\ Stage(t) /\ Got(t)
      /\ Placed(t) /\ Counted(t) /\ Typed
  BY <1>1 DEF Agreed, Sound, Stage, Idle, Typed, Chain
<1>3. received[t].file = File(chain[t].obj) /\ File(chain[t].obj) \in Files /\ received[t] \in Message
  <2>1. chain[t].obj \in Table /\ segs[chain[t].obj].generation \in Nat
    BY <1>2 DEF Typed, Segment
  <2> QED  BY <1>2, <2>1, Constants DEF Got, Has, Typed, File, Files
<1>4. ~Connected(t) /\ at[t] # "gone" /\ at[t] \notin Idle /\ ~HasMapped(t)
  BY <1>1, <1>2 DEF Connected, Idle, HasMapped
<1>5. CASE at' = [at EXCEPT ![t] = "failed"] /\ UNCHANGED <<memory, received>>
  <2>1. /\ at' \in [Procs -> Places] /\ chain' \in [Procs -> Chain] /\ Others(t) /\ at'[t] = "failed"
        /\ chain'[t] = chain[t]
    BY <1>1, <1>2, <1>5 DEF Typed, Places, Others
  <2>2. Stage(t)'
    BY <1>2, <2>1 DEF Stage, Idle, Chained, Table
  <2>3. Got(t)'
    BY <1>1, <1>2, <1>5, <2>1 DEF Got, Has, HasMapped, File, NoFile
  <2>4. ~HasMapped(t)' /\ ~Connected(t)'
    BY <1>2, <2>1 DEF HasMapped, Connected, Idle
  <2> QED  BY <1>1, <1>2, <1>4, <1>5, <2>1, <2>2, <2>3, <2>4, Moves DEF Idle
<1>6. CASE ~(at' = [at EXCEPT ![t] = "failed"] /\ UNCHANGED <<memory, received>>)
  <2> DEFINE used == {x.addr : x \in memory[t]}
             free == (1 .. Cardinality(used) + 1) \ used
  <2>1. PICK addr : /\ addr = Min(free) /\ received' = [received EXCEPT ![t].addr = addr]
                    /\ memory' = [memory EXCEPT ![t] = @ \cup {[addr |-> addr, seg |-> received[t].file]}]
                    /\ at' = [at EXCEPT ![t] = "done"]
    BY <1>6 DEF Mmap, Ends
  <2>2. addr \in Nat \ {0} /\ addr \notin NoAddress /\ \A x \in memory[t] : x.addr # addr
    <3>1. IsFiniteSet(used)
      BY <1>2 DEF Counted
    <3>2. addr \in Nat \ {0} /\ addr \notin used
      BY <2>1, <3>1, Room
    <3> QED  BY <3>2 DEF NoAddress, ENOMEM, LEFT
  <2> HIDE DEF free, used
  <2>7. /\ at' \in [Procs -> Places] /\ at'[t] = "done" /\ Others(t)
        /\ \A u \in Procs \ {t} : memory'[u] = memory[u] /\ received'[u] = received[u]
        /\ received' \in [Procs -> Message] /\ received'[t].file = received[t].file /\ received'[t].addr = addr
    BY <1>1, <1>2, <2>1, <2>2 DEF Typed, Message, Places, Others
  <2>8. /\ memory'[t] = memory[t] \cup {[addr |-> addr, seg |-> received[t].file]}
        /\ memory' \in [Procs -> SUBSET Page]
    <3>1. [addr |-> addr, seg |-> received[t].file] \in Page
      BY <1>3, <2>2 DEF Page
    <3> QED  BY <1>2, <2>1, <3>1 DEF Typed
  <2>9. Typed'
    BY <1>1, <1>2, <2>7, <2>8 DEF Typed, Table
  <2>10. Stage(t)'
    BY <1>1, <1>2, <2>7 DEF Stage, Idle, Chained, Table
  <2>11. Got(t)'
    BY <1>1, <1>2, <1>3, <2>7, <2>8 DEF Got, Has, HasMapped, File, NoFile
  <2>12. Placed(t)'
    <3>1. at'[t] \notin {"unborn", "gone"} /\ [proc |-> t, slot |-> chain[t].obj, addr |-> 0] \in maps
      BY <1>2, <1>4, <2>7 DEF Placed
    <3>2. \A m \in maps : m.proc = t =>
            /\ segs[m.slot].valid
            /\ m.addr \notin NoAddress => [addr |-> m.addr, seg |-> File(m.slot)] \in memory[t]
      BY <1>2 DEF Placed
    <3> QED  BY <1>1, <2>8, <3>1, <3>2 DEF Placed, File, NoAddress, ENOMEM, LEFT
  <2>13. Counted(t)'
    <3>1. HasMapped(t)'
      BY <1>1, <1>2, <2>7 DEF HasMapped
    <3>2. IsFiniteSet({x.addr : x \in memory'[t]})
      <4>1. PICK U : U = {x.addr : x \in memory[t]}
        OBVIOUS
      <4>2. PICK p : p = [addr |-> addr, seg |-> received[t].file]
        OBVIOUS
      <4>3. memory'[t] = memory[t] \cup {p} /\ p.addr = addr
        BY <2>8, <4>2
      <4>4. {x.addr : x \in memory'[t]} = U \cup {addr}
        BY <4>1, <4>3, Zenon
      <4>5. IsFiniteSet(U)
        BY <1>2, <4>1 DEF Counted
      <4>6. IsFiniteSet(U \cup {addr})
        BY <4>5, FS_AddElement
      <4> QED  BY <4>4, <4>6
    <3>3. \A x, y \in memory'[t] : x.addr = y.addr => x = y
      BY <1>2, <2>2, <2>8 DEF Counted
    <3>4. \A x \in memory'[t] : \/ \E m \in maps : m.proc = t /\ m.addr = x.addr
                                \/ x.addr = addr
      BY <1>2, <1>4, <2>8 DEF Counted
    <3>5. \A m \in maps : m.proc = t => m.addr # addr
      <4>1. \A m \in maps : m.proc = t /\ m.addr \notin NoAddress => \E x \in memory[t] : x.addr = m.addr
        BY <1>2 DEF Placed
      <4> QED  BY <2>2, <4>1
    <3> QED  BY <1>1, <2>7, <3>1, <3>2, <3>3, <3>4, <3>5 DEF Counted
  <2>14. Tabled' /\ Keeps /\ OneChain' /\ crashed' = FALSE
    BY <1>1 DEF Agreed, OneChain, Tabled, File, Table, MapsOf, Keeps, SameFile, Sound, Placed, Typed, Mapping
  <2>15. \A u \in Procs \ {t} : Aside(u)
    BY <1>1, <2>7 DEF Aside, Lasts, Others
  <2>16. ~Connected(t)'
    BY <1>1, <1>2, <2>7 DEF Connected
  <2>17. Sound(t)'
    BY <1>1, <2>10, <2>11, <2>12, <2>13 DEF Sound
  <2> QED  BY <1>1, <1>4, <2>9, <2>14, <2>15, <2>16, <2>17, Alone
<1> QED  BY <1>5, <1>6

\* A call that fails takes its pending mapping back.
LEMMA FailKeeps ==
  ASSUME Agreed, NEW t \in Procs, at[t] = "failed", chain[t].state # "MMAP", Fail(t), UNCHANGED <<received, backlog>>
  PROVE  /\ Agreed' /\ maps' = maps \ Pending(t)
         /\ \A u \in Procs \ {t} : chain'[u].obj = chain[u].obj /\ (UNCHANGED <<chain[u], at[u]>> \/ at'[u] = "socket")
         /\ at'[t] = "user"
<1> DEFINE c == WakePendingShmat([chain EXCEPT ![t] = Rest])
<1>1. /\ chain' = c /\ at' = Go([at EXCEPT ![t] = "user"], c)
      /\ Unmap(Pending(t)) /\ UNCHANGED <<requests, memory, crashed>>
  BY DEF Fail
<1>2. at' = Go([at EXCEPT ![t] = "user"], chain')
  BY <1>1
<1> HIDE DEF c
<1>3. /\ Typed /\ OneChain /\ Tabled /\ crashed = FALSE /\ Stage(t) /\ Got(t) /\ Placed(t) /\ Counted(t)
      /\ \A u \in Procs : Stage(u)
  BY DEF Agreed, Sound
<1>4. chain[t].state \in {"SOCKET", "CONNECT"}
  BY <1>3 DEF Stage, Chained
<1>5. /\ chain' \in [Procs -> Chain] /\ at' \in [Procs -> Places] /\ OneChain'
      /\ chain'[t] = Rest /\ at'[t] = "user"
      /\ \A u \in Procs \ {t} :
           \/ UNCHANGED <<chain[u], at[u]>>
           \/ /\ at[u] = "ppoll" /\ at'[u] = "socket"
              /\ chain'[u] = [state |-> "SOCKET", waits |-> FALSE, obj |-> chain[u].obj]
  <2>1. chain[t].state # "NOT_CHAINED"
    BY <1>4
  <2>2. chain' = WakePendingShmat([chain EXCEPT ![t] = Rest])
    BY <1>1 DEF c
  <2> QED  BY <1>2, <1>3, <2>1, <2>2, Wakes
<1>6. Pending(t) \subseteq maps /\ \A m \in Pending(t) : m.proc = t /\ m.addr = 0
  BY DEF Pending
<1>7. /\ maps' = maps \ Pending(t) /\ maps' \subseteq Mapping /\ segs' \in [Table -> Segment] /\ Tabled'
      /\ \A m \in maps' : segs'[m.slot] = segs[m.slot]
  BY <1>1, <1>3, <1>6, Unmapped
<1>8. Typed'
  BY <1>1, <1>3, <1>5, <1>7 DEF Typed, Table
<1>9. Keeps
  BY <1>3, <1>7 DEF Keeps, SameFile, Agreed, Sound, Placed, Typed, Mapping
<1>10. \A u \in Procs \ {t} : Aside(u) \/ Woken(u)
  <2>1. \A u \in Procs \ {t} : Lasts(u)
    BY <1>1, <1>6, <1>7 DEF Lasts
  <2> QED  BY <1>5, <2>1 DEF Aside, Woken
<1>11. Stage(t)'
  BY <1>5 DEF Stage, Rest, Idle
<1>12. Got(t)'
  BY <1>3, <1>4, <1>5 DEF Got, Has, HasMapped, NoFile, Rest
<1>13. Placed(t)'
  <2>1. \A m \in maps' : m.proc = t =>
          /\ segs'[m.slot].valid
          /\ m.addr \notin NoAddress => [addr |-> m.addr, seg |-> (File(m.slot))'] \in memory[t]
    BY <1>3, <1>7 DEF Placed, File
  <2> QED  BY <1>1, <1>5, <2>1 DEF Placed, Idle, File, NoAddress, ENOMEM, LEFT
<1>14. Counted(t)'
  <2>1. ~HasMapped(t) /\ ~HasMapped(t)'
    BY <1>4, <1>5 DEF HasMapped
  <2>2. \A x \in memory[t] : \E m \in maps' : m.proc = t /\ m.addr = x.addr
    <3>1. \A x \in memory[t] : \E m \in maps : m.proc = t /\ m.addr = x.addr
      BY <1>3, <2>1 DEF Counted
    <3>2. \A x \in memory[t] : x.addr # 0
      BY <1>3 DEF Typed, Page
    <3> QED  BY <1>6, <1>7, <3>1, <3>2
  <2> QED  BY <1>1, <1>3, <1>5, <2>1, <2>2 DEF Counted
<1>15. at[t] # "gone" /\ ~Connected(t) /\ ~Connected(t)'
  BY <1>4, <1>5 DEF Connected, Rest
<1>16. Sound(t)' /\ crashed' = FALSE
  BY <1>1, <1>3, <1>11, <1>12, <1>13, <1>14, Constants DEF Sound, Typed
<1>17. \A u \in Procs \ {t} : chain'[u].obj = chain[u].obj /\ (UNCHANGED <<chain[u], at[u]>> \/ at'[u] = "socket")
  BY <1>5
<1>18. Agreed'
  BY <1>1, <1>5, <1>7, <1>8, <1>9, <1>10, <1>15, <1>16, Alone
<1> QED  BY <1>5, <1>7, <1>17, <1>18

\* The end of a call: the pending mapping has its address.
Mapped(t) ==
  /\ chain[t].state = "MMAP"
  /\ LET c == WakePendingShmat([chain EXCEPT ![t] = Rest])
         m == CHOOSE p \in Pending(t) : TRUE
         addr == IF at[t] = "failed" THEN ENOMEM ELSE received[t].addr
     IN /\ maps' = (maps \ {m}) \cup {[m EXCEPT !.addr = addr]}
        /\ chain' = c /\ at' = Go([at EXCEPT ![t] = "user"], c)
        /\ received' = [received EXCEPT ![t] = [file |-> NoFile, addr |-> 0]]
  /\ UNCHANGED <<segs, memory, requests, open, crashed>>

LEMMA MappedKeeps ==
  ASSUME Agreed, NEW t \in Procs, at[t] \in {"done", "failed"}, Mapped(t), UNCHANGED backlog
  PROVE  /\ Agreed'
         /\ \E addr \in Int : /\ at[t] = "done" => addr \in Nat \ {0}
                              /\ maps' = (maps \ {[proc |-> t, slot |-> chain[t].obj, addr |-> 0]})
                                           \cup {[proc |-> t, slot |-> chain[t].obj, addr |-> addr]}
         /\ \A u \in Procs \ {t} : chain'[u].obj = chain[u].obj /\ (UNCHANGED <<chain[u], at[u]>> \/ at'[u] = "socket")
         /\ at'[t] = "user"
<1> DEFINE c == WakePendingShmat([chain EXCEPT ![t] = Rest])
           m == [proc |-> t, slot |-> chain[t].obj, addr |-> 0]
<1>1. /\ Typed /\ OneChain /\ Tabled /\ crashed = FALSE /\ Stage(t) /\ Got(t) /\ Placed(t) /\ Counted(t)
      /\ \A u \in Procs : Stage(u)
  BY DEF Agreed, Sound
<1>2. chain[t].state = "MMAP" /\ chain[t].obj \in Table /\ m \in maps /\ m \in Mapping
  BY <1>1 DEF Mapped, Stage, Placed, Idle, Typed
<1>3. Pending(t) = {m}
  <2>1. \A x \in Pending(t) : x = m
    BY <1>1 DEF Pending, Typed, Mapping
  <2> QED  BY <1>2, <2>1 DEF Pending
<1>4. (CHOOSE x \in Pending(t) : TRUE) = m
  BY <1>3
<1>5. PICK addr : /\ addr = IF at[t] = "failed" THEN ENOMEM ELSE received[t].addr
                  /\ maps' = (maps \ {m}) \cup {[m EXCEPT !.addr = addr]}
  BY <1>4 DEF Mapped
<1>6. /\ chain' = c /\ at' = Go([at EXCEPT ![t] = "user"], c)
      /\ received' = [received EXCEPT ![t] = [file |-> NoFile, addr |-> 0]]
      /\ UNCHANGED <<segs, memory, requests, open, crashed>>
  BY DEF Mapped
<1>7. at' = Go([at EXCEPT ![t] = "user"], chain')
  BY <1>6
<1> HIDE DEF c

<1>8. /\ chain' \in [Procs -> Chain] /\ at' \in [Procs -> Places] /\ OneChain'
      /\ chain'[t] = Rest /\ at'[t] = "user"
      /\ \A u \in Procs \ {t} :
           \/ UNCHANGED <<chain[u], at[u]>>
           \/ /\ at[u] = "ppoll" /\ at'[u] = "socket"
              /\ chain'[u] = [state |-> "SOCKET", waits |-> FALSE, obj |-> chain[u].obj]
  <2>1. chain[t].state # "NOT_CHAINED"
    BY <1>2
  <2>2. chain' = WakePendingShmat([chain EXCEPT ![t] = Rest])
    BY <1>6 DEF c
  <2> QED  BY <1>1, <1>7, <2>1, <2>2, Wakes
<1>9. at[t] = "done" => /\ [addr |-> addr, seg |-> File(chain[t].obj)] \in memory[t] /\ addr = received[t].addr
                        /\ addr \in Nat \ {0}
  <2>1. ASSUME at[t] = "done"
        PROVE  [addr |-> addr, seg |-> File(chain[t].obj)] \in memory[t] /\ addr = received[t].addr
    BY <1>1, <1>2, <1>5, <2>1 DEF Got, Has, HasMapped
  <2>2. \A x \in memory[t] : x.addr \in Nat \ {0}
    BY <1>1 DEF Typed, Page
  <2> QED  BY <2>1, <2>2
<1>10. addr \in Int /\ (at[t] = "failed" => addr \in NoAddress)
  BY <1>5, <1>9 DEF ENOMEM, NoAddress
<1> DEFINE n == [proc |-> t, slot |-> chain[t].obj, addr |-> addr]
<1>11. [m EXCEPT !.addr = addr] = n
  OBVIOUS
<1>12. maps' = (maps \ {m}) \cup {n} /\ n \in Mapping
  BY <1>1, <1>2, <1>5, <1>10, <1>11 DEF Mapping
<1>13. /\ m.proc = t /\ m.slot = chain[t].obj /\ m.addr = 0
       /\ n.proc = t /\ n.slot = chain[t].obj /\ n.addr = addr
  OBVIOUS
<1>14. PICK o, p : o = m /\ p = n
  OBVIOUS
<1> HIDE DEF m, n
<1>15. maps' = (maps \ {o}) \cup {p} /\ p \in Mapping /\ o.proc = t /\ p.proc = t /\ p.slot = o.slot /\ o \in maps
  BY <1>2, <1>12, <1>13, <1>14
<1>16. maps' \subseteq Mapping /\ \A x \in maps' : \E y \in maps : y.slot = x.slot
  BY <1>1, <1>15 DEF Typed
<1>17. Typed'
  <2>1. [file |-> NoFile, addr |-> 0] \in Message
    BY DEF Message, NoFile, Files
  <2>2. received' \in [Procs -> Message]
    BY <1>1, <1>6, <2>1 DEF Typed
  <2> QED  BY <1>1, <1>6, <1>8, <1>16, <2>2 DEF Typed, Table
<1>18. Tabled'
  <2>1. ASSUME NEW i \in Table, MapsOf(maps, i) # {} PROVE MapsOf(maps', i) # {}
    <3>1. PICK x \in maps : x.slot = i
      BY <2>1 DEF MapsOf
    <3>2. \E y \in maps' : y.slot = i
      BY <1>15, <3>1
    <3> QED  BY <3>2 DEF MapsOf
  <2> QED  BY <1>1, <1>6, <2>1 DEF Tabled, File, Table
<1>19. Keeps
  BY <1>6 DEF Keeps, SameFile, Agreed, Sound, Placed, Typed, Mapping
<1>20. \A u \in Procs \ {t} : Aside(u) \/ Woken(u)
  <2>1. \A u \in Procs \ {t} : Lasts(u)
    BY <1>1, <1>6, <1>15 DEF Lasts, Typed
  <2> QED  BY <1>8, <2>1 DEF Aside, Woken
<1>21. received'[t].file = NoFile
  BY <1>1, <1>6 DEF Typed
<1>22. Stage(t)'
  BY <1>8 DEF Stage, Rest, Idle
<1>23. Got(t)'
  BY <1>8, <1>21 DEF Got, Has, HasMapped, NoFile, Rest
<1>24. Placed(t)'
  <2>1. ASSUME NEW x \in maps', x.proc = t
        PROVE  segs[x.slot].valid /\ (x.addr \notin NoAddress => [addr |-> x.addr, seg |-> File(x.slot)] \in memory[t])
    <3>1. CASE x \in maps
      BY <1>1, <2>1, <3>1 DEF Placed
    <3>2. CASE x = p
      <4>1. x.slot = chain[t].obj /\ x.addr = addr
        BY <1>13, <1>14, <3>2
      <4>2. segs[x.slot].valid
        BY <1>1, <1>15, <3>2 DEF Placed
      <4>3. x.addr \notin NoAddress => at[t] = "done"
        BY <1>10, <4>1
      <4> QED  BY <1>9, <4>1, <4>2, <4>3
    <3> QED  BY <1>15, <3>1, <3>2
  <2>2. \A x \in maps' : x.proc = t =>
          /\ segs'[x.slot].valid
          /\ x.addr \notin NoAddress => [addr |-> x.addr, seg |-> (File(x.slot))'] \in memory'[t]
    BY <1>6, <2>1 DEF File
  <2> QED  BY <1>8, <2>2 DEF Placed, Idle, File, NoAddress, ENOMEM, LEFT
<1>25. Counted(t)'
  <2>1. (HasMapped(t) <=> at[t] = "done") /\ ~HasMapped(t)'
    BY <1>2, <1>8 DEF HasMapped
  <2>2. \A x \in memory[t] : \E y \in maps' : y.proc = t /\ y.addr = x.addr
    <3>1. ASSUME NEW x \in memory[t] PROVE \E y \in maps' : y.proc = t /\ y.addr = x.addr
      <4>1. x.addr # 0
        BY <1>1 DEF Typed, Page
      <4>2. CASE \E y \in maps : y.proc = t /\ y.addr = x.addr
        BY <1>13, <1>14, <1>15, <4>1, <4>2
      <4>3. CASE HasMapped(t) /\ x.addr = received[t].addr
        <5>1. x.addr = addr
          BY <1>9, <2>1, <4>3
        <5>2. p \in maps' /\ p.proc = t /\ p.addr = addr
          BY <1>13, <1>14, <1>15
        <5> QED  BY <5>1, <5>2
      <4> QED  BY <1>1, <4>2, <4>3 DEF Counted
    <3> QED  BY <3>1
  <2> QED  BY <1>1, <1>6, <1>8, <2>1, <2>2 DEF Counted
<1>26. at[t] # "gone" /\ ~Connected(t) /\ ~Connected(t)'
  BY <1>2, <1>8 DEF Connected, Rest
<1>27. Sound(t)' /\ crashed' = FALSE
  BY <1>1, <1>6, <1>22, <1>23, <1>24, <1>25, Constants DEF Sound, Typed
<1>28. Agreed'
  BY <1>6, <1>8, <1>17, <1>18, <1>19, <1>20, <1>26, <1>27, Alone
<1>29. maps' = (maps \ {[proc |-> t, slot |-> chain[t].obj, addr |-> 0]})
                 \cup {[proc |-> t, slot |-> chain[t].obj, addr |-> addr]}
  BY <1>12 DEF m, n
<1>30. \A u \in Procs \ {t} : chain'[u].obj = chain[u].obj /\ (UNCHANGED <<chain[u], at[u]>> \/ at'[u] = "socket")
  BY <1>8
<1> QED  BY <1>8, <1>9, <1>10, <1>28, <1>29, <1>30

\* What the end of a syscall of a chain leads to: the assertions hold.
LEMMA ChainSteps ==
  ASSUME Agreed, NEW t \in Procs, ShmatChain(t)
  PROVE  /\ at[t] \in {"done", "failed"} /\ UNCHANGED backlog
         /\ \/ Mapped(t)
            \/ at[t] = "failed" /\ chain[t].state # "MMAP" /\ Fail(t) /\ UNCHANGED received
            \/ /\ at[t] = "done" /\ chain[t].state \in {"SOCKET", "CONNECT", "RECVMSG"}
               /\ UNCHANGED <<segs, maps, memory, received, open, crashed>>
               /\ \/ /\ chain[t].state = "SOCKET" /\ chain' = [chain EXCEPT ![t].state = "CONNECT"]
                     /\ at' = [at EXCEPT ![t] = "connect"] /\ UNCHANGED requests
                  \/ /\ chain[t].state = "CONNECT" /\ requests' = Append(requests, File(chain[t].obj))
                     /\ chain' = [chain EXCEPT ![t].state = "RECVMSG"]
                     /\ at' = [at EXCEPT ![t] = IF received[t].file # NoFile THEN "done" ELSE "recvmsg"]
                  \/ /\ chain[t].state = "RECVMSG" /\ chain' = [chain EXCEPT ![t].state = "MMAP"]
                     /\ at' = [at EXCEPT ![t] = "mmap"] /\ UNCHANGED requests
<1>1. /\ at[t] \in {"done", "failed"} /\ UNCHANGED backlog
  BY DEF ShmatChain
<1>2. /\ chain[t].obj \in Table /\ [proc |-> t, slot |-> chain[t].obj, addr |-> 0] \in maps
      /\ chain[t].state \in Chained
  BY <1>1 DEF Agreed, Sound, Stage, Placed, Idle
<1>3. segs[chain[t].obj].valid
  BY <1>2 DEF Agreed, Sound, Placed
<1>4. Pending(t) # {}
  BY <1>2 DEF Pending
<1> QED  BY <1>1, <1>3, <1>4 DEF ShmatChain, Mapped

LEMMA ShmatChainKeeps ==
  ASSUME Agreed, NEW t \in Procs, ShmatChain(t)
  PROVE  Agreed'
<1>1. /\ at[t] \in {"done", "failed"} /\ UNCHANGED backlog
  BY ChainSteps
<1>2. CASE Mapped(t)
  BY <1>1, <1>2, MappedKeeps
<1>3. CASE at[t] = "failed" /\ chain[t].state # "MMAP" /\ Fail(t) /\ UNCHANGED received
  BY <1>1, <1>3, FailKeeps
<1>4. CASE /\ at[t] = "done" /\ UNCHANGED <<segs, maps, memory, received, open, crashed>>
           /\ chain[t].state = "SOCKET" /\ chain' = [chain EXCEPT ![t].state = "CONNECT"]
           /\ at' = [at EXCEPT ![t] = "connect"] /\ UNCHANGED requests
  BY <1>1, <1>4, GoesOn
<1>5. CASE /\ at[t] = "done" /\ UNCHANGED <<segs, maps, memory, received, open, crashed>>
           /\ chain[t].state = "RECVMSG" /\ chain' = [chain EXCEPT ![t].state = "MMAP"]
           /\ at' = [at EXCEPT ![t] = "mmap"] /\ UNCHANGED requests
  BY <1>1, <1>5, GoesOn
<1>6. CASE /\ at[t] = "done" /\ UNCHANGED <<segs, maps, memory, received, open, crashed>>
            /\ chain[t].state = "CONNECT" /\ requests' = Append(requests, File(chain[t].obj))
            /\ chain' = [chain EXCEPT ![t].state = "RECVMSG"]
            /\ at' = [at EXCEPT ![t] = IF received[t].file # NoFile THEN "done" ELSE "recvmsg"]
  BY <1>1, <1>6, Asks
<1> QED  BY <1>2, <1>3, <1>4, <1>5, <1>6, ChainSteps

------------------------------------------------------------------------------
(* The calls of the programs                                                 *)

LEMMA Programs ==
  ASSUME Agreed, NEW t \in Procs, Program(t)
  PROVE  at[t] = "user" /\ crashed = FALSE /\ chain[t] = Rest /\ ~Connected(t) /\ ~HasMapped(t)
<1>1. at[t] = "user" /\ chain[t] = Rest /\ crashed = FALSE
  BY DEF Program, Agreed, Sound, Stage, Idle
<1> QED  BY <1>1 DEF Connected, HasMapped

\* A call that changes the table alone.
LEMMA ByTable ==
  ASSUME Agreed, NEW t \in Procs, Program(t), UNCHANGED <<maps, chain, at, memory, requests, backlog, received>>,
         segs' \in [Table -> Segment], Tabled', Keeps, crashed' = FALSE
  PROVE  Agreed'
<1>1. Typed'
  BY Programs DEF Agreed, Typed, Table
<1>2. OneChain'
  BY DEF Agreed, OneChain
<1>3. \A u \in Procs : Aside(u)
  BY DEF Aside, Lasts
<1>4. Sound(t)'
  <2>1. maps' \subseteq Mapping /\ Typed /\ Sound(t)
    BY DEF Agreed, Typed
  <2> QED  BY <1>3, <2>1, Untouched
<1>5. ~Connected(t)' /\ ~Connected(t) /\ at[t] # "gone"
  BY Programs DEF Connected
<1> QED  BY <1>1, <1>2, <1>3, <1>4, <1>5, Alone

LEMMA ShmgetKeeps ==
  ASSUME Agreed, NEW t \in Procs, Shmget(t)
  PROVE  Agreed'
<1> DEFINE unused == {j \in Table : ~segs[j].valid}
<1>1. unused # {} /\ unused \in SUBSET Nat
  BY Constants DEF Shmget
<1>2. PICK i : i = Min(unused)
  OBVIOUS
<1>3. i \in Table /\ ~segs[i].valid
  BY <1>1, <1>2, Least
<1>4. /\ Program(t) /\ segs' = [segs EXCEPT ![i].valid = TRUE] /\ open' = open \cup {File(i)}
      /\ UNCHANGED <<maps, chain, at, memory, requests, backlog, received, crashed>>
  BY <1>2 DEF Shmget
<1>5. /\ segs \in [Table -> Segment] /\ maps \subseteq Mapping
      /\ \A j \in Table : segs[j].rmid_pending => segs[j].valid /\ MapsOf(maps, j) # {}
      /\ open = {File(j) : j \in {k \in Table : segs[k].valid}}
  BY DEF Agreed, Typed, Tabled
<1>6. /\ segs' \in [Table -> Segment] /\ segs'[i].valid = TRUE /\ segs'[i].rmid_pending = segs[i].rmid_pending
      /\ segs'[i].generation = segs[i].generation /\ \A j \in Table \ {i} : segs'[j] = segs[j]
  BY <1>3, <1>4, <1>5 DEF Segment
<1>7. Tabled'
  <2>1. \A j \in Table : segs'[j].rmid_pending => segs'[j].valid /\ MapsOf(maps, j) # {}
    BY <1>5, <1>6
  <2>2. open' = {<<j, segs'[j].generation>> : j \in {k \in Table : segs'[k].valid}}
    <3>1. \A j \in Table : segs'[j].valid <=> segs[j].valid \/ j = i
      BY <1>3, <1>6
    <3>2. \A j \in Table : segs'[j].generation = segs[j].generation
      BY <1>6
    <3> QED  BY <1>3, <1>4, <1>5, <3>1, <3>2 DEF File
  <2> QED  BY <1>4, <2>1, <2>2 DEF Tabled, File, Table, MapsOf
<1>8. Keeps
  <2>1. \A m \in maps : segs[m.slot].valid /\ m.slot \in Table
    BY DEF Agreed, Sound, Placed, Typed, Mapping
  <2> QED  BY <1>3, <1>6, <2>1 DEF Keeps, SameFile
<1>9. crashed' = FALSE
  BY <1>4 DEF Agreed
<1> QED  BY <1>4, <1>6, <1>7, <1>8, <1>9, ByTable

\* IPC_RMID: a segment that nobody maps is gone at once, and no other.
LEMMA ShmctlRmidKeeps ==
  ASSUME Agreed, NEW t \in Procs, NEW i \in Table, ShmctlRmid(t, i)
  PROVE  Agreed'
<1> DEFINE marked == [segs EXCEPT ![i].rmid_pending = TRUE]
           ss == Drop(marked, maps, i)
<1>1. /\ Program(t) /\ segs[i].valid /\ segs' = ss /\ open' = open \ Closing(ss)
      /\ crashed' = (~ss[i].valid /\ MapsOf(maps, i) # {})
      /\ UNCHANGED <<maps, chain, at, memory, requests, backlog, received>>
  BY DEF ShmctlRmid
<1>2. /\ segs \in [Table -> Segment] /\ maps \subseteq Mapping
      /\ \A j \in Table : segs[j].rmid_pending => segs[j].valid /\ MapsOf(maps, j) # {}
      /\ open = {<<j, segs[j].generation>> : j \in {k \in Table : segs[k].valid}}
  BY DEF Agreed, Typed, Tabled, File
<1>3. /\ marked \in [Table -> Segment] /\ marked[i].valid = TRUE /\ marked[i].rmid_pending = TRUE
      /\ marked[i].generation = segs[i].generation /\ \A j \in Table \ {i} : marked[j] = segs[j]
  BY <1>1, <1>2 DEF Segment
<1> HIDE DEF marked
<1>4. /\ ss \in [Table -> Segment] /\ \A j \in Table \ {i} : ss[j] = segs[j]
      /\ IF MapsOf(maps, i) = {} THEN ~ss[i].valid /\ ~ss[i].rmid_pending
                                 ELSE ss[i].valid /\ ss[i].generation = segs[i].generation
  <2>1. CASE MapsOf(maps, i) = {}
    <3>1. ss = [marked EXCEPT ![i] = Free(@)]
      BY <1>3, <2>1 DEF Drop
    <3>2. Free(marked[i]) \in Segment /\ ~Free(marked[i]).valid /\ ~Free(marked[i]).rmid_pending
      BY <1>3, Freed
    <3>3. ss \in [Table -> Segment] /\ ss[i] = Free(marked[i]) /\ \A j \in Table \ {i} : ss[j] = marked[j]
      BY <1>3, <3>1, <3>2
    <3> QED  BY <1>3, <2>1, <3>2, <3>3
  <2>2. CASE MapsOf(maps, i) # {}
    <3>1. ss = marked
      BY <2>2, Zenon DEF Drop
    <3> QED  BY <1>3, <2>2, <3>1
  <2> QED  BY <2>1, <2>2
<1> HIDE DEF ss
<1>5. crashed' = FALSE
  BY <1>1, <1>4
<1>6. Keeps
  <2>1. \A m \in maps : segs[m.slot].valid /\ m.slot \in Table /\ MapsOf(maps, m.slot) # {}
    BY DEF Agreed, Sound, Placed, Typed, Mapping, MapsOf
  <2> QED  BY <1>1, <1>4, <2>1 DEF Keeps, SameFile
<1>7. Tabled'
  <2>1. \A j \in Table : ss[j].rmid_pending => ss[j].valid /\ MapsOf(maps, j) # {}
    BY <1>2, <1>4
  <2>2. open' = {<<j, ss[j].generation>> : j \in {k \in Table : ss[k].valid}}
    <3>1. Closing(ss) = {<<j, segs[j].generation>> : j \in {k \in Table : segs[k].valid /\ ~ss[k].valid}}
      BY DEF Closing
    <3>2. \A j \in Table : ss[j].valid => segs[j].valid /\ ss[j].generation = segs[j].generation
      BY <1>1, <1>4
    <3> QED  BY <1>1, <1>2, <3>1, <3>2
  <2> QED  BY <1>1, <2>1, <2>2 DEF Tabled, File, Table, MapsOf
<1> QED  BY <1>1, <1>4, <1>5, <1>6, <1>7, ByTable

\* What one process has of the table goes.
LEMMA Leaves ==
  ASSUME Agreed, NEW t \in Procs, NEW gone, gone \subseteq {m \in maps : m.proc = t}, Unmap(gone),
         UNCHANGED received, \A u \in Procs \ {t} : UNCHANGED <<chain[u], at[u], memory[u]>>
  PROVE  /\ maps' = maps \ gone /\ maps' \subseteq Mapping /\ segs' \in [Table -> Segment] /\ Tabled' /\ Keeps
         /\ \A m \in maps' : m.proc = t => segs'[m.slot].valid /\ (File(m.slot))' = File(m.slot)
         /\ \A u \in Procs \ {t} : Aside(u)
<1>1. gone \subseteq maps /\ \A m \in gone : m.proc = t
  OBVIOUS
<1>2. /\ maps' = maps \ gone /\ maps' \subseteq Mapping /\ segs' \in [Table -> Segment] /\ Tabled'
      /\ \A m \in maps' : segs'[m.slot] = segs[m.slot]
  BY <1>1, Unmapped DEF Agreed
<1>3. \A m \in maps : segs[m.slot].valid
  BY DEF Agreed, Sound, Placed, Typed, Mapping
<1>4. Keeps
  BY <1>2, <1>3 DEF Keeps, SameFile
<1>5. \A u \in Procs \ {t} : Aside(u)
  BY <1>1, <1>2 DEF Aside, Lasts
<1> QED  BY <1>2, <1>3, <1>4, <1>5 DEF File

LEMMA ShmdtKeeps ==
  ASSUME Agreed, NEW t \in Procs, Shmdt(t)
  PROVE  /\ Agreed' /\ maps' \subseteq maps
<1>1. PICK m \in maps : /\ m.proc = t /\ m.addr \notin NoAddress /\ Unmap({m})
                        /\ memory' = [memory EXCEPT ![t] = {x \in @ : x.addr # m.addr}]
  BY DEF Shmdt
<1>2. Program(t) /\ UNCHANGED <<chain, at, requests, backlog, received, crashed>>
  BY DEF Shmdt
<1>3. /\ Typed /\ Stage(t) /\ Got(t) /\ Placed(t) /\ Counted(t) /\ crashed = FALSE /\ OneChain
  BY DEF Agreed, Sound
<1>4. /\ memory' \in [Procs -> SUBSET Page] /\ memory'[t] = {x \in memory[t] : x.addr # m.addr}
      /\ \A u \in Procs \ {t} : memory'[u] = memory[u]
  BY <1>1, <1>3 DEF Typed
<1>5. /\ maps' = maps \ {m} /\ maps' \subseteq Mapping /\ segs' \in [Table -> Segment] /\ Tabled' /\ Keeps
      /\ \A n \in maps' : n.proc = t => segs'[n.slot].valid /\ (File(n.slot))' = File(n.slot)
      /\ \A u \in Procs \ {t} : Aside(u)
  BY <1>1, <1>2, <1>4, Leaves
<1>6. at[t] = "user" /\ chain[t] = Rest /\ ~Connected(t) /\ ~HasMapped(t)
  BY <1>2, Programs
<1>7. Typed'
  BY <1>2, <1>3, <1>4, <1>5, <1>6 DEF Typed, Table
<1>8. Stage(t)'
  BY <1>2, <1>3 DEF Stage, Rest, Table
<1>9. Got(t)'
  BY <1>2, <1>3, <1>6 DEF Got, Has, HasMapped, Rest, NoFile
<1>10. Placed(t)'
  <2>1. ASSUME NEW n \in maps', n.proc = t, n.addr \notin NoAddress
        PROVE  [addr |-> n.addr, seg |-> File(n.slot)] \in memory'[t]
    <3>1. [addr |-> n.addr, seg |-> File(n.slot)] \in memory[t] /\ [addr |-> m.addr, seg |-> File(m.slot)] \in memory[t]
      BY <1>1, <1>3, <1>5, <2>1 DEF Placed
    <3>2. ASSUME n.addr = m.addr PROVE FALSE
      <4>1. File(n.slot) = File(m.slot)
        BY <1>3, <3>1, <3>2 DEF Counted
      <4>2. n.slot = m.slot
        BY <4>1 DEF File
      <4>3. n \in Mapping /\ m \in Mapping
        BY <1>3, <1>5 DEF Typed
      <4>4. n = m
        BY <1>1, <2>1, <3>2, <4>2, <4>3 DEF Mapping
      <4> QED  BY <1>5, <4>4
    <3> QED  BY <1>4, <3>1, <3>2
  <2>2. \A n \in maps' : n.proc = t =>
          /\ segs'[n.slot].valid
          /\ n.addr \notin NoAddress => [addr |-> n.addr, seg |-> (File(n.slot))'] \in memory'[t]
    BY <1>5, <2>1
  <2> QED  BY <1>2, <1>6, <2>2 DEF Placed, Idle, NoAddress, ENOMEM, LEFT
<1>11. Counted(t)'
  <2>1. ~HasMapped(t)'
    BY <1>2, <1>6 DEF HasMapped
  <2>2. IsFiniteSet({x.addr : x \in memory'[t]})
    <3>1. {x.addr : x \in memory'[t]} \in SUBSET {x.addr : x \in memory[t]}
      BY <1>4
    <3> QED  BY <1>3, <3>1, FS_Subset DEF Counted
  <2>3. \A x \in memory'[t] : \E n \in maps' : n.proc = t /\ n.addr = x.addr
    BY <1>3, <1>4, <1>5, <1>6 DEF Counted
  <2> QED  BY <1>2, <1>3, <1>4, <1>6, <2>1, <2>2, <2>3 DEF Counted
<1>12. OneChain' /\ crashed' = FALSE /\ ~Connected(t)' /\ at[t] # "gone"
  BY <1>2, <1>3, <1>6 DEF OneChain, Connected
<1>13. Sound(t)'
  BY <1>8, <1>9, <1>10, <1>11 DEF Sound
<1>14. Agreed'
  BY <1>2, <1>5, <1>6, <1>7, <1>12, <1>13, Alone
<1> QED  BY <1>5, <1>14

\* execve(2) that succeeds: the process maps nothing, and has nothing to account for.
LEMMA ExecveKeeps ==
  ASSUME Agreed, NEW t \in Procs, Execve(t, TRUE)
  PROVE  Agreed' /\ maps' \subseteq maps
<1> DEFINE gone == {m \in maps : m.proc = t}
<1>1. /\ Program(t) /\ Unmap(gone) /\ memory' = [memory EXCEPT ![t] = {}]
      /\ UNCHANGED <<chain, at, requests, backlog, received, crashed>>
  BY DEF Execve, RemoveMappings
<1>2. /\ Typed /\ Stage(t) /\ Got(t) /\ Placed(t) /\ Counted(t) /\ crashed = FALSE /\ OneChain
  BY DEF Agreed, Sound
<1>3. memory' \in [Procs -> SUBSET Page] /\ memory'[t] = {} /\ \A u \in Procs \ {t} : memory'[u] = memory[u]
  BY <1>1, <1>2 DEF Typed
<1>4. /\ maps' = maps \ gone /\ maps' \subseteq Mapping /\ segs' \in [Table -> Segment] /\ Tabled' /\ Keeps
      /\ \A u \in Procs \ {t} : Aside(u)
  BY <1>1, <1>3, Leaves
<1>5. at[t] = "user" /\ chain[t] = Rest /\ ~Connected(t) /\ ~HasMapped(t)
  BY <1>1, Programs
<1>6. Typed'
  BY <1>1, <1>2, <1>3, <1>4, <1>5 DEF Typed, Table
<1>7. Stage(t)'
  BY <1>1, <1>2 DEF Stage, Rest, Table
<1>8. Got(t)'
  BY <1>1, <1>2, <1>5 DEF Got, Has, HasMapped, Rest, NoFile
<1>9. Placed(t)'
  BY <1>1, <1>4, <1>5 DEF Placed, Idle
<1>10. Counted(t)'
  <2>1. ~HasMapped(t)'
    BY <1>1, <1>5 DEF HasMapped
  <2>2. {x.addr : x \in memory'[t]} = {}
    BY <1>3
  <2> QED  BY <1>1, <1>3, <1>5, <2>1, <2>2, FS_EmptySet DEF Counted
<1>11. OneChain' /\ crashed' = FALSE /\ ~Connected(t)' /\ at[t] # "gone"
  BY <1>1, <1>2, <1>5 DEF OneChain, Connected
<1>12. Sound(t)'
  BY <1>7, <1>8, <1>9, <1>10 DEF Sound
<1>13. Agreed'
  BY <1>1, <1>4, <1>5, <1>6, <1>11, <1>12, Alone
<1> QED  BY <1>4, <1>13

\* The end of a process, wherever its call was.
LEMMA ExitKeeps ==
  ASSUME Agreed, NEW t \in Procs, Exit(t)
  PROVE  Agreed' /\ maps' = {m \in maps : m.proc # t} /\ \A u \in Procs \ {t} : UNCHANGED <<chain[u], at[u]>>
<1> DEFINE gone == {m \in maps : m.proc = t}
<1>1. /\ Unmap(gone) /\ memory' = [memory EXCEPT ![t] = {}]
      /\ chain' = [chain EXCEPT ![t] = Rest] /\ at' = [at EXCEPT ![t] = "gone"]
      /\ UNCHANGED <<requests, backlog, received, crashed>>
  BY DEF Exit
<1>2. /\ Typed /\ Stage(t) /\ crashed = FALSE /\ OneChain
  BY DEF Agreed, Sound
<1>3. Rest \in Chain /\ Rest.state = "NOT_CHAINED" /\ Rest.waits = FALSE
  BY DEF Rest, Chain
<1>4. /\ memory' \in [Procs -> SUBSET Page] /\ memory'[t] = {}
      /\ at' \in [Procs -> Places] /\ at'[t] = "gone" /\ chain' \in [Procs -> Chain] /\ chain'[t] = Rest
      /\ \A u \in Procs \ {t} : UNCHANGED <<chain[u], at[u], memory[u]>>
  BY <1>1, <1>2, <1>3 DEF Typed, Places, Idle
<1>5. /\ maps' = maps \ gone /\ maps' \subseteq Mapping /\ segs' \in [Table -> Segment] /\ Tabled' /\ Keeps
      /\ \A u \in Procs \ {t} : Aside(u)
  BY <1>1, <1>4, Leaves
<1>6. Typed'
  BY <1>1, <1>2, <1>4, <1>5 DEF Typed, Table
<1>7. Stage(t)'
  BY <1>3, <1>4 DEF Stage, Rest, Idle
<1>8. Got(t)'
  BY <1>4 DEF Got, Has, HasMapped, Rest
<1>9. Placed(t)'
  BY <1>4, <1>5 DEF Placed, Idle
<1>10. Counted(t)'
  <2>1. ~HasMapped(t)'
    BY <1>4 DEF HasMapped
  <2>2. {x.addr : x \in memory'[t]} = {}
    BY <1>4
  <2> QED  BY <1>4, <2>1, <2>2, FS_EmptySet DEF Counted
<1>11. OneChain' /\ crashed' = FALSE
  BY <1>1, <1>2, <1>3, <1>4 DEF OneChain
<1>12. Sound(t)'
  BY <1>7, <1>8, <1>9, <1>10 DEF Sound
<1>13. Agreed'
  BY <1>1, <1>4, <1>5, <1>6, <1>11, <1>12, Alone
<1> QED  BY <1>4, <1>5, <1>13

\* More mappings of segments that are there.
LEMMA Grown ==
  ASSUME Agreed, NEW t \in Procs, NEW more, more \subseteq Mapping, \A m \in more : m.proc = t,
         maps' = maps \cup more, UNCHANGED <<segs, received, open>>,
         \A u \in Procs \ {t} : UNCHANGED <<chain[u], at[u], memory[u]>>
  PROVE  Tabled' /\ Keeps /\ maps' \subseteq Mapping /\ \A u \in Procs \ {t} : Aside(u)
<1>1. Typed /\ Tabled /\ \A m \in maps : segs[m.slot].valid
  BY DEF Agreed, Sound, Placed, Typed, Mapping
<1>2. Tabled'
  BY <1>1 DEF Tabled, File, Table, MapsOf
<1>3. Keeps
  BY <1>1 DEF Keeps, SameFile
<1>4. maps' \subseteq Mapping
  BY <1>1 DEF Typed
<1>5. \A u \in Procs \ {t} : Aside(u)
  BY DEF Aside, Lasts
<1> QED  BY <1>2, <1>3, <1>4, <1>5

\* fork(2): what the child maps is accounted for, as it is with its parent.
LEMMA InheritKeeps ==
  ASSUME Agreed, NEW t \in Procs, InheritProcess(t)
  PROVE  /\ Agreed' /\ at[Parent] = "user" /\ Parent \in Procs /\ UNCHANGED chain
         /\ \A u \in Procs : at'[u] = "failed" => at[u] = "failed"
         /\ \A m \in maps' \ maps : \E n \in maps : n.proc = Parent /\ n.addr = m.addr
<1> DEFINE more == Inherits(t)
<1>1. /\ at[t] = "unborn" /\ Program(Parent) /\ maps' = maps \cup more
      /\ memory' = [memory EXCEPT ![t] = memory[Parent]] /\ at' = [at EXCEPT ![t] = "user"]
      /\ UNCHANGED <<segs, chain, requests, backlog, received, open, crashed>>
  BY DEF InheritProcess
<1>2. /\ Typed /\ Stage(t) /\ Got(t) /\ Placed(t) /\ crashed = FALSE /\ OneChain
  BY DEF Agreed, Sound
<1>3. Parent \in Procs
  BY ShmAssumption
<1>4. Placed(Parent) /\ Counted(Parent)
  BY <1>3 DEF Agreed, Sound
<1>5. at[Parent] = "user" /\ ~HasMapped(Parent)
  BY <1>1, <1>3, Programs
<1>6. ASSUME NEW m \in more
      PROVE  /\ m \in Mapping /\ m.proc = t
             /\ \E n \in maps : n.proc = Parent /\ n.slot = m.slot /\ n.addr = m.addr
  <2>1. PICK n \in maps : n.proc = Parent /\ m = [n EXCEPT !.proc = t]
    BY DEF Inherits
  <2>2. n \in Mapping
    BY <1>2 DEF Typed
  <2>3. m.proc = t /\ m.slot = n.slot /\ m.addr = n.addr /\ m \in Mapping
    BY <2>1, <2>2 DEF Mapping
  <2> QED  BY <2>1, <2>3
<1>7. ASSUME NEW n \in maps, n.proc = Parent
      PROVE  \E m \in more : m.slot = n.slot /\ m.addr = n.addr
  <2>1. n \in Mapping
    BY <1>2 DEF Typed
  <2>2. [n EXCEPT !.proc = t] \in more
    BY <1>7 DEF Inherits
  <2>3. [n EXCEPT !.proc = t].slot = n.slot /\ [n EXCEPT !.proc = t].addr = n.addr
    BY <2>1 DEF Mapping
  <2> QED  BY <2>2, <2>3
<1> HIDE DEF more
<1>8. /\ memory' \in [Procs -> SUBSET Page] /\ memory'[t] = memory[Parent] /\ at'[t] = "user"
      /\ at' \in [Procs -> Places] /\ \A u \in Procs \ {t} : memory'[u] = memory[u] /\ at'[u] = at[u]
  BY <1>1, <1>2, <1>3 DEF Typed, Places, Idle
<1>9. Tabled' /\ Keeps /\ maps' \subseteq Mapping /\ \A u \in Procs \ {t} : Aside(u)
  <2>1. PICK inherited : inherited = more
    OBVIOUS
  <2>2. /\ inherited \subseteq Mapping /\ \A m \in inherited : m.proc = t
        /\ maps' = maps \cup inherited /\ UNCHANGED <<segs, received, open>>
    BY <1>1, <1>6, <2>1
  <2>3. \A u \in Procs \ {t} : UNCHANGED <<chain[u], at[u], memory[u]>>
    BY <1>1, <1>8
  <2> QED  BY <2>2, <2>3, Grown
<1>10. Typed'
  BY <1>1, <1>2, <1>5, <1>8, <1>9 DEF Typed, Table
<1>11. chain[t] = Rest
  BY <1>1, <1>2 DEF Stage, Idle
<1>12. Stage(t)'
  BY <1>1, <1>8, <1>11 DEF Stage, Rest, Idle
<1>13. ~Has(t) /\ ~Has(t)' /\ ~HasMapped(t)'
  BY <1>1, <1>8, <1>11 DEF Has, HasMapped, Rest
<1>14. Got(t)'
  BY <1>1, <1>2, <1>8, <1>13 DEF Got, NoFile
<1>15. \A m \in maps : m.proc # t
  BY <1>1, <1>2 DEF Placed
<1>16. Placed(t)'
  <2>1. ASSUME NEW m \in maps', m.proc = t
        PROVE  /\ segs[m.slot].valid
               /\ m.addr \notin NoAddress => [addr |-> m.addr, seg |-> File(m.slot)] \in memory[Parent]
    <3>1. m \in more
      BY <1>1, <1>15, <2>1
    <3>2. PICK n \in maps : n.proc = Parent /\ n.slot = m.slot /\ n.addr = m.addr
      BY <1>6, <3>1
    <3>3. segs[n.slot].valid /\ (n.addr \notin NoAddress => [addr |-> n.addr, seg |-> File(n.slot)] \in memory[Parent])
      BY <1>4, <3>2 DEF Placed
    <3> QED  BY <3>2, <3>3
  <2>2. \A m \in maps' : m.proc = t =>
          /\ segs'[m.slot].valid
          /\ m.addr \notin NoAddress => [addr |-> m.addr, seg |-> (File(m.slot))'] \in memory'[t]
    BY <1>1, <1>8, <2>1 DEF File
  <2> QED  BY <1>8, <2>2 DEF Placed, Idle, NoAddress, ENOMEM, LEFT
<1>17. Counted(t)'
  <2>1. \A x \in memory[Parent] : \E m \in maps' : m.proc = t /\ m.addr = x.addr
    <3>1. \A x \in memory[Parent] : \E n \in maps : n.proc = Parent /\ n.addr = x.addr
      BY <1>4, <1>5 DEF Counted
    <3> QED  BY <1>1, <1>6, <1>7, <3>1
  <2>2. IsFiniteSet({x.addr : x \in memory[Parent]}) /\ \A x, y \in memory[Parent] : x.addr = y.addr => x = y
    BY <1>4 DEF Counted
  <2> QED  BY <1>8, <1>13, <2>1, <2>2 DEF Counted
<1>18. OneChain' /\ crashed' = FALSE
  BY <1>1, <1>2 DEF OneChain
<1>19. ~Connected(t) /\ ~Connected(t)' /\ at[t] # "gone"
  BY <1>1, <1>8, <1>11 DEF Connected
<1>20. Sound(t)'
  BY <1>12, <1>14, <1>16, <1>17 DEF Sound
<1>21. Agreed'
  BY <1>1, <1>5, <1>9, <1>10, <1>18, <1>19, <1>20, Alone
<1>22. \A u \in Procs : at'[u] = "failed" => at[u] = "failed"
  BY <1>8
<1>23. \A m \in maps' \ maps : \E n \in maps : n.proc = Parent /\ n.addr = m.addr
  BY <1>1, <1>6
<1> QED  BY <1>1, <1>3, <1>5, <1>21, <1>22, <1>23

\* shmat(2) begins: alone, or with the others to wait for.
LEMMA ShmatKeeps ==
  ASSUME Agreed, Spaced, NEW t \in Procs, NEW i \in Table, Shmat(t, i)
  PROVE  /\ Agreed' /\ maps' = maps \cup {[proc |-> t, slot |-> i, addr |-> 0]} /\ chain'[t].obj = i /\ at[t] = "user"
         /\ at'[t] # "failed" /\ \A u \in Procs \ {t} : UNCHANGED <<chain[u], at[u]>>
<1> DEFINE more == {[proc |-> t, slot |-> i, addr |-> 0]}
           p == IF Busy(t) THEN "ppoll" ELSE "socket"
           c == [state |-> IF Busy(t) THEN "NOT_CHAINED" ELSE "SOCKET", waits |-> Busy(t), obj |-> i]
<1>1. /\ Program(t) /\ segs[i].valid /\ \A u \in Procs : chain[u].state # "SOCKET"
      /\ maps' = maps \cup more /\ chain' = [chain EXCEPT ![t] = c] /\ at' = [at EXCEPT ![t] = p]
      /\ UNCHANGED <<segs, memory, requests, backlog, received, open, crashed>>
  BY DEF Shmat
<1>2. /\ Typed /\ Stage(t) /\ Got(t) /\ Placed(t) /\ Counted(t) /\ crashed = FALSE /\ OneChain
  BY DEF Agreed, Sound
<1>3. Busy(t) \in BOOLEAN
  BY DEF Busy
<1>4. /\ c \in Chain /\ c.obj = i /\ c.waits = Busy(t)
      /\ Busy(t) => c.state = "NOT_CHAINED" /\ p = "ppoll"
      /\ ~Busy(t) => c.state = "SOCKET" /\ p = "socket"
  BY <1>3, Constants DEF Chain, Chained
<1> HIDE DEF c, p
<1>5. /\ at' \in [Procs -> Places] /\ at'[t] = p /\ chain' \in [Procs -> Chain] /\ chain'[t] = c
      /\ \A u \in Procs \ {t} : UNCHANGED <<chain[u], at[u], memory[u]>>
  BY <1>1, <1>2, <1>4 DEF Typed, Places, Idle
<1>6. more \subseteq Mapping /\ \A m \in more : m.proc = t /\ m.slot = i /\ m.addr = 0
  BY DEF Mapping
<1>7. [proc |-> t, slot |-> i, addr |-> 0] \in maps'
  BY <1>1
<1> HIDE DEF more
<1>8. Tabled' /\ Keeps /\ maps' \subseteq Mapping /\ \A u \in Procs \ {t} : Aside(u)
  <2>1. /\ more \subseteq Mapping /\ \A m \in more : m.proc = t
        /\ maps' = maps \cup more /\ UNCHANGED <<segs, received, open>>
    BY <1>1, <1>6
  <2>2. \A u \in Procs \ {t} : UNCHANGED <<chain[u], at[u], memory[u]>>
    BY <1>5
  <2> QED  BY <2>1, <2>2, Grown
<1>9. at[t] = "user" /\ chain[t] = Rest /\ ~Connected(t) /\ ~HasMapped(t)
  BY <1>1, Programs
<1>10. Typed'
  BY <1>1, <1>2, <1>5, <1>8, <1>9 DEF Typed, Table
<1>11. OneChain'
  <2>1. \A u \in Procs \ {t} : chain[u].state # "NOT_CHAINED" => Busy(t)
    BY <1>1, <1>2 DEF Busy, Typed, Chain, Chained
  <2> QED  BY <1>2, <1>4, <1>5, <2>1 DEF OneChain
<1>12. Stage(t)'
  BY <1>4, <1>5 DEF Stage, Idle, Table
<1>13. ~Has(t) /\ ~Has(t)' /\ ~HasMapped(t)'
  BY <1>4, <1>5, <1>9 DEF Has, HasMapped, Rest
<1>14. Got(t)'
  BY <1>1, <1>2, <1>9, <1>13 DEF Got, NoFile
<1>15. Placed(t)'
  <2>1. ASSUME NEW m \in maps', m.proc = t
        PROVE  segs[m.slot].valid /\ (m.addr \notin NoAddress => [addr |-> m.addr, seg |-> File(m.slot)] \in memory[t])
    <3>1. CASE m \in maps
      BY <1>2, <2>1, <3>1 DEF Placed
    <3>2. CASE m \in more
      BY <1>1, <1>6, <3>2 DEF NoAddress
    <3> QED  BY <1>1, <3>1, <3>2
  <2>2. \A m \in maps' : m.proc = t =>
          /\ segs'[m.slot].valid
          /\ m.addr \notin NoAddress => [addr |-> m.addr, seg |-> (File(m.slot))'] \in memory'[t]
    BY <1>1, <2>1 DEF File
  <2>3. at'[t] \notin {"unborn", "gone"} /\ chain'[t].obj = i
    BY <1>3, <1>4, <1>5
  <2> QED  BY <1>7, <2>2, <2>3 DEF Placed, NoAddress, ENOMEM, LEFT
<1>16. Counted(t)'
  <2>1. \A x \in memory[t] : \E m \in maps' : m.proc = t /\ m.addr = x.addr
    BY <1>1, <1>2, <1>9 DEF Counted
  <2>2. at'[t] \notin {"unborn", "gone"}
    BY <1>3, <1>4, <1>5
  <2> QED  BY <1>1, <1>2, <1>13, <2>1, <2>2 DEF Counted
<1>17. crashed' = FALSE /\ ~Connected(t)' /\ at[t] # "gone" /\ at'[t] # "failed"
  BY <1>1, <1>2, <1>3, <1>4, <1>5, <1>9 DEF Connected
<1>18. Sound(t)'
  BY <1>12, <1>14, <1>15, <1>16 DEF Sound
<1>19. Agreed'
  BY <1>1, <1>8, <1>9, <1>10, <1>11, <1>17, <1>18, Alone
<1>20. maps' = maps \cup {[proc |-> t, slot |-> i, addr |-> 0]}
  BY <1>1 DEF more
<1> QED  BY <1>4, <1>5, <1>9, <1>17, <1>19, <1>20

------------------------------------------------------------------------------
(* The theorems                                                              *)

LEMMA AgreedInit ==
  ASSUME Init
  PROVE  Agreed
<1>1. /\ segs = [i \in Table |-> [valid |-> FALSE, generation |-> 0, rmid_pending |-> FALSE]]
      /\ maps = {} /\ chain = [t \in Procs |-> Rest]
      /\ at = [t \in Procs |-> IF t \in Born THEN "user" ELSE "unborn"]
      /\ memory = [t \in Procs |-> {}] /\ requests = <<>> /\ backlog = <<>>
      /\ received = [t \in Procs |-> [file |-> NoFile, addr |-> 0]]
      /\ open = {} /\ crashed = FALSE
  BY DEF Init
<1>2. Typed
  <2>1. [valid |-> FALSE, generation |-> 0, rmid_pending |-> FALSE] \in Segment
    BY DEF Segment
  <2>2. segs \in [Table -> Segment]
    BY <1>1, <2>1
  <2>3. chain \in [Procs -> Chain] /\ at \in [Procs -> Places] /\ memory \in [Procs -> SUBSET Page]
    BY <1>1 DEF Chain, Rest, Places, Idle
  <2>4. received \in [Procs -> Message]
    BY <1>1 DEF Message, NoFile, Files
  <2> QED  BY <1>1, <2>2, <2>3, <2>4 DEF Typed
<1>3. Tabled
  BY <1>1 DEF Tabled
<1>4. ASSUME NEW t \in Procs PROVE Sound(t)
  <2>1. /\ chain[t] = Rest /\ at[t] \in {"user", "unborn"} /\ memory[t] = {} /\ received[t].file = NoFile
        /\ maps = {} /\ Rest.state = "NOT_CHAINED" /\ Rest.waits = FALSE
    BY <1>1 DEF Rest
  <2>2. Stage(t) /\ Got(t) /\ Placed(t)
    BY <2>1 DEF Stage, Got, Has, HasMapped, Placed, Idle
  <2>3. ~HasMapped(t)
    BY <2>1 DEF HasMapped
  <2>4. {x.addr : x \in memory[t]} = {}
    BY <2>1
  <2> QED  BY <2>1, <2>2, <2>3, <2>4, FS_EmptySet DEF Sound, Counted
<1>5. OneChain
  BY <1>1 DEF OneChain, Rest
<1>6. Exchange
  BY <1>1 DEF Exchange, Rest
<1> QED  BY <1>1, <1>2, <1>3, <1>4, <1>5, <1>6 DEF Agreed

LEMMA AgreedNext ==
  ASSUME Spaced, ~ExecFails, Agreed, [Next]_vars
  PROVE  Agreed'
<1>1. CASE UNCHANGED vars
  <2>1. /\ segs' = segs /\ maps' = maps /\ chain' = chain /\ at' = at /\ memory' = memory /\ received' = received
        /\ requests' = requests /\ backlog' = backlog /\ open' = open /\ crashed' = crashed
    BY <1>1 DEF vars
  <2>2. Typed'
    BY <2>1 DEF Agreed, Typed, Table
  <2>3. OneChain' /\ crashed' = FALSE
    BY <2>1 DEF Agreed, OneChain
  <2>4. Tabled'
    BY <2>1 DEF Agreed, Tabled, File, Table, MapsOf
  <2>5. Keeps /\ \A u \in Procs : Aside(u)
    BY <2>1 DEF Keeps, SameFile, Aside, Lasts, Agreed, Sound, Placed, Typed, Mapping
  <2>6. \A u \in Procs : Sound(u)'
    <3>1. maps' \subseteq Mapping
      BY <2>1, Constants DEF Agreed, Typed
    <3> QED  BY <2>5, <3>1, Untouched DEF Agreed
  <2>7. Exchange'
    <3>1. \A u \in Procs : UNCHANGED <<chain[u], at[u]>> /\ SameFile(chain[u].obj)
      BY <2>1 DEF SameFile
    <3> QED  BY <2>1, <3>1, ExchangeKept DEF Agreed, Sound
  <2> QED  BY <2>2, <2>3, <2>4, <2>6, <2>7 DEF Agreed
<1>2. CASE Helper
  BY <1>2, HelperKeeps
<1>3. ASSUME NEW t \in Procs, Served(t) PROVE Agreed'
  BY <1>3, SocketKeeps, ConnectKeeps, MmapKeeps, ShmatChainKeeps DEF Served
<1>4. ASSUME NEW t \in Procs, Interrupt(t) \/ Shmget(t) \/ Shmdt(t) \/ InheritProcess(t) \/ Exit(t) PROVE Agreed'
  BY <1>4, InterruptKeeps, ShmgetKeeps, ShmdtKeeps, InheritKeeps, ExitKeeps
<1>5. ASSUME NEW t \in Procs, NEW ok \in {TRUE} \cup {~ExecFails}, Execve(t, ok) PROVE Agreed'
  <2>1. ok = TRUE
    OBVIOUS
  <2> QED  BY <1>5, <2>1, ExecveKeeps
<1>6. ASSUME NEW t \in Procs, NEW i \in Table, Shmat(t, i) \/ ShmctlRmid(t, i) PROVE Agreed'
  BY <1>6, ShmatKeeps, ShmctlRmidKeeps
<1> QED  BY <1>1, <1>2, <1>3, <1>4, <1>5, <1>6 DEF Next

\* No process is twice among those that the helper has not accepted.
LEMMA FewRequests ==
  ASSUME Agreed
  PROVE  Len(requests) <= Cardinality(Procs)
<1>1. IsFiniteSet(Procs)
  <2>1. Order \in Surjection(1 .. Len(Order), Procs)
    BY Constants DEF Surjection
  <2> QED  BY <2>1, Constants, FS_NatSurjection DEF ExistsSurjection
<1>2. /\ backlog \in [1 .. Len(backlog) -> Procs] /\ Len(backlog) \in Nat /\ Len(requests) \in Nat
      /\ Len(requests) <= Len(backlog)
      /\ \A m, n \in 1 .. Len(backlog) : backlog[m] = backlog[n] => m = n
  BY DEF Agreed, Typed, Exchange
<1>3. backlog \in Injection(1 .. Len(backlog), Procs)
  BY <1>2 DEF Injection, IsInjective
<1>4. Cardinality(1 .. Len(backlog)) = Len(backlog)
  <2>1. Cardinality(1 .. Len(backlog)) = IF 1 > Len(backlog) THEN 0 ELSE Len(backlog) - 1 + 1
    <3>1. 1 \in Int /\ Len(backlog) \in Int
      BY <1>2
    <3> QED  BY <3>1, FS_Interval, Zenon
  <2> QED  BY <1>2, <2>1
<1>5. Cardinality(1 .. Len(backlog)) <= Cardinality(Procs) /\ Cardinality(Procs) \in Nat
  BY <1>1, <1>3, FS_Injection, FS_CardinalityType
<1> QED  BY <1>2, <1>4, <1>5

LEMMA AgreedImplies ==
  ASSUME Agreed
  PROVE  MappingsAgree
<1>1. TypeOK
  BY FewRequests DEF Agreed, Typed, Tabled, TypeOK, Mapping
<1>2. RightSegment
  BY DEF RightSegment, Agreed, Sound, Placed, Typed, Mapping
<1>3. EveryPageCounted
  BY DEF EveryPageCounted, Agreed, Sound, Counted, HasMapped
<1> QED  BY <1>1, <1>2, <1>3 DEF MappingsAgree, AssertionsHold, Agreed

\* What the processes map, PRoot's table and the files that the helper holds agree in every state, also when calls
\* fail, are interrupted or end with their process (sysvipc_shmat_chain(), sysvipc_shm_inherit_process(),
\* sysvipc_shm_remove_mappings(), the helper): provided that no execve(2) fails after PRoot has translated it, and that
\* no shmat(2) begins while another is in its socket(2), the two cases in which they do not.
THEOREM MemoryAccounted ==
  ASSUME Spaced = TRUE, ExecFails = FALSE
  PROVE  Spec => []MappingsAgree
<1>1. Init => Agreed
  BY AgreedInit
<1>2. Agreed /\ [Next]_vars => Agreed'
  BY AgreedNext
<1>3. Agreed => MappingsAgree
  BY AgreedImplies
<1> QED  BY <1>1, <1>2, <1>3, PTL DEF Spec

------------------------------------------------------------------------------
(* What IPC_RMID leaves                                                      *)

LEMMA Shrunk ==
  ASSUME Pended, maps' \subseteq maps, \A m \in maps' : chain'[m.proc].obj = chain[m.proc].obj,
         \A u \in Procs : at'[u] = "failed" => chain'[u].state # "MMAP"
  PROVE  Pended'
BY DEF Pended, ENOMEM

LEMMA PendedChain ==
  ASSUME Agreed, Pended, NEW t \in Procs, ShmatChain(t)
  PROVE  Pended'
<1>1. at[t] \in {"done", "failed"}
  BY ChainSteps
<1>2. UNCHANGED backlog
  BY ChainSteps
<1>3. /\ Typed /\ Placed(t) /\ (at[t] = "failed" => chain[t].state # "MMAP")
      /\ \A u \in Procs : at[u] = "failed" => chain[u].state # "MMAP"
  BY DEF Agreed, Sound, Pended
<1>4. CASE Mapped(t)
  <2>1. chain[t].state = "MMAP" /\ at[t] = "done"
    BY <1>1, <1>3, <1>4 DEF Mapped
  <2>2. PICK addr \in Nat \ {0} :
          maps' = (maps \ {[proc |-> t, slot |-> chain[t].obj, addr |-> 0]})
                    \cup {[proc |-> t, slot |-> chain[t].obj, addr |-> addr]}
    BY <1>1, <1>2, <1>4, <2>1, MappedKeeps
  <2>3. /\ \A u \in Procs \ {t} : chain'[u].obj = chain[u].obj /\ (UNCHANGED <<chain[u], at[u]>> \/ at'[u] = "socket")
        /\ at'[t] = "user"
    BY <1>1, <1>2, <1>4, MappedKeeps
  <2>4. \A u \in Procs : at'[u] = "failed" => chain'[u].state # "MMAP"
    BY <1>3, <2>3
  <2>5. ASSUME NEW m \in maps'
        PROVE  m.addr # ENOMEM /\ (m.addr = 0 => chain'[m.proc].obj = m.slot)
    <3>1. CASE m = [proc |-> t, slot |-> chain[t].obj, addr |-> addr]
      <4>1. m.addr = addr /\ addr \in Nat \ {0}
        BY <3>1
      <4> QED  BY <4>1 DEF ENOMEM
    <3>2. CASE m \in maps /\ m # [proc |-> t, slot |-> chain[t].obj, addr |-> 0]
      <4>1. m.addr # ENOMEM /\ (m.addr = 0 => chain[m.proc].obj = m.slot) /\ m \in Mapping
        BY <1>3, <2>5, <3>2 DEF Pended, Typed
      <4>2. m.addr = 0 => m.proc \in Procs \ {t}
        BY <3>2, <4>1 DEF Mapping
      <4> QED  BY <2>3, <4>1, <4>2
    <3> QED  BY <2>2, <3>1, <3>2
  <2> QED  BY <1>1, <2>4, <2>5 DEF Pended, ENOMEM
<1>5. CASE at[t] = "failed" /\ chain[t].state # "MMAP" /\ Fail(t) /\ UNCHANGED received
  <2>1. /\ maps' = maps \ Pending(t) /\ at'[t] = "user"
        /\ \A u \in Procs \ {t} : chain'[u].obj = chain[u].obj /\ (UNCHANGED <<chain[u], at[u]>> \/ at'[u] = "socket")
    BY <1>2, <1>5, FailKeeps
  <2>2. \A u \in Procs : at'[u] = "failed" => chain'[u].state # "MMAP"
    BY <1>3, <2>1
  <2>3. ASSUME NEW m \in maps'
        PROVE  m.addr # ENOMEM /\ (m.addr = 0 => chain'[m.proc].obj = m.slot)
    <3>1. m \in maps /\ m \notin Pending(t) /\ m.proc \in Procs
      BY <1>3, <2>1 DEF Typed, Mapping
    <3>2. m.addr # ENOMEM /\ (m.addr = 0 => chain[m.proc].obj = m.slot)
      BY <2>3, <3>1 DEF Pended
    <3>3. m.addr = 0 => m.proc # t
      BY <3>1, <3>2 DEF Pending
    <3> QED  BY <2>1, <3>1, <3>2, <3>3
  <2> QED  BY <1>1, <2>2, <2>3 DEF Pended, ENOMEM
<1>6. CASE /\ at[t] = "done" /\ UNCHANGED maps
           /\ \E s \in {"CONNECT", "RECVMSG", "MMAP"} : chain' = [chain EXCEPT ![t].state = s]
           /\ \E p \in {"connect", "done", "recvmsg", "mmap"} : at' = [at EXCEPT ![t] = p]
  <2>1. /\ at'[t] # "failed" /\ \A u \in Procs \ {t} : at'[u] = at[u] /\ chain'[u] = chain[u]
        /\ chain'[t].obj = chain[t].obj
    BY <1>3, <1>6 DEF Typed, Chain
  <2>2. \A u \in Procs : at'[u] = "failed" => chain'[u].state # "MMAP"
    BY <1>3, <2>1
  <2>3. \A m \in maps' : chain'[m.proc].obj = chain[m.proc].obj
    BY <1>3, <1>6, <2>1 DEF Typed, Mapping
  <2> QED  BY <1>1, <1>6, <2>2, <2>3, Shrunk
<1>7. CASE /\ at[t] = "done" /\ chain[t].state \in {"SOCKET", "CONNECT", "RECVMSG"}
           /\ UNCHANGED <<segs, maps, memory, received, open, crashed>>
           /\ \/ /\ chain[t].state = "SOCKET" /\ chain' = [chain EXCEPT ![t].state = "CONNECT"]
                 /\ at' = [at EXCEPT ![t] = "connect"] /\ UNCHANGED requests
              \/ /\ chain[t].state = "CONNECT" /\ requests' = Append(requests, File(chain[t].obj))
                 /\ chain' = [chain EXCEPT ![t].state = "RECVMSG"]
                 /\ at' = [at EXCEPT ![t] = IF received[t].file # NoFile THEN "done" ELSE "recvmsg"]
              \/ /\ chain[t].state = "RECVMSG" /\ chain' = [chain EXCEPT ![t].state = "MMAP"]
                 /\ at' = [at EXCEPT ![t] = "mmap"] /\ UNCHANGED requests
  <2>1. \E s \in {"CONNECT", "RECVMSG", "MMAP"} : chain' = [chain EXCEPT ![t].state = s]
    BY <1>7
  <2>2. \E p \in {"connect", "done", "recvmsg", "mmap"} : at' = [at EXCEPT ![t] = p]
    BY <1>7
  <2> QED  BY <1>6, <1>7, <2>1, <2>2
<1> QED  BY <1>4, <1>5, <1>7, ChainSteps

LEMMA PendedNext ==
  ASSUME Spaced, ~ExecFails, ~MapFails, Agreed, Pended, [Next]_vars
  PROVE  Pended'
<1>1. /\ maps \subseteq Mapping /\ at \in [Procs -> Places] /\ chain \in [Procs -> Chain]
      /\ \A u \in Procs : at[u] = "failed" => chain[u].state # "MMAP"
      /\ \A u \in Procs : Stage(u)
  BY DEF Agreed, Typed, Pended, Sound
<1>2. ASSUME UNCHANGED chain, maps' \subseteq maps,
             \A u \in Procs : at'[u] = "failed" => at[u] = "failed" \/ chain[u].state # "MMAP"
      PROVE  Pended'
  BY <1>1, <1>2, Shrunk
<1>3. CASE UNCHANGED vars
  BY <1>2, <1>3 DEF vars
<1>4. CASE Helper
  <2>1. UNCHANGED <<maps, chain>>
    BY <1>4 DEF Helper
  <2>2. ASSUME NEW u \in Procs, at'[u] = "failed" PROVE at[u] \in {"failed", "recvmsg"}
    <3>1. at' = [at EXCEPT ![Head(backlog)] = IF @ # "recvmsg" THEN @
                                             ELSE IF Head(requests) \in open THEN "done" ELSE "failed"]
      BY <1>4 DEF Helper
    <3> QED  BY <1>1, <2>2, <3>1
  <2>3. \A u \in Procs : at[u] = "recvmsg" => chain[u].state # "MMAP"
    BY <1>1 DEF Stage
  <2> QED  BY <1>2, <2>1, <2>2, <2>3
<1>5. ASSUME NEW t \in Procs, Served(t) PROVE Pended'
  <2>1. CASE ShmatChain(t)
    BY <2>1, PendedChain
  <2>2. CASE Socket(t) \/ Connect(t)
    <3>1. UNCHANGED <<maps, chain>> /\ at[t] \in {"socket", "connect"} /\ \E s : at' = [at EXCEPT ![t] = s]
      BY <2>2 DEF Socket, Connect, Ends
    <3>2. chain[t].state # "MMAP" /\ \A u \in Procs \ {t} : at'[u] = at[u]
      BY <1>1, <3>1 DEF Stage
    <3> QED  BY <1>2, <3>1, <3>2
  <2>3. CASE Mmap(t)
    <3>1. UNCHANGED <<maps, chain>> /\ at' = [at EXCEPT ![t] = "done"]
      BY <2>3 DEF Mmap, Ends
    <3>2. \A u \in Procs : at'[u] = "failed" => at[u] = "failed"
      BY <1>1, <3>1
    <3> QED  BY <1>2, <3>1, <3>2
  <2> QED  BY <1>5, <2>1, <2>2, <2>3 DEF Served
<1>6. ASSUME NEW t \in Procs, Interrupt(t) PROVE Pended'
  <2>1. /\ maps' \subseteq Mapping /\ at'[t] = "user" /\ \A u \in Procs \ {t} : UNCHANGED <<chain[u], at[u]>>
        /\ \A m \in maps' : m.addr = LEFT \/ (m \in maps /\ m \notin Pending(t))
    BY <1>6, InterruptKeeps DEF Agreed, Typed, Others, Mapping, Table
  <2>2. \A u \in Procs : at'[u] = "failed" => chain'[u].state # "MMAP"
    BY <1>1, <2>1
  <2>3. ASSUME NEW m \in maps'
        PROVE  m.addr # ENOMEM /\ (m.addr = 0 => chain'[m.proc].obj = m.slot)
    <3>1. CASE m.addr = LEFT
      BY <3>1 DEF LEFT, ENOMEM
    <3>2. CASE m \in maps /\ m \notin Pending(t)
      <4>1. m.addr # ENOMEM /\ (m.addr = 0 => chain[m.proc].obj = m.slot) /\ m.proc \in Procs
        BY <1>1, <3>2 DEF Pended, Mapping
      <4>2. m.addr = 0 => m.proc # t
        BY <3>2, <4>1 DEF Pending
      <4> QED  BY <2>1, <4>1, <4>2
    <3> QED  BY <2>1, <3>1, <3>2
  <2> QED  BY <2>2, <2>3 DEF Pended, ENOMEM
<1>7. ASSUME NEW t \in Procs, Shmget(t) PROVE Pended'
  BY <1>2, <1>7 DEF Shmget
<1>8. ASSUME NEW t \in Procs, NEW i \in Table, ShmctlRmid(t, i) PROVE Pended'
  BY <1>2, <1>8 DEF ShmctlRmid
<1>9. ASSUME NEW t \in Procs, Shmdt(t) PROVE Pended'
  <2>1. UNCHANGED <<chain, at>> /\ maps' \subseteq maps
    BY <1>9, ShmdtKeeps DEF Shmdt
  <2> QED  BY <1>2, <2>1
<1>10. ASSUME NEW t \in Procs, NEW ok \in {TRUE} \cup {~ExecFails}, Execve(t, ok) PROVE Pended'
  <2>1. UNCHANGED <<chain, at>> /\ maps' \subseteq maps
    BY <1>10, ExecveKeeps DEF Execve
  <2> QED  BY <1>2, <2>1
<1>11. ASSUME NEW t \in Procs, Exit(t) PROVE Pended'
  <2>1. /\ maps' = {m \in maps : m.proc # t} /\ \A u \in Procs \ {t} : UNCHANGED <<chain[u], at[u]>>
        /\ at' = [at EXCEPT ![t] = "gone"]
    BY <1>11, ExitKeeps DEF Exit
  <2>2. \A m \in maps' : chain'[m.proc].obj = chain[m.proc].obj
    BY <1>1, <2>1 DEF Mapping
  <2>3. \A u \in Procs : at'[u] = "failed" => chain'[u].state # "MMAP"
    BY <1>1, <2>1
  <2> QED  BY <2>1, <2>2, <2>3, Shrunk
<1>12. ASSUME NEW t \in Procs, InheritProcess(t) PROVE Pended'
  <2>1. /\ at[Parent] = "user" /\ Parent \in Procs /\ UNCHANGED chain
        /\ \A u \in Procs : at'[u] = "failed" => at[u] = "failed"
        /\ \A m \in maps' \ maps : \E n \in maps : n.proc = Parent /\ n.addr = m.addr
    BY <1>12, InheritKeeps DEF InheritProcess
  <2>2. chain[Parent].obj = 0
    BY <1>1, <2>1 DEF Stage, Rest, Idle
  <2>3. ASSUME NEW n \in maps, n.proc = Parent PROVE n.addr # 0 /\ n.addr # ENOMEM
    <3>1. n.addr # ENOMEM /\ (n.addr = 0 => chain[Parent].obj = n.slot)
      BY <2>3 DEF Pended
    <3>2. n.slot # 0
      BY <1>1, Constants DEF Mapping
    <3> QED  BY <2>2, <3>1, <3>2
  <2>4. ASSUME NEW m \in maps'
        PROVE  m.addr # ENOMEM /\ (m.addr = 0 => chain[m.proc].obj = m.slot)
    BY <2>1, <2>3, <2>4 DEF Pended
  <2> QED  BY <1>1, <2>1, <2>4 DEF Pended, ENOMEM
<1>13. ASSUME NEW t \in Procs, NEW i \in Table, Shmat(t, i) PROVE Pended'
  <2>1. /\ maps' = maps \cup {[proc |-> t, slot |-> i, addr |-> 0]} /\ chain'[t].obj = i /\ at[t] = "user"
        /\ at'[t] # "failed" /\ \A u \in Procs \ {t} : UNCHANGED <<chain[u], at[u]>>
    BY <1>13, ShmatKeeps
  <2>3. chain[t].obj = 0
    BY <1>1, <2>1 DEF Stage, Rest, Idle
  <2>4. ASSUME NEW m \in maps'
        PROVE  m.addr # ENOMEM /\ (m.addr = 0 => chain'[m.proc].obj = m.slot)
    <3>1. CASE m = [proc |-> t, slot |-> i, addr |-> 0]
      <4>1. m.proc = t /\ m.slot = i /\ m.addr = 0
        BY <3>1
      <4> QED  BY <2>1, <4>1 DEF ENOMEM
    <3>2. CASE m \in maps
      <4>1. m.addr # ENOMEM /\ (m.addr = 0 => chain[m.proc].obj = m.slot) /\ m.slot # 0 /\ m.proc \in Procs
        BY <1>1, <2>4, <3>2, Constants DEF Pended, Mapping
      <4>2. m.addr = 0 => m.proc # t
        BY <2>3, <4>1
      <4> QED  BY <2>1, <4>1, <4>2
    <3> QED  BY <2>1, <3>1, <3>2
  <2>5. \A u \in Procs : at'[u] = "failed" => chain'[u].state # "MMAP"
    BY <1>1, <2>1
  <2> QED  BY <2>4, <2>5 DEF Pended, ENOMEM
<1> QED  BY <1>3, <1>4, <1>5, <1>6, <1>7, <1>8, <1>9, <1>10, <1>11, <1>12, <1>13 DEF Next

\* A segment that IPC_RMID was called on is kept for a process that has it in its memory or is about to, or that keeps
\* the pending mapping of a wait for that very segment which a signal has ended, and for no other (sysvipc_do_rmid(), the
\* destructor of a mapping, sysvipc_shmat_chain()): provided that no mmap(2) fails, which leaves a mapping too, and with
\* what MemoryAccounted assumes.
THEOREM SegmentsFreed ==
  ASSUME Spaced = TRUE, ExecFails = FALSE, MapFails = FALSE
  PROVE  Spec => []RemovedWhenUnused
<1>1. Init => Agreed /\ Pended
  <2>1. Init => Pended
    BY DEF Init, Pended
  <2> QED  BY <2>1, AgreedInit
<1>2. Agreed /\ Pended /\ [Next]_vars => Agreed' /\ Pended'
  BY AgreedNext, PendedNext
<1>3. Agreed /\ Pended => RemovedWhenUnused
  BY DEF RemovedWhenUnused, Agreed, Tabled, Pended, MapsOf
<1> QED  BY <1>1, <1>2, <1>3, PTL DEF Spec

=============================================================================
