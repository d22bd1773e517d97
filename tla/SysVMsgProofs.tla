---------------------------- MODULE SysVMsgProofs ----------------------------
(* Theorems about SysVMsg, for any number of tracees, queues, messages and    *)
(* calls: who waits, waits at a queue that exists; no assertion but the one   *)
(* of the second try can fail; and when one wake-up for each message is       *)
(* enough, nobody sleeps beside a message.                                    *)
EXTENDS SysVMsg, SequenceTheorems, FiniteSetTheorems, WellFoundedInduction, TLAPS

------------------------------------------------------------------------------
(* The invariant                                                             *)

States == {"NOT_WAITING", "RESTARTED_INTO_PPOLL", "RESTARTED_INTO_PPOLL_CANCELED", "ENTERED_PPOLL", "SIGNALED_PPOLL",
           "ENTERED_GETPID"}
Waiting == {"RESTARTED_INTO_PPOLL", "ENTERED_PPOLL"}
Ended == {"RESTARTED_INTO_PPOLL_CANCELED", "SIGNALED_PPOLL"}
Positions == {"user", "sysenter", "sigsys", "again", "ppoll", "sysexit", "sigstop", "stopped", "dead", "gone"}
AllCalls == {NoCall} \cup UNION {Programs[p] : p \in Procs}

\* The calls that may wait.
Waits == {c \in AllCalls : c.f = "msgrcv" /\ ~WrongFlags(c) /\ "NOWAIT" \notin c.flags}

Results == {NoResult, "OK", "EAGAIN", "EINVAL", "ENOMSG", "E2BIG", "EIDRM", "EINTR", "ENOENT", "EEXIST"} \cup Messages

Config == [reason : {"NOT_WAITING", "QUEUE_RECV"}, state : States, status : Results, obj : Int, arg : AllCalls \cup {NoArg},
           retry : BOOLEAN, sigstop : {"IGNORED", "ALLOWED"}]
Process == [pos : Positions, call : AllCalls, ret : Results, sigstop : BOOLEAN]
Queue == [key : {c.key : c \in AllCalls}, gen : -HalfGen .. HalfGen - 1, valid : BOOLEAN, items : Seq(Messages)]

Session == [cf : [Procs -> Config], ke : [Procs -> Process], crashed : BOOLEAN, queues : Seq(Queue)]

\* Where the kernel has a tracee, and how far its wait is.
Phase(c, k) ==
  /\ c.reason # "NOT_WAITING" <=> c.state \in Waiting
  /\ k.pos \in {"user", "sigsys", "sigstop", "gone"} => c.state = "NOT_WAITING"
  /\ k.pos = "sysenter" => c.state \in {"NOT_WAITING", "RESTARTED_INTO_PPOLL", "RESTARTED_INTO_PPOLL_CANCELED"}
  /\ k.pos = "again" => c.state \in {"RESTARTED_INTO_PPOLL", "RESTARTED_INTO_PPOLL_CANCELED"}
  /\ k.pos = "ppoll" => c.state \in {"ENTERED_PPOLL", "SIGNALED_PPOLL"}
  /\ k.pos = "sysexit" => c.state \in {"NOT_WAITING", "ENTERED_PPOLL", "SIGNALED_PPOLL", "ENTERED_GETPID"}
  /\ k.pos # "stopped"
  /\ k.sigstop \/ k.pos = "sigstop" => c.sigstop = "IGNORED"
  /\ c.state = "SIGNALED_PPOLL" /\ k.pos = "ppoll" => k.sigstop
  /\ k.sigstop => k.pos \in {"ppoll", "sysexit", "user"}

\* Who waits, or was woken to try again, has made a call that may wait.
Proper(c, k) ==
  /\ Phase(c, k)
  /\ c.retry => c.state \in Ended /\ c.status = "EAGAIN"
  /\ c.reason = "QUEUE_RECV" \/ c.retry => c.arg \in Waits

Fits(s, q) ==
  s.cf[q].reason = "QUEUE_RECV" => s.cf[q].obj \in DOMAIN s.queues /\ s.queues[s.cf[q].obj].valid

Sound ==
  /\ State \in Session
  /\ \A p \in Procs : Proper(cf[p], ke[p]) /\ Fits(State, p)

\* The messages of a queue that a call may get, and the receivers that were woken for the same ones.
Mine(items, c) == {n \in DOMAIN items : Accepted(c, items[n])}
Woken(f, i) == {q \in Procs : f[q].retry /\ f[q].obj = i}
Fellows(f, i, c) == {q \in Woken(f, i) : Same(f[q].arg, c)}

\* For each message that a call may get such a receiver was woken; or it may get one, for which a receiver was woken.
Enough(items, f, i, c) ==
  \/ Cardinality(Mine(items, c)) <= Cardinality(Fellows(f, i, c))
  \/ \E q \in Woken(f, i) : Mine(items, c) = {Found(items, f[q].arg)}

Served(f, x) == \A p \in Procs : f[p].reason = "QUEUE_RECV" => Enough(x[f[p].obj].items, f, f[p].obj, f[p].arg)

Conditions == Alike /\ Roomy /\ Survive

\* What every step does; the theorems follow from it.
Goes ==
  /\ Sound'
  /\ QueuesStay => crashed' = crashed
  /\ Served(cf, queues) /\ Conditions => Served(cf', queues')

------------------------------------------------------------------------------
(* Sets and sequences                                                        *)

\* A set of natural numbers has a least one.
LEMMA Least ==
  ASSUME NEW S \in SUBSET Nat, S # {}
  PROVE  \E x \in S : \A y \in S : x <= y
<1>1. IsWellFoundedOn(OpToRel(<, Nat), Nat)
  BY NatLessThanWellFounded
<1>2. PICK x \in S : \A y \in S : ~(<<y, x>> \in OpToRel(<, Nat))
  BY <1>1, WFMin
<1>3. \A y \in S : ~(y < x)
  BY <1>2 DEF OpToRel
<1>4. \A y \in S : x <= y
  BY <1>3
<1> QED  BY <1>4

\* Induction along a sequence.
LEMMA Counting ==
  ASSUME NEW N \in Nat, NEW P \in SUBSET Nat, 0 \in P, \A n \in 1 .. N : n - 1 \in P => n \in P
  PROVE  \A n \in 0 .. N : n \in P
<1> DEFINE Bad == (0 .. N) \ P
<1>1. SUFFICES ASSUME Bad # {} PROVE FALSE
  OBVIOUS
<1>2. PICK x \in Bad : \A y \in Bad : x <= y
  <2>1. Bad \in SUBSET Nat
    OBVIOUS
  <2> HIDE DEF Bad
  <2> QED  BY <1>1, <2>1, Least
<1>3. x \in 1 .. N /\ x - 1 \in 0 .. N /\ ~(x <= x - 1)
  BY <1>2
<1>4. x - 1 \in P
  BY <1>2, <1>3
<1> QED  BY <1>2, <1>3, <1>4

\* What Steps describes exists.
Follows(f, S, s, N, G) == f \in [0 .. N -> S] /\ f[0] = s /\ \A n \in 1 .. N : f[n] = G[<<n, f[n - 1]>>]

LEMMA Recursion ==
  ASSUME NEW S, NEW s \in S, NEW N \in Nat, NEW G \in [(1 .. N) \X S -> S]
  PROVE  \E f : Follows(f, S, s, N, G)
<1> DEFINE Good(m) == \E f \in [0 .. m -> S] : f[0] = s /\ \A n \in 1 .. m : f[n] = G[<<n, f[n - 1]>>]
           P == {m \in Nat : Good(m)}
<1>1. ASSUME NEW m \in 1 .. N, Good(m - 1)
      PROVE  Good(m)
  <2>1. PICK f \in [0 .. m - 1 -> S] : f[0] = s /\ \A n \in 1 .. m - 1 : f[n] = G[<<n, f[n - 1]>>]
    BY <1>1
  <2>2. m - 1 \in 0 .. m - 1 /\ 0 \in 0 .. m - 1 /\ m # 0 /\ m \in 0 .. m
    BY <1>1
  <2>3. f[m - 1] \in S
    BY <2>1, <2>2
  <2>4. G[<<m, f[m - 1]>>] \in S
    <3>1. <<m, f[m - 1]>> \in (1 .. N) \X S
      BY <2>3
    <3> QED  BY <3>1
  <2> DEFINE g == [n \in 0 .. m |-> IF n = m THEN G[<<m, f[m - 1]>>] ELSE f[n]]
  <2>5. \A n \in 0 .. m : n # m => n \in 0 .. m - 1
    BY <1>1
  <2>6. g \in [0 .. m -> S]
    BY <2>1, <2>4, <2>5
  <2>7. g[0] = s
    BY <2>1, <2>2
  <2>8. \A n \in 1 .. m : g[n] = G[<<n, g[n - 1]>>]
    <3> TAKE n \in 1 .. m
    <3>1. n \in 0 .. m /\ n - 1 \in 0 .. m /\ n - 1 # m
      BY <1>1
    <3>2. g[n - 1] = f[n - 1]
      BY <3>1
    <3>3. CASE n = m  BY <3>1, <3>2, <3>3
    <3>4. CASE n # m
      <4>1. n \in 1 .. m - 1 /\ g[n] = f[n]
        BY <3>1, <3>4, <1>1
      <4> QED  BY <2>1, <3>2, <4>1
    <3> QED  BY <3>3, <3>4
  <2> QED  BY <2>6, <2>7, <2>8
<1>2. Good(0)
  <2> DEFINE g == [n \in 0 .. 0 |-> s]
  <2>1. g \in [0 .. 0 -> S] /\ g[0] = s /\ 1 .. 0 = {}
    OBVIOUS
  <2> QED  BY <2>1
<1>3. 0 \in P /\ P \in SUBSET Nat
  BY <1>2
<1>4. ASSUME NEW n \in 1 .. N, n - 1 \in P
      PROVE  n \in P
  BY <1>1, <1>4
<1>5. \A n \in 0 .. N : n \in P
  <2> HIDE DEF P
  <2> QED  BY <1>3, <1>4, Counting
<1> QED  BY <1>5 DEF Follows

LEMMA Lists ==
  /\ Order \in Seq(Procs) /\ Len(Order) \in Nat
  /\ \A n \in 1 .. Len(Order) : Order[n] \in Procs
  /\ \A q \in Procs : \E n \in 1 .. Len(Order) : q = Order[n]
  BY WaitAssumption DEF Range

LEMMA FiniteProcs == IsFiniteSet(Procs)
<1> DEFINE f == [n \in 1 .. Len(Order) |-> Order[n]]
<1>1. f \in Surjection(1 .. Len(Order), Procs)
  BY Lists DEF Surjection
<1>2. IsFiniteSet(1 .. Len(Order))
  BY Lists, FS_Interval
<1> QED  BY <1>1, <1>2, FS_Surjection

\* The element of a sequence before its n-th one was removed.
Back(n, k) == IF k < n THEN k ELSE k + 1

LEMMA Removed ==
  ASSUME NEW S, NEW seq \in Seq(S), NEW n \in 1 .. Len(seq)
  PROVE  /\ RemoveAt(seq, n) \in Seq(S) /\ Len(RemoveAt(seq, n)) = Len(seq) - 1
         /\ DOMAIN RemoveAt(seq, n) = 1 .. Len(seq) - 1
         /\ \A k \in 1 .. Len(seq) - 1 : RemoveAt(seq, n)[k] = seq[Back(n, k)]
<1> DEFINE a == SubSeq(seq, 1, n - 1)
           b == SubSeq(seq, n + 1, Len(seq))
<1>1. Len(seq) \in Nat /\ n \in Nat /\ n >= 1 /\ n <= Len(seq)
  OBVIOUS
<1>2. a \in Seq(S) /\ Len(a) = n - 1 /\ \A k \in 1 .. n - 1 : a[k] = seq[k]
  BY <1>1, SubSeqProperties
<1>3. b \in Seq(S) /\ Len(b) = Len(seq) - n /\ \A k \in 1 .. Len(seq) - n : b[k] = seq[n + k]
  BY <1>1, SubSeqProperties
<1>4. RemoveAt(seq, n) = a \o b
  BY DEF RemoveAt
<1> HIDE DEF a, b
<1>5. a \o b \in Seq(S) /\ Len(a \o b) = Len(seq) - 1
  <2>1. a \o b \in Seq(S) /\ Len(a \o b) = Len(a) + Len(b)
    BY <1>2, <1>3, ConcatProperties
  <2> QED  BY <1>1, <1>2, <1>3, <2>1
<1>6. ASSUME NEW k \in 1 .. Len(seq) - 1
      PROVE  (a \o b)[k] = seq[Back(n, k)]
  <2>1. k \in 1 .. Len(a) + Len(b)
    BY <1>1, <1>2, <1>3
  <2>2. (a \o b)[k] = IF k <= Len(a) THEN a[k] ELSE b[k - Len(a)]
    BY <1>2, <1>3, <2>1, ConcatProperties
  <2>3. CASE k < n
    BY <1>1, <1>2, <2>2, <2>3 DEF Back
  <2>4. CASE ~(k < n)
    <3>1. k - Len(a) \in 1 .. Len(seq) - n /\ n + (k - Len(a)) = k + 1
      BY <1>1, <1>2, <2>4
    <3>2. b[k - Len(a)] = seq[k + 1]
      BY <1>3, <3>1
    <3> QED  BY <1>1, <1>2, <2>2, <2>4, <3>2 DEF Back
  <2> QED  BY <2>3, <2>4
<1> QED  BY <1>1, <1>4, <1>5, <1>6

------------------------------------------------------------------------------
(* The messages that a call may get                                          *)

Copies(c) == "COPY" \in c.flags

LEMMA MineType ==
  ASSUME NEW items \in Seq(Messages), NEW c
  PROVE  /\ Mine(items, c) \subseteq 1 .. Len(items) /\ Mine(items, c) \in SUBSET Nat
         /\ IsFiniteSet(Mine(items, c)) /\ Cardinality(Mine(items, c)) \in Nat
<1>1. Mine(items, c) \subseteq 1 .. Len(items) /\ Len(items) \in Nat
  BY DEF Mine
<1>2. IsFiniteSet(1 .. Len(items))
  BY <1>1, FS_Interval
<1>3. IsFiniteSet(Mine(items, c))
  BY <1>1, <1>2, FS_Subset
<1> QED  BY <1>1, <1>3, FS_CardinalityType

\* A call gets the first of them.
LEMMA FoundFirst ==
  ASSUME NEW items \in Seq(Messages), NEW c, ~Copies(c)
  PROVE  /\ Mine(items, c) = {} => Found(items, c) = 0
         /\ Mine(items, c) # {} =>
              Found(items, c) \in Mine(items, c) /\ \A o \in Mine(items, c) : Found(items, c) <= o
         /\ 0 \notin Mine(items, c)
<1> DEFINE all == Mine(items, c)
<1>1. Found(items, c) = IF all = {} THEN 0 ELSE CHOOSE n \in all : \A o \in all : n <= o
  BY DEF Found, Mine, Copies
<1>2. all \in SUBSET Nat /\ 0 \notin all
  BY MineType
<1> HIDE DEF all
<1>3. all # {} => \E n \in all : \A o \in all : n <= o
  BY <1>2, Least
<1> QED  BY <1>1, <1>2, <1>3 DEF all

\* The same call, after the first of them is known.
LEMMA FoundIs ==
  ASSUME NEW items \in Seq(Messages), NEW c, ~Copies(c), NEW k \in Mine(items, c), \A o \in Mine(items, c) : k <= o
  PROVE  Found(items, c) = k
<1>1. Mine(items, c) \in SUBSET Nat
  BY MineType
<1>2. Found(items, c) \in Mine(items, c) /\ \A o \in Mine(items, c) : Found(items, c) <= o
  BY FoundFirst
<1>3. Found(items, c) <= k /\ k <= Found(items, c) /\ k \in Nat /\ Found(items, c) \in Nat
  BY <1>1, <1>2
<1> HIDE DEF Found
<1> QED  BY <1>3

\* A message is taken off.
LEMMA MineRemoved ==
  ASSUME NEW items \in Seq(Messages), NEW n \in 1 .. Len(items), NEW c
  PROVE  /\ Mine(RemoveAt(items, n), c) = {k \in 1 .. Len(items) - 1 : Back(n, k) \in Mine(items, c)}
         /\ Cardinality(Mine(RemoveAt(items, n), c)) <= Cardinality(Mine(items, c) \ {n})
<1> DEFINE rest == RemoveAt(items, n)
           M == Mine(items, c)
           R == Mine(rest, c)
           f == [k \in R |-> Back(n, k)]
<1>1. /\ rest \in Seq(Messages) /\ DOMAIN rest = 1 .. Len(items) - 1
      /\ \A k \in 1 .. Len(items) - 1 : rest[k] = items[Back(n, k)]
  BY Removed
<1>2. \A k \in 1 .. Len(items) - 1 : Back(n, k) \in DOMAIN items \ {n}
  BY DEF Back
<1>3. R = {k \in 1 .. Len(items) - 1 : Back(n, k) \in M}
  BY <1>1, <1>2 DEF Mine
<1> HIDE DEF rest, M
<1>4. \A k \in R : k \in 1 .. Len(items) - 1 /\ Back(n, k) \in M \ {n}
  BY <1>2, <1>3
<1>5. \A k, l \in 1 .. Len(items) - 1 : Back(n, k) = Back(n, l) => k = l
  BY DEF Back
<1> HIDE DEF R
<1>6. f \in Injection(R, M \ {n})
  BY <1>4, <1>5 DEF Injection, IsInjective
<1>7. IsFiniteSet(M \ {n})
  BY MineType, FS_RemoveElement DEF M
<1>8. Cardinality(R) <= Cardinality(M \ {n})
  <2> HIDE DEF f
  <2> QED  BY <1>6, <1>7, FS_Injection
<1> QED  BY <1>3, <1>8 DEF R, M, rest

\* The place of another message afterwards.
Fore(n, k) == IF k < n THEN k ELSE k - 1

LEMMA OneRemoved ==
  ASSUME NEW items \in Seq(Messages), NEW n \in 1 .. Len(items), NEW c, NEW k \in 1 .. Len(items), k # n, Mine(items, c) = {k}
  PROVE  Mine(RemoveAt(items, n), c) = {Fore(n, k)}
<1>1. Mine(RemoveAt(items, n), c) = {l \in 1 .. Len(items) - 1 : Back(n, l) = k}
  <2>1. Mine(RemoveAt(items, n), c) = {l \in 1 .. Len(items) - 1 : Back(n, l) \in Mine(items, c)}
    BY MineRemoved
  <2>2. \A l : l \in Mine(items, c) <=> l = k
    OBVIOUS
  <2> QED  BY <2>1, <2>2
<1>2. Fore(n, k) \in 1 .. Len(items) - 1 /\ \A l \in 1 .. Len(items) - 1 : Back(n, l) = k <=> l = Fore(n, k)
  BY DEF Fore, Back
<1> QED  BY <1>1, <1>2

LEMMA FoundRemoved ==
  ASSUME NEW items \in Seq(Messages), NEW n \in 1 .. Len(items), NEW c, ~Copies(c), Found(items, c) # 0, Found(items, c) # n
  PROVE  Found(RemoveAt(items, n), c) = Fore(n, Found(items, c))
<1> DEFINE k == Found(items, c)
           rest == RemoveAt(items, n)
<1>1. k \in Mine(items, c) /\ \A o \in Mine(items, c) : k <= o
  BY FoundFirst
<1>2. k \in 1 .. Len(items)
  BY <1>1, MineType
<1>3. rest \in Seq(Messages) /\ Mine(rest, c) = {l \in 1 .. Len(items) - 1 : Back(n, l) \in Mine(items, c)}
  BY Removed, MineRemoved
<1> HIDE DEF k, rest
<1>4. k # n
  BY DEF k
<1>5. Fore(n, k) \in 1 .. Len(items) - 1 /\ Back(n, Fore(n, k)) = k
  BY <1>2, <1>4 DEF Fore, Back
<1>6. ASSUME NEW l \in Mine(rest, c)
      PROVE  Fore(n, k) <= l
  <2>1. k <= Back(n, l) /\ l \in 1 .. Len(items) - 1
    BY <1>1, <1>3
  <2> QED  BY <1>2, <2>1 DEF Fore, Back
<1>7. Fore(n, k) \in Mine(rest, c)
  BY <1>1, <1>3, <1>5
<1> QED  BY <1>3, <1>6, <1>7, FoundIs DEF k, rest

\* A message is put at the end.
LEMMA MineSent ==
  ASSUME NEW items \in Seq(Messages), NEW m \in Messages, NEW c
  PROVE  /\ Append(items, m) \in Seq(Messages)
         /\ ~Accepted(c, m) => Mine(Append(items, m), c) = Mine(items, c)
         /\ Accepted(c, m) => /\ Mine(Append(items, m), c) = Mine(items, c) \cup {Len(items) + 1}
                              /\ Cardinality(Mine(Append(items, m), c)) = Cardinality(Mine(items, c)) + 1
<1> DEFINE all == Append(items, m)
           N == Len(items)
<1>1. /\ all \in Seq(Messages) /\ DOMAIN all = 1 .. N + 1 /\ DOMAIN items = 1 .. N /\ N \in Nat
      /\ all[N + 1] = m /\ \A k \in 1 .. N : all[k] = items[k]
  OBVIOUS
<1> HIDE DEF all, N
<1>2. \A k \in 1 .. N + 1 : k \in 1 .. N \/ k = N + 1
  BY <1>1
<1>3. N + 1 \in 1 .. N + 1 /\ N + 1 \notin 1 .. N /\ 1 .. N \subseteq 1 .. N + 1
  BY <1>1
<1>4. Mine(all, c) = {k \in 1 .. N + 1 : Accepted(c, all[k])} /\ Mine(items, c) = {k \in 1 .. N : Accepted(c, items[k])}
  BY <1>1 DEF Mine
<1>5. ~Accepted(c, m) => Mine(all, c) = Mine(items, c)
  BY <1>1, <1>2, <1>3, <1>4
<1>6. Accepted(c, m) => Mine(all, c) = Mine(items, c) \cup {N + 1}
  BY <1>1, <1>2, <1>3, <1>4
<1>7. N + 1 \notin Mine(items, c) /\ IsFiniteSet(Mine(items, c))
  BY <1>3, <1>4, MineType
<1>8. Cardinality(Mine(items, c) \cup {N + 1}) = Cardinality(Mine(items, c)) + 1
  BY <1>7, FS_AddElement
<1> QED  BY <1>1, <1>5, <1>6, <1>8 DEF all, N

LEMMA FoundSent ==
  ASSUME NEW items \in Seq(Messages), NEW m \in Messages, NEW c, ~Copies(c), Found(items, c) # 0
  PROVE  Found(Append(items, m), c) = Found(items, c)
<1> DEFINE k == Found(items, c)
<1>1. k \in Mine(items, c) /\ \A o \in Mine(items, c) : k <= o
  BY FoundFirst
<1>2. k \in 1 .. Len(items)
  BY <1>1, MineType
<1>3. Mine(Append(items, m), c) \subseteq Mine(items, c) \cup {Len(items) + 1} /\ k \in Mine(Append(items, m), c)
  BY <1>1, MineSent
<1>4. \A o \in Mine(Append(items, m), c) : k <= o
  BY <1>1, <1>2, <1>3
<1>5. Append(items, m) \in Seq(Messages)
  BY MineSent
<1> HIDE DEF k
<1> QED  BY <1>3, <1>4, <1>5, FoundIs DEF k

------------------------------------------------------------------------------
(* The receivers of a queue                                                  *)

LEMMA FellowsType ==
  ASSUME NEW f, NEW i, NEW c
  PROVE  /\ Fellows(f, i, c) \subseteq Woken(f, i) /\ Woken(f, i) \subseteq Procs
         /\ IsFiniteSet(Fellows(f, i, c)) /\ Cardinality(Fellows(f, i, c)) \in Nat
<1>1. Fellows(f, i, c) \subseteq Woken(f, i) /\ Woken(f, i) \subseteq Procs
  BY DEF Fellows, Woken
<1>2. IsFiniteSet(Fellows(f, i, c))
  <2>1. Fellows(f, i, c) \in SUBSET Procs
    BY <1>1
  <2> QED  BY <2>1, FiniteProcs, FS_Subset
<1> QED  BY <1>1, <1>2, FS_CardinalityType

\* Those that were woken before are still to try again, for the same.
StillWoken(f, g, i, S) == \A q \in S : q \in Woken(g, i) /\ g[q].arg = f[q].arg

LEMMA MoreFellows ==
  ASSUME NEW f, NEW g, NEW i, NEW c, StillWoken(f, g, i, Fellows(f, i, c))
  PROVE  Cardinality(Fellows(f, i, c)) <= Cardinality(Fellows(g, i, c))
<1>1. Fellows(f, i, c) \in SUBSET Fellows(g, i, c)
  BY DEF Fellows, StillWoken
<1>2. IsFiniteSet(Fellows(g, i, c))
  BY FellowsType
<1> QED  BY <1>1, <1>2, FS_Subset

LEMMA EnoughForNone ==
  ASSUME NEW items, NEW f, NEW i, NEW c, Mine(items, c) = {}
  PROVE  Enough(items, f, i, c)
<1>1. Cardinality(Mine(items, c)) = 0
  BY FS_EmptySet
<1>2. Cardinality(Fellows(f, i, c)) \in Nat
  BY FellowsType
<1> QED  BY <1>1, <1>2 DEF Enough

LEMMA EnoughKept ==
  ASSUME NEW items \in Seq(Messages), NEW f, NEW g, NEW i, NEW c, Enough(items, f, i, c), StillWoken(f, g, i, Woken(f, i))
  PROVE  Enough(items, g, i, c)
<1>1. CASE Cardinality(Mine(items, c)) <= Cardinality(Fellows(f, i, c))
  <2>1. StillWoken(f, g, i, Fellows(f, i, c))
    BY FellowsType DEF StillWoken
  <2>2. /\ Cardinality(Fellows(f, i, c)) <= Cardinality(Fellows(g, i, c))
        /\ Cardinality(Mine(items, c)) \in Nat /\ Cardinality(Fellows(f, i, c)) \in Nat /\ Cardinality(Fellows(g, i, c)) \in Nat
    BY <2>1, MoreFellows, MineType, FellowsType
  <2>3. Cardinality(Mine(items, c)) <= Cardinality(Fellows(g, i, c))
    BY <1>1, <2>2
  <2> QED  BY <2>3 DEF Enough
<1>2. CASE \E q \in Woken(f, i) : Mine(items, c) = {Found(items, f[q].arg)}
  BY <1>2 DEF Enough, StillWoken
<1> QED  BY <1>1, <1>2 DEF Enough

\* One of them takes the n-th message, one that was woken for it or one that was not: what is left is left to others.
LEMMA EnoughTaken ==
  ASSUME NEW items \in Seq(Messages), NEW f, NEW g, NEW i, NEW c, Enough(items, f, i, c), NEW n \in 1 .. Len(items),
         \A q \in Woken(f, i) : ~Copies(f[q].arg),
         \/ StillWoken(f, g, i, Woken(f, i))
         \/ \E r \in Woken(f, i) : ~Copies(f[r].arg) /\ n = Found(items, f[r].arg) /\ StillWoken(f, g, i, Woken(f, i) \ {r})
  PROVE  Enough(RemoveAt(items, n), g, i, c)
<1> DEFINE rest == RemoveAt(items, n)
           M == Mine(items, c)
           F == Fellows(f, i, c)
           G == Fellows(g, i, c)
<1>1. /\ IsFiniteSet(M) /\ Cardinality(M) \in Nat /\ IsFiniteSet(F) /\ Cardinality(F) \in Nat
      /\ IsFiniteSet(G) /\ Cardinality(G) \in Nat /\ rest \in Seq(Messages) /\ Cardinality(Mine(rest, c)) \in Nat
      /\ Cardinality(Mine(rest, c)) <= Cardinality(M \ {n})
  BY MineType, FellowsType, MineRemoved, Removed
<1>2. Cardinality(M \ {n}) = IF n \in M THEN Cardinality(M) - 1 ELSE Cardinality(M)
  BY <1>1, FS_RemoveElement
<1>3. CASE Cardinality(M) <= Cardinality(F)
  <2>1. CASE StillWoken(f, g, i, Woken(f, i))
    <3>1. Cardinality(F) <= Cardinality(G)
      BY <2>1, FellowsType, MoreFellows DEF StillWoken
    <3>2. Cardinality(Mine(rest, c)) <= Cardinality(G)
      <4> HIDE DEF rest, M, F, G
      <4> QED  BY <1>1, <1>2, <1>3, <3>1
    <3> QED  BY <3>2 DEF Enough
  <2>2. ASSUME NEW r \in Woken(f, i), ~Copies(f[r].arg), n = Found(items, f[r].arg), StillWoken(f, g, i, Woken(f, i) \ {r})
        PROVE  Enough(rest, g, i, c)
    <3>1. n \in Mine(items, f[r].arg)
      BY <2>2, FoundFirst
    <3>2. F \ {r} \in SUBSET G
      BY <2>2 DEF Fellows, StillWoken
    <3>3. Cardinality(F \ {r}) <= Cardinality(G)
      BY <1>1, <3>2, FS_Subset
    <3>4. Cardinality(F \ {r}) = IF r \in F THEN Cardinality(F) - 1 ELSE Cardinality(F)
      BY <1>1, FS_RemoveElement
    <3>5. r \in F => n \in M
      <4>1. items[n] \in Messages
        BY ElementOfSeq
      <4> QED  BY <3>1, <4>1 DEF Fellows, Same, Mine
    <3>6. Cardinality(Mine(rest, c)) <= Cardinality(G)
      <4> HIDE DEF rest, M, F, G
      <4> QED  BY <1>1, <1>2, <1>3, <3>3, <3>4, <3>5
    <3> QED  BY <3>6 DEF Enough
  <2> QED  BY <2>1, <2>2
<1>4. ASSUME NEW q \in Woken(f, i), M = {Found(items, f[q].arg)}
      PROVE  Enough(rest, g, i, c)
  <2> DEFINE k == Found(items, f[q].arg)
  <2>1. k \in M /\ M \subseteq 1 .. Len(items)
    BY <1>4, MineType
  <2>2. k \in 1 .. Len(items) /\ k # 0
    BY <2>1
  <2>3. CASE k = n
    <3>1. M \ {n} = {}
      BY <1>4, <2>3
    <3>2. Cardinality(Mine(rest, c)) <= 0
      BY <1>1, <3>1, FS_EmptySet
    <3>3. Cardinality(Mine(rest, c)) <= Cardinality(G)
      <4> HIDE DEF rest, G
      <4> QED  BY <1>1, <3>2
    <3> QED  BY <3>3 DEF Enough
  <2>4. CASE k # n
    <3>1. q \in Woken(g, i) /\ g[q].arg = f[q].arg
      BY <2>4 DEF StillWoken
    <3>2. Mine(rest, c) = {Fore(n, k)}
      <4> HIDE DEF k
      <4> QED  BY <1>4, <2>2, <2>4, OneRemoved DEF k
    <3>3. Found(rest, f[q].arg) = Fore(n, k)
      BY <2>2, <2>4, FoundRemoved
    <3> QED  BY <3>1, <3>2, <3>3 DEF Enough
  <2> QED  BY <2>3, <2>4
<1> QED  BY <1>3, <1>4 DEF Enough

\* One that was woken finds nothing.
LEMMA EnoughMissed ==
  ASSUME NEW items \in Seq(Messages), NEW f, NEW g, NEW i, NEW c, Enough(items, f, i, c),
         NEW r \in Woken(f, i), ~Copies(f[r].arg), Found(items, f[r].arg) = 0, StillWoken(f, g, i, Woken(f, i) \ {r})
  PROVE  Enough(items, g, i, c)
<1>1. Mine(items, f[r].arg) = {}
  BY FoundFirst
<1>2. CASE r \in Fellows(f, i, c)
  <2>1. \A n \in DOMAIN items : items[n] \in Messages
    BY ElementOfSeq
  <2>2. Mine(items, c) = {}
    BY <1>1, <1>2, <2>1 DEF Fellows, Same, Mine
  <2> QED  BY <2>2, EnoughForNone
<1>3. CASE r \notin Fellows(f, i, c) /\ Cardinality(Mine(items, c)) <= Cardinality(Fellows(f, i, c))
  <2>1. StillWoken(f, g, i, Fellows(f, i, c))
    BY <1>3, FellowsType DEF StillWoken
  <2>2. /\ Cardinality(Fellows(f, i, c)) <= Cardinality(Fellows(g, i, c))
        /\ Cardinality(Mine(items, c)) \in Nat /\ Cardinality(Fellows(f, i, c)) \in Nat /\ Cardinality(Fellows(g, i, c)) \in Nat
    BY <2>1, MoreFellows, MineType, FellowsType
  <2>3. Cardinality(Mine(items, c)) <= Cardinality(Fellows(g, i, c))
    BY <1>3, <2>2
  <2> QED  BY <2>3 DEF Enough
<1>4. ASSUME NEW q \in Woken(f, i), Mine(items, c) = {Found(items, f[q].arg)}
      PROVE  Enough(items, g, i, c)
  <2>1. Found(items, f[q].arg) # 0
    <3>1. Found(items, f[q].arg) \in Mine(items, c)
      BY <1>4
    <3> HIDE DEF Found
    <3> QED  BY <3>1, MineType
  <2>2. q \in Woken(g, i) /\ g[q].arg = f[q].arg
    BY <2>1 DEF StillWoken
  <2> QED  BY <1>4, <2>2 DEF Enough
<1> QED  BY <1>2, <1>3, <1>4 DEF Enough

\* A message is sent that others get.
LEMMA EnoughForOthers ==
  ASSUME NEW items \in Seq(Messages), NEW f, NEW g, NEW i, NEW c, Enough(items, f, i, c), NEW m \in Messages, ~Accepted(c, m),
         StillWoken(f, g, i, Woken(f, i)), \A q \in Woken(f, i) : ~Copies(f[q].arg)
  PROVE  Enough(Append(items, m), g, i, c)
<1> DEFINE all == Append(items, m)
<1>1. Enough(items, g, i, c)
  BY EnoughKept
<1>2. Mine(all, c) = Mine(items, c)
  BY MineSent
<1>3. CASE Cardinality(Mine(items, c)) <= Cardinality(Fellows(g, i, c))
  BY <1>2, <1>3 DEF Enough
<1>4. CASE Cardinality(Mine(items, c)) <= Cardinality(Fellows(f, i, c))
  <2>1. /\ Cardinality(Fellows(f, i, c)) <= Cardinality(Fellows(g, i, c))
        /\ Cardinality(Mine(items, c)) \in Nat /\ Cardinality(Fellows(f, i, c)) \in Nat /\ Cardinality(Fellows(g, i, c)) \in Nat
    BY MoreFellows, MineType, FellowsType DEF StillWoken
  <2>2. Cardinality(Mine(items, c)) <= Cardinality(Fellows(g, i, c))
    BY <1>4, <2>1
  <2> QED  BY <1>3, <2>2
<1>5. ASSUME NEW q \in Woken(f, i), Mine(items, c) = {Found(items, f[q].arg)}
      PROVE  Enough(all, g, i, c)
  <2>1. Found(items, f[q].arg) # 0
    BY <1>5, MineType
  <2>2. Found(all, f[q].arg) = Found(items, f[q].arg)
    BY <2>1, FoundSent
  <2> QED  BY <1>2, <1>5, <2>2 DEF Enough, StillWoken
<1> QED  BY <1>4, <1>5 DEF Enough

\* A message is sent that this one gets, and another one was woken for it.
LEMMA EnoughWoken ==
  ASSUME NEW items \in Seq(Messages), NEW f, NEW g, NEW i, NEW c, NEW d, NEW m \in Messages, Accepted(c, m), Accepted(d, m), ~Copies(d),
         Enough(items, f, i, c), Enough(items, f, i, d),
         NEW w \in Woken(g, i), w \notin Woken(f, i), g[w].arg = d, StillWoken(f, g, i, Woken(f, i)),
         \A q \in Woken(f, i) : ~Copies(f[q].arg),
         Woken(f, i) # {} => Same(d, c),
         \A q \in Woken(f, i) : (\E x \in Messages : Accepted(c, x) /\ Accepted(f[q].arg, x)) => Same(f[q].arg, c)
  PROVE  Enough(Append(items, m), g, i, c)
<1> DEFINE all == Append(items, m)
<1>1. CASE Woken(f, i) = {}
  <2>1. ASSUME NEW e, Enough(items, f, i, e)
        PROVE  Mine(items, e) = {}
    <3>1. Fellows(f, i, e) = {}
      BY <1>1, FellowsType
    <3>2. Cardinality(Mine(items, e)) <= 0
      BY <1>1, <2>1, <3>1, FS_EmptySet DEF Enough
    <3>3. IsFiniteSet(Mine(items, e)) /\ Cardinality(Mine(items, e)) \in Nat
      BY MineType
    <3>4. Cardinality(Mine(items, e)) = 0
      BY <3>2, <3>3
    <3> QED  BY <3>3, <3>4, FS_EmptySet
  <2>2. Mine(items, c) = {} /\ Mine(items, d) = {}
    BY <2>1
  <2>3. Mine(all, c) = {Len(items) + 1} /\ Mine(all, d) = {Len(items) + 1} /\ all \in Seq(Messages)
    BY <2>2, MineSent
  <2>4. Len(items) + 1 \in Mine(all, d) /\ \A o \in Mine(all, d) : Len(items) + 1 <= o
    BY <2>3
  <2>5. Found(all, d) = Len(items) + 1
    <3> HIDE DEF all
    <3> QED  BY <2>3, <2>4, FoundIs
  <2> QED  BY <2>3, <2>5 DEF Enough
<1>2. CASE Woken(f, i) # {}
  <2>1. Cardinality(Mine(items, c)) <= Cardinality(Fellows(f, i, c))
    <3>1. ASSUME NEW q \in Woken(f, i), Mine(items, c) = {Found(items, f[q].arg)}
          PROVE  Cardinality(Mine(items, c)) <= Cardinality(Fellows(f, i, c))
      <4> DEFINE k == Found(items, f[q].arg)
      <4>1. k \in Mine(items, c) /\ k # 0
        BY <3>1, MineType
      <4>2. k \in Mine(items, f[q].arg)
        BY <4>1, FoundFirst
      <4>3. items[k] \in Messages /\ Accepted(c, items[k]) /\ Accepted(f[q].arg, items[k])
        <5> HIDE DEF k
        <5> QED  BY <4>1, <4>2, ElementOfSeq DEF Mine
      <4>4. q \in Fellows(f, i, c)
        BY <4>3 DEF Fellows
      <4>5. Cardinality(Fellows(f, i, c)) # 0 /\ Cardinality(Fellows(f, i, c)) \in Nat
        BY <4>4, FellowsType, FS_EmptySet
      <4>6. Cardinality(Mine(items, c)) = 1
        BY <3>1, FS_Singleton
      <4> QED  BY <4>5, <4>6
    <3> QED  BY <3>1 DEF Enough
  <2>2. Fellows(f, i, c) \cup {w} \in SUBSET Fellows(g, i, c)
    BY <1>2 DEF Fellows, StillWoken
  <2>3. Cardinality(Fellows(f, i, c) \cup {w}) <= Cardinality(Fellows(g, i, c))
    BY <2>2, FellowsType, FS_Subset
  <2>4. Cardinality(Fellows(f, i, c) \cup {w}) = Cardinality(Fellows(f, i, c)) + 1
    <3>1. w \notin Fellows(f, i, c) /\ IsFiniteSet(Fellows(f, i, c))
      BY FellowsType
    <3> QED  BY <3>1, FS_AddElement
  <2>5. Cardinality(Mine(all, c)) = Cardinality(Mine(items, c)) + 1
    BY MineSent
  <2>6. Cardinality(Mine(items, c)) \in Nat /\ Cardinality(Fellows(f, i, c)) \in Nat /\ Cardinality(Fellows(g, i, c)) \in Nat
    BY MineType, FellowsType
  <2>7. Cardinality(Mine(all, c)) <= Cardinality(Fellows(g, i, c))
    <3> HIDE DEF all
    <3> QED  BY <2>1, <2>3, <2>4, <2>5, <2>6
  <2> QED  BY <2>7 DEF Enough
<1> QED  BY <1>1, <1>2

------------------------------------------------------------------------------
(* sysvipc_wake_tracee()                                                     *)

\* The session with another struct SysVIpcConfig and another state of one tracee.
LEMMA Put ==
  ASSUME NEW s \in Session, NEW q \in Procs, NEW c \in Config, NEW k \in Process
  PROVE  /\ [s EXCEPT !.cf[q] = c, !.ke[q] = k] \in Session
         /\ [s EXCEPT !.cf[q] = c] \in Session
         /\ [s EXCEPT !.ke[q] = k] \in Session
<1>1. [s.cf EXCEPT ![q] = c] \in [Procs -> Config]
  BY DEF Session
<1>2. [s.ke EXCEPT ![q] = k] \in [Procs -> Process]
  BY DEF Session
<1> QED  BY <1>1, <1>2 DEF Session

\* Its wait is over.
Ends(c, c0, status) ==
  /\ c.reason = "NOT_WAITING" /\ c.state \in Ended /\ c.status = status
  /\ c.obj = c0.obj /\ c.arg = c0.arg /\ c.retry = c0.retry

\* A tracee that waits is woken: it is signalled, or will not make its call.
LEMMA Wakes ==
  ASSUME NEW s \in Session, NEW q \in Procs, NEW status \in Results, s.cf[q].reason = "QUEUE_RECV", Phase(s.cf[q], s.ke[q])
  PROVE  \E c \in Config, k \in Process :
           /\ WakeTracee(s, q, status) = [s EXCEPT !.cf[q] = c, !.ke[q] = k]
           /\ Phase(c, k) /\ Ends(c, s.cf[q], status)
<1> DEFINE c0 == s.cf[q]
           k0 == s.ke[q]
           woken(state) == [c0 EXCEPT !.reason = "NOT_WAITING", !.status = status, !.state = state]
<1>1. c0 \in Config /\ k0 \in Process /\ q \in DOMAIN s.cf /\ q \in DOMAIN s.ke
  BY DEF Session
<1>2. CASE c0.state = "ENTERED_PPOLL"
  <2> DEFINE c == [woken("SIGNALED_PPOLL") EXCEPT !.sigstop = "IGNORED"]
             k == [k0 EXCEPT !.sigstop = k0.pos # "dead"]
  <2> DEFINE w == [s EXCEPT !.cf[q].reason = "NOT_WAITING", !.cf[q].status = status, !.cf[q].state = "SIGNALED_PPOLL"]
  <2>1. WakeTracee(s, q, status) = [w EXCEPT !.cf[q].sigstop = "IGNORED", !.ke[q].sigstop = k0.pos # "dead"]
    BY <1>2 DEF WakeTracee
  <2>2. w = [s EXCEPT !.cf[q] = woken("SIGNALED_PPOLL")]
    BY <1>1 DEF Session
  <2>3. w \in Session /\ w.cf[q] = woken("SIGNALED_PPOLL") /\ w.ke = s.ke /\ w.cf = [s.cf EXCEPT ![q] = woken("SIGNALED_PPOLL")]
        /\ w.crashed = s.crashed /\ w.queues = s.queues
    <3>1. woken("SIGNALED_PPOLL") \in Config
      BY <1>1 DEF Config, States
    <3> HIDE DEF woken, w
    <3>2. w \in Session
      BY <2>2, <3>1, <1>1, Put
    <3> QED  BY <1>1, <2>2, <3>2 DEF Session
  <2>4. [w EXCEPT !.cf[q].sigstop = "IGNORED", !.ke[q].sigstop = k0.pos # "dead"] = [w EXCEPT !.cf[q] = c, !.ke[q] = k]
    <3> HIDE DEF w, woken
    <3> QED  BY <1>1, <2>3 DEF Session
  <2>5. [w EXCEPT !.cf[q] = c, !.ke[q] = k] = [s EXCEPT !.cf[q] = c, !.ke[q] = k]
    <3> HIDE DEF w, woken, c, k
    <3> QED  BY <1>1, <2>3 DEF Session
  <2>6. WakeTracee(s, q, status) = [s EXCEPT !.cf[q] = c, !.ke[q] = k]
    BY <2>1, <2>4, <2>5
  <2>7. c \in Config /\ k \in Process
    BY <1>1 DEF Config, Process, States
  <2>8. /\ c.state = "SIGNALED_PPOLL" /\ c.reason = "NOT_WAITING" /\ c.sigstop = "IGNORED"
        /\ k.pos = k0.pos /\ k.sigstop = (k0.pos # "dead") /\ Ends(c, c0, status)
    BY <1>1 DEF Config, Process, Ends, Ended
  <2>9. k0.pos \in {"ppoll", "sysexit", "dead"}
    BY <1>1, <1>2 DEF Phase, Process, Positions
  <2> HIDE DEF c, k
  <2>10. Phase(c, k)
    BY <2>8, <2>9 DEF Phase, Waiting
  <2> QED  BY <2>6, <2>7, <2>8, <2>10
<1>3. CASE c0.state = "RESTARTED_INTO_PPOLL"
  <2> DEFINE c == woken("RESTARTED_INTO_PPOLL_CANCELED")
  <2>1. WakeTracee(s, q, status) = [s EXCEPT !.cf[q] = c, !.ke[q] = k0]
    BY <1>1, <1>3 DEF WakeTracee, Session
  <2>2. c \in Config
    BY <1>1 DEF Config, States
  <2>3. c.state = "RESTARTED_INTO_PPOLL_CANCELED" /\ c.reason = "NOT_WAITING" /\ c.sigstop = c0.sigstop /\ Ends(c, c0, status)
    BY <1>1 DEF Config, Ends, Ended
  <2> HIDE DEF c
  <2>4. Phase(c, k0)
    BY <1>1, <1>3, <2>3 DEF Phase, Waiting, Process, Positions
  <2> QED  BY <1>1, <2>1, <2>2, <2>3, <2>4
<1> QED  BY <1>2, <1>3 DEF Phase, Waiting

------------------------------------------------------------------------------
(* The steps of one tracee                                                   *)

LEMMA CallType ==
  ASSUME NEW c \in AllCalls
  PROVE  /\ c.f = "msgsnd" => c.msg \in Messages
         /\ c \in Waits => ~Copies(c) /\ c.max \in Int
<1>1. NoCall.f = "none"
  BY DEF NoCall
<1>2. c \in Waits => ~Copies(c) /\ c.f = "msgrcv"
  BY DEF Waits, WrongFlags, Copies
<1> QED  BY <1>1, <1>2, MsgAssumption DEF AllCalls

LEMMA Parts ==
  ASSUME Sound, NEW p \in Procs
  PROVE  /\ cf \in [Procs -> Config] /\ ke \in [Procs -> Process] /\ queues \in Seq(Queue) /\ crashed \in BOOLEAN
         /\ cf[p] \in Config /\ ke[p] \in Process /\ Proper(cf[p], ke[p]) /\ Phase(cf[p], ke[p])
         /\ cf[p].reason = "QUEUE_RECV" => /\ cf[p].obj \in DOMAIN queues /\ queues[cf[p].obj].valid
                                          /\ queues[cf[p].obj] \in Queue /\ queues[cf[p].obj].items \in Seq(Messages)
<1>1. /\ cf \in [Procs -> Config] /\ ke \in [Procs -> Process] /\ queues \in Seq(Queue) /\ crashed \in BOOLEAN
  BY DEF Sound, Session, State
<1>2. Proper(cf[p], ke[p]) /\ Phase(cf[p], ke[p])
  BY DEF Sound, Proper
<1>3. cf[p].reason = "QUEUE_RECV" => cf[p].obj \in DOMAIN queues /\ queues[cf[p].obj].valid
  BY DEF Sound, Fits, State
<1>4. \A i \in DOMAIN queues : queues[i] \in Queue
  BY <1>1, ElementOfSeq
<1> QED  BY <1>1, <1>2, <1>3, <1>4 DEF Queue

\* Who waits, waited before beside the same messages, and who was to try again, still is.
Carried(f, g, x, y) ==
  \A q \in Procs :
    /\ g[q].reason = "QUEUE_RECV" =>
         /\ f[q].reason = "QUEUE_RECV" /\ g[q].obj = f[q].obj /\ g[q].arg = f[q].arg
         /\ x[f[q].obj].items \in Seq(Messages) /\ y[f[q].obj].items = x[f[q].obj].items
    /\ f[q].retry => g[q].retry /\ g[q].obj = f[q].obj /\ g[q].arg = f[q].arg

LEMMA ServedKept ==
  ASSUME NEW f, NEW g, NEW x, NEW y, Served(f, x), Carried(f, g, x, y)
  PROVE  Served(g, y)
<1>1. SUFFICES ASSUME NEW p \in Procs, g[p].reason = "QUEUE_RECV"
               PROVE  Enough(y[g[p].obj].items, g, g[p].obj, g[p].arg)
  BY DEF Served
<1>2. Enough(x[f[p].obj].items, f, f[p].obj, f[p].arg) /\ x[f[p].obj].items \in Seq(Messages)
  BY <1>1 DEF Served, Carried
<1>3. StillWoken(f, g, f[p].obj, Woken(f, f[p].obj))
  BY DEF StillWoken, Woken, Carried
<1>4. Enough(x[f[p].obj].items, g, f[p].obj, f[p].arg)
  BY <1>2, <1>3, EnoughKept
<1> QED  BY <1>1, <1>4 DEF Carried

\* A step that changes one tracee, and makes it wait for nothing new.
LEMMA LocalStep ==
  ASSUME Sound, NEW p \in Procs, NEW c \in Config, NEW k \in Process, Proper(c, k),
         c.reason = "QUEUE_RECV" => cf[p].reason = "QUEUE_RECV" /\ c.obj = cf[p].obj /\ c.arg = cf[p].arg,
         Survive /\ cf[p].retry => c.retry /\ c.obj = cf[p].obj /\ c.arg = cf[p].arg,
         cf' = [cf EXCEPT ![p] = c], ke' = [ke EXCEPT ![p] = k], crashed' = crashed, queues' = queues
  PROVE  Goes
<1>1. cf \in [Procs -> Config] /\ ke \in [Procs -> Process] /\ queues \in Seq(Queue) /\ crashed \in BOOLEAN
  BY Parts
<1>2. State' = [cf |-> cf', ke |-> ke', crashed |-> crashed, queues |-> queues]
  BY DEF State
<1>3. cf' \in [Procs -> Config] /\ ke' \in [Procs -> Process]
  BY <1>1
<1>4. State' \in Session
  BY <1>1, <1>2, <1>3 DEF Session
<1>5. \A q \in Procs : /\ cf'[q] = IF q = p THEN c ELSE cf[q]
                       /\ ke'[q] = IF q = p THEN k ELSE ke[q]
  BY <1>1
<1>6. ASSUME NEW q \in Procs
      PROVE  /\ Proper(cf'[q], ke'[q])
             /\ cf'[q].reason = "QUEUE_RECV" => cf[q].reason = "QUEUE_RECV" /\ cf'[q].obj = cf[q].obj /\ cf'[q].arg = cf[q].arg
  <2>1. CASE q = p  BY <1>5, <2>1
  <2>2. CASE q # p  BY <1>5, <2>2, Parts
  <2> QED  BY <2>1, <2>2
<1>7. ASSUME NEW q \in Procs
      PROVE  Fits(State, q)'
  BY <1>2, <1>6, Parts DEF Fits
<1>8. Sound'
  BY <1>4, <1>6, <1>7 DEF Sound
<1>9. ASSUME Served(cf, queues), Survive
      PROVE  Served(cf', queues)
  <2>1. Carried(cf, cf', queues, queues)
    BY <1>5, <1>6, <1>9, Parts DEF Carried
  <2> QED  BY <1>9, <2>1, ServedKept
<1> QED  BY <1>8, <1>9 DEF Goes, Conditions

LEMMA Forgets ==
  ASSUME NEW c \in Config, c.reason = "NOT_WAITING"
  PROVE  /\ Over(c) \in Config /\ Over(c).reason = "NOT_WAITING" /\ Over(c).state = "NOT_WAITING"
         /\ Over(c).sigstop = c.sigstop /\ Over(c).retry = c.retry
<1>1. NoArg \in AllCalls \cup {NoArg} /\ 0 \in Int /\ NoResult \in Results /\ "NOT_WAITING" \in States
  BY DEF NoArg, NoResult, Results, States
<1> QED  BY <1>1 DEF Over, Config

LEMMA EnterStep ==
  ASSUME Sound, NEW p \in Procs, SyscallEnterStart(p), UNCHANGED queues
  PROVE  Goes
<1> DEFINE c == cf[p]
           k == ke[p]
<1>1. c \in Config /\ k \in Process /\ Phase(c, k) /\ Proper(c, k) /\ cf \in [Procs -> Config] /\ ke \in [Procs -> Process]
  BY Parts
<1>2. k.pos = "sysenter" /\ c.state \in {"RESTARTED_INTO_PPOLL", "RESTARTED_INTO_PPOLL_CANCELED"} /\ ~c.retry
  BY <1>1 DEF SyscallEnterStart, Handling, Phase
<1>3. CASE c.state = "RESTARTED_INTO_PPOLL"
  <2> DEFINE c1 == [c EXCEPT !.state = "ENTERED_PPOLL"]
             k1 == [k EXCEPT !.pos = "ppoll"]
  <2>1. EnterStage(Tracees, p) = [Tracees EXCEPT !.cf[p].state = "ENTERED_PPOLL", !.ke[p].pos = "ppoll"]
    BY <1>2, <1>3 DEF EnterStage, Tracees
  <2>2. cf' = [cf EXCEPT ![p] = c1] /\ ke' = [ke EXCEPT ![p] = k1] /\ crashed' = crashed
    BY <2>1 DEF SyscallEnterStart, Become, Tracees
  <2>3. c1 \in Config /\ k1 \in Process
    BY <1>1 DEF Config, Process, States, Positions
  <2>4. /\ c1.reason = c.reason /\ c1.obj = c.obj /\ c1.arg = c.arg /\ c1.retry = c.retry /\ c1.sigstop = c.sigstop /\ c1.state = "ENTERED_PPOLL"
        /\ k1.pos = "ppoll" /\ k1.sigstop = k.sigstop
    BY <1>1 DEF Config, Process
  <2> HIDE DEF c1, k1
  <2>5. Phase(c1, k1)
    BY <1>1, <1>2, <1>3, <2>4 DEF Phase, Waiting
  <2>6. Proper(c1, k1)
    BY <1>1, <1>2, <2>4, <2>5 DEF Proper
  <2> QED  BY <1>2, <2>2, <2>3, <2>4, <2>6, LocalStep
<1>4. CASE c.state = "RESTARTED_INTO_PPOLL_CANCELED"
  <2> DEFINE c1 == Over(c)
             k1 == [k EXCEPT !.pos = "sysexit", !.ret = c.status]
  <2>1. EnterStage(Tracees, p) = [Tracees EXCEPT !.cf[p] = Over(@), !.ke[p].pos = "sysexit", !.ke[p].ret = c.status]
    BY <1>2, <1>4 DEF EnterStage, Tracees
  <2>2. cf' = [cf EXCEPT ![p] = c1] /\ ke' = [ke EXCEPT ![p] = k1] /\ crashed' = crashed
    <3> DEFINE end == [Tracees EXCEPT !.cf[p] = Over(@), !.ke[p].pos = "sysexit", !.ke[p].ret = c.status]
    <3>1. end.cf = [cf EXCEPT ![p] = c1] /\ end.ke = [ke EXCEPT ![p] = k1] /\ end.crashed = crashed
      BY <1>1 DEF Tracees
    <3>2. cf' = end.cf /\ ke' = end.ke /\ crashed' = end.crashed
      BY <2>1 DEF SyscallEnterStart, Become
    <3> HIDE DEF end, c1, k1
    <3> QED  BY <3>1, <3>2
  <2>3. c.reason = "NOT_WAITING"
    BY <1>1, <1>4 DEF Phase, Waiting, Config
  <2>4. k1 \in Process /\ k1.pos = "sysexit" /\ k1.sigstop = k.sigstop
    BY <1>1 DEF Config, Process, Positions
  <2>5. c1 \in Config /\ c1.reason = "NOT_WAITING" /\ c1.state = "NOT_WAITING" /\ c1.sigstop = c.sigstop /\ c1.retry = c.retry
    BY <1>1, <2>3, Forgets
  <2> HIDE DEF c1, k1
  <2>6. Phase(c1, k1)
    BY <1>1, <1>2, <2>4, <2>5 DEF Phase, Waiting
  <2>7. Proper(c1, k1)
    BY <1>2, <2>5, <2>6 DEF Proper
  <2> QED  BY <1>2, <2>2, <2>4, <2>5, <2>7, LocalStep
<1> QED  BY <1>2, <1>3, <1>4

LEMMA ExitStep ==
  ASSUME Sound, NEW p \in Procs, SyscallExitStart(p), UNCHANGED queues
  PROVE  Goes
<1> DEFINE c == cf[p]
           k == ke[p]
           c1 == [Over(c) EXCEPT !.reason = "NOT_WAITING"]
           k1(ret) == [k EXCEPT !.pos = "user", !.call = NoCall, !.ret = ret]
<1>1. c \in Config /\ k \in Process /\ Phase(c, k) /\ Proper(c, k) /\ cf \in [Procs -> Config] /\ ke \in [Procs -> Process]
  BY Parts
<1>2. k.pos = "sysexit" /\ c.state \in {"NOT_WAITING", "ENTERED_PPOLL", "SIGNALED_PPOLL", "ENTERED_GETPID"} /\ ~c.retry
  BY <1>1 DEF SyscallExitStart, Phase
<1>3. c.state = "ENTERED_PPOLL" <=> c.reason # "NOT_WAITING"
  BY <1>1, <1>2 DEF Phase, Waiting
<1>4. \E ret \in Results : cf' = [cf EXCEPT ![p] = c1] /\ ke' = [ke EXCEPT ![p] = k1(ret)] /\ crashed' = crashed
  <2> DEFINE over == [Tracees EXCEPT !.ke[p].pos = "user", !.ke[p].call = NoCall, !.cf[p] = Over(@)]
  <2>1. /\ over.cf = [cf EXCEPT ![p] = Over(c)] /\ over.ke = [ke EXCEPT ![p] = [k EXCEPT !.pos = "user", !.call = NoCall]]
        /\ over.crashed = crashed /\ DOMAIN over = {"cf", "ke", "crashed"}
    BY <1>1 DEF Tracees
  <2>2. c.reason = "NOT_WAITING" => c1 = Over(c)
    BY <1>1 DEF Over, Config
  <2>3. k1(k.ret) = [k EXCEPT !.pos = "user", !.call = NoCall]
    BY <1>1 DEF Process
  <2>4. c.status \in Results /\ k.ret \in Results /\ "EINTR" \in Results
    BY <1>1 DEF Config, Process, Results
  <2>5. CASE c.state = "NOT_WAITING"
    <3>1. ExitStage(Tracees, p) = over
      BY <2>5 DEF ExitStage, Tracees
    <3>2. cf' = over.cf /\ ke' = over.ke /\ crashed' = over.crashed
      BY <3>1 DEF SyscallExitStart, Become
    <3> HIDE DEF over, c1, k1
    <3> QED  BY <1>3, <2>1, <2>2, <2>3, <2>4, <2>5, <3>2
  <2>6. CASE c.state = "ENTERED_PPOLL"
    <3>1. ExitStage(Tracees, p) = [over EXCEPT !.cf[p].reason = "NOT_WAITING", !.ke[p].ret = "EINTR"]
      BY <1>3, <2>6 DEF ExitStage, Tracees
    <3> HIDE DEF over
    <3>2. cf' = [over.cf EXCEPT ![p].reason = "NOT_WAITING"] /\ ke' = [over.ke EXCEPT ![p].ret = "EINTR"] /\ crashed' = crashed
      BY <2>1, <3>1 DEF SyscallExitStart, Become
    <3>3. cf' = [cf EXCEPT ![p] = c1] /\ ke' = [ke EXCEPT ![p] = k1("EINTR")]
      BY <1>1, <2>1, <3>2
    <3> QED  BY <2>4, <3>2, <3>3
  <2>7. CASE c.state \in {"SIGNALED_PPOLL", "ENTERED_GETPID"}
    <3>1. ExitStage(Tracees, p) = [over EXCEPT !.ke[p].ret = c.status]
      BY <1>3, <2>7 DEF ExitStage, Tracees
    <3> HIDE DEF over
    <3>2. cf' = over.cf /\ ke' = [over.ke EXCEPT ![p].ret = c.status] /\ crashed' = crashed
      BY <2>1, <3>1 DEF SyscallExitStart, Become
    <3>3. cf' = [cf EXCEPT ![p] = c1] /\ ke' = [ke EXCEPT ![p] = k1(c.status)]
      BY <1>1, <1>3, <2>1, <2>2, <2>7, <3>2
    <3> QED  BY <2>4, <3>2, <3>3
  <2> QED  BY <1>2, <2>5, <2>6, <2>7
<1>5. PICK ret \in Results : cf' = [cf EXCEPT ![p] = c1] /\ ke' = [ke EXCEPT ![p] = k1(ret)] /\ crashed' = crashed
  BY <1>4
<1> DEFINE k2 == k1(ret)
<1>6. k2 \in Process /\ k2.pos = "user" /\ k2.sigstop = k.sigstop
  BY <1>1 DEF Process, Positions, AllCalls
<1>7. c1 \in Config /\ c1.reason = "NOT_WAITING" /\ c1.state = "NOT_WAITING" /\ c1.sigstop = c.sigstop /\ c1.retry = c.retry
  <2>1. NoArg \in AllCalls \cup {NoArg} /\ 0 \in Int /\ NoResult \in Results
    BY DEF NoArg, NoResult, Results
  <2> QED  BY <1>1, <2>1 DEF Over, Config, States
<1> HIDE DEF c1, k2
<1>8. Phase(c1, k2)
  BY <1>1, <1>2, <1>6, <1>7 DEF Phase, Waiting
<1>9. Proper(c1, k2)
  BY <1>2, <1>7, <1>8 DEF Proper
<1> QED  BY <1>2, <1>5, <1>6, <1>7, <1>9, LocalStep DEF k2

\* The stop of a SIGSTOP, and a tracee that has died.
LEMMA StopStep ==
  ASSUME Sound, NEW p \in Procs, HandleSigstop(p) \/ FreeTracee(p), UNCHANGED queues
  PROVE  Goes
<1> DEFINE c == cf[p]
           k == ke[p]
<1>1. c \in Config /\ k \in Process /\ Phase(c, k) /\ Proper(c, k) /\ cf \in [Procs -> Config] /\ ke \in [Procs -> Process]
  BY Parts
<1>2. CASE HandleSigstop(p)
  <2> DEFINE c1 == [c EXCEPT !.sigstop = "ALLOWED"]
             k1 == [k EXCEPT !.pos = "user"]
  <2>1. k.pos = "sigstop" /\ c.sigstop = "IGNORED"
    BY <1>1, <1>2 DEF HandleSigstop, Phase
  <2>2. cf' = [cf EXCEPT ![p] = c1] /\ ke' = [ke EXCEPT ![p] = k1] /\ crashed' = crashed
    BY <1>2, <2>1 DEF HandleSigstop
  <2>3. c1 \in Config /\ k1 \in Process
    BY <1>1 DEF Config, Process, Positions
  <2>4. /\ c1.reason = c.reason /\ c1.obj = c.obj /\ c1.arg = c.arg /\ c1.state = c.state
        /\ c1.retry = c.retry /\ c1.status = c.status /\ k1.pos = "user" /\ k1.sigstop = k.sigstop
    BY <1>1 DEF Config, Process
  <2> HIDE DEF c1, k1
  <2>5. Phase(c1, k1)
    BY <1>1, <2>1, <2>4 DEF Phase, Waiting
  <2>6. Proper(c1, k1)
    BY <1>1, <2>4, <2>5 DEF Proper
  <2> QED  BY <2>2, <2>3, <2>4, <2>6, LocalStep
<1>3. CASE FreeTracee(p)
  <2> DEFINE c1 == NewConfig
             k1 == [NewProcess EXCEPT !.pos = "gone"]
  <2>1. cf' = [cf EXCEPT ![p] = c1] /\ ke' = [ke EXCEPT ![p] = k1] /\ crashed' = crashed
    BY <1>3 DEF FreeTracee
  <2>2. c1 \in Config /\ k1 \in Process
    <3>1. NoArg \in AllCalls \cup {NoArg} /\ 0 \in Int /\ NoResult \in Results /\ NoCall \in AllCalls
      BY DEF NoArg, Results, AllCalls
    <3>2. c1 \in Config
      BY <3>1 DEF NewConfig, Config, States
    <3>3. NewProcess \in Process
      BY <3>1 DEF NewProcess, Process, Positions
    <3> QED  BY <3>2, <3>3 DEF Process, Positions
  <2>3. c1.reason = "NOT_WAITING" /\ c1.state = "NOT_WAITING" /\ k1.pos = "gone" /\ k1.sigstop = FALSE /\ c1.retry = FALSE
    BY DEF NewConfig, NewProcess
  <2> HIDE DEF c1, k1
  <2>4. Phase(c1, k1)
    BY <2>3 DEF Phase, Waiting
  <2>5. Proper(c1, k1)
    BY <2>3, <2>4 DEF Proper
  <2>6. ~(Survive /\ c.retry)
    BY <1>3 DEF FreeTracee, Survive
  <2> QED  BY <2>1, <2>2, <2>3, <2>5, <2>6, LocalStep
<1> QED  BY <1>2, <1>3

\* What the kernel does with a tracee.
LEMMA KernelStep ==
  ASSUME Sound, NEW p \in Procs,
         MakeAgain(p) \/ Leave(p) \/ TakeSigstop(p) \/ Interrupt(p) \/ Kill(p) \/ (\E call \in Programs[p] : Call(p, call)),
         UNCHANGED queues
  PROVE  Goes
<1> DEFINE c == cf[p]
           k == ke[p]
<1>1. c \in Config /\ k \in Process /\ Phase(c, k) /\ Proper(c, k) /\ cf \in [Procs -> Config] /\ ke \in [Procs -> Process]
  BY Parts
<1>2. SUFFICES \E k1 \in Process : Phase(c, k1) /\ Moves(p, k1)
  <2>1. PICK k1 \in Process : Phase(c, k1) /\ Moves(p, k1)
    BY <1>2
  <2>2. cf' = [cf EXCEPT ![p] = c] /\ ke' = [ke EXCEPT ![p] = k1] /\ crashed' = crashed
    BY <1>1, <2>1 DEF Moves
  <2>3. Proper(c, k1)
    BY <1>1, <2>1 DEF Proper
  <2> QED  BY <1>1, <2>1, <2>2, <2>3, LocalStep
<1>3. CASE MakeAgain(p)
  <2> DEFINE k1 == [k EXCEPT !.pos = "sysenter"]
  <2>1. k1 \in Process /\ k1.pos = "sysenter" /\ k1.sigstop = k.sigstop /\ k.pos = "again" /\ Moves(p, k1)
    BY <1>1, <1>3 DEF MakeAgain, Process, Positions
  <2> HIDE DEF k1
  <2> QED  BY <1>1, <2>1 DEF Phase, Waiting
<1>4. CASE Leave(p) \/ Interrupt(p)
  <2> DEFINE k1 == [k EXCEPT !.pos = "sysexit"]
  <2>1. k1 \in Process /\ k1.pos = "sysexit" /\ k1.sigstop = k.sigstop /\ k.pos = "ppoll" /\ Moves(p, k1)
    BY <1>1, <1>4 DEF Leave, Interrupt, Process, Positions
  <2> HIDE DEF k1
  <2> QED  BY <1>1, <2>1 DEF Phase, Waiting
<1>5. CASE TakeSigstop(p)
  <2> DEFINE k1 == [k EXCEPT !.pos = "sigstop", !.sigstop = FALSE]
  <2>1. k1 \in Process /\ k1.pos = "sigstop" /\ ~k1.sigstop /\ k.pos = "user" /\ k.sigstop /\ Moves(p, k1)
    BY <1>1, <1>5 DEF TakeSigstop, Process, Positions
  <2> HIDE DEF k1
  <2> QED  BY <1>1, <2>1 DEF Phase, Waiting
<1>6. CASE Kill(p)
  <2> DEFINE k1 == [k EXCEPT !.pos = "dead", !.sigstop = FALSE]
  <2>1. k1 \in Process /\ k1.pos = "dead" /\ ~k1.sigstop /\ Moves(p, k1)
    BY <1>1, <1>6 DEF Kill, Process, Positions
  <2> HIDE DEF k1
  <2> QED  BY <1>1, <2>1 DEF Phase, Waiting
<1>7. ASSUME NEW call \in Programs[p], Call(p, call)
      PROVE  \E k1 \in Process : Phase(c, k1) /\ Moves(p, k1)
  <2>1. PICK path \in Paths[p] : Moves(p, [k EXCEPT !.pos = path, !.call = call, !.ret = NoResult])
    BY <1>7 DEF Call
  <2> DEFINE k1 == [k EXCEPT !.pos = path, !.call = call, !.ret = NoResult]
  <2>2. path \in {"sysenter", "sigsys"}
    BY <2>1, WaitAssumption
  <2>3. call \in AllCalls /\ NoResult \in Results
    BY DEF AllCalls, Results
  <2>4. k1 \in Process /\ k1.pos = path /\ k1.sigstop = k.sigstop
    BY <1>1, <2>2, <2>3 DEF Process, Positions
  <2>5. k.pos = "user" /\ k.sigstop = FALSE
    BY <1>1, <1>7 DEF Call, Process
  <2> HIDE DEF k1
  <2>6. Phase(c, k1)
    BY <1>1, <2>2, <2>4, <2>5 DEF Phase, Waiting
  <2> QED  BY <2>1, <2>4, <2>6 DEF k1
<1> QED  BY <1>3, <1>4, <1>5, <1>6, <1>7

------------------------------------------------------------------------------
(* The calls                                                                 *)

\* What a handler has made of the session before the tracee p waits or has its status.
Handled(s, p) ==
  /\ s \in Session /\ ~s.crashed /\ s.ke[p] = ke[p]
  /\ s.cf[p].state = "NOT_WAITING" /\ s.cf[p].sigstop = cf[p].sigstop /\ ~s.cf[p].retry
  /\ s.cf[p].reason = "QUEUE_RECV" => s.cf[p].arg \in Waits
  /\ \A q \in Procs \ {p} : Proper(s.cf[q], s.ke[q])
  /\ \A q \in Procs : Fits(s, q)

\* The tracee p is at c and k, and all else is as before.
Placed(r, s, p, c, k) ==
  /\ r.cf = [s.cf EXCEPT ![p] = c] /\ r.ke = [s.ke EXCEPT ![p] = k] /\ r.crashed = s.crashed /\ r.queues = s.queues
  /\ Proper(c, k) /\ c.reason = s.cf[p].reason /\ c.obj = s.cf[p].obj /\ c.arg = s.cf[p].arg /\ ~c.retry

LEMMA CommonPlaces ==
  ASSUME Sound, NEW p \in Procs, Fresh(p), NEW s, Handled(s, p), NEW status \in Results
  PROVE  \E c \in Config, k \in Process : Placed(SyscallCommon(s, p, status), s, p, c, k)
<1> DEFINE c0 == s.cf[p]
           k0 == s.ke[p]
           r == SyscallCommon(s, p, status)
<1>1. /\ s \in Session /\ c0 \in Config /\ k0 \in Process /\ s.cf \in [Procs -> Config] /\ s.ke \in [Procs -> Process]
      /\ k0 = ke[p] /\ c0.state = "NOT_WAITING" /\ c0.sigstop = cf[p].sigstop /\ ~c0.retry
      /\ (c0.reason = "QUEUE_RECV" => c0.arg \in Waits)
  BY DEF Handled, Session
<1>2. Phase(cf[p], ke[p]) /\ ke[p].pos \in {"sysenter", "sigsys"}
  BY Parts DEF Fresh, Handling
<1>3. k0.sigstop = FALSE
  BY <1>1, <1>2 DEF Phase, Process
<1>4. CASE c0.reason # "NOT_WAITING"
  <2> DEFINE state == IF k0.pos = "sigsys" THEN "RESTARTED_INTO_PPOLL" ELSE "ENTERED_PPOLL"
             pos == IF k0.pos = "sigsys" THEN "again" ELSE "ppoll"
             c == [c0 EXCEPT !.state = state]
             k == [k0 EXCEPT !.pos = pos]
  <2>1. r = [s EXCEPT !.cf[p].state = state, !.ke[p].pos = pos]
    BY <1>1, <1>4 DEF SyscallCommon
  <2>2. state \in States /\ pos \in Positions
    BY DEF States, Positions
  <2>3. /\ c \in Config /\ c.reason = c0.reason /\ c.obj = c0.obj /\ c.arg = c0.arg /\ c.sigstop = c0.sigstop /\ c.retry = c0.retry /\ c.state = state
        /\ k \in Process /\ k.pos = pos /\ k.sigstop = FALSE
    <3> HIDE DEF state, pos
    <3> QED  BY <1>1, <1>3, <2>2 DEF Config, Process
  <2>4. r.cf = [s.cf EXCEPT ![p] = c] /\ r.ke = [s.ke EXCEPT ![p] = k] /\ r.crashed = s.crashed /\ r.queues = s.queues
    <3> HIDE DEF state, pos, r
    <3> QED  BY <1>1, <2>1 DEF Session
  <2> HIDE DEF c, k
  <2>5. Phase(c, k)
    BY <1>2, <1>1, <1>4, <2>3 DEF Phase, Waiting
  <2> QED  BY <1>1, <2>3, <2>4, <2>5 DEF Placed, Proper
<1>5. CASE c0.reason = "NOT_WAITING" /\ k0.pos = "sigsys"
  <2> DEFINE k == [k0 EXCEPT !.call = NoCall, !.ret = status, !.pos = "user"]
  <2>1. r = [s EXCEPT !.ke[p] = [[k0 EXCEPT !.call = NoCall] EXCEPT !.ret = status, !.pos = "user"]]
    BY <1>1, <1>5 DEF SyscallCommon
  <2>2. r.cf = s.cf /\ r.ke = [s.ke EXCEPT ![p] = k] /\ r.crashed = s.crashed /\ r.queues = s.queues
    <3> HIDE DEF r
    <3> QED  BY <1>1, <2>1 DEF Session
  <2>3. k \in Process /\ k.pos = "user" /\ k.sigstop = FALSE
    BY <1>1, <1>3 DEF Process, Positions, AllCalls
  <2>4. r.cf = [s.cf EXCEPT ![p] = c0]
    BY <1>1, <2>2
  <2> HIDE DEF k
  <2>5. Phase(c0, k)
    BY <1>1, <1>5, <2>3 DEF Phase, Waiting
  <2> QED  BY <1>1, <2>2, <2>3, <2>4, <2>5 DEF Placed, Proper
<1>6. CASE c0.reason = "NOT_WAITING" /\ k0.pos # "sigsys"
  <2> DEFINE c == [c0 EXCEPT !.status = status, !.state = "ENTERED_GETPID"]
             k == [k0 EXCEPT !.call = NoCall, !.pos = "sysexit"]
  <2>1. r = [s EXCEPT !.cf[p].status = status, !.cf[p].state = "ENTERED_GETPID",
                      !.ke[p] = [[k0 EXCEPT !.call = NoCall] EXCEPT !.pos = "sysexit"]]
    BY <1>1, <1>6 DEF SyscallCommon
  <2>2. r.cf = [s.cf EXCEPT ![p] = c] /\ r.ke = [s.ke EXCEPT ![p] = k] /\ r.crashed = s.crashed /\ r.queues = s.queues
    <3> HIDE DEF r
    <3> QED  BY <1>1, <2>1 DEF Session
  <2>3. k \in Process /\ k.pos = "sysexit" /\ k.sigstop = FALSE
    BY <1>1, <1>3 DEF Process, Positions, AllCalls
  <2>4. /\ c \in Config /\ c.reason = c0.reason /\ c.obj = c0.obj /\ c.arg = c0.arg /\ c.sigstop = c0.sigstop /\ c.retry = c0.retry
        /\ c.state = "ENTERED_GETPID"
    BY <1>1 DEF Config, States
  <2> HIDE DEF c, k
  <2>5. Phase(c, k)
    BY <1>1, <1>6, <2>3, <2>4 DEF Phase, Waiting
  <2> QED  BY <1>1, <2>2, <2>3, <2>4, <2>5 DEF Placed, Proper
<1> QED  BY <1>4, <1>5, <1>6

\* A call ends in a sound session, where who waits, waits for what it did before.
LEMMA Finishes ==
  ASSUME Sound, NEW p \in Procs, Fresh(p), NEW s, Handled(s, p), NEW status \in Results, Finish(s, p, status)
  PROVE  /\ Sound' /\ queues' = s.queues /\ crashed' = FALSE
         /\ \A q \in Procs : /\ cf'[q].reason = s.cf[q].reason /\ cf'[q].obj = s.cf[q].obj
                              /\ cf'[q].arg = s.cf[q].arg /\ cf'[q].retry = s.cf[q].retry
<1> DEFINE r == SyscallCommon(s, p, status)
<1>1. PICK c \in Config, k \in Process : Placed(r, s, p, c, k)
  BY CommonPlaces
<1>2. cf' = r.cf /\ ke' = r.ke /\ crashed' = r.crashed /\ queues' = r.queues
  BY DEF Finish, Update, Become
<1>3. /\ s \in Session /\ s.cf \in [Procs -> Config] /\ s.ke \in [Procs -> Process] /\ s.crashed = FALSE
      /\ s.queues \in Seq(Queue) /\ s.cf[p].retry = FALSE
  BY DEF Handled, Session, Config
<1>4. cf' = [s.cf EXCEPT ![p] = c] /\ ke' = [s.ke EXCEPT ![p] = k] /\ crashed' = FALSE /\ queues' = s.queues
  BY <1>1, <1>2, <1>3 DEF Placed
<1>5. cf' \in [Procs -> Config] /\ ke' \in [Procs -> Process]
  BY <1>3, <1>4
<1>6. State' = [cf |-> cf', ke |-> ke', crashed |-> FALSE, queues |-> s.queues]
  BY <1>4 DEF State
<1>7. State' \in Session
  BY <1>3, <1>5, <1>6 DEF Session
<1>8. \A q \in Procs : /\ cf'[q].reason = s.cf[q].reason /\ cf'[q].obj = s.cf[q].obj
                       /\ cf'[q].arg = s.cf[q].arg /\ cf'[q].retry = s.cf[q].retry
  BY <1>1, <1>3, <1>4 DEF Placed, Config
<1>9. ASSUME NEW q \in Procs
      PROVE  Proper(cf'[q], ke'[q]) /\ Fits(State, q)'
  <2>1. Fits(s, q)
    BY DEF Handled
  <2>2. Fits(State, q)'
    BY <1>6, <1>8, <2>1 DEF Fits
  <2>3. CASE q = p
    <3>1. cf'[q] = c /\ ke'[q] = k
      BY <1>3, <1>4, <2>3
    <3> QED  BY <1>1, <2>2, <3>1 DEF Placed
  <2>4. CASE q # p
    <3>1. cf'[q] = s.cf[q] /\ ke'[q] = s.ke[q]
      BY <1>3, <1>4, <2>4
    <3> QED  BY <2>2, <2>4, <3>1 DEF Handled
  <2> QED  BY <2>3, <2>4
<1>10. Sound'
  BY <1>7, <1>9 DEF Sound
<1> QED  BY <1>4, <1>8, <1>10

\* It goes, if nobody was overlooked in what it made.
LEMMA FinishGoes ==
  ASSUME Sound, NEW p \in Procs, Fresh(p), NEW s, Handled(s, p), NEW status \in Results, Finish(s, p, status),
         Served(cf, queues) /\ Conditions => Served(s.cf, s.queues)
  PROVE  Goes
<1>1. /\ Sound' /\ queues' = s.queues /\ crashed' = FALSE
      /\ \A q \in Procs : /\ cf'[q].reason = s.cf[q].reason /\ cf'[q].obj = s.cf[q].obj
                           /\ cf'[q].arg = s.cf[q].arg /\ cf'[q].retry = s.cf[q].retry
  BY Finishes
<1>2. crashed = FALSE
  BY Parts DEF Fresh, Handling
<1>3. ASSUME NEW q \in Procs, s.cf[q].reason = "QUEUE_RECV"
      PROVE  s.queues[s.cf[q].obj].items \in Seq(Messages)
  <2>1. s.queues \in Seq(Queue) /\ s.cf[q].obj \in DOMAIN s.queues
    BY <1>3 DEF Handled, Fits, Session
  <2>2. s.queues[s.cf[q].obj] \in Queue
    BY <2>1, ElementOfSeq
  <2> QED  BY <2>2 DEF Queue
<1>4. Carried(s.cf, cf', s.queues, s.queues)
  BY <1>1, <1>3 DEF Carried
<1>5. Served(s.cf, s.queues) => Served(cf', queues')
  BY <1>1, <1>4, ServedKept
<1> QED  BY <1>1, <1>2, <1>5 DEF Goes

\* A tracee whose call is handled does not wait.
LEMMA Caller ==
  ASSUME Sound, NEW p \in Procs, Fresh(p)
  PROVE  /\ cf[p].reason = "NOT_WAITING" /\ cf[p].state = "NOT_WAITING" /\ ~cf[p].retry /\ ke[p].call \in AllCalls
         /\ crashed = FALSE
<1>1. cf[p] \in Config /\ ke[p] \in Process /\ Proper(cf[p], ke[p]) /\ crashed \in BOOLEAN
  BY Parts
<1> QED  BY <1>1 DEF Fresh, Handling, Proper, Phase, Waiting, Ended, Process, Config

\* A handler that changes queues, and leaves those where somebody waits.
LEMMA QueuesOnly ==
  ASSUME Sound, NEW p \in Procs, Fresh(p), NEW status \in Results, NEW x \in Seq(Queue),
         \A q \in Procs : cf[q].reason = "QUEUE_RECV" =>
           cf[q].obj \in DOMAIN x /\ x[cf[q].obj].valid /\ x[cf[q].obj].items = queues[cf[q].obj].items,
         Finish([State EXCEPT !.queues = x], p, status)
  PROVE  Goes
<1> DEFINE s == [State EXCEPT !.queues = x]
<1>1. cf \in [Procs -> Config] /\ ke \in [Procs -> Process] /\ queues \in Seq(Queue) /\ crashed = FALSE
  BY Parts, Caller
<1>2. s = [cf |-> cf, ke |-> ke, crashed |-> FALSE, queues |-> x]
  <2>1. [State EXCEPT !.queues = x] = [cf |-> cf, ke |-> ke, crashed |-> crashed, queues |-> x]
    BY DEF State
  <2> QED  BY <1>1, <2>1
<1> HIDE DEF s
<1>3. Handled(s, p)
  <2>1. s \in Session
    BY <1>1, <1>2 DEF Session
  <2>2. s.cf[p].state = "NOT_WAITING" /\ s.cf[p].reason = "NOT_WAITING" /\ ~s.cf[p].retry
    BY <1>2, Caller
  <2>3. \A q \in Procs : Proper(s.cf[q], s.ke[q]) /\ Fits(s, q)
    BY <1>2, Parts DEF Fits
  <2> QED  BY <1>2, <2>1, <2>2, <2>3 DEF Handled
<1>4. Carried(cf, cf, queues, x)
  BY Parts DEF Carried
<1>5. Served(cf, queues) => Served(s.cf, s.queues)
  BY <1>2, <1>4, ServedKept
<1> QED  BY <1>3, <1>5, FinishGoes DEF s

\* A handler that changes nothing.
LEMMA Refused ==
  ASSUME Sound, NEW p \in Procs, Fresh(p), NEW status \in Results, Finish(State, p, status)
  PROVE  Goes
<1>1. queues \in Seq(Queue)
  BY Parts
<1>2. State = [State EXCEPT !.queues = queues]
  BY DEF State
<1>3. \A q \in Procs : cf[q].reason = "QUEUE_RECV" => cf[q].obj \in DOMAIN queues /\ queues[cf[q].obj].valid
  BY Parts
<1> HIDE DEF State
<1>4. Finish([State EXCEPT !.queues = queues], p, status)
  BY <1>2
<1> QED  BY <1>1, <1>3, <1>4, QueuesOnly

\* A new queue takes a slot that is free: nobody waits at what was there.
LEMMA MsggetStep ==
  ASSUME Sound, NEW p \in Procs, Fresh(p), Msgget(p, ke[p].call)
  PROVE  Goes
<1> DEFINE c == ke[p].call
           unused == {i \in DOMAIN queues : ~queues[i].valid}
           slot == IF unused = {} THEN Len(queues) + 1 ELSE CHOOSE i \in unused : \A j \in unused : i <= j
           gen == IF unused = {} THEN 0 ELSE queues[slot].gen
           new == [key |-> c.key, gen |-> gen, valid |-> TRUE, items |-> <<>>]
           x == IF unused = {} THEN Append(queues, new) ELSE [queues EXCEPT ![slot] = new]
<1>1. CASE \E status \in Results : Finish(State, p, status)
  BY <1>1, Refused
<1>2. CASE Finish([State EXCEPT !.queues = x], p, "OK")
  <2>1. queues \in Seq(Queue) /\ Len(queues) \in Nat /\ DOMAIN queues = 1 .. Len(queues)
    <3>1. queues \in Seq(Queue)
      BY Parts
    <3> QED  BY <3>1
  <2>2. unused # {} => slot \in unused
    <3>1. ASSUME unused # {}
          PROVE  \E i \in unused : \A j \in unused : i <= j
      <4>1. unused \in SUBSET Nat
        BY <2>1
      <4> HIDE DEF unused
      <4> QED  BY <3>1, <4>1, Least
    <3> QED  BY <3>1
  <2>3. gen \in -HalfGen .. HalfGen - 1
    <3>1. unused # {} => queues[slot] \in Queue
      BY <2>1, <2>2, ElementOfSeq
    <3>2. HalfGen \in Nat \ {0}
      BY MsgAssumption
    <3> HIDE DEF slot, unused
    <3> QED  BY <3>1, <3>2 DEF Queue
  <2>4. new \in Queue
    <3>1. c.key \in {call.key : call \in AllCalls}
      BY Caller
    <3> HIDE DEF gen
    <3> QED  BY <2>3, <3>1 DEF Queue
  <2> HIDE DEF new, slot
  <2>5. x \in Seq(Queue)
    BY <2>1, <2>2, <2>4, ExceptSeq
  <2>6. \A j \in DOMAIN queues \ unused : j \in DOMAIN x /\ x[j] = queues[j]
    BY <2>1, <2>2
  <2> HIDE DEF x
  <2>7. \A q \in Procs : cf[q].reason = "QUEUE_RECV" =>
          cf[q].obj \in DOMAIN x /\ x[cf[q].obj].valid /\ x[cf[q].obj].items = queues[cf[q].obj].items
    BY <2>6, Parts
  <2>8. "OK" \in Results
    BY DEF Results
  <2> QED  BY <1>2, <2>5, <2>7, <2>8, QueuesOnly
<1>3. \/ \E status \in {"EEXIST", "OK", "ENOENT"} : Finish(State, p, status)
      \/ Finish([State EXCEPT !.queues = x], p, "OK")
  <2>1. State.queues = queues
    BY DEF State
  <2> QED  BY <2>1 DEF Msgget
<1>4. {"EEXIST", "OK", "ENOENT"} \subseteq Results
  BY DEF Results
<1> QED  BY <1>1, <1>2, <1>3, <1>4

------------------------------------------------------------------------------
(* The receivers of a queue that is removed                                  *)

\* Sessions that differ from s0 by receivers of the queue i that were woken.
Near(i, s0) ==
  {s \in Session :
     /\ ~s.crashed /\ s.queues = s0.queues
     /\ \A q \in Procs :
          \/ s.cf[q] = s0.cf[q] /\ s.ke[q] = s0.ke[q]
          \/ WaitsFor(s0, q, i) /\ s.cf[q].reason = "NOT_WAITING" /\ ~s.cf[q].retry /\ Proper(s.cf[q], s.ke[q])}

\* The session with another struct SysVIpcConfig of a tracee, which is then woken.
LEMMA WokenFrom ==
  ASSUME NEW s \in Session, NEW q \in Procs, NEW c0 \in Config, NEW status \in Results,
         c0.reason = "QUEUE_RECV", Phase(c0, s.ke[q])
  PROVE  \E c \in Config, k \in Process :
           /\ WakeTracee([s EXCEPT !.cf[q] = c0], q, status) = [s EXCEPT !.cf[q] = c, !.ke[q] = k]
           /\ Phase(c, k) /\ Ends(c, c0, status)
<1> DEFINE t == [s EXCEPT !.cf[q] = c0]
<1>1. s.cf \in [Procs -> Config] /\ s.ke \in [Procs -> Process] /\ s.ke[q] \in Process
  BY DEF Session
<1>2. t \in Session
  BY <1>1, Put
<1>3. t.cf[q] = c0 /\ t.ke = s.ke
  BY <1>1 DEF Session
<1>4. \A c, k : [t EXCEPT !.cf[q] = c, !.ke[q] = k] = [s EXCEPT !.cf[q] = c, !.ke[q] = k]
  BY <1>1 DEF Session
<1> HIDE DEF t
<1>5. \E c \in Config, k \in Process :
        WakeTracee(t, q, status) = [t EXCEPT !.cf[q] = c, !.ke[q] = k] /\ Phase(c, k) /\ Ends(c, t.cf[q], status)
  BY <1>2, <1>3, Wakes
<1> QED  BY <1>3, <1>4, <1>5 DEF t

LEMMA WakeOneNear ==
  ASSUME NEW s0 \in Session, NEW i, NEW s \in Near(i, s0), NEW q \in Procs,
         \A x \in Procs : WaitsFor(s0, x, i) => Proper(s0.cf[x], s0.ke[x])
  PROVE  LET r == WakeOne(s, i, q)
         IN r \in Near(i, s0) /\ ~WaitsFor(r, q, i) /\ \A x \in Procs \ {q} : r.cf[x] = s.cf[x]
<1>1. CASE ~WaitsFor(s, q, i)
  BY <1>1 DEF WakeOne
<1>2. CASE WaitsFor(s, q, i)
  <2> DEFINE c0 == [s.cf[q] EXCEPT !.obj = 0, !.arg = NoArg]
  <2>1. s \in Session /\ s.cf \in [Procs -> Config] /\ s.ke \in [Procs -> Process] /\ s.cf[q] \in Config /\ s.queues = s0.queues
        /\ ~s.crashed
    BY DEF Near, Session
  <2>2. s.cf[q] = s0.cf[q] /\ s.ke[q] = s0.ke[q]
    BY <1>2 DEF Near, WaitsFor
  <2>3. WaitsFor(s0, q, i) /\ Proper(s.cf[q], s.ke[q])
    BY <1>2, <2>2 DEF WaitsFor
  <2>4. /\ c0 \in Config /\ c0.reason = "QUEUE_RECV" /\ c0.state = s.cf[q].state /\ c0.sigstop = s.cf[q].sigstop
        /\ c0.retry = s.cf[q].retry
    <3>1. s.cf[q].reason = "QUEUE_RECV" /\ 0 \in Int /\ NoArg \in AllCalls \cup {NoArg}
      BY <1>2 DEF WaitsFor
    <3> QED  BY <2>1, <3>1 DEF Config
  <2>5. [s EXCEPT !.cf[q].obj = 0, !.cf[q].arg = NoArg] = [s EXCEPT !.cf[q] = c0]
    BY <2>1 DEF Session
  <2> HIDE DEF c0
  <2>6. Phase(c0, s.ke[q]) /\ ~c0.retry
    BY <1>2, <2>3, <2>4 DEF Proper, Phase, WaitsFor, Waiting, Ended
  <2>7. "EIDRM" \in Results
    BY DEF Results
  <2>8. PICK c \in Config, k \in Process :
          /\ WakeTracee([s EXCEPT !.cf[q] = c0], q, "EIDRM") = [s EXCEPT !.cf[q] = c, !.ke[q] = k]
          /\ Phase(c, k) /\ Ends(c, c0, "EIDRM")
    BY <2>1, <2>4, <2>6, <2>7, WokenFrom
  <2> DEFINE r == [s EXCEPT !.cf[q] = c, !.ke[q] = k]
  <2>9. WakeOne(s, i, q) = r
    BY <1>2, <2>5, <2>8 DEF WakeOne
  <2>10. /\ r \in Session /\ r.crashed = s.crashed /\ r.queues = s.queues /\ r.cf[q] = c /\ r.ke[q] = k
         /\ \A x \in Procs \ {q} : r.cf[x] = s.cf[x] /\ r.ke[x] = s.ke[x]
    <3>1. r \in Session
      BY <2>1, Put
    <3> QED  BY <2>1, <3>1 DEF Session
  <2> HIDE DEF r
  <2>11. c.reason = "NOT_WAITING" /\ ~c.retry /\ Proper(c, k)
    BY <2>6, <2>8 DEF Ends, Proper
  <2>12. ASSUME NEW x \in Procs
         PROVE  \/ r.cf[x] = s0.cf[x] /\ r.ke[x] = s0.ke[x]
                \/ WaitsFor(s0, x, i) /\ r.cf[x].reason = "NOT_WAITING" /\ ~r.cf[x].retry /\ Proper(r.cf[x], r.ke[x])
    <3>1. CASE x = q  BY <2>3, <2>10, <2>11, <3>1
    <3>2. CASE x # q  BY <2>10, <3>2 DEF Near
    <3> QED  BY <3>1, <3>2
  <2>13. r \in Near(i, s0)
    BY <2>1, <2>10, <2>12 DEF Near
  <2> QED  BY <2>9, <2>10, <2>11, <2>13 DEF WaitsFor
<1> QED  BY <1>1, <1>2

\* All of them are woken.
LEMMA AllWoken ==
  ASSUME NEW s0 \in Session, NEW i, ~s0.crashed, \A x \in Procs : WaitsFor(s0, x, i) => Proper(s0.cf[x], s0.ke[x])
  PROVE  LET r == WakeAll(s0, i)
         IN r \in Near(i, s0) /\ \A q \in Procs : ~WaitsFor(r, q, i)
<1> DEFINE N == Len(Order)
           V == Near(i, s0)
           Eq(f) == f = [n \in 0 .. N |-> IF n = 0 THEN s0 ELSE WakeOne(f[n - 1], i, Order[n])]
           G == [x \in (1 .. N) \X V |-> WakeOne(x[2], i, Order[x[1]])]
<1>1. N \in Nat /\ s0 \in V
  BY Lists DEF Near
<1>2. G \in [(1 .. N) \X V -> V]
  BY Lists, WakeOneNear
<1>3. PICK f : Follows(f, V, s0, N, G)
  <2> HIDE DEF G, N, V
  <2> QED  BY <1>1, <1>2, Recursion
<1>4. f \in [0 .. N -> V] /\ f[0] = s0 /\ \A n \in 1 .. N : f[n] = G[<<n, f[n - 1]>>]
  BY <1>3 DEF Follows
<1>5. \A n \in 1 .. N : f[n - 1] \in V /\ f[n] = WakeOne(f[n - 1], i, Order[n])
  <2> TAKE n \in 1 .. N
  <2>1. f[n - 1] \in V
    BY <1>1, <1>4
  <2>2. G[<<n, f[n - 1]>>] = WakeOne(f[n - 1], i, Order[n])
    BY <2>1
  <2> QED  BY <1>4, <2>1, <2>2
<1>6. Eq(f)
  BY <1>1, <1>4, <1>5
<1> DEFINE g == CHOOSE h : Eq(h)
<1>7. g[0] = s0 /\ \A n \in 1 .. N : g[n] = WakeOne(g[n - 1], i, Order[n])
  <2>1. Eq(g)
    BY <1>6
  <2>2. 0 \in 0 .. N /\ \A n \in 1 .. N : n \in 0 .. N /\ n # 0
    BY <1>1
  <2> HIDE DEF g, N
  <2> QED  BY <2>1, <2>2
<1> DEFINE Done(n) == g[n] = f[n] /\ \A m \in 1 .. n : ~WaitsFor(f[n], Order[m], i)
           P == {n \in Nat : Done(n)}
<1>8. 0 \in P /\ P \in SUBSET Nat
  BY <1>4, <1>7
<1>9. ASSUME NEW n \in 1 .. N, n - 1 \in P
      PROVE  n \in P
  <2>1. g[n] = f[n] /\ f[n - 1] \in V /\ f[n] = WakeOne(f[n - 1], i, Order[n]) /\ Order[n] \in Procs
    BY <1>5, <1>7, <1>9, Lists
  <2>2. ~WaitsFor(f[n], Order[n], i) /\ \A x \in Procs \ {Order[n]} : f[n].cf[x] = f[n - 1].cf[x]
    BY <2>1, WakeOneNear
  <2>3. ASSUME NEW m \in 1 .. n
        PROVE  ~WaitsFor(f[n], Order[m], i)
    <3>1. CASE Order[m] = Order[n]
      BY <2>2, <3>1
    <3>2. CASE Order[m] # Order[n]
      <4>1. m \in 1 .. n - 1 /\ m \in 1 .. N
        BY <1>1, <3>2
      <4>2. Order[m] \in Procs
        BY <4>1, Lists
      <4>3. ~WaitsFor(f[n - 1], Order[m], i)
        BY <1>9, <4>1
      <4> QED  BY <2>2, <3>2, <4>2, <4>3 DEF WaitsFor
    <3> QED  BY <3>1, <3>2
  <2> QED  BY <2>1, <2>3
<1>10. Done(N)
  <2>1. \A n \in 0 .. N : n \in P
    <3> HIDE DEF P, N
    <3> QED  BY <1>1, <1>8, <1>9, Counting
  <2> QED  BY <1>1, <2>1
<1>11. WakeAll(s0, i) = g[N]
  BY DEF WakeAll, Steps
<1>12. f[N] \in V
  BY <1>1, <1>4
<1> QED  BY <1>10, <1>11, <1>12, Lists

LEMMA QueuesOf ==
  ASSUME NEW s \in Session, NEW i \in DOMAIN s.queues
  PROVE  /\ s.queues[i] \in Queue /\ i \in Int
         /\ \A x \in Queue : /\ [s EXCEPT !.queues[i] = x] \in Session
                             /\ [s EXCEPT !.queues[i] = x] = [s EXCEPT !.queues = [s.queues EXCEPT ![i] = x]]
<1>1. s.queues \in Seq(Queue)
  BY DEF Session
<1>2. Len(s.queues) \in Nat /\ i \in 1 .. Len(s.queues) /\ s.queues[i] \in Queue
  BY <1>1, ElementOfSeq
<1>3. \A x \in Queue : [s.queues EXCEPT ![i] = x] \in Seq(Queue)
  BY <1>1, <1>2, ExceptSeq
<1>4. ASSUME NEW x \in Queue
      PROVE  /\ [s EXCEPT !.queues[i] = x] \in Session
             /\ [s EXCEPT !.queues[i] = x] = [s EXCEPT !.queues = [s.queues EXCEPT ![i] = x]]
  <2>1. [s EXCEPT !.queues[i] = x] = [s EXCEPT !.queues = [s.queues EXCEPT ![i] = x]]
    BY DEF Session
  <2>2. [s EXCEPT !.queues = [s.queues EXCEPT ![i] = x]] \in Session
    BY <1>3 DEF Session
  <2> QED  BY <2>1, <2>2
<1> QED  BY <1>2, <1>4

LEMMA RmidStep ==
  ASSUME Sound, NEW p \in Procs, Fresh(p), Rmid(p, ke[p].call)
  PROVE  Goes
<1> DEFINE i == ke[p].call.id.slot
           r == WakeAll(State, i)
           s == [r EXCEPT !.queues[i].valid = FALSE, !.queues[i].items = <<>>, !.queues[i].gen = NextGen(@)]
<1>1. CASE Finish(State, p, "EINVAL")
  <2>1. "EINVAL" \in Results
    BY DEF Results
  <2> QED  BY <1>1, <2>1, Refused
<1>2. CASE Lookup(ke[p].call.id) /\ Finish(s, p, "OK")
  <2>1. /\ State \in Session /\ i \in DOMAIN State.queues /\ ~State.crashed /\ State.cf = cf /\ State.ke = ke
        /\ State.queues = queues /\ \A q \in Procs : Proper(cf[q], ke[q])
    BY <1>2, Caller DEF Lookup, State, Sound
  <2>2. cf[p].reason = "NOT_WAITING" /\ cf[p].state = "NOT_WAITING" /\ ~cf[p].retry
    BY Caller
  <2> DEFINE y == [r.queues[i] EXCEPT !.valid = FALSE, !.items = <<>>, !.gen = NextGen(@)]
  <2> HIDE DEF State, i
  <2>3. r \in Near(i, State) /\ \A q \in Procs : ~WaitsFor(r, q, i)
    BY <2>1, AllWoken
  <2>4. r \in Session /\ ~r.crashed /\ r.queues = queues
    BY <2>1, <2>3 DEF Near
  <2> HIDE DEF r
  <2>5. r.queues[i] \in Queue
    BY <2>1, <2>4, QueuesOf
  <2>6. y \in Queue
    <3> DEFINE gen == r.queues[i].gen
    <3>1. gen \in -HalfGen .. HalfGen - 1 /\ HalfGen \in Nat \ {0}
      BY <2>5, MsgAssumption DEF Queue
    <3>2. NextGen(gen) \in -HalfGen .. HalfGen - 1
      <4> HIDE DEF gen
      <4> QED  BY <3>1 DEF NextGen
    <3>3. <<>> \in Seq(Messages)
      OBVIOUS
    <3> DEFINE x == r.queues[i]
    <3>4. [x EXCEPT !.valid = FALSE, !.items = <<>>, !.gen = NextGen(x.gen)] \in Queue
      <4> HIDE DEF x
      <4> QED  BY <2>5, <3>2, <3>3 DEF Queue, x
    <3> QED  BY <3>4 DEF y
  <2>7. s = [r EXCEPT !.queues[i] = y]
    BY <2>1, <2>4, <2>5 DEF Session, Queue
  <2> HIDE DEF s, y
  <2>8. /\ s \in Session /\ s.cf = r.cf /\ s.ke = r.ke /\ s.crashed = r.crashed /\ s.queues = [queues EXCEPT ![i] = y]
        /\ DOMAIN s.queues = DOMAIN queues /\ \A j \in DOMAIN queues : j # i => s.queues[j] = queues[j]
    <3>1. s \in Session /\ s = [r EXCEPT !.queues = [queues EXCEPT ![i] = y]]
      BY <2>1, <2>4, <2>6, <2>7, QueuesOf
    <3> QED  BY <2>4, <3>1 DEF Session
  <2>9. ASSUME NEW q \in Procs
        PROVE  \/ s.cf[q] = cf[q] /\ s.ke[q] = ke[q] /\ ~WaitsFor(s, q, i)
               \/ WaitsFor(State, q, i) /\ s.cf[q].reason = "NOT_WAITING" /\ ~s.cf[q].retry /\ Proper(s.cf[q], s.ke[q])
    BY <2>1, <2>3, <2>8 DEF Near, WaitsFor
  <2>10. ASSUME NEW q \in Procs, s.cf[q].reason = "QUEUE_RECV"
         PROVE  s.cf[q] = cf[q] /\ cf[q].obj \in DOMAIN queues /\ cf[q].obj # i
    <3>1. s.cf[q] = cf[q] /\ s.cf[q].obj # i
      BY <2>9, <2>10 DEF WaitsFor
    <3> QED  BY <2>10, <3>1, Parts
  <2>11. \A q \in Procs : Fits(s, q)
    BY <2>8, <2>10, Parts DEF Fits
  <2>12. ASSUME NEW q \in Procs, cf[q].retry
         PROVE  s.cf[q] = cf[q]
    <3>1. cf[q].reason # "QUEUE_RECV"
      BY <2>12, Parts DEF Proper, Phase, Waiting, Ended
    <3> QED  BY <2>1, <2>9, <3>1 DEF WaitsFor
  <2>13. Handled(s, p)
    <3>1. s.cf[p] = cf[p] /\ s.ke[p] = ke[p]
      BY <2>1, <2>2, <2>9 DEF WaitsFor
    <3> QED  BY <2>1, <2>2, <2>4, <2>8, <2>9, <2>11, <3>1 DEF Handled
  <2>14. Carried(cf, s.cf, queues, s.queues)
    BY <2>8, <2>10, <2>12, Parts DEF Carried
  <2>15. "OK" \in Results
    BY DEF Results
  <2> QED  BY <1>2, <2>13, <2>14, <2>15, ServedKept, FinishGoes DEF i
<1> QED  BY <1>1, <1>2 DEF Rmid

------------------------------------------------------------------------------
(* Sending                                                                   *)

\* A receiver that accepts the message, if one waits.
LEMMA Chosen ==
  ASSUME NEW s, NEW i, NEW m
  PROVE  \/ /\ WakeReceiver(s, i, m) = s
            /\ \A q \in Procs : ~(WaitsFor(s, q, i) /\ Accepted(s.cf[q].arg, m))
         \/ \E w \in Procs : /\ WaitsFor(s, w, i) /\ Accepted(s.cf[w].arg, m)
                             /\ WakeReceiver(s, i, m) = WakeToRetry(s, w)
<1> DEFINE Test(q) == WaitsFor(s, q, i) /\ Accepted(s.cf[q].arg, m)
           I == {n \in 1 .. Len(Order) : Test(Order[n])}
           n == IF I # {} THEN CHOOSE x \in I : \A y \in I : x <= y ELSE 0
<1>1. WakeReceiver(s, i, m) = IF n = 0 THEN s ELSE WakeToRetry(s, Order[n])
  BY DEF WakeReceiver, SelectInSeq, Min
<1>2. I \in SUBSET Nat /\ 0 \notin I
  BY Lists
<1>3. CASE I = {}
  <2>1. \A q \in Procs : ~Test(q)
    BY <1>3, Lists
  <2> QED  BY <1>1, <1>3, <2>1
<1>4. CASE I # {}
  <2>1. \E x \in I : \A y \in I : x <= y
    <3> HIDE DEF I
    <3> QED  BY <1>2, <1>4, Least
  <2>2. n \in I
    <3> HIDE DEF I
    <3> QED  BY <1>4, <2>1
  <2>3. n # 0 /\ Order[n] \in Procs /\ Test(Order[n])
    <3> HIDE DEF n
    <3> QED  BY <1>2, <2>2, Lists
  <2> HIDE DEF n
  <2> QED  BY <1>1, <2>3
<1> QED  BY <1>3, <1>4

\* The receivers of a queue are told apart, and those of an accepted message compared.
LEMMA Apart ==
  ASSUME Sound, NEW i, NEW p \in Procs, cf[p].reason = "QUEUE_RECV", cf[p].obj = i
  PROVE  p \notin Woken(cf, i) /\ Receives(p, i) /\ \A q \in Woken(cf, i) : q \in Procs /\ Receives(q, i) /\ q # p
<1>1. ~cf[p].retry
  BY Parts DEF Proper, Phase, Waiting, Ended
<1> QED  BY <1>1 DEF Woken, Receives

LEMMA WokenCopyNothing ==
  ASSUME Sound, NEW i
  PROVE  \A q \in Woken(cf, i) : ~Copies(cf[q].arg)
<1> SUFFICES ASSUME NEW q \in Procs, cf[q].retry
             PROVE  ~Copies(cf[q].arg)
  BY DEF Woken
<1>1. cf[q].arg \in Waits
  BY Parts DEF Proper
<1>2. cf[q].arg \in AllCalls
  BY <1>1 DEF Waits
<1> QED  BY <1>1, <1>2, CallType

\* The queues with other messages in one of them.
With(x, i, new) == [x EXCEPT ![i] = [x[i] EXCEPT !.items = new]]

LEMMA WithItems ==
  ASSUME Sound, NEW i \in DOMAIN queues
  PROVE  /\ queues[i].items \in Seq(Messages)
         /\ \A new \in Seq(Messages) :
              /\ With(queues, i, new) \in Seq(Queue) /\ DOMAIN With(queues, i, new) = DOMAIN queues
              /\ With(queues, i, new)[i].items = new
              /\ \A j \in DOMAIN queues : With(queues, i, new)[j].valid = queues[j].valid
                                         /\ (j # i => With(queues, i, new)[j] = queues[j])
<1>1. queues \in Seq(Queue)
  BY DEF Sound, Session, State
<1>2. queues[i] \in Queue
  BY <1>1, ElementOfSeq
<1>3. queues[i].items \in Seq(Messages)
  BY <1>2 DEF Queue
<1>4. ASSUME NEW new \in Seq(Messages)
      PROVE  /\ With(queues, i, new) \in Seq(Queue) /\ DOMAIN With(queues, i, new) = DOMAIN queues
             /\ With(queues, i, new)[i].items = new
             /\ \A j \in DOMAIN queues : With(queues, i, new)[j].valid = queues[j].valid
                                        /\ (j # i => With(queues, i, new)[j] = queues[j])
  <2> DEFINE y == [queues[i] EXCEPT !.items = new]
  <2>1. y \in Queue /\ y.items = new /\ y.valid = queues[i].valid
    <3> HIDE DEF Queue
    <3>1. y.items = new /\ y.valid = queues[i].valid
      BY <1>2 DEF Queue
    <3>2. y \in Queue
      BY <1>2 DEF Queue
    <3> QED  BY <3>1, <3>2
  <2>2. With(queues, i, new) = [queues EXCEPT ![i] = y]
    BY DEF With
  <2> HIDE DEF y
  <2>3. [queues EXCEPT ![i] = y] \in Seq(Queue)
    BY <1>1, <2>1, ExceptSeq
  <2> QED  BY <1>1, <2>1, <2>2, <2>3
<1> QED  BY <1>3, <1>4

\* What the sender makes of the queue.
Sent(x, i, m) == With(x, i, Append(x[i].items, m))

LEMMA SentQueues ==
  ASSUME Sound, NEW i \in DOMAIN queues, NEW m \in Messages
  PROVE  /\ Sent(queues, i, m) \in Seq(Queue) /\ DOMAIN Sent(queues, i, m) = DOMAIN queues
         /\ queues[i].items \in Seq(Messages) /\ Sent(queues, i, m)[i].items = Append(queues[i].items, m)
         /\ \A j \in DOMAIN queues : Sent(queues, i, m)[j].valid = queues[j].valid /\ (j # i => Sent(queues, i, m)[j] = queues[j])
<1>1. queues[i].items \in Seq(Messages)
  BY WithItems
<1>2. Append(queues[i].items, m) \in Seq(Messages)
  BY <1>1
<1> QED  BY <1>1, <1>2, WithItems DEF Sent

\* Nobody waits for the message.
LEMMA SentToNone ==
  ASSUME Sound, Served(cf, queues), NEW i \in DOMAIN queues, NEW m \in Messages,
         \A q \in Procs : ~(WaitsFor(State, q, i) /\ Accepted(cf[q].arg, m))
  PROVE  Served(cf, Sent(queues, i, m))
<1>1. SUFFICES ASSUME NEW p \in Procs, cf[p].reason = "QUEUE_RECV"
               PROVE  Enough(Sent(queues, i, m)[cf[p].obj].items, cf, cf[p].obj, cf[p].arg)
  BY DEF Served
<1>2. Enough(queues[cf[p].obj].items, cf, cf[p].obj, cf[p].arg) /\ cf[p].obj \in DOMAIN queues
  BY <1>1, Parts DEF Served
<1>3. CASE cf[p].obj # i
  BY <1>2, <1>3, SentQueues
<1>4. CASE cf[p].obj = i
  <2>1. ~Accepted(cf[p].arg, m)
    BY <1>1, <1>4 DEF WaitsFor, State
  <2>2. queues[i].items \in Seq(Messages) /\ Sent(queues, i, m)[i].items = Append(queues[i].items, m)
    BY SentQueues
  <2>3. StillWoken(cf, cf, i, Woken(cf, i)) /\ \A q \in Woken(cf, i) : ~Copies(cf[q].arg)
    BY WokenCopyNothing DEF StillWoken
  <2>4. Enough(Append(queues[i].items, m), cf, i, cf[p].arg)
    BY <1>2, <1>4, <2>1, <2>2, <2>3, EnoughForOthers
  <2> QED  BY <1>4, <2>2, <2>4
<1> QED  BY <1>3, <1>4

\* The receiver w is woken for it.
LEMMA SentToOne ==
  ASSUME Sound, Served(cf, queues), Alike, NEW i \in DOMAIN queues, NEW m \in Messages,
         NEW w \in Procs, WaitsFor(State, w, i), Accepted(cf[w].arg, m),
         NEW g, g[w].reason = "NOT_WAITING", g[w].retry, g[w].obj = i, g[w].arg = cf[w].arg,
         \A q \in Procs \ {w} : g[q] = cf[q]
  PROVE  Served(g, Sent(queues, i, m))
<1>1. SUFFICES ASSUME NEW p \in Procs, g[p].reason = "QUEUE_RECV"
               PROVE  Enough(Sent(queues, i, m)[g[p].obj].items, g, g[p].obj, g[p].arg)
  BY DEF Served
<1>2. p # w /\ g[p] = cf[p] /\ cf[w].reason = "QUEUE_RECV" /\ cf[w].obj = i
  BY <1>1 DEF WaitsFor, State
<1>3. /\ Enough(queues[cf[p].obj].items, cf, cf[p].obj, cf[p].arg) /\ cf[p].obj \in DOMAIN queues
      /\ queues[cf[p].obj].items \in Seq(Messages) /\ Enough(queues[i].items, cf, i, cf[w].arg)
  BY <1>1, <1>2, Parts DEF Served
<1>4. /\ w \notin Woken(cf, i) /\ Receives(w, i) /\ w \in Woken(g, i)
      /\ \A q \in Woken(cf, i) : q \in Procs /\ Receives(q, i) /\ q # w
  BY <1>2, Apart DEF Woken
<1>5. \A j : StillWoken(cf, g, j, Woken(cf, j))
  <2>1. ~cf[w].retry
    BY <1>2, <1>4 DEF Woken
  <2> QED  BY <2>1 DEF StillWoken, Woken
<1>6. \A q \in Woken(cf, i) : ~Copies(cf[q].arg)
  BY WokenCopyNothing
<1>7. CASE cf[p].obj # i
  <2>1. Enough(queues[cf[p].obj].items, g, cf[p].obj, cf[p].arg)
    BY <1>3, <1>5, EnoughKept
  <2> QED  BY <1>2, <1>3, <1>7, <2>1, SentQueues
<1>8. CASE cf[p].obj = i
  <2>1. queues[i].items \in Seq(Messages) /\ Sent(queues, i, m)[i].items = Append(queues[i].items, m)
    BY SentQueues
  <2>2. CASE ~Accepted(cf[p].arg, m)
    <3>1. Enough(Append(queues[i].items, m), g, i, cf[p].arg)
      BY <1>3, <1>5, <1>6, <1>8, <2>1, <2>2, EnoughForOthers
    <3> QED  BY <1>2, <1>8, <2>1, <3>1
  <2>3. CASE Accepted(cf[p].arg, m)
    <3>1. Receives(p, i) /\ \A q \in Woken(cf, i) : q # p
      BY <1>1, <1>2, <1>8, Apart
    <3>2. ASSUME NEW q \in Woken(cf, i)
          PROVE  /\ Same(cf[w].arg, cf[p].arg)
                 /\ (\E x \in Messages : Accepted(cf[p].arg, x) /\ Accepted(cf[q].arg, x)) => Same(cf[q].arg, cf[p].arg)
      <4>1. q \in Procs /\ Receives(q, i) /\ q # w /\ q # p
        BY <1>4, <3>1
      <4>2. cf[q].obj = i
        BY <4>1 DEF Receives
      <4>3. Same(cf[w].arg, cf[p].arg)
        BY <1>2, <1>4, <2>3, <3>1, <4>1 DEF Alike
      <4>4. (\E x \in Messages : Accepted(cf[q].arg, x) /\ Accepted(cf[p].arg, x)) => Same(cf[q].arg, cf[p].arg)
        BY <1>2, <1>4, <3>1, <4>1, <4>2 DEF Alike
      <4> QED  BY <4>3, <4>4
    <3>3. ~Copies(cf[w].arg)
      <4>1. cf[w].arg \in Waits /\ cf[w].arg \in AllCalls
        BY <1>2, Parts DEF Proper, Waits
      <4> QED  BY <4>1, CallType
    <3>4. Woken(cf, i) # {} => Same(cf[w].arg, cf[p].arg)
      BY <3>2
    <3>5. Enough(Append(queues[i].items, m), g, i, cf[p].arg)
      BY <1>3, <1>4, <1>5, <1>6, <1>8, <2>1, <2>3, <3>2, <3>3, <3>4, EnoughWoken
    <3> QED  BY <1>2, <1>8, <2>1, <3>5
  <2> QED  BY <2>2, <2>3
<1> QED  BY <1>7, <1>8

LEMMA MsgsndStep ==
  ASSUME Sound, NEW p \in Procs, Fresh(p), ke[p].call.f = "msgsnd", Msgsnd(p, ke[p].call)
  PROVE  Goes
<1> DEFINE i == ke[p].call.id.slot
           m == ke[p].call.msg
           r == WakeReceiver(State, i, m)
           s == [r EXCEPT !.queues[i].items = Append(@, m)]
<1>1. CASE Finish(State, p, "EINVAL")
  <2>1. "EINVAL" \in Results
    BY DEF Results
  <2> QED  BY <1>1, <2>1, Refused
<1>2. CASE Lookup(ke[p].call.id) /\ Finish(s, p, "OK")
  <2>1. /\ State \in Session /\ i \in DOMAIN queues /\ ~crashed /\ State.cf = cf /\ State.ke = ke /\ State.crashed = crashed
        /\ State.queues = queues /\ m \in Messages /\ "OK" \in Results
        /\ cf[p].reason = "NOT_WAITING" /\ cf[p].state = "NOT_WAITING" /\ ~cf[p].retry
    BY <1>2, Caller, CallType DEF Lookup, State, Sound, Results
  <2>2. State.cf \in [Procs -> Config] /\ State.ke \in [Procs -> Process] /\ State.queues \in Seq(Queue)
    BY <2>1 DEF Session
  <2> HIDE DEF i, m
  <2>3. /\ Sent(queues, i, m) \in Seq(Queue) /\ DOMAIN Sent(queues, i, m) = DOMAIN queues
        /\ \A j \in DOMAIN queues : Sent(queues, i, m)[j].valid = queues[j].valid
    BY <2>1, SentQueues
  <2>4. ASSUME NEW t \in Session, t.queues = queues
        PROVE  LET u == [t EXCEPT !.queues[i].items = Append(@, m)]
               IN /\ u \in Session /\ u.cf = t.cf /\ u.ke = t.ke /\ u.crashed = t.crashed /\ u.queues = Sent(queues, i, m)
    <3> DEFINE u == [t EXCEPT !.queues[i].items = Append(@, m)]
    <3>1. u = [t EXCEPT !.queues = Sent(queues, i, m)]
      BY <2>1, <2>2, <2>4 DEF Session, Sent, With
    <3> HIDE DEF u
    <3>2. u \in Session /\ u.cf = t.cf /\ u.ke = t.ke /\ u.crashed = t.crashed /\ u.queues = Sent(queues, i, m)
      BY <2>3, <2>4, <3>1 DEF Session
    <3> QED  BY <3>2 DEF u
  <2>5. CASE r = State /\ \A q \in Procs : ~(WaitsFor(State, q, i) /\ Accepted(cf[q].arg, m))
    <3> HIDE DEF r
    <3>1. s \in Session /\ s.cf = cf /\ s.ke = ke /\ s.crashed = crashed /\ s.queues = Sent(queues, i, m)
      BY <2>1, <2>4, <2>5
    <3> HIDE DEF s, State
    <3>2. Handled(s, p)
      BY <2>1, <2>3, <3>1, Parts DEF Handled, Fits
    <3>3. Served(cf, queues) => Served(s.cf, s.queues)
      BY <2>1, <2>5, <3>1, SentToNone
    <3> QED  BY <1>2, <2>1, <3>2, <3>3, FinishGoes
  <2>6. ASSUME NEW w \in Procs, WaitsFor(State, w, i), Accepted(cf[w].arg, m), r = WakeToRetry(State, w)
        PROVE  Goes
    <3> DEFINE c0 == [cf[w] EXCEPT !.retry = TRUE]
    <3>1. cf[w].reason = "QUEUE_RECV" /\ cf[w].obj = i /\ cf[w] \in Config /\ Proper(cf[w], ke[w]) /\ w # p
      BY <2>1, <2>6, Parts DEF WaitsFor
    <3>2. /\ c0 \in Config /\ c0.reason = "QUEUE_RECV" /\ c0.state = cf[w].state /\ c0.sigstop = cf[w].sigstop
          /\ c0.obj = i /\ c0.arg = cf[w].arg /\ c0.retry
      BY <3>1 DEF Config
    <3>3. [State EXCEPT !.cf[w].retry = TRUE] = [State EXCEPT !.cf[w] = c0]
      BY <2>1, <2>2 DEF Session
    <3> HIDE DEF c0
    <3>4. Phase(c0, State.ke[w]) /\ "EAGAIN" \in Results
      BY <2>1, <3>1, <3>2 DEF Proper, Phase, Results
    <3>5. PICK c \in Config, k \in Process :
            /\ WakeTracee([State EXCEPT !.cf[w] = c0], w, "EAGAIN") = [State EXCEPT !.cf[w] = c, !.ke[w] = k]
            /\ Phase(c, k) /\ Ends(c, c0, "EAGAIN")
      BY <2>1, <3>2, <3>4, WokenFrom
    <3>6. r = [State EXCEPT !.cf[w] = c, !.ke[w] = k]
      BY <2>6, <3>3, <3>5 DEF WakeToRetry
    <3> HIDE DEF r
    <3>7. /\ r \in Session /\ r.queues = queues /\ r.crashed = crashed /\ r.cf[w] = c /\ r.ke[w] = k
          /\ \A q \in Procs \ {w} : r.cf[q] = cf[q] /\ r.ke[q] = ke[q]
      <4>1. r \in Session
        BY <2>1, <3>6, Put
      <4> QED  BY <2>1, <2>2, <3>6, <4>1 DEF Session
    <3>8. s \in Session /\ s.cf = r.cf /\ s.ke = r.ke /\ s.crashed = r.crashed /\ s.queues = Sent(queues, i, m)
      BY <2>4, <3>7
    <3> HIDE DEF s, State
    <3>9. c.reason = "NOT_WAITING" /\ c.retry /\ c.obj = i /\ c.arg = cf[w].arg /\ Proper(c, k)
      <4>1. cf[w].arg \in Waits
        BY <3>1 DEF Proper
      <4> QED  BY <3>2, <3>5, <4>1 DEF Ends, Proper
    <3>10. \A q \in Procs : Proper(s.cf[q], s.ke[q]) /\ (s.cf[q].reason = "QUEUE_RECV" => s.cf[q] = cf[q])
      <4> TAKE q \in Procs
      <4>1. CASE q = w  BY <3>7, <3>8, <3>9, <4>1
      <4>2. CASE q # w  BY <3>7, <3>8, <4>2, Parts
      <4> QED  BY <4>1, <4>2
    <3>11. \A q \in Procs : Fits(s, q)
      BY <2>3, <3>8, <3>10, Parts DEF Fits
    <3>12. Handled(s, p)
      BY <2>1, <3>1, <3>7, <3>8, <3>10, <3>11 DEF Handled
    <3>13. Served(cf, queues) /\ Conditions => Served(s.cf, s.queues)
      BY <2>1, <2>6, <3>7, <3>8, <3>9, SentToOne DEF Conditions
    <3> QED  BY <1>2, <2>1, <3>12, <3>13, FinishGoes
  <2> QED  BY <2>1, <2>5, <2>6, Chosen
<1> QED  BY <1>1, <1>2 DEF Msgsnd

------------------------------------------------------------------------------
(* Receiving                                                                 *)

LEMMA FoundRange ==
  ASSUME NEW items \in Seq(Messages), NEW c, Found(items, c) # 0
  PROVE  Found(items, c) \in 1 .. Len(items) /\ items[Found(items, c)] \in Messages
<1> DEFINE all == IF "COPY" \in c.flags THEN {c.typ + 1} \cap DOMAIN items ELSE {n \in DOMAIN items : Accepted(c, items[n])}
<1>1. Found(items, c) = IF all = {} THEN 0 ELSE CHOOSE n \in all : \A o \in all : n <= o
  BY DEF Found
<1>2. all \subseteq 1 .. Len(items)
  OBVIOUS
<1>3. all # {} => \E n \in all : \A o \in all : n <= o
  <2>1. all \in SUBSET Nat
    BY <1>2
  <2> HIDE DEF all
  <2> QED  BY <2>1, Least
<1> HIDE DEF all
<1>4. Found(items, c) \in 1 .. Len(items)
  BY <1>1, <1>2, <1>3
<1> QED  BY <1>4, ElementOfSeq

\* The n-th message of the queue i is taken.
Taken(x, i, n) == With(x, i, RemoveAt(x[i].items, n))

LEMMA TakenQueues ==
  ASSUME Sound, NEW i \in DOMAIN queues, NEW n \in 1 .. Len(queues[i].items)
  PROVE  /\ Taken(queues, i, n) \in Seq(Queue) /\ DOMAIN Taken(queues, i, n) = DOMAIN queues
         /\ queues[i].items \in Seq(Messages) /\ Taken(queues, i, n)[i].items = RemoveAt(queues[i].items, n)
         /\ \A j \in DOMAIN queues : Taken(queues, i, n)[j].valid = queues[j].valid /\ (j # i => Taken(queues, i, n)[j] = queues[j])
<1>1. queues[i].items \in Seq(Messages)
  BY WithItems
<1>2. RemoveAt(queues[i].items, n) \in Seq(Messages)
  BY <1>1, Removed
<1> QED  BY <1>1, <1>2, WithItems DEF Taken

\* By a call that did not wait, or by a receiver r that was woken.
LEMMA ServedTaken ==
  ASSUME Sound, Served(cf, queues), NEW i \in DOMAIN queues, NEW n \in 1 .. Len(queues[i].items),
         NEW r \in Procs, ~cf[r].retry \/ (cf[r].obj = i /\ n = Found(queues[i].items, cf[r].arg)),
         NEW g, g[r].reason = "NOT_WAITING", \A q \in Procs \ {r} : g[q] = cf[q]
  PROVE  Served(g, Taken(queues, i, n))
<1>1. SUFFICES ASSUME NEW p \in Procs, g[p].reason = "QUEUE_RECV"
               PROVE  Enough(Taken(queues, i, n)[g[p].obj].items, g, g[p].obj, g[p].arg)
  BY DEF Served
<1>2. p # r /\ g[p] = cf[p]
  BY <1>1
<1>3. /\ Enough(queues[cf[p].obj].items, cf, cf[p].obj, cf[p].arg) /\ cf[p].obj \in DOMAIN queues
      /\ queues[cf[p].obj].items \in Seq(Messages)
  BY <1>1, <1>2, Parts DEF Served
<1>4. \A q \in Woken(cf, i) : ~Copies(cf[q].arg)
  BY WokenCopyNothing
<1>5. \A j : StillWoken(cf, g, j, Woken(cf, j) \ {r})
  BY DEF StillWoken, Woken
<1>6. CASE cf[p].obj # i
  <2>1. StillWoken(cf, g, cf[p].obj, Woken(cf, cf[p].obj))
    BY <1>5, <1>6 DEF StillWoken, Woken
  <2>2. Enough(queues[cf[p].obj].items, g, cf[p].obj, cf[p].arg)
    BY <1>3, <2>1, EnoughKept
  <2> QED  BY <1>2, <1>3, <1>6, <2>2, TakenQueues
<1>7. CASE cf[p].obj = i
  <2>1. \/ StillWoken(cf, g, i, Woken(cf, i))
        \/ r \in Woken(cf, i) /\ n = Found(queues[i].items, cf[r].arg)
    BY <1>5 DEF StillWoken, Woken
  <2>2. Enough(RemoveAt(queues[i].items, n), g, i, cf[p].arg)
    <3> DEFINE c == cf[p].arg
               items == queues[i].items
    <3>1. Enough(items, cf, i, c) /\ items \in Seq(Messages) /\ n \in 1 .. Len(items)
      BY <1>3, <1>7
    <3> HIDE DEF c, items
    <3>2. CASE StillWoken(cf, g, i, Woken(cf, i))
      BY <1>4, <3>1, <3>2, EnoughTaken DEF items, c
    <3>3. CASE r \in Woken(cf, i) /\ n = Found(items, cf[r].arg)
      BY <1>4, <1>5, <3>1, <3>3, EnoughTaken DEF items, c
    <3> QED  BY <2>1, <3>2, <3>3 DEF items, c
  <2> QED  BY <1>2, <1>7, <2>2, TakenQueues
<1> QED  BY <1>6, <1>7

\* A receiver that was woken finds nothing.
LEMMA ServedMissed ==
  ASSUME Sound, Served(cf, queues), NEW r \in Procs, cf[r].retry, cf[r].obj \in DOMAIN queues,
         Found(queues[cf[r].obj].items, cf[r].arg) = 0,
         NEW g, g[r].reason = "NOT_WAITING", \A q \in Procs \ {r} : g[q] = cf[q]
  PROVE  Served(g, queues)
<1>1. SUFFICES ASSUME NEW p \in Procs, g[p].reason = "QUEUE_RECV"
               PROVE  Enough(queues[g[p].obj].items, g, g[p].obj, g[p].arg)
  BY DEF Served
<1>2. p # r /\ g[p] = cf[p]
  BY <1>1
<1> DEFINE i == cf[p].obj
           items == queues[i].items
<1>3. Enough(items, cf, i, cf[p].arg) /\ items \in Seq(Messages)
  BY <1>1, <1>2, Parts DEF Served
<1>4. StillWoken(cf, g, i, Woken(cf, i) \ {r})
  BY DEF StillWoken, Woken
<1>5. CASE r \notin Woken(cf, i)
  <2>1. StillWoken(cf, g, i, Woken(cf, i))
    BY <1>4, <1>5 DEF StillWoken
  <2> QED  BY <1>2, <1>3, <2>1, EnoughKept
<1>6. CASE r \in Woken(cf, i)
  <2>1. cf[r].obj = i /\ ~Copies(cf[r].arg)
    BY <1>6, WokenCopyNothing DEF Woken
  <2>2. Found(items, cf[r].arg) = 0
    BY <2>1
  <2> HIDE DEF i, items
  <2>3. Enough(items, g, i, cf[p].arg)
    BY <1>3, <1>4, <1>6, <2>1, <2>2, EnoughMissed
  <2> QED  BY <1>2, <2>3 DEF i, items
<1> QED  BY <1>5, <1>6

\* What sysvipc_do_msgrcv() makes of the session: the tracee waits, or the n-th message is taken.
Asleep(s, p, i, c) == [s EXCEPT !.cf[p].reason = "QUEUE_RECV", !.cf[p].obj = i, !.cf[p].arg = c]
Without(s, i, n) == [s EXCEPT !.queues[i].items = RemoveAt(@, n)]

\* Its outcomes: errors, a wait, and a message.
Outcome(r, s, p, i, c, items, n) ==
  \/ r.s = s /\ r.status = "EINVAL" /\ WrongFlags(c)
  \/ r.s = s /\ r.status = "ENOMSG" /\ "NOWAIT" \in c.flags
  \/ r.s = Asleep(s, p, i, c) /\ r.status = NoResult /\ ~WrongFlags(c) /\ "NOWAIT" \notin c.flags /\ n = 0
  \/ r.s = s /\ r.status = "E2BIG" /\ n # 0 /\ Size[items[n]] > c.max /\ "NOERROR" \notin c.flags
  \/ r.s = s /\ r.status = items[n] /\ n # 0 /\ Copies(c)
  \/ r.s = Without(s, i, n) /\ r.status = items[n] /\ n # 0 /\ ~Copies(c)

LEMMA Outcomes ==
  ASSUME NEW s, NEW p, NEW i, NEW c
  PROVE  Outcome(DoMsgrcv(s, p, i, c), s, p, i, c, s.queues[i].items, Found(s.queues[i].items, c))
<1> DEFINE items == s.queues[i].items
           n == Found(items, c)
<1> HIDE DEF n
<1>1. CASE WrongFlags(c)
  <2>1. DoMsgrcv(s, p, i, c) = [s |-> s, status |-> "EINVAL"]
    BY <1>1 DEF DoMsgrcv
  <2> QED  BY <1>1, <2>1 DEF Outcome
<1>2. CASE ~WrongFlags(c) /\ n = 0
  <2>1. DoMsgrcv(s, p, i, c) = IF "NOWAIT" \in c.flags THEN [s |-> s, status |-> "ENOMSG"]
                               ELSE [s |-> Asleep(s, p, i, c), status |-> NoResult]
    BY <1>2 DEF DoMsgrcv, Asleep, n
  <2> QED  BY <1>2, <2>1 DEF Outcome, n
<1>3. CASE ~WrongFlags(c) /\ n # 0
  <2>1. DoMsgrcv(s, p, i, c) =
          IF Size[items[n]] > c.max /\ "NOERROR" \notin c.flags THEN [s |-> s, status |-> "E2BIG"]
          ELSE [s |-> IF "COPY" \in c.flags THEN s ELSE Without(s, i, n), status |-> items[n]]
    BY <1>3 DEF DoMsgrcv, Without, n
  <2> QED  BY <1>3, <2>1 DEF n, Copies, Outcome
<1> QED  BY <1>1, <1>2, <1>3

\* The queues of the session, after a message was taken.
LEMMA TakenSession ==
  ASSUME Sound, NEW i \in DOMAIN queues, NEW n \in 1 .. Len(queues[i].items)
  PROVE  LET s == Without(State, i, n)
         IN /\ s \in Session /\ s.cf = cf /\ s.ke = ke /\ s.crashed = crashed /\ s.queues = Taken(queues, i, n)
            /\ s = [cf |-> cf, ke |-> ke, crashed |-> crashed, queues |-> Taken(queues, i, n)]
<1> DEFINE s == Without(State, i, n)
<1>1. cf \in [Procs -> Config] /\ ke \in [Procs -> Process] /\ queues \in Seq(Queue) /\ crashed \in BOOLEAN
  BY DEF Sound, Session, State
<1>2. Taken(queues, i, n) \in Seq(Queue)
  BY TakenQueues
<1>3. s = [cf |-> cf, ke |-> ke, crashed |-> crashed, queues |-> Taken(queues, i, n)]
  <2>1. DOMAIN State = {"cf", "ke", "crashed", "queues"} /\ State.queues = queues
    BY DEF State
  <2>2. s = [State EXCEPT !.queues = Taken(queues, i, n)]
    BY <2>1 DEF Taken, With, Without
  <2> HIDE DEF s
  <2> QED  BY <2>2 DEF State
<1> HIDE DEF s
<1>4. s \in Session /\ s.cf = cf /\ s.ke = ke /\ s.crashed = crashed /\ s.queues = Taken(queues, i, n)
  BY <1>1, <1>2, <1>3 DEF Session
<1> QED  BY <1>3, <1>4 DEF s

LEMMA MsgrcvStep ==
  ASSUME Sound, NEW p \in Procs, Fresh(p), ke[p].call.f = "msgrcv", Msgrcv(p, ke[p].call)
  PROVE  Goes
<1> DEFINE c == ke[p].call
           i == c.id.slot
           items == queues[i].items
           n == Found(items, c)
           r == DoMsgrcv(State, p, i, c)
<1>1. CASE ~Lookup(c.id)
  <2>1. Finish(State, p, "EINVAL") /\ "EINVAL" \in Results
    BY <1>1 DEF Msgrcv, Results
  <2> QED  BY <2>1, Refused
<1>2. CASE Lookup(c.id)
  <2>1. /\ State \in Session /\ i \in DOMAIN queues /\ queues[i].valid /\ c \in AllCalls
        /\ cf[p].reason = "NOT_WAITING" /\ cf[p].state = "NOT_WAITING" /\ ~cf[p].retry /\ crashed = FALSE
    BY <1>2, Caller DEF Lookup, Sound
  <2>2. State.cf = cf /\ State.ke = ke /\ State.crashed = crashed /\ State.queues = queues
    BY DEF State
  <2>3. items \in Seq(Messages) /\ i \in Int
    <3>1. queues \in Seq(Queue)
      BY Parts
    <3> QED  BY <2>1, <3>1, WithItems
  <2>4. Finish(r.s, p, r.status)
    BY <1>2 DEF Msgrcv
  <2> HIDE DEF c, i, items, n, r
  <2>5. CASE r.s = State /\ r.status \in Results
    <3> HIDE DEF State
    <3> QED  BY <2>4, <2>5, Refused
  <2>6. CASE /\ r.s = Asleep(State, p, i, c) /\ r.status = NoResult
             /\ ~WrongFlags(c) /\ "NOWAIT" \notin c.flags /\ n = 0
    <3> DEFINE c1 == [cf[p] EXCEPT !.reason = "QUEUE_RECV", !.obj = i, !.arg = c]
               s == [State EXCEPT !.cf[p] = c1]
    <3>1. cf[p] \in Config /\ cf \in [Procs -> Config] /\ ke \in [Procs -> Process] /\ NoResult \in Results
      BY Parts DEF Results
    <3>2. c \in Waits /\ ~Copies(c)
      BY <2>1, <2>6, CallType DEF Waits, c
    <3>3. /\ c1 \in Config /\ c1.state = "NOT_WAITING" /\ c1.sigstop = cf[p].sigstop /\ ~c1.retry
          /\ c1.reason = "QUEUE_RECV" /\ c1.obj = i /\ c1.arg = c
      BY <2>1, <2>3, <3>1 DEF Config
    <3>4. Asleep(State, p, i, c) = s
      BY <2>2, <3>1 DEF State, Asleep
    <3> HIDE DEF c1
    <3>5. /\ s \in Session /\ s.cf[p] = c1 /\ s.ke = ke /\ s.crashed = FALSE /\ s.queues = queues
          /\ \A q \in Procs \ {p} : s.cf[q] = cf[q]
      <4>1. s \in Session
        BY <2>1, <3>3, Parts, Put
      <4> QED  BY <2>1, <2>2, <3>1, <4>1 DEF Session
    <3>6. Finish(s, p, NoResult)
      BY <2>4, <2>6, <3>4
    <3> HIDE DEF s
    <3>7. \A q \in Procs : Fits(s, q)
      <4> TAKE q \in Procs
      <4>1. CASE q = p  BY <2>1, <3>3, <3>5, <4>1 DEF Fits
      <4>2. CASE q # p  BY <3>5, <4>2, Parts DEF Fits
      <4> QED  BY <4>1, <4>2
    <3>8. Handled(s, p)
      BY <3>2, <3>3, <3>5, <3>7, Parts DEF Handled
    <3>9. ASSUME Served(cf, queues)
          PROVE  Served(s.cf, s.queues)
      <4>1. SUFFICES ASSUME NEW q \in Procs, s.cf[q].reason = "QUEUE_RECV"
                     PROVE  Enough(queues[s.cf[q].obj].items, s.cf, s.cf[q].obj, s.cf[q].arg)
        BY <3>5 DEF Served
      <4>2. CASE q = p
        <5>1. Mine(items, c) = {}
          BY <2>3, <2>6, <3>2, FoundFirst DEF n
        <5> QED  BY <3>3, <3>5, <4>2, <5>1, EnoughForNone DEF items
      <4>3. CASE q # p
        <5>1. s.cf[q] = cf[q] /\ cf[q].reason = "QUEUE_RECV"
          BY <3>5, <4>1, <4>3
        <5>2. StillWoken(cf, s.cf, cf[q].obj, Woken(cf, cf[q].obj))
          BY <2>1, <3>5 DEF StillWoken, Woken
        <5> QED  BY <3>9, <5>1, <5>2, Parts, EnoughKept DEF Served
      <4> QED  BY <4>2, <4>3
    <3> QED  BY <3>1, <3>6, <3>8, <3>9, FinishGoes
  <2>7. CASE r.s = Without(State, i, n) /\ r.status = items[n] /\ n # 0
    <3> DEFINE s == Without(State, i, n)
    <3>1. n \in 1 .. Len(items) /\ items[n] \in Messages
      BY <2>3, <2>7, FoundRange DEF n
    <3>2. /\ s \in Session /\ s.cf = cf /\ s.ke = ke /\ s.crashed = FALSE /\ s.queues = Taken(queues, i, n)
      BY <2>1, <3>1, TakenSession DEF items
    <3>3. Finish(s, p, items[n]) /\ items[n] \in Results
      BY <2>4, <2>7, <3>1 DEF Results
    <3> HIDE DEF s
    <3>4. Handled(s, p)
      BY <2>1, <3>1, <3>2, TakenQueues, Parts DEF Handled, Fits, items
    <3>5. Served(cf, queues) => Served(s.cf, s.queues)
      BY <2>1, <3>1, <3>2, ServedTaken DEF items
    <3> QED  BY <3>3, <3>4, <3>5, FinishGoes
  <2>8. ASSUME n # 0
        PROVE  items[n] \in Results
    BY <2>3, <2>8, FoundRange DEF n, Results
  <2>9. {"EINVAL", "ENOMSG", "E2BIG"} \subseteq Results
    BY DEF Results
  <2>10. Outcome(r, State, p, i, c, items, n)
    <3>1. State.queues[i].items = items
      BY <2>2 DEF items
    <3> QED  BY <3>1, Outcomes DEF r, n
  <2> QED  BY <2>5, <2>6, <2>7, <2>8, <2>9, <2>10 DEF Outcome
<1> QED  BY <1>1, <1>2

------------------------------------------------------------------------------
(* The second try                                                            *)

\* It has looked, and does not wait.
Looked(c, c0) == c.reason = "NOT_WAITING" /\ ~c.retry /\ c.state = c0.state /\ c.sigstop = c0.sigstop

\* The same queues are there.
SameSlots(x, y) == DOMAIN y = DOMAIN x /\ \A j \in DOMAIN x : y[j].valid = x[j].valid

\* Nobody is overlooked if the tracee p is through.
LeftServed(p, x) ==
  \A g : g[p].reason = "NOT_WAITING" /\ (\A q \in Procs \ {p} : g[q] = cf[q]) /\ Served(cf, queues) /\ Roomy => Served(g, x)

\* The session after a second try at a queue that is there.
LEMMA RetryLooks ==
  ASSUME Sound, NEW p \in Procs, cf[p].retry, cf[p].obj \in DOMAIN queues, queues[cf[p].obj].valid
  PROVE  \E c \in Config, x \in Seq(Queue) :
           /\ MsgrcvRetry(State, p) = [cf |-> [cf EXCEPT ![p] = c], ke |-> ke, crashed |-> crashed, queues |-> x]
           /\ Looked(c, cf[p]) /\ SameSlots(queues, x) /\ LeftServed(p, x)
<1> DEFINE c0 == cf[p]
           i == c0.obj
           a == c0.arg
           items == queues[i].items
           n == Found(items, a)
           r == DoMsgrcv(State, p, i, a)
           end(s, status) == [s EXCEPT !.cf[p].retry = FALSE, !.cf[p].reason = "NOT_WAITING", !.cf[p].status = status]
           c(status) == [c0 EXCEPT !.retry = FALSE, !.reason = "NOT_WAITING", !.status = status]
           made(status, x) == [cf |-> [cf EXCEPT ![p] = c(status)], ke |-> ke, crashed |-> crashed, queues |-> x]
<1>1. /\ cf \in [Procs -> Config] /\ queues \in Seq(Queue) /\ c0 \in Config /\ Proper(c0, ke[p])
  BY Parts
<1>2. c0.status = "EAGAIN" /\ c0.reason = "NOT_WAITING" /\ a \in Waits /\ c0.retry = TRUE
  BY <1>1 DEF Proper, Phase, Waiting, Ended, Config
<1>3. ~WrongFlags(a) /\ "NOWAIT" \notin a.flags /\ a \in AllCalls /\ ~Copies(a) /\ a.max \in Int
  BY <1>2, CallType DEF Waits
<1>4. items \in Seq(Messages) /\ i \in Int
  BY <1>1, WithItems
<1>5. MsgrcvRetry(State, p) = end(r.s, IF r.s.cf[p].reason # "NOT_WAITING" THEN "EINTR" ELSE r.status)
  BY <1>2 DEF MsgrcvRetry, State
<1>6. \A status \in Results : c(status) \in Config /\ Looked(c(status), c0)
  BY <1>1, <1>2 DEF Config, Looked
<1>7. ASSUME NEW f \in [Procs -> Config], NEW x, NEW status
      PROVE  end([cf |-> f, ke |-> ke, crashed |-> crashed, queues |-> x], status) =
               [cf |-> [f EXCEPT ![p] = [f[p] EXCEPT !.retry = FALSE, !.reason = "NOT_WAITING", !.status = status]],
                ke |-> ke, crashed |-> crashed, queues |-> x]
  <2> DEFINE t == [cf |-> f, ke |-> ke, crashed |-> crashed, queues |-> x]
             fs == [[[f EXCEPT ![p].retry = FALSE] EXCEPT ![p].reason = "NOT_WAITING"] EXCEPT ![p].status = status]
  <2>1. end(t, status) = [t EXCEPT !.cf = fs]
    OBVIOUS
  <2>2. fs = [f EXCEPT ![p] = [f[p] EXCEPT !.retry = FALSE, !.reason = "NOT_WAITING", !.status = status]]
    OBVIOUS
  <2> HIDE DEF fs, end
  <2> QED  BY <2>1, <2>2
<1>8. State = [cf |-> cf, ke |-> ke, crashed |-> crashed, queues |-> queues]
  BY DEF State
<1>9. SameSlots(queues, queues)
  BY DEF SameSlots
<1>10. Outcome(r, State, p, i, a, items, n)
  <2>1. State.queues[i].items = items
    BY <1>8
  <2> HIDE DEF State, i, a
  <2> QED  BY <2>1, Outcomes
<1> HIDE DEF r, State, n
<1>11. CASE r.s = Asleep(State, p, i, a) /\ n = 0
  <2>1. end(Asleep(State, p, i, a), "EINTR") = made("EINTR", queues) /\ Asleep(State, p, i, a).cf[p].reason = "QUEUE_RECV"
    <3> DEFINE d == [c0 EXCEPT !.reason = "QUEUE_RECV", !.obj = i, !.arg = a]
               g == [cf EXCEPT ![p] = d]
    <3>1. d \in Config /\ d.reason = "QUEUE_RECV"
      BY <1>1, <1>3, <1>4 DEF Config
    <3>2. [d EXCEPT !.retry = FALSE, !.reason = "NOT_WAITING", !.status = "EINTR"] = c("EINTR")
      BY <1>1 DEF Config
    <3>3. Asleep(State, p, i, a) = [cf |-> g, ke |-> ke, crashed |-> crashed, queues |-> queues]
      <4> DEFINE fs == [[[cf EXCEPT ![p].reason = "QUEUE_RECV"] EXCEPT ![p].obj = i] EXCEPT ![p].arg = a]
      <4>1. Asleep(State, p, i, a) = [cf |-> fs, ke |-> ke, crashed |-> crashed, queues |-> queues]
        <5> DEFINE t == [cf |-> cf, ke |-> ke, crashed |-> crashed, queues |-> queues]
        <5>1. Asleep(t, p, i, a) = [t EXCEPT !.cf = fs]
          <6> HIDE DEF a, i
          <6> QED  BY DEF Asleep
        <5>2. [t EXCEPT !.cf = fs] = [cf |-> fs, ke |-> ke, crashed |-> crashed, queues |-> queues]
          <6> HIDE DEF fs
          <6> QED  OBVIOUS
        <5> HIDE DEF t, fs
        <5> QED  BY <1>8, <5>1, <5>2 DEF t
      <4>2. fs = g
        BY <1>1
      <4> HIDE DEF fs, g
      <4> QED  BY <4>1, <4>2
    <3> HIDE DEF d, c, end
    <3>4. g[p] = d /\ \A e : [g EXCEPT ![p] = e] = [cf EXCEPT ![p] = e]
      BY <1>1, <3>1
    <3>5. g \in [Procs -> Config]
      BY <1>1, <3>1
    <3> HIDE DEF g
    <3>6. end([cf |-> g, ke |-> ke, crashed |-> crashed, queues |-> queues], "EINTR") =
            [cf |-> [g EXCEPT ![p] = [g[p] EXCEPT !.retry = FALSE, !.reason = "NOT_WAITING", !.status = "EINTR"]],
             ke |-> ke, crashed |-> crashed, queues |-> queues]
      BY <1>7, <3>5
    <3>7. [g EXCEPT ![p] = [g[p] EXCEPT !.retry = FALSE, !.reason = "NOT_WAITING", !.status = "EINTR"]] = [cf EXCEPT ![p] = c("EINTR")]
      BY <3>2, <3>4
    <3>8. Asleep(State, p, i, a).cf[p].reason = "QUEUE_RECV"
      BY <3>1, <3>3, <3>4
    <3> QED  BY <3>3, <3>6, <3>7, <3>8
  <2>2. MsgrcvRetry(State, p) = made("EINTR", queues)
    <3> HIDE DEF end, made
    <3> QED  BY <1>5, <1>11, <2>1
  <2>3. LeftServed(p, queues)
    BY <1>11, ServedMissed DEF LeftServed, n
  <2>4. "EINTR" \in Results
    BY DEF Results
  <2> QED  BY <1>1, <1>6, <1>9, <2>2, <2>3, <2>4
<1>12. CASE r.s = State /\ r.status = "E2BIG" /\ n # 0 /\ Size[items[n]] > a.max /\ "NOERROR" \notin a.flags
  <2>1. MsgrcvRetry(State, p) = made("E2BIG", queues)
    <3> HIDE DEF end
    <3>1. State.cf[p].reason = "NOT_WAITING" /\ end(State, "E2BIG") = made("E2BIG", queues)
      BY <1>1, <1>2, <1>7, <1>8
    <3> HIDE DEF made
    <3> QED  BY <1>5, <1>12, <3>1
  <2>2. n \in 1 .. Len(items) /\ items[n] \in Messages /\ n \in Mine(items, a)
    BY <1>3, <1>4, <1>12, FoundRange, FoundFirst DEF n
  <2>3. Accepted(a, items[n]) /\ items[n] \in Range(items)
    BY <2>2 DEF Mine, Range
  <2>4. Size[items[n]] \in Nat
    BY <2>2, MsgAssumption
  <2>5. ~Roomy
    BY <1>3, <1>12, <2>3, <2>4 DEF Roomy
  <2>6. "E2BIG" \in Results
    BY DEF Results
  <2> QED  BY <1>1, <1>6, <1>9, <2>1, <2>5, <2>6 DEF LeftServed
<1>13. CASE r.s = Without(State, i, n) /\ r.status = items[n] /\ n # 0
  <2>1. n \in 1 .. Len(items) /\ items[n] \in Messages
    BY <1>4, <1>13, FoundRange DEF n
  <2>2. Without(State, i, n) = [cf |-> cf, ke |-> ke, crashed |-> crashed, queues |-> Taken(queues, i, n)]
    BY <2>1, TakenSession
  <2>3. MsgrcvRetry(State, p) = made(items[n], Taken(queues, i, n))
    <3>1. Without(State, i, n).cf[p].reason = "NOT_WAITING"
      BY <1>2, <2>2
    <3> HIDE DEF end
    <3>2. end(Without(State, i, n), items[n]) = made(items[n], Taken(queues, i, n))
      BY <1>1, <1>7, <2>2
    <3> HIDE DEF made
    <3> QED  BY <1>5, <1>13, <3>1, <3>2
  <2>4. Taken(queues, i, n) \in Seq(Queue) /\ SameSlots(queues, Taken(queues, i, n))
    BY <2>1, TakenQueues DEF SameSlots
  <2>5. LeftServed(p, Taken(queues, i, n))
    BY <2>1, ServedTaken DEF LeftServed, n
  <2>6. items[n] \in Results
    BY <2>1 DEF Results
  <2> QED  BY <1>6, <2>3, <2>4, <2>5, <2>6
<1> QED  BY <1>3, <1>10, <1>11, <1>12, <1>13 DEF Outcome

\* A receiver that was woken is through.
LEMMA RetryGoes ==
  ASSUME Sound, NEW p \in Procs, NEW c \in Config, NEW k \in Process, NEW x \in Seq(Queue),
         Proper(c, k), c.reason = "NOT_WAITING", SameSlots(queues, x), LeftServed(p, x),
         cf' = [cf EXCEPT ![p] = c], ke' = [ke EXCEPT ![p] = k], crashed' = crashed, queues' = x
  PROVE  Goes
<1>1. cf \in [Procs -> Config] /\ ke \in [Procs -> Process] /\ crashed \in BOOLEAN
  BY Parts
<1>2. State' = [cf |-> cf', ke |-> ke', crashed |-> crashed, queues |-> x]
  BY DEF State
<1>3. cf' \in [Procs -> Config] /\ ke' \in [Procs -> Process]
  BY <1>1
<1>4. State' \in Session
  BY <1>1, <1>2, <1>3 DEF Session
<1>5. \A q \in Procs : cf'[q] = (IF q = p THEN c ELSE cf[q]) /\ ke'[q] = (IF q = p THEN k ELSE ke[q])
  BY <1>1
<1>6. ASSUME NEW q \in Procs
      PROVE  Proper(cf'[q], ke'[q]) /\ Fits(State, q)'
  <2>1. CASE q = p  BY <1>2, <1>5, <2>1 DEF Fits
  <2>2. CASE q # p  BY <1>2, <1>5, <2>2, Parts DEF Fits, SameSlots
  <2> QED  BY <2>1, <2>2
<1>7. Sound'
  BY <1>4, <1>6 DEF Sound
<1>8. Served(cf, queues) /\ Conditions => Served(cf', x)
  BY <1>5 DEF LeftServed, Conditions
<1> QED  BY <1>7, <1>8 DEF Goes

\* The queue is gone: the assertion fails.
LEMMA RetryFails ==
  ASSUME Sound, NEW p \in Procs, cf[p].retry, ~(cf[p].obj \in DOMAIN queues /\ queues[cf[p].obj].valid),
         cf' = cf, ke' = ke, crashed' = TRUE, queues' = queues
  PROVE  Goes
<1>1. cf \in [Procs -> Config] /\ ke \in [Procs -> Process] /\ queues \in Seq(Queue)
  BY Parts
<1>2. State' = [cf |-> cf, ke |-> ke, crashed |-> TRUE, queues |-> queues]
  BY DEF State
<1>3. State' \in Session
  BY <1>1, <1>2 DEF Session
<1>4. \A q \in Procs : Proper(cf'[q], ke'[q]) /\ Fits(State, q)'
  BY <1>2, Parts DEF Fits
<1>5. Sound'
  BY <1>3, <1>4 DEF Sound
<1>6. ~QueuesStay
  BY DEF QueuesStay
<1> QED  BY <1>5, <1>6 DEF Goes

LEMMA RetryFailed ==
  ASSUME Sound, NEW p \in Procs, cf[p].retry, ~(cf[p].obj \in DOMAIN queues /\ queues[cf[p].obj].valid)
  PROVE  MsgrcvRetry(State, p) = [cf |-> cf, ke |-> ke, crashed |-> TRUE, queues |-> queues]
<1>1. cf[p].status = "EAGAIN"
  BY Parts DEF Proper
<1> QED  BY <1>1 DEF MsgrcvRetry, State, Failed

LEMMA RetryEnterStep ==
  ASSUME Sound, NEW p \in Procs, RetryAtEnter(p)
  PROVE  Goes
<1> DEFINE k == ke[p]
           i == cf[p].obj
           s == MsgrcvRetry(State, p)
<1>1. k \in Process /\ Proper(cf[p], k) /\ ke \in [Procs -> Process] /\ cf \in [Procs -> Config] /\ cf[p].retry /\ crashed = FALSE
  BY Parts DEF RetryAtEnter, Handling
<1>2. k.pos = "sysenter" /\ cf[p].state = "RESTARTED_INTO_PPOLL_CANCELED"
  BY <1>1 DEF RetryAtEnter, Handling, Proper, Phase, Ended
<1>3. Update(IF s.crashed THEN s ELSE EnterStage(s, p))
  BY <1>2 DEF RetryAtEnter
<1> HIDE DEF s
<1>4. CASE ~(i \in DOMAIN queues /\ queues[i].valid)
  <2>1. s = [cf |-> cf, ke |-> ke, crashed |-> TRUE, queues |-> queues]
    BY <1>1, <1>4, RetryFailed DEF s
  <2>2. cf' = cf /\ ke' = ke /\ crashed' = TRUE /\ queues' = queues
    BY <1>3, <2>1 DEF Update, Become
  <2> QED  BY <1>1, <1>4, <2>2, RetryFails
<1>5. CASE i \in DOMAIN queues /\ queues[i].valid
  <2>1. PICK c \in Config, x \in Seq(Queue) :
          /\ s = [cf |-> [cf EXCEPT ![p] = c], ke |-> ke, crashed |-> crashed, queues |-> x]
          /\ Looked(c, cf[p]) /\ SameSlots(queues, x) /\ LeftServed(p, x)
    BY <1>1, <1>5, RetryLooks DEF s
  <2> DEFINE c1 == Over(c)
             k1 == [k EXCEPT !.pos = "sysexit", !.ret = c.status]
  <2>2. /\ s.cf[p] = c /\ s.ke = ke /\ s.cf = [cf EXCEPT ![p] = c] /\ ~s.crashed /\ s.queues = x /\ s.crashed = crashed
        /\ DOMAIN s = {"cf", "ke", "crashed", "queues"}
    BY <1>1, <2>1
  <2>3. c.state = "RESTARTED_INTO_PPOLL_CANCELED" /\ c.reason = "NOT_WAITING" /\ ~c.retry /\ c.sigstop = cf[p].sigstop
    BY <1>2, <2>1 DEF Looked
  <2>4. EnterStage(s, p) = [s EXCEPT !.cf[p] = Over(@), !.ke[p].pos = "sysexit", !.ke[p].ret = c.status]
    BY <1>2, <2>2, <2>3 DEF EnterStage
  <2>5. cf' = [cf EXCEPT ![p] = c1] /\ ke' = [ke EXCEPT ![p] = k1] /\ crashed' = crashed /\ queues' = x
    <3> DEFINE e == [s EXCEPT !.cf[p] = Over(@), !.ke[p].pos = "sysexit", !.ke[p].ret = c.status]
    <3>1. e.cf = [cf EXCEPT ![p] = c1] /\ e.ke = [ke EXCEPT ![p] = k1] /\ e.crashed = crashed /\ e.queues = x
      <4> HIDE DEF c1
      <4>1. e.cf = [s.cf EXCEPT ![p] = Over(c)] /\ e.ke = [ke EXCEPT ![p] = k1] /\ e.crashed = crashed /\ e.queues = x
        BY <1>1, <2>2
      <4> HIDE DEF e, k1
      <4> QED  BY <1>1, <2>2, <4>1 DEF c1
    <3>2. cf' = e.cf /\ ke' = e.ke /\ crashed' = e.crashed /\ queues' = e.queues
      BY <1>3, <2>2, <2>4 DEF Update, Become
    <3> HIDE DEF e, c1, k1
    <3> QED  BY <3>1, <3>2
  <2>6. c1 \in Config /\ c1.reason = "NOT_WAITING" /\ c1.state = "NOT_WAITING" /\ c1.sigstop = cf[p].sigstop /\ ~c1.retry
    BY <2>3, Forgets
  <2>7. k1 \in Process /\ k1.pos = "sysexit" /\ k1.sigstop = k.sigstop
    BY <1>1 DEF Config, Process, Positions
  <2> HIDE DEF c1, k1
  <2>8. Phase(c1, k1)
    BY <1>1, <1>2, <2>6, <2>7 DEF Proper, Phase, Waiting
  <2>9. Proper(c1, k1)
    BY <2>6, <2>8 DEF Proper
  <2> QED  BY <2>1, <2>5, <2>6, <2>7, <2>9, RetryGoes
<1> QED  BY <1>4, <1>5

LEMMA RetryExitStep ==
  ASSUME Sound, NEW p \in Procs, RetryAtExit(p)
  PROVE  Goes
<1> DEFINE k == ke[p]
           i == cf[p].obj
           s == MsgrcvRetry(State, p)
<1>1. k \in Process /\ Proper(cf[p], k) /\ ke \in [Procs -> Process] /\ cf \in [Procs -> Config] /\ cf[p].retry /\ crashed = FALSE
  BY Parts DEF RetryAtExit
<1>2. k.pos = "sysexit" /\ cf[p].state = "SIGNALED_PPOLL"
  BY <1>1 DEF RetryAtExit, Proper, Phase, Ended
<1>3. Update(IF s.crashed THEN s ELSE ExitStage(s, p))
  BY DEF RetryAtExit
<1> HIDE DEF s
<1>4. CASE ~(i \in DOMAIN queues /\ queues[i].valid)
  <2>1. s = [cf |-> cf, ke |-> ke, crashed |-> TRUE, queues |-> queues]
    BY <1>1, <1>4, RetryFailed DEF s
  <2>2. cf' = cf /\ ke' = ke /\ crashed' = TRUE /\ queues' = queues
    BY <1>3, <2>1 DEF Update, Become
  <2> QED  BY <1>1, <1>4, <2>2, RetryFails
<1>5. CASE i \in DOMAIN queues /\ queues[i].valid
  <2>1. PICK c \in Config, x \in Seq(Queue) :
          /\ s = [cf |-> [cf EXCEPT ![p] = c], ke |-> ke, crashed |-> crashed, queues |-> x]
          /\ Looked(c, cf[p]) /\ SameSlots(queues, x) /\ LeftServed(p, x)
    BY <1>1, <1>5, RetryLooks DEF s
  <2> DEFINE c1 == Over(c)
             k1 == [k EXCEPT !.pos = "user", !.call = NoCall, !.ret = c.status]
             over == [s EXCEPT !.ke[p].pos = "user", !.ke[p].call = NoCall, !.cf[p] = Over(@)]
  <2>2. /\ s.cf[p] = c /\ s.ke = ke /\ s.cf = [cf EXCEPT ![p] = c] /\ ~s.crashed /\ s.queues = x /\ s.crashed = crashed
        /\ DOMAIN s = {"cf", "ke", "crashed", "queues"}
    BY <1>1, <2>1
  <2>3. c.state = "SIGNALED_PPOLL" /\ c.reason = "NOT_WAITING" /\ ~c.retry /\ c.sigstop = cf[p].sigstop
    BY <1>2, <2>1 DEF Looked
  <2>4. ExitStage(s, p) = [over EXCEPT !.ke[p].ret = c.status]
    BY <2>2, <2>3 DEF ExitStage
  <2>5. cf' = [cf EXCEPT ![p] = c1] /\ ke' = [ke EXCEPT ![p] = k1] /\ crashed' = crashed /\ queues' = x
    <3>1. /\ over.cf = [s.cf EXCEPT ![p] = Over(c)] /\ over.ke = [ke EXCEPT ![p] = [k EXCEPT !.pos = "user", !.call = NoCall]]
          /\ over.crashed = crashed /\ over.queues = x /\ DOMAIN over = {"cf", "ke", "crashed", "queues"}
      <4> HIDE DEF c1
      <4> QED  BY <1>1, <2>2
    <3> HIDE DEF over
    <3>2. cf' = over.cf /\ ke' = [over.ke EXCEPT ![p].ret = c.status] /\ crashed' = over.crashed /\ queues' = over.queues
      BY <1>3, <2>2, <2>4, <3>1 DEF Update, Become
    <3>3. cf' = [cf EXCEPT ![p] = c1]
      <4> HIDE DEF c1
      <4> QED  BY <1>1, <2>2, <3>1, <3>2 DEF c1
    <3>4. ke' = [ke EXCEPT ![p] = k1]
      BY <1>1, <3>1, <3>2
    <3> QED  BY <3>1, <3>2, <3>3, <3>4
  <2>6. c1 \in Config /\ c1.reason = "NOT_WAITING" /\ c1.state = "NOT_WAITING" /\ c1.sigstop = cf[p].sigstop /\ ~c1.retry
    BY <2>3, Forgets
  <2>7. k1 \in Process /\ k1.pos = "user" /\ k1.sigstop = k.sigstop
    BY <1>1 DEF Config, Process, Positions, AllCalls
  <2> HIDE DEF c1, k1
  <2>8. Phase(c1, k1)
    BY <1>1, <1>2, <2>6, <2>7 DEF Proper, Phase, Waiting
  <2>9. Proper(c1, k1)
    BY <2>6, <2>8 DEF Proper
  <2> QED  BY <2>1, <2>5, <2>6, <2>7, <2>9, RetryGoes
<1> QED  BY <1>4, <1>5

------------------------------------------------------------------------------
(* The specification                                                         *)

LEMMA Starts == Init => Sound /\ Served(cf, queues) /\ ~crashed
<1> SUFFICES ASSUME Init PROVE Sound /\ Served(cf, queues) /\ ~crashed
  OBVIOUS
<1>1. cf = [p \in Procs |-> NewConfig] /\ ke = [p \in Procs |-> NewProcess] /\ crashed = FALSE /\ queues = <<>>
  BY DEF Init, WaitInit
<1>2. NewConfig \in Config /\ NewProcess \in Process
  BY DEF NewConfig, NewProcess, Config, Process, States, Positions, Results, AllCalls, NoArg
<1>3. /\ NewConfig.reason = "NOT_WAITING" /\ NewConfig.state = "NOT_WAITING" /\ ~NewConfig.retry
      /\ NewProcess.pos = "user" /\ ~NewProcess.sigstop
  BY DEF NewConfig, NewProcess
<1>4. Proper(NewConfig, NewProcess)
  BY <1>3 DEF Proper, Phase, Waiting
<1>5. State \in Session
  <2>1. cf \in [Procs -> Config] /\ ke \in [Procs -> Process] /\ queues \in Seq(Queue)
    BY <1>1, <1>2
  <2> QED  BY <1>1, <2>1 DEF State, Session
<1>6. \A p \in Procs : Proper(cf[p], ke[p]) /\ Fits(State, p) /\ cf[p].reason = "NOT_WAITING"
  BY <1>1, <1>3, <1>4 DEF Fits, State
<1> QED  BY <1>1, <1>5, <1>6 DEF Sound, Served

\* Every step goes.
LEMMA Steady == Sound /\ [Next]_vars => Goes
<1> SUFFICES ASSUME Sound, [Next]_vars PROVE Goes
  OBVIOUS
<1>1. CASE UNCHANGED vars
  <2>1. cf' = cf /\ ke' = ke /\ crashed' = crashed /\ queues' = queues
    BY <1>1 DEF vars, waitVars
  <2>2. Sound'
    BY <2>1 DEF Sound, Fits, State
  <2> QED  BY <2>1, <2>2 DEF Goes
<1>2. ASSUME NEW p \in Procs, HandleCall(p)
      PROVE  Goes
  BY <1>2, MsgrcvStep, MsgsndStep, RmidStep, MsggetStep DEF HandleCall
<1>3. ASSUME NEW p \in Procs, WaitNext(p), UNCHANGED queues
      PROVE  Goes
  BY <1>3, EnterStep, ExitStep, StopStep, KernelStep DEF WaitNext, WaitSteps
<1>4. ASSUME NEW p \in Procs, NEW c \in Programs[p], Call(p, c), UNCHANGED queues
      PROVE  Goes
  BY <1>4, KernelStep
<1> QED  BY <1>1, <1>2, <1>3, <1>4, RetryEnterStep, RetryExitStep DEF Next

LEMMA SoundWaits ==
  /\ Sound => TypeOK /\ ReceiversHaveQueues
  /\ Sound /\ Served(cf, queues) => NobodyOverlooked
<1>1. ASSUME Sound
      PROVE  TypeOK /\ ReceiversHaveQueues
  <2>1. queues \in Seq(Queue)
    BY <1>1 DEF Sound, Session, State
  <2>2. ASSUME NEW i \in DOMAIN queues
        PROVE  queues[i].valid \in BOOLEAN /\ queues[i].gen \in -HalfGen .. HalfGen - 1 /\ queues[i].items \in Seq(Messages)
    <3>1. queues[i] \in Queue
      BY <2>1, ElementOfSeq
    <3> QED  BY <3>1 DEF Queue
  <2>3. ASSUME NEW p \in Procs
        PROVE  /\ cf[p].reason \in {"NOT_WAITING", "QUEUE_RECV"} /\ cf[p].retry \in BOOLEAN
               /\ cf[p].reason # "NOT_WAITING" => cf[p].state \in {"RESTARTED_INTO_PPOLL", "ENTERED_PPOLL"}
               /\ cf[p].retry => cf[p].state \in {"RESTARTED_INTO_PPOLL_CANCELED", "SIGNALED_PPOLL"}
    BY <1>1, Parts DEF Config, Proper, Phase, Waiting, Ended
  <2> QED  BY <1>1, <2>2, <2>3, Parts DEF TypeOK, ReceiversHaveQueues
<1>2. ASSUME Sound, Served(cf, queues)
      PROVE  NobodyOverlooked
  <2>1. SUFFICES ASSUME NEW p \in Procs, cf[p].reason = "QUEUE_RECV",
                        NEW m \in Range(queues[cf[p].obj].items), Accepted(cf[p].arg, m)
                 PROVE  \E q \in Procs : cf[q].retry /\ cf[q].obj = cf[p].obj /\ Accepted(cf[q].arg, m)
    BY DEF NobodyOverlooked
  <2> DEFINE i == cf[p].obj
             c == cf[p].arg
             items == queues[i].items
  <2>2. items \in Seq(Messages) /\ Enough(items, cf, i, c)
    BY <1>2, <2>1, Parts DEF Served
  <2>3. PICK n \in DOMAIN items : items[n] = m
    BY DEF Range
  <2> HIDE DEF i, c, items
  <2>4. m \in Messages /\ n \in Mine(items, c)
    BY <2>1, <2>2, <2>3, ElementOfSeq DEF Mine, c
  <2>5. CASE Cardinality(Mine(items, c)) <= Cardinality(Fellows(cf, i, c))
    <3>1. Cardinality(Mine(items, c)) # 0 /\ Cardinality(Mine(items, c)) \in Nat
      BY <2>2, <2>4, MineType, FS_EmptySet
    <3>2. Cardinality(Fellows(cf, i, c)) # 0 /\ IsFiniteSet(Fellows(cf, i, c))
      BY <2>5, <3>1, FellowsType
    <3>3. Fellows(cf, i, c) # {}
      BY <3>2, FS_EmptySet
    <3> QED  BY <2>1, <2>4, <3>3 DEF Fellows, Woken, Same, i, c
  <2>6. ASSUME NEW q \in Woken(cf, i), Mine(items, c) = {Found(items, cf[q].arg)}
        PROVE  \E r \in Procs : cf[r].retry /\ cf[r].obj = cf[p].obj /\ Accepted(cf[r].arg, m)
    <3>1. n = Found(items, cf[q].arg) /\ ~Copies(cf[q].arg)
      BY <1>2, <2>4, <2>6, WokenCopyNothing
    <3>2. n \in Mine(items, cf[q].arg)
      <4>1. n # 0
        BY <2>2, <2>4, MineType
      <4> QED  BY <2>2, <3>1, <4>1, FoundFirst
    <3> QED  BY <2>3, <3>2 DEF Mine, Woken, i
  <2> QED  BY <2>2, <2>5, <2>6 DEF Enough
<1> QED  BY <1>1, <1>2

\* Who waits for a message, waits at a queue that exists, and only who was woken is to look again: a removal wakes all the
\* receivers of the queue, and a new queue finds nobody in the slot it takes (sysvipc_msg.c:52-93, 143-164, 285-303).
THEOREM ReceiversInPlace == Spec => [](TypeOK /\ ReceiversHaveQueues)
<1>1. Init => Sound
  BY Starts
<1>2. Sound /\ [Next]_vars => Sound'
  BY Steady DEF Goes
<1>3. Sound => TypeOK /\ ReceiversHaveQueues
  BY SoundWaits
<1> QED  BY <1>1, <1>2, <1>3, PTL DEF Spec

\* As long as no queue is removed between the wake-up of a receiver and its second try, no assertion fails: "assert(queue->valid)"
\* (sysvipc_msg.c:259) is the only one that can, those of the wake-up and of the three stages of the extension
\* (sysvipc.c:30-66, 225-300, 340-370) hold in any case.
THEOREM OnlyRemovalsFail == Spec /\ []QueuesStay => []AssertionsHold
<1>1. Init => Sound /\ ~crashed
  BY Starts
<1>2. Sound /\ ~crashed /\ QueuesStay /\ [Next]_vars => Sound' /\ ~crashed'
  BY Steady DEF Goes
<1>3. Sound /\ ~crashed => AssertionsHold
  BY DEF AssertionsHold
<1> QED  BY <1>1, <1>2, <1>3, PTL DEF Spec

\* One wake-up for each message is enough (sysvipc_msg.c:143, "Deliver to waiting msgrcv"): nobody sleeps beside a message it
\* accepts that nobody was woken for.  The invariant counts the receivers that were woken: as many that accept the same as
\* there are such messages.  It needs receivers that live until they look again and have room for what they find, and, when
\* three of them meet at a queue, that those who share a message accept the same ones.
THEOREM OneWakeupIsEnough == Spec /\ [](Alike /\ Roomy /\ Survive) => []WaitsAreSound
<1>1. Init => Sound /\ Served(cf, queues)
  BY Starts
<1>2. Sound /\ Served(cf, queues) /\ (Alike /\ Roomy /\ Survive) /\ [Next]_vars => Sound' /\ Served(cf, queues)'
  BY Steady DEF Goes, Conditions
<1>3. Sound /\ Served(cf, queues) => WaitsAreSound
  BY SoundWaits DEF WaitsAreSound
<1> QED  BY <1>1, <1>2, <1>3, PTL DEF Spec

==============================================================================
