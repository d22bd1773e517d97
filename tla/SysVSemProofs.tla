---------------------------- MODULE SysVSemProofs ----------------------------
(* Theorems about SysVSem, for any number of tracees, sets and calls: who     *)
(* waits, waits for a set that exists, and, when calls either take or give,   *)
(* for something that is not there yet.                                       *)
EXTENDS SysVSem, SequenceTheorems, WellFoundedInduction, TLAPS

------------------------------------------------------------------------------
(* The invariant                                                             *)

States == {"NOT_WAITING", "RESTARTED_INTO_PPOLL", "RESTARTED_INTO_PPOLL_CANCELED", "ENTERED_PPOLL", "SIGNALED_PPOLL",
           "ENTERED_GETPID"}
Waiting == {"RESTARTED_INTO_PPOLL", "ENTERED_PPOLL"}
Positions == {"user", "sysenter", "sigsys", "again", "ppoll", "sysexit", "sigstop", "stopped", "dead", "gone"}
Sembuf == [num : Int, op : Int, nowait : BOOLEAN]
Values == Seq(0 .. MaxVal)
AllCalls == {NoCall} \cup UNION {Programs[p] : p \in Procs}

Statuses == {"OK", "EAGAIN", "ERANGE", Wait}
Results == Statuses \cup {NoResult, "EINVAL", "EFBIG", "EIDRM", "EINTR", "ENOENT", "EEXIST", "ENOSPC"}

Config == [reason : {"NOT_WAITING", "SEMOP"}, state : States, status : Results, obj : Int, arg : Seq(Sembuf),
           retry : {FALSE}, sigstop : {"IGNORED", "ALLOWED"}]
Process == [pos : Positions, call : AllCalls, ret : Results, sigstop : BOOLEAN]
Set == [key : {c.key : c \in AllCalls}, gen : -HalfGen .. HalfGen - 1, valid : BOOLEAN, vals : Values]

Session == [cf : [Procs -> Config], ke : [Procs -> Process], crashed : BOOLEAN, sems : Seq(Set)]

\* Where the kernel has a tracee, and how far its wait is.
Phase(c, k) ==
  /\ c.reason # "NOT_WAITING" <=> c.state \in Waiting
  /\ k.pos \in {"user", "sigsys", "sigstop", "gone"} => c.state = "NOT_WAITING"
  /\ k.pos = "sysenter" => c.state \in {"NOT_WAITING", "RESTARTED_INTO_PPOLL", "RESTARTED_INTO_PPOLL_CANCELED"}
  /\ k.pos = "again" => c.state \in {"RESTARTED_INTO_PPOLL", "RESTARTED_INTO_PPOLL_CANCELED"}
  /\ k.pos = "ppoll" => c.state \in {"ENTERED_PPOLL", "SIGNALED_PPOLL"}
  /\ k.pos = "sysexit" => c.state \in {"NOT_WAITING", "ENTERED_PPOLL", "SIGNALED_PPOLL", "ENTERED_GETPID"}
  /\ k.pos # "stopped"
  /\ k.sigstop \/ k.pos = "sigstop" => c.sigstop = "IGNORED"
  /\ c.state = "SIGNALED_PPOLL" /\ k.pos = "ppoll" => k.sigstop
  /\ k.sigstop => k.pos \in {"ppoll", "sysexit", "user"}

\* A tracee that waits has a set, and operations on its semaphores.
Fits(s, q) ==
  s.cf[q].reason = "SEMOP" =>
    /\ s.cf[q].obj \in DOMAIN s.sems /\ s.sems[s.cf[q].obj].valid
    /\ \A o \in Range(s.cf[q].arg) : o.num \in DOMAIN s.sems[s.cf[q].obj].vals

Sound ==
  /\ State \in Session /\ ~crashed
  /\ \A p \in Procs : Phase(cf[p], ke[p]) /\ Fits(State, p) /\ (cf[p].reason = "SEMOP" => cf[p].arg # NoArg)

Blocked(s, q) ==
  s.cf[q].reason = "SEMOP" => Takes(s.cf[q].arg) /\ SemCheck(s.sems[s.cf[q].obj].vals, s.cf[q].arg).status = Wait

------------------------------------------------------------------------------
(* Passes over a sequence                                                    *)

\* A set of natural numbers has a least one.
LEMMA Least ==
  ASSUME NEW S \in SUBSET Nat, S # {}
  PROVE  \E x \in S : \A y \in S : x <= y
<1>1. IsWellFoundedOn(OpToRel(<, Nat), Nat)
  BY NatLessThanWellFounded
<1>2. PICK x \in S : \A y \in S : ~(<<y, x>> \in OpToRel(<, Nat))
  BY <1>1, WFMin
<1>3. \A y \in S : ~(y < x)
  BY <1>2 DEF OpToRel
<1>4. \A y \in S : x <= y
  BY <1>3
<1> QED  BY <1>4

\* Induction along the passes of a sequence.
LEMMA Counting ==
  ASSUME NEW N \in Nat, NEW P \in SUBSET Nat, 0 \in P, \A n \in 1 .. N : n - 1 \in P => n \in P
  PROVE  \A n \in 0 .. N : n \in P
<1> DEFINE Bad == (0 .. N) \ P
<1>1. SUFFICES ASSUME Bad # {} PROVE FALSE
  OBVIOUS
<1>2. PICK x \in Bad : \A y \in Bad : x <= y
  <2>1. Bad \in SUBSET Nat
    OBVIOUS
  <2> HIDE DEF Bad
  <2> QED  BY <1>1, <2>1, Least
<1>3. x \in 1 .. N /\ x - 1 \in 0 .. N /\ ~(x <= x - 1)
  BY <1>2
<1>4. x - 1 \in P
  BY <1>2, <1>3
<1> QED  BY <1>2, <1>3, <1>4

\* What Steps describes exists.
Follows(f, S, s, N, G) == f \in [0 .. N -> S] /\ f[0] = s /\ \A n \in 1 .. N : f[n] = G[<<n, f[n - 1]>>]

LEMMA Recursion ==
  ASSUME NEW S, NEW s \in S, NEW N \in Nat, NEW G \in [(1 .. N) \X S -> S]
  PROVE  \E f : Follows(f, S, s, N, G)
<1> DEFINE Good(m) == \E f \in [0 .. m -> S] : f[0] = s /\ \A n \in 1 .. m : f[n] = G[<<n, f[n - 1]>>]
           P == {m \in Nat : Good(m)}
<1>1. ASSUME NEW m \in 1 .. N, Good(m - 1)
      PROVE  Good(m)
  <2>1. PICK f \in [0 .. m - 1 -> S] : f[0] = s /\ \A n \in 1 .. m - 1 : f[n] = G[<<n, f[n - 1]>>]
    BY <1>1
  <2>2. m - 1 \in 0 .. m - 1 /\ 0 \in 0 .. m - 1 /\ m # 0 /\ m \in 0 .. m
    BY <1>1
  <2>3. f[m - 1] \in S
    BY <2>1, <2>2
  <2>4. G[<<m, f[m - 1]>>] \in S
    <3>1. <<m, f[m - 1]>> \in (1 .. N) \X S
      BY <2>3
    <3> QED  BY <3>1
  <2> DEFINE g == [n \in 0 .. m |-> IF n = m THEN G[<<m, f[m - 1]>>] ELSE f[n]]
  <2>5. \A n \in 0 .. m : n # m => n \in 0 .. m - 1
    BY <1>1
  <2>6. g \in [0 .. m -> S]
    BY <2>1, <2>4, <2>5
  <2>7. g[0] = s
    BY <2>1, <2>2
  <2>8. \A n \in 1 .. m : g[n] = G[<<n, g[n - 1]>>]
    <3> TAKE n \in 1 .. m
    <3>1. n \in 0 .. m /\ n - 1 \in 0 .. m /\ n - 1 # m
      BY <1>1
    <3>2. g[n - 1] = f[n - 1]
      BY <3>1
    <3>3. CASE n = m  BY <3>1, <3>2, <3>3
    <3>4. CASE n # m
      <4>1. n \in 1 .. m - 1 /\ g[n] = f[n]
        BY <3>1, <3>4, <1>1
      <4> QED  BY <2>1, <3>2, <4>1
    <3> QED  BY <3>3, <3>4
  <2> QED  BY <2>6, <2>7, <2>8
<1>2. Good(0)
  <2> DEFINE g == [n \in 0 .. 0 |-> s]
  <2>1. g \in [0 .. 0 -> S] /\ g[0] = s /\ 1 .. 0 = {}
    OBVIOUS
  <2> QED  BY <2>1
<1>3. 0 \in P /\ P \in SUBSET Nat
  BY <1>2
<1>4. ASSUME NEW n \in 1 .. N, n - 1 \in P
      PROVE  n \in P
  BY <1>1, <1>4
<1>5. \A n \in 0 .. N : n \in P
  <2> HIDE DEF P
  <2> QED  BY <1>3, <1>4, Counting
<1> QED  BY <1>5 DEF Follows

LEMMA Lists ==
  /\ Order \in Seq(Procs) /\ Len(Order) \in Nat
  /\ \A n \in 1 .. Len(Order) : Order[n] \in Procs
  /\ \A q \in Procs : \E n \in 1 .. Len(Order) : q = Order[n]
  BY WaitAssumption DEF Range

------------------------------------------------------------------------------
(* sysvipc_sem_check()                                                       *)

Like(vals) == {v \in Values : DOMAIN v = DOMAIN vals}
Checks(vals) == [status : Statuses, vals : Like(vals)]
Inside(sops, vals) == \A o \in Range(sops) : o.num \in DOMAIN vals

LEMMA Constants == MaxVal \in Nat /\ HalfGen \in Nat \ {0} /\ MaxNsems \in Nat
  BY SemAssumption

LEMMA ValueType ==
  ASSUME NEW v \in Values, NEW n \in DOMAIN v
  PROVE  v[n] \in 0 .. MaxVal
<1>1. Len(v) \in Nat /\ n \in 1 .. Len(v)
  BY DEF Values
<1> QED  BY <1>1, ElementOfSeq DEF Values

LEMMA PutValue ==
  ASSUME NEW v \in Values, NEW n \in DOMAIN v, NEW x \in 0 .. MaxVal
  PROVE  [v EXCEPT ![n] = x] \in Like(v)
  BY Constants DEF Values, Like

LEMMA CheckOpType ==
  ASSUME NEW vals \in Values, NEW acc \in Checks(vals), NEW o \in Sembuf, o.num \in DOMAIN vals
  PROVE  CheckOp(acc, o) \in Checks(vals)
<1>1. acc.vals \in Values /\ DOMAIN acc.vals = DOMAIN vals /\ acc.status \in Statuses
  BY DEF Checks, Like
<1>2. acc.vals[o.num] \in 0 .. MaxVal /\ o.op \in Int /\ o.nowait \in BOOLEAN
  <2>2. o.op \in Int /\ o.nowait \in BOOLEAN
    BY DEF Sembuf
  <2>3. acc.vals[o.num] \in 0 .. MaxVal
    BY <1>1, ValueType
  <2> QED  BY <2>2, <2>3
<1>3. \A st \in Statuses : [acc EXCEPT !.status = st] \in Checks(vals)
  BY DEF Checks
<1>4. \A x \in 0 .. MaxVal : [acc EXCEPT !.vals[o.num] = x] \in Checks(vals)
  <2> TAKE x \in 0 .. MaxVal
  <2>1. [acc.vals EXCEPT ![o.num] = x] \in Like(vals)
    BY <1>1, PutValue DEF Like
  <2> QED  BY <2>1 DEF Checks
<1> DEFINE value == acc.vals[o.num] + o.op
           blocked == IF o.nowait THEN "EAGAIN" ELSE Wait
<1>5. blocked \in Statuses /\ "ERANGE" \in Statuses
  BY DEF Statuses
<1>6. ~(value < 0) /\ ~(value > MaxVal) => value \in 0 .. MaxVal
  BY <1>2, Constants
<1>7. CASE acc.status # "OK"
  BY <1>7 DEF CheckOp
<1>8. CASE acc.status = "OK" /\ o.op = 0
  BY <1>3, <1>5, <1>8 DEF CheckOp
<1>9. CASE acc.status = "OK" /\ o.op # 0
  BY <1>3, <1>4, <1>5, <1>6, <1>9 DEF CheckOp
<1> QED  BY <1>7, <1>8, <1>9

\* How a check goes on, from one operation to the next.
LEMMA CheckPasses ==
  ASSUME NEW vals \in Values, NEW sops \in Seq(Sembuf), Inside(sops, vals)
  PROVE  \E f \in [0 .. Len(sops) -> Checks(vals)] :
           /\ f[0] = [status |-> "OK", vals |-> vals]
           /\ \A n \in 1 .. Len(sops) : f[n] = CheckOp(f[n - 1], sops[n])
           /\ SemCheck(vals, sops).status = f[Len(sops)].status
           /\ SemCheck(vals, sops) =
                IF f[Len(sops)].status = "OK" THEN f[Len(sops)] ELSE [f[Len(sops)] EXCEPT !.vals = vals]
<1> DEFINE N == Len(sops)
           s == [status |-> "OK", vals |-> vals]
           V == Checks(vals)
           Eq(f) == f = [n \in 0 .. N |-> IF n = 0 THEN s ELSE CheckOp(f[n - 1], sops[n])]
           G == [x \in (1 .. N) \X V |-> CheckOp(x[2], sops[x[1]])]
<1>0. N \in Nat
  OBVIOUS
<1>a. \A n \in 1 .. N : sops[n] \in Sembuf /\ sops[n].num \in DOMAIN vals
  BY DEF Inside, Range
<1>1. s \in V
  BY DEF Checks, Like, Statuses
<1>2. G \in [(1 .. N) \X V -> V]
  BY <1>a, CheckOpType
<1>3. PICK f : Follows(f, V, s, N, G)
  <2> HIDE DEF G, N, V, s
  <2> QED  BY <1>0, <1>1, <1>2, Recursion
<1>b. f \in [0 .. N -> V] /\ f[0] = s /\ \A n \in 1 .. N : f[n] = G[<<n, f[n - 1]>>]
  BY <1>3 DEF Follows
<1>4. \A n \in 1 .. N : f[n] = CheckOp(f[n - 1], sops[n])
  <2> TAKE n \in 1 .. N
  <2>1. f[n - 1] \in V
    BY <1>0, <1>b
  <2>2. G[<<n, f[n - 1]>>] = CheckOp(f[n - 1], sops[n])
    BY <2>1
  <2> QED  BY <1>b, <2>2
<1>5. Eq(f)
  BY <1>0, <1>b, <1>4
<1> DEFINE g == CHOOSE h : Eq(h)
<1>6. Eq(g)
  BY <1>5
<1>7. g[0] = s /\ \A n \in 1 .. N : g[n] = CheckOp(g[n - 1], sops[n])
  <2>1. g = [n \in 0 .. N |-> IF n = 0 THEN s ELSE CheckOp(g[n - 1], sops[n])]
    BY <1>6
  <2>2. 0 \in 0 .. N /\ \A n \in 1 .. N : n \in 0 .. N /\ n # 0
    BY <1>0
  <2> HIDE DEF g, N
  <2> QED  BY <2>1, <2>2
<1>8. g[N] = f[N]
  <2> DEFINE P == {n \in Nat : g[n] = f[n]}
  <2>1. 0 \in P /\ P \in SUBSET Nat
    BY <1>b, <1>7
  <2>2. \A n \in 1 .. N : n - 1 \in P => n \in P
    BY <1>4, <1>7
  <2>3. \A n \in 0 .. N : n \in P
    <3> HIDE DEF P, N
    <3> QED  BY <1>0, <2>1, <2>2, Counting
  <2> QED  BY <1>0, <2>3
<1>9. SemCheck(vals, sops) = IF g[N].status = "OK" THEN g[N] ELSE [g[N] EXCEPT !.vals = vals]
  BY DEF SemCheck, Steps
<1>10. f[N] \in V
  BY <1>0, <1>b
<1>11. SemCheck(vals, sops).status = f[N].status
  BY <1>8, <1>9, <1>10 DEF Checks
<1> QED  BY <1>b, <1>4, <1>8, <1>9, <1>11

LEMMA Operations ==
  ASSUME NEW vals \in Values, NEW sops \in Seq(Sembuf), Inside(sops, vals), NEW n \in 1 .. Len(sops)
  PROVE  sops[n] \in Sembuf /\ sops[n].num \in DOMAIN vals /\ sops[n] \in Range(sops)
  BY DEF Inside, Range

\* A check gives values to the semaphores there are; one that fails gives them those they have.
LEMMA CheckType ==
  ASSUME NEW vals \in Values, NEW sops \in Seq(Sembuf), Inside(sops, vals)
  PROVE  /\ SemCheck(vals, sops) \in Checks(vals)
         /\ SemCheck(vals, sops).status # "OK" => SemCheck(vals, sops).vals = vals
         /\ sops = NoArg => SemCheck(vals, sops).status = "OK"
<1> DEFINE N == Len(sops)
<1>1. N \in Nat
  OBVIOUS
<1>2. PICK f \in [0 .. N -> Checks(vals)] :
        /\ f[0] = [status |-> "OK", vals |-> vals]
        /\ SemCheck(vals, sops).status = f[N].status
        /\ SemCheck(vals, sops) = IF f[N].status = "OK" THEN f[N] ELSE [f[N] EXCEPT !.vals = vals]
  BY CheckPasses
<1>3. f[N] \in Checks(vals) /\ vals \in Like(vals)
  BY <1>1 DEF Like
<1>4. SemCheck(vals, sops) \in Checks(vals)
  BY <1>2, <1>3 DEF Checks
<1>5. f[N].status # "OK" => SemCheck(vals, sops).vals = vals
  BY <1>2, <1>3 DEF Checks
<1>6. sops = NoArg => N = 0
  BY DEF NoArg
<1> QED  BY <1>2, <1>4, <1>5, <1>6

Lowered(v, w) == DOMAIN v = DOMAIN w /\ \A n \in DOMAIN w : v[n] <= w[n]

\* One operation that takes.
LEMMA TakeOp ==
  ASSUME NEW vals \in Values, NEW acc \in Checks(vals), NEW o \in Sembuf, o.num \in DOMAIN vals, o.op < 0, ~o.nowait
  PROVE  /\ acc.status = "OK" /\ acc.vals[o.num] + o.op >= 0 =>
              CheckOp(acc, o) = [acc EXCEPT !.vals[o.num] = acc.vals[o.num] + o.op]
         /\ acc.status = "OK" /\ acc.vals[o.num] + o.op < 0 => CheckOp(acc, o) = [acc EXCEPT !.status = Wait]
         /\ acc.status # "OK" => CheckOp(acc, o) = acc
         /\ acc.vals[o.num] \in 0 .. MaxVal /\ o.op \in Int
<1>1. acc.vals[o.num] \in 0 .. MaxVal /\ o.op \in Int /\ o.nowait = FALSE
  <2>1. acc.vals \in Values /\ o.num \in DOMAIN acc.vals
    BY DEF Checks, Like
  <2> QED  BY <2>1, ValueType DEF Sembuf
<1>2. ~(acc.vals[o.num] + o.op > MaxVal) /\ o.op # 0
  BY <1>1, Constants
<1>3. acc.status # "OK" => CheckOp(acc, o) = acc
  BY DEF CheckOp
<1>4. CASE acc.status = "OK"
  <2>1. CheckOp(acc, o) = IF acc.vals[o.num] + o.op < 0 THEN [acc EXCEPT !.status = Wait]
                          ELSE [acc EXCEPT !.vals[o.num] = acc.vals[o.num] + o.op]
    BY <1>1, <1>2, <1>4 DEF CheckOp
  <2> QED  BY <1>1, <1>4, <2>1
<1> QED  BY <1>1, <1>3, <1>4

\* A call that takes has its way or waits, and lowers what it changes.
LEMMA TakersLower ==
  ASSUME NEW vals \in Values, NEW sops \in Seq(Sembuf), Inside(sops, vals), Takes(sops)
  PROVE  SemCheck(vals, sops).status \in {"OK", Wait} /\ Lowered(SemCheck(vals, sops).vals, vals)
<1> DEFINE N == Len(sops)
<1>1. N \in Nat
  OBVIOUS
<1>2. PICK f \in [0 .. N -> Checks(vals)] :
        /\ f[0] = [status |-> "OK", vals |-> vals]
        /\ \A n \in 1 .. N : f[n] = CheckOp(f[n - 1], sops[n])
        /\ SemCheck(vals, sops).status = f[N].status
        /\ SemCheck(vals, sops) = IF f[N].status = "OK" THEN f[N] ELSE [f[N] EXCEPT !.vals = vals]
  BY CheckPasses
<1> DEFINE Low(n) == f[n].status \in {"OK", Wait} /\ Lowered(f[n].vals, vals)
           P == {n \in Nat : Low(n)}
<1>3. Lowered(vals, vals)
  <2>1. \A n \in DOMAIN vals : vals[n] \in Int
    BY ValueType
  <2> QED  BY <2>1 DEF Lowered
<1>4. 0 \in P /\ P \in SUBSET Nat
  BY <1>2, <1>3
<1>5. ASSUME NEW n \in 1 .. N, n - 1 \in P
      PROVE  n \in P
  <2> DEFINE acc == f[n - 1]
             o == sops[n]
  <2>1. acc \in Checks(vals) /\ f[n] = CheckOp(acc, o) /\ Low(n - 1)
    BY <1>2, <1>5
  <2>2. o \in Sembuf /\ o.num \in DOMAIN vals /\ o.op < 0 /\ ~o.nowait
    BY Operations DEF Takes
  <2>3. acc.vals \in Values /\ DOMAIN acc.vals = DOMAIN vals
    BY <2>1 DEF Checks, Like
  <2>4. \A m \in DOMAIN vals : acc.vals[m] \in Int /\ vals[m] \in Int
    BY <2>3, ValueType
  <2> HIDE DEF acc, o
  <2>5. CASE acc.status = "OK" /\ acc.vals[o.num] + o.op >= 0
    <3>1. f[n] = [acc EXCEPT !.vals[o.num] = acc.vals[o.num] + o.op]
      BY <2>1, <2>2, <2>5, TakeOp
    <3>2. f[n].vals = [acc.vals EXCEPT ![o.num] = acc.vals[o.num] + o.op] /\ f[n].status = "OK"
      BY <2>1, <2>5, <3>1 DEF Checks
    <3>3. o.op \in Int
      BY <2>2 DEF Sembuf
    <3>4. Lowered(f[n].vals, vals)
      BY <2>1, <2>2, <2>3, <2>4, <3>2, <3>3 DEF Lowered, acc
    <3> QED  BY <3>2, <3>4
  <2>6. CASE acc.status = "OK" /\ acc.vals[o.num] + o.op < 0
    <3>1. f[n] = [acc EXCEPT !.status = Wait]
      BY <2>1, <2>2, <2>6, TakeOp
    <3>2. f[n].vals = acc.vals /\ f[n].status = Wait
      BY <2>1, <3>1 DEF Checks
    <3> QED  BY <2>1, <3>2 DEF acc
  <2>7. CASE acc.status # "OK"
    <3>1. f[n] = acc
      BY <2>1, <2>2, <2>7, TakeOp
    <3> QED  BY <2>1, <3>1 DEF acc
  <2>8. acc.vals[o.num] + o.op \in Int
    BY <2>2, <2>4 DEF Sembuf
  <2> QED  BY <2>5, <2>6, <2>7, <2>8
<1>6. Low(N)
  <2>1. \A n \in 0 .. N : n \in P
    <3> HIDE DEF P, N
    <3> QED  BY <1>1, <1>4, <1>5, Counting
  <2> QED  BY <1>1, <2>1
<1>7. f[N] \in Checks(vals)
  BY <1>1
<1> QED  BY <1>2, <1>3, <1>6, <1>7 DEF Checks

\* A call that takes and waits, waits when values are lower.
LEMMA StillWaits ==
  ASSUME NEW v \in Values, NEW w \in Values, Lowered(v, w), NEW sops \in Seq(Sembuf), Inside(sops, w), Takes(sops),
         SemCheck(w, sops).status = Wait
  PROVE  SemCheck(v, sops).status = Wait
<1> DEFINE N == Len(sops)
<1>1. N \in Nat /\ Inside(sops, v)
  BY DEF Lowered, Inside
<1>2. PICK f \in [0 .. N -> Checks(v)] :
        /\ f[0] = [status |-> "OK", vals |-> v]
        /\ \A n \in 1 .. N : f[n] = CheckOp(f[n - 1], sops[n])
        /\ SemCheck(v, sops).status = f[N].status
  BY <1>1, CheckPasses
<1>3. PICK g \in [0 .. N -> Checks(w)] :
        /\ g[0] = [status |-> "OK", vals |-> w]
        /\ \A n \in 1 .. N : g[n] = CheckOp(g[n - 1], sops[n])
        /\ SemCheck(w, sops).status = g[N].status
  BY CheckPasses
<1> DEFINE Ahead(n) == f[n].status = "OK" => g[n].status = "OK" /\ Lowered(f[n].vals, g[n].vals)
           P == {n \in Nat : Ahead(n)}
<1>4. 0 \in P /\ P \in SUBSET Nat
  BY <1>2, <1>3
<1>5. ASSUME NEW n \in 1 .. N, n - 1 \in P
      PROVE  n \in P
  <2> DEFINE a == f[n - 1]
             b == g[n - 1]
             o == sops[n]
  <2>1. a \in Checks(v) /\ b \in Checks(w) /\ f[n] = CheckOp(a, o) /\ g[n] = CheckOp(b, o) /\ Ahead(n - 1)
    BY <1>2, <1>3, <1>5
  <2>2. o \in Sembuf /\ o.num \in DOMAIN v /\ o.num \in DOMAIN w /\ o.op < 0 /\ ~o.nowait
    BY <1>1, Operations DEF Takes
  <2>3. a.vals \in Values /\ b.vals \in Values /\ DOMAIN a.vals = DOMAIN v /\ DOMAIN b.vals = DOMAIN w /\ DOMAIN v = DOMAIN w
    BY <2>1 DEF Checks, Like, Lowered
  <2>4. \A m \in DOMAIN v : a.vals[m] \in Int /\ b.vals[m] \in Int
    BY <2>3, ValueType
  <2>5. a.status = "OK" => b.status = "OK" /\ Lowered(a.vals, b.vals)
    BY <2>1
  <2>6. o.op \in Int
    BY <2>2 DEF Sembuf
  <2> HIDE DEF a, b, o
  <2>7. CASE a.status = "OK" /\ a.vals[o.num] + o.op >= 0
    <3>1. b.status = "OK" /\ b.vals[o.num] + o.op >= 0
      BY <2>2, <2>3, <2>4, <2>5, <2>6, <2>7 DEF Lowered
    <3>2. f[n] = [a EXCEPT !.vals[o.num] = a.vals[o.num] + o.op] /\ g[n] = [b EXCEPT !.vals[o.num] = b.vals[o.num] + o.op]
      BY <2>1, <2>2, <2>7, <3>1, TakeOp
    <3>3. g[n].status = "OK" /\ f[n].vals = [a.vals EXCEPT ![o.num] = a.vals[o.num] + o.op]
            /\ g[n].vals = [b.vals EXCEPT ![o.num] = b.vals[o.num] + o.op]
      BY <2>1, <3>1, <3>2 DEF Checks
    <3>4. Lowered(f[n].vals, g[n].vals)
      BY <2>2, <2>3, <2>4, <2>5, <2>6, <2>7, <3>3 DEF Lowered
    <3> QED  BY <3>3, <3>4
  <2>8. CASE a.status = "OK" /\ a.vals[o.num] + o.op < 0
    <3>1. f[n] = [a EXCEPT !.status = Wait]
      BY <2>1, <2>2, <2>8, TakeOp
    <3>2. f[n].status = Wait
      BY <2>1, <3>1 DEF Checks
    <3> QED  BY <3>2 DEF Wait
  <2>9. CASE a.status # "OK"
    <3>1. f[n] = a
      BY <2>1, <2>2, <2>9, TakeOp
    <3> QED  BY <2>9, <3>1
  <2>10. a.vals[o.num] + o.op \in Int
    BY <2>2, <2>4, <2>6
  <2> QED  BY <2>7, <2>8, <2>9, <2>10
<1>6. Ahead(N)
  <2>1. \A n \in 0 .. N : n \in P
    <3> HIDE DEF P, N
    <3> QED  BY <1>1, <1>4, <1>5, Counting
  <2> QED  BY <1>1, <2>1
<1>7. SemCheck(v, sops).status \in {"OK", Wait}
  BY <1>1, TakersLower
<1> QED  BY <1>2, <1>3, <1>6, <1>7 DEF Wait

\* A call that gives does not wait.
LEMMA GiversGoOn ==
  ASSUME NEW vals \in Values, NEW sops \in Seq(Sembuf), Inside(sops, vals), Gives(sops)
  PROVE  SemCheck(vals, sops).status # Wait
<1> DEFINE N == Len(sops)
<1>1. N \in Nat
  OBVIOUS
<1>2. PICK f \in [0 .. N -> Checks(vals)] :
        /\ f[0] = [status |-> "OK", vals |-> vals]
        /\ \A n \in 1 .. N : f[n] = CheckOp(f[n - 1], sops[n])
        /\ SemCheck(vals, sops).status = f[N].status
  BY CheckPasses
<1> DEFINE P == {n \in Nat : f[n].status # Wait}
<1>3. 0 \in P /\ P \in SUBSET Nat
  BY <1>2 DEF Wait
<1>4. ASSUME NEW n \in 1 .. N, n - 1 \in P
      PROVE  n \in P
  <2> DEFINE acc == f[n - 1]
             o == sops[n]
  <2>1. acc \in Checks(vals) /\ f[n] = CheckOp(acc, o) /\ acc.status # Wait
    BY <1>2, <1>4
  <2>2. o \in Sembuf /\ o.num \in DOMAIN vals /\ (o.op > 0 \/ o.nowait)
    BY Operations DEF Gives
  <2>3. acc.vals[o.num] \in 0 .. MaxVal /\ o.op \in Int
    <3>1. acc.vals \in Values /\ DOMAIN acc.vals = DOMAIN vals
      BY <2>1 DEF Checks, Like
    <3> QED  BY <2>2, <3>1, ValueType DEF Sembuf
  <2> HIDE DEF acc, o
  <2>4. \A st \in Statuses \ {Wait} : [acc EXCEPT !.status = st].status # Wait
    BY <2>1 DEF Checks
  <2>5. \A x : [acc EXCEPT !.vals[o.num] = x].status # Wait
    BY <2>1 DEF Checks
  <2>6. {"EAGAIN", "ERANGE"} \subseteq Statuses \ {Wait}
    BY DEF Statuses, Wait
  <2>7. CASE acc.status # "OK"
    BY <2>1, <2>7 DEF CheckOp
  <2>8. CASE acc.status = "OK" /\ o.op = 0
    <3>1. CheckOp(acc, o) = acc \/ CheckOp(acc, o) = [acc EXCEPT !.status = "EAGAIN"]
      BY <2>2, <2>8 DEF CheckOp
    <3> QED  BY <2>1, <2>4, <2>6, <3>1
  <2>9. CASE acc.status = "OK" /\ o.op # 0
    <3> DEFINE value == acc.vals[o.num] + o.op
    <3>1. value < 0 => o.nowait
      BY <2>2, <2>3, Constants
    <3>2. \/ CheckOp(acc, o) = [acc EXCEPT !.status = "EAGAIN"]
          \/ CheckOp(acc, o) = [acc EXCEPT !.status = "ERANGE"]
          \/ CheckOp(acc, o) = [acc EXCEPT !.vals[o.num] = value]
      BY <2>9, <3>1 DEF CheckOp
    <3> QED  BY <2>1, <2>4, <2>5, <2>6, <3>2
  <2> QED  BY <2>7, <2>8, <2>9
<1>5. \A n \in 0 .. N : n \in P
  <2> HIDE DEF P, N
  <2> QED  BY <1>1, <1>3, <1>4, Counting
<1> QED  BY <1>1, <1>2, <1>5

------------------------------------------------------------------------------
(* sysvipc_wake_tracee()                                                     *)

\* The session with another struct SysVIpcConfig and another state of one tracee.
LEMMA Put ==
  ASSUME NEW s \in Session, NEW q \in Procs, NEW c \in Config, NEW k \in Process
  PROVE  /\ [s EXCEPT !.cf[q] = c, !.ke[q] = k] \in Session
         /\ [s EXCEPT !.cf[q] = c] \in Session
         /\ [s EXCEPT !.ke[q] = k] \in Session
<1>1. [s.cf EXCEPT ![q] = c] \in [Procs -> Config]
  BY DEF Session
<1>2. [s.ke EXCEPT ![q] = k] \in [Procs -> Process]
  BY DEF Session
<1> QED  BY <1>1, <1>2 DEF Session

\* A tracee that waits is woken: it is signalled, or will not make its call.
LEMMA Wakes ==
  ASSUME NEW s \in Session, NEW q \in Procs, NEW status \in Results, s.cf[q].reason = "SEMOP", Phase(s.cf[q], s.ke[q])
  PROVE  \E c \in Config, k \in Process :
           /\ WakeTracee(s, q, status) = [s EXCEPT !.cf[q] = c, !.ke[q] = k]
           /\ Phase(c, k) /\ c.reason = "NOT_WAITING"
<1> DEFINE c0 == s.cf[q]
           k0 == s.ke[q]
           woken(state) == [c0 EXCEPT !.reason = "NOT_WAITING", !.status = status, !.state = state]
<1>1. c0 \in Config /\ k0 \in Process /\ q \in DOMAIN s.cf /\ q \in DOMAIN s.ke
  BY DEF Session
<1>2. CASE c0.state = "ENTERED_PPOLL"
  <2> DEFINE c == [woken("SIGNALED_PPOLL") EXCEPT !.sigstop = "IGNORED"]
             k == [k0 EXCEPT !.sigstop = k0.pos # "dead"]
  <2> DEFINE w == [s EXCEPT !.cf[q].reason = "NOT_WAITING", !.cf[q].status = status, !.cf[q].state = "SIGNALED_PPOLL"]
  <2>1. WakeTracee(s, q, status) = [w EXCEPT !.cf[q].sigstop = "IGNORED", !.ke[q].sigstop = k0.pos # "dead"]
    BY <1>2 DEF WakeTracee
  <2>2. w = [s EXCEPT !.cf[q] = woken("SIGNALED_PPOLL")]
    BY <1>1 DEF Session
  <2>3. w \in Session /\ w.cf[q] = woken("SIGNALED_PPOLL") /\ w.ke = s.ke /\ w.cf = [s.cf EXCEPT ![q] = woken("SIGNALED_PPOLL")]
        /\ w.crashed = s.crashed /\ w.sems = s.sems
    <3>1. woken("SIGNALED_PPOLL") \in Config
      BY <1>1 DEF Config, States
    <3> HIDE DEF woken, w
    <3>2. w \in Session
      BY <2>2, <3>1, <1>1, Put
    <3> QED  BY <1>1, <2>2, <3>2 DEF Session
  <2>4. [w EXCEPT !.cf[q].sigstop = "IGNORED", !.ke[q].sigstop = k0.pos # "dead"] = [w EXCEPT !.cf[q] = c, !.ke[q] = k]
    <3> HIDE DEF w, woken
    <3> QED  BY <1>1, <2>3 DEF Session
  <2>5. [w EXCEPT !.cf[q] = c, !.ke[q] = k] = [s EXCEPT !.cf[q] = c, !.ke[q] = k]
    <3> HIDE DEF w, woken, c, k
    <3> QED  BY <1>1, <2>3 DEF Session
  <2>6. WakeTracee(s, q, status) = [s EXCEPT !.cf[q] = c, !.ke[q] = k]
    BY <2>1, <2>4, <2>5
  <2>7. c \in Config /\ k \in Process
    BY <1>1 DEF Config, Process, States
  <2>8. /\ c.state = "SIGNALED_PPOLL" /\ c.reason = "NOT_WAITING" /\ c.sigstop = "IGNORED"
        /\ k.pos = k0.pos /\ k.sigstop = (k0.pos # "dead")
    BY <1>1 DEF Config, Process
  <2>9. k0.pos \in {"ppoll", "sysexit", "dead"}
    BY <1>1, <1>2 DEF Phase, Process, Positions
  <2> HIDE DEF c, k
  <2>10. Phase(c, k)
    BY <2>8, <2>9 DEF Phase, Waiting
  <2> QED  BY <2>6, <2>7, <2>8, <2>10
<1>3. CASE c0.state = "RESTARTED_INTO_PPOLL"
  <2> DEFINE c == woken("RESTARTED_INTO_PPOLL_CANCELED")
  <2>1. WakeTracee(s, q, status) = [s EXCEPT !.cf[q] = c, !.ke[q] = k0]
    BY <1>1, <1>3 DEF WakeTracee, Session
  <2>2. c \in Config
    BY <1>1 DEF Config, States
  <2>3. c.state = "RESTARTED_INTO_PPOLL_CANCELED" /\ c.reason = "NOT_WAITING" /\ c.sigstop = c0.sigstop
    BY <1>1 DEF Config
  <2> HIDE DEF c
  <2>4. Phase(c, k0)
    BY <1>1, <1>3, <2>3 DEF Phase, Waiting, Process, Positions
  <2> QED  BY <1>1, <2>1, <2>2, <2>3, <2>4
<1> QED  BY <1>2, <1>3 DEF Phase, Waiting

------------------------------------------------------------------------------
(* The other tracees                                                         *)

\* Sessions that differ from s0, where p makes a call, by tracees that were woken and by values of the set i.
Near(p, i, s0) ==
  {s \in Session :
     /\ ~s.crashed /\ s.cf[p] = s0.cf[p] /\ s.ke[p] = s0.ke[p]
     /\ \A q \in Procs : s.cf[q] = s0.cf[q] \/ (s.cf[q].reason = "NOT_WAITING" /\ s0.cf[q].reason = "SEMOP")
     /\ \A q \in Procs \ {p} : Phase(s.cf[q], s.ke[q])
     /\ \A j \in DOMAIN s0.sems : j # i => s.sems[j] = s0.sems[j]
     /\ DOMAIN s.sems = DOMAIN s0.sems
     /\ \E v \in Like(s0.sems[i].vals) : s.sems[i] = [s0.sems[i] EXCEPT !.vals = v]}

LEMMA SetsOf ==
  ASSUME NEW s \in Session, NEW i \in DOMAIN s.sems
  PROVE  /\ s.sems[i] \in Set /\ s.sems[i].vals \in Values /\ i \in Nat
         /\ \A x \in Set : [s EXCEPT !.sems[i] = x] \in Session
<1>1. s.sems \in Seq(Set)
  BY DEF Session
<1>2. Len(s.sems) \in Nat /\ i \in 1 .. Len(s.sems) /\ s.sems[i] \in Set
  BY <1>1, ElementOfSeq
<1>3. \A x \in Set : [s.sems EXCEPT ![i] = x] \in Seq(Set)
  BY <1>1, <1>2, ExceptSeq
<1>4. \A x \in Set : [s EXCEPT !.sems[i] = x] \in Session
  BY <1>3 DEF Session
<1> QED  BY <1>2, <1>4 DEF Set

\* Nobody was woken yet.
LEMMA NearStart ==
  ASSUME NEW s0 \in Session, NEW p \in Procs, NEW i \in DOMAIN s0.sems, ~s0.crashed,
         \A q \in Procs \ {p} : Phase(s0.cf[q], s0.ke[q])
  PROVE  s0 \in Near(p, i, s0)
<1>1. s0.sems[i].vals \in Like(s0.sems[i].vals) /\ s0.sems[i] = [s0.sems[i] EXCEPT !.vals = s0.sems[i].vals]
  BY SetsOf DEF Like, Set
<1> QED  BY <1>1 DEF Near

LEMMA NearSets ==
  ASSUME NEW s0 \in Session, NEW p \in Procs, NEW i \in DOMAIN s0.sems, NEW s \in Near(p, i, s0)
  PROVE  /\ s \in Session /\ i \in DOMAIN s.sems
         /\ s.sems[i] \in Set /\ s.sems[i].vals \in Like(s0.sems[i].vals)
         /\ \A j \in DOMAIN s0.sems : s.sems[j].valid = s0.sems[j].valid /\ DOMAIN s.sems[j].vals = DOMAIN s0.sems[j].vals
<1>1. PICK v \in Like(s0.sems[i].vals) : s.sems[i] = [s0.sems[i] EXCEPT !.vals = v]
  BY DEF Near
<1>2. s \in Session /\ i \in DOMAIN s.sems
  BY DEF Near
<1>3. s.sems[i] \in Set /\ s0.sems[i] \in Set
  BY <1>2, SetsOf
<1>4. s.sems[i].vals = v /\ s.sems[i].valid = s0.sems[i].valid
  BY <1>1, <1>3 DEF Set
<1> QED  BY <1>2, <1>3, <1>4 DEF Near, Like

\* One of them is woken, and the values of the set change.
Woken(s, q, i, v, obj, arg, status) ==
  WakeTracee([s EXCEPT !.sems[i].vals = v, !.cf[q].obj = obj, !.cf[q].arg = arg], q, status)

OneWoken(r, s0, p, i, s, q, v) ==
  /\ r \in Near(p, i, s0) /\ r.cf[q].reason = "NOT_WAITING" /\ r.sems[i].vals = v
  /\ \A x \in Procs \ {q} : r.cf[x] = s.cf[x]

LEMMA NearWakes ==
  ASSUME NEW s0 \in Session, NEW p \in Procs, NEW i \in DOMAIN s0.sems, NEW s \in Near(p, i, s0),
         NEW q \in Procs \ {p}, s.cf[q].reason = "SEMOP", NEW status \in Results,
         NEW v \in Like(s0.sems[i].vals), NEW obj \in Int, NEW arg \in Seq(Sembuf)
  PROVE  OneWoken(Woken(s, q, i, v, obj, arg, status), s0, p, i, s, q, v)
<1> DEFINE c0 == [s.cf[q] EXCEPT !.obj = obj, !.arg = arg]
           x0 == [s.sems[i] EXCEPT !.vals = v]
           t == [s EXCEPT !.sems[i].vals = v, !.cf[q].obj = obj, !.cf[q].arg = arg]
<1>1. s \in Session /\ s.cf[q] \in Config /\ s.ke[q] \in Process /\ s.cf \in [Procs -> Config] /\ s.ke \in [Procs -> Process]
  BY DEF Near, Session
<1>2. c0 \in Config /\ x0 \in Set
  <2>2. c0 \in Config
    BY <1>1 DEF Config
  <2>3. x0 \in Set
    BY NearSets DEF Set, Like
  <2> QED  BY <2>2, <2>3
<1>3. t = [s EXCEPT !.sems[i] = x0, !.cf[q] = c0]
  BY <1>1, NearSets DEF Session
<1>4. c0.reason = s.cf[q].reason /\ c0.state = s.cf[q].state /\ c0.sigstop = s.cf[q].sigstop
  BY <1>1 DEF Config
<1>5. Phase(c0, s.ke[q])
  <2>1. Phase(s.cf[q], s.ke[q])
    BY DEF Near
  <2> HIDE DEF c0
  <2> QED  BY <1>4, <2>1 DEF Phase
<1> HIDE DEF c0, x0, t
<1>6. t \in Session
  <2>1. [s EXCEPT !.sems[i] = x0] \in Session
    BY <1>1, <1>2, NearSets, SetsOf
  <2>2. [[s EXCEPT !.sems[i] = x0] EXCEPT !.cf[q] = c0] \in Session
    BY <1>1, <1>2, <2>1, Put
  <2> QED  BY <1>3, <2>2
<1>7. /\ t.cf[q] = c0 /\ t.ke = s.ke /\ t.crashed = s.crashed /\ t.cf = [s.cf EXCEPT ![q] = c0]
      /\ t.sems = [s.sems EXCEPT ![i] = x0]
  BY <1>1, <1>3 DEF Session
<1>8. PICK c \in Config, k \in Process :
        /\ WakeTracee(t, q, status) = [t EXCEPT !.cf[q] = c, !.ke[q] = k]
        /\ Phase(c, k) /\ c.reason = "NOT_WAITING"
  <2>1. t.cf[q].reason = "SEMOP" /\ Phase(t.cf[q], t.ke[q])
    BY <1>4, <1>5, <1>7
  <2> QED  BY <1>6, <2>1, Wakes
<1> DEFINE r == WakeTracee(t, q, status)
<1>9. /\ r \in Session /\ r.crashed = s.crashed /\ r.sems = [s.sems EXCEPT ![i] = x0]
      /\ r.cf = [s.cf EXCEPT ![q] = c] /\ r.ke = [s.ke EXCEPT ![q] = k]
  <2>0. [t EXCEPT !.cf[q] = c, !.ke[q] = k] \in Session
    BY <1>6, Put
  <2>1. r \in Session
    BY <1>8, <2>0
  <2>2. r.crashed = t.crashed /\ r.sems = t.sems /\ r.cf = [t.cf EXCEPT ![q] = c] /\ r.ke = [t.ke EXCEPT ![q] = k]
    BY <1>6, <1>8 DEF Session
  <2> QED  BY <1>1, <1>7, <2>1, <2>2
<1> HIDE DEF r
<1>10. r.cf[q] = c /\ r.ke[q] = k /\ \A x \in Procs \ {q} : r.cf[x] = s.cf[x] /\ r.ke[x] = s.ke[x]
  BY <1>1, <1>9
<1>11. r.sems[i] = x0 /\ DOMAIN r.sems = DOMAIN s.sems /\ \A j \in DOMAIN s.sems : j # i => r.sems[j] = s.sems[j]
  BY <1>9, NearSets
<1>12. x0.vals = v /\ x0 = [s0.sems[i] EXCEPT !.vals = v]
  <2>1. PICK w \in Like(s0.sems[i].vals) : s.sems[i] = [s0.sems[i] EXCEPT !.vals = w]
    BY DEF Near
  <2>2. s0.sems[i] \in Set
    BY SetsOf
  <2> QED  BY <2>1, <2>2 DEF Set, x0
<1>13. r \in Near(p, i, s0)
  <2>1. ~r.crashed /\ r.cf[p] = s0.cf[p] /\ r.ke[p] = s0.ke[p]
    BY <1>9, <1>10 DEF Near
  <2>2. ASSUME NEW x \in Procs
        PROVE  r.cf[x] = s0.cf[x] \/ (r.cf[x].reason = "NOT_WAITING" /\ s0.cf[x].reason = "SEMOP")
    <3>1. CASE x = q  BY <1>8, <1>10, <3>1 DEF Near
    <3>2. CASE x # q  BY <1>10, <3>2 DEF Near
    <3> QED  BY <3>1, <3>2
  <2>3. ASSUME NEW x \in Procs \ {p}
        PROVE  Phase(r.cf[x], r.ke[x])
    <3>1. CASE x = q  BY <1>8, <1>10, <3>1
    <3>2. CASE x # q
      <4>1. Phase(s.cf[x], s.ke[x])
        BY DEF Near
      <4>2. r.cf[x] = s.cf[x] /\ r.ke[x] = s.ke[x]
        BY <1>10, <3>2
      <4> QED  BY <4>1, <4>2
    <3> QED  BY <3>1, <3>2
  <2>4. \A j \in DOMAIN s0.sems : j # i => r.sems[j] = s0.sems[j]
    BY <1>11 DEF Near
  <2>5. DOMAIN r.sems = DOMAIN s0.sems
    BY <1>11 DEF Near
  <2> QED  BY <1>9, <1>11, <1>12, <2>1, <2>2, <2>3, <2>4, <2>5 DEF Near
<1> QED  BY <1>8, <1>10, <1>11, <1>12, <1>13 DEF r, t, Woken, OneWoken

------------------------------------------------------------------------------
(* sysvipc_sem_check_others(), and the waiters of a set that is removed      *)

\* A tracee in Near that waits, waits as in s0.
LEMMA NearWaits ==
  ASSUME NEW s0 \in Session, NEW p \in Procs, NEW i \in DOMAIN s0.sems, NEW s \in Near(p, i, s0), \A x \in Procs : Fits(s0, x),
         NEW q \in Procs, WaitsFor(s, q, i)
  PROVE  /\ s.cf[q] = s0.cf[q] /\ s.cf[q].arg \in Seq(Sembuf) /\ s.sems[i].vals \in Values
         /\ Inside(s.cf[q].arg, s.sems[i].vals)
<1>1. s.cf[q] = s0.cf[q] /\ s.cf[q].reason = "SEMOP" /\ s.cf[q].obj = i
  BY DEF Near, WaitsFor
<1>2. \A o \in Range(s.cf[q].arg) : o.num \in DOMAIN s0.sems[i].vals
  BY <1>1 DEF Fits
<1>3. DOMAIN s.sems[i].vals = DOMAIN s0.sems[i].vals /\ s.sems[i].vals \in Values
  BY NearSets DEF Like
<1>4. s0.cf[q] \in Config
  BY DEF Session
<1> QED  BY <1>1, <1>2, <1>3, <1>4 DEF Inside, Config

\* One tracee is looked at: it sleeps on, or takes and is woken.
LEMMA CheckOneNear ==
  ASSUME NEW s0 \in Session, NEW p \in Procs, NEW i \in DOMAIN s0.sems, NEW s \in Near(p, i, s0), \A x \in Procs : Fits(s0, x),
         NEW q \in Procs
  PROVE  LET r == CheckOne(s, p, i, q)
             check == SemCheck(s.sems[i].vals, s.cf[q].arg)
         IN /\ r \in Near(p, i, s0)
            /\ q = p \/ ~WaitsFor(s, q, i) \/ check.status = Wait => r = s
            /\ q # p /\ WaitsFor(s, q, i) /\ check.status # Wait =>
                 /\ r.cf[q].reason = "NOT_WAITING" /\ r.sems[i].vals = check.vals
                 /\ \A x \in Procs \ {q} : r.cf[x] = s.cf[x]
<1> DEFINE check == SemCheck(s.sems[i].vals, s.cf[q].arg)
<1>1. CASE q = p \/ ~WaitsFor(s, q, i) \/ check.status = Wait
  BY <1>1 DEF CheckOne
<1>2. CASE q # p /\ WaitsFor(s, q, i) /\ check.status # Wait
  <2>1. check \in Checks(s.sems[i].vals)
    BY <1>2, NearWaits, CheckType
  <2> DEFINE r == Woken(s, q, i, check.vals, 0, NoArg, check.status)
  <2>2. CheckOne(s, p, i, q) = r
    BY <1>2 DEF CheckOne, Woken
  <2>3. s.cf[q].reason = "SEMOP" /\ q \in Procs \ {p}
    BY <1>2 DEF WaitsFor
  <2> HIDE DEF check
  <2>4. Like(s.sems[i].vals) = Like(s0.sems[i].vals)
    BY NearSets DEF Like
  <2>5. check.vals \in Like(s0.sems[i].vals) /\ check.status \in Results
    <3>1. check.status \in Statuses /\ check.vals \in Like(s.sems[i].vals)
      BY <2>1 DEF Checks
    <3>2. check.status \in Results
      BY <3>1 DEF Results
    <3> QED  BY <2>4, <3>1, <3>2
  <2>6. OneWoken(r, s0, p, i, s, q, check.vals)
    <3>1. 0 \in Int /\ NoArg \in Seq(Sembuf)
      BY DEF NoArg
    <3> QED  BY <2>3, <2>5, <3>1, NearWakes
  <2> QED  BY <1>2, <2>2, <2>6 DEF check, OneWoken
<1> QED  BY <1>1, <1>2

\* The tracees of the list are looked at, one after the other.
LEMMA CheckOthersPasses ==
  ASSUME NEW s0 \in Session, NEW p \in Procs, NEW i \in DOMAIN s0.sems, ~s0.crashed, \A x \in Procs : Fits(s0, x),
         \A q \in Procs \ {p} : Phase(s0.cf[q], s0.ke[q])
  PROVE  \E f \in [0 .. Len(Order) -> Near(p, i, s0)] :
           /\ f[0] = s0 /\ \A n \in 1 .. Len(Order) : f[n] = CheckOne(f[n - 1], p, i, Order[n])
           /\ CheckOthers(s0, p, i) = f[Len(Order)]
<1> DEFINE N == Len(Order)
           V == Near(p, i, s0)
           Eq(f) == f = [n \in 0 .. N |-> IF n = 0 THEN s0 ELSE CheckOne(f[n - 1], p, i, Order[n])]
           G == [x \in (1 .. N) \X V |-> CheckOne(x[2], p, i, Order[x[1]])]
<1>1. N \in Nat /\ s0 \in V
  BY Lists, NearStart
<1>2. G \in [(1 .. N) \X V -> V]
  BY Lists, CheckOneNear
<1>3. PICK f : Follows(f, V, s0, N, G)
  <2> HIDE DEF G, N, V
  <2> QED  BY <1>1, <1>2, Recursion
<1>4. f \in [0 .. N -> V] /\ f[0] = s0 /\ \A n \in 1 .. N : f[n] = G[<<n, f[n - 1]>>]
  BY <1>3 DEF Follows
<1>5. \A n \in 1 .. N : f[n] = CheckOne(f[n - 1], p, i, Order[n])
  <2> TAKE n \in 1 .. N
  <2>1. f[n - 1] \in V
    BY <1>1, <1>4
  <2>2. G[<<n, f[n - 1]>>] = CheckOne(f[n - 1], p, i, Order[n])
    BY <2>1
  <2> QED  BY <1>4, <2>2
<1>6. Eq(f)
  BY <1>1, <1>4, <1>5
<1> DEFINE g == CHOOSE h : Eq(h)
<1>7. g[0] = s0 /\ \A n \in 1 .. N : g[n] = CheckOne(g[n - 1], p, i, Order[n])
  <2>1. Eq(g)
    BY <1>6
  <2>2. 0 \in 0 .. N /\ \A n \in 1 .. N : n \in 0 .. N /\ n # 0
    BY <1>1
  <2> HIDE DEF g, N
  <2> QED  BY <2>1, <2>2
<1>8. g[N] = f[N]
  <2> DEFINE P == {n \in Nat : g[n] = f[n]}
  <2>1. 0 \in P /\ P \in SUBSET Nat
    BY <1>4, <1>7
  <2>2. \A n \in 1 .. N : n - 1 \in P => n \in P
    BY <1>5, <1>7
  <2>3. \A n \in 0 .. N : n \in P
    <3> HIDE DEF P, N
    <3> QED  BY <1>1, <2>1, <2>2, Counting
  <2> QED  BY <1>1, <2>3
<1>9. CheckOthers(s0, p, i) = g[N]
  BY DEF CheckOthers, Steps
<1> QED  BY <1>4, <1>5, <1>8, <1>9

LEMMA CheckOthersNear ==
  ASSUME NEW s0 \in Session, NEW p \in Procs, NEW i \in DOMAIN s0.sems, ~s0.crashed, \A x \in Procs : Fits(s0, x),
         \A q \in Procs \ {p} : Phase(s0.cf[q], s0.ke[q])
  PROVE  CheckOthers(s0, p, i) \in Near(p, i, s0)
<1>1. PICK f \in [0 .. Len(Order) -> Near(p, i, s0)] : CheckOthers(s0, p, i) = f[Len(Order)]
  BY CheckOthersPasses
<1>2. Len(Order) \in 0 .. Len(Order)
  BY Lists
<1> QED  BY <1>1, <1>2

LEMMA LowerLower ==
  ASSUME NEW u \in Values, NEW v \in Values, NEW w \in Values, Lowered(u, v), Lowered(v, w)
  PROVE  Lowered(u, w)
<1>1. \A n \in DOMAIN w : u[n] \in Int /\ v[n] \in Int /\ w[n] \in Int
  BY ValueType, Constants DEF Lowered
<1> QED  BY <1>1 DEF Lowered

LEMMA LowerItself == ASSUME NEW v \in Values PROVE Lowered(v, v)
<1>1. \A n \in DOMAIN v : v[n] \in Int
  BY ValueType
<1> QED  BY <1>1 DEF Lowered

\* Nobody of those that were looked at waits for something that is there.
SleepsOn(s, p, i, q) ==
  q # p /\ WaitsFor(s, q, i) => SemCheck(s.sems[i].vals, s.cf[q].arg).status = Wait

\* One pass is enough: who takes afterwards leaves less for those that were looked at before.
LEMMA OthersSleepOn ==
  ASSUME NEW s0 \in Session, NEW p \in Procs, NEW i \in DOMAIN s0.sems, ~s0.crashed, \A x \in Procs : Fits(s0, x),
         \A q \in Procs \ {p} : Phase(s0.cf[q], s0.ke[q]),
         \A q \in Procs \ {p} : WaitsFor(s0, q, i) => Takes(s0.cf[q].arg)
  PROVE  LET r == CheckOthers(s0, p, i)
         IN Lowered(r.sems[i].vals, s0.sems[i].vals) /\ \A q \in Procs : SleepsOn(r, p, i, q)
<1> DEFINE N == Len(Order)
           V == Near(p, i, s0)
<1>1. PICK f \in [0 .. N -> V] :
        /\ f[0] = s0 /\ \A n \in 1 .. N : f[n] = CheckOne(f[n - 1], p, i, Order[n])
        /\ CheckOthers(s0, p, i) = f[N]
  BY CheckOthersPasses
<1> DEFINE Done(n) == Lowered(f[n].sems[i].vals, s0.sems[i].vals) /\ \A m \in 1 .. n : SleepsOn(f[n], p, i, Order[m])
           P == {n \in Nat : Done(n)}
<1>2. 0 \in P /\ P \in SUBSET Nat
  <2>1. Lowered(s0.sems[i].vals, s0.sems[i].vals)
    BY SetsOf, LowerItself
  <2> QED  BY <1>1, <2>1
<1>3. ASSUME NEW n \in 1 .. N, n - 1 \in P
      PROVE  n \in P
  <2> DEFINE s == f[n - 1]
             r == f[n]
             q == Order[n]
             v == s.sems[i].vals
             check == SemCheck(v, s.cf[q].arg)
  <2>1. s \in V /\ r \in V /\ r = CheckOne(s, p, i, q) /\ q \in Procs /\ Done(n - 1)
    <3>1. n - 1 \in 0 .. N /\ n \in 0 .. N
      BY Lists
    <3>2. f[n - 1] \in V /\ f[n] \in V /\ f[n] = CheckOne(f[n - 1], p, i, Order[n])
      <4> HIDE DEF V
      <4> QED  BY <1>1, <3>1
    <3>3. Order[n] \in Procs
      BY Lists
    <3> HIDE DEF V
    <3> QED  BY <1>3, <3>2, <3>3
  <2>2. \A m \in 1 .. n : m = n \/ m \in 1 .. n - 1
    OBVIOUS
  <2> HIDE DEF s, r, q, V
  <2>3. CASE q = p \/ ~WaitsFor(s, q, i) \/ check.status = Wait
    <3>1. r = s
      BY <2>1, <2>3, CheckOneNear DEF V
    <3>2. SleepsOn(r, p, i, q)
      BY <2>3, <3>1 DEF SleepsOn
    <3>3. \A m \in 1 .. n - 1 : SleepsOn(r, p, i, Order[m])
      BY <2>1, <3>1 DEF s
    <3>4. \A m \in 1 .. n : SleepsOn(r, p, i, Order[m])
      BY <2>2, <3>2, <3>3 DEF q
    <3> QED  BY <2>1, <3>1, <3>4 DEF s, r
  <2>4. CASE q # p /\ WaitsFor(s, q, i) /\ check.status # Wait
    <3>1. r.cf[q].reason = "NOT_WAITING" /\ r.sems[i].vals = check.vals /\ \A x \in Procs \ {q} : r.cf[x] = s.cf[x]
      BY <2>1, <2>4, CheckOneNear DEF V
    <3>2. ASSUME NEW x \in Procs \ {p}, WaitsFor(s, x, i)
          PROVE  /\ s.cf[x].arg \in Seq(Sembuf) /\ v \in Values /\ Inside(s.cf[x].arg, v) /\ Takes(s.cf[x].arg)
      <4>1. s.cf[x] = s0.cf[x] /\ s.cf[x].arg \in Seq(Sembuf) /\ v \in Values /\ Inside(s.cf[x].arg, v)
        BY <2>1, <3>2, NearWaits DEF V
      <4>2. WaitsFor(s0, x, i)
        BY <3>2, <4>1 DEF WaitsFor
      <4> QED  BY <4>1, <4>2
    <3>3. Lowered(check.vals, v) /\ check.vals \in Values
      <4>1. check \in Checks(v)
        BY <2>1, <2>4, <3>2, CheckType
      <4>2. Lowered(check.vals, v)
        BY <2>1, <2>4, <3>2, TakersLower
      <4> HIDE DEF check
      <4> QED  BY <4>1, <4>2 DEF Checks, Like
    <3>4. Lowered(r.sems[i].vals, s0.sems[i].vals)
      <4>1. Lowered(v, s0.sems[i].vals)
        BY <2>1 DEF s
      <4>2. v \in Values /\ s0.sems[i].vals \in Values
        BY <2>1, <2>4, <3>2, SetsOf
      <4> HIDE DEF v, check
      <4> QED  BY <3>1, <3>3, <4>1, <4>2, LowerLower
    <3>5. ASSUME NEW m \in 1 .. n - 1
          PROVE  SleepsOn(r, p, i, Order[m])
      <4> DEFINE x == Order[m]
      <4>1. x \in Procs /\ SleepsOn(s, p, i, x)
        <5>1. m \in 1 .. N
          BY Lists
        <5> QED  BY <2>1, <5>1, Lists DEF s
      <4> HIDE DEF x
      <4>2. SUFFICES ASSUME x # p, WaitsFor(r, x, i)
                     PROVE  SemCheck(r.sems[i].vals, r.cf[x].arg).status = Wait
        BY DEF SleepsOn, x
      <4>3. x # q /\ r.cf[x] = s.cf[x] /\ WaitsFor(s, x, i)
        BY <3>1, <4>1, <4>2 DEF WaitsFor
      <4>4. SemCheck(v, s.cf[x].arg).status = Wait
        BY <4>1, <4>2, <4>3 DEF SleepsOn
      <4>5. s.cf[x].arg \in Seq(Sembuf) /\ v \in Values /\ Inside(s.cf[x].arg, v) /\ Takes(s.cf[x].arg)
        BY <3>2, <4>1, <4>2, <4>3
      <4> HIDE DEF v, check
      <4>6. SemCheck(check.vals, s.cf[x].arg).status = Wait
        BY <3>3, <4>4, <4>5, StillWaits
      <4> QED  BY <3>1, <4>3, <4>6
    <3>6. SleepsOn(r, p, i, q)
      BY <3>1 DEF SleepsOn, WaitsFor
    <3>7. \A m \in 1 .. n : SleepsOn(r, p, i, Order[m])
      BY <2>2, <3>5, <3>6 DEF q
    <3> QED  BY <3>4, <3>7 DEF r
  <2> QED  BY <2>3, <2>4
<1>4. Done(N)
  <2>1. N \in Nat
    BY Lists
  <2>2. \A n \in 0 .. N : n \in P
    <3> HIDE DEF P, N
    <3> QED  BY <1>2, <1>3, <2>1, Counting
  <2> QED  BY <2>1, <2>2
<1> QED  BY <1>1, <1>4, Lists

\* A set that is removed wakes a tracee that waits for it.
LEMMA WakeOneNear ==
  ASSUME NEW s0 \in Session, NEW p \in Procs, NEW i \in DOMAIN s0.sems, NEW s \in Near(p, i, s0),
         s0.cf[p].reason = "NOT_WAITING", NEW q \in Procs
  PROVE  LET r == WakeOne(s, i, q)
         IN r \in Near(p, i, s0) /\ ~WaitsFor(r, q, i) /\ \A x \in Procs \ {q} : r.cf[x] = s.cf[x]
<1>1. CASE ~WaitsFor(s, q, i)
  BY <1>1 DEF WakeOne
<1>2. CASE WaitsFor(s, q, i)
  <2> DEFINE c == s.cf[q]
             v == s.sems[i].vals
  <2>1. s \in Session /\ c \in Config /\ s.sems[i] \in Set /\ v \in Like(s0.sems[i].vals)
    BY NearSets DEF Session
  <2>2. c.obj \in Int /\ c.arg \in Seq(Sembuf) /\ "EIDRM" \in Results
    BY <2>1 DEF Config, Results
  <2>3. [s EXCEPT !.sems[i].vals = v, !.cf[q].obj = c.obj, !.cf[q].arg = c.arg] = s
    <3>1. [s.sems[i] EXCEPT !.vals = v] = s.sems[i] /\ [c EXCEPT !.obj = c.obj, !.arg = c.arg] = c
      BY <2>1 DEF Set, Config
    <3>2. s.sems \in Seq(Set) /\ s.cf \in [Procs -> Config]
      BY <2>1 DEF Session
    <3>3. [s.sems EXCEPT ![i].vals = v] = s.sems
      <4>1. [s.sems EXCEPT ![i] = s.sems[i]] = s.sems
        BY <3>2
      <4> QED  BY <3>1, <4>1
    <3>4. [s.cf EXCEPT ![q].obj = c.obj, ![q].arg = c.arg] = s.cf
      <4>1. [s.cf EXCEPT ![q] = c] = s.cf
        BY <3>2
      <4>2. [s.cf EXCEPT ![q].obj = c.obj, ![q].arg = c.arg] = [s.cf EXCEPT ![q] = [c EXCEPT !.obj = c.obj, !.arg = c.arg]]
        BY <3>2
      <4> QED  BY <3>1, <4>1, <4>2
    <3> QED  BY <2>1, <3>3, <3>4 DEF Session
  <2>4. q \in Procs \ {p} /\ s.cf[q].reason = "SEMOP"
    BY <1>2 DEF WaitsFor, Near
  <2>5. WakeOne(s, i, q) = Woken(s, q, i, v, c.obj, c.arg, "EIDRM")
    BY <1>2, <2>3 DEF WakeOne, Woken
  <2> DEFINE r == Woken(s, q, i, v, c.obj, c.arg, "EIDRM")
  <2>6. OneWoken(r, s0, p, i, s, q, v)
    <3> HIDE DEF c, v
    <3> QED  BY <2>1, <2>2, <2>4, NearWakes
  <2> HIDE DEF r
  <2> QED  BY <2>5, <2>6 DEF OneWoken, WaitsFor, r
<1> QED  BY <1>1, <1>2

\* All of those who wait for a set that is removed are woken.
LEMMA AllWoken ==
  ASSUME NEW s0 \in Session, NEW p \in Procs, NEW i \in DOMAIN s0.sems, ~s0.crashed, s0.cf[p].reason = "NOT_WAITING",
         \A q \in Procs \ {p} : Phase(s0.cf[q], s0.ke[q])
  PROVE  LET r == WakeAll(s0, i)
         IN r \in Near(p, i, s0) /\ \A q \in Procs : ~WaitsFor(r, q, i)
<1> DEFINE N == Len(Order)
           V == Near(p, i, s0)
           Eq(f) == f = [n \in 0 .. N |-> IF n = 0 THEN s0 ELSE WakeOne(f[n - 1], i, Order[n])]
           G == [x \in (1 .. N) \X V |-> WakeOne(x[2], i, Order[x[1]])]
<1>1. N \in Nat /\ s0 \in V
  BY Lists, NearStart
<1>2. G \in [(1 .. N) \X V -> V]
  BY Lists, WakeOneNear
<1>3. PICK f : Follows(f, V, s0, N, G)
  <2> HIDE DEF G, N, V
  <2> QED  BY <1>1, <1>2, Recursion
<1>4. f \in [0 .. N -> V] /\ f[0] = s0 /\ \A n \in 1 .. N : f[n] = G[<<n, f[n - 1]>>]
  BY <1>3 DEF Follows
<1>5. \A n \in 1 .. N : f[n - 1] \in V /\ f[n] = WakeOne(f[n - 1], i, Order[n])
  <2> TAKE n \in 1 .. N
  <2>1. f[n - 1] \in V
    BY <1>1, <1>4
  <2>2. G[<<n, f[n - 1]>>] = WakeOne(f[n - 1], i, Order[n])
    BY <2>1
  <2> QED  BY <1>4, <2>1, <2>2
<1>6. Eq(f)
  BY <1>1, <1>4, <1>5
<1> DEFINE g == CHOOSE h : Eq(h)
<1>7. g[0] = s0 /\ \A n \in 1 .. N : g[n] = WakeOne(g[n - 1], i, Order[n])
  <2>1. Eq(g)
    BY <1>6
  <2>2. 0 \in 0 .. N /\ \A n \in 1 .. N : n \in 0 .. N /\ n # 0
    BY <1>1
  <2> HIDE DEF g, N
  <2> QED  BY <2>1, <2>2
<1> DEFINE Done(n) == g[n] = f[n] /\ \A m \in 1 .. n : ~WaitsFor(f[n], Order[m], i)
           P == {n \in Nat : Done(n)}
<1>8. 0 \in P /\ P \in SUBSET Nat
  BY <1>4, <1>7
<1>9. ASSUME NEW n \in 1 .. N, n - 1 \in P
      PROVE  n \in P
  <2>1. g[n] = f[n] /\ f[n - 1] \in V /\ f[n] = WakeOne(f[n - 1], i, Order[n]) /\ Order[n] \in Procs
    BY <1>5, <1>7, <1>9, Lists
  <2>2. ~WaitsFor(f[n], Order[n], i) /\ \A x \in Procs \ {Order[n]} : f[n].cf[x] = f[n - 1].cf[x]
    BY <2>1, WakeOneNear
  <2>3. ASSUME NEW m \in 1 .. n
        PROVE  ~WaitsFor(f[n], Order[m], i)
    <3>1. CASE Order[m] = Order[n]
      BY <2>2, <3>1
    <3>2. CASE Order[m] # Order[n]
      <4>1. m \in 1 .. n - 1 /\ m \in 1 .. N
        BY <1>1, <3>2
      <4>2. Order[m] \in Procs
        BY <4>1, Lists
      <4>3. ~WaitsFor(f[n - 1], Order[m], i)
        BY <1>9, <4>1
      <4> QED  BY <2>2, <3>2, <4>2, <4>3 DEF WaitsFor
    <3> QED  BY <3>1, <3>2
  <2> QED  BY <2>1, <2>3
<1>10. Done(N)
  <2>1. \A n \in 0 .. N : n \in P
    <3> HIDE DEF P, N
    <3> QED  BY <1>1, <1>8, <1>9, Counting
  <2> QED  BY <1>1, <2>1
<1>11. WakeAll(s0, i) = g[N]
  BY DEF WakeAll, Steps
<1>12. f[N] \in V
  BY <1>1, <1>4
<1> QED  BY <1>10, <1>11, <1>12, Lists

------------------------------------------------------------------------------
(* The steps of one tracee                                                   *)

AllBlocked == \A q \in Procs : Blocked(State, q)

LEMMA Parts ==
  ASSUME Sound, NEW p \in Procs
  PROVE  /\ cf \in [Procs -> Config] /\ ke \in [Procs -> Process] /\ sems \in Seq(Set) /\ crashed = FALSE
         /\ cf[p] \in Config /\ ke[p] \in Process /\ Phase(cf[p], ke[p])
  BY DEF Sound, Session, State

\* A step that changes one tracee, and makes it wait for nothing new.
LEMMA LocalStep ==
  ASSUME Sound, NEW p \in Procs, NEW c \in Config, NEW k \in Process, Phase(c, k),
         c.reason = "SEMOP" => cf[p].reason = "SEMOP" /\ c.obj = cf[p].obj /\ c.arg = cf[p].arg,
         cf' = [cf EXCEPT ![p] = c], ke' = [ke EXCEPT ![p] = k], crashed' = crashed, sems' = sems
  PROVE  Sound' /\ (AllBlocked => AllBlocked')
<1>1. cf \in [Procs -> Config] /\ ke \in [Procs -> Process] /\ sems \in Seq(Set) /\ crashed = FALSE
  BY Parts
<1>2. State' = [cf |-> cf', ke |-> ke', crashed |-> crashed, sems |-> sems]
  BY DEF State
<1>3. cf' \in [Procs -> Config] /\ ke' \in [Procs -> Process]
  BY <1>1
<1>4. State' \in Session
  BY <1>1, <1>2, <1>3 DEF Session
<1>5. \A q \in Procs : /\ cf'[q] = IF q = p THEN c ELSE cf[q]
                       /\ ke'[q] = IF q = p THEN k ELSE ke[q]
  BY <1>1
<1>6. ASSUME NEW q \in Procs
      PROVE  /\ Phase(cf[q], ke[q])'
             /\ cf'[q].reason = "SEMOP" => cf[q].reason = "SEMOP" /\ cf'[q].obj = cf[q].obj /\ cf'[q].arg = cf[q].arg
  <2>1. CASE q = p  BY <1>5, <2>1
  <2>2. CASE q # p
    <3>1. Phase(cf[q], ke[q])
      BY DEF Sound
    <3>2. cf'[q] = cf[q] /\ ke'[q] = ke[q]
      BY <1>5, <2>2
    <3> QED  BY <3>1, <3>2
  <2> QED  BY <2>1, <2>2
<1>7. ASSUME NEW q \in Procs
      PROVE  Fits(State, q)' /\ (cf[q].reason = "SEMOP" => cf[q].arg # NoArg)'
  <2>1. Fits(State, q) /\ (cf[q].reason = "SEMOP" => cf[q].arg # NoArg)
    BY DEF Sound
  <2> QED  BY <1>2, <1>6, <2>1 DEF Fits, State
<1>8. ASSUME NEW q \in Procs, Blocked(State, q)
      PROVE  Blocked(State, q)'
  BY <1>2, <1>6, <1>8 DEF Blocked, State
<1>9. Sound'
  BY <1>1, <1>4, <1>6, <1>7 DEF Sound
<1> QED  BY <1>8, <1>9 DEF AllBlocked

LEMMA Ends ==
  ASSUME NEW c \in Config, c.reason = "NOT_WAITING"
  PROVE  /\ Over(c) \in Config /\ Over(c).reason = "NOT_WAITING" /\ Over(c).state = "NOT_WAITING"
         /\ Over(c).sigstop = c.sigstop
<1>1. NoArg \in Seq(Sembuf) /\ 0 \in Int /\ NoResult \in Results /\ "NOT_WAITING" \in States
  BY DEF NoArg, NoResult, Results, States
<1> QED  BY <1>1 DEF Over, Config

LEMMA EnterStep ==
  ASSUME Sound, NEW p \in Procs, SyscallEnterStart(p), UNCHANGED sems
  PROVE  Sound' /\ (AllBlocked => AllBlocked')
<1> DEFINE c == cf[p]
           k == ke[p]
<1>1. c \in Config /\ k \in Process /\ Phase(c, k) /\ cf \in [Procs -> Config] /\ ke \in [Procs -> Process] /\ crashed = FALSE
  BY Parts
<1>2. k.pos = "sysenter" /\ c.state \in {"RESTARTED_INTO_PPOLL", "RESTARTED_INTO_PPOLL_CANCELED"}
  BY <1>1 DEF SyscallEnterStart, Handling, Phase
<1>3. CASE c.state = "RESTARTED_INTO_PPOLL"
  <2> DEFINE c1 == [c EXCEPT !.state = "ENTERED_PPOLL"]
             k1 == [k EXCEPT !.pos = "ppoll"]
  <2>1. EnterStage(Tracees, p) = [Tracees EXCEPT !.cf[p].state = "ENTERED_PPOLL", !.ke[p].pos = "ppoll"]
    BY <1>2, <1>3 DEF EnterStage, Tracees
  <2>2. cf' = [cf EXCEPT ![p] = c1] /\ ke' = [ke EXCEPT ![p] = k1] /\ crashed' = crashed
    BY <2>1 DEF SyscallEnterStart, Become, Tracees
  <2>3. c1 \in Config /\ k1 \in Process
    BY <1>1 DEF Config, Process, States, Positions
  <2>4. /\ c1.reason = c.reason /\ c1.obj = c.obj /\ c1.arg = c.arg /\ c1.sigstop = c.sigstop /\ c1.state = "ENTERED_PPOLL"
        /\ k1.pos = "ppoll" /\ k1.sigstop = k.sigstop
    BY <1>1 DEF Config, Process
  <2> HIDE DEF c1, k1
  <2>5. Phase(c1, k1)
    BY <1>1, <1>2, <1>3, <2>4 DEF Phase, Waiting
  <2> QED  BY <2>2, <2>3, <2>4, <2>5, LocalStep
<1>4. CASE c.state = "RESTARTED_INTO_PPOLL_CANCELED"
  <2> DEFINE c1 == Over(c)
             k1 == [k EXCEPT !.pos = "sysexit", !.ret = c.status]
  <2>1. EnterStage(Tracees, p) = [Tracees EXCEPT !.cf[p] = Over(@), !.ke[p].pos = "sysexit", !.ke[p].ret = c.status]
    BY <1>2, <1>4 DEF EnterStage, Tracees
  <2>2. cf' = [cf EXCEPT ![p] = c1] /\ ke' = [ke EXCEPT ![p] = k1] /\ crashed' = crashed
    <3> DEFINE end == [Tracees EXCEPT !.cf[p] = Over(@), !.ke[p].pos = "sysexit", !.ke[p].ret = c.status]
    <3>1. end.cf = [cf EXCEPT ![p] = c1] /\ end.ke = [ke EXCEPT ![p] = k1] /\ end.crashed = crashed
      BY <1>1 DEF Tracees
    <3>2. cf' = end.cf /\ ke' = end.ke /\ crashed' = end.crashed
      BY <2>1 DEF SyscallEnterStart, Become
    <3> HIDE DEF end, c1, k1
    <3> QED  BY <3>1, <3>2
  <2>3. c.reason = "NOT_WAITING"
    BY <1>1, <1>4 DEF Phase, Waiting, Config
  <2>4. k1 \in Process /\ k1.pos = "sysexit" /\ k1.sigstop = k.sigstop
    BY <1>1 DEF Config, Process, Positions
  <2>5. c1 \in Config /\ c1.reason = "NOT_WAITING" /\ c1.state = "NOT_WAITING" /\ c1.sigstop = c.sigstop
    BY <1>1, <2>3, Ends
  <2> HIDE DEF c1, k1
  <2>6. Phase(c1, k1)
    BY <1>1, <1>2, <2>4, <2>5 DEF Phase, Waiting
  <2> QED  BY <2>2, <2>4, <2>5, <2>6, LocalStep
<1> QED  BY <1>2, <1>3, <1>4

LEMMA ExitStep ==
  ASSUME Sound, NEW p \in Procs, SyscallExitStart(p), UNCHANGED sems
  PROVE  Sound' /\ (AllBlocked => AllBlocked')
<1> DEFINE c == cf[p]
           k == ke[p]
           c1 == [Over(c) EXCEPT !.reason = "NOT_WAITING"]
           k1(ret) == [k EXCEPT !.pos = "user", !.call = NoCall, !.ret = ret]
<1>1. c \in Config /\ k \in Process /\ Phase(c, k) /\ cf \in [Procs -> Config] /\ ke \in [Procs -> Process] /\ crashed = FALSE
  BY Parts
<1>2. k.pos = "sysexit" /\ c.state \in {"NOT_WAITING", "ENTERED_PPOLL", "SIGNALED_PPOLL", "ENTERED_GETPID"}
  BY <1>1 DEF SyscallExitStart, Phase
<1>3. c.state = "ENTERED_PPOLL" <=> c.reason # "NOT_WAITING"
  BY <1>1, <1>2 DEF Phase, Waiting
<1>4. \E ret \in Results : cf' = [cf EXCEPT ![p] = c1] /\ ke' = [ke EXCEPT ![p] = k1(ret)] /\ crashed' = crashed
  <2> DEFINE over == [Tracees EXCEPT !.ke[p].pos = "user", !.ke[p].call = NoCall, !.cf[p] = Over(@)]
  <2>1. /\ over.cf = [cf EXCEPT ![p] = Over(c)] /\ over.ke = [ke EXCEPT ![p] = [k EXCEPT !.pos = "user", !.call = NoCall]]
        /\ over.crashed = crashed /\ DOMAIN over = {"cf", "ke", "crashed"}
    BY <1>1 DEF Tracees
  <2>2. c.reason = "NOT_WAITING" => c1 = Over(c)
    BY <1>1 DEF Over, Config
  <2>3. k1(k.ret) = [k EXCEPT !.pos = "user", !.call = NoCall]
    BY <1>1 DEF Process
  <2>4. c.status \in Results /\ k.ret \in Results /\ "EINTR" \in Results
    BY <1>1 DEF Config, Process, Results
  <2>5. CASE c.state = "NOT_WAITING"
    <3>1. ExitStage(Tracees, p) = over
      BY <2>5 DEF ExitStage, Tracees
    <3>2. cf' = over.cf /\ ke' = over.ke /\ crashed' = over.crashed
      BY <3>1 DEF SyscallExitStart, Become
    <3> HIDE DEF over, c1, k1
    <3> QED  BY <1>3, <2>1, <2>2, <2>3, <2>4, <2>5, <3>2
  <2>6. CASE c.state = "ENTERED_PPOLL"
    <3>1. ExitStage(Tracees, p) = [over EXCEPT !.cf[p].reason = "NOT_WAITING", !.ke[p].ret = "EINTR"]
      BY <1>3, <2>6 DEF ExitStage, Tracees
    <3> HIDE DEF over
    <3>2. cf' = [over.cf EXCEPT ![p].reason = "NOT_WAITING"] /\ ke' = [over.ke EXCEPT ![p].ret = "EINTR"] /\ crashed' = crashed
      BY <2>1, <3>1 DEF SyscallExitStart, Become
    <3>3. cf' = [cf EXCEPT ![p] = c1] /\ ke' = [ke EXCEPT ![p] = k1("EINTR")]
      BY <1>1, <2>1, <3>2
    <3> QED  BY <2>4, <3>2, <3>3
  <2>7. CASE c.state \in {"SIGNALED_PPOLL", "ENTERED_GETPID"}
    <3>1. ExitStage(Tracees, p) = [over EXCEPT !.ke[p].ret = c.status]
      BY <1>3, <2>7 DEF ExitStage, Tracees
    <3> HIDE DEF over
    <3>2. cf' = over.cf /\ ke' = [over.ke EXCEPT ![p].ret = c.status] /\ crashed' = crashed
      BY <2>1, <3>1 DEF SyscallExitStart, Become
    <3>3. cf' = [cf EXCEPT ![p] = c1] /\ ke' = [ke EXCEPT ![p] = k1(c.status)]
      BY <1>1, <1>3, <2>1, <2>2, <2>7, <3>2
    <3> QED  BY <2>4, <3>2, <3>3
  <2> QED  BY <1>2, <2>5, <2>6, <2>7
<1>5. PICK ret \in Results : cf' = [cf EXCEPT ![p] = c1] /\ ke' = [ke EXCEPT ![p] = k1(ret)] /\ crashed' = crashed
  BY <1>4
<1> DEFINE k2 == k1(ret)
<1>6. k2 \in Process /\ k2.pos = "user" /\ k2.sigstop = k.sigstop
  BY <1>1 DEF Process, Positions, AllCalls
<1>7. c1 \in Config /\ c1.reason = "NOT_WAITING" /\ c1.state = "NOT_WAITING" /\ c1.sigstop = c.sigstop
  <2>1. NoArg \in Seq(Sembuf) /\ 0 \in Int /\ NoResult \in Results
    BY DEF NoArg, NoResult, Results
  <2> QED  BY <1>1, <2>1 DEF Over, Config, States
<1> HIDE DEF c1, k2
<1>8. Phase(c1, k2)
  BY <1>1, <1>2, <1>6, <1>7 DEF Phase, Waiting
<1> QED  BY <1>5, <1>6, <1>7, <1>8, LocalStep DEF k2

\* The stop of a SIGSTOP, and a tracee that has died.
LEMMA StopStep ==
  ASSUME Sound, NEW p \in Procs, HandleSigstop(p) \/ FreeTracee(p), UNCHANGED sems
  PROVE  Sound' /\ (AllBlocked => AllBlocked')
<1> DEFINE c == cf[p]
           k == ke[p]
<1>1. c \in Config /\ k \in Process /\ Phase(c, k) /\ cf \in [Procs -> Config] /\ ke \in [Procs -> Process]
  BY Parts
<1>2. CASE HandleSigstop(p)
  <2> DEFINE c1 == [c EXCEPT !.sigstop = "ALLOWED"]
             k1 == [k EXCEPT !.pos = "user"]
  <2>1. k.pos = "sigstop" /\ c.sigstop = "IGNORED"
    BY <1>1, <1>2 DEF HandleSigstop, Phase
  <2>2. cf' = [cf EXCEPT ![p] = c1] /\ ke' = [ke EXCEPT ![p] = k1] /\ crashed' = crashed
    BY <1>2, <2>1 DEF HandleSigstop
  <2>3. c1 \in Config /\ k1 \in Process
    BY <1>1 DEF Config, Process, Positions
  <2>4. /\ c1.reason = c.reason /\ c1.obj = c.obj /\ c1.arg = c.arg /\ c1.state = c.state
        /\ k1.pos = "user" /\ k1.sigstop = k.sigstop
    BY <1>1 DEF Config, Process
  <2> HIDE DEF c1, k1
  <2>5. Phase(c1, k1)
    BY <1>1, <2>1, <2>4 DEF Phase, Waiting
  <2> QED  BY <2>2, <2>3, <2>4, <2>5, LocalStep
<1>3. CASE FreeTracee(p)
  <2> DEFINE c1 == NewConfig
             k1 == [NewProcess EXCEPT !.pos = "gone"]
  <2>1. cf' = [cf EXCEPT ![p] = c1] /\ ke' = [ke EXCEPT ![p] = k1] /\ crashed' = crashed
    BY <1>3 DEF FreeTracee
  <2>2. c1 \in Config /\ k1 \in Process
    <3>1. NoArg \in Seq(Sembuf) /\ 0 \in Int /\ NoResult \in Results /\ NoCall \in AllCalls
      BY DEF NoArg, Results, AllCalls
    <3>2. c1 \in Config
      BY <3>1 DEF NewConfig, Config, States
    <3>3. NewProcess \in Process
      BY <3>1 DEF NewProcess, Process, Positions
    <3> QED  BY <3>2, <3>3 DEF Process, Positions
  <2>3. c1.reason = "NOT_WAITING" /\ c1.state = "NOT_WAITING" /\ k1.pos = "gone" /\ k1.sigstop = FALSE
    BY DEF NewConfig, NewProcess
  <2> HIDE DEF c1, k1
  <2>4. Phase(c1, k1)
    BY <2>3 DEF Phase, Waiting
  <2> QED  BY <2>1, <2>2, <2>3, <2>4, LocalStep
<1> QED  BY <1>2, <1>3

\* What the kernel does with a tracee.
LEMMA KernelStep ==
  ASSUME Sound, NEW p \in Procs,
         MakeAgain(p) \/ Leave(p) \/ TakeSigstop(p) \/ Interrupt(p) \/ Kill(p) \/ (\E call \in Programs[p] : Call(p, call)),
         UNCHANGED sems
  PROVE  Sound' /\ (AllBlocked => AllBlocked')
<1> DEFINE c == cf[p]
           k == ke[p]
<1>1. c \in Config /\ k \in Process /\ Phase(c, k) /\ cf \in [Procs -> Config] /\ ke \in [Procs -> Process]
  BY Parts
<1>2. SUFFICES \E k1 \in Process : Phase(c, k1) /\ Moves(p, k1)
  <2>1. PICK k1 \in Process : Phase(c, k1) /\ Moves(p, k1)
    BY <1>2
  <2>2. cf' = [cf EXCEPT ![p] = c] /\ ke' = [ke EXCEPT ![p] = k1] /\ crashed' = crashed
    BY <1>1, <2>1 DEF Moves
  <2> QED  BY <1>1, <2>1, <2>2, LocalStep
<1>3. CASE MakeAgain(p)
  <2> DEFINE k1 == [k EXCEPT !.pos = "sysenter"]
  <2>1. k1 \in Process /\ k1.pos = "sysenter" /\ k1.sigstop = k.sigstop /\ k.pos = "again" /\ Moves(p, k1)
    BY <1>1, <1>3 DEF MakeAgain, Process, Positions
  <2> HIDE DEF k1
  <2> QED  BY <1>1, <2>1 DEF Phase, Waiting
<1>4. CASE Leave(p) \/ Interrupt(p)
  <2> DEFINE k1 == [k EXCEPT !.pos = "sysexit"]
  <2>1. k1 \in Process /\ k1.pos = "sysexit" /\ k1.sigstop = k.sigstop /\ k.pos = "ppoll" /\ Moves(p, k1)
    BY <1>1, <1>4 DEF Leave, Interrupt, Process, Positions
  <2> HIDE DEF k1
  <2> QED  BY <1>1, <2>1 DEF Phase, Waiting
<1>5. CASE TakeSigstop(p)
  <2> DEFINE k1 == [k EXCEPT !.pos = "sigstop", !.sigstop = FALSE]
  <2>1. k1 \in Process /\ k1.pos = "sigstop" /\ ~k1.sigstop /\ k.pos = "user" /\ k.sigstop /\ Moves(p, k1)
    BY <1>1, <1>5 DEF TakeSigstop, Process, Positions
  <2> HIDE DEF k1
  <2> QED  BY <1>1, <2>1 DEF Phase, Waiting
<1>6. CASE Kill(p)
  <2> DEFINE k1 == [k EXCEPT !.pos = "dead", !.sigstop = FALSE]
  <2>1. k1 \in Process /\ k1.pos = "dead" /\ ~k1.sigstop /\ Moves(p, k1)
    BY <1>1, <1>6 DEF Kill, Process, Positions
  <2> HIDE DEF k1
  <2> QED  BY <1>1, <2>1 DEF Phase, Waiting
<1>7. ASSUME NEW call \in Programs[p], Call(p, call)
      PROVE  \E k1 \in Process : Phase(c, k1) /\ Moves(p, k1)
  <2>1. PICK path \in Paths[p] : Moves(p, [k EXCEPT !.pos = path, !.call = call, !.ret = NoResult])
    BY <1>7 DEF Call
  <2> DEFINE k1 == [k EXCEPT !.pos = path, !.call = call, !.ret = NoResult]
  <2>2. path \in {"sysenter", "sigsys"}
    BY <2>1, WaitAssumption
  <2>3. call \in AllCalls /\ NoResult \in Results
    BY DEF AllCalls, Results
  <2>4. k1 \in Process /\ k1.pos = path /\ k1.sigstop = k.sigstop
    BY <1>1, <2>2, <2>3 DEF Process, Positions
  <2>5. k.pos = "user" /\ k.sigstop = FALSE
    BY <1>1, <1>7 DEF Call, Process
  <2> HIDE DEF k1
  <2>6. Phase(c, k1)
    BY <1>1, <2>2, <2>4, <2>5 DEF Phase, Waiting
  <2> QED  BY <2>1, <2>4, <2>6 DEF k1
<1> QED  BY <1>3, <1>4, <1>5, <1>6, <1>7

------------------------------------------------------------------------------
(* The calls                                                                 *)

\* What a handler has made of the session before the tracee p waits or has its status.
Handled(s, p) ==
  /\ s \in Session /\ ~s.crashed /\ s.ke[p] = ke[p] /\ s.cf[p].state = "NOT_WAITING" /\ s.cf[p].sigstop = cf[p].sigstop
  /\ \A q \in Procs \ {p} : Phase(s.cf[q], s.ke[q])
  /\ \A q \in Procs : Fits(s, q) /\ (s.cf[q].reason = "SEMOP" => s.cf[q].arg # NoArg)

\* The tracee p is at c and k, and all else is as before.
Placed(r, s, p, c, k) ==
  /\ r.cf = [s.cf EXCEPT ![p] = c] /\ r.ke = [s.ke EXCEPT ![p] = k] /\ r.crashed = s.crashed /\ r.sems = s.sems
  /\ Phase(c, k) /\ c.reason = s.cf[p].reason /\ c.obj = s.cf[p].obj /\ c.arg = s.cf[p].arg

LEMMA CommonPlaces ==
  ASSUME Sound, NEW p \in Procs, Fresh(p), NEW s, Handled(s, p), NEW status \in Results
  PROVE  \E c \in Config, k \in Process : Placed(SyscallCommon(s, p, status), s, p, c, k)
<1> DEFINE c0 == s.cf[p]
           k0 == s.ke[p]
           r == SyscallCommon(s, p, status)
<1>1. /\ s \in Session /\ c0 \in Config /\ k0 \in Process /\ s.cf \in [Procs -> Config] /\ s.ke \in [Procs -> Process]
      /\ k0 = ke[p] /\ c0.state = "NOT_WAITING" /\ c0.sigstop = cf[p].sigstop
  BY DEF Handled, Session
<1>2. Phase(cf[p], ke[p]) /\ ke[p].pos \in {"sysenter", "sigsys"}
  BY Parts DEF Fresh, Handling
<1>3. k0.sigstop = FALSE
  BY <1>1, <1>2 DEF Phase, Process
<1>4. CASE c0.reason # "NOT_WAITING"
  <2> DEFINE state == IF k0.pos = "sigsys" THEN "RESTARTED_INTO_PPOLL" ELSE "ENTERED_PPOLL"
             pos == IF k0.pos = "sigsys" THEN "again" ELSE "ppoll"
             c == [c0 EXCEPT !.state = state]
             k == [k0 EXCEPT !.pos = pos]
  <2>1. r = [s EXCEPT !.cf[p].state = state, !.ke[p].pos = pos]
    BY <1>1, <1>4 DEF SyscallCommon
  <2>2. state \in States /\ pos \in Positions
    BY DEF States, Positions
  <2>3. /\ c \in Config /\ c.reason = c0.reason /\ c.obj = c0.obj /\ c.arg = c0.arg /\ c.sigstop = c0.sigstop /\ c.state = state
        /\ k \in Process /\ k.pos = pos /\ k.sigstop = FALSE
    <3> HIDE DEF state, pos
    <3> QED  BY <1>1, <1>3, <2>2 DEF Config, Process
  <2>4. r.cf = [s.cf EXCEPT ![p] = c] /\ r.ke = [s.ke EXCEPT ![p] = k] /\ r.crashed = s.crashed /\ r.sems = s.sems
    <3> HIDE DEF state, pos, r
    <3> QED  BY <1>1, <2>1 DEF Session
  <2> HIDE DEF c, k
  <2>5. Phase(c, k)
    BY <1>2, <1>1, <1>4, <2>3 DEF Phase, Waiting
  <2> QED  BY <2>3, <2>4, <2>5 DEF Placed
<1>5. CASE c0.reason = "NOT_WAITING" /\ k0.pos = "sigsys"
  <2> DEFINE k == [k0 EXCEPT !.call = NoCall, !.ret = status, !.pos = "user"]
  <2>1. r = [s EXCEPT !.ke[p] = [[k0 EXCEPT !.call = NoCall] EXCEPT !.ret = status, !.pos = "user"]]
    BY <1>1, <1>5 DEF SyscallCommon
  <2>2. r.cf = s.cf /\ r.ke = [s.ke EXCEPT ![p] = k] /\ r.crashed = s.crashed /\ r.sems = s.sems
    <3> HIDE DEF r
    <3> QED  BY <1>1, <2>1 DEF Session
  <2>3. k \in Process /\ k.pos = "user" /\ k.sigstop = FALSE
    BY <1>1, <1>3 DEF Process, Positions, AllCalls
  <2>4. r.cf = [s.cf EXCEPT ![p] = c0]
    BY <1>1, <2>2
  <2> HIDE DEF k
  <2>5. Phase(c0, k)
    BY <1>1, <1>5, <2>3 DEF Phase, Waiting
  <2> QED  BY <1>1, <2>2, <2>3, <2>4, <2>5 DEF Placed
<1>6. CASE c0.reason = "NOT_WAITING" /\ k0.pos # "sigsys"
  <2> DEFINE c == [c0 EXCEPT !.status = status, !.state = "ENTERED_GETPID"]
             k == [k0 EXCEPT !.call = NoCall, !.pos = "sysexit"]
  <2>1. r = [s EXCEPT !.cf[p].status = status, !.cf[p].state = "ENTERED_GETPID",
                      !.ke[p] = [[k0 EXCEPT !.call = NoCall] EXCEPT !.pos = "sysexit"]]
    BY <1>1, <1>6 DEF SyscallCommon
  <2>2. r.cf = [s.cf EXCEPT ![p] = c] /\ r.ke = [s.ke EXCEPT ![p] = k] /\ r.crashed = s.crashed /\ r.sems = s.sems
    <3> HIDE DEF r
    <3> QED  BY <1>1, <2>1 DEF Session
  <2>3. k \in Process /\ k.pos = "sysexit" /\ k.sigstop = FALSE
    BY <1>1, <1>3 DEF Process, Positions, AllCalls
  <2>4. /\ c \in Config /\ c.reason = c0.reason /\ c.obj = c0.obj /\ c.arg = c0.arg /\ c.sigstop = c0.sigstop
        /\ c.state = "ENTERED_GETPID"
    BY <1>1 DEF Config, States
  <2> HIDE DEF c, k
  <2>5. Phase(c, k)
    BY <1>1, <1>6, <2>3, <2>4 DEF Phase, Waiting
  <2> QED  BY <1>1, <2>2, <2>3, <2>4, <2>5 DEF Placed
<1> QED  BY <1>4, <1>5, <1>6

\* A call ends in a sound session, where who waits, waits for what it did before.
LEMMA Finishes ==
  ASSUME Sound, NEW p \in Procs, Fresh(p), NEW s, Handled(s, p), NEW status \in Results, Finish(s, p, status)
  PROVE  /\ Sound' /\ sems' = s.sems
         /\ \A q \in Procs : cf'[q].reason = s.cf[q].reason /\ cf'[q].obj = s.cf[q].obj /\ cf'[q].arg = s.cf[q].arg
<1> DEFINE r == SyscallCommon(s, p, status)
<1>1. PICK c \in Config, k \in Process : Placed(r, s, p, c, k)
  BY CommonPlaces
<1>2. cf' = r.cf /\ ke' = r.ke /\ crashed' = r.crashed /\ sems' = r.sems
  BY DEF Finish, Update, Become
<1>3. /\ s \in Session /\ s.cf \in [Procs -> Config] /\ s.ke \in [Procs -> Process] /\ s.crashed = FALSE /\ s.sems \in Seq(Set)
  BY DEF Handled, Session
<1>4. cf' = [s.cf EXCEPT ![p] = c] /\ ke' = [s.ke EXCEPT ![p] = k] /\ crashed' = FALSE /\ sems' = s.sems
  BY <1>1, <1>2, <1>3 DEF Placed
<1>5. cf' \in [Procs -> Config] /\ ke' \in [Procs -> Process]
  BY <1>3, <1>4
<1>6. State' = [cf |-> cf', ke |-> ke', crashed |-> FALSE, sems |-> s.sems]
  BY <1>4 DEF State
<1>7. State' \in Session
  BY <1>3, <1>5, <1>6 DEF Session
<1>8. \A q \in Procs : cf'[q].reason = s.cf[q].reason /\ cf'[q].obj = s.cf[q].obj /\ cf'[q].arg = s.cf[q].arg
  BY <1>1, <1>3, <1>4 DEF Placed
<1>9. ASSUME NEW q \in Procs
      PROVE  /\ Phase(cf[q], ke[q])' /\ Fits(State, q)' /\ (cf[q].reason = "SEMOP" => cf[q].arg # NoArg)'
  <2>1. Fits(s, q) /\ (s.cf[q].reason = "SEMOP" => s.cf[q].arg # NoArg)
    BY DEF Handled
  <2>2. Fits(State, q)' /\ (cf[q].reason = "SEMOP" => cf[q].arg # NoArg)'
    BY <1>6, <1>8, <2>1 DEF Fits, State
  <2>3. Phase(cf'[q], ke'[q])
    <3>1. CASE q = p
      <4>1. cf'[q] = c /\ ke'[q] = k
        BY <1>3, <1>4, <3>1
      <4> QED  BY <1>1, <4>1 DEF Placed
    <3>2. CASE q # p
      <4>1. cf'[q] = s.cf[q] /\ ke'[q] = s.ke[q]
        BY <1>3, <1>4, <3>2
      <4> QED  BY <3>2, <4>1 DEF Handled
    <3> QED  BY <3>1, <3>2
  <2> QED  BY <2>2, <2>3
<1>10. Sound'
  BY <1>4, <1>7, <1>9 DEF Sound
<1> QED  BY <1>4, <1>8, <1>10

\* The same for those whose wait is known to be justified.
LEMMA FinishesBlocked ==
  ASSUME Sound, NEW p \in Procs, Fresh(p), NEW s, Handled(s, p), NEW status \in Results, Finish(s, p, status),
         \A q \in Procs : Blocked(s, q)
  PROVE  AllBlocked'
<1>1. sems' = s.sems /\ \A q \in Procs : cf'[q].reason = s.cf[q].reason /\ cf'[q].obj = s.cf[q].obj /\ cf'[q].arg = s.cf[q].arg
  BY Finishes
<1>2. State' = [cf |-> cf', ke |-> ke', crashed |-> crashed', sems |-> s.sems]
  BY <1>1 DEF State
<1>3. ASSUME NEW q \in Procs
      PROVE  Blocked(State, q)'
  BY <1>1, <1>2, <1>3 DEF Blocked
<1> QED  BY <1>3 DEF AllBlocked

\* A tracee whose call is handled does not wait.
LEMMA Caller ==
  ASSUME Sound, NEW p \in Procs, Fresh(p)
  PROVE  cf[p].reason = "NOT_WAITING" /\ cf[p].state = "NOT_WAITING" /\ ke[p].call \in AllCalls
<1>1. cf[p] \in Config /\ ke[p] \in Process /\ Phase(cf[p], ke[p])
  BY Parts
<1> QED  BY <1>1 DEF Fresh, Phase, Waiting, Process

\* A handler that changes sets, and leaves those that are waited for.
LEMMA SetsOnly ==
  ASSUME Sound, NEW p \in Procs, Fresh(p), NEW status \in Results, NEW x \in Seq(Set),
         \A q \in Procs : cf[q].reason = "SEMOP" =>
           /\ cf[q].obj \in DOMAIN x /\ x[cf[q].obj].valid
           /\ DOMAIN x[cf[q].obj].vals = DOMAIN sems[cf[q].obj].vals,
         Finish([State EXCEPT !.sems = x], p, status)
  PROVE  /\ Sound'
         /\ AllBlocked /\ (\A q \in Procs : cf[q].reason = "SEMOP" => Lowered(x[cf[q].obj].vals, sems[cf[q].obj].vals))
              => AllBlocked'
<1> DEFINE s == [State EXCEPT !.sems = x]
<1>1. cf \in [Procs -> Config] /\ ke \in [Procs -> Process] /\ sems \in Seq(Set) /\ crashed = FALSE
  BY Parts
<1>2. s = [cf |-> cf, ke |-> ke, crashed |-> FALSE, sems |-> x]
  <2>1. [State EXCEPT !.sems = x] = [cf |-> cf, ke |-> ke, crashed |-> crashed, sems |-> x]
    BY DEF State
  <2> QED  BY <1>1, <2>1
<1> HIDE DEF s
<1>3. Handled(s, p)
  <2>1. s \in Session
    BY <1>1, <1>2 DEF Session
  <2>2. s.cf[p].state = "NOT_WAITING"
    BY <1>2, Caller
  <2>3. ASSUME NEW q \in Procs
        PROVE  Phase(s.cf[q], s.ke[q]) /\ Fits(s, q) /\ (s.cf[q].reason = "SEMOP" => s.cf[q].arg # NoArg)
    <3>1. Phase(cf[q], ke[q]) /\ Fits(State, q) /\ (cf[q].reason = "SEMOP" => cf[q].arg # NoArg)
      BY DEF Sound
    <3> QED  BY <1>2, <3>1 DEF Fits, State
  <2> QED  BY <1>2, <2>1, <2>2, <2>3 DEF Handled
<1>4. Sound'
  BY <1>3, Finishes DEF s
<1>5. ASSUME AllBlocked, \A q \in Procs : cf[q].reason = "SEMOP" => Lowered(x[cf[q].obj].vals, sems[cf[q].obj].vals)
      PROVE  AllBlocked'
  <2>1. ASSUME NEW q \in Procs, cf[q].reason = "SEMOP"
        PROVE  Takes(cf[q].arg) /\ SemCheck(x[cf[q].obj].vals, cf[q].arg).status = Wait
    <3> DEFINE v == x[cf[q].obj].vals
               w == sems[cf[q].obj].vals
    <3>1. Takes(cf[q].arg) /\ SemCheck(w, cf[q].arg).status = Wait
      BY <1>5, <2>1 DEF AllBlocked, Blocked, State
    <3>2. cf[q].obj \in DOMAIN sems /\ cf[q].obj \in DOMAIN x /\ Inside(cf[q].arg, w) /\ Lowered(v, w)
      BY <1>5, <2>1 DEF Sound, Fits, State, Inside
    <3>3. v \in Values /\ w \in Values
      <4>1. x[cf[q].obj] \in Set /\ sems[cf[q].obj] \in Set
        BY <1>1, <3>2, ElementOfSeq
      <4> QED  BY <4>1 DEF Set
    <3>4. cf[q].arg \in Seq(Sembuf)
      BY <1>1 DEF Config
    <3> HIDE DEF v, w
    <3>5. SemCheck(v, cf[q].arg).status = Wait
      BY <3>1, <3>2, <3>3, <3>4, StillWaits
    <3> QED  BY <3>1, <3>5 DEF v
  <2>2. \A q \in Procs : Blocked(s, q)
    BY <1>2, <2>1 DEF Blocked
  <2> QED  BY <1>3, <2>2, FinishesBlocked DEF s
<1> QED  BY <1>4, <1>5

\* A handler that changes nothing.
LEMMA Refused ==
  ASSUME Sound, NEW p \in Procs, Fresh(p), NEW status \in Results, Finish(State, p, status)
  PROVE  Sound' /\ (AllBlocked => AllBlocked')
<1>1. sems \in Seq(Set)
  BY Parts
<1>2. State = [State EXCEPT !.sems = sems]
  BY DEF State
<1>3. ASSUME NEW q \in Procs, cf[q].reason = "SEMOP"
      PROVE  /\ cf[q].obj \in DOMAIN sems /\ sems[cf[q].obj].valid
             /\ Lowered(sems[cf[q].obj].vals, sems[cf[q].obj].vals)
  <2>1. cf[q].obj \in DOMAIN sems /\ sems[cf[q].obj].valid
    BY <1>3 DEF Sound, Fits, State
  <2>2. sems[cf[q].obj] \in Set
    BY <1>1, <2>1, ElementOfSeq
  <2>3. sems[cf[q].obj].vals \in Values
    BY <2>2 DEF Set
  <2> QED  BY <2>1, <2>3, LowerItself
<1> HIDE DEF State
<1>4. Finish([State EXCEPT !.sems = sems], p, status)
  BY <1>2
<1> QED  BY <1>1, <1>3, <1>4, SetsOnly

LEMMA SetvalStep ==
  ASSUME Sound, NEW p \in Procs, Fresh(p), ke[p].call.f = "setval", Setval(p, ke[p].call)
  PROVE  Sound' /\ (AllBlocked /\ Lowers => AllBlocked')
<1> DEFINE c == ke[p].call
           i == c.id.slot
<1>1. CASE Finish(State, p, "EINVAL") \/ Finish(State, p, "ERANGE")
  <2>1. "EINVAL" \in Results /\ "ERANGE" \in Results
    BY DEF Results, Statuses
  <2> QED  BY <1>1, <2>1, Refused
<1>2. CASE /\ Lookup(c.id) /\ ~(c.val > MaxVal) /\ c.num \in DOMAIN sems[i].vals
           /\ Finish([State EXCEPT !.sems[i].vals[c.num] = c.val], p, "OK")
  <2> DEFINE w == sems[i].vals
             v == [w EXCEPT ![c.num] = c.val]
             x == [sems EXCEPT ![i] = [sems[i] EXCEPT !.vals = v]]
  <2>1. sems \in Seq(Set) /\ i \in DOMAIN sems /\ sems[i] \in Set /\ w \in Values
    <3>1. sems \in Seq(Set) /\ i \in DOMAIN sems
      BY <1>2, Parts DEF Lookup
    <3>2. sems[i] \in Set
      BY <3>1, ElementOfSeq
    <3> QED  BY <3>1, <3>2 DEF Set
  <2>2. c.val \in 0 .. MaxVal
    <3>1. c \in AllCalls /\ c # NoCall
      BY Caller DEF NoCall
    <3>2. c.val \in Nat
      BY <3>1, SemAssumption DEF AllCalls
    <3>3. ~(c.val > MaxVal)
      BY <1>2
    <3> HIDE DEF c
    <3> QED  BY <3>2, <3>3, Constants
  <2>3. v \in Values /\ DOMAIN v = DOMAIN w
    BY <1>2, <2>1, <2>2, PutValue DEF Like
  <2>4. x \in Seq(Set) /\ DOMAIN x = DOMAIN sems /\ \A j \in DOMAIN sems : x[j] = IF j = i THEN [sems[i] EXCEPT !.vals = v] ELSE sems[j]
    <3>1. [sems[i] EXCEPT !.vals = v] \in Set
      BY <2>1, <2>3 DEF Set
    <3> HIDE DEF v, w
    <3> QED  BY <2>1, <3>1, ExceptSeq
  <2>5. \A j \in DOMAIN sems : x[j].valid = sems[j].valid /\ x[j].vals = IF j = i THEN v ELSE sems[j].vals
    BY <2>1, <2>4 DEF Set
  <2>6. Finish([State EXCEPT !.sems = x], p, "OK")
    <3>1. [State EXCEPT !.sems[i].vals[c.num] = c.val] = [State EXCEPT !.sems = x]
      BY <2>1 DEF State
    <3> HIDE DEF x
    <3> QED  BY <1>2, <3>1
  <2> HIDE DEF x, v
  <2>7. \A q \in Procs : cf[q].reason = "SEMOP" =>
          /\ cf[q].obj \in DOMAIN x /\ x[cf[q].obj].valid
          /\ DOMAIN x[cf[q].obj].vals = DOMAIN sems[cf[q].obj].vals
    <3> TAKE q \in Procs
    <3>1. cf[q].reason = "SEMOP" => cf[q].obj \in DOMAIN sems /\ sems[cf[q].obj].valid
      BY DEF Sound, Fits, State
    <3> QED  BY <2>3, <2>4, <2>5, <3>1
  <2>8. ASSUME Lowers, NEW q \in Procs, cf[q].reason = "SEMOP"
        PROVE  Lowered(x[cf[q].obj].vals, sems[cf[q].obj].vals)
    <3>1. cf[q].obj \in DOMAIN sems
      BY <2>8 DEF Sound, Fits, State
    <3>2. sems[cf[q].obj].vals \in Values
      <4>1. sems[cf[q].obj] \in Set
        BY <2>1, <3>1, ElementOfSeq
      <4> QED  BY <4>1 DEF Set
    <3>3. CASE cf[q].obj # i
      BY <2>5, <3>1, <3>2, <3>3, LowerItself
    <3>4. CASE cf[q].obj = i
      <4>1. c.val <= w[c.num]
        BY <1>2, <2>8, <3>4 DEF Lowers
      <4>2. \A n \in DOMAIN w : w[n] \in Int /\ v[n] = IF n = c.num THEN c.val ELSE w[n]
        BY <2>1, ValueType DEF v
      <4>3. Lowered(v, w)
        <5> HIDE DEF c, w
        <5> QED  BY <2>3, <4>1, <4>2 DEF Lowered
      <4> QED  BY <2>5, <3>1, <3>4, <4>3
    <3> QED  BY <3>3, <3>4
  <2>9. "OK" \in Results
    BY DEF Results, Statuses
  <2> QED  BY <2>4, <2>6, <2>7, <2>8, <2>9, SetsOnly
<1> QED  BY <1>1, <1>2 DEF Setval

\* A new set takes a slot that is free: nobody waits for what was there.
LEMMA SemgetStep ==
  ASSUME Sound, NEW p \in Procs, Fresh(p), ke[p].call.f = "semget", Semget(p, ke[p].call)
  PROVE  Sound' /\ (AllBlocked => AllBlocked')
<1> DEFINE c == ke[p].call
           unused == {i \in DOMAIN sems : ~sems[i].valid}
           slot == IF unused = {} THEN Len(sems) + 1 ELSE CHOOSE i \in unused : \A j \in unused : i <= j
           gen == IF unused = {} THEN 0 ELSE sems[slot].gen
           new == [key |-> c.key, gen |-> gen, valid |-> TRUE, vals |-> [n \in 1 .. c.nsems |-> 0]]
           x == IF unused = {} THEN Append(sems, new) ELSE [sems EXCEPT ![slot] = new]
<1>1. CASE \E status \in Results : Finish(State, p, status)
  BY <1>1, Refused
<1>2. CASE c.nsems \in 1 .. MaxNsems /\ Finish([State EXCEPT !.sems = x], p, "OK")
  <2>1. sems \in Seq(Set) /\ Len(sems) \in Nat /\ DOMAIN sems = 1 .. Len(sems)
    <3>1. sems \in Seq(Set)
      BY Parts
    <3> QED  BY <3>1
  <2>2. unused # {} => slot \in unused
    <3>1. ASSUME unused # {}
          PROVE  \E i \in unused : \A j \in unused : i <= j
      <4>1. unused \in SUBSET Nat
        BY <2>1
      <4> HIDE DEF unused
      <4> QED  BY <3>1, <4>1, Least
    <3> QED  BY <3>1
  <2>3. gen \in -HalfGen .. HalfGen - 1
    <3>1. unused # {} => sems[slot] \in Set
      BY <2>1, <2>2, ElementOfSeq
    <3> HIDE DEF slot, unused
    <3> QED  BY <3>1, Constants DEF Set
  <2>4. new \in Set
    <3>1. c.key \in {call.key : call \in AllCalls}
      BY Caller
    <3>2. [n \in 1 .. c.nsems |-> 0] \in Values
      <4>1. c.nsems \in Nat /\ 0 \in 0 .. MaxVal
        BY <1>2, Constants
      <4>2. ASSUME NEW n \in Nat
            PROVE  [m \in 1 .. n |-> 0] \in Seq(0 .. MaxVal)
        BY <4>1, IsASeq
      <4> HIDE DEF c
      <4> QED  BY <4>1, <4>2 DEF Values
    <3> HIDE DEF gen
    <3> QED  BY <2>3, <3>1, <3>2 DEF Set
  <2> HIDE DEF new, slot
  <2>5. x \in Seq(Set)
    BY <2>1, <2>2, <2>4, ExceptSeq
  <2>6. \A j \in DOMAIN sems \ unused : j \in DOMAIN x /\ x[j] = sems[j]
    BY <2>1, <2>2
  <2>7. \A q \in Procs : cf[q].reason = "SEMOP" => cf[q].obj \in DOMAIN sems /\ sems[cf[q].obj].valid
    BY DEF Sound, Fits, State
  <2>8. ASSUME NEW q \in Procs, cf[q].reason = "SEMOP"
        PROVE  /\ cf[q].obj \in DOMAIN x /\ x[cf[q].obj].valid
               /\ Lowered(x[cf[q].obj].vals, sems[cf[q].obj].vals)
    <3>1. cf[q].obj \in DOMAIN sems \ unused
      BY <2>7, <2>8
    <3>2. sems[cf[q].obj] \in Set
      BY <2>1, <3>1, ElementOfSeq
    <3>3. sems[cf[q].obj].vals \in Values
      BY <3>2 DEF Set
    <3> HIDE DEF x
    <3> QED  BY <2>6, <2>7, <2>8, <3>1, <3>3, LowerItself
  <2>9. "OK" \in Results
    BY DEF Results, Statuses
  <2> HIDE DEF x
  <2>10. \A q \in Procs : cf[q].reason = "SEMOP" =>
           /\ cf[q].obj \in DOMAIN x /\ x[cf[q].obj].valid
           /\ DOMAIN x[cf[q].obj].vals = DOMAIN sems[cf[q].obj].vals
    BY <2>8 DEF Lowered
  <2> QED  BY <1>2, <2>5, <2>8, <2>9, <2>10, SetsOnly
<1>3. (\E status \in {"EINVAL", "EEXIST", "OK", "ENOENT", "ENOSPC"} : Finish(State, p, status))
      \/ (c.nsems \in 1 .. MaxNsems /\ Finish([State EXCEPT !.sems = x], p, "OK"))
  <2>1. State.sems = sems
    BY DEF State
  <2> QED  BY <2>1 DEF Semget
<1>4. {"EINVAL", "EEXIST", "OK", "ENOENT", "ENOSPC"} \subseteq Results
  BY DEF Results, Statuses
<1> QED  BY <1>1, <1>2, <1>3, <1>4

\* Who waits for a set that is removed is woken before.
LEMMA RmidStep ==
  ASSUME Sound, NEW p \in Procs, Fresh(p), Rmid(p, ke[p].call)
  PROVE  Sound' /\ (AllBlocked => AllBlocked')
<1> DEFINE c == ke[p].call
           i == c.id.slot
           r == WakeAll(State, i)
           s == [r EXCEPT !.sems[i].valid = FALSE, !.sems[i].vals = <<>>, !.sems[i].gen = NextGen(@)]
<1>1. CASE Finish(State, p, "EINVAL")
  <2>1. "EINVAL" \in Results
    BY DEF Results
  <2> QED  BY <1>1, <2>1, Refused
<1>2. CASE Lookup(c.id) /\ Finish(s, p, "OK")
  <2>1. /\ State \in Session /\ i \in DOMAIN State.sems /\ ~State.crashed /\ State.cf = cf /\ State.ke = ke /\ State.sems = sems
        /\ cf[p].reason = "NOT_WAITING" /\ cf[p].state = "NOT_WAITING" /\ \A q \in Procs : Phase(cf[q], ke[q]) /\ Fits(State, q)
    BY <1>2, Caller DEF Lookup, State, Sound
  <2> DEFINE y == [r.sems[i] EXCEPT !.valid = FALSE, !.vals = <<>>, !.gen = NextGen(@)]
  <2> HIDE DEF State, i, c
  <2>2. r \in Near(p, i, State) /\ \A q \in Procs : ~WaitsFor(r, q, i)
    BY <2>1, AllWoken
  <2>3. r \in Session /\ i \in DOMAIN r.sems /\ r.sems[i] \in Set
    BY <2>1, <2>2, NearSets
  <2> HIDE DEF r
  <2>4. y \in Set
    <3>1. <<>> \in Values
      BY DEF Values
    <3>2. NextGen(r.sems[i].gen) \in -HalfGen .. HalfGen - 1
      BY <2>3, Constants DEF NextGen, Set
    <3> QED  BY <2>3, <3>1, <3>2 DEF Set
  <2>5. s = [r EXCEPT !.sems[i] = y]
    <3>1. r.sems \in Seq(Set)
      BY <2>3 DEF Session
    <3>2. [r.sems EXCEPT ![i].valid = FALSE, ![i].vals = <<>>, ![i].gen = NextGen(@)] = [r.sems EXCEPT ![i] = y]
      BY <2>3, <3>1 DEF Set
    <3> QED  BY <2>3, <3>2 DEF Session
  <2> HIDE DEF s, y
  <2>6. s \in Session /\ s.cf = r.cf /\ s.ke = r.ke /\ s.crashed = r.crashed /\ s.sems = [r.sems EXCEPT ![i] = y]
    <3>1. s \in Session
      BY <2>3, <2>4, <2>5, SetsOf
    <3> QED  BY <2>3, <2>5, <3>1 DEF Session
  <2>7. ~r.crashed /\ r.cf[p] = cf[p] /\ r.ke[p] = ke[p] /\ \A q \in Procs \ {p} : Phase(r.cf[q], r.ke[q])
    BY <2>1, <2>2 DEF Near
  <2>8. ASSUME NEW q \in Procs, s.cf[q].reason = "SEMOP"
        PROVE  /\ s.cf[q] = cf[q] /\ s.cf[q].obj \in DOMAIN sems /\ s.cf[q].obj \in DOMAIN s.sems
               /\ s.sems[s.cf[q].obj] = sems[cf[q].obj]
    <3>1. s.cf[q] = cf[q] /\ s.cf[q].obj # i
      BY <2>1, <2>2, <2>6, <2>8 DEF Near, WaitsFor
    <3>2. s.cf[q].obj \in DOMAIN sems
      BY <2>1, <2>8, <3>1 DEF Fits
    <3>3. s.cf[q].obj \in DOMAIN r.sems /\ r.sems[s.cf[q].obj] = sems[s.cf[q].obj]
      BY <2>1, <2>2, <3>1, <3>2 DEF Near
    <3>4. s.cf[q].obj \in DOMAIN s.sems /\ s.sems[s.cf[q].obj] = r.sems[s.cf[q].obj]
      BY <2>6, <3>1, <3>3
    <3> QED  BY <3>1, <3>2, <3>3, <3>4
  <2>9. \A q \in Procs : Fits(s, q) /\ (s.cf[q].reason = "SEMOP" => s.cf[q].arg # NoArg)
    <3> TAKE q \in Procs
    <3>1. Fits(State, q) /\ (cf[q].reason = "SEMOP" => cf[q].arg # NoArg)
      BY DEF Sound
    <3> QED  BY <2>1, <2>8, <3>1 DEF Fits
  <2>10. Handled(s, p)
    BY <2>1, <2>6, <2>7, <2>9 DEF Handled
  <2>11. AllBlocked => \A q \in Procs : Blocked(s, q)
    BY <2>1, <2>8 DEF AllBlocked, Blocked
  <2>12. "OK" \in Results
    BY DEF Results, Statuses
  <2> QED  BY <1>2, <2>10, <2>11, <2>12, Finishes, FinishesBlocked
<1> QED  BY <1>1, <1>2 DEF Rmid

\* The caller does the operations, or waits; then the others are looked at.
LEMMA SemopStep ==
  ASSUME Sound, NEW p \in Procs, Fresh(p), ke[p].call.f = "semop", Semop(p, ke[p].call)
  PROVE  Sound' /\ (AllBlocked /\ (Takes(ke[p].call.sops) \/ Gives(ke[p].call.sops)) => AllBlocked')
<1> DEFINE c == ke[p].call
           i == c.id.slot
           check == SemCheck(sems[i].vals, c.sops)
           asking == [State EXCEPT !.cf[p].reason = "SEMOP", !.cf[p].obj = i, !.cf[p].arg = c.sops, !.sems[i].vals = check.vals]
           others == CheckOthers(asking, p, i)
           done == [others EXCEPT !.cf[p].reason = "NOT_WAITING", !.cf[p].obj = 0, !.cf[p].arg = NoArg]
<1>1. CASE Finish(State, p, "EINVAL") \/ Finish(State, p, "EFBIG")
  <2>1. "EINVAL" \in Results /\ "EFBIG" \in Results
    BY DEF Results
  <2> QED  BY <1>1, <2>1, Refused
<1>2. CASE /\ Lookup(c.id) /\ (\A o \in Range(c.sops) : o.num \in DOMAIN sems[i].vals)
           /\ \/ check.status = Wait /\ Finish(others, p, NoResult)
              \/ check.status # Wait /\ Finish(done, p, check.status)
  <2>1. /\ cf \in [Procs -> Config] /\ ke \in [Procs -> Process] /\ sems \in Seq(Set) /\ crashed = FALSE /\ i \in DOMAIN sems
        /\ sems[i].valid /\ cf[p].reason = "NOT_WAITING" /\ cf[p].state = "NOT_WAITING"
    BY <1>2, Parts, Caller DEF Lookup
  <2>2. sems[i] \in Set /\ sems[i].vals \in Values /\ i \in Int
    <3>1. sems[i] \in Set /\ i \in Int
      BY <2>1, ElementOfSeq
    <3> QED  BY <3>1 DEF Set
  <2>3. c.sops \in Seq(Sembuf) /\ Inside(c.sops, sems[i].vals)
    <3>1. c \in AllCalls /\ c # NoCall
      BY Caller DEF NoCall
    <3> QED  BY <1>2, <3>1, SemAssumption DEF AllCalls, Sembuf, Inside
  <2>4. /\ check.status \in Statuses /\ check.vals \in Values /\ DOMAIN check.vals = DOMAIN sems[i].vals
        /\ check.status # "OK" => check.vals = sems[i].vals
        /\ c.sops = NoArg => check.status = "OK"
    <3>1. check \in Checks(sems[i].vals)
      BY <2>2, <2>3, CheckType
    <3> HIDE DEF i, c
    <3> QED  BY <2>2, <2>3, <3>1, CheckType DEF Checks, Like
  <2> DEFINE cp == [cf[p] EXCEPT !.reason = "SEMOP", !.obj = i, !.arg = c.sops]
             x == [sems[i] EXCEPT !.vals = check.vals]
  <2> HIDE DEF i, c, check
  <2>5. cp \in Config /\ cp.reason = "SEMOP" /\ cp.obj = i /\ cp.arg = c.sops /\ cp.state = "NOT_WAITING" /\ cp.sigstop = cf[p].sigstop
    BY <2>1, <2>2, <2>3 DEF Config
  <2>6. x \in Set /\ x.vals = check.vals /\ x.valid
    BY <2>1, <2>2, <2>4 DEF Set
  <2>7. asking = [cf |-> [cf EXCEPT ![p] = cp], ke |-> ke, crashed |-> FALSE, sems |-> [sems EXCEPT ![i] = x]]
    <3>1. [cf EXCEPT ![p].reason = "SEMOP", ![p].obj = i, ![p].arg = c.sops] = [cf EXCEPT ![p] = cp]
      BY <2>1
    <3>2. [sems EXCEPT ![i].vals = check.vals] = [sems EXCEPT ![i] = x]
      BY <2>1
    <3>3. asking = [cf |-> [cf EXCEPT ![p].reason = "SEMOP", ![p].obj = i, ![p].arg = c.sops], ke |-> ke, crashed |-> crashed,
                    sems |-> [sems EXCEPT ![i].vals = check.vals]]
      <4> DEFINE f == [cf EXCEPT ![p].reason = "SEMOP", ![p].obj = i, ![p].arg = c.sops]
                 t == [State EXCEPT !.cf[p].reason = "SEMOP", !.cf[p].obj = i, !.cf[p].arg = c.sops]
      <4>1. t = [cf |-> f, ke |-> ke, crashed |-> crashed, sems |-> sems]
        <5> DEFINE Made(g) == [cf |-> g, ke |-> ke, crashed |-> crashed, sems |-> sems]
                   g1 == [cf EXCEPT ![p].reason = "SEMOP"]
                   g2 == [g1 EXCEPT ![p].obj = i]
                   g3 == [g2 EXCEPT ![p].arg = c.sops]
        <5>1. State = Made(cf)
          BY DEF State
        <5>2. [Made(cf) EXCEPT !.cf[p].reason = "SEMOP"] = Made(g1)
          OBVIOUS
        <5>3. [Made(g1) EXCEPT !.cf[p].obj = i] = Made(g2)
          <6> HIDE DEF g1
          <6> QED  OBVIOUS
        <5>4. [Made(g2) EXCEPT !.cf[p].arg = c.sops] = Made(g3)
          <6> HIDE DEF g2
          <6> QED  OBVIOUS
        <5>5. f = g3
          OBVIOUS
        <5>6. t = [[[State EXCEPT !.cf[p].reason = "SEMOP"] EXCEPT !.cf[p].obj = i] EXCEPT !.cf[p].arg = c.sops]
          OBVIOUS
        <5> HIDE DEF Made, State, g1, g2, g3, f, t
        <5>7. t = Made(g3)
          BY <5>1, <5>2, <5>3, <5>4, <5>6
        <5> QED  BY <5>5, <5>7 DEF Made
      <4>2. asking = [t EXCEPT !.sems[i].vals = check.vals]
        OBVIOUS
      <4> HIDE DEF t, f, asking
      <4>3. asking = [cf |-> f, ke |-> ke, crashed |-> crashed, sems |-> [sems EXCEPT ![i].vals = check.vals]]
        BY <4>1, <4>2
      <4> QED  BY <4>3 DEF f
    <3> HIDE DEF asking, cp, x
    <3> QED  BY <2>1, <3>1, <3>2, <3>3
  <2> HIDE DEF asking, cp, x
  <2>8. asking \in Session /\ DOMAIN asking.sems = DOMAIN sems
    <3>1. [cf EXCEPT ![p] = cp] \in [Procs -> Config]
      BY <2>1, <2>5
    <3>2. [sems EXCEPT ![i] = x] \in Seq(Set) /\ DOMAIN [sems EXCEPT ![i] = x] = DOMAIN sems
      BY <2>1, <2>6, ExceptSeq
    <3> QED  BY <2>1, <2>7, <3>1, <3>2 DEF Session
  <2>9. /\ ~asking.crashed /\ asking.cf[p] = cp /\ asking.ke = ke
        /\ \A q \in Procs \ {p} : asking.cf[q] = cf[q] /\ Phase(asking.cf[q], asking.ke[q])
        /\ asking.sems[i] = x /\ \A j \in DOMAIN sems : j # i => asking.sems[j] = sems[j]
    <3>1. \A q \in Procs : Phase(cf[q], ke[q])
      BY DEF Sound
    <3> QED  BY <2>1, <2>7, <3>1
  <2>10. \A q \in Procs : Fits(asking, q)
    <3> TAKE q \in Procs
    <3>1. CASE q = p
      BY <2>1, <2>3, <2>4, <2>5, <2>6, <2>8, <2>9, <3>1 DEF Fits, Inside
    <3>2. CASE q # p
      <4>1. Fits(State, q) /\ State.cf = cf /\ State.sems = sems
        BY DEF Sound, State
      <4>2. asking.cf[q] = cf[q]
        BY <2>9, <3>2
      <4>3. \A j \in DOMAIN sems : sems[j].valid => asking.sems[j].valid /\ DOMAIN asking.sems[j].vals = DOMAIN sems[j].vals
        BY <2>4, <2>6, <2>9
      <4> QED  BY <2>8, <4>1, <4>2, <4>3 DEF Fits
    <3> QED  BY <3>1, <3>2
  <2>11. others \in Near(p, i, asking)
    BY <2>1, <2>8, <2>9, <2>10, CheckOthersNear
  <2>12. /\ others \in Session /\ others.sems[i] \in Set /\ DOMAIN others.sems = DOMAIN sems
         /\ \A j \in DOMAIN sems : others.sems[j].valid = asking.sems[j].valid
                                   /\ DOMAIN others.sems[j].vals = DOMAIN asking.sems[j].vals
    <3>1. i \in DOMAIN asking.sems
      BY <2>1, <2>8
    <3> HIDE DEF others, asking
    <3>2. /\ others \in Session /\ others.sems[i] \in Set
          /\ \A j \in DOMAIN asking.sems : others.sems[j].valid = asking.sems[j].valid
                                          /\ DOMAIN others.sems[j].vals = DOMAIN asking.sems[j].vals
      BY <2>8, <2>11, <3>1, NearSets
    <3>3. DOMAIN others.sems = DOMAIN asking.sems
      BY <2>11 DEF Near
    <3> QED  BY <2>8, <3>2, <3>3
  <2>13. /\ ~others.crashed /\ others.cf[p] = cp /\ others.ke[p] = ke[p] /\ \A q \in Procs \ {p} : Phase(others.cf[q], others.ke[q])
         /\ \A q \in Procs : others.cf[q] = asking.cf[q] \/ others.cf[q].reason = "NOT_WAITING"
         /\ \A j \in DOMAIN sems : j # i => others.sems[j] = sems[j]
    BY <2>8, <2>9, <2>11 DEF Near
  <2> HIDE DEF others
  <2>14. \A q \in Procs : Fits(others, q)
    BY <2>8, <2>10, <2>12, <2>13 DEF Fits
  <2>15. ASSUME AllBlocked
         PROVE  /\ \A q \in Procs \ {p} : Blocked(others, q)
                /\ Lowered(others.sems[i].vals, check.vals)
    <3>1. \A q \in Procs : cf[q].reason = "SEMOP" =>
            Takes(cf[q].arg) /\ SemCheck(sems[cf[q].obj].vals, cf[q].arg).status = Wait
      BY <2>15 DEF AllBlocked, Blocked, State
    <3>2. \A q \in Procs \ {p} : WaitsFor(asking, q, i) => Takes(asking.cf[q].arg)
      BY <2>9, <3>1 DEF WaitsFor
    <3>3. Lowered(others.sems[i].vals, asking.sems[i].vals) /\ \A q \in Procs : SleepsOn(others, p, i, q)
      BY <2>1, <2>8, <2>9, <2>10, <3>2, OthersSleepOn DEF others
    <3>4. ASSUME NEW q \in Procs \ {p}, others.cf[q].reason = "SEMOP"
          PROVE  Takes(others.cf[q].arg) /\ SemCheck(others.sems[others.cf[q].obj].vals, others.cf[q].arg).status = Wait
      <4>1. others.cf[q] = cf[q]
        BY <2>9, <2>13, <3>4
      <4>2. CASE cf[q].obj = i
        BY <3>1, <3>3, <3>4, <4>1, <4>2 DEF SleepsOn, WaitsFor
      <4>3. CASE cf[q].obj # i
        <5>1. cf[q].obj \in DOMAIN sems
          BY <3>4, <4>1 DEF Sound, Fits, State
        <5> QED  BY <2>13, <3>1, <3>4, <4>1, <4>3, <5>1
      <4> QED  BY <4>2, <4>3
    <3> QED  BY <2>6, <2>9, <3>3, <3>4 DEF Blocked
  <2>16. \A q \in Procs \ {p} : others.cf[q].reason = "SEMOP" => others.cf[q].arg # NoArg
    BY <2>9, <2>13 DEF Sound
  <2>17. CASE check.status = Wait /\ Finish(others, p, NoResult)
    <3>1. c.sops # NoArg
      BY <2>4, <2>17 DEF Wait
    <3>2. Handled(others, p)
      BY <2>5, <2>12, <2>13, <2>14, <2>16, <3>1 DEF Handled
    <3>3. ASSUME AllBlocked, Takes(c.sops) \/ Gives(c.sops)
          PROVE  \A q \in Procs : Blocked(others, q)
      <4>1. Takes(c.sops)
        BY <2>2, <2>3, <2>17, <3>3, GiversGoOn DEF check
      <4>2. check.vals = sems[i].vals
        BY <2>4, <2>17 DEF Wait
      <4>3. others.sems[i].vals \in Values
        BY <2>12 DEF Set
      <4>4. SemCheck(others.sems[i].vals, c.sops).status = Wait
        <5>1. Lowered(others.sems[i].vals, sems[i].vals)
          BY <2>15, <3>3, <4>2
        <5>2. SemCheck(sems[i].vals, c.sops).status = Wait
          BY <2>17 DEF check
        <5> QED  BY <2>2, <2>3, <4>1, <4>3, <5>1, <5>2, StillWaits
      <4>5. Blocked(others, p)
        BY <2>5, <2>13, <4>1, <4>4 DEF Blocked
      <4> QED  BY <2>15, <3>3, <4>5
    <3>4. NoResult \in Results
      BY DEF Results
    <3> QED  BY <2>17, <3>2, <3>3, <3>4, Finishes, FinishesBlocked DEF c
  <2>18. CASE check.status # Wait /\ Finish(done, p, check.status)
    <3> DEFINE cd == [cp EXCEPT !.reason = "NOT_WAITING", !.obj = 0, !.arg = NoArg]
    <3>1. cd \in Config /\ cd.reason = "NOT_WAITING" /\ cd.state = "NOT_WAITING" /\ cd.sigstop = cf[p].sigstop
      <4>1. NoArg \in Seq(Sembuf) /\ 0 \in Int
        BY DEF NoArg
      <4> QED  BY <2>5, <4>1 DEF Config
    <3>2. done = [others EXCEPT !.cf[p] = cd]
      <4>1. others.cf \in [Procs -> Config]
        BY <2>12 DEF Session
      <4>2. [others.cf EXCEPT ![p].reason = "NOT_WAITING", ![p].obj = 0, ![p].arg = NoArg] = [others.cf EXCEPT ![p] = cd]
        BY <2>13, <4>1
      <4> QED  BY <2>12, <4>2 DEF Session
    <3> HIDE DEF done, cd
    <3>3. /\ done \in Session /\ done.cf = [others.cf EXCEPT ![p] = cd] /\ done.ke = others.ke
          /\ done.crashed = others.crashed /\ done.sems = others.sems
      <4>1. done \in Session
        BY <2>12, <3>1, <3>2, Put DEF Session
      <4> QED  BY <2>12, <3>2, <4>1 DEF Session
    <3>4. done.cf[p] = cd /\ \A q \in Procs \ {p} : done.cf[q] = others.cf[q]
      BY <2>12, <3>3 DEF Session
    <3>5. Handled(done, p)
      <4>1. \A q \in Procs : Fits(done, q) /\ (done.cf[q].reason = "SEMOP" => done.cf[q].arg # NoArg)
        BY <2>14, <2>16, <3>1, <3>3, <3>4 DEF Fits
      <4> QED  BY <2>13, <3>1, <3>3, <3>4, <4>1 DEF Handled
    <3>6. AllBlocked => \A q \in Procs : Blocked(done, q)
      BY <2>15, <3>1, <3>3, <3>4 DEF Blocked
    <3>7. check.status \in Results
      BY <2>4 DEF Results
    <3> QED  BY <2>18, <3>5, <3>6, <3>7, Finishes, FinishesBlocked
  <2> QED  BY <1>2, <2>17, <2>18 DEF check, others, asking, i, c
<1> QED  BY <1>1, <1>2 DEF Semop

------------------------------------------------------------------------------
(* The theorems                                                              *)

LEMMA Starts ==
  ASSUME Init
  PROVE  Sound /\ AllBlocked
<1>1. NoArg \in Seq(Sembuf) /\ NoResult \in Results /\ NoCall \in AllCalls /\ <<>> \in Seq(Set)
  BY DEF NoArg, Results, AllCalls
<1>2. NewConfig \in Config /\ NewProcess \in Process
  BY <1>1 DEF NewConfig, NewProcess, Config, Process, States, Positions
<1>3. cf = [p \in Procs |-> NewConfig] /\ ke = [p \in Procs |-> NewProcess] /\ crashed = FALSE /\ sems = <<>>
  BY DEF Init, WaitInit
<1>4. State \in Session
  BY <1>1, <1>2, <1>3 DEF State, Session
<1>5. \A p \in Procs : cf[p].reason = "NOT_WAITING" /\ Phase(cf[p], ke[p])
  BY <1>3 DEF NewConfig, NewProcess, Phase, Waiting
<1> QED  BY <1>3, <1>4, <1>5 DEF Sound, Fits, AllBlocked, Blocked, State

LEMMA Steady ==
  ASSUME Sound, [Next]_vars
  PROVE  Sound' /\ (AllBlocked /\ Lowers /\ TakesOrGives => AllBlocked')
<1>1. CASE UNCHANGED vars
  <2>1. cf' = cf /\ ke' = ke /\ crashed' = crashed /\ sems' = sems
    BY <1>1 DEF vars, waitVars
  <2>2. State' = State
    BY <2>1 DEF State
  <2> QED  BY <2>1, <2>2 DEF Sound, AllBlocked, Fits, Phase, Blocked
<1>2. ASSUME NEW p \in Procs, HandleCall(p)
      PROVE  Sound' /\ (AllBlocked /\ Lowers /\ TakesOrGives => AllBlocked')
  <2>1. Fresh(p)
    BY <1>2 DEF HandleCall
  <2>2. CASE ke[p].call.f = "semop" /\ Semop(p, ke[p].call)
    <3>1. TakesOrGives => Takes(ke[p].call.sops) \/ Gives(ke[p].call.sops)
      <4>1. ke[p].call \in AllCalls /\ ke[p].call # NoCall
        BY <2>1, <2>2, Caller DEF NoCall
      <4> QED  BY <2>2, <4>1 DEF TakesOrGives, AllCalls
    <3> QED  BY <2>1, <2>2, <3>1, SemopStep
  <2>3. CASE ke[p].call.f = "setval" /\ Setval(p, ke[p].call)
    BY <2>1, <2>3, SetvalStep
  <2>4. CASE Rmid(p, ke[p].call)
    BY <2>1, <2>4, RmidStep
  <2>5. CASE ke[p].call.f = "semget" /\ Semget(p, ke[p].call)
    BY <2>1, <2>5, SemgetStep
  <2> QED  BY <1>2, <2>2, <2>3, <2>4, <2>5 DEF HandleCall
<1>3. ASSUME NEW p \in Procs, WaitNext(p), UNCHANGED sems
      PROVE  Sound' /\ (AllBlocked => AllBlocked')
  <2>1. CASE SyscallEnterStart(p)
    BY <1>3, <2>1, EnterStep
  <2>2. CASE SyscallExitStart(p)
    BY <1>3, <2>2, ExitStep
  <2>3. CASE HandleSigstop(p) \/ FreeTracee(p)
    BY <1>3, <2>3, StopStep
  <2>4. CASE MakeAgain(p) \/ Leave(p) \/ TakeSigstop(p) \/ Interrupt(p) \/ Kill(p)
    BY <1>3, <2>4, KernelStep
  <2> QED  BY <1>3, <2>1, <2>2, <2>3, <2>4 DEF WaitNext, WaitSteps
<1>4. ASSUME NEW p \in Procs, \E c \in Programs[p] : Call(p, c), UNCHANGED sems
      PROVE  Sound' /\ (AllBlocked => AllBlocked')
  BY <1>4, KernelStep
<1> QED  BY <1>1, <1>2, <1>3, <1>4 DEF Next

LEMMA SoundWaits ==
  ASSUME Sound
  PROVE  TypeOK /\ AssertionsHold /\ WakeupsTaken /\ WaitersHaveSets
<1>1. \A i \in DOMAIN sems : sems[i] \in Set
  <2>1. sems \in Seq(Set)
    BY DEF Sound, State, Session
  <2> QED  BY <2>1, ElementOfSeq
<1>2. \A p \in Procs : cf[p] \in Config /\ ke[p] \in Process /\ Phase(cf[p], ke[p])
  BY Parts
<1>3. TypeOK
  BY <1>1, <1>2 DEF TypeOK, Set, Values, Config, Process, States, Positions
<1>4. WakeupsTaken
  BY <1>2 DEF WakeupsTaken, Phase
<1>5. WaitersHaveSets
  BY DEF WaitersHaveSets, Sound, Fits, State
<1>6. AssertionsHold
  BY DEF Sound, AssertionsHold
<1> QED  BY <1>3, <1>4, <1>5, <1>6

\* Nobody is woken who does not wait, no call is handled while another one of the tracee still waits, the SIGSTOP that
\* ends a wait is never lost nor seen by the program, and a tracee that waits, waits for a set that exists, with
\* operations on its semaphores: sysvipc_wake_tracee, sysvipc_syscall_common and the three stages of the extension
\* (sysvipc.c:30-66, 225-300, 340-370), and the uses without a check in sysvipc_sem.c:158-172.
THEOREM WaitsInStep == Spec => [](TypeOK /\ AssertionsHold /\ WakeupsTaken /\ WaitersHaveSets)
<1>1. Init => Sound
  BY Starts
<1>2. Sound /\ [Next]_vars => Sound'
  BY Steady
<1>3. Sound => TypeOK /\ AssertionsHold /\ WakeupsTaken /\ WaitersHaveSets
  BY SoundWaits
<1> QED  BY <1>1, <1>2, <1>3, PTL DEF Spec

\* Who waits, waits for something that is not there (sysvipc_sem.c:77, "Returns 1 if tracee should still wait"), as
\* long as each call either takes or gives and no SETVAL raises a value that is waited for: then the one pass of
\* sysvipc_sem_check_others() after a semop is enough, whatever the order of the list.
THEOREM NobodyWaitsInVain ==
  ASSUME TakesOrGives
  PROVE  Spec /\ []Lowers => []WaitsAreSound
<1>1. Init => Sound /\ AllBlocked
  BY Starts
<1>2. Sound /\ AllBlocked /\ Lowers /\ [Next]_vars => Sound' /\ AllBlocked'
  BY TakesOrGives, Steady
<1>3. Sound /\ AllBlocked => WaitsAreSound
  <2>1. AllBlocked => NobodyFeasible
    BY DEF AllBlocked, Blocked, NobodyFeasible, State
  <2> QED  BY <2>1, SoundWaits DEF WaitsAreSound
<1> QED  BY <1>1, <1>2, <1>3, PTL DEF Spec

=============================================================================
