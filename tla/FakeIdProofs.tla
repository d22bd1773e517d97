----------------------------- MODULE FakeIdProofs -----------------------------
(* Theorems about FakeId, for any identifiers, any option -i and any sequence *)
(* of calls.                                                                  *)
EXTENDS FakeId, TLAPS

Held(x) == {x.r, x.e, x.s}

\* What a call may make of the identifiers x of one kind.
Outcome(c, x, ids) == ids \in XIds /\ (Privileged(c) \/ Held(ids) \subseteq Held(x))

------------------------------------------------------------------------------
(* The calls                                                                 *)

LEMMA Numbers == Ids \subseteq Int /\ Minus1 \in Int /\ Minus1 \notin Ids /\ 0 \in Ids /\ Asked \subseteq Ids
  BY FakeIdAssumption DEF Minus1

\* The identifiers of a kind, among those of a Config.
LEMMA OfKind ==
  ASSUME NEW c \in Configs, NEW k \in Kinds
  PROVE  /\ c[k] \in XIds /\ c[k].r \in Ids /\ c[k].e \in Ids /\ c[k].s \in Ids /\ c[k].fs \in Ids
         /\ \A ids \in XIds : [c EXCEPT ![k] = ids] \in Configs
<1>1. CASE k = "u"  BY <1>1 DEF Configs, XIds
<1>2. CASE k = "g"  BY <1>2 DEF Configs, XIds
<1> QED  BY <1>1, <1>2 DEF Kinds

LEMMA OrIsAnId ==
  ASSUME NEW i \in Args, NEW old \in Ids
  PROVE  Or(i, old) \in Ids /\ Or(i, old) \in {i, old}
  BY DEF Or, Args

LEMMA SetXidOutcome ==
  ASSUME NEW c \in Configs, NEW k \in Kinds, NEW a \in {<<i>> : i \in Ids}, NEW d \in SetXid(c, k, a)
  PROVE  \E ids \in XIds : d = [c EXCEPT ![k] = ids] /\ Outcome(c, c[k], ids)
<1> DEFINE ids == IF c["u"].e = 0 THEN Same(a[1]) ELSE [c[k] EXCEPT !.e = a[1], !.fs = a[1]]
<1>1. d = [c EXCEPT ![k] = ids] /\ (Privileged(c) \/ HasId(c, k, a[1]))
  BY DEF SetXid, Given, EPERM
<1>2. ids \in XIds
  <2>1. a[1] \in Ids /\ c[k] \in XIds
    BY OfKind
  <2>2. Same(a[1]) \in XIds
    BY <2>1 DEF XIds, Same
  <2>3. [c[k] EXCEPT !.e = a[1], !.fs = a[1]] \in XIds
    BY <2>1 DEF XIds
  <2> QED  BY <2>2, <2>3
<1>3. Privileged(c) \/ Held(ids) \subseteq Held(c[k])
  BY <1>1, OfKind DEF Held, HasId, Privileged, XIds
<1> QED  BY <1>1, <1>2, <1>3 DEF Outcome

LEMMA SetReXidOutcome ==
  ASSUME NEW c \in Configs, NEW k \in Kinds, NEW a \in Args \X Args, NEW d \in SetReXid(c, k, a)
  PROVE  \E ids \in XIds : d = [c EXCEPT ![k] = ids] /\ Outcome(c, c[k], ids)
<1> DEFINE x == c[k]
           saves == a[2] # Minus1 /\ (a[2] # x.r \/ a[1] # Minus1)
           ids == [r |-> Or(a[1], x.r), e |-> Or(a[2], x.e), fs |-> Or(a[2], x.fs), s |-> IF saves THEN a[2] ELSE x.s]
           allowed == \/ Unchanged(a[2], x.e) /\ Unchanged(a[1], x.r)
                      \/ a[1] = x.e /\ (a[2] = x.r \/ Unchanged(a[2], x.e))
                      \/ a[2] = x.r /\ (a[1] = x.e \/ Unchanged(a[1], x.r))
                      \/ a[2] = x.s /\ Unchanged(a[1], x.r)
<1>1. d = [c EXCEPT ![k] = ids] /\ (Privileged(c) \/ allowed)
  BY DEF SetReXid, Given, EPERM
<1>2. ids \in XIds
  <2>1. a[1] \in Args /\ a[2] \in Args
    OBVIOUS
  <2>2. saves => a[2] \in Ids
    BY <2>1 DEF Args
  <2> QED  BY <2>1, <2>2, OfKind, OrIsAnId DEF XIds
<1>3. allowed => Held(ids) \subseteq Held(x)
  BY OfKind DEF Held, Unchanged, Or
<1> QED  BY <1>1, <1>2, <1>3 DEF Outcome

LEMMA SetResXidOutcome ==
  ASSUME NEW c \in Configs, NEW k \in Kinds, NEW a \in Args \X Args \X Args, NEW d \in SetResXid(c, k, a)
  PROVE  \E ids \in XIds : d = [c EXCEPT ![k] = ids] /\ Outcome(c, c[k], ids)
<1> DEFINE x == c[k]
           ids == [r |-> Or(a[1], x.r), e |-> Or(a[2], x.e), s |-> Or(a[3], x.s), fs |-> Or(a[2], x.fs)]
           allowed == \A i \in 1 .. 3 : a[i] = Minus1 \/ HasId(c, k, a[i])
<1>1. d = [c EXCEPT ![k] = ids] /\ (Privileged(c) \/ allowed)
  BY DEF SetResXid, Given, EPERM
<1>2. ids \in XIds
  BY OfKind, OrIsAnId DEF XIds
<1>3. allowed => Held(ids) \subseteq Held(x)
  BY OfKind DEF Held, HasId, Or
<1> QED  BY <1>1, <1>2, <1>3 DEF Outcome

LEMMA SetFsXidOutcome ==
  ASSUME NEW c \in Configs, NEW k \in Kinds, NEW a \in {<<i>> : i \in Ids}, NEW d \in SetFsXid(c, k, a)
  PROVE  \E ids \in XIds : d = [c EXCEPT ![k] = ids] /\ Outcome(c, c[k], ids)
<1>1. CASE d = [c EXCEPT ![k].fs = a[1]]
  <2> DEFINE ids == [c[k] EXCEPT !.fs = a[1]]
  <2>1. ids \in XIds /\ Held(ids) = Held(c[k])
    BY OfKind DEF XIds, Held
  <2> QED  BY <1>1, <2>1 DEF Outcome
<1>2. CASE d = c
  <2>1. c = [c EXCEPT ![k] = c[k]]
    BY DEF Configs, Kinds
  <2> QED  BY <1>2, <2>1, OfKind DEF Outcome
<1> QED  BY <1>1, <1>2 DEF SetFsXid

\* A call changes the identifiers of its kind, to some that they were unless the process is privileged.
LEMMA CallOutcome ==
  ASSUME NEW call \in Calls, NEW c \in Configs, NEW k \in Kinds, NEW a \in ArgsOf(call), NEW d \in Emulated(call, c, k, a)
  PROVE  \E ids \in XIds : d = [c EXCEPT ![k] = ids] /\ Outcome(c, c[k], ids)
<1>1. CASE call = "setXid"    BY <1>1, SetXidOutcome DEF Emulated, ArgsOf
<1>2. CASE call = "setreXid"  BY <1>2, SetReXidOutcome DEF Emulated, ArgsOf
<1>3. CASE call = "setresXid" BY <1>3, SetResXidOutcome DEF Emulated, ArgsOf
<1>4. CASE call = "setfsXid"  BY <1>4, SetFsXidOutcome DEF Emulated, ArgsOf
<1> QED  BY <1>1, <1>2, <1>3, <1>4 DEF Calls

------------------------------------------------------------------------------
(* The steps                                                                 *)

LEMMA Start == FakeInit => config \in Configs
  BY Numbers DEF FakeInit, Configs, XIds, Same

LEMMA CallStep ==
  ASSUME config \in Configs, NEW call \in Calls, NEW k \in Kinds, NEW a \in ArgsOf(call), SysexitEnd(call, k, a)
  PROVE  config' \in Configs /\ RaisesNothing
<1>1. CASE UNCHANGED config
  BY <1>1 DEF RaisesNothing
<1>2. CASE config' \in Emulated(call, config, k, a)
  <2>1. PICK ids \in XIds : config' = [config EXCEPT ![k] = ids] /\ Outcome(config, config[k], ids)
    BY <1>2, CallOutcome
  <2>2. config' \in Configs
    BY <2>1, OfKind
  <2>3. ASSUME ~Privileged(config), NEW j \in Kinds
        PROVE  {config'[j].r, config'[j].e, config'[j].s} \subseteq {config[j].r, config[j].e, config[j].s}
    <3>1. Held(ids) \subseteq Held(config[k])
      BY <2>1, <2>3 DEF Outcome
    <3>2. config'[j] = IF j = k THEN ids ELSE config[j]
      BY <2>1 DEF Configs, Kinds
    <3> QED  BY <3>1, <3>2 DEF Held
  <2> QED  BY <2>2, <2>3 DEF RaisesNothing
<1> QED  BY <1>1, <1>2 DEF SysexitEnd

LEMMA BitsStep ==
  ASSUME config \in Configs, NEW bits \in SUBSET Kinds, SysexitStart(bits)
  PROVE  config' \in Configs /\ RaisesNothing
<1> DEFINE Raised(x) == IF x \in bits THEN [config[x] EXCEPT !.e = 0, !.s = 0] ELSE config[x]
<1>1. DOMAIN config = {"u", "g", "initial"} /\ "initial" \notin bits
  BY DEF Configs, Kinds
<1>2. config' = [u |-> Raised("u"), g |-> Raised("g"), initial |-> config.initial]
  BY <1>1 DEF SysexitStart
<1>3. ASSUME NEW k \in Kinds
      PROVE  Raised(k) \in XIds
  <2>1. config[k] \in XIds /\ 0 \in Ids
    BY Numbers, OfKind
  <2> QED  BY <2>1 DEF XIds
<1>4. config' \in Configs
  BY <1>2, <1>3 DEF Configs, Kinds
<1> QED  BY <1>4 DEF RaisesNothing

LEMMA FakeStep == config \in Configs /\ [FakeNext]_config => (config \in Configs)' /\ [RaisesNothing]_config
  BY CallStep, BitsStep DEF FakeNext

------------------------------------------------------------------------------

\* Every identifier of a tracee is one that it was given or asked for (struct Config, fake_id0.h).
THEOREM FakeTypeCorrect == FakeSpec => []FakeTypeOK
  BY Start, FakeStep, PTL DEF FakeSpec, FakeTypeOK

\* Privileges given up for good never come back, through any sequence of set*id calls (SETXID and its like,
\* fake_id0.c), but by the bits of a program.
THEOREM DroppedForGood == FakeSpec => NoRaise
  BY Start, FakeStep, PTL DEF FakeSpec, NoRaise

------------------------------------------------------------------------------
(* What the kernel would do                                                  *)

\* The identifiers of the kind of the call, after it.
LEMMA Alike ==
  ASSUME NEW c \in Configs, NEW k \in Kinds, NEW after, NEW linux, NEW x, NEW y,
         after \in {EPERM, {[c EXCEPT ![k] = x]}}, linux \in {EPERM, {[c EXCEPT ![k] = y]}},
         x.r = y.r /\ x.e = y.e /\ x.s = y.s, Dropped(c) \/ (linux = EPERM => after = EPERM)
  PROVE  Agree(c, after, linux, k)
<1>1. [c EXCEPT ![k] = x][k] = x /\ [c EXCEPT ![k] = y][k] = y
  BY DEF Configs, Kinds
<1>2. \A d \in after : d[k] = x
  BY <1>1 DEF EPERM
<1>3. \A d \in linux : d[k] = y
  BY <1>1 DEF EPERM
<1>4. \A d \in after, f \in linux : <<d[k].r, d[k].e, d[k].s>> = <<f[k].r, f[k].e, f[k].s>>
  BY <1>2, <1>3
<1> QED  BY <1>4 DEF Agree

\* Whom a call is given, as Linux has it: a tracee of -0 is the exception.
LEMMA RootOrAsked ==
  ASSUME NEW c
  PROVE  /\ Root(c) => Privileged(c)
         /\ ~Dropped(c) => (Privileged(c) <=> Root(c))
  BY DEF Root, Privileged, Dropped

LEMMA SetXidAgrees ==
  ASSUME NEW c \in Configs, NEW k \in Kinds, NEW a \in ArgsOf("setXid"), a[1] # c[k].e
  PROVE  /\ Agree(c, SetXid(c, k, a), KernelSetXid(c, k, a), k)
         /\ SetXid(c, k, a) = EPERM => KernelSetXid(c, k, a) = EPERM
<1> DEFINE x == c[k]
           ids == IF Root(c) THEN Same(a[1]) ELSE [x EXCEPT !.e = a[1], !.fs = a[1]]
           allowed == Privileged(c) \/ HasId(c, k, a[1])
           linux == Root(c) \/ a[1] \in {x.r, x.s}
<1>1. SetXid(c, k, a) = IF allowed THEN {[c EXCEPT ![k] = ids]} ELSE EPERM
  BY DEF SetXid, Given, Root
<1>2. KernelSetXid(c, k, a) = IF linux THEN {[c EXCEPT ![k] = ids]} ELSE EPERM
  BY DEF KernelSetXid, Given
<1>3. (linux => allowed) /\ (Dropped(c) \/ (allowed => linux))
  BY RootOrAsked DEF HasId
<1> HIDE DEF ids, allowed, linux
<1>4. {[c EXCEPT ![k] = ids]} # EPERM
  BY DEF EPERM
<1>5. SetXid(c, k, a) \in {EPERM, {[c EXCEPT ![k] = ids]}} /\ KernelSetXid(c, k, a) \in {EPERM, {[c EXCEPT ![k] = ids]}}
  BY <1>1, <1>2
<1>6. Dropped(c) \/ (KernelSetXid(c, k, a) = EPERM => SetXid(c, k, a) = EPERM)
  BY <1>1, <1>2, <1>3, <1>4
<1>7. Agree(c, SetXid(c, k, a), KernelSetXid(c, k, a), k)
  <2> HIDE DEF ids
  <2>1. \A y : y = ids => y.r = ids.r /\ y.e = ids.e /\ y.s = ids.s
    OBVIOUS
  <2>2. PICK y : y = ids
    OBVIOUS
  <2>3. KernelSetXid(c, k, a) \in {EPERM, {[c EXCEPT ![k] = y]}}
    BY <1>5, <2>2
  <2>4. ids.r = y.r /\ ids.e = y.e /\ ids.s = y.s
    BY <2>2
  <2> QED  BY <1>5, <1>6, <2>3, <2>4, Alike
<1> QED  BY <1>1, <1>2, <1>3, <1>4, <1>7

LEMMA SetReXidAgrees ==
  ASSUME RealOnly = FALSE, NEW c \in Configs, NEW k \in Kinds, NEW a \in ArgsOf("setreXid")
  PROVE  /\ Agree(c, SetReXid(c, k, a), KernelSetReXid(c, k, a), k)
         /\ SetReXid(c, k, a) = EPERM => KernelSetReXid(c, k, a) = EPERM \/ a = <<c[k].e, c[k].s>>
<1> DEFINE x == c[k]
           saves == a[2] # Minus1 /\ (a[2] # x.r \/ a[1] # Minus1)
           ids == [r |-> Or(a[1], x.r), e |-> Or(a[2], x.e), fs |-> Or(a[2], x.fs), s |-> IF saves THEN a[2] ELSE x.s]
           saved == IF a[1] # Minus1 \/ (a[2] # Minus1 /\ a[2] # x.r) THEN Or(a[2], x.e) ELSE x.s
           kernel == [r |-> Or(a[1], x.r), e |-> Or(a[2], x.e), fs |-> Or(a[2], x.e), s |-> saved]
           allowed == \/ Privileged(c)
                      \/ Unchanged(a[2], x.e) /\ Unchanged(a[1], x.r)
                      \/ a[1] = x.e /\ (a[2] = x.r \/ Unchanged(a[2], x.e))
                      \/ a[2] = x.r /\ (a[1] = x.e \/ Unchanged(a[1], x.r))
                      \/ a[2] = x.s /\ Unchanged(a[1], x.r)
           linux == Root(c) \/ (a[1] \in {Minus1, x.r, x.e} /\ a[2] \in {Minus1, x.r, x.e, x.s})
<1>1. a \in Args \X Args /\ (a[2] # Minus1 \/ a[1] = Minus1)
  BY DEF ArgsOf
<1>2. ids.s = kernel.s /\ ids.r = kernel.r /\ ids.e = kernel.e
  BY <1>1 DEF Or
<1>3. SetReXid(c, k, a) = IF allowed THEN {[c EXCEPT ![k] = ids]} ELSE EPERM
  BY DEF SetReXid, Given
<1>4. KernelSetReXid(c, k, a) = IF linux THEN {[c EXCEPT ![k] = kernel]} ELSE EPERM
  BY DEF KernelSetReXid, Given
<1>5. Dropped(c) \/ (allowed => linux)
  BY RootOrAsked DEF Unchanged
<1>6. linux => allowed \/ a = <<x.e, x.s>>
  <2>1. linux /\ ~allowed => a[1] = x.e /\ a[2] = x.s
    BY RootOrAsked DEF Unchanged
  <2> QED  BY <1>1, <2>1
<1> HIDE DEF ids, kernel, allowed, linux
<1>7. {[c EXCEPT ![k] = ids]} # EPERM /\ {[c EXCEPT ![k] = kernel]} # EPERM
  BY DEF EPERM
<1>8. SetReXid(c, k, a) \in {EPERM, {[c EXCEPT ![k] = ids]}} /\ KernelSetReXid(c, k, a) \in {EPERM, {[c EXCEPT ![k] = kernel]}}
  BY <1>3, <1>4
<1>9. Agree(c, SetReXid(c, k, a), KernelSetReXid(c, k, a), k)
  BY <1>2, <1>3, <1>4, <1>5, <1>7, <1>8, Alike
<1> QED  BY <1>3, <1>4, <1>6, <1>7, <1>9

LEMMA SetResXidAgrees ==
  ASSUME NEW c \in Configs, NEW k \in Kinds, NEW a \in ArgsOf("setresXid")
  PROVE  /\ Agree(c, SetResXid(c, k, a), KernelSetResXid(c, k, a), k)
         /\ SetResXid(c, k, a) = EPERM => KernelSetResXid(c, k, a) = EPERM
<1> DEFINE x == c[k]
           ids == [r |-> Or(a[1], x.r), e |-> Or(a[2], x.e), s |-> Or(a[3], x.s), fs |-> Or(a[2], x.fs)]
           kernel == [r |-> Or(a[1], x.r), e |-> Or(a[2], x.e), fs |-> Or(a[2], x.e), s |-> Or(a[3], x.s)]
           allowed == Privileged(c) \/ \A i \in 1 .. 3 : a[i] = Minus1 \/ HasId(c, k, a[i])
           linux == Root(c) \/ {Or(a[1], x.r), Or(a[2], x.e), Or(a[3], x.s)} \subseteq {x.r, x.e, x.s}
<1>1. SetResXid(c, k, a) = IF allowed THEN {[c EXCEPT ![k] = ids]} ELSE EPERM
  BY DEF SetResXid, Given
<1>2. KernelSetResXid(c, k, a) = IF linux THEN {[c EXCEPT ![k] = kernel]} ELSE EPERM
  BY DEF KernelSetResXid, Given
<1>3. x.r \in Ids /\ x.e \in Ids /\ x.s \in Ids /\ a \in Args \X Args \X Args
  BY OfKind DEF ArgsOf
<1>4. (\A i \in 1 .. 3 : a[i] = Minus1 \/ HasId(c, k, a[i]))
        <=> {Or(a[1], x.r), Or(a[2], x.e), Or(a[3], x.s)} \subseteq {x.r, x.e, x.s}
  BY <1>3 DEF Or, HasId
<1>5. (linux => allowed) /\ (Dropped(c) \/ (allowed => linux))
  BY <1>4, RootOrAsked
<1>6. ids.r = kernel.r /\ ids.e = kernel.e /\ ids.s = kernel.s
  OBVIOUS
<1> HIDE DEF ids, kernel, allowed, linux
<1>7. {[c EXCEPT ![k] = ids]} # EPERM /\ {[c EXCEPT ![k] = kernel]} # EPERM
  BY DEF EPERM
<1>8. SetResXid(c, k, a) \in {EPERM, {[c EXCEPT ![k] = ids]}} /\ KernelSetResXid(c, k, a) \in {EPERM, {[c EXCEPT ![k] = kernel]}}
  BY <1>1, <1>2
<1>9. Agree(c, SetResXid(c, k, a), KernelSetResXid(c, k, a), k)
  BY <1>1, <1>2, <1>5, <1>6, <1>7, <1>8, Alike
<1> QED  BY <1>1, <1>2, <1>5, <1>7, <1>9

\* A half word over one whose upper half is the same.
LEMMA Poked ==
  ASSUME HostId < Half, NEW i \in Ids, i < Half
  PROVE  PokeUint16(HostId, i) = i
<1>1. HostId \in Nat /\ Half \in Nat \ {0} /\ i \in Nat
  BY FakeIdAssumption
<1>2. HostId \div Half = 0 /\ i % Half = i
  BY <1>1
<1> QED  BY <1>1, <1>2 DEF PokeUint16

LEMMA Gets ==
  ASSUME NEW c \in Configs, HostId < Half, \A i \in Ids : i < Half
  PROVE  GetsAgree(c)
<1>1. ASSUME NEW k \in Kinds PROVE GetRes(c, k) = <<c[k].r, c[k].e, c[k].s>>
  <2>1. c[k].r \in Ids /\ c[k].e \in Ids /\ c[k].s \in Ids
    BY OfKind
  <2> QED  BY <2>1, Poked DEF GetRes
<1> QED  BY <1>1 DEF GetsAgree

LEMMA Owns ==
  ASSUME NEW c \in Configs
  PROVE  OwnsItsFiles(c)
<1>1. ASSUME NEW k \in Kinds, NEW i \in Ids, c[k] = Same(i)
      PROVE  Stat(c, k, HostId) = c[k].e /\ Chown(c, k, HostId, c[k].e) = {HostId}
  <2>1. c[k].r = i /\ c[k].e = i /\ c[k].s = i
    BY <1>1 DEF Same
  <2> QED  BY <2>1 DEF Stat, Chown
<1> QED  BY <1>1 DEF OwnsItsFiles

\* What the calls on identifiers leave, refuse and tell is what Linux would leave, refuse and tell, for any identifiers
\* below 2^16, any option -i and any sequence of calls in which no setreuid(2) changes the real identifier alone; but
\* that a tracee of -0 is refused nothing once it has dropped its privileges, and for the two answers that LikeTheKernel
\* names (SETXID, SETREXID, SETRESXID, GETRESXID, handle_stat_exit_end(), handle_chown_enter_end()).
THEOREM IdentitiesAsLinux ==
  ASSUME RealOnly = FALSE, HostId < Half, \A i \in Ids : i < Half
  PROVE  FakeSpec => []IdsAsKernel
<1>1. ASSUME NEW c \in Configs PROVE LikeTheKernel(c)
  BY SetXidAgrees, SetReXidAgrees, SetResXidAgrees DEF LikeTheKernel
<1>2. ASSUME NEW c \in Configs PROVE Aside(c) \in Configs /\ Aside(c) \in Identities
  <2> DEFINE plain(k) == [c[k] EXCEPT !.fs = c[k].e]
  <2>1. \A k \in Kinds : plain(k) \in Compared
    BY DEF Configs, Kinds, XIds, Compared
  <2>2. Aside(c) = [u |-> plain("u"), g |-> plain("g"), initial |-> c.initial]
    <3>1. PICK x \in XIds, y \in XIds, i \in Asked : c = [u |-> x, g |-> y, initial |-> i]
      BY DEF Configs
    <3>2. Aside(c) = [u |-> [x EXCEPT !.fs = x.e], g |-> [y EXCEPT !.fs = y.e], initial |-> i]
      BY <3>1 DEF Aside
    <3> QED  BY <3>1, <3>2
  <2> HIDE DEF plain
  <2>3. plain("u") \in Compared /\ plain("g") \in Compared /\ c.initial \in Asked
    BY <2>1 DEF Configs, Kinds
  <2> QED  BY <2>2, <2>3 DEF Configs, Identities, Compared
<1>3. config \in Configs => IdsAsKernel
  BY <1>1, <1>2, Gets, Owns DEF IdsAsKernel, AsLinux
<1> QED  BY Start, FakeStep, <1>3, PTL DEF FakeSpec

=============================================================================
