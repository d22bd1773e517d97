-------------------------------- MODULE FakeId --------------------------------
(* The fake identity of a tracee (extension/fake_id0): the user and group      *)
(* identifiers that -i and -0 give, the calls that change and tell them, and   *)
(* what stat(2) and chown(2) show of them.  A child has a copy of the Config   *)
(* of its parent (INHERIT_CHILD) and shares nothing: one tracee is enough.     *)
EXTENDS Integers

CONSTANTS
  Asked,        \* the identities that the option -i may give
  Ids,          \* the identifiers that programs use
  HostId,       \* what getuid(2) and getgid(2) say to PRoot
  Half,         \* 2^16
  RealOnly      \* programs call setreuid(r, -1)

ASSUME FakeIdAssumption ==
  Asked \subseteq Ids /\ Ids \subseteq Nat /\ 0 \in Ids /\ HostId \in Nat /\ Half \in Nat \ {0}

VARIABLE config \* struct Config: per kind, real, effective, saved and file system identifiers; initial_euid

Kinds == {"u", "g"}
Minus1 == -1
Args == Ids \cup {Minus1}

Same(i) == [r |-> i, e |-> i, s |-> i, fs |-> i]
HasId(c, k, i) == i \in {c[k].r, c[k].e, c[k].s}

\* The condition of every call, before its own exceptions.
Privileged(c) == c["u"].e = 0 \/ c.initial = 0
Or(i, old) == IF i = Minus1 THEN old ELSE i

------------------------------------------------------------------------------
(* SETXID, SETREXID, SETRESXID, SETFSXID: the Config after the call, in a    *)
(* set that is empty when the call is refused.                               *)

EPERM == {}
Given(allowed, c, k, ids) == IF allowed THEN {[c EXCEPT ![k] = ids]} ELSE EPERM

SetXid(c, k, a) ==
  LET x == c[k] i == a[1]
  IN Given(Privileged(c) \/ HasId(c, k, i), c, k,
         IF c["u"].e = 0 THEN Same(i) ELSE [x EXCEPT !.e = i, !.fs = i])

Unchanged(i, old) == i \in {Minus1, old}

\* Mutant: the saved identifier never changes.
SetReXidUnsaved(c, k, a) ==
  LET x == c[k]
  IN Given(Privileged(c) \/ a[2] \in {Minus1, x.r, x.e, x.s}, c, k, [x EXCEPT !.r = Or(a[1], @), !.e = Or(a[2], @)])

SetReXid(c, k, a) ==
  LET x == c[k] r == a[1] e == a[2]
      allowed == \/ Privileged(c)
                 \/ Unchanged(e, x.e) /\ Unchanged(r, x.r)
                 \/ r = x.e /\ (e = x.r \/ Unchanged(e, x.e))
                 \/ e = x.r /\ (r = x.e \/ Unchanged(r, x.r))
                 \/ e = x.s /\ Unchanged(r, x.r)
      saves == e # Minus1 /\ (e # x.r \/ r # Minus1)
  IN Given(allowed, c, k, [r |-> Or(r, x.r), e |-> Or(e, x.e), fs |-> Or(e, x.fs), s |-> IF saves THEN e ELSE x.s])

\* Mutant: the saved identifier may be set to anything.
SetResXidSaved(c, k, a) ==
  LET x == c[k]
      allowed == Privileged(c) \/ \A i \in 1 .. 2 : a[i] = Minus1 \/ HasId(c, k, a[i])
  IN Given(allowed, c, k, [r |-> Or(a[1], x.r), e |-> Or(a[2], x.e), s |-> Or(a[3], x.s), fs |-> Or(a[2], x.fs)])

SetResXid(c, k, a) ==
  LET x == c[k]
      allowed == Privileged(c) \/ \A i \in 1 .. 3 : a[i] = Minus1 \/ HasId(c, k, a[i])
  IN Given(allowed, c, k, [r |-> Or(a[1], x.r), e |-> Or(a[2], x.e), s |-> Or(a[3], x.s), fs |-> Or(a[2], x.fs)])

SetFsXid(c, k, a) ==
  IF Privileged(c) \/ a[1] = c[k].fs \/ HasId(c, k, a[1]) THEN {[c EXCEPT ![k].fs = a[1]]} ELSE {c}

Emulated(call, c, k, a) ==
  CASE call = "setXid" -> SetXid(c, k, a)
    [] call = "setreXid" -> SetReXid(c, k, a)
    [] call = "setresXid" -> SetResXid(c, k, a)
    [] call = "setfsXid" -> SetFsXid(c, k, a)

ArgsOf(name) ==
  CASE name \in {"setXid", "setfsXid"} -> {<<i>> : i \in Ids}
    [] name = "setreXid" -> {a \in Args \X Args : a[2] # Minus1 \/ a[1] = Minus1 \/ RealOnly}
    [] name = "setresXid" -> Args \X Args \X Args
Calls == {"setXid", "setreXid", "setresXid", "setfsXid"}

\* handle_sysexit_end() and, where the host forbids the call, handle_sigsys(): the call itself has become PR_void.
SysexitEnd(call, k, a) ==
  \/ config' \in Emulated(call, config, k, a)
  \/ Emulated(call, config, k, a) = EPERM /\ UNCHANGED config

\* handle_sysexit_start(), after an execve(2): the bits of the file.
SysexitStart(bits) ==
  config' = [x \in DOMAIN config |-> IF x \in bits THEN [config[x] EXCEPT !.e = 0, !.s = 0] ELSE config[x]]

------------------------------------------------------------------------------
(* What programs see                                                         *)

\* poke_uint16(): only the lower half of what the kernel has written is replaced.
PokeUint16(old, value) == (old \div Half) * Half + (value % Half)

\* handle_getresuid_exit_end(), handle_getresgid_exit_end()
GetRes(c, k) == <<PokeUint16(HostId, c[k].r), PokeUint16(HostId, c[k].e), PokeUint16(HostId, c[k].s)>>

\* handle_stat_exit_end(), and fake_id0_handle_statx_syscall(): who owns a file, for this tracee.
Stat(c, k, owner) == IF owner = HostId THEN c[k].s ELSE owner

\* handle_chown_enter_end(), then handle_perm_err_exit_end(): the owner after the call, or EPERM.
Chown(c, k, owner, to) ==
  LET asked == IF to = c[k].r THEN HostId ELSE to
  IN IF owner = HostId /\ asked = HostId THEN {HostId}
     ELSE IF c["u"].e = 0 THEN {owner} ELSE EPERM

FakeInit == \E i, j \in Asked : config = [u |-> Same(i), g |-> Same(j), initial |-> i]

FakeNext ==
  \/ \E call \in Calls, k \in Kinds : \E a \in ArgsOf(call) : SysexitEnd(call, k, a)
  \/ \E bits \in SUBSET Kinds : SysexitStart(bits)

FakeSpec == FakeInit /\ [][FakeNext]_config

------------------------------------------------------------------------------
(* The kernel's rules, credentials(7): of the calls of a process, and of a   *)
(* process whose effective user is 0.                                        *)

Root(c) == c["u"].e = 0

KernelSetXid(c, k, a) ==
  Given(Root(c) \/ a[1] \in {c[k].r, c[k].s}, c, k,
        IF Root(c) THEN Same(a[1]) ELSE [c[k] EXCEPT !.e = a[1], !.fs = a[1]])

KernelSetReXid(c, k, a) ==
  LET x == c[k] e == Or(a[2], x.e)
      allowed == \/ Root(c)
                 \/ a[1] \in {Minus1, x.r, x.e} /\ a[2] \in {Minus1, x.r, x.e, x.s}
      saved == IF a[1] # Minus1 \/ (a[2] # Minus1 /\ a[2] # x.r) THEN e ELSE x.s
  IN Given(allowed, c, k, [r |-> Or(a[1], x.r), e |-> e, fs |-> e, s |-> saved])

KernelSetResXid(c, k, a) ==
  LET x == c[k] asked == [i \in 1 .. 3 |-> Or(a[i], <<x.r, x.e, x.s>>[i])]
      allowed == Root(c) \/ {asked[1], asked[2], asked[3]} \subseteq {x.r, x.e, x.s}
  IN Given(allowed, c, k, [r |-> asked[1], e |-> asked[2], fs |-> asked[2], s |-> asked[3]])

------------------------------------------------------------------------------
(* Properties                                                                *)

XIds == [r : Ids, e : Ids, s : Ids, fs : Ids]
Configs == [u : XIds, g : XIds, initial : Asked]

FakeTypeOK == config \in Configs

\* A process that is not privileged, and was not started by -0, gets no identifier it does not have already but by the
\* bits of a file it runs: a program that has dropped its privileges for good never has them again, through any sequence
\* of calls on users and groups.
RaisesNothing ==
  Privileged(config) \/ (\E bits \in SUBSET Kinds : SysexitStart(bits)) \/
    \A k \in Kinds : {config'[k].r, config'[k].e, config'[k].s} \subseteq {config[k].r, config[k].e, config[k].s}
NoRaise == [][RaisesNothing]_config

\* A tracee of -0 that has given up its effective user 0: PRoot refuses it nothing, Linux would (see the README).
Dropped(c) == c.initial = 0 /\ ~Root(c)

\* What Linux and PRoot both allow leaves the same identifiers; and what Linux refuses, PRoot refuses.  The file
\* system identifiers are not compared.
Agree(c, after, linux, k) ==
  /\ \A x \in after, y \in linux : <<x[k].r, x[k].e, x[k].s>> = <<y[k].r, y[k].e, y[k].s>>
  /\ Dropped(c) \/ (linux = EPERM => after = EPERM)

\* setuid(2), setreuid(2), setresuid(2) and their like do what they do in Linux: in particular the saved identifier
\* follows the rules that SETREXID quotes from the manual.  Two answers differ: setuid(2) to the effective identifier,
\* which changes nothing, is never refused; and to take the effective identifier for the real one and the saved one for
\* the effective one at the same time is, as SETREXID wonders whether it should be.
LikeTheKernel(c) ==
  \A k \in Kinds :
    LET x == c[k]
    IN /\ \A a \in ArgsOf("setXid") : a[1] # x.e =>
            /\ Agree(c, SetXid(c, k, a), KernelSetXid(c, k, a), k)
            /\ SetXid(c, k, a) = EPERM => KernelSetXid(c, k, a) = EPERM
       /\ \A a \in ArgsOf("setreXid") :
            /\ Agree(c, SetReXid(c, k, a), KernelSetReXid(c, k, a), k)
            /\ SetReXid(c, k, a) = EPERM => KernelSetReXid(c, k, a) = EPERM \/ a = <<x.e, x.s>>
       /\ \A a \in ArgsOf("setresXid") :
            /\ Agree(c, SetResXid(c, k, a), KernelSetResXid(c, k, a), k)
            /\ SetResXid(c, k, a) = EPERM => KernelSetResXid(c, k, a) = EPERM

\* getresuid(2), which writes half words over what the kernel has written, tells what getuid(2) and geteuid(2) tell.
GetsAgree(c) == \A k \in Kinds : GetRes(c, k) = <<c[k].r, c[k].e, c[k].s>>

\* The files of the user who runs PRoot belong, for a tracee whose identifiers are all the same, to itself; giving such
\* a file to itself is no error and changes nothing it can see.
OwnsItsFiles(c) ==
  \A k \in Kinds : (\E i \in Ids : c[k] = Same(i)) =>
    /\ Stat(c, k, HostId) = c[k].e
    /\ Chown(c, k, HostId, c[k].e) = {HostId}

\* The file system identifiers are set aside: none of these calls looks at them.
Aside(c) == [c EXCEPT !["u"].fs = c["u"].e, !["g"].fs = c["g"].e]
Compared == {x \in XIds : x.fs = x.e}
Identities == {[u |-> x, g |-> y, initial |-> i] : x \in Compared, y \in Compared, i \in Asked}
AsLinux == {c \in Identities : LikeTheKernel(c) /\ GetsAgree(c) /\ OwnsItsFiles(c)}

\* The identifiers a tracee has, gets and is refused are those that Linux would give and refuse it, but for what a
\* tracee of -0 is no longer refused once it has given up its privileges.
IdsAsKernel == Aside(config) \in AsLinux
==============================================================================
