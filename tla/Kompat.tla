-------------------------------- MODULE Kompat --------------------------------
(* Kernel compatibility (extension/kompat/kompat.c): the system calls that the *)
(* announced kernel has, and the actual one has not, are replaced by older     *)
(* ones when they are entered; what the older ones cannot say, the flags of a  *)
(* new descriptor, is set by fcntl(2) calls chained behind them.  A program    *)
(* makes some calls in a row; so does PRoot, for the one it restarts.          *)
EXTENDS Naturals, Integers, Sequences, SequencesExt, FiniteSets, TLC

CONSTANTS
  Kernels,  \* the actual releases: n for 2.6.n
  Virtuals, \* the announced ones
  Forced,   \* the values of "PROOT_FORCE_KOMPAT is set"
  Missing,  \* sets of the older calls that an architecture does not have
  MaxCalls  \* bound on the calls of a program

VARIABLES
  config,   \* [actual_release, virtual_release], and the actual kernel and the calls missing in this ABI
  call,     \* the program's call: [name, args]; args[i] is <<role, value>> (ORIGINAL)
  regs,     \* [sysnum, args]: what the kernel is given (CURRENT, MODIFIED)
  chain,    \* tracee->chain: [syscalls : Seq, force : BOOLEAN, final]
  result,   \* SYSARG_RESULT
  fds,      \* fds[fd]: the flags of the program's descriptors
  own,      \* the result that the call itself had
  stage,    \* "user", "kernel", "exit" or "chained"
  calls     \* made so far

kompatVars == <<config, call, regs, chain, result, fds, own, stage, calls>>

EINVAL == -22
ENOSYS == -38
NoCall == [name |-> "none", args |-> <<>>]

------------------------------------------------------------------------------
(* What the calls are                                                        *)

\* The roles of the arguments; "fdflags" are those of the descriptor to be made.
Signature ==
  [accept4 |-> <<"fd", "addr", "len", "fdflags">>, accept |-> <<"fd", "addr", "len">>,
   dup3 |-> <<"fd", "newfd", "fdflags">>, dup2 |-> <<"fd", "newfd">>,
   epoll_create1 |-> <<"fdflags">>, epoll_create |-> <<"size">>,
   epoll_pwait |-> <<"fd", "events", "max", "timeout", "mask">>, epoll_wait |-> <<"fd", "events", "max", "timeout">>,
   eventfd2 |-> <<"count", "fdflags">>, eventfd |-> <<"count">>,
   faccessat |-> <<"dirfd", "path", "mode">>, access |-> <<"path", "mode">>,
   fchmodat |-> <<"dirfd", "path", "mode">>, chmod |-> <<"path", "mode">>,
   fchownat |-> <<"dirfd", "path", "uid", "gid", "flags">>, chown |-> <<"path", "uid", "gid">>, lchown |-> <<"path", "uid", "gid">>,
   newfstatat |-> <<"dirfd", "path", "buf", "flags">>, stat |-> <<"path", "buf">>, lstat |-> <<"path", "buf">>,
   futimesat |-> <<"dirfd", "path", "times">>, utimes |-> <<"path", "times">>,
   inotify_init1 |-> <<"fdflags">>, inotify_init |-> <<>>,
   linkat |-> <<"dirfd", "path", "dirfd", "path2", "flags">>, link |-> <<"path", "path2">>,
   mkdirat |-> <<"dirfd", "path", "mode">>, mkdir |-> <<"path", "mode">>,
   mknodat |-> <<"dirfd", "path", "mode", "dev">>, mknod |-> <<"path", "mode", "dev">>,
   openat |-> <<"dirfd", "path", "fdflags", "mode">>, open |-> <<"path", "fdflags", "mode">>,
   pipe2 |-> <<"buf", "fdflags">>, pipe |-> <<"buf">>,
   pselect6 |-> <<"n", "in", "out", "ex", "timespec", "mask">>, select |-> <<"n", "in", "out", "ex", "timeval">>,
   readlinkat |-> <<"dirfd", "path", "buf", "size">>, readlink |-> <<"path", "buf", "size">>,
   renameat |-> <<"dirfd", "path", "dirfd", "path2">>, rename |-> <<"path", "path2">>,
   signalfd4 |-> <<"fd", "mask", "size", "fdflags">>, signalfd |-> <<"fd", "mask", "size">>,
   symlinkat |-> <<"target", "dirfd", "path">>, symlink |-> <<"target", "path">>,
   unlinkat |-> <<"dirfd", "path", "flags">>, unlink |-> <<"path">>, rmdir |-> <<"path">>,
   socket |-> <<"family", "fdflags">>, socketpair |-> <<"family", "fdflags", "protocol", "buf">>,
   timerfd_create |-> <<"clock", "fdflags">>, fcntl |-> <<"fd", "command">>, wait4 |-> <<"pid">>]

\* The flags that the program may give; WRONLY stands for any other one, the type of a socket included.
FlagsOf(name) ==
  CASE name \in {"accept4", "pipe2", "inotify_init1", "signalfd4"} -> SUBSET {"CLOEXEC", "NONBLOCK"}
    [] name \in {"dup3", "epoll_create1"} -> SUBSET {"CLOEXEC"}
    [] name = "eventfd2" -> SUBSET {"CLOEXEC", "NONBLOCK", "SEMAPHORE"}
    [] name \in {"socket", "socketpair"} -> {{"WRONLY"} \cup s : s \in SUBSET {"CLOEXEC", "NONBLOCK"}}
    [] name = "timerfd_create" -> SUBSET {"CLOEXEC", "NONBLOCK"}
    [] name \in {"open", "openat"} -> SUBSET {"CLOEXEC", "WRONLY"}
    [] name = "unlinkat" -> {{}, {"REMOVEDIR"}}
    [] name \in {"fchownat", "newfstatat"} -> {{}, {"NOFOLLOW"}, {"UNKNOWN"}}
    [] name = "linkat" -> {{}, {"FOLLOW"}, {"UNKNOWN"}}
    [] name = "fcntl" -> {{}, {"CLOEXEC"}}
    [] OTHER -> {{}}
Arguments(name, flags) ==
  [i \in DOMAIN Signature[name] |->
     LET role == Signature[name][i] IN
     <<role, CASE role \in {"fdflags", "flags"} -> flags
               [] role = "command" -> (IF flags = {} THEN {"DUPFD"} ELSE {"DUPFD", "CLOEXEC"})
               [] OTHER -> {}>>]
NewCalls == {"accept4", "dup3", "epoll_create1", "epoll_pwait", "eventfd2", "faccessat", "fchmodat", "fchownat", "newfstatat",
             "futimesat", "inotify_init1", "linkat", "mkdirat", "mknodat", "openat", "pipe2", "pselect6", "readlinkat",
             "renameat", "signalfd4", "symlinkat", "unlinkat"}
Others == {"open", "socket", "socketpair", "timerfd_create", "fcntl", "wait4"}
Flags(c) == UNION {c.args[i][2] : i \in {j \in DOMAIN c.args : c.args[j][1] \in {"fdflags", "flags", "command"}}}

------------------------------------------------------------------------------
(* handle_sysenter_end()                                                     *)

Modif(release, new, shifts) == [expected_release |-> release, new |-> new, shifts |-> shifts]
Shift(first, nb, offset) == [sysarg |-> first, nb_args |-> nb, offset |-> offset]
NONE == <<>>

\* The table, in the order of the code: accept4 to fchownat,
ModifsAtoFchown(flags) ==
  [accept4 |-> Modif(28, "accept", NONE), dup3 |-> Modif(27, "dup2", NONE),
   epoll_create1 |-> Modif(27, "epoll_create", NONE), epoll_pwait |-> Modif(19, "epoll_wait", NONE),
   eventfd2 |-> Modif(27, "eventfd", NONE),
   faccessat |-> Modif(16, "access", <<Shift(2, 2, -1)>>), fchmodat |-> Modif(16, "chmod", <<Shift(2, 2, -1)>>),
   fchownat |-> Modif(16, IF "NOFOLLOW" \in flags THEN "lchown" ELSE "chown", <<Shift(2, 3, -1)>>)]
\* newfstatat to mknodat,
ModifsFstatToMknod(flags) ==
  [newfstatat |-> Modif(16, IF "NOFOLLOW" \in flags THEN "lstat" ELSE "stat", <<Shift(2, 2, -1)>>),
   futimesat |-> Modif(16, "utimes", <<Shift(2, 2, -1)>>), inotify_init1 |-> Modif(27, "inotify_init", NONE),
   linkat |-> Modif(16, "link", <<Shift(2, 1, -1), Shift(4, 1, -2)>>),
   mkdirat |-> Modif(16, "mkdir", <<Shift(2, 2, -1)>>), mknodat |-> Modif(16, "mknod", <<Shift(2, 3, -1)>>)]
\* openat to unlinkat.
ModifsOpenToUnlink(flags) ==
  [openat |-> Modif(16, "open", <<Shift(2, 3, -1)>>), pipe2 |-> Modif(27, "pipe", NONE),
   pselect6 |-> Modif(16, "select", NONE), readlinkat |-> Modif(16, "readlink", <<Shift(2, 3, -1)>>),
   renameat |-> Modif(16, "rename", <<Shift(2, 1, -1), Shift(4, 1, -2)>>), signalfd4 |-> Modif(27, "signalfd", NONE),
   symlinkat |-> Modif(16, "symlink", <<Shift(3, 1, -1)>>),
   unlinkat |-> Modif(16, IF "REMOVEDIR" \in flags THEN "rmdir" ELSE "unlink", <<Shift(2, 1, -1)>>)]
ModifOf(name, flags) == (ModifsAtoFchown(flags) @@ ModifsFstatToMknod(flags) @@ ModifsOpenToUnlink(flags))[name]

NeedsKompat(release) == config.actual_release < release /\ release <= config.virtual_release
Modified(c) ==
  /\ c.name \in NewCalls /\ NeedsKompat(ModifOf(c.name, Flags(c)).expected_release)
  /\ ModifOf(c.name, Flags(c)).new \notin config.missing

Moved(args, s) ==
  FoldLeft(LAMBDA a, j : [a EXCEPT ![s.sysarg + j - 1 + s.offset] = a[s.sysarg + j - 1]], args, [j \in 1 .. s.nb_args |-> j])
ModifySyscall(c) ==
  LET m == ModifOf(c.name, Flags(c)) IN
  [sysnum |-> m.new, args |-> FoldLeft(LAMBDA a, s : Moved(a, s), c.args, m.shifts)]

Without(args, flags) == [i \in DOMAIN args |-> IF args[i][1] = "fdflags" THEN <<"fdflags", args[i][2] \ flags>> ELSE args[i]]
\* discard_fd_flags() and the registers that some of the older calls want otherwise.
Discarded(c, r) ==
  CASE c.name \in {"open", "openat"} /\ NeedsKompat(23) -> [r EXCEPT !.args = Without(@, {"CLOEXEC"})]
    [] c.name \in {"socket", "socketpair", "timerfd_create"} /\ NeedsKompat(27) ->
         [r EXCEPT !.args = Without(@, {"CLOEXEC", "NONBLOCK"})]
    [] c.name = "fcntl" /\ NeedsKompat(24) -> [r EXCEPT !.args[2] = <<"command", {"DUPFD"}>>]
    [] c.name = "epoll_create1" /\ Modified(c) -> [r EXCEPT !.args[1] = <<"size", {}>>]
    [] c.name = "signalfd4" /\ Modified(c) -> [r EXCEPT !.args[4] = <<"fdflags", {}>>]
    [] OTHER -> r
\* "Exposed by LTP", and what cannot be emulated.
Einval(c) ==
  \/ c.name \in {"newfstatat", "linkat"} /\ "UNKNOWN" \in Flags(c)
  \/ c.name = "eventfd2" /\ Modified(c) /\ "SEMAPHORE" \in Flags(c)

HandleSysenterEnd(c) ==
  /\ stage = "user" /\ calls < MaxCalls /\ calls' = calls + 1 /\ call' = c
  /\ regs' = IF Einval(c) THEN [sysnum |-> "void", args |-> <<>>]
             ELSE Discarded(c, IF Modified(c) THEN ModifySyscall(c) ELSE [sysnum |-> c.name, args |-> c.args])
  /\ stage' = "kernel" /\ UNCHANGED <<config, chain, result, fds, own>>

------------------------------------------------------------------------------
(* The kernel                                                                *)

\* Since when a call exists, and since when it knows the flags of descriptors (before, open() ignores them, the others
\* refuse them).
Since(name) == IF name \in NewCalls THEN ModifOf(name, {}).expected_release ELSE 0
FlagsSince(name) == CASE name \in {"open", "openat"} -> 23 [] name = "fcntl" -> 24 [] name \in NewCalls -> 0 [] OTHER -> 27
Makes(name) ==
  CASE name \in {"pipe", "pipe2", "socketpair"} -> 2
    [] name \in {"accept", "accept4", "dup2", "dup3", "epoll_create", "epoll_create1", "eventfd", "eventfd2", "inotify_init",
                 "inotify_init1", "open", "openat", "signalfd", "signalfd4", "socket", "timerfd_create", "fcntl"} -> 1
    [] OTHER -> 0
FdFlags(r) ==
  LET i == {j \in DOMAIN Signature[r.sysnum] : Signature[r.sysnum][j] \in {"fdflags", "command"}} IN
  (UNION {r.args[j][2] : j \in i}) \cap {"CLOEXEC", "NONBLOCK"}
Errors(r) ==
  CASE r.sysnum = "void" -> {EINVAL}
    [] r.sysnum # "void" /\ config.kernel < Since(r.sysnum) -> {ENOSYS}
    [] r.sysnum \notin {"void", "open", "openat"} /\ FdFlags(r) # {} /\ config.kernel < FlagsSince(r.sysnum) -> {EINVAL}
    [] OTHER -> {}
Kernel ==
  /\ stage = "kernel" /\ stage' = "exit"
  /\ IF Errors(regs) # {} THEN result' \in Errors(regs) /\ UNCHANGED fds
     ELSE LET n == Len(fds) flags == IF config.kernel < FlagsSince(regs.sysnum) THEN {} ELSE FdFlags(regs) IN
          /\ fds' = fds \o [k \in 1 .. Makes(regs.sysnum) |-> flags]
          /\ result' = IF Makes(regs.sysnum) = 1 THEN n + 1 ELSE 0
  /\ own' = result' /\ UNCHANGED <<config, call, regs, chain, calls>>

------------------------------------------------------------------------------
(* handle_sysexit_end()                                                      *)

Setting(fd, flag) == [fd |-> fd, flag |-> flag]
\* As if only the last descriptor of a pair had flags.
EmulatedOnce(flags, emulated) ==
  [syscalls |-> [i \in 1 .. Cardinality(flags \cap emulated) |-> Setting(Len(fds), SetToSeq(flags \cap emulated)[i])],
   force |-> flags # {}, final |-> result]
\* emulate_fd_flags(): the result is forced for the chain of this call, also when there is nothing to chain.
Emulated(flags, emulated) ==
  LET now == flags \cap emulated
      sets(fd) == [i \in 1 .. Cardinality(now) |-> Setting(fd, SetToSeq(now)[i])]
  IN [syscalls |-> FlattenSeq([k \in 1 .. Makes(call.name) |-> sets(Len(fds) - Makes(call.name) + k)]),
      force |-> flags # {}, final |-> result]
NoEmulation == [chain EXCEPT !.syscalls = <<>>]
FlagsEmulated ==
  LET flags == Flags(call) IN
  CASE call.name \in {"accept4", "dup3", "epoll_create1", "eventfd2", "inotify_init1", "pipe2", "signalfd4"} /\ regs.sysnum # call.name ->
         Emulated(flags, {"CLOEXEC", "NONBLOCK"})
    [] call.name \in {"open", "openat"} /\ NeedsKompat(23) -> Emulated(flags, {"CLOEXEC"})
    [] call.name \in {"socket", "socketpair", "timerfd_create"} /\ NeedsKompat(27) -> Emulated(flags, {"CLOEXEC", "NONBLOCK"})
    [] call.name = "fcntl" /\ NeedsKompat(24) /\ "CLOEXEC" \in flags -> Emulated(flags, {"CLOEXEC"})
    [] OTHER -> NoEmulation
\* A call that another part of PRoot restarts (restart_original_syscall(), for the wait4() of a ptracer).
Restarted == [chain EXCEPT !.syscalls = <<Setting(0, "again")>>]

HandleSysexitEnd ==
  /\ stage = "exit"
  /\ LET c == IF result < 0 THEN NoEmulation
              ELSE IF call.name = "wait4" THEN Restarted
              ELSE LET e == FlagsEmulated IN IF e.force THEN e ELSE NoEmulation
     IN chain' = c /\ stage' = IF c.syscalls = <<>> THEN "user" ELSE "chained"
  /\ UNCHANGED <<config, call, regs, result, fds, own, calls>>

\* The next chained call, and after the last one the result that was forced.
ChainNextSyscall ==
  /\ stage = "chained"
  /\ IF chain.syscalls = <<>>
     THEN /\ result' = IF chain.force THEN chain.final ELSE result
          /\ chain' = [syscalls |-> <<>>, force |-> FALSE, final |-> 0] /\ stage' = "user" /\ UNCHANGED fds
     ELSE LET s == Head(chain.syscalls) IN
          /\ fds' = IF s.fd = 0 THEN fds ELSE [fds EXCEPT ![s.fd] = @ \cup {s.flag}]
          /\ chain' = [chain EXCEPT !.syscalls = Tail(@)] /\ result' = 0 /\ UNCHANGED stage
  /\ UNCHANGED <<config, call, regs, own, calls>>

KompatInit ==
  /\ \E k \in Kernels, v \in Virtuals, f \in Forced, m \in Missing :
       config = [kernel |-> k, actual_release |-> IF f THEN 0 ELSE k, virtual_release |-> v, missing |-> m]
  /\ call = NoCall /\ regs = [sysnum |-> "void", args |-> <<>>] /\ chain = [syscalls |-> <<>>, force |-> FALSE, final |-> 0]
  /\ result = 0 /\ fds = <<>> /\ own = 0 /\ stage = "user" /\ calls = 0

KompatNext ==
  \/ \E name \in NewCalls \cup Others : \E flags \in FlagsOf(name) :
       HandleSysenterEnd([name |-> name, args |-> Arguments(name, flags)])
  \/ Kernel \/ HandleSysexitEnd \/ ChainNextSyscall

KompatSpec == KompatInit /\ [][KompatNext]_kompatVars

------------------------------------------------------------------------------
(* Properties                                                                *)

\* "Replace current tracee's syscall with an older and compatible one" (kompat.c): the arguments of the older call are
\* those of the program's that have the same roles, wherever these were, and none is lost but a directory, which is in
\* the path then, and the flags, which chose the call or are set behind it.
ArgumentsKept ==
  stage = "kernel" /\ regs.sysnum \notin {"void", call.name} =>
    /\ \A i \in DOMAIN Signature[regs.sysnum] : regs.args[i][1] = Signature[regs.sysnum][i]
    /\ ToSet(Signature[call.name]) \ {"dirfd", "fdflags", "flags"} \subseteq ToSet(Signature[regs.sysnum])

\* Two of the older calls are not compatible: select(2) reads the timespec of pselect6(2) as a timeval, and neither
\* select(2) nor epoll_wait(2) sets the mask of signals.
Incompatible == {"pselect6", "epoll_pwait"}
ArgumentsMoved == call.name \notin Incompatible => ArgumentsKept

\* A call that the announced kernel has is accepted by the actual one, with the flags the program has asked for on the descriptors it made,
\* once the last chained call is over.
Announced(c) == LET since == IF Since(c.name) > FlagsSince(c.name) THEN Since(c.name) ELSE FlagsSince(c.name) IN
  since <= config.virtual_release
AsAnnounced ==
  stage = "user" /\ call # NoCall /\ config.missing = {} /\ Announced(call) /\ ~Einval(call) =>
    /\ own >= 0 /\ (MaxCalls = 1 => result = own)
    /\ \A k \in 1 .. Makes(call.name) : fds[Len(fds) - k + 1] = Flags(call) \cap {"CLOEXEC", "NONBLOCK"}

\* "Force the last result of the tracee's current syscall chain" (chain.c): of that one, and of no later call.
ResultIsOwn == stage = "user" => result = own
==============================================================================
