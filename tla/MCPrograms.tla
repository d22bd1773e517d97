------------------------------ MODULE MCPrograms -------------------------------
(* What PRoot does for programs beside their files: it starts them (the arguments and the environment, the load      *)
(* script, the seccomp filter), keeps their heap and their identity, and stands in for a newer kernel; and the       *)
(* daemon that runs commands for clients.  A behaviour exercises one of them.                                        *)
EXTENDS Heap, FakeId, TLC

CONSTANTS
  Parts,                                              \* the components exercised
  Files, ExecCalls, Libraries, Runners, MAXSYMLINKS, Faults, \* see Execve
  Size, Bases, Top, Binaries, AnyTail,                \* see LoadScript
  Sysnums, FilterArchs, Offset, Length, FilterLists,  \* see Filters
  Kernels, Virtuals, Forced, Missing, MaxCalls,       \* see Kompat
  Servers, Clients, Traffics, MAX_CLIENTS, BUFFER_SIZE, Outputs, Leaves, Signals, FreesTwice \* see Daemon

VARIABLES
  part,
  tracee, traced, prog, new, notify, executing,
  objs, mappings, script, pc, fd, image, writable, atBase, loading,
  tables, wanted, lists, filtered, filter, built,
  kernel, call, regs, chain, result, fds, own, asking, calls,
  program, conn, traffic, sent, stream, told, clients, ready, running, at, slot, cmd

execveVars == <<tracee, traced, prog, new, notify, executing>>
loadVars == <<objs, mappings, script, pc, fd, image, writable, atBase, loading>>
filterVars == <<tables, wanted, lists, filtered, filter, built>>
kompatVars == <<kernel, call, regs, chain, result, fds, own, asking, calls>>
daemonVars == <<program, conn, traffic, sent, stream, told, clients, ready, running, at, slot, cmd>>

Exec == INSTANCE Execve WITH Calls <- ExecCalls, stage <- executing
Loading == INSTANCE LoadScript WITH Programs <- Binaries, stage <- loading
Seccomp == INSTANCE Filters
Older == INSTANCE Kompat WITH config <- kernel, stage <- asking
Server == INSTANCE Daemon WITH Programs <- Servers

Off == "off"

------------------------------------------------------------------------------
(* The heaps and the clients have no identity.                               *)

Sym == Permutations(Heaps) \cup Permutations(Clients)

------------------------------------------------------------------------------
(* Files of a rootfs, scripts whose interpreter is a script, programs of the *)
(* host, one of which has an RPATH, and options -q.                          *)

Elf(host, paths) == [type |-> "elf", host |-> host, paths |-> paths]
MCFiles ==
  [sh |-> Elf(FALSE, "none"), id |-> Elf(FALSE, "none"), cc |-> Elf(TRUE, "host"), qemu |-> Elf(TRUE, "host"),
   ld |-> Elf(TRUE, "rpath"),
   s1 |-> [type |-> "script", interp |-> "sh", arg |-> "-e"], s2 |-> [type |-> "script", interp |-> "s1", arg |-> ""],
   loop |-> [type |-> "script", interp |-> "loop", arg |-> ""], lost |-> [type |-> "script", interp |-> "gone", arg |-> ""],
   text |-> [type |-> "text"], shut |-> [type |-> "locked"]]
MCExecCalls ==
  [path : {"sh", "id", "cc", "ld", "s1", "s2"}, argv : {<<>>, <<"a">>, <<"a", "b">>}]
  \cup [path : {"gone", "loop", "lost", "text", "shut"}, argv : {<<"a">>}]
MCRunners == {<<>>, <<"qemu", "-c">>}

------------------------------------------------------------------------------
(* Programs of one or two segments, in pages of two bytes, with an           *)
(* interpreter or not.                                                       *)

MCBases == <<8, 16>>
Down2(a) == a - (a % 2)
Segs(vaddrs) ==
  {s \in [vaddr : vaddrs, filesz : 0 .. 3, memsz : 0 .. 4, offset : 0 .. 5, w : BOOLEAN] :
     /\ s.filesz <= s.memsz /\ s.memsz > 0 /\ (s.offset = s.vaddr \/ s.offset + 2 = s.vaddr)}
\* Segments in the order of their addresses, in pages of their own.
MCPairs ==
  {p \in Segs(0 .. 1) \X Segs(2 .. 4) : Down2(p[2].vaddr) >= p[1].vaddr + p[1].memsz /\ p[2].offset >= p[1].offset + p[1].filesz}
MCObjects == [dyn : BOOLEAN, trailer : {0, 3}, segs : {<<s>> : s \in Segs(0 .. 1)} \cup MCPairs]
MCInterp == [dyn |-> TRUE, trailer |-> 3, segs |-> <<[vaddr |-> 0, filesz |-> 1, memsz |-> 2, offset |-> 0, w |-> TRUE]>>]
MCBinaries == {<<o>> : o \in MCObjects} \cup {<<o, MCInterp>> : o \in MCObjects}

------------------------------------------------------------------------------
(* Two architectures, one of them with two ABIs; two calls to filter.        *)

MCFilterArchs == <<[value |-> "x86_64", abis |-> <<1, 3>>], [value |-> "i386", abis |-> <<2>>]>>
MCOffset == <<0, 0, 4>>
Item(name, exit) == [value |-> name, exit |-> exit]
MCFilterLists ==
  {<<<<Item("open", FALSE), Item("brk", TRUE)>>, <<Item("open", TRUE)>>>>,
   <<<<Item("brk", TRUE)>>, <<Item("brk", FALSE), Item("open", FALSE)>>>>,
   <<<<Item("open", FALSE)>>, <<>>>>}

------------------------------------------------------------------------------
(* Architectures without the older calls, as arm64, and with some of them.   *)

MCMissing == {{}, {"accept"}, {"open", "pipe", "dup2", "unlink", "rmdir", "link", "rename", "stat", "lstat"}}

------------------------------------------------------------------------------
(* What clients send.                                                        *)

P(id, type, k, last) == [id |-> id, type |-> type, k |-> k, last |-> last]
MCTraffics ==
  {<<>>,
   \* two requests in a chunk, then one in two chunks, the first of which ends the second request
   << <<P(1, "health", 1, TRUE), P(2, "exec", 1, FALSE)>>, <<P(2, "exec", 2, TRUE), P(3, "config", 1, FALSE)>>,
      <<P(3, "config", 2, TRUE)>> >>,
   << <<P(1, "exec", 1, TRUE), P(2, "shutdown", 1, TRUE), P(3, "health", 1, TRUE)>> >>,
   \* one that does not fit a buffer, and one after it
   << <<P(1, "junk", 1, FALSE), P(1, "junk", 2, FALSE)>>, <<P(1, "junk", 3, FALSE), P(1, "junk", 4, FALSE)>>,
      <<P(1, "junk", 5, FALSE), P(1, "junk", 6, TRUE)>>, <<P(2, "health", 1, TRUE)>> >>}
\* At most as much as a read(2) of the daemon takes; see the README for more.
MCOutputs == [{"stdout", "stderr"} -> 0 .. 1]
MCLarge == [{"stdout", "stderr"} -> 0 .. 3]

------------------------------------------------------------------------------
\* Of the components whose properties are not bound to a part: no tracee is alive, all identifiers are 0.
HeapOff ==
  /\ heapOf = [t \in Tracees |-> None] /\ spaceOf = heapOf
  /\ heaps = [h \in Heaps |-> NewHeap] /\ pages = [s \in Heaps |-> Unmapped]
  /\ brk = [t \in Tracees |-> [User EXCEPT !.state = "absent"]]
FakeOff == config = [u |-> Same(0), g |-> Same(0), initial |-> 0]
ExecOff == tracee = Off /\ traced = Off /\ prog = Off /\ new = Off /\ notify = Off /\ executing = Off
LoadingOff ==
  /\ objs = Off /\ mappings = Off /\ script = Off /\ pc = Off /\ fd = Off /\ image = Off /\ writable = Off /\ atBase = Off
  /\ loading = Off
SeccompOff == tables = Off /\ wanted = Off /\ lists = Off /\ filtered = Off /\ filter = Off /\ built = Off
OlderOff ==
  /\ kernel = Off /\ call = Off /\ regs = Off /\ chain = Off /\ result = Off /\ fds = Off /\ own = Off /\ asking = Off
  /\ calls = Off
ServerOff ==
  /\ program = Off /\ conn = Off /\ traffic = Off /\ sent = Off /\ stream = Off /\ told = Off /\ clients = Off
  /\ ready = Off /\ running = Off /\ at = Off /\ slot = Off /\ cmd = Off

MCInit ==
  /\ part \in Parts
  /\ IF part = "heap" THEN HeapInit ELSE HeapOff
  /\ IF part = "identities" THEN FakeInit ELSE FakeOff
  /\ IF part = "execve" THEN Exec!ExecveInit ELSE ExecOff
  /\ IF part = "loader" THEN Loading!LoadInit ELSE LoadingOff
  /\ IF part = "filters" THEN Seccomp!FilterInit ELSE SeccompOff
  /\ IF part = "kompat" THEN Older!KompatInit ELSE OlderOff
  /\ IF part = "daemon" THEN Server!DaemonInit ELSE ServerOff

MCNext ==
  \/ part = "heap" /\ HeapNext /\ UNCHANGED <<part, config, execveVars, loadVars, filterVars, kompatVars, daemonVars>>
  \/ part = "identities" /\ FakeNext
     /\ UNCHANGED <<part, heapVars, execveVars, loadVars, filterVars, kompatVars, daemonVars>>
  \/ part = "execve" /\ Exec!ExecveNext /\ UNCHANGED <<part, heapVars, config, loadVars, filterVars, kompatVars, daemonVars>>
  \/ part = "loader" /\ Loading!LoadNext
     /\ UNCHANGED <<part, heapVars, config, execveVars, filterVars, kompatVars, daemonVars>>
  \/ part = "filters" /\ Seccomp!FilterNext
     /\ UNCHANGED <<part, heapVars, config, execveVars, loadVars, kompatVars, daemonVars>>
  \/ part = "kompat" /\ Older!KompatNext
     /\ UNCHANGED <<part, heapVars, config, execveVars, loadVars, filterVars, daemonVars>>
  \/ part = "daemon" /\ Server!DaemonNext
     /\ UNCHANGED <<part, heapVars, config, execveVars, loadVars, filterVars, kompatVars>>

MCSpec == MCInit /\ [][MCNext]_<<part, heapVars, config, execveVars, loadVars, filterVars, kompatVars, daemonVars>>

------------------------------------------------------------------------------
(* Properties                                                                *)

\* A program has the arguments that execve(2) promises, through any chain of scripts and runners.
ArgvAsKernel == [][part = "execve" => Exec!StartsAsAsked]_execveVars

\* What PRoot remembers of a program, shows of it to its ptracer and leaves in its environment is of the program that
\* is in memory, whatever fails or leaves halfway.
ProgramSeen == part = "execve" => Exec!ExeTold /\ Exec!HearsTheProgram /\ Exec!LibraryRestored

\* A program that starts has in its memory what elf(5) says, and the loader does not die of a page it has not mapped.
LoadedAsElf == part = "loader" => Loading!LoadTypeOK /\ Loading!LoadedAsElf /\ Loading!LoaderSurvives

\* The installed filter reports the calls that PRoot or an extension has asked for, with the union of their flags.
FiltersHear == part = "filters" => Seccomp!FilterExact

\* A call of the announced kernel works on an older one, its arguments moved to where the older call takes them.
AsAnnounced == part = "kompat" => Older!ArgumentsMoved /\ Older!AsAnnounced

\* Each request is answered once, in order, and the output of a command before its end.
Answered == part = "daemon" => Server!AnsweredInOrder /\ Server!OutputTold

\* Nothing that a client or a command does ends the daemon ("Response: {"type":"exit","code":0}" and then "Shutdown",
\* README.md:88-91, is a session of one daemon).
DaemonSurvives == part = "daemon" => Server!DaemonSurvives
==============================================================================
