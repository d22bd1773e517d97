-------------------------------- MODULE Execve --------------------------------
(* execve(2) of a tracee (execve/enter.c, exit.c, shebang.c, aoxp.c, ldso.c):  *)
(* its entrance translates the path, follows the scripts, puts the program     *)
(* behind QEMU and reads what has to be loaded; then the kernel starts the     *)
(* loader or QEMU; at the exit PRoot commits, and the loader starts the        *)
(* program.  A ptracer must see nothing of it.                                 *)
EXTENDS Naturals, Sequences, SequencesExt

CONSTANTS
  Files,          \* path -> [type, interp, arg, host, paths]; type: "elf", "script", "text" or "locked"
  Calls,          \* the calls of programs: [path, argv]
  Libraries,      \* the values that programs give to LD_LIBRARY_PATH
  Runners,        \* the options -q there may be: their words, the program first; <<>>: none
  MAXSYMLINKS,
  Faults          \* what happens: "refused", "attach", "leave", "library", see the actions

VARIABLES
  tracee,         \* qemu: the option -q it has; exe, host_exe, load_info, skip, ignore; guest and host: guest_ldso_paths and host_ldso_paths
  traced,         \* it has a ptracer in PRoot
  prog,           \* the program in its memory: path, argv, library
  new,            \* what the kernel has been asked to start
  notify,         \* the load script ends with a notification
  stage           \* "user", "kernel", "exit", "loader"; "killed": by the loader; "aborted": PRoot

execveVars == <<tracee, traced, prog, new, notify, stage>>

NULL == ""
Unset == "unset"

------------------------------------------------------------------------------
(* Arrays of pointers, aoxp.c: a sequence whose last element is NULL.  Their *)
(* indices begin with 0.                                                     *)

\* resize_array_of_xpointers(), for more entries; its assertion is index < Len(array).
Resize(array, index, n) == SubSeq(array, 1, index) \o [i \in 1 .. n |-> NULL] \o SubSeq(array, index + 1, Len(array))
\* write_xpointees()
Write(array, index, words) ==
  [i \in DOMAIN array |-> IF i \in index + 1 .. index + Len(words) THEN words[i - index] ELSE array[i]]

------------------------------------------------------------------------------
(* Scripts                                                                   *)

\* translate_and_check_exec()
Check(path) ==
  IF path \notin DOMAIN Files THEN "ENOENT" ELSE IF Files[path].type = "locked" THEN "EACCES" ELSE "ok"

\* Mutant: argv[0] is kept.
ShebangArgvKept(argv, interp, arg, path) ==
  <<interp>> \o (IF arg = NULL THEN <<>> ELSE <<arg>>) \o <<path>> \o argv
\* The words of the first line and the script replace argv[0], if there is one.
ShebangArgv(argv, interp, arg, path) ==
  LET words == <<interp>> \o (IF arg = NULL THEN <<>> ELSE <<arg>>) \o <<path>>
  IN Write(Resize(argv, 0, Len(words) - 1 + (IF Len(argv) = 1 THEN 1 ELSE 0)), 0, words)

\* extract_shebang(), then its interpreter.
Interpreted(s) ==
  LET f == Files[s.path]
  IN IF f.type # "script" THEN [s EXCEPT !.status = "found"]
     ELSE IF Check(f.interp) # "ok" THEN [s EXCEPT !.status = Check(f.interp)]
     ELSE [s EXCEPT !.path = f.interp, !.argv = ShebangArgv(@, f.interp, f.arg, s.path)]

\* expand_shebang(): [path, argv, status].
ExpandShebang(path, argv) ==
  LET turn(s, i) ==
        IF s.status # "script" THEN s
        ELSE IF Check(s.path) # "ok" THEN [s EXCEPT !.status = Check(s.path)] ELSE Interpreted(s)
      end == FoldLeft(turn, [path |-> path, argv |-> argv, status |-> "script"], [i \in 1 .. MAXSYMLINKS |-> i])
  IN IF end.status = "script" THEN [end EXCEPT !.status = "ELOOP"] ELSE end

------------------------------------------------------------------------------
(* QEMU: a foreign program is an argument of QEMU, a program of the host     *)

IsHostElf(path) == Files[path].type = "elf" /\ Files[path].host

\* The value that a foreign program gets: LD_LIBRARY_PATH as it was before a program of the host got its own.
GuestLibrary(t, library) == IF NULL \notin {t.guest, t.host} /\ library = t.host THEN t.guest ELSE library

\* ldso_env_passthru(), for LD_LIBRARY_PATH: the options of QEMU that set or unset it.
Passthru(t, argv, library, offset) ==
  LET words == IF library = Unset THEN <<"-U", "LD_LIBRARY_PATH">> ELSE <<"-E", GuestLibrary(t, library)>>
  IN Write(Resize(argv, offset, 2), offset, words)

\* rebuild_host_ldso_paths(): [host, guest], what is remembered, of the first program of the host alone; the new value
\* is that of the program's own paths.
Rebuild(t, library, paths) ==
  [t EXCEPT !.guest = IF @ = NULL /\ library # Unset THEN library ELSE @, !.host = IF @ = NULL THEN paths ELSE @]

\* expand_runner(): [t, path, argv, library].
ExpandRunner(t, s, library) ==
  IF tracee.qemu = <<>> THEN [t |-> t, path |-> s.path, argv |-> s.argv, library |-> library]
  ELSE IF IsHostElf(s.path)
  THEN [t |-> Rebuild(t, library, Files[s.path].paths), path |-> s.path, argv |-> s.argv, library |-> Files[s.path].paths]
  ELSE LET n == Len(tracee.qemu)
           argv == Write(Resize(s.argv, 1, n + 2), 0, tracee.qemu \o <<"-0", s.argv[1], s.path>>)
       IN [t |-> [Rebuild(t, Unset, Files[tracee.qemu[1]].paths) EXCEPT !.skip = TRUE], path |-> tracee.qemu[1],
           argv |-> Passthru(t, argv, library, n), library |-> Files[tracee.qemu[1]].paths]

RunnerAsserts(s) == tracee.qemu # <<>> /\ ~IsHostElf(s.path) => 1 < Len(s.argv)

------------------------------------------------------------------------------
(* translate_execve_enter()                                                  *)

Fails == stage' = "user" /\ UNCHANGED <<traced, prog, new, notify>>

\* extract_load_info(): what it has read stays, whole or not.
Extracted(t, path) == [t EXCEPT !.load_info = [of |-> path, whole |-> Files[path].type = "elf"], !.skip = FALSE]

\* Mutant: /proc/self/exe changes at once.
RememberExeNow(t, path) == [t EXCEPT !.host_exe = path, !.new_exe = path, !.exe = path]
RememberExe(t, path) == [t EXCEPT !.host_exe = path, !.new_exe = path]

Asks(r) == new' = [path |-> r.path, argv |-> r.argv, library |-> r.library] /\ stage' = "kernel"

Translated(s, library) ==
  LET r == ExpandRunner(RememberExe([tracee EXCEPT !.skip = FALSE], s.path), s, library)
      t == IF r.t.skip THEN [r.t EXCEPT !.load_info = [of |-> NULL, whole |-> FALSE]] ELSE Extracted(r.t, r.path)
  IN \/ /\ ~RunnerAsserts(s) /\ stage' = "aborted" /\ UNCHANGED <<tracee, traced, prog, new, notify>>
     \/ /\ RunnerAsserts(s) /\ ~t.skip /\ ~t.load_info.whole
        /\ tracee' = t /\ Fails
     \/ /\ RunnerAsserts(s) /\ (t.skip \/ t.load_info.whole)
        /\ tracee' = [t EXCEPT !.ignore = @ \/ ~t.skip]
        /\ Asks(r) /\ UNCHANGED <<traced, prog, notify>>

\* "library": programs change LD_LIBRARY_PATH.
TranslateExecveEnter(c, library) ==
  /\ stage = "user" /\ ("library" \in Faults \/ library = prog.library)
  /\ LET s == ExpandShebang(c.path, Append(c.argv, NULL))
     IN IF s.status # "found" THEN UNCHANGED tracee /\ Fails ELSE Translated(s, library)

\* The loader may be refused too: with too many arguments, or without memory.  "refused": under a ptracer too.
Refused ==
  /\ stage = "kernel" /\ (~traced \/ "refused" \in Faults)
  /\ stage' = "user" /\ UNCHANGED <<tracee, traced, prog, new, notify>>

Replaced == stage = "kernel" /\ stage' = "exit" /\ UNCHANGED <<tracee, traced, prog, new, notify>>

\* What the program in memory sees: QEMU hides itself.
Started ==
  IF ~tracee.skip THEN new
  ELSE LET n == Len(tracee.qemu) + 2
       IN [path |-> tracee.new_exe, argv |-> SubSeq(new.argv, n + 2, n + 2) \o SubSeq(new.argv, n + 4, Len(new.argv)),
           library |-> IF new.argv[n - 1] = "-U" THEN Unset ELSE new.argv[n]]

\* translate_execve_exit(): QEMU is there; or the load script is, with a notification at its end for the ptracer.
TranslateExecveExit ==
  /\ stage = "exit" /\ prog' = Started
  /\ IF tracee.skip THEN stage' = "user" /\ UNCHANGED <<tracee, notify>>
     ELSE /\ tracee' = [tracee EXCEPT !.exe = tracee.new_exe]
          /\ notify' = traced /\ stage' = "loader"
  /\ UNCHANGED <<traced, new>>

\* The second execve(2), of the loader: translate_execve_enter() unmasks the syscalls, and voids it.
LoadDone(t) == [t EXCEPT !.ignore = FALSE]

LoaderStarts ==
  /\ stage = "loader" /\ (notify => traced)
  /\ stage' = "user" /\ tracee' = IF notify THEN LoadDone(tracee) ELSE tracee
  /\ UNCHANGED <<traced, prog, new, notify>>

\* Without its ptracer the notification is an execve(2) of a bad address: the loader ends the process.
LoaderEnds ==
  /\ stage = "loader" /\ notify /\ ~traced /\ stage' = "killed"
  /\ UNCHANGED <<tracee, traced, prog, new, notify>>

\* attach_to_ptracer() begins with everything cleared.  "attach": at any time.
Attach ==
  /\ ~traced /\ stage \in {"user", "kernel", "exit", "loader"} /\ (stage = "user" \/ "attach" \in Faults)
  /\ traced' = TRUE /\ tracee' = [tracee EXCEPT !.ignore = FALSE]
  /\ UNCHANGED <<prog, new, notify, stage>>

\* detach_from_ptracer(), when it asks for it or has ended.  "leave": at any time.
Detach ==
  /\ traced /\ stage \in {"user", "kernel", "exit", "loader"} /\ (stage \in {"user", "kernel"} \/ "leave" \in Faults)
  /\ traced' = FALSE /\ UNCHANGED <<tracee, prog, new, notify, stage>>

\* The first program, which had all of its file read, or was started behind QEMU, a program of the host.
ExecveInit ==
  \E qemu \in Runners :
  \E p \in {q \in DOMAIN Files : Files[q].type = "elf" /\ (qemu = <<>> \/ ~Files[q].host)}, l \in Libraries :
    /\ tracee = [qemu |-> qemu, exe |-> p, host_exe |-> p, new_exe |-> p, load_info |-> [of |-> p, whole |-> qemu = <<>>],
                 skip |-> qemu # <<>>, ignore |-> FALSE, guest |-> NULL, host |-> IF qemu = <<>> THEN NULL ELSE Files[qemu[1]].paths]
    /\ prog = [path |-> p, argv |-> <<p, NULL>>, library |-> l]
    /\ new = prog /\ traced = FALSE /\ notify = FALSE /\ stage = "user"

ExecveNext ==
  \/ \E c \in Calls, l \in Libraries \cup {prog.library} : TranslateExecveEnter(c, l)
  \/ Refused \/ Replaced \/ TranslateExecveExit \/ LoaderStarts \/ LoaderEnds \/ Attach \/ Detach

ExecveSpec == ExecveInit /\ [][ExecveNext]_execveVars

------------------------------------------------------------------------------
(* Properties                                                                *)

\* execve(2), for a script: "interpreter [optional-arg] filename arg...", and so on for the interpreter of the
\* interpreter.  The program at the end of the chain, and its arguments:
WordsBefore(path) ==
  <<Files[path].interp>> \o (IF Files[path].arg = NULL THEN <<>> ELSE <<Files[path].arg>>)
Expected(c) ==
  LET scripts == FoldLeft(LAMBDA w, i : IF Check(w.path) # "ok" \/ Files[w.path].type # "script" THEN w
                                        ELSE [path |-> Files[w.path].interp, words |-> WordsBefore(w.path) \o w.words],
                          [path |-> c.path, words |-> <<>>], [i \in 1 .. MAXSYMLINKS |-> i])
  IN IF scripts.path = c.path THEN [path |-> c.path, argv |-> c.argv]
     ELSE [path |-> scripts.path, argv |-> scripts.words \o <<c.path>> \o SubSeq(c.argv, 2, Len(c.argv))]

\* A program that a call has started has the arguments that execve(2) promises, whatever scripts lie in between and
\* whether QEMU runs it: nothing is lost or doubled in the arrays that PRoot has resized and rewritten.
StartsAsAsked ==
  prog' # prog => \E c \in Calls : prog'.path = Expected(c).path /\ prog'.argv = Append(Expected(c).argv, NULL)
ArgvAsKernel == [][StartsAsAsked]_execveVars

\* /proc/self/exe is the program in memory, also after calls that have failed halfway (RememberExe remembers the new
\* one, TranslateExecveExit commits it); programs run by QEMU set apart.
ExeTold == stage \in {"user", "kernel", "loader"} /\ tracee.qemu = <<>> => tracee.exe = prog.path

\* "Mask to its ptracer syscalls performed by the loader" (enter.c:717), and none of the program's.
HearsTheProgram ==
  traced => (stage = "user" /\ ~tracee.skip => ~tracee.ignore) /\ (stage = "loader" => tracee.ignore)

\* Once loaded, a program is started, whether it is traced or not.
ProgramsStart == stage # "killed"

\* No call makes PRoot abort: the indices of resize_array_of_xpointers() are within the array.
RunnerHolds == stage # "aborted"

\* What PRoot has remembered of the segments, which brk(2) will put the heap behind, is of the program in memory.
LoadKnown ==
  stage = "user" /\ tracee.qemu = <<>> => tracee.load_info = [of |-> prog.path, whole |-> TRUE]

\* "Remember guest LD_LIBRARY_PATH in order to restore it when a host program will execute a guest program" (ldso.c):
\* a foreign program never finds in its environment what was meant for the programs of the host that get the library
\* path of QEMU, those of its class and with no RPATH of their own; whatever other programs of the host came before.
LikeQemu(p) == IsHostElf(p) /\ Files[p].paths = Files[tracee.qemu[1]].paths
LibraryRestored ==
  tracee.qemu # <<>> /\ stage = "user" /\ ~IsHostElf(prog.path) =>
    prog.library \notin {Files[p].paths : p \in {q \in DOMAIN Files : LikeQemu(q)}}
==============================================================================
