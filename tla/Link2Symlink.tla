---------------------------- MODULE Link2Symlink -----------------------------
(***************************************************************************)
(* extension/link2symlink/link2symlink.c: hard links on a host that has    *)
(* none.  The first link(2) of file "a" moves it to ".l2s.a0001.0002" (the *)
(* final file, whose last digits count the links), makes ".l2s.a0001" (the *)
(* intermediate) a symbolic link to it, and "a" one to the intermediate.   *)
(* Each link and unlink renames the final file and redoes the intermediate.*)
(*                                                                         *)
(* PRoot does its part at the entry of a syscall, the kernel executes what *)
(* is left of it later, and other tracees come in between.                 *)
(*                                                                         *)
(* A path is a sequence: <<a>>, <<a, suffix>>, <<a, suffix, count>>; those *)
(* longer than one have the PREFIX.  All names are in one directory, and   *)
(* are not those of directories or of symbolic links.                      *)
(***************************************************************************)
EXTENDS Integers, Sequences, FiniteSets, Functions

CONSTANTS
  Procs,         \* tracees
  Names,         \* file names they use
  Data,          \* contents of files: bounds how many are created
  None,
  Programs,      \* the calls each tracee may make
  Disciplined,   \* programs neither race on a name nor make calls that fail half-way
  Apart          \* nobody opens or stats a file while a call changes its names

VARIABLES
  fs,            \* the host file system: a function from the paths that exist
  made,          \* the contents of files created so far
  call,          \* per tracee, its syscall
  up             \* PRoot is alive

\* Statuses of handlers and results of syscalls, beside a content and a number of links.
Ok == 0
Error == -1

vars == <<fs, made, call, up>>

ASSUME ProgramsAssumption ==
  \A p \in Procs : Programs[p] \subseteq
    [f : {"link", "unlink", "rename", "open", "stat", "creat", "linkat_fd"}, old : Names, new : Names]

Reg(d) == [k |-> "reg", d |-> d, to |-> <<>>]
Lnk(path) == [k |-> "lnk", d |-> None, to |-> path]

Exists(s, path) == path \in DOMAIN s
IsLnk(s, path) == Exists(s, path) /\ s[path].k = "lnk"

\* open(2), lstat(2) and realpath on the host: where a path leads, existing or not.
Follow(s, path) ==
  LET one == IF IsLnk(s, path) THEN s[path].to ELSE path
  IN  IF IsLnk(s, one) THEN s[one].to ELSE one

Access(s, path) == Exists(s, Follow(s, path))

\* symlink(2), rename(2), unlink(2) on the host, each whole.
Put(s, path, node) == [q \in DOMAIN s \union {path} |-> IF q = path THEN node ELSE s[q]]
Remove(s, path) == [q \in DOMAIN s \ {path} |-> s[q]]
Rename(s, from, to) == IF from = to THEN s ELSE Put(Remove(s, from), to, s[from])

Idle ==
  [stage |-> "idle", f |-> "idle", old |-> None, new |-> None, path |-> <<>>, res |-> None]

\* The file that a name leads to.
File(s, name) == LET path == Follow(s, <<name>>) IN IF Exists(s, path) THEN s[path].d ELSE None

-----------------------------------------------------------------------------
(* A handler is the sequence of the file systems it goes through, and its  *)
(* status.                                                                  *)

Steps(ss, status) == [ss |-> ss, status |-> status]
After(h) == h.ss[Len(h.ss)]

\* The final file becomes `to`, then the intermediate is unlinked and made again.
Renumber(s, inter, final, to) ==
  LET s1 == Rename(s, final, to)
  IN  <<s, s1, Remove(s1, inter), Put(Remove(s1, inter), inter, Lnk(to))>>

DecrementLinkCountAlways(s, name) ==
  LET inter == IF IsLnk(s, <<name>>) THEN s[<<name>>].to ELSE <<>>
      final == s[inter].to
  IN  IF inter = <<>> \/ ~IsLnk(s, inter) THEN Steps(<<s>>, Ok)
      ELSE Steps(<<s, Remove(s, inter), Remove(Remove(s, inter), final)>>, Ok)

DecrementLinkCount(s, name) ==
  LET inter == IF IsLnk(s, <<name>>) THEN s[<<name>>].to ELSE <<>>
      final == s[inter].to
      count == final[3] - 1
      to == <<final[1], final[2], count>>
  IN  IF inter = <<>> \/ ~IsLnk(s, inter) THEN Steps(<<s>>, Ok)
      ELSE IF count > 0
      THEN IF Exists(s, final) THEN Steps(Renumber(s, inter, final, to), Ok)
           ELSE Steps(<<s>>, Error)
      ELSE IF Exists(s, final)
      THEN Steps(<<s, Remove(s, inter), Remove(Remove(s, inter), final)>>, Ok)
      ELSE Steps(<<s, Remove(s, inter)>>, Error)

\* A name is made for the second link of a file: the first suffix nothing answers to.
Intermediate(s, name) ==
  LET free == {i \in 1..(Cardinality(DOMAIN s) + 1) : ~Access(s, <<name, i>>)}
  IN  <<name, CHOOSE i \in free : \A j \in free : i <= j>>

FirstLink(s, old) ==
  LET inter == Intermediate(s, old)
      final == <<inter[1], inter[2], 2>>
      s1 == Rename(s, <<old>>, final)
      s2 == Put(s1, inter, Lnk(final))
  IN  IF Exists(s1, inter) THEN Steps(<<s, s1>>, Error)
      ELSE Steps(<<s, s1, s2, Put(s2, <<old>>, Lnk(inter))>>, Ok)

\* The digits are printed after strlen(new_final), of an array that was not written up to
\* there: rename(2) fails if what is there is not a name.
NextLink(s, old, garbled) ==
  LET inter == s[<<old>>].to
      final == s[inter].to
  IN  IF ~IsLnk(s, inter) \/ ~Exists(s, final) \/ garbled THEN Steps(<<s>>, Error)
      ELSE Steps(Renumber(s, inter, final, <<final[1], final[2], final[3] + 1>>), Ok)

MoveAndSymlinkPathNotUndone(s, old, new, garbled) ==
  LET h == IF IsLnk(s, <<old>>) THEN NextLink(s, old, garbled) ELSE FirstLink(s, old)
      t == After(h)
  IN  IF ~Exists(s, <<old>>) THEN Steps(<<s>>, Error)
      ELSE IF h.status = Error \/ Exists(t, <<new>>) THEN Steps(h.ss, Error)
      ELSE Steps(h.ss \o <<Put(t, <<new>>, t[<<old>>])>>, Ok)

MoveAndSymlinkPath(s, old, new, garbled) ==
  LET h == IF IsLnk(s, <<old>>) THEN NextLink(s, old, garbled) ELSE FirstLink(s, old)
      t == After(h)
      undone == DecrementLinkCount(t, old)
  IN  IF ~Exists(s, <<old>>) THEN Steps(<<s>>, Error)
      ELSE IF h.status = Error THEN h
      ELSE IF Exists(t, <<new>>) THEN Steps(h.ss \o undone.ss, Error)
      ELSE Steps(h.ss \o <<Put(t, <<new>>, t[<<old>>])>>, Ok)

\* A file that has no name left but a descriptor gets one: its content is copied (None: in
\* part) to a new file.
LinkatFromProcFd(s, new, d) ==
  LET s1 == IF Exists(s, <<new>>) THEN Remove(s, <<new>>) ELSE s
  IN  Steps(<<s, s1, Put(s1, <<new>>, Reg(None)), Put(s1, <<new>>, Reg(d))>>, Ok)

\* SYSCALL_ENTER_END of link2symlink_callback().  What the stack held, and the content of
\* a descriptor, are the environment.
EnterEnd(c, garbled, d) ==
  CASE c.f = "link" -> MoveAndSymlinkPath(fs, c.old, c.new, garbled)
    [] c.f = "linkat_fd" -> LinkatFromProcFd(fs, c.new, d)
    [] c.f \in {"unlink", "rename"} -> DecrementLinkCount(fs, c.new)
    [] OTHER -> Steps(<<fs>>, Ok)

TranslatedPathOfAll(c) == Follow(fs, <<c.new>>)

\* translate_path() and the TRANSLATED_PATH event: link, unlink and rename get the name
\* itself, the others what it leads to.
TranslatedPath(c) == IF c.f \in {"open", "stat", "creat"} THEN Follow(fs, <<c.new>>) ELSE <<c.new>>

-----------------------------------------------------------------------------
(* Syscalls of tracees                                                     *)

Reads(c) == c.f \in {"open", "stat"}
Named(c) == IF c.f \in {"link", "rename"} THEN {c.old, c.new} ELSE {c.new}
FilesOf(c) == {File(fs, n) : n \in Named(c)} \ {None}

\* Calls that overlap name no name in common, unless they only read it; what is made anew
\* is not there; a rename finds what it renames, and replaces no name of the same file.
Disciplines(p, c) ==
  /\ \A q \in Procs \ {p} : call[q] # Idle =>
       Named(c) \intersect Named(call[q]) = {} \/ (Reads(c) /\ Reads(call[q]))
  /\ c.f \in {"creat", "linkat_fd"} => ~Exists(fs, <<c.new>>)
  /\ c.f = "rename" => Exists(fs, <<c.old>>) /\ File(fs, c.old) # File(fs, c.new)

\* A path is translated at the entry of open and stat and followed later by the kernel: the final file may have
\* another name then.
StaysApart(p, c) ==
  \A q \in Procs \ {p} : call[q] # Idle /\ Reads(c) # Reads(call[q]) => FilesOf(c) \intersect FilesOf(call[q]) = {}

Call(p, c) ==
  /\ call[p] = Idle /\ (Disciplined => Disciplines(p, c)) /\ (Apart => StaysApart(p, c))
  /\ call' = [call EXCEPT ![p] = [Idle EXCEPT !.stage = "called", !.f = c.f, !.old = c.old, !.new = c.new]]
  /\ UNCHANGED <<fs, made>>

\* A call whose handler fails or does everything does not reach the kernel.
Enter(p, garbled, d) ==
  LET c == call[p]
      path == TranslatedPath(c)
      Whole(h) == h.status = Error \/ c.f \in {"link", "linkat_fd"}
      Res(h) == CASE Whole(h) -> h.status
                  [] c.f = "stat" /\ Exists(fs, path) -> (IF Len(path) = 3 THEN path[3] ELSE 1)
                  [] OTHER -> None
  IN  /\ c.stage = "called"
      /\ c.f = "linkat_fd" => d \notin made
      /\ \E h \in {EnterEnd(c, garbled, d)} :
           /\ call' = [call EXCEPT ![p].path = path, ![p].res = Res(h),
                                   ![p].stage = IF Whole(h) THEN "done" ELSE "entered"]
           /\ fs' = After(h)
      /\ made' = IF c.f = "linkat_fd" THEN made \union {d} ELSE made

\* handle_sysexit_end(): the number of links of what was stat'ed.
ExitStat(p) ==
  LET path == call[p].path
      final == IF IsLnk(fs, path) THEN Follow(fs, path) ELSE path
  IN  IF Len(final) < 3 THEN call[p].res
      ELSE IF Exists(fs, final) THEN final[3] ELSE Error

Exit(p) ==
  /\ call[p].stage = "executed"
  /\ call' = [call EXCEPT ![p].stage = "done",
                          ![p].res = IF call[p].f = "stat" /\ @ # Error THEN ExitStat(p) ELSE @]
  /\ UNCHANGED <<fs, made>>

Return(p) ==
  /\ call[p].stage = "done" /\ call' = [call EXCEPT ![p] = Idle]
  /\ UNCHANGED <<fs, made>>

-----------------------------------------------------------------------------
(* The kernel                                                              *)

Gets(p, res) == call' = [call EXCEPT ![p].stage = "executed", ![p].res = res]

Fails(p) == Gets(p, Error) /\ UNCHANGED <<fs, made>>

KernelUnlink(p) ==
  /\ call[p].f = "unlink"
  /\ IF Exists(fs, call[p].path)
     THEN fs' = Remove(fs, call[p].path) /\ Gets(p, Ok) /\ UNCHANGED made
     ELSE Fails(p)

KernelRename(p) ==
  /\ call[p].f = "rename"
  /\ IF Exists(fs, <<call[p].old>>)
     THEN fs' = Rename(fs, <<call[p].old>>, <<call[p].new>>) /\ Gets(p, Ok) /\ UNCHANGED made
     ELSE Fails(p)

KernelOpen(p) ==
  LET path == Follow(fs, call[p].path) IN
  \/ /\ call[p].f \in {"open", "creat"} /\ Exists(fs, path)
     /\ Gets(p, fs[path].d) /\ UNCHANGED <<fs, made>>
  \/ call[p].f = "open" /\ ~Exists(fs, path) /\ Fails(p)
  \/ /\ call[p].f = "creat" /\ ~Exists(fs, path)
     /\ \E d \in Data \ made :
          fs' = Put(fs, path, Reg(d)) /\ made' = made \union {d} /\ Gets(p, d)

KernelStat(p) ==
  /\ call[p].f = "stat"
  /\ IF Exists(fs, Follow(fs, call[p].path))
     THEN Gets(p, IF call[p].res = None THEN 1 ELSE call[p].res) /\ UNCHANGED <<fs, made>>
     ELSE Fails(p)

Kernel(p) ==
  /\ call[p].stage = "entered"
  /\ KernelUnlink(p) \/ KernelRename(p) \/ KernelOpen(p) \/ KernelStat(p)

\* PRoot is killed inside of a handler, after any of its syscalls, and its tracees with it.
Killed ==
  /\ \E p \in Procs, garbled \in BOOLEAN, d \in Data :
       /\ call[p].stage = "called" /\ (call[p].f = "linkat_fd" => d \notin made)
       /\ \E s \in Range(EnterEnd(call[p], garbled, d).ss) : fs' = s
       /\ made' = IF call[p].f = "linkat_fd" THEN made \union {d} ELSE made
  /\ up' = FALSE
  /\ call' = [p \in Procs |-> Idle]

Init ==
  /\ fs = <<>> /\ made = {} /\ up = TRUE
  /\ call = [p \in Procs |-> Idle]

Next ==
  \/ up /\ Killed
  \/ /\ up /\ UNCHANGED up
     /\ \E p \in Procs :
          \/ \E c \in Programs[p] : Call(p, c)
          \/ \E garbled \in BOOLEAN, d \in Data : Enter(p, garbled, d)
          \/ Kernel(p) \/ Exit(p) \/ Return(p)

Spec == Init /\ [][Next]_vars
-----------------------------------------------------------------------------
(* Properties                                                              *)

\* Types: a name leads to an intermediate, an intermediate to a final file.
TypeOK ==
  /\ \A path \in DOMAIN fs :
       /\ path[1] \in Names /\ Len(path) \in 1..3
       /\ IF Len(path) = 2 THEN IsLnk(fs, path) /\ Len(fs[path].to) = 3
          ELSE IF IsLnk(fs, path) THEN Len(path) = 1 /\ Len(fs[path].to) = 2
          ELSE fs[path].d \in made \union {None}
  /\ made \subseteq Data
  /\ \A p \in Procs : call[p].stage \in {"idle", "called", "entered", "executed", "done"}

Removes(p) == call[p].stage = "entered" /\ call[p].f \in {"unlink", "rename"}

\* The digits at the end of a final file are the number of its names, those that a
\* syscall is about to take away not counted: the last unlink of a name deletes the file,
\* and no earlier one.
CountMatches ==
  up => \A path \in DOMAIN fs : Len(path) = 3 =>
    path[3] = Cardinality({n \in Names :
      /\ IsLnk(fs, <<n>>) /\ fs[<<n>>].to = <<path[1], path[2]>>
      /\ ~\E p \in Procs : Removes(p) /\ call[p].new = n})

\* No file is lost, none is kept that no name leads to, and none is in two places.
NothingLeft ==
  up => \A d \in made :
    /\ Cardinality({path \in DOMAIN fs : fs[path] = Reg(d)}) <= 1
    /\ (\E path \in DOMAIN fs : fs[path] = Reg(d)) <=> (\E n \in Names : File(fs, n) = d)

\* A file that some name leads to, and that nobody unlinks, is still on the host after
\* PRoot was killed in the middle of a handler.
KillKeepsFiles ==
  [][~up' => \A n \in Names :
       \/ File(fs, n) = None
       \/ \E path \in DOMAIN fs' : fs'[path] = Reg(File(fs, n))
       \/ \E p \in Procs : call[p].f \in {"unlink", "rename"} /\ call[p].new = n]_vars

\* What programs see: a name is gone once the unlink was entered, and moved once the rename was.
Renames(n) == {p \in Procs : Removes(p) /\ call[p].f = "rename" /\ n \in {call[p].old, call[p].new}}
Seen(n) ==
  IF \E p \in Procs : Removes(p) /\ call[p].f = "unlink" /\ call[p].new = n THEN None
  ELSE IF Renames(n) # {} THEN LET c == call[CHOOSE p \in Renames(n) : TRUE]
                               IN  IF n = c.new THEN File(fs, c.old) ELSE None
  ELSE File(fs, n)

Links == INSTANCE HardLinks WITH
  names <- [n \in Names |-> Seen(n)],
  pending <- [p \in Procs |->
    [f |-> call[p].f, old |-> call[p].old, new |-> call[p].new,
     res |-> IF Removes(p) /\ Exists(fs, IF call[p].f = "unlink" THEN call[p].path ELSE <<call[p].old>>) THEN Ok
             ELSE call[p].res]]

\* Names made of symbolic links behave as the names of hard links.
KeepsPromises == Links!Spec

\* A name keeps its file, as long as no call takes that name away.
NothingLost ==
  [][up' => \A n \in Names : File(fs, n) # None /\ File(fs', n) # File(fs, n) =>
       \E p \in Procs : call[p].f \in {"unlink", "rename", "linkat_fd"} /\ n \in {call[p].old, call[p].new}]_vars
==============================================================================
