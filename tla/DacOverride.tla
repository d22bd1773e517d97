------------------------------ MODULE DacOverride ------------------------------
(* How -0 lets a program open what its owner may not (CAP_DAC_OVERRIDE): while *)
(* the paths of a call are translated PRoot adds to the modes of the files on  *)
(* the way the bits that are missing, and puts the modes back, newest first    *)
(* and by name, at the next event of the tracee (extension/fake_id0/fake_id0.c,*)
(* override_permissions; tracee/tracee.c, get_tracee).                         *)
(*                                                                             *)
(* The files are those of one directory, ".".  A mode is "open" when its owner *)
(* has the bits that PRoot adds, else "shut".                                  *)
EXTENDS Naturals, FiniteSets, Sequences

CONSTANTS
  Users,          \* the tracees
  Entries,          \* the names in the directory
  Inodes,         \* the files there may be
  Overlapped,     \* the calls of two tracees overlap
  Moves,          \* programs rename files that PRoot opens
  Asks,           \* the calls that tell a mode: "stat", "statx"
  EntryStops      \* a call translated at its entry stop raises an event of seccomp before the kernel executes it

NoInode == "none"
Dir == "."
Distinct == NoInode \notin Inodes /\ Dir \notin Inodes \cup Entries

ASSUME DacAssumption == Distinct

VARIABLES
  node,           \* the file that has a name
  mode,           \* the mode of a file and of the directory
  given,          \* the mode that programs have given it, a chmod(2) in which its caller was killed counted if it shows
  saved,          \* tracee->ctx: the ModifiedNodes of a tracee, oldest first
  access          \* the call of a tracee, from its entrance to its next event

dacVars == <<node, mode, given, saved, access>>

DacIdle == [op |-> "none"]
Bits == {"shut", "open"}
AccessCalls ==
  [op : Asks \cup {"open", "unlink"}, path : Entries]
  \cup [op : {"chmod", "creat"}, path : Entries, mode : Bits]
  \cup [op : {"rename"}, path : Entries, to : Entries]

\* chmod(2) and stat(2) by PRoot itself, who owns the files: what is at a path, or nothing if it may not look.
Lookup(modes, path) ==
  IF path = Dir THEN Dir ELSE IF modes[Dir] = "open" THEN node[path] ELSE NoInode

------------------------------------------------------------------------------
(* Translation: [mode, saved] after one component                            *)

SavedMode(c, final, old) == IF final /\ c.op = "chmod" THEN c.mode ELSE old

Untouched(c, final) == final /\ c.op = "stat"

OverridePermissions(c, at, path, final) ==
  LET i == Lookup(at.mode, path)
  IN IF i = NoInode \/ at.mode[i] = "open" \/ Untouched(c, final) THEN at
     ELSE [mode |-> [at.mode EXCEPT ![i] = "open"],
           saved |-> Append(at.saved, [path |-> path, mode |-> SavedMode(c, final, at.mode[i])])]

\* The components of the paths of a call, in the order of canonicalize().
Translated(t, c) ==
  LET one(at, path) == OverridePermissions(c, OverridePermissions(c, at, Dir, FALSE), path, TRUE)
      first == one([mode |-> mode, saved |-> saved[t]], c.path)
  IN IF c.op = "rename" THEN one(first, c.to) ELSE first

\* What a run leaves out (see Moves): a rename that names a file whose mode is "shut".
Allowed(c) ==
  c.op = "rename" /\ ~Moves => \A path \in {c.path, c.to} : node[path] # NoInode => given[node[path]] = "open"

DacEnter(t, c) ==
  /\ access[t] = DacIdle /\ Allowed(c)
  /\ Overlapped \/ \A u \in Users : access[u] = DacIdle
  /\ LET after == Translated(t, c)
     IN mode' = after.mode /\ saved' = [saved EXCEPT ![t] = after.saved]
  /\ access' = [access EXCEPT ![t] = [op |-> c.op, c |-> c, result |-> "none"]]
  /\ UNCHANGED <<node, given>>

------------------------------------------------------------------------------
(* The call in the kernel, with the rights of PRoot's user                   *)

EntriesOf(i) == {path \in Entries : node[path] = i}

Answer(t, result) == access' = [access EXCEPT ![t].result = result]

DacKernel(t) ==
  /\ access[t] # DacIdle /\ access[t].result = "none"
  /\ UNCHANGED saved
  /\ LET c == access[t].c
         i == node[c.path]
         needs == {Dir} \cup (IF c.op = "open" /\ i # NoInode THEN {i} ELSE {})
     IN IF \E x \in needs : mode[x] = "shut" THEN Answer(t, "EACCES") /\ UNCHANGED <<node, mode, given>>
        ELSE IF i = NoInode /\ c.op # "creat" THEN Answer(t, "ENOENT") /\ UNCHANGED <<node, mode, given>>
        ELSE CASE c.op = "open" -> Answer(t, "ok") /\ UNCHANGED <<node, mode, given>>
               [] c.op \in Asks -> Answer(t, mode[i]) /\ UNCHANGED <<node, mode, given>>
               [] c.op = "chmod" ->
                    /\ Answer(t, "ok") /\ UNCHANGED node
                    /\ mode' = [mode EXCEPT ![i] = c.mode] /\ given' = [given EXCEPT ![i] = c.mode]
               [] c.op = "unlink" ->
                    Answer(t, "ok") /\ node' = [node EXCEPT ![c.path] = NoInode] /\ UNCHANGED <<mode, given>>
               [] c.op = "creat" /\ i # NoInode -> Answer(t, "ok") /\ UNCHANGED <<node, mode, given>>
               [] c.op = "creat" /\ i = NoInode ->
                    \E new \in {x \in Inodes : EntriesOf(x) = {}} :
                      /\ Answer(t, "ok") /\ node' = [node EXCEPT ![c.path] = new]
                      /\ mode' = [mode EXCEPT ![new] = c.mode] /\ given' = [given EXCEPT ![new] = c.mode]
               [] c.op = "rename" ->
                    /\ Answer(t, "ok") /\ UNCHANGED <<mode, given>>
                    /\ node' = IF c.path = c.to THEN node ELSE [node EXCEPT ![c.path] = NoInode, ![c.to] = i]

------------------------------------------------------------------------------
(* The next event of a tracee: its collector is flushed                      *)

RestoreMode(modes, n) ==
  LET i == Lookup(modes, n.path) IN IF i = NoInode THEN modes ELSE [modes EXCEPT ![i] = n.mode]

\* talloc_free(): newest first.
Undone(modes, s) ==
  LET undone[n \in 0..Len(s)] == IF n = Len(s) THEN modes ELSE RestoreMode(undone[n + 1], s[n + 1])
  IN undone[0]

\* Mutant: the oldest is restored first.
RestoredOldest(t) == Undone(mode, [n \in DOMAIN saved[t] |-> saved[t][Len(saved[t]) + 1 - n]])
Restored(t) == Undone(mode, saved[t])

Flush(t) ==
  /\ mode' = Restored(t) /\ saved' = [saved EXCEPT ![t] = <<>>]
  /\ UNCHANGED node

GetTracee(t) ==
  /\ access[t] # DacIdle /\ (access[t].result # "none" \/ EntryStops)
  /\ access' = IF access[t].result = "none" THEN access ELSE [access EXCEPT ![t] = DacIdle]
  /\ Flush(t) /\ UNCHANGED given

\* A tracee that is killed before its call: the collector goes with it.  The node of a chmod(2) has the mode that was
\* asked for: the file gets it all the same.
DacKilled(t) ==
  /\ access[t] # DacIdle /\ access[t].result = "none"
  /\ access' = [access EXCEPT ![t] = DacIdle]
  /\ Flush(t)
  /\ LET c == access[t].c
         i == node[c.path]
     IN given' = IF c.op = "chmod" /\ i # NoInode /\ Restored(t)[i] = c.mode THEN [given EXCEPT ![i] = c.mode] ELSE given

\* get_tracee() on behalf of another: wait4(2), ptrace(2), readlink(2) of /proc/PID ...
LookedUp(t) == Overlapped /\ saved[t] # <<>> /\ Flush(t) /\ UNCHANGED <<access, given>>

DacInit ==
  /\ \E path \in Entries, i \in Inodes : node = [p \in Entries |-> IF p = path THEN i ELSE NoInode]
  /\ mode \in [Inodes \cup {Dir} -> Bits] /\ given = mode
  /\ saved = [t \in Users |-> <<>>] /\ access = [t \in Users |-> DacIdle]

DacNext ==
  \E t \in Users : (\E c \in AccessCalls : DacEnter(t, c)) \/ DacKernel(t) \/ GetTracee(t) \/ DacKilled(t) \/ LookedUp(t)

DacSpec == DacInit /\ [][DacNext]_dacVars

------------------------------------------------------------------------------
(* Properties                                                                *)

DacTypeOK ==
  /\ node \in [Entries -> Inodes \cup {NoInode}]
  /\ mode \in [Inodes \cup {Dir} -> Bits] /\ given \in [Inodes \cup {Dir} -> Bits]
  /\ \A t \in Users : \A n \in DOMAIN saved[t] : saved[t][n].path \in Entries \cup {Dir} /\ saved[t][n].mode \in Bits

Present == ({Dir} \cup {node[path] : path \in Entries}) \ {NoInode}

\* Once no call is under way, every file has the mode that programs have given it: nothing that PRoot has opened for a
\* call stays open after it, a chmod(2) that comes on top of it is kept, and the modes of a directory and of what is in
\* it come back although one is needed to reach the other.  A tracee killed in a chmod(2) leaves the old mode or the one
\* it asked for.
ModesRestored == (\A t \in Users : saved[t] = <<>>) => \A i \in Present : mode[i] = given[i]

\* A program that believes to be root is refused nothing: what PRoot has opened is open when the kernel looks.
AccessGranted == \A t \in Users : access[t] # DacIdle => access[t].result # "EACCES"

\* A call that asks for the mode of a file is told the one that programs have given it ("For stat syscalls: don't touch
\* the mode of the final component.", fake_id0.c), not the one it has during the call.
ModeTold ==
  \A t \in Users :
    access[t] # DacIdle /\ access[t].op \in Asks /\ access[t].result \in Bits =>
      access[t].result = given[node[access[t].c.path]]

\* The access that PRoot gives to its pretended root suffices, is taken back, and is not what a call is told of a mode.
AccessLent == DacTypeOK /\ ModesRestored /\ AccessGranted /\ ModeTold
==============================================================================
