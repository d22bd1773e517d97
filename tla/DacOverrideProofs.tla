--------------------------- MODULE DacOverrideProofs ---------------------------
(* Theorems about DacOverride, for any number of tracees, of names and of      *)
(* files, when their calls do not overlap.                                     *)
EXTENDS DacOverride, SequenceTheorems, TLAPS

Results == {"none", "ok", "ENOENT"} \cup Bits
Saves == [path : Entries \cup {Dir}, mode : Bits]
UnderWays == {[op |-> c.op, c |-> c, result |-> r] : c \in AccessCalls, r \in Results}

------------------------------------------------------------------------------
(* The invariant                                                             *)

\* A call that tells a mode or renames has nothing opened but the directory.
OfDir == [path |-> Dir, mode |-> "shut"]
OfFile(c, m) == [path |-> c.path, mode |-> m]

\* What the collector of a tracee holds during the call c: opened tells whether PRoot has opened its file, m is the
\* mode that the file gets back.
Collected(c, opened, m) ==
  IF given[Dir] = "shut"
  THEN IF opened THEN <<OfDir, OfFile(c, m)>> ELSE <<OfDir>>
  ELSE IF opened THEN <<OfFile(c, m)>> ELSE <<>>

\* The mode that the file of a call gets back: the one that chmod(2) is about to give it, or the one it was given.
Due(c, r, m) ==
  node[c.path] # NoInode => m = IF c.op = "chmod" /\ r = "none" THEN c.mode ELSE given[node[c.path]]

\* Only what the collector holds differs from what programs have given.
Lent(t, c, r, opened, m) ==
  /\ saved[t] = Collected(c, opened, m)
  /\ \A i \in Present \ {Dir} : mode[i] = given[i] \/ (opened /\ i = node[c.path])
  /\ opened => c.op \notin {"stat", "rename"} /\ Due(c, r, m) /\ (r = "none" => node[c.path] # NoInode)

\* A call that is under way: the kernel refuses it nothing, and told it the mode that was given.
UnderWay(t, c, r) ==
  /\ mode[Dir] = "open"
  /\ c.op = "open" /\ r = "none" /\ node[c.path] # NoInode => mode[node[c.path]] = "open"
  /\ c.op = "stat" /\ r \in Bits => r = given[node[c.path]]
  /\ \E opened \in BOOLEAN, m \in Bits : Lent(t, c, r, opened, m)

Typed ==
  /\ node \in [Entries -> Inodes \cup {NoInode}]
  /\ mode \in [Inodes \cup {Dir} -> Bits] /\ given \in [Inodes \cup {Dir} -> Bits]
  /\ saved \in [Users -> Seq(Saves)] /\ access \in [Users -> {DacIdle} \cup UnderWays]

\* A file has one name.
OneName == \A p, q \in Entries : node[p] = node[q] /\ node[p] # NoInode => p = q

\* One call at a time.
OneCall == \A t, u \in Users : access[t] # DacIdle /\ access[u] # DacIdle => t = u

AsGiven == \A i \in Present : mode[i] = given[i]

DacInv ==
  /\ Typed /\ OneName /\ OneCall
  /\ \A t \in Users : IF access[t] = DacIdle THEN saved[t] = <<>> ELSE UnderWay(t, access[t].c, access[t].result)
  /\ (\A t \in Users : access[t] = DacIdle) => AsGiven

------------------------------------------------------------------------------
(* What a collector puts back                                                *)

LEMMA NothingUndone ==
  ASSUME NEW modes
  PROVE  Undone(modes, <<>>) = modes
<1> DEFINE s == <<>>
           Rest(f) == [n \in 0..Len(s) |-> IF n = Len(s) THEN modes ELSE RestoreMode(f[n + 1], s[n + 1])]
           u == CHOOSE f : f = Rest(f)
<1>1. \E f : f = Rest(f)
  <2> DEFINE h == [n \in 0..Len(s) |-> modes]
  <2>1. Len(s) = 0 /\ 0..Len(s) = {0}
    OBVIOUS
  <2>2. h = Rest(h)
    BY <2>1
  <2> QED  BY <2>2
<1>2. u = Rest(u)
  BY <1>1
<1>3. u[0] = modes
  <2> HIDE DEF u
  <2> QED  BY <1>2
<1> QED  BY <1>3 DEF Undone

LEMMA OneUndone ==
  ASSUME NEW modes, NEW a
  PROVE  Undone(modes, <<a>>) = RestoreMode(modes, a)
<1> DEFINE s == <<a>>
           Rest(f) == [n \in 0..Len(s) |-> IF n = Len(s) THEN modes ELSE RestoreMode(f[n + 1], s[n + 1])]
           u == CHOOSE f : f = Rest(f)
<1>0. Len(s) = 1 /\ s[1] = a /\ 0..Len(s) = {0, 1}
  OBVIOUS
<1>1. \E f : f = Rest(f)
  <2> DEFINE h == [n \in 0..Len(s) |-> IF n = 1 THEN modes ELSE RestoreMode(modes, a)]
  <2>1. h[1] = modes
    BY <1>0
  <2>2. h = Rest(h)
    BY <1>0, <2>1
  <2> QED  BY <2>2
<1>2. u = Rest(u)
  BY <1>1
<1>3. u[0] = RestoreMode(modes, a)
  <2> HIDE DEF u, s
  <2>1. u[1] = modes
    BY <1>0, <1>2
  <2> QED  BY <1>0, <1>2, <2>1
<1> QED  BY <1>3 DEF Undone

LEMMA TwoUndone ==
  ASSUME NEW modes, NEW a, NEW b
  PROVE  Undone(modes, <<a, b>>) = RestoreMode(RestoreMode(modes, b), a)
<1> DEFINE s == <<a, b>>
           Rest(f) == [n \in 0..Len(s) |-> IF n = Len(s) THEN modes ELSE RestoreMode(f[n + 1], s[n + 1])]
           u == CHOOSE f : f = Rest(f)
<1>0. Len(s) = 2 /\ s[1] = a /\ s[2] = b /\ 0..Len(s) = {0, 1, 2}
  OBVIOUS
<1>1. \E f : f = Rest(f)
  <2> DEFINE last == RestoreMode(modes, b)
             h == [n \in 0..Len(s) |-> IF n = 2 THEN modes ELSE IF n = 1 THEN last ELSE RestoreMode(last, a)]
  <2>1. h[1] = last /\ h[2] = modes
    BY <1>0
  <2>2. h = Rest(h)
    BY <1>0, <2>1
  <2> QED  BY <2>2
<1>2. u = Rest(u)
  BY <1>1
<1>3. u[0] = RestoreMode(RestoreMode(modes, b), a)
  <2> HIDE DEF u, s
  <2>1. u[2] = modes
    BY <1>0, <1>2
  <2>2. u[1] = RestoreMode(modes, b)
    BY <1>0, <1>2, <2>1
  <2> QED  BY <1>0, <1>2, <2>2
<1> QED  BY <1>3 DEF Undone

------------------------------------------------------------------------------
(* Types                                                                     *)

LEMMA CallFields ==
  ASSUME Asks = {"stat"}, NEW c \in AccessCalls
  PROVE  /\ c.op \in {"stat", "open", "unlink", "chmod", "creat", "rename"} /\ c.path \in Entries
         /\ c.op \in {"chmod", "creat"} => c.mode \in Bits
         /\ c.op = "rename" => c.to \in Entries
  BY DEF AccessCalls

LEMMA UnderWayFields ==
  ASSUME Asks = {"stat"}, Typed, NEW t \in Users, access[t] # DacIdle
  PROVE  /\ access[t].c \in AccessCalls /\ access[t].result \in Results /\ access[t].op = access[t].c.op
         /\ access[t] = [op |-> access[t].c.op, c |-> access[t].c, result |-> access[t].result]
<1>1. PICK c \in AccessCalls, r \in Results : access[t] = [op |-> c.op, c |-> c, result |-> r]
  BY DEF Typed, UnderWays
<1> QED  BY <1>1

LEMMA NotIdle ==
  ASSUME Asks = {"stat"}, NEW c \in AccessCalls, NEW r
  PROVE  [op |-> c.op, c |-> c, result |-> r] # DacIdle
<1>1. c.op # "none"
  BY CallFields
<1> QED  BY <1>1 DEF DacIdle

LEMMA PresentAre ==
  ASSUME Distinct, node \in [Entries -> Inodes \cup {NoInode}]
  PROVE  /\ Present \subseteq Inodes \cup {Dir} /\ Dir \in Present /\ Dir # NoInode
         /\ \A path \in Entries : path # Dir /\ node[path] # Dir
         /\ \A path \in Entries : node[path] # NoInode => node[path] \in Present /\ node[path] \in Inodes
  BY DEF Present, Distinct, Dir, NoInode

------------------------------------------------------------------------------
(* The entrance of a call                                                    *)

\* What a translation has after the directory, and after a path that names a file; LeftAlone: the file at a path stays
\* as it is.
WithDir(at, after) ==
  /\ after.mode = [at.mode EXCEPT ![Dir] = "open"]
  /\ after.saved = IF at.mode[Dir] = "shut" THEN Append(at.saved, OfDir) ELSE at.saved

LeftAlone(c, modes, path) == node[path] = NoInode \/ modes[node[path]] = "open" \/ c.op = "stat"

WithFile(c, at, path, after) ==
  IF LeftAlone(c, at.mode, path) THEN after = at
  ELSE /\ after.mode = [at.mode EXCEPT ![node[path]] = "open"]
       /\ after.saved = Append(at.saved, [path |-> path, mode |-> SavedMode(c, TRUE, "shut")])

LEMMA DirOpened ==
  ASSUME NEW c, NEW at, at.mode \in [Inodes \cup {Dir} -> Bits]
  PROVE  WithDir(at, OverridePermissions(c, at, Dir, FALSE))
<1>1. Lookup(at.mode, Dir) = Dir /\ Dir # NoInode
  BY DEF Lookup, Dir, NoInode
<1>2. CASE at.mode[Dir] = "open"
  <2>1. [at.mode EXCEPT ![Dir] = "open"] = at.mode
    BY <1>2
  <2> QED  BY <1>1, <1>2, <2>1 DEF OverridePermissions, WithDir
<1>3. CASE at.mode[Dir] = "shut"
  BY <1>1, <1>3 DEF OverridePermissions, SavedMode, Untouched, OfDir, WithDir
<1> QED  BY <1>2, <1>3 DEF Bits

LEMMA FileOpened ==
  ASSUME Distinct, node \in [Entries -> Inodes \cup {NoInode}],
         NEW c, NEW at, at.mode \in [Inodes \cup {Dir} -> Bits], at.mode[Dir] = "open", NEW path \in Entries
  PROVE  WithFile(c, at, path, OverridePermissions(c, at, path, TRUE))
<1>1. Lookup(at.mode, path) = node[path]
  BY PresentAre DEF Lookup
<1>2. node[path] # NoInode => at.mode[node[path]] \in {"open", "shut"}
  BY DEF Bits
<1>3. CASE LeftAlone(c, at.mode, path)
  BY <1>1, <1>3 DEF OverridePermissions, Untouched, LeftAlone, WithFile
<1>4. CASE ~LeftAlone(c, at.mode, path)
  BY <1>1, <1>2, <1>4 DEF OverridePermissions, Untouched, LeftAlone, WithFile
<1> QED  BY <1>3, <1>4

LEMMA Appended ==
  ASSUME NEW x, NEW y
  PROVE  Append(<<>>, x) = <<x>> /\ Append(<<x>>, y) = <<x, y>>
<1>1. Append(<<x>>, y) \in Seq({x, y}) /\ Len(Append(<<x>>, y)) = 2 /\ Append(<<x>>, y)[1] = x /\ Append(<<x>>, y)[2] = y
  OBVIOUS
<1>2. <<x, y>> \in Seq({x, y}) /\ Len(<<x, y>>) = 2 /\ <<x, y>>[1] = x /\ <<x, y>>[2] = y
  OBVIOUS
<1>3. \A i \in 1..2 : i = 1 \/ i = 2
  OBVIOUS
<1>4. Append(<<x>>, y) = <<x, y>>
  BY <1>1, <1>2, <1>3, SeqEqual
<1> QED  BY <1>4

\* The modes during a call that has its file opened, or only the directory.
DirOpen == [mode EXCEPT ![Dir] = "open"]
During(c, opened) == IF opened THEN [DirOpen EXCEPT ![node[c.path]] = "open"] ELSE DirOpen

Opens(c) == c.op # "rename" /\ ~LeftAlone(c, mode, c.path)

LEMMA TranslatedIs ==
  ASSUME Distinct, ~Moves, Asks = {"stat"}, Typed, AsGiven, NEW t \in Users, saved[t] = <<>>, NEW c \in AccessCalls, Allowed(c)
  PROVE  /\ Translated(t, c).mode = During(c, Opens(c))
         /\ Translated(t, c).saved = Collected(c, Opens(c), SavedMode(c, TRUE, "shut"))
<1> DEFINE at0 == [mode |-> mode, saved |-> saved[t]]
           at1 == OverridePermissions(c, at0, Dir, FALSE)
           at2 == OverridePermissions(c, at1, c.path, TRUE)
           at3 == OverridePermissions(c, at2, Dir, FALSE)
           at4 == OverridePermissions(c, at3, c.to, TRUE)
           f == [path |-> c.path, mode |-> SavedMode(c, TRUE, "shut")]
<1>1. /\ node \in [Entries -> Inodes \cup {NoInode}] /\ mode \in [Inodes \cup {Dir} -> Bits] /\ mode[Dir] = given[Dir]
      /\ \A path \in Entries :
           node[path] # NoInode => node[path] \in Inodes /\ node[path] # Dir /\ mode[node[path]] = given[node[path]]
  BY PresentAre DEF Typed, AsGiven
<1>2. Translated(t, c) = IF c.op = "rename" THEN at4 ELSE at2
  BY DEF Translated
<1>3. at0.mode = mode /\ at0.saved = <<>>
  OBVIOUS
<1> HIDE DEF at0
<1>4. /\ DirOpen \in [Inodes \cup {Dir} -> Bits] /\ DirOpen[Dir] = "open"
      /\ \A path \in Entries : node[path] # NoInode => DirOpen[node[path]] = mode[node[path]]
  BY <1>1 DEF Bits, DirOpen
<1>5. at1.mode = DirOpen /\ at1.saved = IF given[Dir] = "shut" THEN <<OfDir>> ELSE <<>>
  <2>1. at0.mode \in [Inodes \cup {Dir} -> Bits]
    BY <1>1, <1>3
  <2>2. WithDir(at0, at1)
    BY <2>1, DirOpened
  <2> HIDE DEF at1
  <2> QED  BY <1>1, <1>3, <2>2, Appended DEF DirOpen, WithDir
<1>6. \A path \in Entries : LeftAlone(c, DirOpen, path) <=> LeftAlone(c, mode, path)
  BY <1>4 DEF LeftAlone
<1>7. c.path \in Entries /\ at1.mode \in [Inodes \cup {Dir} -> Bits] /\ at1.mode[Dir] = "open"
  BY <1>4, <1>5, CallFields
<1> HIDE DEF at1
<1>8. WithFile(c, at1, c.path, at2)
  BY <1>1, <1>7, FileOpened
<1> HIDE DEF at2
<1>9. CASE c.op = "rename"
  <2>1. c.to \in Entries
    BY <1>9, CallFields
  <2>2. \A path \in {c.path, c.to} : LeftAlone(c, mode, path)
    BY <1>1, <1>7, <1>9, <2>1 DEF LeftAlone, Allowed
  <2>3. at2 = at1
    BY <1>5, <1>6, <1>7, <1>8, <2>2 DEF WithFile
  <2>4. at3.mode = DirOpen /\ at3.saved = at1.saved
    <3>1. [DirOpen EXCEPT ![Dir] = "open"] = DirOpen
      BY <1>4
    <3>2. WithDir(at1, at3)
      BY <1>7, <2>3, DirOpened
    <3> HIDE DEF at3
    <3> QED  BY <1>5, <1>7, <3>1, <3>2 DEF WithDir
  <2> HIDE DEF at3
  <2>5. at4 = at3
    <3>1. WithFile(c, at3, c.to, at4)
      BY <1>1, <1>4, <2>1, <2>4, FileOpened
    <3> QED  BY <1>6, <2>1, <2>2, <2>4, <3>1 DEF WithFile
  <2> QED  BY <1>2, <1>5, <1>9, <2>4, <2>5 DEF Opens, During, Collected
<1>10. CASE c.op # "rename" /\ LeftAlone(c, mode, c.path)
  <2>1. at2 = at1
    BY <1>5, <1>6, <1>7, <1>8, <1>10 DEF WithFile
  <2> QED  BY <1>2, <1>5, <1>10, <2>1 DEF Opens, During, Collected
<1>11. CASE c.op # "rename" /\ ~LeftAlone(c, mode, c.path)
  <2>1. f = OfFile(c, SavedMode(c, TRUE, "shut"))
    BY DEF OfFile
  <2>2. at2.mode = [DirOpen EXCEPT ![node[c.path]] = "open"] /\ at2.saved = Append(at1.saved, f)
    BY <1>5, <1>6, <1>7, <1>8, <1>11 DEF WithFile
  <2> HIDE DEF f
  <2>3. at2.saved = IF given[Dir] = "shut" THEN <<OfDir, f>> ELSE <<f>>
    BY <1>5, <2>2, Appended
  <2> QED  BY <1>2, <1>11, <2>1, <2>2, <2>3 DEF Opens, During, Collected
<1> QED  BY <1>9, <1>10, <1>11

LEMMA CollectedTyped ==
  ASSUME NEW c, c.path \in Entries, NEW o, NEW m \in Bits
  PROVE  Collected(c, o, m) \in Seq(Saves)
<1>1. OfDir \in Saves /\ OfFile(c, m) \in Saves
  BY DEF OfDir, OfFile, Saves, Bits
<1> QED  BY <1>1 DEF Collected

LEMMA Alone ==
  ASSUME DacInv, NEW t \in Users, access[t] # DacIdle
  PROVE  \A u \in Users \ {t} : access[u] = DacIdle /\ saved[u] = <<>>
  BY DEF DacInv, OneCall

\* The invariant after a step of t, when a call of t is under way.
LEMMA StillUnderWay ==
  ASSUME Asks = {"stat"}, NEW t \in Users, NEW c \in AccessCalls, NEW r, Typed', OneName',
         \A u \in Users \ {t} : access'[u] = DacIdle /\ saved'[u] = <<>>,
         access'[t] = [op |-> c.op, c |-> c, result |-> r], UnderWay(t, c, r)'
  PROVE  DacInv'
<1>1. access'[t] # DacIdle /\ access'[t].c = c /\ access'[t].result = r
  BY NotIdle
<1> QED  BY <1>1 DEF DacInv, OneCall

LEMMA EnterStep ==
  ASSUME Distinct, ~Overlapped, ~Moves, Asks = {"stat"}, DacInv, NEW t \in Users, NEW c \in AccessCalls, DacEnter(t, c)
  PROVE  DacInv'
<1> DEFINE i == node[c.path]
<1>1. (\A u \in Users : access[u] = DacIdle /\ saved[u] = <<>>) /\ AsGiven /\ Typed /\ Allowed(c)
  BY DEF DacEnter, DacInv
<1>2. PICK o, m : o \in BOOLEAN /\ o = Opens(c) /\ m = SavedMode(c, TRUE, "shut")
  BY DEF Opens
<1>3. /\ mode' = During(c, o) /\ saved' = [saved EXCEPT ![t] = Collected(c, o, m)]
      /\ access' = [access EXCEPT ![t] = [op |-> c.op, c |-> c, result |-> "none"]]
      /\ node' = node /\ given' = given
  BY <1>1, <1>2, TranslatedIs DEF DacEnter
<1>4. m \in Bits /\ c.path \in Entries
  BY <1>2, CallFields DEF SavedMode, Bits
<1>5. /\ mode' \in [Inodes \cup {Dir} -> Bits] /\ mode'[Dir] = "open"
      /\ \A x \in Inodes \cup {Dir} : x # Dir /\ ~(o /\ x = i) => mode'[x] = mode[x]
      /\ i \in Inodes /\ o => mode'[i] = "open"
  <2>1. mode \in [Inodes \cup {Dir} -> Bits] /\ i # Dir
    BY <1>1, <1>4, PresentAre DEF Typed
  <2>2. /\ DirOpen \in [Inodes \cup {Dir} -> Bits] /\ DirOpen[Dir] = "open"
        /\ \A x \in Inodes : x # Dir => DirOpen[x] = mode[x]
    BY <2>1 DEF DirOpen, Bits
  <2> QED  BY <1>3, <2>1, <2>2 DEF During, Bits
<1>6. Typed'
  <2>1. saved' \in [Users -> Seq(Saves)]
    BY <1>1, <1>3, <1>4, CollectedTyped DEF Typed
  <2>2. access' \in [Users -> {DacIdle} \cup UnderWays]
    BY <1>1, <1>3 DEF Typed, UnderWays, Results
  <2> QED  BY <1>1, <1>3, <1>5, <2>1, <2>2 DEF Typed
<1>7. OneName'
  BY <1>3 DEF OneName, DacInv
<1>8. Present' = Present
  BY <1>3 DEF Present
<1>9. o => c.op \notin {"stat", "rename"} /\ i # NoInode /\ mode[i] # "open"
  BY <1>2 DEF Opens, LeftAlone
<1>10. Lent(t, c, "none", o, m)'
  <2>1. saved'[t] = Collected(c, o, m)'
    BY <1>1, <1>3 DEF Typed, Collected
  <2>2. \A x \in Present \ {Dir} : mode'[x] = given[x] \/ (o /\ x = i)
    BY <1>1, <1>5, PresentAre DEF AsGiven, Typed
  <2>3. o => m = IF c.op = "chmod" THEN c.mode ELSE given[i]
    <3>1. o => given[i] = "shut"
      BY <1>1, <1>4, <1>9, PresentAre DEF AsGiven, Typed, Bits
    <3> QED  BY <1>2, <3>1 DEF SavedMode
  <2> QED  BY <1>3, <1>8, <1>9, <2>1, <2>2, <2>3 DEF Lent, Due
<1>11. c.op = "open" /\ i # NoInode => mode'[i] = "open"
  <2>1. i # NoInode => i \in Inodes /\ i # Dir
    BY <1>1, <1>4, PresentAre DEF Typed
  <2> QED  BY <1>2, <1>5, <2>1 DEF Opens, LeftAlone
<1>12. UnderWay(t, c, "none")'
  BY <1>2, <1>3, <1>4, <1>5, <1>10, <1>11 DEF UnderWay, Bits
<1>13. /\ \A u \in Users \ {t} : access'[u] = DacIdle /\ saved'[u] = <<>>
       /\ access'[t] = [op |-> c.op, c |-> c, result |-> "none"]
  BY <1>1, <1>3 DEF Typed
<1> QED  BY <1>6, <1>7, <1>12, <1>13, StillUnderWay

------------------------------------------------------------------------------
(* The kernel                                                                *)

LEMMA AnswerStep ==
  ASSUME Asks = {"stat"}, DacInv, NEW t \in Users, access[t] # DacIdle,
         NEW result \in Results \ {"none"}, Answer(t, result), UNCHANGED saved,
         node' \in [Entries -> Inodes \cup {NoInode}], OneName',
         mode' \in [Inodes \cup {Dir} -> Bits], given' \in [Inodes \cup {Dir} -> Bits], mode'[Dir] = "open",
         NEW c, c = access[t].c,
         c.op = "stat" /\ result \in Bits => result = given'[node'[c.path]],
         NEW o \in BOOLEAN, NEW m \in Bits, Lent(t, c, result, o, m)'
  PROVE  DacInv'
<1>1. Typed /\ c \in AccessCalls /\ access[t] = [op |-> c.op, c |-> c, result |-> access[t].result]
  BY UnderWayFields DEF DacInv
<1>2. access' = [access EXCEPT ![t] = [op |-> c.op, c |-> c, result |-> result]]
  <2> DEFINE x == [access[t] EXCEPT !.result = result]
  <2>1. x = [op |-> c.op, c |-> c, result |-> result]
    BY <1>1
  <2>2. access' = [access EXCEPT ![t] = x]
    BY DEF Answer
  <2> HIDE DEF x
  <2> QED  BY <2>1, <2>2
<1>3. Typed'
  <2>1. access' \in [Users -> {DacIdle} \cup UnderWays]
    BY <1>1, <1>2 DEF Typed, UnderWays
  <2> QED  BY <1>1, <2>1 DEF Typed
<1>4. UnderWay(t, c, result)'
  BY DEF UnderWay
<1>5. /\ \A u \in Users \ {t} : access'[u] = DacIdle /\ saved'[u] = <<>>
      /\ access'[t] = [op |-> c.op, c |-> c, result |-> result]
  BY <1>1, <1>2, Alone DEF Typed
<1> QED  BY <1>1, <1>3, <1>4, <1>5, StillUnderWay

LEMMA KernelStep ==
  ASSUME Distinct, Asks = {"stat"}, DacInv, NEW t \in Users, DacKernel(t)
  PROVE  DacInv'
<1> PICK c : c = access[t].c
  OBVIOUS
<1> DEFINE i == node[c.path]
           needs == {Dir} \cup (IF c.op = "open" /\ i # NoInode THEN {i} ELSE {})
<1>1. access[t] # DacIdle /\ access[t].result = "none" /\ saved' = saved
  BY DEF DacKernel
<1>2. Typed /\ OneName /\ UnderWay(t, c, "none") /\ c \in AccessCalls
  BY <1>1, UnderWayFields DEF DacInv
<1>3. /\ c.op \in {"stat", "open", "unlink", "chmod", "creat", "rename"} /\ c.path \in Entries
      /\ c.op \in {"chmod", "creat"} => c.mode \in Bits
      /\ c.op = "rename" => c.to \in Entries
  BY <1>2, CallFields
<1>4. /\ node \in [Entries -> Inodes \cup {NoInode}] /\ mode \in [Inodes \cup {Dir} -> Bits]
      /\ given \in [Inodes \cup {Dir} -> Bits] /\ mode[Dir] = "open"
  BY <1>2 DEF Typed, UnderWay
<1>5. /\ \A path \in Entries : node[path] # Dir /\ (node[path] # NoInode => node[path] \in Inodes)
      /\ Dir # NoInode /\ Dir \notin Inodes
  BY <1>4, PresentAre DEF Distinct
<1>6. PICK o \in BOOLEAN, m \in Bits : Lent(t, c, "none", o, m)
  BY <1>2 DEF UnderWay
<1>7. ~ \E x \in needs : mode[x] = "shut"
  BY <1>2 DEF UnderWay
<1>8. CASE i = NoInode /\ c.op # "creat"
  <2>1. Answer(t, "ENOENT") /\ UNCHANGED <<node, mode, given>>
    BY <1>7, <1>8, Zenon DEF DacKernel
  <2>2. "ENOENT" \in Results \ {"none"} /\ "ENOENT" \notin Bits
    BY DEF Results, Bits
  <2>3. Lent(t, c, "ENOENT", o, m)'
    BY <1>1, <1>6, <1>8, <2>1 DEF Lent, Due, Collected, Present
  <2>4. OneName'
    BY <1>2, <2>1 DEF OneName
  <2> QED  BY <1>1, <1>4, <2>1, <2>2, <2>3, <2>4, AnswerStep

<1>9. CASE i # NoInode \/ c.op = "creat"
  <2>1. CASE c.op = "open" \/ (c.op = "creat" /\ i # NoInode)
    <3>1. Answer(t, "ok") /\ UNCHANGED <<node, mode, given>>
      BY <1>3, <1>7, <1>9, <2>1 DEF DacKernel
    <3>2. "ok" \in Results \ {"none"} /\ "ok" \notin Bits
      BY DEF Results, Bits
    <3>3. Lent(t, c, "ok", o, m)'
      BY <1>1, <1>6, <2>1, <3>1 DEF Lent, Due, Collected, Present
    <3>4. OneName'
      BY <1>2, <3>1 DEF OneName
    <3> QED  BY <1>1, <1>4, <3>1, <3>2, <3>3, <3>4, AnswerStep
  <2>2. CASE c.op = "stat"
    <3>1. Answer(t, mode[i]) /\ UNCHANGED <<node, mode, given>>
      BY <1>3, <1>7, <1>9, <2>2 DEF DacKernel
    <3>2. i \in Inodes /\ mode[i] \in Bits
      BY <1>3, <1>4, <1>5, <1>9, <2>2
    <3>3. mode[i] \in Results \ {"none"}
      BY <3>2 DEF Results, Bits
    <3>4. mode[i] = given[i]
      <4>1. i \in Present \ {Dir}
        BY <1>3, <1>5, <1>9, <2>2 DEF Present
      <4> QED  BY <1>6, <2>2, <4>1 DEF Lent
    <3>5. Lent(t, c, mode[i], o, m)'
      BY <1>1, <1>6, <2>2, <3>1 DEF Lent, Due, Collected, Present
    <3>6. OneName'
      BY <1>2, <3>1 DEF OneName
    <3> QED  BY <1>1, <1>4, <3>1, <3>3, <3>4, <3>5, <3>6, AnswerStep
  <2>3. CASE c.op = "chmod"
    <3>1. /\ Answer(t, "ok") /\ node' = node
          /\ mode' = [mode EXCEPT ![i] = c.mode] /\ given' = [given EXCEPT ![i] = c.mode]
      BY <1>3, <1>7, <1>9, <2>3 DEF DacKernel
    <3>2. i \in Inodes /\ i # Dir /\ c.mode \in Bits
      BY <1>3, <1>5, <1>9, <2>3
    <3>3. /\ mode' \in [Inodes \cup {Dir} -> Bits] /\ given' \in [Inodes \cup {Dir} -> Bits]
          /\ mode'[i] = c.mode /\ given'[i] = c.mode
          /\ \A x \in Inodes \cup {Dir} : x # i => mode'[x] = mode[x] /\ given'[x] = given[x]
      BY <1>4, <3>1, <3>2
    <3>4. Present' = Present /\ Present \subseteq Inodes \cup {Dir} /\ Dir \in Present
      BY <1>4, <3>1, PresentAre DEF Present
    <3>5. "ok" \in Results \ {"none"} /\ "ok" \notin Bits
      BY DEF Results, Bits
    <3>6. Lent(t, c, "ok", o, m)'
      <4>1. saved'[t] = Collected(c, o, m)'
        BY <1>1, <1>6, <3>2, <3>3 DEF Lent, Collected
      <4>2. \A x \in Present \ {Dir} : mode'[x] = given'[x] \/ (o /\ x = i)
        BY <1>6, <3>3, <3>4 DEF Lent
      <4>3. o => m = given'[i]
        BY <1>6, <1>9, <2>3, <3>3 DEF Lent, Due
      <4> QED  BY <2>3, <3>1, <3>4, <4>1, <4>2, <4>3 DEF Lent, Due
    <3>7. OneName'
      BY <1>2, <3>1 DEF OneName
    <3> QED  BY <1>1, <1>4, <2>3, <3>1, <3>2, <3>3, <3>5, <3>6, <3>7, AnswerStep
  <2>4. CASE c.op = "unlink"
    <3>1. Answer(t, "ok") /\ node' = [node EXCEPT ![c.path] = NoInode] /\ mode' = mode /\ given' = given
      BY <1>3, <1>7, <1>9, <2>4 DEF DacKernel
    <3>2. /\ node' \in [Entries -> Inodes \cup {NoInode}] /\ node'[c.path] = NoInode
          /\ \A path \in Entries : path # c.path => node'[path] = node[path]
      BY <1>3, <1>4, <3>1
    <3>3. Present' \subseteq Present \ {i}
      BY <1>2, <1>3, <1>5, <1>9, <2>4, <3>2 DEF Present, OneName
    <3>4. "ok" \in Results \ {"none"} /\ "ok" \notin Bits
      BY DEF Results, Bits
    <3>5. Lent(t, c, "ok", o, m)'
      BY <1>1, <1>6, <2>4, <3>1, <3>2, <3>3 DEF Lent, Due, Collected
    <3>6. OneName'
      BY <1>2, <3>2 DEF OneName
    <3> QED  BY <1>1, <1>4, <2>4, <3>1, <3>2, <3>4, <3>5, <3>6, AnswerStep
  <2>5. CASE c.op = "creat" /\ i = NoInode
    <3>1. PICK new \in {x \in Inodes : EntriesOf(x) = {}} :
            /\ Answer(t, "ok") /\ node' = [node EXCEPT ![c.path] = new]
            /\ mode' = [mode EXCEPT ![new] = c.mode] /\ given' = [given EXCEPT ![new] = c.mode]
      BY <1>3, <1>7, <1>9, <2>5 DEF DacKernel
    <3>2. c.mode \in Bits /\ new \in Inodes /\ new # Dir /\ new # NoInode /\ \A path \in Entries : node[path] # new
      BY <1>3, <1>5, <2>5, <3>1 DEF EntriesOf, Distinct
    <3>3. /\ node' \in [Entries -> Inodes \cup {NoInode}] /\ node'[c.path] = new
          /\ \A path \in Entries : path # c.path => node'[path] = node[path]
      BY <1>3, <1>4, <3>1, <3>2
    <3>4. /\ mode' \in [Inodes \cup {Dir} -> Bits] /\ given' \in [Inodes \cup {Dir} -> Bits] /\ mode'[new] = given'[new]
          /\ \A x \in Inodes \cup {Dir} : x # new => mode'[x] = mode[x] /\ given'[x] = given[x]
      BY <1>4, <3>1, <3>2
    <3>5. Present' \subseteq Present \cup {new} /\ Present \subseteq Inodes \cup {Dir}
      BY <1>4, <3>3, PresentAre DEF Present
    <3>6. ~o
      BY <1>6, <2>5 DEF Lent
    <3>7. "ok" \in Results \ {"none"} /\ "ok" \notin Bits
      BY DEF Results, Bits
    <3>8. Lent(t, c, "ok", o, m)'
      <4>1. saved'[t] = Collected(c, o, m)'
        BY <1>1, <1>6, <3>2, <3>4 DEF Lent, Collected
      <4>2. \A x \in Present' \ {Dir} : mode'[x] = given'[x]
        BY <1>6, <3>4, <3>5, <3>6 DEF Lent
      <4> QED  BY <3>6, <4>1, <4>2 DEF Lent
    <3>9. OneName'
      BY <1>2, <3>2, <3>3 DEF OneName
    <3>10. Answer(t, "ok") /\ mode'[Dir] = "open" /\ c.op # "stat"
      BY <1>4, <2>5, <3>1, <3>2, <3>4
    <3> QED  BY <1>1, <3>3, <3>4, <3>7, <3>8, <3>9, <3>10, AnswerStep
  <2>6. CASE c.op = "rename"
    <3>1. /\ Answer(t, "ok") /\ mode' = mode /\ given' = given
          /\ node' = IF c.path = c.to THEN node ELSE [node EXCEPT ![c.path] = NoInode, ![c.to] = i]
      BY <1>3, <1>7, <1>9, <2>6 DEF DacKernel
    <3>2. /\ node' \in [Entries -> Inodes \cup {NoInode}] /\ node'[c.to] = i /\ (c.path # c.to => node'[c.path] = NoInode)
          /\ \A path \in Entries : path # c.path /\ path # c.to => node'[path] = node[path]
      BY <1>3, <1>4, <2>6, <3>1
    <3>3. Present' \subseteq Present
      BY <1>3, <2>6, <3>2 DEF Present
    <3>4. ~o
      BY <1>6, <2>6 DEF Lent
    <3>5. "ok" \in Results \ {"none"} /\ "ok" \notin Bits
      BY DEF Results, Bits
    <3>6. Lent(t, c, "ok", o, m)'
      BY <1>1, <1>6, <3>1, <3>3, <3>4 DEF Lent, Collected
    <3>7. OneName'
      BY <1>2, <1>3, <2>6, <3>2 DEF OneName
    <3> QED  BY <1>1, <1>4, <2>6, <3>1, <3>2, <3>5, <3>6, <3>7, AnswerStep
  <2> QED  BY <1>3, <1>9, <2>1, <2>2, <2>3, <2>4, <2>5, <2>6
<1> QED  BY <1>8, <1>9

------------------------------------------------------------------------------
(* The next event                                                            *)

\* The collector of a chmod(2) that the kernel has not executed gives the file its new mode.
ChmodMade(t, x) ==
  LET c == access[t].c IN
  c.op = "chmod" /\ access[t].result = "none" /\ x = node[c.path] /\ Restored(t)[x] = c.mode

LEMMA AllRestored ==
  ASSUME Distinct, Asks = {"stat"}, DacInv, NEW t \in Users, access[t] # DacIdle
  PROVE  /\ Restored(t) \in [Inodes \cup {Dir} -> Bits]
         /\ \A x \in Present : Restored(t)[x] = given[x] \/ ChmodMade(t, x)
<1> PICK c, r : c = access[t].c /\ r = access[t].result
  OBVIOUS
<1> DEFINE i == node[c.path]
<1>1. /\ Typed /\ UnderWay(t, c, r) /\ c \in AccessCalls /\ c.path \in Entries
      /\ mode[Dir] = "open" /\ mode \in [Inodes \cup {Dir} -> Bits] /\ given[Dir] \in {"shut", "open"}
  BY UnderWayFields, CallFields DEF DacInv, UnderWay, Typed, Bits
<1>2. i # Dir /\ (i # NoInode => i \in Inodes) /\ Present \subseteq Inodes \cup {Dir} /\ Dir # NoInode /\ c.path # Dir
  BY <1>1, PresentAre DEF Typed
<1>3. PICK o \in BOOLEAN, m \in Bits : Lent(t, c, r, o, m)
  BY <1>1 DEF UnderWay
<1> DEFINE undone == IF o THEN RestoreMode(mode, OfFile(c, m)) ELSE mode
<1>4. o => undone = IF i = NoInode THEN mode ELSE [mode EXCEPT ![i] = m]
  BY <1>1, <1>2 DEF RestoreMode, Lookup, OfFile
<1>5. undone \in [Inodes \cup {Dir} -> Bits] /\ undone[Dir] = "open"
      /\ \A x \in Present \ {Dir} : undone[x] = given[x] \/ (c.op = "chmod" /\ r = "none" /\ x = i /\ undone[x] = c.mode)
  <2>1. CASE o /\ i # NoInode
    <3>1. m = given[i] \/ (c.op = "chmod" /\ r = "none" /\ m = c.mode)
      BY <1>1, <1>3, <2>1 DEF Lent, Due
    <3>2. undone = [mode EXCEPT ![i] = m]
      BY <1>4, <2>1
    <3> HIDE DEF undone, i
    <3>3. undone \in [Inodes \cup {Dir} -> Bits] /\ undone[i] = m /\ \A x \in Inodes \cup {Dir} : x # i => undone[x] = mode[x]
      BY <1>1, <1>2, <2>1, <3>2
    <3> USE DEF i
    <3> QED  BY <1>1, <1>2, <1>3, <3>1, <3>3 DEF Lent
  <2>2. CASE ~o \/ i = NoInode
    <3>1. undone = mode
      BY <1>4, <2>2
    <3>2. i = NoInode => i \notin Present
      BY DEF Present
    <3> HIDE DEF undone
    <3> QED  BY <1>1, <1>3, <2>2, <3>1, <3>2 DEF Lent
  <2> QED  BY <2>1, <2>2
<1>6. Restored(t) = IF given[Dir] = "shut" THEN RestoreMode(undone, OfDir) ELSE undone
  <2>1. saved[t] = Collected(c, o, m)
    BY <1>3 DEF Lent
  <2> QED  BY <2>1, NothingUndone, OneUndone, TwoUndone DEF Restored, Collected
<1> HIDE DEF undone
<1>7. CASE given[Dir] = "shut"
  <2>1. Restored(t) = [undone EXCEPT ![Dir] = "shut"]
    BY <1>2, <1>6, <1>7 DEF RestoreMode, Lookup, OfDir
  <2> QED  BY <1>2, <1>5, <1>7, <2>1 DEF Bits, ChmodMade
<1>8. CASE given[Dir] = "open"
  BY <1>5, <1>6, <1>8 DEF ChmodMade
<1> QED  BY <1>1, <1>7, <1>8

LEMMA FlushStep ==
  ASSUME Distinct, ~EntryStops, Asks = {"stat"}, DacInv, NEW t \in Users, GetTracee(t) \/ DacKilled(t)
  PROVE  DacInv'
<1> PICK c : c = access[t].c
  OBVIOUS
<1> DEFINE i == node[c.path]
<1>1. /\ access[t] # DacIdle
      /\ access' = [access EXCEPT ![t] = DacIdle] /\ mode' = Restored(t) /\ saved' = [saved EXCEPT ![t] = <<>>]
      /\ node' = node
  BY DEF GetTracee, DacKilled, Flush
<1>2. Typed /\ OneName /\ c \in AccessCalls /\ c.path \in Entries
  BY <1>1, UnderWayFields, CallFields DEF DacInv
<1>3. /\ mode' \in [Inodes \cup {Dir} -> Bits] /\ given' \in [Inodes \cup {Dir} -> Bits]
      /\ \A x \in Present : mode'[x] = given'[x]
  <2>1. Restored(t) \in [Inodes \cup {Dir} -> Bits] /\ \A x \in Present : Restored(t)[x] = given[x] \/ ChmodMade(t, x)
    BY <1>1, AllRestored
  <2>2. given \in [Inodes \cup {Dir} -> Bits] /\ Present \subseteq Inodes \cup {Dir} /\ (i # NoInode => i \in Inodes)
    BY <1>2, PresentAre DEF Typed
  <2>3. CASE GetTracee(t)
    <3>1. given' = given /\ access[t].result # "none"
      BY <2>3 DEF GetTracee
    <3> QED  BY <1>1, <2>1, <2>2, <3>1 DEF ChmodMade
  <2>4. CASE DacKilled(t)
    <3>1. given' = IF c.op = "chmod" /\ i # NoInode /\ Restored(t)[i] = c.mode THEN [given EXCEPT ![i] = c.mode] ELSE given
      BY <2>4 DEF DacKilled
    <3>2. c.op = "chmod" => c.mode \in Bits
      BY <1>2, CallFields
    <3>3. CASE c.op = "chmod" /\ i # NoInode /\ Restored(t)[i] = c.mode
      <4>1. given' = [given EXCEPT ![i] = c.mode] /\ i \in Inodes \cup {Dir}
        BY <2>2, <3>1, <3>3
      <4>2. given' \in [Inodes \cup {Dir} -> Bits] /\ given'[i] = c.mode /\ \A x \in Inodes \cup {Dir} : x # i => given'[x] = given[x]
        BY <2>2, <3>2, <3>3, <4>1
      <4> QED  BY <1>1, <2>1, <2>2, <3>3, <4>2 DEF ChmodMade
    <3>4. CASE ~(c.op = "chmod" /\ i # NoInode /\ Restored(t)[i] = c.mode)
      <4>1. \A x \in Present : ~ChmodMade(t, x)
        BY <3>4 DEF ChmodMade, Present
      <4> QED  BY <1>1, <2>1, <2>2, <3>1, <3>4, <4>1
    <3> QED  BY <3>3, <3>4
  <2> QED  BY <2>3, <2>4
<1>4. Typed'
  BY <1>1, <1>2, <1>3 DEF Typed
<1>5. \A u \in Users : access'[u] = DacIdle /\ saved'[u] = <<>>
  BY <1>1, <1>2, Alone DEF Typed
<1>6. AsGiven'
  BY <1>1, <1>3 DEF AsGiven, Present
<1>7. OneName'
  BY <1>1, <1>2 DEF OneName
<1> QED  BY <1>4, <1>5, <1>6, <1>7 DEF DacInv, OneCall

------------------------------------------------------------------------------
(* The theorem                                                               *)

LEMMA DacStart ==
  ASSUME Distinct, DacInit
  PROVE  DacInv
<1>1. PICK path \in Entries, i \in Inodes : node = [p \in Entries |-> IF p = path THEN i ELSE NoInode]
  BY DEF DacInit
<1>2. /\ mode \in [Inodes \cup {Dir} -> Bits] /\ given = mode
      /\ saved = [t \in Users |-> <<>>] /\ access = [t \in Users |-> DacIdle]
  BY DEF DacInit
<1>3. Typed
  <2>1. <<>> \in Seq(Saves)
    OBVIOUS
  <2> QED  BY <1>1, <1>2, <2>1 DEF Typed
<1>4. OneName
  BY <1>1 DEF OneName
<1> QED  BY <1>2, <1>3, <1>4 DEF DacInv, OneCall, AsGiven

LEMMA DacStep ==
  ASSUME Distinct, ~Overlapped, ~Moves, ~EntryStops, Asks = {"stat"}, DacInv, [DacNext]_dacVars
  PROVE  DacInv'
<1>1. ASSUME NEW t \in Users, NEW c \in AccessCalls, DacEnter(t, c) PROVE DacInv'
  BY <1>1, EnterStep
<1>2. ASSUME NEW t \in Users, DacKernel(t) PROVE DacInv'
  BY <1>2, KernelStep
<1>3. ASSUME NEW t \in Users, GetTracee(t) \/ DacKilled(t) PROVE DacInv'
  BY <1>3, FlushStep
<1>4. \A t \in Users : ~LookedUp(t)
  BY DEF LookedUp
<1>5. CASE UNCHANGED dacVars
  BY <1>5 DEF dacVars, DacInv, Typed, OneName, OneCall, UnderWay, Lent, Due, Collected, AsGiven, Present
<1> QED  BY <1>1, <1>2, <1>3, <1>4, <1>5 DEF DacNext

LEMMA DacInvIsSafe ==
  ASSUME Distinct, Asks = {"stat"}, DacInv
  PROVE  AccessLent
<1>1. Typed
  BY DEF DacInv
<1>2. DacTypeOK
  <2>1. ASSUME NEW t \in Users, NEW n \in DOMAIN saved[t]
        PROVE  saved[t][n].path \in Entries \cup {Dir} /\ saved[t][n].mode \in Bits
    <3>1. saved[t] \in Seq(Saves)
      BY <1>1 DEF Typed
    <3>2. saved[t][n] \in Saves
      BY <2>1, <3>1
    <3> QED  BY <3>2 DEF Saves
  <2> QED  BY <1>1, <2>1 DEF DacTypeOK, Typed
<1>3. ModesRestored
  <2>1. SUFFICES ASSUME \A t \in Users : saved[t] = <<>>, NEW i \in Present PROVE mode[i] = given[i]
    BY DEF ModesRestored
  <2>2. CASE \A t \in Users : access[t] = DacIdle
    BY <2>2 DEF DacInv, AsGiven
  <2>3. ASSUME NEW t \in Users, access[t] # DacIdle PROVE mode[i] = given[i]
    <3> PICK c, r : c = access[t].c /\ r = access[t].result
      OBVIOUS
    <3>1. UnderWay(t, c, r)
      BY <2>3 DEF DacInv
    <3>2. PICK o \in BOOLEAN, m \in Bits : Lent(t, c, r, o, m)
      BY <3>1 DEF UnderWay
    <3>3. given[Dir] # "shut" /\ ~o
      BY <2>1, <2>3, <3>2 DEF Lent, Collected
    <3>4. mode[Dir] = given[Dir]
      BY <1>1, <3>1, <3>3 DEF UnderWay, Typed, Bits
    <3> QED  BY <3>2, <3>3, <3>4 DEF Lent
  <2> QED  BY <2>2, <2>3
<1>4. ModeTold
  <2>1. ASSUME NEW t \in Users, access[t] # DacIdle, access[t].op \in Asks, access[t].result \in Bits
        PROVE  access[t].result = given[node[access[t].c.path]]
    <3>1. access[t].c.op = "stat" /\ UnderWay(t, access[t].c, access[t].result)
      BY <1>1, <2>1, UnderWayFields DEF DacInv
    <3> QED  BY <2>1, <3>1 DEF UnderWay
  <2> QED  BY <2>1 DEF ModeTold
<1>5. AccessGranted
  <2>1. ASSUME NEW t \in Users, access[t] # DacIdle PROVE access[t].result # "EACCES"
    <3>1. access[t].result \in Results
      BY <1>1, <2>1, UnderWayFields
    <3> QED  BY <3>1 DEF Results, Bits
  <2> QED  BY <2>1 DEF AccessGranted
<1> QED  BY <1>2, <1>3, <1>4, <1>5 DEF AccessLent

\* While the calls of two tracees do not overlap, no program renames a file that PRoot has opened, no event of seccomp
\* follows the translation of a call at its entry stop, and modes are asked with stat(2), the access that PRoot lends to its
\* pretended root suffices for every call, is taken back after it, or when its caller is killed before, with every chmod(2)
\* kept, and is not what a call is told (override_permissions() and restore_mode() of fake_id0.c).
THEOREM AccessIsLent ==
  ASSUME ~Overlapped, ~Moves, ~EntryStops, Asks = {"stat"}
  PROVE  DacSpec => []AccessLent
<1>1. DacInit => DacInv
  BY DacStart, DacAssumption
<1>2. DacInv /\ [DacNext]_dacVars => DacInv'
  BY DacStep, DacAssumption
<1>3. DacInv => AccessLent
  BY DacInvIsSafe, DacAssumption
<1> QED  BY <1>1, <1>2, <1>3, PTL DEF DacSpec

=============================================================================
