------------------------------ MODULE Bindings -------------------------------
(* The file name-space of the tracees: the list of bindings that the command *)
(* line asks for, its initialisation (with the glue that makes the bound     *)
(* places exist), the canonicalisation of guest paths, their translation     *)
(* into host paths and back.                                                 *)
EXTENDS Paths, FiniteSets, TLC

CONSTANTS
  CommandLines,  \* the sequences of bindings [host, guest] asked for, the root among them
  HostTree,      \* the host: a path |-> [type |-> "dir" or "file" or "link", to |-> a path]
  Fixed,         \* host directories where PRoot may create nothing
  Unmarked,      \* a last component "x!" |-> "x": the option says not to dereference it
  Pid,           \* the name of the tracee under /proc
  Glue,          \* the path of the temporary directory of the glue
  Requests,      \* what the tracee looks up
  Swaps,         \* links that somebody else may replace by a directory during a lookup
  Samples,       \* paths about which the lists of bindings are asked
  MaxRequests,   \* how many times it does
  None

MaxSymlinks == 40

VARIABLES
  world,    \* all that a lookup reads and writes
  pending,  \* tracee->fs->bindings.pending
  todo,     \* the options not read yet
  phase,    \* "options", "bindings", "running", "over"
  answer,   \* the last request and what it was answered
  fd,       \* the directory the tracee has open: the guest path asked for and the host path
  place,    \* the host directory the tracee went to
  made,     \* what the tracee created itself
  left      \* requests left
vars == <<world, pending, todo, phase, answer, fd, place, made, left>>

------------------------------------------------------------------------------
(* path/binding.c                                                            *)

Root(w) == Last(w.guest).host

BelongsToGuestfs(w, path) == Encloses(Root(w), path)

\* The first binding of the list of that side that contains path.
GetBinding(w, side, path) ==
  LET fits == {i \in DOMAIN w[side] :
                 /\ Encloses(w[side][i][side], path)
                 /\ ~(side = "host" /\ Root(w) # <<>> /\ BelongsToGuestfs(w, path))}
  IN IF fits = {} THEN None ELSE w[side][Min(fits)]

Substitution(path, from, to) == [status |-> IF from = to THEN 0 ELSE 1, path |-> SubstitutePathPrefix(path, from, to)]

SubstituteBinding(w, side, path) ==
  LET By(b) == IF b = None THEN [status |-> -1, path |-> path]
               ELSE IF side = "guest" THEN Substitution(path, b.guest, b.host)
               ELSE Substitution(path, b.host, b.guest)
  IN By(GetBinding(w, side, path))

\* Where the list keeps what it contains in front of what contains it.
Insort(list, side, b) ==
  LET same   == {i \in DOMAIN list : list[i][side] = b[side]}
      inside == {i \in DOMAIN list : Encloses(b[side], list[i][side])}
  IN IF side = "guest" /\ same # {} THEN [list EXCEPT ![Min(same)] = b]
     ELSE InsertAt(list, Max(inside \cup {0}) + 1, b)

\* The binding that b replaces in the list of the guest leaves both lists.
Insort2(w, b) ==
  LET gone == {w.guest[i] : i \in {j \in DOMAIN w.guest : w.guest[j].guest = b.guest}}
  IN [w EXCEPT !.guest = Insort(@, "guest", b),
               !.host = Insort(SelectSeq(@, LAMBDA x : x \notin gone), "host", b)]

------------------------------------------------------------------------------
(* path/glue.c                                                               *)

CanCreate(w, path) == path \notin DOMAIN w.tree /\ Pop(path) \in DOMAIN w.tree \ Fixed

Node(type) == [type |-> type, to |-> Rel(<<>>)]

\* The missing component is created in the rootfs, or in the glue, or else becomes a binding to the glue.
BuildGlue(w, guest_path, host_path, final) ==
  LET type == IF final THEN w.glue_type ELSE "dir"
      w1   == [w EXCEPT !.tree = (Glue :> Node("dir")) @@ @]
  IN IF CanCreate(w1, host_path)
     THEN [type |-> type,
           w |-> [w1 EXCEPT !.tree = (host_path :> Node(type)) @@ @,
                            !.placeholders = IF IsPrefix(Glue, host_path) THEN @ ELSE Append(@, host_path)]]
     ELSE [type |-> type,
           w |-> IF final THEN w1 ELSE Insort2(w1, [host |-> Glue, guest |-> guest_path])]

\* The destructors run when PRoot ends, the youngest first: what is not empty stays.
Empty(tree, path) == \A p \in DOMAIN tree : ~IsStrictPrefix(path, p)
\* Mutant: the oldest first.
RemovePlaceholdersFirst(w) ==
  LET Without(tree, path) == [p \in {q \in DOMAIN tree : ~IsPrefix(path, q)} |-> tree[p]]
  IN FoldLeft(LAMBDA tree, path :
                IF path \in DOMAIN tree /\ Empty(tree, path) THEN Without(tree, path) ELSE tree,
              Without(w.tree, Glue), w.placeholders)

RemovePlaceholders(w) ==
  LET Without(tree, path) == [p \in {q \in DOMAIN tree : ~IsPrefix(path, q)} |-> tree[p]]
  IN FoldRight(LAMBDA path, tree :
                 IF path \in DOMAIN tree /\ Empty(tree, path) THEN Without(tree, path) ELSE tree,
               w.placeholders, Without(w.tree, Glue))

------------------------------------------------------------------------------
(* path/proc.c, detranslate_path and path/canon.c                            *)

\* What a link of /proc leads to, as far as PRoot emulates it; a file descriptor is left as it is.
ReadlinkProc(w, base, component) ==
  IF base = <<"proc">> /\ component = "self" THEN Abs(<<"proc", Pid>>)
  ELSE IF base = <<"proc", Pid>> /\ component = "cwd" THEN Abs(w.cwd)
  ELSE IF base = <<"proc", Pid>> /\ component = "root" THEN Abs(Root(w))
  ELSE None

IsDescriptor(base) == base = <<"proc", Pid, "fd">>

\* The guest's name of the host path, read in the link referrer or, without one, of a directory.
Detranslate(w, path, referrer) ==
  LET emulated == IF referrer # None /\ IsStrictPrefix(<<"proc">>, referrer)
                  THEN ReadlinkProc(w, Front(referrer), Last(referrer)) ELSE None
      follow == \/ referrer = None
                \/ IsStrictPrefix(<<"proc">>, referrer)
                \/ /\ ~BelongsToGuestfs(w, referrer)
                   /\ GetBinding(w, "host", path) # None
                   /\ GetBinding(w, "host", path).host = GetBinding(w, "host", referrer).host
      bound == SubstituteBinding(w, "host", path)
  IN IF emulated # None THEN [err |-> "", path |-> emulated.comps]
     ELSE IF follow /\ bound.status >= 0 THEN [err |-> "", path |-> bound.path]
     ELSE IF IsPrefix(Root(w), path) THEN [err |-> "", path |-> SubstitutePathPrefix(path, Root(w), <<>>)]
     ELSE [err |-> IF referrer = None THEN "EPERM" ELSE "", path |-> path]

Lstat(w, path) == IF path \in DOMAIN w.tree THEN w.tree[path].type ELSE "none"

\* Mutant: what is bound is only substituted in the final path.
SubstituteBindingStatRootfs(w, final, guest_path) ==
  LET path == Root(w) \o guest_path
  IN [err |-> "", type |-> Lstat(w, path), path |-> path, w |-> w]

SubstituteBindingStat(w, final, guest_path) ==
  LET Glued(path) == IF Lstat(w, path) = "none" /\ w.glue_type # "none"
                     THEN BuildGlue(w, guest_path, path, final)
                     ELSE [type |-> Lstat(w, path), w |-> w]
      Stat(path, glue) ==
        [err  |-> IF final \/ glue.type \in {"dir", "link"} THEN ""
                  ELSE IF Lstat(w, path) = "none" THEN "ENOENT" ELSE "ENOTDIR",
         type |-> glue.type, path |-> path, w |-> glue.w]
      At(path) == Stat(path, Glued(path))
  IN At(SubstituteBinding(w, "guest", guest_path).path)

Failed(err, w) == [err |-> err, path |-> <<>>, w |-> w]
Found(path, w) == [err |-> "", path |-> path, w |-> w]

RECURSIVE Canonicalize(_, _, _, _, _, _)
\* The components comps, from the directory base; slash: a slash ends them.
Canonicalize(w, comps, slash, deref_final, base, level) ==
  IF level > MaxSymlinks THEN Failed("ELOOP", w)
  ELSE IF comps = <<>> THEN Found(base, w)
  ELSE
  LET component == Head(comps)
      final == Len(comps) = 1
      Next(w1, path) == Canonicalize(w1, Tail(comps), slash, deref_final, path, level)
      emulated == IF IsPrefix(<<"proc">>, base) THEN ReadlinkProc(w, base, component) ELSE None
      Referee(stat, to) ==
        IF emulated # None THEN emulated
        ELSE IF to.abs THEN [to EXCEPT !.comps = Detranslate(w, @, stat.path).path] ELSE to
      Resume(r, stat) ==
        IF r.err # "" THEN r ELSE IF stat.err # "" THEN Failed(stat.err, stat.w) ELSE Next(stat.w, r.path)
      After(r) == Resume(r, SubstituteBindingStat(r.w, final, r.path))
      Deref(stat, to) ==
        After(Canonicalize(stat.w, to.comps, to.slash, TRUE, IF to.abs THEN <<>> ELSE base, level + 1))
      Visit(stat) ==
        CASE stat.err # "" -> Failed(stat.err, stat.w)
          [] stat.type # "link" \/ (final /\ ~slash /\ ~deref_final) -> Next(stat.w, Append(base, component))
          [] IsDescriptor(base) /\ final /\ ~slash -> Found(Append(base, component), stat.w)
          [] emulated = None /\ stat.path = w.swap ->
               Next([stat.w EXCEPT !.tree[w.swap] = Node("dir"), !.swap = None], base)
          [] OTHER -> Deref(stat, Referee(stat, w.tree[stat.path].to))
  IN CASE component = "." -> Next(w, base)
       [] component = ".." -> Next(w, Pop(base))
       [] OTHER -> Visit(SubstituteBindingStat(w, final, Append(base, component)))

\* translate_path, from the guest path base when u is relative.
Translate(w, base, u, deref_final) ==
  LET Bound(r) == IF r.err # "" THEN r ELSE Found(SubstituteBinding(r.w, "guest", r.path).path, r.w)
  IN Bound(Canonicalize(w, JoinPaths(base, u).comps, u.slash, deref_final, <<>>, 0))

------------------------------------------------------------------------------
(* What the name-space should be: the bindings are mounts, the deepest one   *)
(* that contains a path wins, a link means what it meant where it was made.  *)

Deepest(w, side, path) ==
  LET fits == {i \in DOMAIN w[side] : IsPrefix(w[side][i][side], path)}
  IN w[side][CHOOSE i \in fits : \A j \in fits : Len(w[side][i][side]) >= Len(w[side][j][side])]

Mounted(w, path) == LET b == Deepest(w, "guest", path) IN SubstitutePathPrefix(path, b.guest, b.host)

Meaning(w, path) ==
  LET link == Mounted(w, path)
      home == Deepest(w, "host", link)
      to == w.tree[link].to
      Onto(host, guest) == [to EXCEPT !.comps = SubstitutePathPrefix(@, host, guest)]
  IN IF path = <<"proc", "self">> THEN Abs(<<"proc", Pid>>)
     ELSE IF path = <<"proc", Pid, "cwd">> THEN Abs(w.cwd)
     ELSE IF ~to.abs THEN to
     ELSE IF IsPrefix(<<"proc">>, path) /\ ~IsPrefix(Root(w), to.comps)
          THEN LET b == Deepest(w, "host", to.comps) IN Onto(b.host, b.guest)
     ELSE IF IsPrefix(home.host, to.comps) THEN Onto(home.host, home.guest)
     ELSE IF IsPrefix(Root(w), to.comps) THEN Onto(Root(w), <<>>)
     ELSE to

RECURSIVE Namei(_, _, _, _, _)
\* One list of components to walk, in front of which a link puts its own.
Namei(w, at, comps, follow, links) ==
  IF comps = <<>> THEN Found(at, w)
  ELSE IF links > MaxSymlinks THEN Failed("ELOOP", w)
  ELSE
  LET path == Append(at, Head(comps))
      type == Lstat(w, Mounted(w, path))
      more == Len(comps) > 1
      to == Meaning(w, path)
  IN CASE Head(comps) = "." -> Namei(w, at, Tail(comps), follow, links)
       [] Head(comps) = ".." -> Namei(w, Pop(at), Tail(comps), follow, links)
       [] type = "link" /\ IsDescriptor(at) /\ ~more -> Found(path, w)
       [] type = "link" /\ (more \/ follow) ->
            Namei(w, IF to.abs THEN <<>> ELSE at, to.comps \o Tail(comps), follow, links + 1)
       [] more /\ type # "dir" -> Failed(IF type = "none" THEN "ENOENT" ELSE "ENOTDIR", w)
       [] OTHER -> Namei(w, path, Tail(comps), follow, links)

------------------------------------------------------------------------------
(* The program                                                               *)

Nothing == [kind |-> "none"]

Init ==
  /\ world = [tree |-> HostTree, guest |-> <<>>, host |-> <<>>, glue_type |-> "none",
              placeholders |-> <<>>, cwd |-> <<>>, swap |-> None]
  /\ pending = <<>> /\ todo \in CommandLines /\ phase = "options"
  /\ answer = Nothing /\ fd = None /\ place = None /\ made = {} /\ left = MaxRequests

\* One -b, -m or -r: the host part exists, the guest part is canonicalised later.
NewBinding ==
  /\ phase = "options" /\ todo # <<>>
  /\ pending' = Insort(pending, "guest", Head(todo))
  /\ todo' = Tail(todo)
  /\ phase' = IF Len(todo) = 1 THEN "bindings" ELSE phase
  /\ UNCHANGED <<world, answer, fd, place, made, left>>

\* Mutant: the glue stays enabled.
InitializeBindingGlued ==
  LET b == Last(pending)
      w == [world EXCEPT !.glue_type = Lstat(world, b.host)]
  IN /\ phase = "bindings" /\ pending # <<>>
     /\ pending' = Front(pending)
     /\ \E r \in {Canonicalize(w, b.guest, FALSE, TRUE, <<>>, 0)} :
          world' = IF b.guest = <<>> THEN Insort2(world, b)
                   ELSE IF r.err # "" THEN r.w
                   ELSE Insort2(r.w, [b EXCEPT !.guest = r.path])
     /\ UNCHANGED <<todo, phase, answer, fd, place, made, left>>

\* From the last one, the root, to the first one.
InitializeBinding ==
  LET b == Last(pending)
      marked == b.guest # <<>> /\ Last(b.guest) \in DOMAIN Unmarked
      comps == IF marked THEN Append(Front(b.guest), Unmarked[Last(b.guest)]) ELSE b.guest
      w == [world EXCEPT !.glue_type = Lstat(world, b.host)]
  IN /\ phase = "bindings" /\ pending # <<>>
     /\ pending' = Front(pending)
     /\ \E r \in {Canonicalize(w, comps, FALSE, ~marked, <<>>, 0)} :
          world' = IF b.guest = <<>> THEN Insort2(world, b)
                   ELSE IF r.err # "" THEN r.w
                   ELSE Insort2([r.w EXCEPT !.glue_type = "none"], [b EXCEPT !.guest = r.path])
     /\ UNCHANGED <<todo, phase, answer, fd, place, made, left>>

InitializeCwd ==
  /\ phase = "bindings" /\ pending = <<>>
  /\ phase' = "running"
  /\ place' = Root(world)
  /\ UNCHANGED <<world, pending, todo, answer, fd, made, left>>

Ask == phase = "running" /\ left > 0 /\ left' = left - 1 /\ UNCHANGED <<pending, todo, phase>>

\* Any system call that takes a path.
Lookup(u, deref_final, swap) ==
  LET w == [world EXCEPT !.swap = swap]
  IN /\ Ask
     /\ \E r \in {Translate(w, world.cwd, u, deref_final)} :
          /\ world' = [r.w EXCEPT !.swap = None]
          /\ answer' = [kind |-> "path", from |-> world, base |-> world.cwd, u |-> u, deref |-> deref_final, r |-> r]
          /\ fd' = IF r.err = "" /\ Lstat(r.w, r.path) = "dir"
                   THEN [asked |-> JoinPaths(world.cwd, u), path |-> r.path] ELSE fd
     /\ UNCHANGED <<place, made>>

\* One that takes a path relative to the directory open.
LookupAt(u, deref_final) ==
  /\ Ask /\ fd # None /\ ~u.abs
  /\ \E base \in {Detranslate(world, fd.path, None)} :
     \E r \in {IF base.err # "" THEN Failed(base.err, world) ELSE Translate(world, base.path, u, deref_final)} :
       /\ world' = r.w
       /\ answer' = [kind |-> "at", from |-> world, asked |-> fd.asked, u |-> u, deref |-> deref_final, r |-> r]
  /\ UNCHANGED <<fd, place, made>>

\* chdir(2): the ending "." makes it an error unless u is a directory.
Chdir(u) ==
  /\ Ask
  /\ \E r \in {Translate(world, world.cwd, [u EXCEPT !.comps = Append(@, "."), !.slash = FALSE], TRUE)} :
     \E back \in {Detranslate(r.w, r.path, None)} :
       LET ok == r.err = "" /\ back.err = "" /\ Lstat(r.w, r.path) # "none"
       IN /\ world' = IF ok THEN [r.w EXCEPT !.cwd = back.path] ELSE r.w
          /\ place' = IF ok THEN r.path ELSE place
  /\ answer' = Nothing
  /\ UNCHANGED <<fd, made>>

\* readlink(2): what the kernel reads in the host is detranslated.
Readlink(u) ==
  /\ Ask
  /\ \E r \in {Translate(world, world.cwd, u, FALSE)} :
       /\ r.err = "" /\ Lstat(r.w, r.path) = "link"
       /\ world' = r.w
       /\ LET to == r.w.tree[r.path].to
              seen == IF to.abs THEN [to EXCEPT !.comps = Detranslate(r.w, @, r.path).path] ELSE to
          IN answer' = [kind |-> "link", from |-> world, base |-> world.cwd, u |-> u, seen |-> seen]
  /\ UNCHANGED <<fd, place, made>>

\* The tracee creates a file: the kernel does, at the translated path.
Creat(u) ==
  /\ Ask
  /\ \E r \in {Translate(world, world.cwd, u, TRUE)} :
       /\ r.err = "" /\ CanCreate(r.w, r.path)
       /\ world' = [r.w EXCEPT !.tree = (r.path :> Node("file")) @@ @]
       /\ made' = made \cup {r.path}
  /\ answer' = Nothing
  /\ UNCHANGED <<fd, place>>

Exit ==
  /\ phase = "running"
  /\ world' = [world EXCEPT !.tree = RemovePlaceholders(world), !.placeholders = <<>>]
  /\ phase' = "over"
  /\ answer' = Nothing
  /\ UNCHANGED <<pending, todo, fd, place, made, left>>

Next ==
  \/ NewBinding \/ InitializeBinding \/ InitializeCwd \/ Exit
  \/ \E u \in Requests : \/ \E deref_final \in BOOLEAN, swap \in {None} \cup Swaps : Lookup(u, deref_final, swap)
                         \/ \E deref_final \in BOOLEAN : LookupAt(u, deref_final)
                         \/ Chdir(u) \/ Readlink(u) \/ Creat(u)

Spec == Init /\ [][Next]_vars

------------------------------------------------------------------------------
(* Properties                                                                *)

\* Bindings and paths are well-formed; the list of the guest ends with the root once it is there (get_root asserts it).
TypeOK ==
  /\ phase \in {"options", "bindings", "running", "over"}
  /\ \A side \in {"guest", "host"} : DOMAIN world[side] = 1 .. Len(world[side])
  /\ world.guest # <<>> => Last(world.guest).guest = <<>>
  /\ ToSet(world.guest) = ToSet(world.host)
  /\ \A p \in DOMAIN world.tree : world.tree[p].type \in {"dir", "file", "link"}

\* insort_binding() makes the substitution of nested bindings deterministic: whatever the order of the options,
\* the first binding that get_binding() finds is the deepest one, for guest paths and for host paths outside of the rootfs.
DeepestWins ==
  phase = "running" =>
    \A path \in Samples :
      /\ GetBinding(world, "guest", path) = Deepest(world, "guest", path)
      /\ LET b == GetBinding(world, "host", path)
         IN b # None => b.host = Deepest(world, "host", path).host

\* Canonicalize, with its recursion per link and its substitution per component, followed by the final substitution,
\* finds what the kernel would find if the bindings were mounts, and fails as it would.
ResolvesAsMounted ==
  answer.kind = "path" =>
    LET ref == Namei(answer.from, <<>>, JoinPaths(answer.base, answer.u).comps,
                     answer.deref \/ answer.u.slash, 0)
    IN /\ answer.r.err = ref.err
       /\ ref.err = "" => answer.r.path = Mounted(answer.from, ref.path)

\* translate_path() names the directory of a file descriptor anew, from its host path: a path relative to it leads
\* where the path that opened it would have led with the same suffix.
SameThroughFd ==
  answer.kind = "at" =>
    LET r == Translate(answer.from, <<>>, [answer.u EXCEPT !.abs = TRUE, !.comps = answer.asked.comps \o @], answer.deref)
    IN answer.r.err = r.err /\ answer.r.path = r.path

\* The guest's name of the working directory, computed from its host path, keeps naming that directory.
CwdStays ==
  phase = "running" => Translate(world, <<>>, Abs(world.cwd), TRUE).path = place

\* What readlink(2) reports of a link leads where following the link leads (the kernel follows the links of /proc/PID/fd).
ReadlinkAgrees ==
  answer.kind = "link" =>
    LET w == answer.from
        whole == JoinPaths(answer.base, answer.u).comps
        dir == Namei(w, <<>>, Front(whole), TRUE, 0).path
        through == Translate(w, dir, answer.seen, TRUE)
        direct == Translate(w, answer.base, answer.u, TRUE)
        kernel == Lstat(w, direct.path) = "link"
    IN /\ through.err = direct.err
       /\ through.path = IF kernel THEN w.tree[direct.path].to.comps ELSE direct.path

\* Every binding that was initialised can be reached from the root: whatever is missing on the way was created in the
\* rootfs or glued.
BindingsReachable ==
  phase = "running" =>
    \A i \in DOMAIN world.guest :
      LET r == Namei(world, <<>>, world.guest[i].guest, FALSE, 0) IN r.err = "" /\ r.path = world.guest[i].guest

\* PRoot's end leaves the host as it was, but for what the tracee made and the directories that hold it.
RootfsRestored ==
  phase = "over" =>
    /\ DOMAIN HostTree \cup {p \in made : ~IsPrefix(Glue, p)} \subseteq DOMAIN world.tree
    /\ \A p \in DOMAIN world.tree \ DOMAIN HostTree : \E q \in made : IsPrefix(p, q)

\* Glue belongs to the initialisation of a binding, which disables it "definitively": a path that the tracee looks up
\* is not created by looking it up.
LooksUp == phase = "running" /\ phase' = "running" /\ made' = made => world'.tree = world.tree
LookupsCreateNothing == [][LooksUp]_vars
==============================================================================
