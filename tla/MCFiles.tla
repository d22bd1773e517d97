-------------------------------- MODULE MCFiles --------------------------------
(* What PRoot does to the files of programs: link2symlink, the bindings, and the access that -0 gives.  They share  *)
(* nothing but the syscalls of a tracee, so that a behaviour exercises one of them.                                 *)
EXTENDS Link2Symlink, DacOverride, TLC

CONSTANTS
  Parts,                       \* the components exercised
  CommandLines, HostTree, Fixed, Unmarked, Requests, Samples, Swaps \* see Bindings

VARIABLES
  part,
  world, pending, todo, phase, answer, fd, place, created, left

Off == "off"

------------------------------------------------------------------------------
(* link2symlink: two tracees, three names, two files.                        *)

Do(f, o, n) == [f |-> f, old |-> o, new |-> n]

\* 1 makes files and links, 2 takes names away, looks and opens.
MCPrograms ==
  <<{Do("creat", "a", "a"), Do("creat", "c", "c"), Do("link", "a", "b"), Do("linkat_fd", "c", "c"), Do("link", "b", "c"),
     Do("unlink", "a", "a"), Do("rename", "c", "b")},
    {Do("link", "a", "c"), Do("unlink", "b", "b"), Do("unlink", "c", "c"), Do("rename", "a", "c"),
     Do("open", "a", "a"), Do("stat", "b", "b")}>>

\* A file is renamed to itself.
MCSelf ==
  <<{Do("creat", "a", "a"), Do("link", "a", "b"), Do("rename", "a", "a"), Do("unlink", "a", "a")}, {}>>

------------------------------------------------------------------------------
(* Bindings: a rootfs at /r, with links, and some directories of the host.   *)

Path(abs, comps) == [abs |-> abs, comps |-> comps, slash |-> FALSE]
D == [type |-> "dir", to |-> Path(FALSE, <<>>)]
F == [type |-> "file", to |-> Path(FALSE, <<>>)]
A(comps) == Path(TRUE, comps)
L(to) == [type |-> "link", to |-> to]

MCTree ==
  (<<>> :> D) @@ (<<"r">> :> D) @@ (<<"t">> :> D) @@ (<<"h">> :> D) @@ (<<"h", "x">> :> F) @@ (<<"h", "s">> :> D)
  @@ (<<"h", "s", "y">> :> L(A(<<"h", "x">>))) @@ (<<"h", "up">> :> L(Path(FALSE, <<"..", "a">>)))
  @@ (<<"k">> :> D) @@ (<<"k", "x">> :> F)
  @@ (<<"r", "a">> :> D) @@ (<<"r", "a", "x">> :> F) @@ (<<"r", "l">> :> L(Path(FALSE, <<"a">>)))
  @@ (<<"r", "a", "r">> :> L(A(<<"r", "a", "x">>))) @@ (<<"r", "a", "m">> :> L(A(<<"m">>)))
  @@ (<<"r", "o">> :> L(Path(FALSE, <<"o">>))) @@ (<<"r", "f">> :> F)
  @@ (<<"proc">> :> D) @@ (<<"proc", "self">> :> L(Path(FALSE, <<"0">>))) @@ (<<"proc", "1">> :> D)
  @@ (<<"proc", "1", "cwd">> :> L(A(<<"r">>))) @@ (<<"proc", "1", "fd">> :> D)
  @@ (<<"proc", "1", "fd", "3">> :> L(A(<<"h", "s">>)))

MCFixed == {<<>>, <<"k">>, <<"proc">>, <<"proc", "1">>}
MCUnmarked == "l!" :> "l"
B(host, guest) == [host |-> host, guest |-> guest]
R == B(<<"r">>, <<>>)
MCCommandLines ==
  {<<R, B(<<"h">>, <<"m">>), B(<<"k">>, <<"m", "s">>)>>,
   <<B(<<"k">>, <<"m", "s">>), B(<<"h">>, <<"m">>), R>>,
   <<B(<<"h">>, <<"l">>), R, B(<<"proc">>, <<"proc">>)>>,
   <<B(<<"h">>, <<"l!">>), B(<<"h", "s">>, <<"b", "c">>), R>>,
   <<R, B(<<"h">>, <<"f", "c">>), B(<<"k">>, <<"m">>), B(<<"h", "x">>, <<"m", "q", "e">>)>>,
   <<B(<<>>, <<"host">>), R, B(<<"h">>, <<"a", "..", "m">>), B(<<"k">>, <<"m">>)>>}

\* The only binding cannot be initialised: /f is a file.
MCFailing == {<<R, B(<<"h">>, <<"f", "c">>)>>}

MCRequests ==
  {A(p) : p \in {<<"m", "s", "y">>, <<"m", "up", "x">>, <<"l", "s", "y">>, <<"l", "up">>, <<"a", "m", "s">>,
                 <<"a", "r">>, <<"o">>, <<"l", "..", "m", "x">>, <<"f", "x">>, <<"b", "c", "y">>,
                 <<"proc", "self", "cwd", "x">>, <<"proc", "1", "fd", "3">>, <<"proc", "1", "fd", "3", "y">>,
                 <<"m">>, <<"m", "q", "e">>, <<"host", "r", "a", "m">>, <<"l">>, <<"host", "h">>, <<"m", "s">>, <<"b">>}}
  \cup {[A(<<"l">>) EXCEPT !.slash = TRUE]}
  \cup {Path(FALSE, p) : p \in {<<"x">>, <<"..", "x">>, <<"n">>, <<"s", "x">>}}
MCSamples ==
  {<<>>, <<"m">>, <<"m", "s", "y">>, <<"a", "x">>, <<"b", "c", "y">>, <<"h", "s", "y">>, <<"h", "x">>, <<"k", "x">>,
   <<"r", "a">>, <<"host", "h">>, <<"m", "q", "e">>}

Mounts == INSTANCE Bindings WITH
  Pid <- "1", Glue <- <<"t", "glue">>, MaxRequests <- 2, made <- created

------------------------------------------------------------------------------
mountVars == <<world, pending, todo, phase, answer, fd, place, created, left>>

MountsOff ==
  /\ world = Off /\ pending = Off /\ todo = Off /\ phase = Off /\ answer = Off /\ fd = Off /\ place = Off /\ created = Off
  /\ left = Off
\* No call is made.
DacOff ==
  /\ node = [path \in Entries |-> NoInode] /\ mode = [i \in Inodes \cup {Dir} |-> "open"] /\ given = mode
  /\ saved = [t \in Users |-> <<>>] /\ access = [t \in Users |-> DacIdle]

MCInit ==
  /\ part \in Parts /\ Init
  /\ IF part = "bindings" THEN Mounts!Init ELSE MountsOff
  /\ IF part = "access" THEN DacInit ELSE DacOff

MCNext ==
  \/ part = "links" /\ Next /\ UNCHANGED <<part, mountVars, dacVars>>
  \/ part = "bindings" /\ Mounts!Next /\ UNCHANGED <<part, vars, dacVars>>
  \/ part = "access" /\ DacNext /\ UNCHANGED <<part, vars, mountVars>>

MCSpec == MCInit /\ [][MCNext]_<<part, vars, mountVars, dacVars>>

------------------------------------------------------------------------------
(* Properties                                                                *)

\* The digits that count the links of a file agree with its names, and no file is lost, kept for ever or doubled.
LinksCounted == TypeOK /\ CountMatches /\ NothingLeft

\* A name keeps its file until a call takes it away, and the file stays on the host if PRoot is killed meanwhile.
KeepsFiles == KillKeepsFiles /\ NothingLost

\* What a tracee is given for a path, directly, from a file descriptor, from its working directory or by readlink(2),
\* is what it would be if the bindings were mounts.
LikeMounts ==
  part = "bindings" =>
    Mounts!TypeOK /\ Mounts!DeepestWins /\ Mounts!ResolvesAsMounted /\ Mounts!SameThroughFd /\ Mounts!CwdStays
    /\ Mounts!ReadlinkAgrees

\* The directories that PRoot creates make every binding reachable, and go away with PRoot.
GlueFits == part = "bindings" => Mounts!BindingsReachable /\ Mounts!RootfsRestored

\* A lookup does not create what it looks up.
LookupsCreateNothing == [][part = "bindings" => Mounts!LooksUp]_mountVars
==============================================================================
