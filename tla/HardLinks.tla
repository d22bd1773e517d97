------------------------------ MODULE HardLinks ------------------------------
(***************************************************************************)
(* What a file system with hard links promises to the programs that use    *)
(* it: each name is that of one file or of none, link(2) adds a name,      *)
(* unlink(2) takes one away, rename(2) moves one, stat(2) counts them, and *)
(* a file is kept as long as it has a name.  Processes call one at a time  *)
(* each; a call takes effect between its beginning and its end.            *)
(***************************************************************************)
EXTENDS Integers, FiniteSets

CONSTANTS
  Procs,        \* processes
  Names,        \* the names they use, in one directory
  Data,         \* contents, a new one for each file that is created
  None          \* no file

VARIABLES
  names,        \* the file of each name, or None
  made,         \* the contents given away so far
  pending,      \* the call of each process: what it asks, and what it got so far
  up            \* whether the session goes on

\* Results beside a content and a number of links.
Ok == 0
Error == -1

vars == <<names, made, pending, up>>

Idle == [f |-> "idle", old |-> None, new |-> None, res |-> None]

(* Names that have file d. *)
NamesOf(d) == {n \in Names : names[n] = d}

Init ==
  /\ names = [n \in Names |-> None]
  /\ made = {}
  /\ pending = [p \in Procs |-> Idle]
  /\ up = TRUE

(* A call of p, whatever it asks. *)
Begin(p) ==
  LET c == pending'[p] IN
  /\ pending[p] = Idle /\ c # Idle
  /\ c.f \in {"link", "unlink", "rename", "open", "stat", "creat", "linkat_fd"} /\ {c.old, c.new} \subseteq Names /\ c.res = None
  /\ pending' = [pending EXCEPT ![p] = c]

(* Whether the call of p goes on with result r, or ends with it. *)
Gets(p, r) == pending' \in {[pending EXCEPT ![p].res = r], [pending EXCEPT ![p] = Idle]}

Drop(p) ==
  /\ pending[p].f = "unlink" /\ names[pending[p].new] # None
  /\ names' = [names EXCEPT ![pending[p].new] = None]
  /\ Gets(p, Ok)

(* rename(2): the new name is never without a file, and nothing is done if *)
(* both names are of one file already.                                     *)
Move(p) ==
  LET c == pending[p] IN
  /\ c.f = "rename" /\ names[c.old] # None
  /\ names' = IF names[c.old] = names[c.new] THEN names
              ELSE [names EXCEPT ![c.new] = names[c.old], ![c.old] = None]
  /\ Gets(p, Ok)

Link(p) ==
  LET c == pending[p] IN
  /\ c.f = "link" /\ names[c.old] # None /\ names[c.new] = None
  /\ names' = [names EXCEPT ![c.new] = names[c.old]]
  /\ Gets(p, Ok)

Create(p, d) ==
  /\ pending[p].f \in {"creat", "linkat_fd"} /\ names[pending[p].new] = None /\ d \in Data \ made
  /\ names' = [names EXCEPT ![pending[p].new] = d]
  /\ Gets(p, IF pending[p].f = "creat" THEN d ELSE Ok)

(* What a call that changes nothing is told.  link(2) may be refused. *)
Tells(p, r) ==
  LET c == pending[p]
      d == names[c.new]
  IN CASE c.f = "open" -> r = IF d = None THEN Error ELSE d
       [] c.f = "stat" -> r = IF d = None THEN Error ELSE Cardinality(NamesOf(d))
       [] c.f = "creat" -> r = d
       [] c.f = "unlink" -> r = Error /\ d = None
       [] c.f = "rename" -> r = Error /\ names[c.old] = None
       [] c.f = "link"   -> r = Error
       [] OTHER -> FALSE

Look(p) ==
  /\ pending[p] # Idle
  /\ \E r \in {Error} \union Data \union 0..Cardinality(Names) : Tells(p, r) /\ Gets(p, r)
  /\ UNCHANGED names

(* A call ends with the result it has. *)
End(p) ==
  /\ pending[p].res # None /\ pending' = [pending EXCEPT ![p] = Idle]
  /\ UNCHANGED names

(* The session is killed.  The names of one file may be lost; a link may   *)
(* have been made; a name that was about to go may still be there, or lead *)
(* to the file that has its place.                                         *)
Stop ==
  /\ up' = FALSE
  /\ pending' = [p \in Procs |-> Idle]
  /\ DOMAIN names' = Names
  /\ \E d \in Data : \A n \in Names :
       \/ names'[n] \in {names[n]} \union (IF names[n] = d THEN {None} ELSE {})
       \/ \E p \in Procs : pending[p].f = "rename" /\ n \in {pending[p].old, pending[p].new}
       \/ \E p \in Procs : /\ pending[p].new = n
                          /\ \/ pending[p].f \in {"unlink", "linkat_fd"}
                             \/ pending[p].f = "link" /\ names[pending[p].old] = names'[n]

Next ==
  /\ up
  /\ \/ UNCHANGED <<made, up>> /\ \E p \in Procs :
          \/ UNCHANGED names /\ Begin(p)
          \/ pending[p].res = None /\ (Drop(p) \/ Move(p) \/ Link(p) \/ Look(p))
          \/ End(p)
     \/ \E p \in Procs, d \in Data : pending[p].res = None /\ Create(p, d) /\ made' = made \union {d} /\ UNCHANGED up
     \/ Stop /\ made' \in {made} \union {made \union {d} : d \in Data}

Spec == Init /\ [][Next]_vars
==============================================================================
