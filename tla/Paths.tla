-------------------------------- MODULE Paths --------------------------------
(* Paths without their separators: a canonical path is the sequence of its   *)
(* components, the root is <<>>.  A path that a program gives is a record:   *)
(* abs (it begins with a slash), comps (its components, "." and ".." among   *)
(* them), slash (it ends with a slash).                                      *)
EXTENDS Naturals, SequencesExt

Rel(comps) == [abs |-> FALSE, comps |-> comps, slash |-> FALSE]
Abs(comps) == [abs |-> TRUE, comps |-> comps, slash |-> FALSE]

\* compare_paths: which of two canonical paths contains the other one.
Compare(p1, p2) ==
  IF p1 = p2 THEN "PATHS_ARE_EQUAL"
  ELSE IF IsPrefix(p1, p2) THEN "PATH1_IS_PREFIX"
  ELSE IF IsPrefix(p2, p1) THEN "PATH2_IS_PREFIX"
  ELSE "PATHS_ARE_NOT_COMPARABLE"
Encloses(p1, p2) == Compare(p1, p2) \in {"PATHS_ARE_EQUAL", "PATH1_IS_PREFIX"}

\* path begins with old, which new replaces.
SubstitutePathPrefix(path, old, new) == new \o SubSeq(path, Len(old) + 1, Len(path))

Pop(path) == IF path = <<>> THEN <<>> ELSE Front(path)

\* What of u has to be resolved from the root, when it is relative to base.
JoinPaths(base, u) == IF u.abs THEN u ELSE [u EXCEPT !.abs = TRUE, !.comps = base \o u.comps]
==============================================================================
