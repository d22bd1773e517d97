------------------------------ MODULE MCSysVShm ------------------------------
(* Two processes, and a third one that the first one forks.                  *)
EXTENDS SysVShm

MCOrder == <<3, 2, 1>>

\* The child may map a segment beside the one it inherits.
MCMaps == <<1, 1, 2>>
==============================================================================
