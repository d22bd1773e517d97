-------------------------------- MODULE Filters --------------------------------
(* The seccomp filter (syscall/seccomp.c): the lists of system calls that      *)
(* PRoot and its extensions handle are merged, and compiled into a BPF program *)
(* that the kernel runs at each call.  System calls have neutral names and,    *)
(* per ABI, numbers (syscall/sysnum.c).                                        *)
EXTENDS Integers, Sequences, SequencesExt

CONSTANTS
  Sysnums,        \* neutral names of system calls
  FilterArchs,    \* SECCOMP_ARCHS, a sequence of [value, abis]
  Offset,         \* ABI -> its first number
  Length,         \* the numbers of an ABI
  FilterLists     \* the lists of calls that may have to be merged: sequences of [value, exit]

Void == "void"
Avoider == -1
Abis == DOMAIN Offset
Numbers == UNION {Offset[abi] .. Offset[abi] + Length - 1 : abi \in Abis}

\* The ABIs of an architecture differ by their offsets; Void is not in Sysnums.

VARIABLES
  tables,         \* per ABI, the name of each number
  wanted,         \* the lists of PRoot and of its extensions
  lists,          \* those that are still to be merged
  filtered,       \* the merged list
  filter,         \* the statements of the BPF program
  built           \* the architectures that have a section; one more when the program is installed

filterVars == <<tables, wanted, lists, filtered, filter, built>>

TranslateSysnum(abi, nr) ==
  IF nr \in Offset[abi] .. Offset[abi] + Length - 1 THEN tables[abi][nr - Offset[abi]] ELSE Void

DetranslateSysnum(abi, name) ==
  IF \E i \in 0 .. Length - 1 : tables[abi][i] = name
  THEN Offset[abi] + CHOOSE i \in 0 .. Length - 1 : tables[abi][i] = name
  ELSE Avoider

------------------------------------------------------------------------------
(* Merging                                                                   *)

WithFlag(list, new) ==
  [i \in DOMAIN list |-> IF list[i].value = new.value THEN [list[i] EXCEPT !.exit = @ \/ new.exit] ELSE list[i]]

Merged(list, new) ==
  IF \E i \in DOMAIN list : list[i].value = new.value THEN WithFlag(list, new) ELSE Append(list, new)

\* merge_filtered_sysnums(), one item at a time.
MergeFilteredSysnums ==
  /\ lists # <<>>
  /\ IF Head(lists) = <<>> THEN lists' = Tail(lists) /\ UNCHANGED filtered
     ELSE lists' = <<Tail(Head(lists))>> \o Tail(lists) /\ filtered' = Merged(filtered, Head(Head(lists)))
  /\ UNCHANGED <<tables, wanted, filter, built>>

------------------------------------------------------------------------------
(* Compiling                                                                 *)

Load(field) == [op |-> "load", field |-> field]
JumpEqual(k, jt, jf) == [op |-> "jeq", k |-> k, jt |-> jt, jf |-> jf]
JumpAlways(k) == [op |-> "ja", k |-> k]
Return(action) == [op |-> "ret", action |-> action]

Trace(exit) == IF exit THEN "trace, with its exit" ELSE "trace"

\* add_trace_syscall()
AddTraceSyscall(nr, exit) == <<JumpEqual(nr, 0, 1), Return(Trace(exit))>>

\* Mutant: the last statement of the section is not skipped.
SectionLengthShort(nb) == nb * 2 - 1
\* LENGTH_END_SECTION + nb_traced_syscalls * LENGTH_TRACE_SYSCALL
SectionLength(nb) == 1 + nb * 2

\* start_arch_section()
StartArchSection(arch, nb) ==
  <<Load("arch"), JumpEqual(arch, 1, 0), JumpAlways(SectionLength(nb) + 1), Load("nr")>>

\* The statements for one ABI.
Traced(abi) ==
  LET add(statements, item) ==
        LET nr == DetranslateSysnum(abi, item.value)
        IN IF nr = Avoider THEN statements ELSE statements \o AddTraceSyscall(nr, item.exit)
  IN FoldLeft(add, <<>>, filtered)

TracedAll(abis) == FoldLeft(LAMBDA statements, abi : statements \o Traced(abi), <<>>, abis)

\* set_seccomp_filters(), the section of the next architecture.
AddArchSection ==
  /\ lists = <<>> /\ built < Len(FilterArchs)
  /\ LET arch == FilterArchs[built + 1]
         traced == TracedAll(arch.abis)
     IN filter' = filter \o StartArchSection(arch.value, Len(traced) \div 2) \o traced \o <<Return("allow")>>
  /\ built' = built + 1
  /\ UNCHANGED <<tables, wanted, lists, filtered>>

\* finalize_program_filter(), and the installation.
FinalizeProgramFilter ==
  /\ lists = <<>> /\ built = Len(FilterArchs)
  /\ filter' = Append(filter, Return("allow")) /\ built' = built + 1
  /\ UNCHANGED <<tables, wanted, lists, filtered>>

------------------------------------------------------------------------------
(* The kernel                                                                *)

\* BPF, from a statement on, with what is in the accumulator.
Runs(data) ==
  LET run[pc \in 1 .. Len(filter) + 1, acc \in {"none", "arch", "nr"}] ==
        IF pc = Len(filter) + 1 THEN "fell off the end"
        ELSE LET s == filter[pc]
             IN CASE s.op = "load" -> run[pc + 1, s.field]
                  [] s.op = "ja" -> IF pc + 1 + s.k <= Len(filter) THEN run[pc + 1 + s.k, acc] ELSE "fell off the end"
                  [] s.op = "ret" -> s.action
                  [] s.op = "jeq" -> run[pc + 1 + (IF data[acc] = s.k THEN s.jt ELSE s.jf), acc]
  IN run[1, "none"]

Tables == {f \in [0 .. Length - 1 -> Sysnums \cup {Void}] : \A i, j \in DOMAIN f : i # j /\ f[i] = f[j] => f[i] = Void}

FilterInit ==
  /\ tables \in [Abis -> Tables] /\ wanted \in FilterLists /\ lists = wanted
  /\ filtered = <<>> /\ filter = <<>> /\ built = 0

FilterNext == MergeFilteredSysnums \/ AddArchSection \/ FinalizeProgramFilter
FilterSpec == FilterInit /\ [][FilterNext]_filterVars

------------------------------------------------------------------------------
(* Properties                                                                *)

Installed == built = Len(FilterArchs) + 1

\* The name that PRoot gives to a call of a program: the ABI is that of its architecture which knows the number.
Name(i, nr) ==
  LET names == {TranslateSysnum(FilterArchs[i].abis[j], nr) : j \in DOMAIN FilterArchs[i].abis} \ {Void}
  IN IF names = {} THEN Void ELSE CHOOSE n \in names : TRUE

\* What the lists say of a call, whichever of them and wherever in it.
AskedFor(name) == {item \in UNION {ToSet(wanted[l]) : l \in DOMAIN wanted} : item.value = name}

\* Of every architecture and every number, PRoot hears of the calls that it or an extension handles, and of no other,
\* and of their end if one of them has asked for it: merging the lists one after the other loses no entry and no flag
\* of any of them, and the jumps of the program, computed from the number of statements of a section, never lead into
\* the section of another architecture.
FilterExact ==
  Installed =>
    \A i \in DOMAIN FilterArchs : \A nr \in Numbers :
      LET asked == AskedFor(Name(i, nr))
      IN Runs([arch |-> FilterArchs[i].value, nr |-> nr]) =
           IF asked = {} THEN "allow" ELSE Trace(\E item \in asked : item.exit)

\* "finalize_program_filter: append the statements that forbid anything (if unfiltered)" (seccomp.c): a call of an
\* architecture that PRoot does not handle does not run.
OthersForbidden ==
  Installed => \A nr \in Numbers : Runs([arch |-> "another", nr |-> nr]) # "allow"
==============================================================================
