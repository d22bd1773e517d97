--------------------------------- MODULE Heap ---------------------------------
(* The emulated heap (syscall/heap.c): brk(2) becomes an mmap(2), then         *)
(* mremap(2)s.  The struct Heap of a tracee is shared by the tracees that      *)
(* share its memory.  Addresses are counted in half pages.                     *)
EXTENDS Integers, FiniteSets

CONSTANTS
  Tracees,
  First,        \* the one there at the start
  Heaps,        \* the structs Heap that can be allocated
  Bss,          \* the end of the BSS of every program, a page boundary
  Limit,        \* no mapping reaches beyond this page boundary
  Clones,       \* how processes are made: "fork", "thread" (clone(2) with CLONE_VM) and "vfork", for vfork(2)
  Concurrent,   \* a thread may call brk(2), clone(2) or execve(2) while another one is inside of it
  Foreign       \* programs for another architecture are run, by QEMU

None == "none"

ASSUME HeapAssumption ==
  /\ First \in Tracees /\ IsFiniteSet(Tracees) /\ IsFiniteSet(Heaps)
  /\ Cardinality(Heaps) > Cardinality(Tracees)
  /\ Clones \subseteq {"fork", "thread", "vfork"}
  /\ None \notin Heaps /\ Bss \in Nat \ {0} /\ Limit \in Nat

VARIABLES
  heapOf,       \* tracee -> its struct Heap
  heaps,        \* base, size, disabled
  spaceOf,      \* tracee -> its address space
  pages,        \* address space -> the pages mapped above the BSS, by what: "heap" or "other"
  brk           \* tracee -> the call it is in
heapVars == <<heapOf, heaps, spaceOf, pages, brk>>

Page == 2
heap_offset == Page
NewHeap == [base |-> 0, size |-> 0, disabled |-> FALSE]
User == [state |-> "user", args |-> <<>>, result |-> 0]
Alive == {t \in Tracees : brk[t].state # "absent"}
Slots == Bss \div Page .. Limit \div Page - 1
Unmapped == [p \in Slots |-> "free"]

\* The pages of a range of addresses.
PagesOf(from, to) == {p \in Slots : p * Page < to /\ p * Page + Page > from}
Heap(t) == heaps[heapOf[t]]
Stops(t, b) == brk' = [brk EXCEPT ![t] = b]
InCall(t) == \E u \in Alive : heapOf[u] = heapOf[t] /\ brk[u].state # "user"

\* What nobody else has is freed.
Alone(f, t) == \A u \in Alive \ {t} : f[u] # f[t]
Left(t) == IF Alone(spaceOf, t) THEN [pages EXCEPT ![spaceOf[t]] = Unmapped] ELSE pages
Unused == {h \in Heaps : \A t \in Alive : heapOf[t] # h}
UnusedSpaces == {s \in Heaps : \A t \in Alive : spaceOf[t] # s}

------------------------------------------------------------------------------

\* translate_brk_enter(): what the call of the program becomes.
TranslateBrkEnter(t, address) ==
  IF Heap(t).disabled \/ (Heap(t).base = 0 /\ address # 0) THEN <<"brk", address>>
  ELSE IF Heap(t).base = 0 THEN <<"mmap", Bss, heap_offset>>
  ELSE IF address < Heap(t).base THEN <<"void">>
  ELSE <<"mremap", Heap(t).base - heap_offset, Heap(t).size + heap_offset, address - Heap(t).base + heap_offset>>

BrkEnter(t, address) ==
  /\ brk[t].state = "user"
  /\ Concurrent \/ ~InCall(t)
  /\ Stops(t, [state |-> "brk", args |-> TranslateBrkEnter(t, address), result |-> 0])
  /\ UNCHANGED <<heapOf, heaps, spaceOf, pages>>

\* The break after the call: what the program gets.
Break(h) == h.base + h.size

\* translate_brk_exit(), after an mremap(2).
Resized(h, call) ==
  IF call.result = 0 \/ h.base # call.result + heap_offset THEN h
  ELSE [h EXCEPT !.size = call.args[4] - heap_offset]

TranslateBrkExit(h, call) ==
  CASE h.disabled -> h
    [] call.args[1] = "mmap" /\ ~h.disabled ->
         IF call.result = 0 THEN h ELSE [h EXCEPT !.base = call.result + heap_offset, !.size = 0]
    [] call.args[1] = "mremap" /\ ~h.disabled -> Resized(h, call)
    [] call.args[1] = "brk" /\ ~h.disabled -> [h EXCEPT !.disabled = call.result = call.args[2]]
    [] OTHER -> h

BrkExit(t) ==
  /\ brk[t].state = "done"
  /\ heaps' = [heaps EXCEPT ![heapOf[t]] = TranslateBrkExit(@, brk[t])]
  /\ Stops(t, User)
  /\ UNCHANGED <<heapOf, spaceOf, pages>>

\* Mutant: the struct is always copied.
CloneCopies(t, u, clone_vm) ==
  \E h \in Unused :
    heapOf' = [heapOf EXCEPT ![u] = h] /\ heaps' = [heaps EXCEPT ![h] = Heap(t)]
CloneHeap(t, u, clone_vm) ==
  IF clone_vm THEN heapOf' = [heapOf EXCEPT ![u] = heapOf[t]] /\ UNCHANGED heaps
  ELSE \E h \in Unused :
         heapOf' = [heapOf EXCEPT ![u] = h] /\ heaps' = [heaps EXCEPT ![h] = Heap(t)]

\* new_child() reads the flags of clone(2) and clone3(2) alone: the child of a vfork(2) shares the memory too, but gets
\* a copy of the struct.  Its parent is not held here until it is done.
HeapClone(t, u, how) ==
  /\ brk[t].state = "user" /\ u \notin Alive
  /\ Concurrent \/ ~InCall(t)
  /\ CloneHeap(t, u, how = "thread")
  /\ IF how \in {"thread", "vfork"} THEN spaceOf' = [spaceOf EXCEPT ![u] = spaceOf[t]] /\ UNCHANGED pages
     ELSE \E s \in UnusedSpaces : /\ spaceOf' = [spaceOf EXCEPT ![u] = s]
                                  /\ pages' = [pages EXCEPT ![s] = pages[spaceOf[t]]]
  /\ brk' = [brk EXCEPT ![u] = User]

\* translate_execve_enter(): the heap of a program run by QEMU alone is that of the kernel.
ExecveEnter(t, foreign) ==
  /\ brk[t].state = "user"
  /\ Concurrent \/ ~InCall(t)
  /\ heaps' = IF foreign THEN [heaps EXCEPT ![heapOf[t]].disabled = TRUE] ELSE heaps
  /\ Stops(t, [state |-> "execve", args |-> <<foreign>>, result |-> 0])
  /\ UNCHANGED <<heapOf, spaceOf, pages>>

\* Mutant: the struct is cleared even if other tracees share it.
ClearAnyway(t) == heaps' = [heaps EXCEPT ![heapOf[t]] = NewHeap] /\ UNCHANGED heapOf

\* translate_execve_exit(): new processes have no heap.
ClearHeap(t) ==
  IF Alone(heapOf, t) THEN heaps' = [heaps EXCEPT ![heapOf[t]] = NewHeap] /\ UNCHANGED heapOf
  ELSE \E h \in Unused : heapOf' = [heapOf EXCEPT ![t] = h] /\ heaps' = [heaps EXCEPT ![h] = NewHeap]

ExecveExit(t) ==
  /\ brk[t].state = "replaced"
  /\ Stops(t, User)
  /\ IF brk[t].args[1] \/ brk[t].result = 0 THEN UNCHANGED <<heapOf, heaps>> ELSE ClearHeap(t)
  /\ UNCHANGED <<spaceOf, pages>>

\* A process ends, between two calls.
HeapExit(t) ==
  /\ brk[t].state = "user" /\ Stops(t, [User EXCEPT !.state = "absent"])
  /\ heapOf' = [heapOf EXCEPT ![t] = None] /\ spaceOf' = [spaceOf EXCEPT ![t] = None]
  /\ heaps' = IF Alone(heapOf, t) THEN [heaps EXCEPT ![heapOf[t]] = NewHeap] ELSE heaps
  /\ pages' = Left(t)

------------------------------------------------------------------------------
(* The kernel.  0 stands for an error.                                       *)

Mapped(s) == {p \in Slots : pages[s][p] # "free"}
Remap(s, gone, new) ==
  pages' = [pages EXCEPT ![s] = [p \in Slots |-> IF p \in new THEN "heap" ELSE IF p \in gone THEN "free" ELSE @[p]]]
Result(t, r) == brk' = [brk EXCEPT ![t].state = "done", ![t].result = r]

\* mmap(2) takes the address as a hint.
Mmap(t) ==
  LET s == spaceOf[t]
      free == Slots \ Mapped(s)
      hint == Bss \div Page
  IN /\ brk[t].args[1] = "mmap"
     /\ \E p \in IF hint \in free THEN {hint} ELSE free : Remap(s, {}, {p}) /\ Result(t, p * Page)

\* mremap(2) without MREMAP_MAYMOVE.
Mremap(t) ==
  LET s == spaceOf[t]
      old == brk[t].args[2]
      end == old + brk[t].args[3]
      newEnd == old + brk[t].args[4]
      grown == PagesOf(end, newEnd) \ PagesOf(old, end)
  IN /\ brk[t].args[1] = "mremap"
     /\ \/ /\ grown = {}
           /\ Remap(s, PagesOf(newEnd, end) \ PagesOf(old, newEnd), {}) /\ Result(t, old)
        \/ /\ grown # {} /\ newEnd <= Limit
           /\ PagesOf(old, end) \subseteq Mapped(s) /\ grown \cap Mapped(s) = {}
           /\ Remap(s, {}, grown) /\ Result(t, old)
        \/ /\ grown # {} /\ UNCHANGED pages /\ Result(t, 0)

\* brk(2) moves the end of a heap of the kernel's own, elsewhere; it may fail, as mmap(2) may.
MoveBreak(t) == brk[t].args[1] = "brk" /\ UNCHANGED pages /\ Result(t, brk[t].args[2])
NoMemory(t) == brk[t].args[1] \in {"brk", "void", "mmap"} /\ UNCHANGED pages /\ Result(t, 0)

KernelBrk(t) ==
  /\ brk[t].state = "brk" /\ (Mmap(t) \/ Mremap(t) \/ MoveBreak(t) \/ NoMemory(t))
  /\ UNCHANGED <<heapOf, heaps, spaceOf>>

\* execve(2) gives new memory, or fails.
KernelExecve(t, ok) ==
  /\ brk[t].state = "execve"
  /\ IF ok THEN \E s \in UnusedSpaces : /\ spaceOf' = [spaceOf EXCEPT ![t] = s]
                                        /\ pages' = Left(t)
     ELSE UNCHANGED <<spaceOf, pages>>
  /\ brk' = [brk EXCEPT ![t].state = "replaced", ![t].result = IF ok THEN 1 ELSE 0]
  /\ UNCHANGED <<heapOf, heaps>>

\* The program maps something in the way of the heap.
MapOther(t, p) ==
  /\ brk[t].state = "user" /\ pages[spaceOf[t]][p] = "free" /\ p = Limit \div Page - 1
  /\ pages' = [pages EXCEPT ![spaceOf[t]][p] = "other"]
  /\ UNCHANGED <<heapOf, heaps, spaceOf, brk>>

HeapInit ==
  LET h == CHOOSE h \in Heaps : TRUE
  IN /\ heapOf = [t \in Tracees |-> IF t = First THEN h ELSE None] /\ spaceOf = heapOf
     /\ heaps = [i \in Heaps |-> NewHeap] /\ pages = [s \in Heaps |-> Unmapped]
     /\ brk = [t \in Tracees |-> IF t = First THEN User ELSE [User EXCEPT !.state = "absent"]]

HeapNext ==
  \E t \in Tracees :
    \/ \E a \in {0} \cup Bss + Page - 1 .. Limit : BrkEnter(t, a)
    \/ KernelBrk(t) \/ BrkExit(t) \/ ExecveExit(t) \/ HeapExit(t)
    \/ \E u \in Tracees, how \in Clones : HeapClone(t, u, how)
    \/ \E foreign \in {FALSE, Foreign} : ExecveEnter(t, foreign)
    \/ \E ok \in BOOLEAN : KernelExecve(t, ok)
    \/ \E p \in Slots : MapOther(t, p)

HeapSpec == HeapInit /\ [][HeapNext]_heapVars

------------------------------------------------------------------------------
(* Properties                                                                *)

HeapTypeOK ==
  /\ heapOf \in [Tracees -> Heaps \cup {None}] /\ spaceOf \in [Tracees -> Heaps \cup {None}]
  /\ \A t \in Alive : heapOf[t] # None /\ spaceOf[t] # None
  /\ heaps \in [Heaps -> [base : Nat, size : Nat, disabled : BOOLEAN]]
  /\ DOMAIN brk = Tracees
  /\ \A t \in Tracees : brk[t].state \in {"absent", "user", "brk", "done", "execve", "replaced"}

\* The tracees that share a struct Heap are those that share their memory (translate_execve_exit() and new_child() have
\* to follow clone(2) and execve(2)); the kernel replaces the memory before PRoot replaces the struct.
SharedWithMemory ==
  \A t, u \in Alive : (brk[t].state # "replaced" /\ brk[u].state # "replaced") =>
    (heapOf[t] = heapOf[u] <=> spaceOf[t] = spaceOf[u])

\* All that brk(2) has told a program it may use is mapped, in its own memory, whoever else has made calls since.
HeapBacked ==
  \A t \in Alive : (Heap(t).base # 0 /\ ~InCall(t)) =>
    \A p \in PagesOf(Heap(t).base, Break(Heap(t))) : pages[spaceOf[t]][p] = "heap"

\* Whoever shares memory shares its heap, and what brk(2) has told a program it may use is mapped.
HeapSound == HeapTypeOK /\ SharedWithMemory /\ HeapBacked

\* A tracee changes the heap of another one only if they share their memory: a clone and an execve keep what the parent
\* has.
HeapOfOwn ==
  \A u \in Alive : brk'[u].state # "absent" /\ Heap(u)' # Heap(u) =>
    \E t \in Alive : brk'[t] # brk[t] /\ spaceOf[t] = spaceOf[u] /\ (t = u \/ brk[t].state = "done")
HeapPrivate == [][HeapOfOwn]_heapVars
==============================================================================
