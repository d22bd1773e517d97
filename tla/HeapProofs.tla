------------------------------ MODULE HeapProofs ------------------------------
(* Theorems about Heap, for any number of tracees and any sizes.              *)
EXTENDS Heap, FiniteSetTheorems, TLAPS

States == {"absent", "user", "brk", "done", "execve", "replaced"}
HeapStructs == [base : Nat, size : Nat, disabled : BOOLEAN]

------------------------------------------------------------------------------
(* The invariant                                                             *)

\* What the exit of a call relies on, from its entrance or from the kernel.
CallOK(b) ==
  /\ DOMAIN b = {"state", "args", "result"} /\ b.state \in States
  /\ b.state \in {"brk", "done"} /\ b.args[1] = "mremap" => b.args[4] \in Int /\ b.args[4] >= heap_offset
  /\ b.state = "done" /\ b.args[1] = "mmap" => b.result \in Nat

HeapTyped ==
  /\ heapOf \in [Tracees -> Heaps \cup {None}] /\ spaceOf \in [Tracees -> Heaps \cup {None}]
  /\ \A t \in Alive : heapOf[t] \in Heaps /\ spaceOf[t] \in Heaps
  /\ heaps \in [Heaps -> HeapStructs]
  /\ DOMAIN brk = Tracees /\ \A t \in Tracees : CallOK(brk[t])

\* A tracee between the execve(2) of the kernel, which gives it new memory, and that of PRoot, which gives it a new heap.
Fresh(t) == brk[t].state = "replaced" /\ brk[t].result # 0

\* Whose heap is the same, memory is the same, and the other way round but for vfork(2); a fresh memory is nobody else's.
Follows(t, u) ==
  /\ heapOf[t] = heapOf[u] => spaceOf[t] = spaceOf[u]
  /\ spaceOf[t] = spaceOf[u] => heapOf[t] = heapOf[u] \/ "vfork" \in Clones
Shared ==
  /\ \A t, u \in Alive : ~Fresh(t) /\ ~Fresh(u) => Follows(t, u)
  /\ \A t, u \in Alive : t # u /\ Fresh(t) => spaceOf[t] # spaceOf[u]
  /\ \A t \in Alive : brk[t].state \in {"execve", "replaced"} => brk[t].args[1] = FALSE

\* One at a time of the tracees that share a heap is in a call.
OneAtATime == \A t, u \in Alive : heapOf[t] = heapOf[u] /\ brk[t].state # "user" /\ brk[u].state # "user" => t = u

Memories == [Slots -> {"free", "heap", "other"}]

\* A heap is mapped in a memory, all of it.
Holds(h, memory) == h.base # 0 => \A p \in PagesOf(h.base, Break(h)) : memory[p] = "heap"

\* What a call of brk(2) asks of the kernel is still about the heap of its caller.
Current(b, h) ==
  /\ b.args[1] = "mmap" => h.base = 0
  /\ b.args[1] = "mremap" =>
       /\ ~h.disabled /\ h.base # 0
       /\ b.args[2] = h.base - heap_offset /\ b.args[3] = h.size + heap_offset
  /\ b.args[1] = "brk" => h.disabled \/ h.base = 0

\* Once the kernel has answered, the memory is that of the heap that translate_brk_exit() will note; until then, and
\* when nobody who shares it is there, it is that of the heap as noted.
BackedFor(t) ==
  /\ brk[t].state = "brk" => Current(brk[t], Heap(t))
  /\ brk[t].state = "done" => Holds(TranslateBrkExit(Heap(t), brk[t]), pages[spaceOf[t]])
  /\ ~Fresh(t) /\ (\A u \in Alive : heapOf[u] = heapOf[t] => brk[u].state # "done") =>
       Holds(Heap(t), pages[spaceOf[t]])

\* The page before a heap is never the page 0, whose address mremap(2) cannot return.
Backed ==
  /\ pages \in [Heaps -> Memories]
  /\ \A h \in Heaps : heaps[h].base = 0 \/ heaps[h].base > heap_offset
  /\ \A t \in Alive : BackedFor(t)

------------------------------------------------------------------------------
(* What the parts of a step do                                               *)

LEMMA Constants == First \in Tracees /\ Heaps # {} /\ None \notin Heaps /\ Bss \in Nat /\ Limit \in Nat
<1>1. CASE Heaps = {}
  <2>1. Cardinality(Heaps) = 0
    BY <1>1, FS_EmptySet
  <2>2. Cardinality(Tracees) \in Nat
    BY HeapAssumption, FS_CardinalityType
  <2>3. Cardinality(Heaps) > Cardinality(Tracees)
    BY HeapAssumption
  <2> QED  BY <2>1, <2>2, <2>3
<1>2. CASE Heaps # {}
  BY <1>2, HeapAssumption
<1> QED  BY <1>1, <1>2

\* The addresses that mmap(2) returns.
LEMMA PagesAreNumbers == \A p \in Slots : p \in Nat /\ p * Page \in Nat
<1>1. Bss \div Page \in Nat
  BY Constants DEF Page
<1>2. Limit \div Page - 1 \in Int
  BY Constants DEF Page
<1> QED  BY <1>1, <1>2 DEF Slots, Page

LEMMA Stopped ==
  ASSUME DOMAIN brk = Tracees, NEW t \in Tracees, NEW b, Stops(t, b)
  PROVE  DOMAIN brk' = Tracees /\ \A u \in Tracees : brk'[u] = IF u = t THEN b ELSE brk[u]
  BY DEF Stops

\* A call that goes from a stage to the next one.
LEMMA Proceeds ==
  ASSUME HeapTyped, NEW t \in Tracees, NEW s, NEW r,
         brk' = [brk EXCEPT ![t].state = s, ![t].result = r]
  PROVE  /\ DOMAIN brk' = Tracees /\ \A u \in Tracees \ {t} : brk'[u] = brk[u]
         /\ DOMAIN brk'[t] = {"state", "args", "result"}
         /\ brk'[t].state = s /\ brk'[t].args = brk[t].args /\ brk'[t].result = r
<1>1. DOMAIN brk[t] = {"state", "args", "result"} /\ DOMAIN brk = Tracees
  BY DEF HeapTyped, CallOK
<1>2. brk'[t] = [brk[t] EXCEPT !.state = s, !.result = r]
  BY <1>1
<1>3. DOMAIN brk' = Tracees /\ \A u \in Tracees \ {t} : brk'[u] = brk[u]
  BY <1>1
<1> QED  BY <1>1, <1>2, <1>3

\* brk(2) never asks for less than the page before the heap.
LEMMA EnterOK ==
  ASSUME HeapTyped, NEW t \in Alive, NEW address \in Nat
  PROVE  CallOK([state |-> "brk", args |-> TranslateBrkEnter(t, address), result |-> 0])
<1> DEFINE args == TranslateBrkEnter(t, address)
<1>1. Heap(t) \in HeapStructs
  BY DEF HeapTyped, Heap, Alive
<1>2. Heap(t).base \in Nat /\ Heap(t).size \in Nat
  BY <1>1 DEF HeapStructs
<1>3. args[1] = "mremap" => args[4] \in Int /\ args[4] >= heap_offset
  <2>1. CASE Heap(t).disabled \/ (Heap(t).base = 0 /\ address # 0)
    BY <2>1 DEF TranslateBrkEnter
  <2>2. CASE ~(Heap(t).disabled \/ (Heap(t).base = 0 /\ address # 0)) /\ Heap(t).base = 0
    BY <2>2 DEF TranslateBrkEnter
  <2>3. CASE /\ ~(Heap(t).disabled \/ (Heap(t).base = 0 /\ address # 0)) /\ Heap(t).base # 0
             /\ address < Heap(t).base
    BY <2>3 DEF TranslateBrkEnter
  <2>4. CASE /\ ~(Heap(t).disabled \/ (Heap(t).base = 0 /\ address # 0)) /\ Heap(t).base # 0
             /\ ~(address < Heap(t).base)
    <3>1. args[4] = address - Heap(t).base + heap_offset
      BY <2>4 DEF TranslateBrkEnter
    <3> QED  BY <3>1, <1>2, <2>4 DEF heap_offset, Page
  <2> QED  BY <2>1, <2>2, <2>3, <2>4
<1> QED  BY <1>3 DEF CallOK, States

\* The exit leaves a heap.
LEMMA ExitOK ==
  ASSUME NEW h \in HeapStructs, NEW b, CallOK(b), b.state = "done"
  PROVE  TranslateBrkExit(h, b) \in HeapStructs
<1>1. CASE h.disabled
  BY <1>1 DEF TranslateBrkExit
<1>2. CASE ~h.disabled /\ b.args[1] = "mmap"
  <2>1. b.result + heap_offset \in Nat
    BY <1>2 DEF CallOK, heap_offset, Page
  <2>2. TranslateBrkExit(h, b) = IF b.result = 0 THEN h ELSE [h EXCEPT !.base = b.result + heap_offset, !.size = 0]
    BY <1>2 DEF TranslateBrkExit
  <2>3. ASSUME NEW x \in Nat
        PROVE  [h EXCEPT !.base = x, !.size = 0] \in HeapStructs
    BY DEF HeapStructs
  <2> QED  BY <2>1, <2>2, <2>3
<1>3. CASE ~h.disabled /\ b.args[1] = "mremap"
  <2>1. b.args[4] - heap_offset \in Nat
    BY <1>3 DEF CallOK, heap_offset, Page
  <2>2. TranslateBrkExit(h, b) = Resized(h, b)
    BY <1>3 DEF TranslateBrkExit
  <2> QED  BY <2>1, <2>2 DEF HeapStructs, Resized
<1>4. CASE ~h.disabled /\ b.args[1] = "brk"
  <2>1. TranslateBrkExit(h, b) = [h EXCEPT !.disabled = b.result = b.args[2]]
    BY <1>4 DEF TranslateBrkExit
  <2> QED  BY <2>1 DEF HeapStructs
<1>5. CASE ~h.disabled /\ b.args[1] \notin {"mmap", "mremap", "brk"}
  BY <1>5 DEF TranslateBrkExit
<1> QED  BY <1>1, <1>2, <1>3, <1>4, <1>5

\* The kernel ends a brk(2), in whichever way.
LEMMA KernelEnds ==
  ASSUME HeapTyped, NEW t \in Tracees, KernelBrk(t)
  PROVE  /\ t \in Alive /\ brk[t].state = "brk" /\ UNCHANGED <<heapOf, heaps, spaceOf>>
         /\ DOMAIN brk' = Tracees /\ \A u \in Tracees \ {t} : brk'[u] = brk[u]
         /\ brk'[t].state = "done" /\ CallOK(brk'[t])
<1>1. brk[t].state = "brk" /\ t \in Alive /\ UNCHANGED <<heapOf, heaps, spaceOf>> /\ CallOK(brk[t])
  BY DEF KernelBrk, Alive, HeapTyped
<1>2. \E r : Result(t, r) /\ (brk[t].args[1] = "mmap" => r \in Nat)
  <2>1. CASE Mmap(t)
    <3>1. \E p \in Slots : Result(t, p * Page)
      BY <2>1 DEF Mmap
    <3> QED  BY <3>1, PagesAreNumbers
  <2>2. CASE Mremap(t)
    BY <2>2 DEF Mremap
  <2>3. CASE MoveBreak(t)
    BY <2>3 DEF MoveBreak
  <2>4. CASE NoMemory(t)
    BY <2>4 DEF NoMemory
  <2> QED  BY <2>1, <2>2, <2>3, <2>4 DEF KernelBrk
<1>3. PICK r : Result(t, r) /\ (brk[t].args[1] = "mmap" => r \in Nat)
  BY <1>2
<1>4. /\ DOMAIN brk' = Tracees /\ \A u \in Tracees \ {t} : brk'[u] = brk[u]
      /\ DOMAIN brk'[t] = {"state", "args", "result"}
      /\ brk'[t].state = "done" /\ brk'[t].args = brk[t].args /\ brk'[t].result = r
  BY <1>3, Proceeds DEF Result
<1>5. CallOK(brk'[t])
  BY <1>1, <1>3, <1>4 DEF CallOK, States
<1> QED  BY <1>1, <1>4, <1>5

\* The kernel replaces the memory, or does not.
LEMMA KernelReplaces ==
  ASSUME HeapTyped, NEW t \in Tracees, NEW ok \in BOOLEAN, KernelExecve(t, ok)
  PROVE  /\ t \in Alive /\ brk[t].state = "execve" /\ UNCHANGED <<heapOf, heaps>>
         /\ DOMAIN brk' = Tracees /\ \A u \in Tracees \ {t} : brk'[u] = brk[u]
         /\ brk'[t].state = "replaced" /\ brk'[t].args = brk[t].args /\ CallOK(brk'[t])
         /\ IF ok THEN brk'[t].result = 1 /\ \E s \in UnusedSpaces : spaceOf' = [spaceOf EXCEPT ![t] = s]
            ELSE brk'[t].result = 0 /\ UNCHANGED spaceOf
<1>1. brk[t].state = "execve" /\ t \in Alive /\ UNCHANGED <<heapOf, heaps>>
  BY DEF KernelExecve, Alive
<1>2. /\ DOMAIN brk' = Tracees /\ \A u \in Tracees \ {t} : brk'[u] = brk[u]
      /\ DOMAIN brk'[t] = {"state", "args", "result"}
      /\ brk'[t].state = "replaced" /\ brk'[t].args = brk[t].args /\ brk'[t].result = IF ok THEN 1 ELSE 0
  BY Proceeds DEF KernelExecve
<1>3. CallOK(brk'[t])
  BY <1>2 DEF CallOK, States
<1>4. IF ok THEN \E s \in UnusedSpaces : spaceOf' = [spaceOf EXCEPT ![t] = s] ELSE UNCHANGED spaceOf
  BY DEF KernelExecve
<1> QED  BY <1>1, <1>2, <1>3, <1>4

\* What translate_execve_exit() does of the heap.
LEMMA Clears ==
  ASSUME NEW t \in Tracees, ExecveExit(t)
  PROVE  \/ UNCHANGED <<heapOf, heaps>> /\ (brk[t].args[1] = FALSE => brk[t].result = 0)
         \/ Alone(heapOf, t) /\ heaps' = [heaps EXCEPT ![heapOf[t]] = NewHeap] /\ UNCHANGED heapOf
         \/ \E h \in Unused : heapOf' = [heapOf EXCEPT ![t] = h] /\ heaps' = [heaps EXCEPT ![h] = NewHeap]
<1>1. CASE brk[t].args[1] \/ brk[t].result = 0
  BY <1>1 DEF ExecveExit
<1>2. CASE ~(brk[t].args[1] \/ brk[t].result = 0)
  <2>1. ClearHeap(t)
    BY <1>2 DEF ExecveExit
  <2> QED  BY <2>1 DEF ClearHeap
<1> QED  BY <1>1, <1>2

LEMMA Restful == CallOK(User) /\ CallOK([User EXCEPT !.state = "absent"]) /\ User.state = "user"
                 /\ [User EXCEPT !.state = "absent"].state = "absent"
  BY DEF CallOK, User, States

------------------------------------------------------------------------------
(* Types                                                                     *)

LEMMA TypedInit == HeapInit => HeapTyped
<1> SUFFICES ASSUME HeapInit
             PROVE  HeapTyped
  OBVIOUS
<1>1. PICK h \in Heaps : heapOf = [t \in Tracees |-> IF t = First THEN h ELSE None]
  BY Constants DEF HeapInit
<1>2. spaceOf = heapOf /\ heaps \in [Heaps -> HeapStructs]
  BY DEF HeapInit, NewHeap, HeapStructs
<1>3. brk = [t \in Tracees |-> IF t = First THEN User ELSE [User EXCEPT !.state = "absent"]]
  BY DEF HeapInit
<1>4. \A t \in Alive : t = First
  BY <1>3, Restful DEF Alive
<1>5. \A t \in Alive : heapOf[t] \in Heaps
  BY <1>1, <1>4, Constants DEF Alive
<1>6. DOMAIN brk = Tracees /\ \A t \in Tracees : CallOK(brk[t])
  BY <1>3, Restful
<1>7. heapOf \in [Tracees -> Heaps \cup {None}]
  BY <1>1
<1> QED  BY <1>2, <1>5, <1>6, <1>7 DEF HeapTyped

\* A step of one tracee that leaves heapOf and spaceOf alone.
LEMMA TypedAlone ==
  ASSUME HeapTyped, NEW t \in Alive, UNCHANGED <<heapOf, spaceOf>>, heaps' \in [Heaps -> HeapStructs],
         DOMAIN brk' = Tracees, \A u \in Tracees \ {t} : brk'[u] = brk[u], CallOK(brk'[t])
  PROVE  HeapTyped'
  BY DEF HeapTyped, Alive

LEMMA TypedBrkEnter ==
  ASSUME HeapTyped, NEW t \in Tracees, NEW a \in {0} \cup Bss + Page - 1 .. Limit, BrkEnter(t, a)
  PROVE  HeapTyped'
<1>1. t \in Alive /\ a \in Nat
  BY Constants DEF BrkEnter, Alive, Page
<1>2. CallOK([state |-> "brk", args |-> TranslateBrkEnter(t, a), result |-> 0])
  BY <1>1, EnterOK
<1>3. /\ DOMAIN brk' = Tracees /\ \A u \in Tracees \ {t} : brk'[u] = brk[u]
      /\ brk'[t] = [state |-> "brk", args |-> TranslateBrkEnter(t, a), result |-> 0]
  BY Stopped DEF BrkEnter, HeapTyped
<1>4. UNCHANGED <<heapOf, heaps, spaceOf>> /\ heaps \in [Heaps -> HeapStructs]
  BY DEF BrkEnter, HeapTyped
<1> QED  BY <1>1, <1>2, <1>3, <1>4, TypedAlone

LEMMA TypedBrkExit ==
  ASSUME HeapTyped, NEW t \in Tracees, BrkExit(t)
  PROVE  HeapTyped'
<1>1. t \in Alive /\ brk[t].state = "done" /\ CallOK(brk[t]) /\ heapOf[t] \in Heaps /\ heaps[heapOf[t]] \in HeapStructs
  BY DEF BrkExit, Alive, HeapTyped
<1>2. TranslateBrkExit(heaps[heapOf[t]], brk[t]) \in HeapStructs
  BY <1>1, ExitOK
<1>3. heaps' \in [Heaps -> HeapStructs]
  BY <1>2 DEF BrkExit, HeapTyped
<1>4. DOMAIN brk' = Tracees /\ (\A u \in Tracees \ {t} : brk'[u] = brk[u]) /\ brk'[t] = User
  BY Stopped DEF BrkExit, HeapTyped
<1> QED  BY <1>1, <1>3, <1>4, Restful, TypedAlone DEF BrkExit

LEMMA TypedClone ==
  ASSUME HeapTyped, NEW t \in Tracees, NEW u \in Tracees, NEW how \in Clones, HeapClone(t, u, how)
  PROVE  HeapTyped'
<1>1. t \in Alive /\ u \notin Alive /\ Heap(t) \in HeapStructs
  BY DEF HeapClone, Alive, HeapTyped, Heap
<1>2. PICK h \in Heaps : heapOf' = [heapOf EXCEPT ![u] = h]
  BY <1>1 DEF HeapClone, CloneHeap, HeapTyped, Unused
<1>3. PICK s \in Heaps : spaceOf' = [spaceOf EXCEPT ![u] = s]
  BY <1>1 DEF HeapClone, HeapTyped, UnusedSpaces
<1>4. heaps' \in [Heaps -> HeapStructs]
  BY <1>1 DEF HeapClone, CloneHeap, HeapTyped, Unused
<1>5. brk' = [brk EXCEPT ![u] = User]
  BY DEF HeapClone
<1> QED  BY <1>2, <1>3, <1>4, <1>5, Restful DEF HeapTyped, Alive

LEMMA TypedExecveEnter ==
  ASSUME HeapTyped, NEW t \in Tracees, NEW foreign, ExecveEnter(t, foreign)
  PROVE  HeapTyped'
<1>1. t \in Alive /\ heapOf[t] \in Heaps /\ heaps[heapOf[t]] \in HeapStructs
  BY DEF ExecveEnter, Alive, HeapTyped
<1>2. [heaps[heapOf[t]] EXCEPT !.disabled = TRUE] \in HeapStructs
  BY <1>1 DEF HeapStructs
<1>3. heaps' \in [Heaps -> HeapStructs]
  BY <1>2 DEF ExecveEnter, HeapTyped
<1> DEFINE b == [state |-> "execve", args |-> <<foreign>>, result |-> 0]
<1>4. DOMAIN brk' = Tracees /\ (\A u \in Tracees \ {t} : brk'[u] = brk[u]) /\ brk'[t] = b
  BY Stopped DEF ExecveEnter, HeapTyped
<1>5. CallOK(b)
  BY DEF CallOK, States
<1> QED  BY <1>1, <1>3, <1>4, <1>5, TypedAlone DEF ExecveEnter

LEMMA TypedKernelExecve ==
  ASSUME HeapTyped, NEW t \in Tracees, NEW ok \in BOOLEAN, KernelExecve(t, ok)
  PROVE  HeapTyped'
<1>1. spaceOf' \in [Tracees -> Heaps \cup {None}] /\ \A u \in Alive : spaceOf'[u] \in Heaps
  <2>1. CASE ok
    <3>1. PICK s \in Heaps : spaceOf' = [spaceOf EXCEPT ![t] = s]
      BY <2>1, KernelReplaces DEF UnusedSpaces
    <3> QED  BY <3>1 DEF HeapTyped
  <2>2. CASE ~ok
    BY <2>2, KernelReplaces DEF HeapTyped
  <2> QED  BY <2>1, <2>2
<1>2. Alive' = Alive
  BY KernelReplaces DEF Alive
<1> QED  BY <1>1, <1>2, KernelReplaces DEF HeapTyped

LEMMA TypedExecveExit ==
  ASSUME HeapTyped, NEW t \in Tracees, ExecveExit(t)
  PROVE  HeapTyped'
<1>1. t \in Alive
  BY DEF ExecveExit, Alive
<1>2. DOMAIN brk' = Tracees /\ (\A u \in Tracees \ {t} : brk'[u] = brk[u]) /\ brk'[t] = User
  BY Stopped DEF ExecveExit, HeapTyped
<1>3. Alive' = Alive
  BY <1>1, <1>2, Restful DEF Alive
<1>4. NewHeap \in HeapStructs
  BY DEF NewHeap, HeapStructs
<1>5. /\ heaps' \in [Heaps -> HeapStructs] /\ heapOf' \in [Tracees -> Heaps \cup {None}]
      /\ \A u \in Alive : heapOf'[u] \in Heaps
  <2>1. CASE UNCHANGED <<heapOf, heaps>>
    BY <2>1 DEF HeapTyped
  <2>2. CASE heaps' = [heaps EXCEPT ![heapOf[t]] = NewHeap] /\ UNCHANGED heapOf
    BY <2>2, <1>4 DEF HeapTyped
  <2>3. ASSUME NEW h \in Heaps, heapOf' = [heapOf EXCEPT ![t] = h], heaps' = [heaps EXCEPT ![h] = NewHeap]
        PROVE  /\ heaps' \in [Heaps -> HeapStructs] /\ heapOf' \in [Tracees -> Heaps \cup {None}]
               /\ \A u \in Alive : heapOf'[u] \in Heaps
    BY <2>3, <1>4 DEF HeapTyped
  <2> QED  BY <2>1, <2>2, <2>3, Clears DEF Unused
<1> QED  BY <1>2, <1>3, <1>5, Restful DEF HeapTyped, ExecveExit

LEMMA TypedExit ==
  ASSUME HeapTyped, NEW t \in Tracees, HeapExit(t)
  PROVE  HeapTyped'
<1>1. DOMAIN brk' = Tracees /\ (\A u \in Tracees \ {t} : brk'[u] = brk[u]) /\ brk'[t] = [User EXCEPT !.state = "absent"]
  BY Stopped DEF HeapExit, HeapTyped
<1>2. Alive' = Alive \ {t}
  BY <1>1, Restful DEF Alive
<1>3. NewHeap \in HeapStructs
  BY DEF NewHeap, HeapStructs
<1>4. heaps' \in [Heaps -> HeapStructs]
  BY <1>3 DEF HeapExit, HeapTyped
<1>5. heapOf' = [heapOf EXCEPT ![t] = None] /\ spaceOf' = [spaceOf EXCEPT ![t] = None]
  BY DEF HeapExit
<1> QED  BY <1>1, <1>2, <1>4, <1>5, Restful DEF HeapTyped

LEMMA TypedNext == HeapTyped /\ [HeapNext]_heapVars => HeapTyped'
<1> SUFFICES ASSUME HeapTyped, [HeapNext]_heapVars
             PROVE  HeapTyped'
  OBVIOUS
<1>1. CASE UNCHANGED heapVars
  BY <1>1 DEF heapVars, HeapTyped, Alive
<1>2. ASSUME NEW t \in Tracees, KernelBrk(t)
      PROVE  HeapTyped'
  BY <1>2, KernelEnds, TypedAlone DEF HeapTyped
<1>3. ASSUME NEW t \in Tracees, NEW p, MapOther(t, p)
      PROVE  HeapTyped'
  BY <1>3 DEF MapOther, HeapTyped, Alive
<1> QED  BY <1>1, <1>2, <1>3, TypedBrkEnter, TypedBrkExit, TypedClone, TypedExecveEnter, TypedKernelExecve,
            TypedExecveExit, TypedExit DEF HeapNext

------------------------------------------------------------------------------
(* Who shares a heap                                                         *)

LEMMA SharedInit == HeapInit => Shared
<1> SUFFICES ASSUME HeapInit
             PROVE  Shared
  OBVIOUS
<1>1. brk = [t \in Tracees |-> IF t = First THEN User ELSE [User EXCEPT !.state = "absent"]]
  BY DEF HeapInit
<1>2. \A t \in Alive : t = First /\ brk[t].state = "user"
  BY <1>1, Restful DEF Alive
<1> QED  BY <1>2 DEF Shared, Follows, Fresh

\* A step of one tracee that neither gets memory nor has just got some.
LEMMA SharedAlone ==
  ASSUME HeapTyped, Shared, NEW t \in Alive, UNCHANGED <<heapOf, spaceOf>>,
         DOMAIN brk' = Tracees, \A u \in Tracees \ {t} : brk'[u] = brk[u], ~Fresh(t), ~Fresh(t)',
         brk'[t].state \in {"execve", "replaced"} => brk'[t].args[1] = FALSE
  PROVE  Shared'
<1>1. Alive' \subseteq Alive
  BY DEF Alive
<1>2. \A u \in Alive : Fresh(u)' <=> Fresh(u)
  BY DEF Fresh, Alive
<1> QED  BY <1>1, <1>2 DEF Shared, Follows, Alive

LEMMA SharedKernelExecve ==
  ASSUME HeapTyped, Shared, NEW t \in Tracees, NEW ok \in BOOLEAN, KernelExecve(t, ok)
  PROVE  Shared'
<1>1. /\ t \in Alive /\ brk[t].state = "execve" /\ UNCHANGED heapOf
      /\ DOMAIN brk' = Tracees /\ \A u \in Tracees \ {t} : brk'[u] = brk[u]
      /\ brk'[t].state = "replaced" /\ brk'[t].args = brk[t].args /\ brk[t].args[1] = FALSE
  BY KernelReplaces DEF Shared
<1>2. CASE ~ok
  <2>1. brk'[t].result = 0 /\ UNCHANGED spaceOf
    BY <1>2, KernelReplaces
  <2>2. ~Fresh(t) /\ ~Fresh(t)'
    BY <1>1, <2>1 DEF Fresh
  <2> QED  BY <1>1, <2>1, <2>2, SharedAlone
<1>3. CASE ok
  <2>1. PICK s \in UnusedSpaces : spaceOf' = [spaceOf EXCEPT ![t] = s]
    BY <1>3, KernelReplaces
  <2>2. Alive' = Alive /\ Alive \subseteq Tracees
    BY <1>1 DEF Alive
  <2>3. /\ \A u \in Alive \ {t} : Fresh(u)' <=> Fresh(u)
        /\ Fresh(t)'
    <3>1. brk'[t].result = 1
      BY <1>3, KernelReplaces
    <3>2. Fresh(t)'
      BY <1>1, <3>1 DEF Fresh
    <3>3. \A u \in Alive \ {t} : brk'[u] = brk[u]
      BY <1>1, <2>2
    <3> QED  BY <3>2, <3>3 DEF Fresh
  <2>4. spaceOf'[t] = s /\ \A u \in Alive \ {t} : spaceOf'[u] = spaceOf[u] /\ spaceOf[u] # s
    BY <2>1, <2>2 DEF UnusedSpaces, HeapTyped
  <2>5. \A a, b \in Alive : ~Fresh(a)' /\ ~Fresh(b)' => Follows(a, b)'
    BY <1>1, <2>3, <2>4 DEF Shared, Follows
  <2>6. \A a, b \in Alive : a # b /\ Fresh(a)' => spaceOf'[a] # spaceOf'[b]
    BY <2>3, <2>4 DEF Shared
  <2>7. \A a \in Alive : brk'[a].state \in {"execve", "replaced"} => brk'[a].args[1] = FALSE
    BY <1>1, <2>2 DEF Shared
  <2> QED  BY <2>2, <2>5, <2>6, <2>7 DEF Shared
<1> QED  BY <1>2, <1>3

LEMMA SharedExecveExit ==
  ASSUME HeapTyped, Shared, NEW t \in Tracees, ExecveExit(t)
  PROVE  Shared'
<1>1. DOMAIN brk' = Tracees /\ (\A u \in Tracees \ {t} : brk'[u] = brk[u]) /\ brk'[t] = User
  BY Stopped DEF ExecveExit, HeapTyped
<1>2. t \in Alive /\ UNCHANGED spaceOf /\ brk[t].state = "replaced" /\ brk[t].args[1] = FALSE
  BY DEF ExecveExit, Alive, Shared
<1>3. CASE brk[t].result = 0
  <2>1. UNCHANGED heapOf
    BY <1>3 DEF ExecveExit
  <2>2. ~Fresh(t) /\ ~Fresh(t)'
    BY <1>1, <1>3, Restful DEF Fresh
  <2> QED  BY <1>1, <1>2, <2>1, <2>2, Restful, SharedAlone
<1>4. CASE brk[t].result # 0
  <2>1. Alive' = Alive /\ Alive \subseteq Tracees
    BY <1>1, <1>2, Restful DEF Alive
  <2>2. /\ \A u \in Alive \ {t} : Fresh(u)' <=> Fresh(u)
        /\ ~Fresh(t)'
    BY <1>1, <2>1, Restful DEF Fresh
  <2>3. \A u \in Alive \ {t} : heapOf'[u] = heapOf[u] /\ heapOf'[u] # heapOf'[t]
    <3>1. CASE Alone(heapOf, t) /\ UNCHANGED heapOf
      BY <3>1 DEF Alone
    <3>2. ASSUME NEW h \in Unused, heapOf' = [heapOf EXCEPT ![t] = h]
          PROVE  \A u \in Alive \ {t} : heapOf'[u] = heapOf[u] /\ heapOf'[u] # heapOf'[t]
      BY <3>2, <2>1 DEF Unused, HeapTyped
    <3> QED  BY <1>2, <1>4, <3>1, <3>2, Clears
  <2>4. \A u \in Alive \ {t} : spaceOf[u] # spaceOf[t]
    BY <1>2, <1>4 DEF Shared, Fresh
  <2>5. \A a, b \in Alive : ~Fresh(a)' /\ ~Fresh(b)' => Follows(a, b)'
    BY <1>2, <2>2, <2>3, <2>4 DEF Shared, Follows
  <2>6. \A a, b \in Alive : a # b /\ Fresh(a)' => spaceOf'[a] # spaceOf'[b]
    BY <1>2, <2>2 DEF Shared
  <2>7. \A a \in Alive : brk'[a].state \in {"execve", "replaced"} => brk'[a].args[1] = FALSE
    BY <1>1, <2>1, Restful DEF Shared
  <2> QED  BY <2>1, <2>5, <2>6, <2>7 DEF Shared
<1> QED  BY <1>3, <1>4

LEMMA SharedClone ==
  ASSUME HeapTyped, Shared, NEW t \in Tracees, NEW u \in Tracees, NEW how \in Clones, HeapClone(t, u, how)
  PROVE  Shared'
<1>1. t \in Alive /\ u \notin Alive /\ ~Fresh(t) /\ Alive \subseteq Tracees
  BY DEF HeapClone, Alive, Fresh
<1>2. DOMAIN brk' = Tracees /\ (\A v \in Tracees \ {u} : brk'[v] = brk[v]) /\ brk'[u] = User
  BY DEF HeapClone, HeapTyped
<1>3. Alive' = Alive \cup {u}
  BY <1>1, <1>2, Restful DEF Alive
<1>4. ~Fresh(u)' /\ \A v \in Alive : Fresh(v)' <=> Fresh(v)
  BY <1>1, <1>2, Restful DEF Fresh
<1>5. \A v \in Alive : heapOf'[v] = heapOf[v] /\ spaceOf'[v] = spaceOf[v]
  BY <1>1 DEF HeapClone, CloneHeap, HeapTyped
<1>6. CASE how = "thread"
  <2>1. heapOf'[u] = heapOf[t] /\ spaceOf'[u] = spaceOf[t]
    BY <1>6 DEF HeapClone, CloneHeap, HeapTyped
  <2>2. \A a, b \in Alive' : ~Fresh(a)' /\ ~Fresh(b)' => Follows(a, b)'
    BY <1>1, <1>3, <1>4, <1>5, <2>1 DEF Shared, Follows
  <2>3. \A a, b \in Alive' : a # b /\ Fresh(a)' => spaceOf'[a] # spaceOf'[b]
    BY <1>1, <1>3, <1>4, <1>5, <2>1 DEF Shared
  <2>4. \A a \in Alive' : brk'[a].state \in {"execve", "replaced"} => brk'[a].args[1] = FALSE
    BY <1>1, <1>2, <1>3, Restful DEF Shared
  <2> QED  BY <2>2, <2>3, <2>4 DEF Shared
<1>7. CASE how = "fork"
  <2>1. \A v \in Alive : heapOf'[u] # heapOf[v]
    BY <1>1, <1>7 DEF HeapClone, CloneHeap, Unused, HeapTyped
  <2>2. \A v \in Alive : spaceOf'[u] # spaceOf[v]
    BY <1>1, <1>7 DEF HeapClone, UnusedSpaces, HeapTyped
  <2>3. \A a, b \in Alive' : ~Fresh(a)' /\ ~Fresh(b)' => Follows(a, b)'
    BY <1>1, <1>3, <1>4, <1>5, <2>1, <2>2 DEF Shared, Follows
  <2>4. \A a, b \in Alive' : a # b /\ Fresh(a)' => spaceOf'[a] # spaceOf'[b]
    BY <1>1, <1>3, <1>4, <1>5, <2>1, <2>2 DEF Shared
  <2>5. \A a \in Alive' : brk'[a].state \in {"execve", "replaced"} => brk'[a].args[1] = FALSE
    BY <1>1, <1>2, <1>3, Restful DEF Shared
  <2> QED  BY <2>3, <2>4, <2>5 DEF Shared
<1>8. CASE how = "vfork"
  <2>1. \A v \in Alive : heapOf'[u] # heapOf[v]
    BY <1>1, <1>8 DEF HeapClone, CloneHeap, Unused, HeapTyped
  <2>2. spaceOf'[u] = spaceOf[t]
    BY <1>1, <1>8 DEF HeapClone, HeapTyped
  <2>3. \A a, b \in Alive' : ~Fresh(a)' /\ ~Fresh(b)' => Follows(a, b)'
    BY <1>1, <1>3, <1>4, <1>5, <1>8, <2>1, <2>2 DEF Shared, Follows
  <2>4. \A a, b \in Alive' : a # b /\ Fresh(a)' => spaceOf'[a] # spaceOf'[b]
    BY <1>1, <1>3, <1>4, <1>5, <2>2 DEF Shared
  <2>5. \A a \in Alive' : brk'[a].state \in {"execve", "replaced"} => brk'[a].args[1] = FALSE
    BY <1>1, <1>2, <1>3, Restful DEF Shared
  <2> QED  BY <2>3, <2>4, <2>5 DEF Shared
<1> QED  BY <1>6, <1>7, <1>8, HeapAssumption

LEMMA SharedExit ==
  ASSUME HeapTyped, Shared, NEW t \in Tracees, HeapExit(t)
  PROVE  Shared'
<1>1. DOMAIN brk' = Tracees /\ (\A u \in Tracees \ {t} : brk'[u] = brk[u]) /\ brk'[t] = [User EXCEPT !.state = "absent"]
  BY Stopped DEF HeapExit, HeapTyped
<1>2. Alive' = Alive \ {t} /\ Alive \subseteq Tracees
  BY <1>1, Restful DEF Alive
<1>3. \A u \in Alive' : heapOf'[u] = heapOf[u] /\ spaceOf'[u] = spaceOf[u] /\ brk'[u] = brk[u]
  BY <1>1, <1>2 DEF HeapExit, HeapTyped
<1>4. \A u \in Alive' : Fresh(u)' <=> Fresh(u)
  BY <1>3 DEF Fresh
<1> QED  BY <1>2, <1>3, <1>4 DEF Shared, Follows

\* Only a program run by QEMU keeps the heap of those it no longer shares its memory with.
LEMMA SharedNext ==
  ASSUME Foreign = FALSE, HeapTyped, Shared, [HeapNext]_heapVars
  PROVE  Shared'
<1>1. CASE UNCHANGED heapVars
  BY <1>1 DEF heapVars, Shared, Follows, Alive, Fresh
<1>2. ASSUME NEW t \in Tracees, NEW a, BrkEnter(t, a)
      PROVE  Shared'
  <2>1. t \in Alive /\ ~Fresh(t) /\ UNCHANGED <<heapOf, spaceOf>>
    BY <1>2 DEF BrkEnter, Alive, Fresh
  <2>2. DOMAIN brk' = Tracees /\ (\A u \in Tracees \ {t} : brk'[u] = brk[u]) /\ brk'[t].state = "brk"
    BY <1>2, Stopped DEF BrkEnter, HeapTyped
  <2>3. ~Fresh(t)'
    BY <2>2 DEF Fresh
  <2> QED  BY <2>1, <2>2, <2>3, SharedAlone
<1>3. ASSUME NEW t \in Tracees, KernelBrk(t)
      PROVE  Shared'
  <2>1. ~Fresh(t) /\ ~Fresh(t)'
    BY <1>3, KernelEnds DEF Fresh
  <2> QED  BY <1>3, <2>1, KernelEnds, SharedAlone
<1>4. ASSUME NEW t \in Tracees, BrkExit(t)
      PROVE  Shared'
  <2>1. t \in Alive /\ ~Fresh(t) /\ UNCHANGED <<heapOf, spaceOf>>
    BY <1>4 DEF BrkExit, Alive, Fresh
  <2>2. DOMAIN brk' = Tracees /\ (\A u \in Tracees \ {t} : brk'[u] = brk[u]) /\ brk'[t].state = "user"
    BY <1>4, Stopped, Restful DEF BrkExit, HeapTyped
  <2>3. ~Fresh(t)'
    BY <2>2 DEF Fresh
  <2> QED  BY <2>1, <2>2, <2>3, SharedAlone
<1>5. ASSUME NEW t \in Tracees, NEW foreign \in {FALSE, Foreign}, ExecveEnter(t, foreign)
      PROVE  Shared'
  <2>1. t \in Alive /\ ~Fresh(t) /\ UNCHANGED <<heapOf, spaceOf>>
    BY <1>5 DEF ExecveEnter, Alive, Fresh
  <2>2. /\ DOMAIN brk' = Tracees /\ \A u \in Tracees \ {t} : brk'[u] = brk[u]
        /\ brk'[t] = [state |-> "execve", args |-> <<foreign>>, result |-> 0]
    BY <1>5, Stopped DEF ExecveEnter, HeapTyped
  <2>3. ~Fresh(t)'
    BY <2>2 DEF Fresh
  <2>4. brk'[t].args[1] = FALSE
    <3>1. foreign = FALSE
      OBVIOUS
    <3> QED  BY <2>2, <3>1
  <2> QED  BY <2>1, <2>2, <2>3, <2>4, SharedAlone
<1>6. ASSUME NEW t \in Tracees, NEW p, MapOther(t, p)
      PROVE  Shared'
  BY <1>6 DEF MapOther, Shared, Follows, Alive, Fresh
<1> QED  BY <1>1, <1>2, <1>3, <1>4, <1>5, <1>6, SharedKernelExecve, SharedExecveExit, SharedClone, SharedExit
         DEF HeapNext

------------------------------------------------------------------------------
(* One call at a time                                                        *)

\* A step of one tracee that begins a call only if nobody else with that heap is in one.
LEMMA OneAlone ==
  ASSUME HeapTyped, OneAtATime, NEW t \in Tracees,
         DOMAIN brk' = Tracees, \A u \in Tracees \ {t} : brk'[u] = brk[u] /\ heapOf'[u] = heapOf[u],
         \/ brk'[t].state \in {"user", "absent"}
         \/ t \in Alive /\ heapOf'[t] = heapOf[t] /\ (brk[t].state # "user" \/ ~InCall(t))
  PROVE  OneAtATime'
<1> SUFFICES ASSUME NEW a \in Alive', NEW b \in Alive', heapOf'[a] = heapOf'[b],
                    brk'[a].state # "user", brk'[b].state # "user", a # b
             PROVE  FALSE
  BY DEF OneAtATime
<1>1. a \in Tracees /\ b \in Tracees /\ brk'[a].state # "absent" /\ brk'[b].state # "absent"
  BY DEF Alive
<1>2. CASE a # t /\ b # t
  BY <1>1, <1>2 DEF OneAtATime, Alive
<1>3. CASE a = t
  BY <1>1, <1>3 DEF OneAtATime, Alive, InCall
<1>4. CASE b = t
  BY <1>1, <1>4 DEF OneAtATime, Alive, InCall
<1> QED  BY <1>2, <1>3, <1>4

LEMMA OneInit == HeapInit => OneAtATime
<1> SUFFICES ASSUME HeapInit
             PROVE  OneAtATime
  OBVIOUS
<1>1. brk = [t \in Tracees |-> IF t = First THEN User ELSE [User EXCEPT !.state = "absent"]]
  BY DEF HeapInit
<1> QED  BY <1>1, Restful DEF Alive, OneAtATime

LEMMA OneNext ==
  ASSUME Concurrent = FALSE, HeapTyped, OneAtATime, [HeapNext]_heapVars
  PROVE  OneAtATime'
<1>1. CASE UNCHANGED heapVars
  BY <1>1 DEF heapVars, OneAtATime, Alive
<1>2. ASSUME NEW t \in Tracees, NEW a, BrkEnter(t, a)
      PROVE  OneAtATime'
  <2>1. t \in Alive /\ ~InCall(t) /\ UNCHANGED heapOf
    BY <1>2 DEF BrkEnter, Alive
  <2>2. DOMAIN brk' = Tracees /\ \A u \in Tracees \ {t} : brk'[u] = brk[u]
    BY <1>2, Stopped DEF BrkEnter, HeapTyped
  <2> QED  BY <2>1, <2>2, OneAlone
<1>3. ASSUME NEW t \in Tracees, KernelBrk(t)
      PROVE  OneAtATime'
  BY <1>3, KernelEnds, OneAlone
<1>4. ASSUME NEW t \in Tracees, BrkExit(t)
      PROVE  OneAtATime'
  <2>1. UNCHANGED heapOf
    BY <1>4 DEF BrkExit
  <2>2. DOMAIN brk' = Tracees /\ (\A u \in Tracees \ {t} : brk'[u] = brk[u]) /\ brk'[t].state = "user"
    BY <1>4, Stopped, Restful DEF BrkExit, HeapTyped
  <2> QED  BY <2>1, <2>2, OneAlone
<1>5. ASSUME NEW t \in Tracees, NEW foreign, ExecveEnter(t, foreign)
      PROVE  OneAtATime'
  <2>1. t \in Alive /\ ~InCall(t) /\ UNCHANGED heapOf
    BY <1>5 DEF ExecveEnter, Alive
  <2>2. DOMAIN brk' = Tracees /\ \A u \in Tracees \ {t} : brk'[u] = brk[u]
    BY <1>5, Stopped DEF ExecveEnter, HeapTyped
  <2> QED  BY <2>1, <2>2, OneAlone
<1>6. ASSUME NEW t \in Tracees, NEW ok \in BOOLEAN, KernelExecve(t, ok)
      PROVE  OneAtATime'
  BY <1>6, KernelReplaces, OneAlone
<1>7. ASSUME NEW t \in Tracees, ExecveExit(t)
      PROVE  OneAtATime'
  <2>1. \A u \in Tracees \ {t} : heapOf'[u] = heapOf[u]
    BY <1>7, Clears DEF HeapTyped
  <2>2. DOMAIN brk' = Tracees /\ (\A u \in Tracees \ {t} : brk'[u] = brk[u]) /\ brk'[t].state = "user"
    BY <1>7, Stopped, Restful DEF ExecveExit, HeapTyped
  <2> QED  BY <2>1, <2>2, OneAlone
<1>8. ASSUME NEW t \in Tracees, NEW u \in Tracees, NEW how \in Clones, HeapClone(t, u, how)
      PROVE  OneAtATime'
  <2>1. \A v \in Tracees \ {u} : heapOf'[v] = heapOf[v]
    BY <1>8 DEF HeapClone, CloneHeap, HeapTyped
  <2>2. DOMAIN brk' = Tracees /\ (\A v \in Tracees \ {u} : brk'[v] = brk[v]) /\ brk'[u].state = "user"
    BY <1>8, Restful DEF HeapClone, HeapTyped
  <2> QED  BY <2>1, <2>2, OneAlone
<1>9. ASSUME NEW t \in Tracees, HeapExit(t)
      PROVE  OneAtATime'
  <2>1. \A u \in Tracees \ {t} : heapOf'[u] = heapOf[u]
    BY <1>9 DEF HeapExit, HeapTyped
  <2>2. DOMAIN brk' = Tracees /\ (\A u \in Tracees \ {t} : brk'[u] = brk[u]) /\ brk'[t].state = "absent"
    BY <1>9, Stopped, Restful DEF HeapExit, HeapTyped
  <2> QED  BY <2>1, <2>2, OneAlone
<1>10. ASSUME NEW t \in Tracees, NEW p, MapOther(t, p)
       PROVE  OneAtATime'
  BY <1>10 DEF MapOther, OneAtATime, Alive
<1> QED  BY <1>1, <1>2, <1>3, <1>4, <1>5, <1>6, <1>7, <1>8, <1>9, <1>10 DEF HeapNext

------------------------------------------------------------------------------
(* Whose heap a step changes                                                 *)

LEMMA OwnBrkExit ==
  ASSUME HeapTyped, Shared, OneAtATime, NEW t \in Tracees, BrkExit(t)
  PROVE  HeapOfOwn
<1> SUFFICES ASSUME NEW u \in Alive, Heap(u)' # Heap(u)
             PROVE  brk'[t] # brk[t] /\ t \in Alive /\ spaceOf[t] = spaceOf[u] /\ brk[t].state = "done"
  BY DEF HeapOfOwn
<1>1. t \in Alive /\ brk[t].state = "done" /\ UNCHANGED heapOf
  BY DEF BrkExit, Alive
<1>2. heapOf[u] = heapOf[t]
  BY <1>1 DEF BrkExit, Heap, HeapTyped
<1>3. ~Fresh(t) /\ ~Fresh(u)
  BY <1>1, <1>2 DEF Fresh, OneAtATime
<1>4. brk'[t] = User
  BY Stopped DEF BrkExit, HeapTyped
<1>5. brk'[t] # brk[t]
  BY <1>1, <1>4, Restful
<1> QED  BY <1>1, <1>2, <1>3, <1>5 DEF Shared, Follows

LEMMA OwnExecveExit ==
  ASSUME HeapTyped, NEW t \in Tracees, ExecveExit(t)
  PROVE  HeapOfOwn
<1> SUFFICES ASSUME NEW u \in Alive, Heap(u)' # Heap(u)
             PROVE  brk'[t] # brk[t] /\ t = u
  BY DEF HeapOfOwn
<1>1. t \in Alive /\ brk[t].state = "replaced" /\ brk'[t] = User
  BY Stopped DEF ExecveExit, HeapTyped, Alive
<1>2. brk'[t] # brk[t]
  BY <1>1, Restful
<1>3. CASE u # t
  <2>1. CASE UNCHANGED <<heapOf, heaps>>
    BY <2>1 DEF Heap
  <2>2. CASE Alone(heapOf, t) /\ heaps' = [heaps EXCEPT ![heapOf[t]] = NewHeap] /\ UNCHANGED heapOf
    BY <1>3, <2>2 DEF Heap, Alone, HeapTyped
  <2>3. ASSUME NEW h \in Unused, heapOf' = [heapOf EXCEPT ![t] = h], heaps' = [heaps EXCEPT ![h] = NewHeap]
        PROVE  FALSE
    BY <1>3, <2>3 DEF Heap, Unused, HeapTyped, Alive
  <2> QED  BY <2>1, <2>2, <2>3, Clears
<1> QED  BY <1>2, <1>3

LEMMA OwnClone ==
  ASSUME HeapTyped, NEW t \in Tracees, NEW u \in Tracees, NEW how \in Clones, HeapClone(t, u, how)
  PROVE  \A v \in Alive : Heap(v)' = Heap(v)
<1>1. u \notin Alive /\ Alive \subseteq Tracees
  BY DEF HeapClone, Alive
<1>2. CASE how = "thread"
  BY <1>1, <1>2 DEF HeapClone, CloneHeap, HeapTyped, Heap
<1>3. CASE how = "fork"
  <2>1. PICK h \in Unused : heapOf' = [heapOf EXCEPT ![u] = h] /\ heaps' = [heaps EXCEPT ![h] = Heap(t)]
    BY <1>3 DEF HeapClone, CloneHeap
  <2> QED  BY <1>1, <2>1 DEF Unused, HeapTyped, Heap
<1>4. CASE how = "vfork"
  <2>1. PICK h \in Unused : heapOf' = [heapOf EXCEPT ![u] = h] /\ heaps' = [heaps EXCEPT ![h] = Heap(t)]
    BY <1>4 DEF HeapClone, CloneHeap
  <2> QED  BY <1>1, <2>1 DEF Unused, HeapTyped, Heap
<1> QED  BY <1>2, <1>3, <1>4, HeapAssumption

LEMMA OwnExit ==
  ASSUME HeapTyped, NEW t \in Tracees, HeapExit(t)
  PROVE  HeapOfOwn
<1>1. brk'[t].state = "absent"
  BY Stopped, Restful DEF HeapExit, HeapTyped
<1>2. \A u \in Alive \ {t} : Heap(u)' = Heap(u)
  BY DEF HeapExit, Alone, Heap, HeapTyped, Alive
<1> QED  BY <1>1, <1>2 DEF HeapOfOwn

LEMMA OwnNext ==
  ASSUME Foreign = FALSE, HeapTyped, Shared, OneAtATime, HeapNext
  PROVE  HeapOfOwn
<1> DEFINE Same == \A v \in Alive : Heap(v)' = Heap(v)
<1>1. Same => HeapOfOwn
  BY DEF HeapOfOwn
<1>2. UNCHANGED <<heapOf, heaps>> => Same
  BY DEF Heap
<1> HIDE DEF Same
<1>3. ASSUME NEW t \in Tracees, NEW a, BrkEnter(t, a)
      PROVE  UNCHANGED <<heapOf, heaps>>
  BY <1>3 DEF BrkEnter
<1>4. ASSUME NEW t \in Tracees, KernelBrk(t)
      PROVE  UNCHANGED <<heapOf, heaps>>
  BY <1>4, KernelEnds
<1>5. ASSUME NEW t \in Tracees, NEW foreign \in {FALSE, Foreign}, ExecveEnter(t, foreign)
      PROVE  UNCHANGED <<heapOf, heaps>>
  <2>1. foreign = FALSE
    OBVIOUS
  <2> QED  BY <1>5, <2>1 DEF ExecveEnter
<1>6. ASSUME NEW t \in Tracees, NEW ok \in BOOLEAN, KernelExecve(t, ok)
      PROVE  UNCHANGED <<heapOf, heaps>>
  BY <1>6, KernelReplaces
<1>7. ASSUME NEW t \in Tracees, NEW p, MapOther(t, p)
      PROVE  UNCHANGED <<heapOf, heaps>>
  BY <1>7 DEF MapOther
<1>8. ASSUME NEW t \in Tracees, NEW u \in Tracees, NEW how \in Clones, HeapClone(t, u, how)
      PROVE  Same
  BY <1>8, OwnClone DEF Same
<1> QED  BY <1>1, <1>2, <1>3, <1>4, <1>5, <1>6, <1>7, <1>8, OwnBrkExit, OwnExecveExit, OwnExit DEF HeapNext

------------------------------------------------------------------------------
(* Heaps and memories                                                        *)

LEMMA HoldsNew == ASSUME NEW memory PROVE Holds(NewHeap, memory)
  BY DEF Holds, NewHeap

\* A memory that keeps what is mapped holds what it held.
LEMMA HoldsKept ==
  ASSUME NEW h, NEW memory, NEW kept, Holds(h, memory),
         \A p \in Slots : memory[p] = "heap" => kept[p] = "heap"
  PROVE  Holds(h, kept)
  BY DEF Holds, PagesOf

\* The heap that an mmap(2) has begun is empty.
LEMMA HoldsBegun ==
  ASSUME NEW h \in HeapStructs, NEW b, NEW p \in Slots, NEW memory,
         ~h.disabled, h.base = 0, b.args[1] = "mmap", b.result = p * Page
  PROVE  Holds(TranslateBrkExit(h, b), memory)
<1>1. TranslateBrkExit(h, b) = IF b.result = 0 THEN h ELSE [h EXCEPT !.base = b.result + heap_offset, !.size = 0]
  BY DEF TranslateBrkExit
<1>2. CASE b.result = 0
  BY <1>1, <1>2 DEF Holds
<1>3. CASE b.result # 0
  <2> DEFINE k == [h EXCEPT !.base = b.result + heap_offset, !.size = 0]
  <2>1. k.base = p * Page + Page /\ Break(k) = p * Page + Page
    BY PagesAreNumbers DEF HeapStructs, Break, heap_offset, Page
  <2>2. PagesOf(k.base, Break(k)) = {}
    BY <2>1, PagesAreNumbers DEF PagesOf, Page
  <2> QED  BY <1>1, <1>3, <2>2 DEF Holds
<1> QED  BY <1>2, <1>3

\* The calls that ask for no memory leave the heap as it is.
LEMMA HoldsSame ==
  ASSUME NEW h \in HeapStructs, NEW b, NEW memory, Holds(h, memory), Current(b, h),
         b.args[1] \notin {"mmap", "mremap"} \/ b.result = 0
  PROVE  Holds(TranslateBrkExit(h, b), memory)
<1>1. CASE h.disabled
  BY <1>1 DEF TranslateBrkExit
<1>2. CASE ~h.disabled /\ b.args[1] = "mmap"
  BY <1>2 DEF TranslateBrkExit
<1>3. CASE ~h.disabled /\ b.args[1] = "mremap"
  BY <1>3 DEF TranslateBrkExit, Resized
<1>4. CASE ~h.disabled /\ b.args[1] = "brk"
  <2>1. TranslateBrkExit(h, b) = [h EXCEPT !.disabled = b.result = b.args[2]] /\ h.base = 0
    BY <1>4 DEF TranslateBrkExit, Current
  <2> QED  BY <2>1 DEF Holds, HeapStructs
<1>5. CASE ~h.disabled /\ b.args[1] \notin {"mmap", "mremap", "brk"}
  BY <1>5 DEF TranslateBrkExit
<1> QED  BY <1>1, <1>2, <1>3, <1>4, <1>5

\* A heap after an mremap(2) that has succeeded: what it was, up to the new end, and what it has grown by.
LEMMA HoldsResized ==
  ASSUME NEW h \in HeapStructs, NEW b, NEW memory, NEW new,
         CallOK(b), b.state = "done", b.args[1] = "mremap", ~h.disabled, h.base # 0, h.base > heap_offset,
         Holds(h, memory), b.result = h.base - heap_offset,
         \A p \in PagesOf(h.base, h.base - heap_offset + b.args[4]) :
            \/ p \in PagesOf(h.base, Break(h)) /\ new[p] = memory[p]
            \/ new[p] = "heap"
  PROVE  Holds(TranslateBrkExit(h, b), new)
<1>1. b.args[4] \in Int /\ b.args[4] >= heap_offset
  BY DEF CallOK
<1>2. b.result # 0 /\ h.base = b.result + heap_offset
  BY DEF HeapStructs, heap_offset, Page
<1>3. TranslateBrkExit(h, b) = [h EXCEPT !.size = b.args[4] - heap_offset]
  BY <1>2 DEF TranslateBrkExit, Resized
<1> DEFINE k == [h EXCEPT !.size = b.args[4] - heap_offset]
<1>4. k.base = h.base /\ Break(k) = h.base - heap_offset + b.args[4]
  BY <1>1 DEF HeapStructs, Break, heap_offset, Page
<1>5. \A p \in PagesOf(k.base, Break(k)) : new[p] = "heap"
  BY <1>4 DEF Holds
<1> QED  BY <1>3, <1>5 DEF Holds

LEMMA Remapped ==
  ASSUME pages \in [Heaps -> Memories], NEW s \in Heaps, NEW gone, NEW new, Remap(s, gone, new)
  PROVE  /\ pages' \in [Heaps -> Memories] /\ \A r \in Heaps \ {s} : pages'[r] = pages[r]
         /\ \A p \in Slots : pages'[s][p] = IF p \in new THEN "heap" ELSE IF p \in gone THEN "free" ELSE pages[s][p]
<1> DEFINE m == [p \in Slots |-> IF p \in new THEN "heap" ELSE IF p \in gone THEN "free" ELSE pages[s][p]]
<1>1. pages' = [pages EXCEPT ![s] = m]
  BY DEF Remap
<1>2. m \in Memories
  BY DEF Memories
<1> HIDE DEF m
<1>3. pages'[s] = m
  BY <1>1
<1> QED  BY <1>1, <1>2, <1>3 DEF m

\* What a call of brk(2) has from its entrance to its exit.
LEMMA KernelKeepsCall ==
  ASSUME HeapTyped, NEW t \in Tracees, NEW r, Result(t, r)
  PROVE  brk'[t].args = brk[t].args /\ brk'[t].result = r /\ brk'[t].state = "done"
  BY Proceeds DEF Result

LEMMA MremapHolds ==
  ASSUME HeapTyped, Backed, NEW t \in Alive, brk[t].state = "brk", brk[t].args[1] = "mremap", Mremap(t),
         Holds(Heap(t), pages[spaceOf[t]]), CallOK(brk'[t])
  PROVE  /\ pages' \in [Heaps -> Memories] /\ \A r \in Heaps \ {spaceOf[t]} : pages'[r] = pages[r]
         /\ Holds(TranslateBrkExit(Heap(t), brk'[t]), pages'[spaceOf[t]])
<1> DEFINE s == spaceOf[t]
           h == Heap(t)
           old == brk[t].args[2]
           end == old + brk[t].args[3]
           newEnd == old + brk[t].args[4]
           grown == PagesOf(end, newEnd) \ PagesOf(old, end)
<1>1. /\ t \in Tracees /\ s \in Heaps /\ pages \in [Heaps -> Memories] /\ h \in HeapStructs /\ CallOK(brk[t])
      /\ Current(brk[t], h) /\ (h.base = 0 \/ h.base > heap_offset)
  BY DEF HeapTyped, Backed, BackedFor, Memories, Heap, Alive
<1>2. ~h.disabled /\ h.base # 0 /\ h.base > heap_offset /\ old = h.base - heap_offset /\ brk[t].args[3] = h.size + heap_offset
  BY <1>1 DEF Current
<1>3. h.base \in Nat /\ h.size \in Nat /\ brk[t].args[4] \in Int /\ brk[t].args[4] >= heap_offset
  BY <1>1 DEF CallOK, HeapStructs
<1>4. end = Break(h) /\ newEnd = h.base - heap_offset + brk[t].args[4]
  BY <1>2, <1>3 DEF Break, heap_offset, Page
<1> HIDE DEF h, s
<1>6. CASE grown = {} /\ Remap(s, PagesOf(newEnd, end) \ PagesOf(old, newEnd), {}) /\ Result(t, old)
  <2>1. /\ pages' \in [Heaps -> Memories] /\ \A r \in Heaps \ {s} : pages'[r] = pages[r]
        /\ \A p \in Slots : pages'[s][p] = IF p \in PagesOf(newEnd, end) \ PagesOf(old, newEnd) THEN "free" ELSE pages[s][p]
    BY <1>1, <1>6, Remapped
  <2>2. brk'[t].args = brk[t].args /\ brk'[t].result = old /\ brk'[t].state = "done"
    BY <1>1, <1>6, KernelKeepsCall
  <2>3. ASSUME NEW p \in PagesOf(h.base, newEnd)
        PROVE  p \in PagesOf(h.base, Break(h)) /\ pages'[s][p] = pages[s][p]
    <3>1. p \in Slots /\ p \in Nat /\ p * Page \in Nat
      BY PagesAreNumbers DEF PagesOf
    <3>2. p * Page < newEnd /\ p * Page + Page > h.base
      BY DEF PagesOf
    <3>3. p \in PagesOf(old, newEnd)
      BY <1>2, <1>3, <3>1, <3>2 DEF PagesOf, heap_offset, Page
    <3>4. pages'[s][p] = pages[s][p]
      BY <2>1, <3>1, <3>3
    <3>5. CASE ~(p * Page < Break(h))
      <4>1. p * Page + Page > end
        BY <1>3, <1>4, <3>1, <3>5 DEF Break, Page
      <4>2. p \in PagesOf(end, newEnd)
        BY <3>1, <3>2, <4>1 DEF PagesOf
      <4>3. p \in PagesOf(old, end)
        BY <1>6, <4>2
      <4> QED  BY <1>4, <3>5, <4>3 DEF PagesOf
    <3>6. CASE p * Page < Break(h)
      BY <3>1, <3>2, <3>4, <3>6 DEF PagesOf
    <3> QED  BY <3>5, <3>6
  <2>4. Holds(TranslateBrkExit(h, brk'[t]), pages'[s])
    BY <1>1, <1>2, <1>4, <2>2, <2>3, HoldsResized DEF h, s
  <2> QED  BY <2>1, <2>4 DEF h, s
<1>7. CASE /\ grown # {} /\ Remap(s, {}, grown) /\ Result(t, old)
  <2>1. /\ pages' \in [Heaps -> Memories] /\ \A r \in Heaps \ {s} : pages'[r] = pages[r]
        /\ \A p \in Slots : pages'[s][p] = IF p \in grown THEN "heap" ELSE pages[s][p]
    BY <1>1, <1>7, Remapped
  <2>2. brk'[t].args = brk[t].args /\ brk'[t].result = old /\ brk'[t].state = "done"
    BY <1>1, <1>7, KernelKeepsCall
  <2>3. ASSUME NEW p \in PagesOf(h.base, newEnd)
        PROVE  (p \in PagesOf(h.base, Break(h)) /\ pages'[s][p] = pages[s][p]) \/ pages'[s][p] = "heap"
    <3>1. p \in Slots /\ p \in Nat /\ p * Page \in Nat
      BY PagesAreNumbers DEF PagesOf
    <3>2. p * Page < newEnd /\ p * Page + Page > h.base
      BY DEF PagesOf
    <3>5. CASE ~(p * Page < Break(h))
      <4>1. p * Page + Page > end
        BY <1>3, <1>4, <3>1, <3>5 DEF Break, Page
      <4>2. p \in PagesOf(end, newEnd)
        BY <3>1, <3>2, <4>1 DEF PagesOf
      <4>3. p \notin PagesOf(old, end)
        BY <1>4, <3>5 DEF PagesOf
      <4> QED  BY <2>1, <3>1, <4>2, <4>3
    <3>6. CASE p * Page < Break(h)
      BY <2>1, <3>1, <3>2, <3>6 DEF PagesOf
    <3> QED  BY <3>5, <3>6
  <2>4. Holds(TranslateBrkExit(h, brk'[t]), pages'[s])
    BY <1>1, <1>2, <1>4, <2>2, <2>3, HoldsResized DEF h, s
  <2> QED  BY <2>1, <2>4 DEF h, s
<1>8. CASE grown # {} /\ UNCHANGED pages /\ Result(t, 0)
  <2>1. brk'[t].args = brk[t].args /\ brk'[t].result = 0
    BY <1>1, <1>8, KernelKeepsCall
  <2>2. Current(brk'[t], h)
    BY <1>1, <2>1 DEF Current
  <2> QED  BY <1>1, <1>8, <2>1, <2>2, HoldsSame DEF h, s
<1> QED  BY <1>6, <1>7, <1>8 DEF Mremap, s

------------------------------------------------------------------------------
(* What is mapped, at every step                                             *)

LEMMA BackedInit == HeapInit => Backed
<1> SUFFICES ASSUME HeapInit
             PROVE  Backed
  OBVIOUS
<1>1. brk = [t \in Tracees |-> IF t = First THEN User ELSE [User EXCEPT !.state = "absent"]]
  BY DEF HeapInit
<1>2. \A t \in Alive : brk[t].state = "user"
  BY <1>1, Restful DEF Alive
<1>3. heaps = [i \in Heaps |-> NewHeap] /\ \A t \in Alive : heapOf[t] \in Heaps
  BY TypedInit DEF HeapInit, HeapTyped
<1>4. \A t \in Alive : Heap(t) = NewHeap
  BY <1>3 DEF Heap
<1>5. \A t \in Alive : BackedFor(t)
  BY <1>2, <1>4, HoldsNew DEF BackedFor
<1>6. pages \in [Heaps -> Memories]
  BY DEF HeapInit, Unmapped, Memories
<1> QED  BY <1>3, <1>5, <1>6 DEF Backed, NewHeap

\* Whom a step does not touch.
LEMMA Untouched ==
  ASSUME HeapTyped, NEW t \in Tracees, NEW u \in Alive \ {t}, BackedFor(u),
         \A v \in Tracees \ {t} : brk'[v] = brk[v] /\ heapOf'[v] = heapOf[v],
         brk[t].state # "done" \/ heapOf[t] # heapOf[u],
         Heap(u)' = Heap(u),
         \A p \in Slots : pages[spaceOf[u]][p] = "heap" => (pages[spaceOf[u]][p])' = "heap"
  PROVE  BackedFor(u)'
<1>1. u \in Tracees /\ brk'[u] = brk[u] /\ heapOf'[u] = heapOf[u] /\ (Fresh(u)' <=> Fresh(u))
  BY DEF Alive, Fresh
<1>2. \A v \in Alive \ {t} : v \in Alive' /\ brk'[v] = brk[v] /\ heapOf'[v] = heapOf[v]
  BY DEF Alive
<1>3. (\A v \in Alive : heapOf[v] = heapOf[u] => brk[v].state # "done")'
      => \A v \in Alive : heapOf[v] = heapOf[u] => brk[v].state # "done"
  BY <1>1, <1>2
<1>4. \A h : Holds(h, pages[spaceOf[u]]) => Holds(h, (pages[spaceOf[u]])')
  BY HoldsKept
<1> QED  BY <1>1, <1>3, <1>4 DEF BackedFor

\* Whom a step of another memory does not touch: that memory is not his.
LEMMA Apart ==
  ASSUME "vfork" \notin Clones, HeapTyped, Shared,
         NEW t \in Alive, NEW u \in Alive \ {t}, ~Fresh(t), heapOf[u] # heapOf[t]
  PROVE  spaceOf[u] # spaceOf[t]
  BY DEF Shared, Follows

\* A step that leaves the heaps, and what is mapped of them, as they are, and ends no call of brk(2).
LEMMA BackedAlone ==
  ASSUME HeapTyped, Backed, NEW t \in Alive, UNCHANGED <<heapOf, heaps, spaceOf>>,
         DOMAIN brk' = Tracees, \A v \in Tracees \ {t} : brk'[v] = brk[v],
         brk[t].state # "done", brk'[t].state # "done", brk'[t].state # "absent",
         ~Fresh(t), brk'[t].state = "brk" => Current(brk'[t], Heap(t)),
         pages' \in [Heaps -> Memories],
         \A u \in Alive : \A p \in Slots : pages[spaceOf[u]][p] = "heap" => pages'[spaceOf[u]][p] = "heap"
  PROVE  Backed'
<1>1. Alive' = Alive /\ Alive \subseteq Tracees /\ \A u \in Alive : Heap(u)' = Heap(u)
  BY DEF Alive, Heap
<1>2. \A u \in Alive \ {t} : BackedFor(u)'
  BY <1>1, Untouched DEF Backed
<1>3. BackedFor(t)'
  <2>1. BackedFor(t)
    BY DEF Backed
  <2>2. (\A v \in Alive : heapOf[v] = heapOf[t] => brk[v].state # "done")'
        => \A v \in Alive : heapOf[v] = heapOf[t] => brk[v].state # "done"
    BY <1>1
  <2>3. \A h : Holds(h, pages[spaceOf[t]]) => Holds(h, (pages[spaceOf[t]])')
    BY HoldsKept
  <2> QED  BY <1>1, <2>1, <2>2, <2>3 DEF BackedFor
<1> QED  BY <1>1, <1>2, <1>3 DEF Backed, Memories

LEMMA Kept == ASSUME HeapTyped, Backed, UNCHANGED pages
              PROVE  pages' \in [Heaps -> Memories]
                     /\ \A u \in Alive : \A p \in Slots : pages[spaceOf[u]][p] = "heap" => pages'[spaceOf[u]][p] = "heap"
  BY DEF Backed, Memories

\* translate_brk_enter() asks for what concerns the heap of the caller.
LEMMA EnterCurrent ==
  ASSUME HeapTyped, NEW t \in Alive, NEW a \in Nat
  PROVE  Current([state |-> "brk", args |-> TranslateBrkEnter(t, a), result |-> 0], Heap(t))
<1> DEFINE args == TranslateBrkEnter(t, a)
<1>1. CASE Heap(t).disabled \/ (Heap(t).base = 0 /\ a # 0)
  <2>1. args = <<"brk", a>>
    BY <1>1 DEF TranslateBrkEnter
  <2> QED  BY <1>1, <2>1 DEF Current
<1>2. CASE ~(Heap(t).disabled \/ (Heap(t).base = 0 /\ a # 0)) /\ Heap(t).base = 0
  <2>1. args = <<"mmap", Bss, heap_offset>>
    BY <1>2 DEF TranslateBrkEnter
  <2> QED  BY <1>2, <2>1 DEF Current
<1>3. CASE ~(Heap(t).disabled \/ (Heap(t).base = 0 /\ a # 0)) /\ Heap(t).base # 0 /\ a < Heap(t).base
  <2>1. args = <<"void">>
    BY <1>3 DEF TranslateBrkEnter
  <2> QED  BY <2>1 DEF Current
<1>4. CASE ~(Heap(t).disabled \/ (Heap(t).base = 0 /\ a # 0)) /\ Heap(t).base # 0 /\ ~(a < Heap(t).base)
  <2>1. args = <<"mremap", Heap(t).base - heap_offset, Heap(t).size + heap_offset, a - Heap(t).base + heap_offset>>
    BY <1>4 DEF TranslateBrkEnter
  <2> QED  BY <1>4, <2>1 DEF Current
<1> QED  BY <1>1, <1>2, <1>3, <1>4

LEMMA BackedBrkEnter ==
  ASSUME HeapTyped, Backed, NEW t \in Tracees, NEW a \in {0} \cup Bss + Page - 1 .. Limit, BrkEnter(t, a)
  PROVE  Backed'
<1>1. t \in Alive /\ a \in Nat /\ UNCHANGED <<heapOf, heaps, spaceOf, pages>> /\ brk[t].state = "user"
  BY Constants DEF BrkEnter, Alive, Page
<1> DEFINE b == [state |-> "brk", args |-> TranslateBrkEnter(t, a), result |-> 0]
<1>2. DOMAIN brk' = Tracees /\ (\A u \in Tracees \ {t} : brk'[u] = brk[u]) /\ brk'[t] = b
  BY Stopped DEF BrkEnter, HeapTyped
<1>3. Current(b, Heap(t)) /\ b.state = "brk"
  BY <1>1, EnterCurrent
<1>4. ~Fresh(t)
  BY <1>1 DEF Fresh
<1> HIDE DEF b
<1> QED  BY <1>1, <1>2, <1>3, <1>4, Kept, BackedAlone

\* The kernel answers: the memory is that of the heap that translate_brk_exit() will note.
LEMMA KernelHolds ==
  ASSUME HeapTyped, Backed, NEW t \in Tracees, KernelBrk(t), Holds(Heap(t), pages[spaceOf[t]])
  PROVE  /\ pages' \in [Heaps -> Memories] /\ \A r \in Heaps \ {spaceOf[t]} : pages'[r] = pages[r]
         /\ Holds(TranslateBrkExit(Heap(t), brk'[t]), pages'[spaceOf[t]])
<1>1. /\ t \in Alive /\ brk[t].state = "brk" /\ brk'[t].state = "done" /\ CallOK(brk'[t])
      /\ UNCHANGED <<heapOf, heaps, spaceOf>>
  BY KernelEnds
<1>2. /\ spaceOf[t] \in Heaps /\ pages \in [Heaps -> Memories] /\ Heap(t) \in HeapStructs /\ CallOK(brk[t])
      /\ Current(brk[t], Heap(t))
  BY <1>1 DEF HeapTyped, Backed, BackedFor, Memories, Heap, Alive
<1>3. CASE Mmap(t)
  <2>1. brk[t].args[1] = "mmap" /\ \E p \in Slots : Remap(spaceOf[t], {}, {p}) /\ Result(t, p * Page)
    BY <1>3 DEF Mmap
  <2>2. PICK p \in Slots : Remap(spaceOf[t], {}, {p}) /\ Result(t, p * Page)
    BY <2>1
  <2>3. /\ pages' \in [Heaps -> Memories] /\ \A r \in Heaps \ {spaceOf[t]} : pages'[r] = pages[r]
        /\ \A q \in Slots : pages'[spaceOf[t]][q] = IF q \in {p} THEN "heap" ELSE pages[spaceOf[t]][q]
    BY <1>2, <2>2, Remapped
  <2>4. brk'[t].args = brk[t].args /\ brk'[t].result = p * Page
    BY <2>2, KernelKeepsCall
  <2>5. Heap(t).base = 0
    BY <1>2, <2>1 DEF Current
  <2>6. CASE Heap(t).disabled
    BY <2>3, <2>5, <2>6 DEF TranslateBrkExit, Holds
  <2>7. CASE ~Heap(t).disabled
    BY <1>2, <2>1, <2>3, <2>4, <2>5, <2>7, HoldsBegun
  <2> QED  BY <2>3, <2>6, <2>7
<1>4. CASE Mremap(t)
  BY <1>1, <1>4, MremapHolds DEF Mremap
<1>5. CASE MoveBreak(t) \/ NoMemory(t)
  <2>1. PICK r : Result(t, r) /\ UNCHANGED pages /\ (brk[t].args[1] \notin {"mmap", "mremap"} \/ r = 0)
    BY <1>5 DEF MoveBreak, NoMemory
  <2>2. brk'[t].args = brk[t].args /\ brk'[t].result = r
    BY <2>1, KernelKeepsCall
  <2>3. Current(brk'[t], Heap(t))
    BY <1>2, <2>2 DEF Current
  <2> QED  BY <1>2, <2>1, <2>2, <2>3, HoldsSame
<1> QED  BY <1>3, <1>4, <1>5 DEF KernelBrk

LEMMA BackedKernelBrk ==
  ASSUME "vfork" \notin Clones, HeapTyped, Shared, OneAtATime, Backed, NEW t \in Tracees, KernelBrk(t)
  PROVE  Backed'
<1>1. /\ t \in Alive /\ brk[t].state = "brk" /\ UNCHANGED <<heapOf, heaps, spaceOf>> /\ brk'[t].state = "done"
      /\ DOMAIN brk' = Tracees /\ \A u \in Tracees \ {t} : brk'[u] = brk[u]
  BY KernelEnds
<1>2. ~Fresh(t) /\ \A u \in Alive : heapOf[u] = heapOf[t] => brk[u].state # "done"
  BY <1>1 DEF Fresh, OneAtATime
<1>3. Holds(Heap(t), pages[spaceOf[t]])
  BY <1>1, <1>2 DEF Backed, BackedFor
<1>4. /\ pages' \in [Heaps -> Memories] /\ \A r \in Heaps \ {spaceOf[t]} : pages'[r] = pages[r]
      /\ Holds(TranslateBrkExit(Heap(t), brk'[t]), pages'[spaceOf[t]])
  BY <1>3, KernelHolds
<1>5. Alive' = Alive /\ Alive \subseteq Tracees /\ \A u \in Alive : Heap(u)' = Heap(u)
  BY <1>1 DEF Alive, Heap
<1>6. BackedFor(t)'
  BY <1>1, <1>4, <1>5 DEF BackedFor
<1>7. ASSUME NEW u \in Alive \ {t}, heapOf[u] # heapOf[t]
      PROVE  BackedFor(u)'
  <2>1. spaceOf[u] \in Heaps \ {spaceOf[t]}
    BY <1>1, <1>2, <1>7, Apart DEF HeapTyped
  <2>2. BackedFor(u)
    BY DEF Backed
  <2> QED  BY <1>1, <1>4, <1>5, <1>7, <2>1, <2>2, Untouched
<1>8. ASSUME NEW u \in Alive \ {t}, heapOf[u] = heapOf[t]
      PROVE  BackedFor(u)'
  <2>1. brk[u].state = "user"
    BY <1>1, <1>8 DEF OneAtATime
  <2>2. brk'[u].state = "user" /\ heapOf'[u] = heapOf'[t] /\ t \in Alive'
    BY <1>1, <1>5, <1>8, <2>1
  <2> QED  BY <1>1, <2>2 DEF BackedFor
<1> QED  BY <1>1, <1>4, <1>5, <1>6, <1>7, <1>8 DEF Backed, Memories

\* The exit keeps the page before the heap.
LEMMA ExitBase ==
  ASSUME NEW h \in HeapStructs, NEW b, CallOK(b), b.state = "done", h.base = 0 \/ h.base > heap_offset
  PROVE  TranslateBrkExit(h, b).base = 0 \/ TranslateBrkExit(h, b).base > heap_offset
<1>1. CASE h.disabled
  BY <1>1 DEF TranslateBrkExit
<1>2. CASE ~h.disabled /\ b.args[1] = "mmap"
  <2>1. TranslateBrkExit(h, b) = IF b.result = 0 THEN h ELSE [h EXCEPT !.base = b.result + heap_offset, !.size = 0]
    BY <1>2 DEF TranslateBrkExit
  <2>2. b.result \in Nat
    BY <1>2 DEF CallOK
  <2>3. CASE b.result # 0
    <3>1. TranslateBrkExit(h, b).base = b.result + heap_offset
      BY <2>1, <2>3 DEF HeapStructs
    <3> QED  BY <2>2, <2>3, <3>1 DEF heap_offset, Page
  <2> QED  BY <2>1, <2>3
<1>3. CASE ~h.disabled /\ b.args[1] = "mremap"
  BY <1>3 DEF TranslateBrkExit, Resized, HeapStructs
<1>4. CASE ~h.disabled /\ b.args[1] = "brk"
  <2>1. TranslateBrkExit(h, b) = [h EXCEPT !.disabled = b.result = b.args[2]]
    BY <1>4 DEF TranslateBrkExit
  <2> QED  BY <2>1 DEF HeapStructs
<1>5. CASE ~h.disabled /\ b.args[1] \notin {"mmap", "mremap", "brk"}
  BY <1>5 DEF TranslateBrkExit
<1> QED  BY <1>1, <1>2, <1>3, <1>4, <1>5

LEMMA BackedBrkExit ==
  ASSUME HeapTyped, Shared, OneAtATime, Backed, NEW t \in Tracees, BrkExit(t)
  PROVE  Backed'
<1>1. t \in Alive /\ brk[t].state = "done" /\ UNCHANGED <<heapOf, spaceOf, pages>> /\ CallOK(brk[t])
  BY DEF BrkExit, Alive, HeapTyped
<1>2. DOMAIN brk' = Tracees /\ (\A u \in Tracees \ {t} : brk'[u] = brk[u]) /\ brk'[t].state = "user"
  BY Stopped, Restful DEF BrkExit, HeapTyped
<1>3. Alive' = Alive /\ Alive \subseteq Tracees
  BY <1>1, <1>2 DEF Alive
<1> DEFINE h == TranslateBrkExit(Heap(t), brk[t])
<1>4. heaps' = [heaps EXCEPT ![heapOf[t]] = h] /\ heapOf[t] \in Heaps /\ Heap(t) \in HeapStructs
  BY <1>1 DEF BrkExit, HeapTyped, Heap
<1>5. Holds(h, pages[spaceOf[t]])
  BY <1>1 DEF Backed, BackedFor
<1>6. h.base = 0 \/ h.base > heap_offset
  BY <1>1, <1>4, ExitBase DEF Backed, Heap
<1> HIDE DEF h
<1>7. \A i \in Heaps : heaps'[i].base = 0 \/ heaps'[i].base > heap_offset
  BY <1>4, <1>6 DEF Backed, HeapTyped
<1>8. ASSUME NEW u \in Alive, heapOf[u] # heapOf[t]
      PROVE  BackedFor(u)'
  <2>1. Heap(u)' = Heap(u) /\ u # t
    BY <1>1, <1>4, <1>8 DEF Heap, HeapTyped
  <2>2. BackedFor(u)
    BY DEF Backed
  <2> QED  BY <1>1, <1>2, <1>8, <2>1, <2>2, Untouched
<1>9. ASSUME NEW u \in Alive, heapOf[u] = heapOf[t]
      PROVE  BackedFor(u)'
  <2>1. u # t => brk[u].state = "user"
    BY <1>1, <1>9 DEF OneAtATime
  <2>2. brk'[u].state = "user"
    BY <1>2, <1>3, <2>1
  <2>3. spaceOf[u] = spaceOf[t]
    BY <1>1, <1>9, <2>1 DEF Shared, Follows, Fresh
  <2>4. Heap(u)' = h
    BY <1>1, <1>4, <1>9 DEF Heap, HeapTyped
  <2>5. (pages[spaceOf[u]])' = pages[spaceOf[t]]
    BY <1>1, <2>3
  <2> QED  BY <1>5, <2>2, <2>4, <2>5 DEF BackedFor
<1> QED  BY <1>1, <1>3, <1>7, <1>8, <1>9 DEF Backed

LEMMA BackedExecveEnter ==
  ASSUME HeapTyped, Backed, NEW t \in Tracees, ExecveEnter(t, FALSE)
  PROVE  Backed'
<1>1. t \in Alive /\ UNCHANGED <<heapOf, heaps, spaceOf, pages>> /\ brk[t].state = "user" /\ ~Fresh(t)
  BY DEF ExecveEnter, Alive, Fresh
<1>2. DOMAIN brk' = Tracees /\ (\A u \in Tracees \ {t} : brk'[u] = brk[u]) /\ brk'[t].state = "execve"
  BY Stopped DEF ExecveEnter, HeapTyped
<1> QED  BY <1>1, <1>2, Kept, BackedAlone

LEMMA BackedMapOther ==
  ASSUME HeapTyped, Backed, NEW t \in Tracees, NEW p \in Slots, MapOther(t, p)
  PROVE  Backed'
<1>1. t \in Alive /\ UNCHANGED <<heapOf, heaps, spaceOf, brk>> /\ brk[t].state = "user" /\ ~Fresh(t)
  BY DEF MapOther, Alive, Fresh
<1>2. pages \in [Heaps -> Memories] /\ spaceOf[t] \in Heaps
  BY <1>1 DEF Backed, HeapTyped, Memories
<1>3. pages' = [pages EXCEPT ![spaceOf[t]] = [pages[spaceOf[t]] EXCEPT ![p] = "other"]]
  BY DEF MapOther
<1> DEFINE m == [pages[spaceOf[t]] EXCEPT ![p] = "other"]
<1>4. m \in Memories /\ \A q \in Slots : pages[spaceOf[t]][q] = "heap" => m[q] = "heap"
  BY <1>2 DEF MapOther, Memories
<1> HIDE DEF m
<1>5. /\ pages' \in [Heaps -> Memories]
      /\ \A u \in Alive : \A q \in Slots : pages[spaceOf[u]][q] = "heap" => pages'[spaceOf[u]][q] = "heap"
  BY <1>2, <1>3, <1>4 DEF m, HeapTyped
<1>6. DOMAIN brk' = Tracees /\ \A u \in Tracees \ {t} : brk'[u] = brk[u]
  BY <1>1 DEF HeapTyped
<1> QED  BY <1>1, <1>5, <1>6, BackedAlone

\* A child has a copy of the memory and of its heap, or shares both.
LEMMA BackedClone ==
  ASSUME Concurrent = FALSE, "vfork" \notin Clones, HeapTyped, Shared, Backed,
         NEW t \in Tracees, NEW u \in Tracees, NEW how \in Clones, HeapClone(t, u, how)
  PROVE  Backed'
<1>1. t \in Alive /\ u \notin Alive /\ ~Fresh(t) /\ Alive \subseteq Tracees /\ ~InCall(t)
  BY DEF HeapClone, Alive, Fresh
<1>2. DOMAIN brk' = Tracees /\ (\A v \in Tracees \ {u} : brk'[v] = brk[v]) /\ brk'[u] = User
  BY DEF HeapClone, HeapTyped
<1>3. Alive' = Alive \cup {u}
  BY <1>1, <1>2, Restful DEF Alive
<1>4. \A v \in Tracees \ {u} : heapOf'[v] = heapOf[v] /\ spaceOf'[v] = spaceOf[v]
  BY <1>1 DEF HeapClone, CloneHeap, HeapTyped
<1>5. Holds(Heap(t), pages[spaceOf[t]])
  BY <1>1 DEF InCall, Backed, BackedFor
<1>6. pages \in [Heaps -> Memories] /\ spaceOf[t] \in Heaps /\ heapOf[t] \in Heaps /\ Heap(t) \in HeapStructs
  BY <1>1 DEF Backed, Memories, HeapTyped, Heap
<1>7. \A v \in Alive : Heap(v)' = Heap(v)
  BY OwnClone
<1>8. brk[u].state = "absent"
  BY <1>1 DEF Alive
<1>9. \A v \in Alive : BackedFor(v) /\ v # u
  BY <1>1 DEF Backed
<1>10. /\ pages' \in [Heaps -> Memories]
       /\ \A v \in Alive : pages'[spaceOf[v]] = pages[spaceOf[v]]
       /\ Heap(u)' = Heap(t) /\ pages'[spaceOf'[u]] = pages[spaceOf[t]]
       /\ \A i \in Heaps : heaps'[i].base = 0 \/ heaps'[i].base > heap_offset
  <2>1. CASE how = "thread"
    <3>1. /\ heapOf' = [heapOf EXCEPT ![u] = heapOf[t]] /\ UNCHANGED <<heaps, pages>>
          /\ spaceOf' = [spaceOf EXCEPT ![u] = spaceOf[t]]
      BY <2>1 DEF HeapClone, CloneHeap
    <3>2. heapOf'[u] = heapOf[t] /\ spaceOf'[u] = spaceOf[t]
      BY <3>1 DEF HeapTyped
    <3> QED  BY <1>6, <3>1, <3>2 DEF Backed, Heap
  <2>2. CASE how = "fork"
    <3>1. PICK h \in Unused : heapOf' = [heapOf EXCEPT ![u] = h] /\ heaps' = [heaps EXCEPT ![h] = Heap(t)]
      BY <2>2 DEF HeapClone, CloneHeap
    <3>2. PICK s \in UnusedSpaces : spaceOf' = [spaceOf EXCEPT ![u] = s] /\ pages' = [pages EXCEPT ![s] = pages[spaceOf[t]]]
      BY <2>2 DEF HeapClone
    <3>3. heapOf'[u] = h /\ spaceOf'[u] = s /\ h \in Heaps /\ s \in Heaps
      BY <3>1, <3>2 DEF HeapTyped, Unused, UnusedSpaces
    <3>4. heaps'[h] = Heap(t) /\ \A i \in Heaps \ {h} : heaps'[i] = heaps[i]
      BY <3>1, <3>3 DEF HeapTyped
    <3>5. Heap(u)' = Heap(t)
      BY <3>3, <3>4 DEF Heap
    <3>6. Heap(t).base = 0 \/ Heap(t).base > heap_offset
      BY <1>6 DEF Backed, Heap
    <3>7. pages'[s] = pages[spaceOf[t]] /\ \A r \in Heaps \ {s} : pages'[r] = pages[r]
      BY <1>6, <3>2, <3>3
    <3>8. pages' \in [Heaps -> Memories]
      BY <1>6, <3>2, <3>3
    <3>9. \A v \in Alive : spaceOf[v] \in Heaps \ {s}
      BY <3>2 DEF UnusedSpaces, HeapTyped
    <3> QED  BY <3>3, <3>4, <3>5, <3>6, <3>7, <3>8, <3>9 DEF Backed
  <2> QED  BY <2>1, <2>2, HeapAssumption
<1>11. ASSUME NEW v \in Alive
       PROVE  BackedFor(v)'
  <2>1. v \in Alive \ {u} /\ brk[u].state # "done" /\ v \in Tracees
    BY <1>1, <1>8
  <2>2. (pages[spaceOf[v]])' = pages[spaceOf[v]]
    BY <1>4, <1>10, <2>1
  <2>3. brk'[v] = brk[v] /\ heapOf'[v] = heapOf[v] /\ (Fresh(v)' <=> Fresh(v)) /\ Heap(v)' = Heap(v)
    BY <1>2, <1>4, <1>7, <2>1 DEF Fresh
  <2>4. (\A w \in Alive : heapOf[w] = heapOf[v] => brk[w].state # "done")'
        => \A w \in Alive : heapOf[w] = heapOf[v] => brk[w].state # "done"
    BY <1>1, <1>2, <1>3, <1>4, <1>9, <2>1
  <2>5. BackedFor(v)
    BY <1>9
  <2> QED  BY <2>2, <2>3, <2>4, <2>5 DEF BackedFor
<1>12. BackedFor(u)'
  <2>1. brk'[u].state = "user"
    BY <1>2, Restful
  <2> QED  BY <1>5, <1>10, <2>1 DEF BackedFor
<1> QED  BY <1>3, <1>10, <1>11, <1>12 DEF Backed, Memories

\* What is left of a memory that nobody else has is of nobody.
LEMMA LeftToOthers ==
  ASSUME HeapTyped, Backed, NEW t \in Alive, pages' = Left(t)
  PROVE  pages' \in [Heaps -> Memories] /\ \A u \in Alive \ {t} : pages'[spaceOf[u]] = pages[spaceOf[u]]
<1>1. pages \in [Heaps -> Memories] /\ Unmapped \in Memories
  BY DEF Backed, Memories, Unmapped
<1>2. CASE Alone(spaceOf, t)
  <2>1. pages' = [pages EXCEPT ![spaceOf[t]] = Unmapped]
    BY <1>2 DEF Left
  <2>2. \A u \in Alive \ {t} : spaceOf[u] # spaceOf[t] /\ spaceOf[u] \in Heaps
    BY <1>2 DEF Alone, HeapTyped
  <2>3. pages' \in [Heaps -> Memories]
    BY <1>1, <2>1
  <2>4. \A u \in Alive \ {t} : pages'[spaceOf[u]] = pages[spaceOf[u]]
    BY <1>1, <2>1, <2>2
  <2> QED  BY <2>3, <2>4
<1>3. CASE ~Alone(spaceOf, t)
  BY <1>1, <1>3 DEF Left
<1> QED  BY <1>2, <1>3

LEMMA BackedKernelExecve ==
  ASSUME HeapTyped, Backed, NEW t \in Tracees, NEW ok \in BOOLEAN, KernelExecve(t, ok)
  PROVE  Backed'
<1>1. /\ t \in Alive /\ brk[t].state = "execve" /\ UNCHANGED <<heapOf, heaps>>
      /\ DOMAIN brk' = Tracees /\ \A u \in Tracees \ {t} : brk'[u] = brk[u]
      /\ brk'[t].state = "replaced" /\ ~Fresh(t)
  BY KernelReplaces DEF Fresh
<1>2. CASE ~ok
  <2>1. UNCHANGED <<spaceOf, pages>>
    BY <1>2 DEF KernelExecve
  <2> QED  BY <1>1, <2>1, Kept, BackedAlone
<1>3. CASE ok
  <2>1. brk'[t].result = 1 /\ pages' = Left(t) /\ \E s \in UnusedSpaces : spaceOf' = [spaceOf EXCEPT ![t] = s]
    BY <1>3, KernelReplaces DEF KernelExecve
  <2>2. Alive' = Alive /\ Alive \subseteq Tracees /\ \A u \in Alive : Heap(u)' = Heap(u)
    BY <1>1 DEF Alive, Heap
  <2>3. pages' \in [Heaps -> Memories] /\ \A u \in Alive \ {t} : pages'[spaceOf[u]] = pages[spaceOf[u]]
    BY <1>1, <2>1, LeftToOthers
  <2>4. ASSUME NEW u \in Alive \ {t}
        PROVE  BackedFor(u)'
    <3>1. (pages[spaceOf[u]])' = pages[spaceOf[u]]
      BY <2>1, <2>2, <2>3 DEF HeapTyped
    <3>2. BackedFor(u)
      BY DEF Backed
    <3> QED  BY <1>1, <2>2, <3>1, <3>2, Untouched
  <2>5. BackedFor(t)'
    BY <1>1, <2>1 DEF BackedFor, Fresh
  <2> QED  BY <1>1, <2>2, <2>3, <2>4, <2>5 DEF Backed, Memories
<1> QED  BY <1>2, <1>3

\* The heap of the new program is empty; a failed execve(2) leaves what there was.
LEMMA BackedExecveExit ==
  ASSUME HeapTyped, Shared, Backed, NEW t \in Tracees, ExecveExit(t)
  PROVE  Backed'
<1>1. /\ t \in Alive /\ brk[t].state = "replaced" /\ brk[t].args[1] = FALSE /\ UNCHANGED <<spaceOf, pages>>
      /\ heapOf[t] \in Heaps
  BY DEF ExecveExit, Alive, Shared, HeapTyped
<1>2. DOMAIN brk' = Tracees /\ (\A u \in Tracees \ {t} : brk'[u] = brk[u]) /\ brk'[t].state = "user"
  BY Stopped, Restful DEF ExecveExit, HeapTyped
<1>3. Alive' = Alive /\ Alive \subseteq Tracees /\ ~Fresh(t)'
  BY <1>1, <1>2 DEF Alive, Fresh
<1>4. CASE brk[t].result = 0
  <2>1. UNCHANGED <<heapOf, heaps>> /\ ~Fresh(t)
    BY <1>4 DEF ExecveExit, Fresh
  <2> QED  BY <1>1, <1>2, <2>1, Kept, BackedAlone
<1>5. CASE brk[t].result # 0
  <2>1. /\ \A u \in Tracees \ {t} : heapOf'[u] = heapOf[u]
        /\ \A u \in Alive \ {t} : Heap(u)' = Heap(u)
        /\ Heap(t)' = NewHeap /\ \A i \in Heaps : heaps'[i] \in {heaps[i], NewHeap}
    <3>1. CASE Alone(heapOf, t) /\ heaps' = [heaps EXCEPT ![heapOf[t]] = NewHeap] /\ UNCHANGED heapOf
      <4>1. \A u \in Alive \ {t} : heapOf[u] # heapOf[t] /\ heapOf[u] \in Heaps
        BY <3>1 DEF Alone, HeapTyped
      <4> QED  BY <1>1, <3>1, <4>1 DEF Heap, HeapTyped
    <3>2. ASSUME NEW h \in Unused, heapOf' = [heapOf EXCEPT ![t] = h], heaps' = [heaps EXCEPT ![h] = NewHeap]
          PROVE  /\ \A u \in Tracees \ {t} : heapOf'[u] = heapOf[u]
                 /\ \A u \in Alive \ {t} : Heap(u)' = Heap(u)
                 /\ Heap(t)' = NewHeap /\ \A i \in Heaps : heaps'[i] \in {heaps[i], NewHeap}
      <4>1. \A u \in Alive \ {t} : heapOf[u] # h /\ heapOf[u] \in Heaps /\ u \in Tracees
        BY <3>2, <1>3 DEF Unused, HeapTyped
      <4> QED  BY <3>2, <4>1 DEF Heap, Unused, HeapTyped
    <3> QED  BY <1>1, <1>5, <3>1, <3>2, Clears
  <2>2. \A u \in Alive \ {t} : BackedFor(u)'
    <3>1. ASSUME NEW u \in Alive \ {t}
          PROVE  BackedFor(u)'
      <4>1. BackedFor(u) /\ (pages[spaceOf[u]])' = pages[spaceOf[u]]
        BY <1>1 DEF Backed
      <4> QED  BY <1>1, <1>2, <2>1, <4>1, Untouched
    <3> QED  BY <3>1
  <2>3. BackedFor(t)'
    BY <1>2, <2>1, HoldsNew DEF BackedFor
  <2> QED  BY <1>1, <1>3, <2>1, <2>2, <2>3 DEF Backed, NewHeap
<1> QED  BY <1>4, <1>5

LEMMA BackedExit ==
  ASSUME HeapTyped, Backed, NEW t \in Tracees, HeapExit(t)
  PROVE  Backed'
<1>1. t \in Alive /\ brk[t].state = "user" /\ pages' = Left(t) /\ heapOf[t] \in Heaps
  BY DEF HeapExit, Alive, HeapTyped
<1>2. DOMAIN brk' = Tracees /\ (\A u \in Tracees \ {t} : brk'[u] = brk[u]) /\ brk'[t].state = "absent"
  BY Stopped, Restful DEF HeapExit, HeapTyped
<1>3. Alive' = Alive \ {t} /\ Alive \subseteq Tracees
  BY <1>2 DEF Alive
<1>4. \A u \in Tracees \ {t} : heapOf'[u] = heapOf[u] /\ spaceOf'[u] = spaceOf[u]
  BY DEF HeapExit, HeapTyped
<1>5. \A i \in Heaps : heaps'[i] \in {heaps[i], NewHeap}
  BY <1>1 DEF HeapExit, HeapTyped
<1>6. \A u \in Alive \ {t} : Heap(u)' = Heap(u)
  BY DEF HeapExit, Alone, Heap, HeapTyped, Alive
<1>7. pages' \in [Heaps -> Memories] /\ \A u \in Alive \ {t} : pages'[spaceOf[u]] = pages[spaceOf[u]]
  BY <1>1, LeftToOthers
<1>8. ASSUME NEW u \in Alive \ {t}
      PROVE  BackedFor(u)'
  <2>1. BackedFor(u) /\ (pages[spaceOf[u]])' = pages[spaceOf[u]]
    BY <1>3, <1>4, <1>7 DEF Backed
  <2> QED  BY <1>1, <1>2, <1>4, <1>6, <2>1, Untouched
<1> QED  BY <1>3, <1>5, <1>7, <1>8 DEF Backed, Memories, NewHeap

LEMMA BackedNext ==
  ASSUME Foreign = FALSE, Concurrent = FALSE, "vfork" \notin Clones,
         HeapTyped, Shared, OneAtATime, Backed, [HeapNext]_heapVars
  PROVE  Backed'
<1>1. CASE UNCHANGED heapVars
  <2>1. Alive' = Alive /\ \A t \in Alive : BackedFor(t) <=> BackedFor(t)'
    BY <1>1 DEF heapVars, Alive, BackedFor, Fresh, Heap
  <2> QED  BY <1>1, <2>1 DEF heapVars, Backed
<1>2. ASSUME NEW t \in Tracees, NEW foreign \in {FALSE, Foreign}, ExecveEnter(t, foreign)
      PROVE  Backed'
  <2>1. foreign = FALSE
    OBVIOUS
  <2> QED  BY <1>2, <2>1, BackedExecveEnter
<1> QED  BY <1>1, <1>2, BackedBrkEnter, BackedKernelBrk, BackedBrkExit, BackedClone, BackedKernelExecve, BackedExecveExit,
            BackedExit, BackedMapOther DEF HeapNext

------------------------------------------------------------------------------
(* The theorems                                                              *)

\* Every tracee has a struct Heap (new_child() gives it one, translate_execve_exit() another), and its size never
\* goes below zero: the page that translate_brk_exit() takes off the length of an mremap(2) is the one that
\* translate_brk_enter() had added to it.
THEOREM HeapTypeCorrect == HeapSpec => []HeapTypeOK
<1>1. HeapTyped => HeapTypeOK
  BY Constants DEF HeapTyped, HeapTypeOK, CallOK, States, HeapStructs, Alive
<1> QED  BY <1>1, TypedInit, TypedNext, PTL DEF HeapSpec

\* The tracees that share a struct Heap are those that share their memory, whatever the order of the calls to
\* clone(2), execve(2) and exit(2), those of threads in the middle of a call included: provided that nobody calls
\* vfork(2), whose child shares the memory and gets a copy of the struct (new_child()).
THEOREM SharingFollowsMemory ==
  ASSUME Foreign = FALSE, "vfork" \notin Clones
  PROVE  HeapSpec => []SharedWithMemory
<1> DEFINE IInv == HeapTyped /\ Shared
<1>1. HeapInit => IInv
  BY TypedInit, SharedInit
<1>2. IInv /\ [HeapNext]_heapVars => IInv'
  BY TypedNext, SharedNext
<1>3. IInv => SharedWithMemory
  BY DEF Shared, Follows, SharedWithMemory, Fresh
<1> QED  BY <1>1, <1>2, <1>3, PTL DEF HeapSpec

\* A call changes the heap of those alone whose memory it changes: translate_brk_exit() writes into a struct that its
\* caller shares with nobody else's memory, and translate_execve_exit() clears that of nobody else.
THEOREM HeapsArePrivate ==
  ASSUME Foreign = FALSE, Concurrent = FALSE
  PROVE  HeapSpec => HeapPrivate
<1> DEFINE IInv == HeapTyped /\ Shared /\ OneAtATime
<1>1. HeapInit => IInv
  BY TypedInit, SharedInit, OneInit
<1>2. IInv /\ [HeapNext]_heapVars => IInv'
  BY TypedNext, SharedNext, OneNext
<1>3. IInv /\ [HeapNext]_heapVars => [HeapOfOwn]_heapVars
  BY OwnNext
<1> QED  BY <1>1, <1>2, <1>3, PTL DEF HeapSpec, HeapPrivate

\* Whoever shares memory shares its heap, and all that brk(2) has told a program it may use is mapped in its own memory,
\* whoever else has cloned, replaced itself or ended since, but for vfork(2): translate_brk_enter() and translate_brk_exit() agree on
\* what the mremap(2) between them has done, and translate_execve_exit() forgets what is no longer there.
THEOREM HeapsAreSound ==
  ASSUME Foreign = FALSE, Concurrent = FALSE, "vfork" \notin Clones
  PROVE  HeapSpec => []HeapSound
<1> DEFINE IInv == HeapTyped /\ Shared /\ OneAtATime /\ Backed
<1>1. HeapInit => IInv
  BY TypedInit, SharedInit, OneInit, BackedInit
<1>2. IInv /\ [HeapNext]_heapVars => IInv'
  BY TypedNext, SharedNext, OneNext, BackedNext
<1>3. HeapTyped => HeapTypeOK
  BY Constants DEF HeapTyped, HeapTypeOK, CallOK, States, HeapStructs, Alive
<1>4. Shared => SharedWithMemory
  BY DEF Shared, Follows, SharedWithMemory, Fresh
<1>5. Backed => HeapBacked
  <2> SUFFICES ASSUME Backed, NEW t \in Alive, Heap(t).base # 0, ~InCall(t)
               PROVE  \A p \in PagesOf(Heap(t).base, Break(Heap(t))) : pages[spaceOf[t]][p] = "heap"
    BY DEF HeapBacked
  <2>1. ~Fresh(t) /\ \A u \in Alive : heapOf[u] = heapOf[t] => brk[u].state # "done"
    BY DEF InCall, Fresh
  <2> QED  BY <2>1 DEF Backed, BackedFor, Holds
<1>6. IInv => HeapSound
  BY <1>3, <1>4, <1>5 DEF HeapSound
<1> QED  BY <1>1, <1>2, <1>6, PTL DEF HeapSpec
=============================================================================
