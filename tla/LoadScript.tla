------------------------------- MODULE LoadScript -------------------------------
(* The loading of a program: PRoot turns the segments of the program and of    *)
(* its ELF interpreter into mappings (execve/enter.c), the mappings into a     *)
(* script (execve/exit.c), and its loader, the program that execve(2) really   *)
(* starts, follows the script (loader/loader.c).                               *)
(*                                                                             *)
(* A byte of memory is <<k, o>>, the o-th byte of the file of the k-th object, *)
(* or Zero, Beyond (a page of a file that ends before it) or Nothing.          *)
EXTENDS Naturals, Sequences, SequencesExt

CONSTANTS
  Size,           \* the size of a page
  Bases,          \* the addresses of position independent objects: the program's, the interpreter's
  Top,            \* the end of the memory
  Programs,       \* the programs: sequences of one or two objects, [dyn, trailer, segs]
  AnyTail         \* a file may end with its last segment

\* Size is not 0 and divides the Bases.

Zero == <<0, 0>>
Beyond == <<0, 1>>
Nothing == <<0, 2>>

VARIABLES
  objs,           \* the objects
  mappings,       \* their mappings, load_info->mappings
  script,         \* the load script
  pc,             \* the statement that the loader is at; 0: it has not started
  fd,             \* the object that the loader has open
  image,          \* the memory
  writable,       \* the bytes of memory that may be written to
  atBase,         \* AT_BASE; Top until it is set
  stage           \* "extract", "transfer", "load", "started", "killed"

loadVars == <<objs, mappings, script, pc, fd, image, writable, atBase, stage>>

Down(a) == (a \div Size) * Size
FileEnd(k) ==
  LET ends == {objs[k].segs[i].offset + objs[k].segs[i].filesz : i \in DOMAIN objs[k].segs}
  IN (CHOOSE e \in ends : \A f \in ends : f <= e) + objs[k].trailer

------------------------------------------------------------------------------
(* Extracting                                                                *)

\* The bytes after those of the file, up to the end of the page.
ClearLength(seg, end) == end - seg.vaddr - seg.filesz

\* Mutant: no pages are added after those of the file.
ExtraNone(seg, end) == <<>>
Extra(seg, end) ==
  LET last == Down(seg.vaddr + seg.memsz + Size)
  IN IF last > end
     THEN <<[anon |-> TRUE, addr |-> end, length |-> last - end, offset |-> 0, clear |-> 0, w |-> seg.w]>>
     ELSE <<>>

HasBss(seg) == seg.memsz > seg.filesz

\* add_mapping()
AddMapping(maps, seg) ==
  LET start == Down(seg.vaddr)
      end == Down(seg.vaddr + seg.filesz + Size)
  IN Append(maps, [anon |-> FALSE, addr |-> start, length |-> end - start, offset |-> Down(seg.offset),
                   clear |-> IF HasBss(seg) THEN ClearLength(seg, end) ELSE 0, w |-> seg.w])
     \o (IF HasBss(seg) THEN Extra(seg, end) ELSE <<>>)

\* add_load_base()
AddLoadBase(maps, base) == [i \in DOMAIN maps |-> [maps[i] EXCEPT !.addr = @ + base]]

\* compute_load_addresses()
LoadBase(k) == IF objs[k].dyn /\ Down(objs[k].segs[1].vaddr) = 0 THEN Bases[k] ELSE 0

\* extract_load_info() of every object, then compute_load_addresses().
ExtractLoadInfo ==
  /\ stage = "extract" /\ stage' = "transfer"
  /\ mappings' = [k \in DOMAIN objs |-> AddLoadBase(FoldLeft(AddMapping, <<>>, objs[k].segs), LoadBase(k))]
  /\ UNCHANGED <<objs, script, pc, fd, image, writable, atBase>>

\* transcript_mappings()
TranscriptMappings(k) == [i \in DOMAIN mappings[k] |-> [op |-> "mmap", m |-> mappings[k][i]]]

\* transfer_load_script()
TransferLoadScript ==
  /\ stage = "transfer" /\ stage' = "load"
  /\ script' = FoldLeft(LAMBDA s, k : s \o <<[op |-> "open", file |-> k]>> \o TranscriptMappings(k), <<>>,
                        [k \in 1 .. Len(objs) |-> k])
               \o <<[op |-> "start"]>>
  /\ pc' = 1
  /\ UNCHANGED <<objs, mappings, fd, image, writable, atBase>>

------------------------------------------------------------------------------
(* The loader, one statement at a time                                       *)

Open ==
  /\ script[pc].op = "open" /\ fd' = script[pc].file
  /\ atBase' = Top
  /\ UNCHANGED <<image, writable, stage>>

Within(m) == m.addr .. m.addr + m.length - 1

\* mmap(2) of the open file: whole pages; those that begin beyond its end cannot be used.
FileByte(m, a) ==
  LET o == m.offset + a - m.addr
  IN IF Down(o) >= FileEnd(fd) THEN Beyond ELSE IF o >= FileEnd(fd) THEN Zero ELSE <<fd, o>>

\* Mutant: the whole last page is cleared.
ClearedPage(m) == {a \in Within(m) : m.clear # 0 /\ a >= m.addr + m.length - Size}
Cleared(m) == {a \in Within(m) : a >= m.addr + m.length - m.clear}

MmapFile(m) ==
  LET bad == {a \in Cleared(m) : FileByte(m, a) = Beyond \/ ~m.w}
  IN /\ image' = [a \in DOMAIN image |-> IF a \notin Within(m) THEN image[a]
                                          ELSE IF a \in Cleared(m) THEN Zero ELSE FileByte(m, a)]
     /\ atBase' = IF atBase = Top THEN m.addr ELSE atBase
     /\ stage' = IF bad = {} THEN stage ELSE "killed"

MmapAnon(m) ==
  /\ image' = [a \in DOMAIN image |-> IF a \in Within(m) THEN Zero ELSE image[a]]
  /\ UNCHANGED <<atBase, stage>>

Mapped(m) ==
  /\ IF m.anon THEN MmapAnon(m) ELSE MmapFile(m)
  /\ writable' = (writable \ Within(m)) \cup (IF m.w THEN Within(m) ELSE {})
  /\ UNCHANGED fd

Starts == script[pc].op = "start" /\ stage' = "started" /\ UNCHANGED <<fd, image, writable, atBase>>

\* _start() of the loader.
Load ==
  /\ stage = "load" /\ pc' = pc + 1
  /\ \/ Open
     \/ script[pc].op = "mmap" /\ Mapped(script[pc].m)
     \/ Starts
  /\ UNCHANGED <<objs, mappings, script>>

LoadInit ==
  /\ objs \in {p \in Programs : AnyTail \/ \A k \in DOMAIN p : p[k].trailer # 0}
  /\ mappings = <<>> /\ script = <<>> /\ pc = 0 /\ fd = 0
  /\ image = [a \in 0 .. Top - 1 |-> Nothing] /\ writable = {} /\ atBase = Top /\ stage = "extract"

LoadNext == ExtractLoadInfo \/ TransferLoadScript \/ Load
LoadSpec == LoadInit /\ [][LoadNext]_loadVars

------------------------------------------------------------------------------
(* Properties                                                                *)

LoadTypeOK ==
  /\ stage \in {"extract", "transfer", "load", "started", "killed"}
  /\ atBase \in 0 .. Top /\ fd \in 0 .. Len(objs)

Segment(k, i) == objs[k].segs[i]
Bytes(from, to) == {a \in 0 .. Top - 1 : from <= a /\ a < to}

SegmentsInPlace ==
  \A k \in DOMAIN objs : \A i \in DOMAIN objs[k].segs :
    LET s == Segment(k, i) base == LoadBase(k) + s.vaddr
    IN /\ \A a \in Bytes(base, base + s.filesz) : image[a] = <<k, s.offset + a - base>>
       /\ \A a \in Bytes(base + s.filesz, base + s.memsz) : image[a] = Zero
       /\ \A a \in Bytes(base, base + s.memsz) : a \in writable <=> s.w

\* brk(2) puts the heap at the end of the last mapping of the program.
HeapAbove ==
  LET last == mappings[1][Len(mappings[1])]
  IN \A i \in DOMAIN objs[1].segs : LoadBase(1) + Segment(1, i).vaddr + Segment(1, i).memsz <= last.addr + last.length

BaseTold == Len(objs) = 2 => atBase = LoadBase(2) + Down(Segment(2, 1).vaddr)

\* A program that starts finds in its memory what elf(5) says: of every segment, of the program and of its interpreter,
\* the bytes of the file, then zeroes up to its size in memory, and nothing that a page, rounded up, of another segment
\* has brought.  The heap will be above all of it, and AT_BASE is the address of the interpreter.
LoadedAsElf == stage = "started" => SegmentsInPlace /\ HeapAbove /\ BaseTold

\* The loader is not killed by its own writes, if the segments that have to be cleared are writable: it clears no byte
\* that its mapping does not have.
LoaderSurvives ==
  stage = "killed" => \E k \in DOMAIN objs : \E i \in DOMAIN objs[k].segs :
                        ~Segment(k, i).w /\ Segment(k, i).memsz > Segment(k, i).filesz
==============================================================================
