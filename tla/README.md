# PRoot in TLA+

TLA+ modules, TLC runs and TLAPS proofs for PRoot, the user-space `chroot` this
repository carries (`src/proot/`, with the Doki daemon and extensions beside it).
PRoot is a single-threaded debugger: it follows every process of a session
("tracees") with `ptrace(2)`, stops them at their syscalls, rewrites arguments
and results, and emulates the syscalls a host refuses. What is hard in it is not
the rewriting but the *order*: of the stops of one syscall, of the stops of
several processes, of the debuggers it emulates inside of the session, of the
semaphores it emulates for programs that wait on one another, of the renames that
stand for a hard link. And the algorithms that everything else relies on: how a
path is resolved through bindings, a program loaded, a filter compiled, an
identity changed. Paths below are relative to `src/proot/src/` unless they start
with `src/`.

## 1. Inventory

| Component | State | Operations | Interacts with | What is hard | What makes it correct |
|---|---|---|---|---|---|
| Event loop and stages (`tracee/event.c`, `tracee/seccomp.c`, `syscall/syscall.c`, `syscall/chain.c`) | per tracee: `status`, `seccomp`, `sysexit_pending`, `restart_how`, `seccomp_already_handled_enter`, `restore_original_regs`, `suppressed_signal`, `chain`, `sysnum_workaround_state`; per program: the order kernels report a seccomp event in | `handle_tracee_event`, `restart_tracee`, `translate_syscall`, `chain_next_syscall`, `restart_syscall_after_seccomp` | the kernel (stops), every other component (called from the two translations) | entry and exit stops look alike; acceleration removes some; kernels differ; chains and restarts add stops the program never asked for; signals come in the middle | each syscall of the program translated once before it runs, its exit handled once when it has to be, chains executed once and in order, no signal of the default case inside of a chain, none lost |
| Tracee table (`tracee/tracee.c`) | list of `Tracee`: `parent`, `running`, `terminated`, `sigstop`, `exe`, `as_ptracer`, `as_ptracee` | `get_tracee`, `new_child`, `terminate_tracee`, `free_terminated_tracees`, `remove_tracee` | event loop, ptrace emulation, extensions | a child stops before its parent's fork event; entries refer to one another and are freed | no dangling parent or ptracer, counts agree, no process left stopped |
| Emulation of ptrace and wait (`ptrace/ptrace.c`, `ptrace/wait.c`) | `waits_in`, `wait_pid`, `nb_ptracees`, `zombies`; two events per ptracee (`event4.proot`, `event4.ptracer`), `tracing_started`, `options` | `translate_ptrace_exit`, `translate_wait_enter/exit`, `handle_ptracee_event`, `attach_to_ptracer`, `detach_from_ptracer` | tracee table, chain, event loop | a wait that is partly the kernel's and partly PRoot's; death of either side at any step | no lost wake-up, each termination told once, every stopped ptracee has somebody to restart it |
| System V IPC (`extension/sysvipc/`) | objects (semaphore sets, queues, memory) and per tracee `wait_reason`, `wait_state`, `chain_state`, `status_after_wait`; files held by a helper process | `semop`, `semctl`, `msgsnd`, `msgrcv`, `shmat`..., `sysvipc_wake_tracee`, the callback's stages | chain, signals (`SIGSTOP` used as a wake-up), tracee table, helper | blocking calls emulated by a `ppoll` that is interrupted; objects removed under waiters; signals and deaths of waiters; a `shmat` made of four chained syscalls | `semop` is atomic, a wake-up is matched by one wait, removed objects fail their waiters, a process maps the segment it asked for |
| Emulated heap (`syscall/heap.c`) | `heap->base`, `heap->size` shared by `CLONE_VM` tracees | `translate_brk_enter/exit` | registers, `clone` and `execve` | two halves of a syscall with state shared by threads | base and size describe the mapping the kernel made |
| Syscall arguments (`syscall/enter.c`, `exit.c`, `socket.c`, `sysnum.c`) | none of its own | one case per syscall | paths, memory, extensions | what each asks of the stages | (in the stages) |
| Paths and bindings (`path/`) | two ordered binding lists, glue directory, working directory | `translate_path`, `detranslate_path`, `canonicalize`, `substitute_binding`, `initialize_bindings` | every path argument | recursion through symlinks, `/proc` and bindings; order of bindings; places that do not exist | a tracee sees what it would see if the bindings were mounts; the host is left as it was |
| Program execution (`execve/`, `loader/`) | `exe`, `host_exe`, `load_info`, `qemu`, `host_ldso_paths` of a tracee; the load script | `translate_execve_enter/exit`, `expand_shebang`, `expand_runner`, `transfer_load_script`, the loader | stages, heap, ptrace emulation | two phases, may fail between; arrays resized and rewritten in place; pages rounded in two programs | arguments as `execve(2)` says; what is remembered is of the program in memory; memory as `elf(5)` says |
| Fake root (`extension/fake_id0/`) | `Config` per tracee: real, effective, saved, file system ids; modes lent to a call (`ctx`) | `SETXID` and its like, `stat`, `chown`, `override_permissions` | file system, stages | saved identifiers through sequences of calls; modes of shared files changed and restored | identity rules of the kernel; modes come back |
| link2symlink (`extension/link2symlink/`) | the file system itself: names, intermediates, final files whose name ends in a count | `move_and_symlink_path`, `decrement_link_count`, `handle_sysenter_end`, `translated_path` | file system, stages | several renames per call; PRoot's part at the entry, the kernel's later; killed in between | names behave as hard links |
| Kernel compatibility (`extension/kompat/`) | actual and announced release | `handle_sysenter_end`, `handle_sysexit_end`, chained `fcntl`s | chain | arguments move; flags are set by later calls | a call of the announced kernel works |
| Seccomp filters (`syscall/seccomp.c`) | merged list of syscall numbers, BPF program | `merge_filtered_sysnums`, `set_seccomp_filters` | stages | flags of several lists, jumps computed from counts, ABIs that share an architecture | every listed number reported, with the union of its flags, and no other |
| Doki daemon, protocol (`src/doki-proot-main.c`, `src/daemon/`, `src/ipc/`) | client slots with buffers, the command being run | `select` loop, requests, `handle_exec` | PRoot as a child process | requests cut by reads, two pipes and a death in any order, clients that come and go | one answer per request, the output of a command before its end |
| Extension framework (`extension/extension.c`) | ordered list of extensions of a tracee | `notify_extensions`, `inherit_extensions` | everything | the first non-zero status hides the event from the others | configurations shared or private as asked |
| Port switch, hidden files, rlimit, others | tables | callbacks on the stages | | | each local to one syscall: not modelled |
| Registers, memory, command line | none | accessors, parsing | kernel | | not modelled: pure I/O |

## 2. Plan

| # | Modules | Question | State |
|---|---|---|---|
| 1 | `SyscallStages` | Does PRoot know, at every stop, where in a syscall the tracee is? | done; every safety property of its run is a theorem |
| 2 | `PtraceEmulation` | Can debuggers, debuggees and their parents live and die in any order? | done; `Relations` is a theorem |
| 3 | `SysVWait`, `SysVSem` and `SysVMsg` over it; `SemaphoreSets`, `MessageQueues`, `SysVSemSets`, `SysVMsgQueues` | Are emulated semaphores atomic, is a message received once, and is every wait ended? | done; the safety properties of both, but the refinements, are theorems |
| 4 | `SysVShm` | Does a process map the segment that it asked for, and does it go when unused? | done; both safety properties are theorems |
| 5 | `Link2Symlink`, `HardLinks` | Do names made of symbolic links behave as hard links, and survive a kill? | done |
| 6 | `Paths`, `Bindings` | Is a path resolved as if the bindings were mounts? | done |
| 7 | `Heap`, `FakeId`, `DacOverride`, `Execve`, `LoadScript`, `Filters`, `Kompat`, `Daemon` | one component each, section 7 | done, theorems about `Heap`, `FakeId` and `DacOverride` |
| 8 | `StagesAndWait` | `SysVWait` composed with `SyscallStages`: a signal suppressed while the `ppoll` of a wait runs, the `SIGSTOP` of a wake-up on hosts that cannot change a syscall number | left |
| 9 | `Extensions` | Inheritance and notification of the ordered list; two of the extensions above together | left |

Theorems to prove next, in this order: the wake-ups of `PtraceEmulation` (`WaitsAreAnswered`), over the lemmas about its
handlers in `PtraceEmulationProofs`; `ProgramSeen` of `Execve`. Section 8 says what stays with TLC.

Three runs put several small components side by side: `stages` two kinds of hosts, `files`
and `programs` components that do not interact. In these a variable `part` says which
component a behaviour exercises; the others keep still.

## 3. SyscallStages: one tracee and the stops of its syscalls

**State.** `t` holds the fields of `Tracee` that follow the stages, under short names:
`status`, `seccomp`, `pending` (`sysexit_pending`), `how` (`restart_how`), `last`
(`last_restart_how`), `handled` (`seccomp_already_handled_enter`), `skip`
(`skip_next_seccomp_signal`), `restore` (`restore_original_regs_after_seccomp_event`),
`suppressed`, `chain`, `wa` (`sysnum_workaround_state`). `global` holds the two static
variables of `handle_tracee_event()`. `k` is the kernel: where the tracee is, the mode it
was resumed in, the gates (`sysenter`, `seccomp`) the syscall still has to pass, the
syscall an instruction pointer moved back to the trap will make (`queue`), a pending
`SIGSYS`, the number of signals sent. `h` is history: how often the current syscall was translated at its
entry and its exit, which chained syscalls were registered and which ran, which signals
were delivered. `host` is chosen once: kernel before or after 4.8 (`new`), seccomp filter
accepted or not, a policy that refuses syscalls, refused syscalls whose exit is not
reported (`skip`), 32-bit ARM, hosts on which a syscall number can be changed at its entry.

**Actions.** Each action of `Tracer` is one turn of `event_loop()`: `handle_tracee_event()`
for one kind of stop, with everything it calls, then `restart_tracee()`.

| Action | Code |
|---|---|
| `SysenterStage`, `SysexitStage` | `SIGTRAP \| 0x80`, with `translate_syscall()`, `chain_next_syscall()`, redelivery, and the "disabled seccomp" case |
| `SeccompEvent` | `PTRACE_EVENT_SECCOMP`, with the detection of the order at the first one |
| `SigSysEvent` | `SIGSYS`: the exit stage if it was skipped, then `handle_seccomp_event()` |
| `SignalEvent` | the default case |
| `BareSignalEvent` | signals that are delivered as they come: a bare `SIGTRAP`, a `SIGSTOP`, a `SIGSYS` of no filter |
| `ExecEvent`, `ForkEvent` | the `PTRACE_EVENT_*` stops inside of a syscall |
| `ProgramCall`, `QueuedCall`, `EntryGate`, `FilterGate`, `Execute`, `ExitGate`, `SigSysStop`, `SignalStop` | the kernel, external: the stops the code expects of it |

What a handler decides (the fate of the call, whether it asks for the exit stage, what it
chains) is data: `EnterOutcomes` and `ExitOutcomes` enumerate what the handlers of a
kind of syscall may do, from the filter lists of `syscall/seccomp.c` and of the extensions.

**Runs.** `stages` checks hosts that report the exit of a refused syscall and hosts that
do not, twelve kinds of syscalls (one for each combination of flags in the filter lists), chains of
two syscalls and one signal; on the hosts that skip exits no syscall disables the
acceleration (`MCSpec`; section 9 says what happens otherwise). `stages_live` checks that syscalls
end and that a suppressed signal is redelivered, on fewer kinds and on hosts that report exits.
`two_signals` shows the single slot losing a signal.

| Property | What would violate it |
|---|---|
| `HandledOnce` (`Confined`, `ExitHandled`) | a filtered syscall that reaches the kernel untranslated, or translated twice; an exit that had to be handled and was not, or was twice |
| `ChainsInStep` (`InStep`, `Fifo`) | a tracee back in its own code while PRoot believes it inside a syscall, a chain or a restart; a chained syscall run twice, never, or before an earlier one |
| `FollowedAsDecided` (`AssertionsHold`, `FollowedOnceDisabled`) | one of the four assertions of `handle_tracee_event()`; a tracee without acceleration resumed with `PTRACE_CONT` |
| `QueueAnnounced`, `NoSignalInsideChain` | a signal of the default case delivered between two syscalls the program did not make (`BareSignalEvent` delivers others there: section 10) |
| `NoSignalLost` | a suppressed signal forgotten (with at most one: it holds) |
| `SyscallsEnd`, `Redelivery` | a chain without end, a signal kept for ever |

*Bounds.* `MaxChain = 2` is the least that tells a queue from a stack; a chain may be
registered in two parts and around a replaced syscall, which makes three. `MaxSignals = 1`
suffices for an order of a signal with each stop; the state space has no bound on the number of syscalls:
history is reset at each one, so the runs are complete for any sequence of them.

*Fairness.* `WF(Kernel)`: a syscall that was made goes on; `WF(Tracer)`: PRoot handles a
stop. The first is what a kernel does with a runnable process, the second is the loop of
`event_loop()`, which returns only when no tracee is left. No fairness is given to
`SignalStop` or `ProgramCall`. The run abstracts from syscalls that block for ever.

## 4. PtraceEmulation: tracees that debug, fork, wait and die

**State.** `tr` is the `Tracee` structures by pid, `list` the list they are chained in (its
order decides who is woken first), `kn` the processes of the kernel: where each is, the
event it is stopped by and whether PRoot has collected it, the operation in progress, its
parent, a pending `SIGSTOP`, and the deaths it was told of. `crashed` records an assertion or a
`NULL` pointer. A step of PRoot (`HandleEvent`) handles one result of `waitpid(-1)` whole: state is passed as a
record through operators named for the functions: `HandleSimpleEvent`,
`HandlePtraceeEvent` (with `ProotEvent`, `Started`, `NoSignal`), `GetTracee`, `NewChild` (with `Inherit`, `AttachChild`, `StartChild`), `TranslateWaitEnter`, `TranslateWaitExit`, `TranslatePtraceExit`,
`HandleSysexit`, `RestartTracee`, `RemoveTracee`, `FreeTerminated`.

**Programs** are sets of operations a process may call, in any order and number up to `Fuel` for all: fork,
exit, `raise`, the `ptrace` requests, `wait` and its `WNOHANG` form. The kernel's own `wait`
runs beside PRoot's, as in the code: PRoot lets the kernel wait, or replaces the call.

**Run** `ptrace`, two families of programs in one run. "cont": a debugger that attaches to its child, or a
child that makes itself traced, with a grandchild; nobody is killed. "options": `TRACEFORK`,
`TRACEEXIT`, `PTRACE_SYSCALL`, detach, and a `SIGKILL` from outside at any step.

| Property | Family | What would violate it |
|---|---|---|
| `Relations` | both | a count of ptracees and zombies that is off; a parent or ptracer that was freed |
| `WaitsAreAnswered` | `NoLostWakeup` in both, `WaitsForTheLiving` in "cont" | a ptracer kept in a wait beside an event it waits for, or after its last ptracee |
| `EndsTold` | `ToldOnce` in both, `StatusNotLost` in "options" | a termination told twice, or to nobody |
| `HeldOrFree` | "cont" | a process kept stopped that no fork event and no ptracer will restart |
| `AllEnd` | "cont" | processes left in a wait or a stop when nothing can happen any more |

*Bounds.* Three processes is the least that has a debuggee's child (the `TRACEFORK`
inheritance, a parent that is not the ptracer). `Fuel` 5 lets a debugger fork, attach,
continue and wait while the debuggee does one thing ("options" has 4); each process always exits at
the end, for free. One kill at any step.

*Fairness.* None. Programs are finite, so every run ends; "nobody is left behind" is an
invariant over the states where nothing can happen any more (`Quiescent`). Deadlock is not
checked for that reason: the system really stops.

## 5. SysVWait and what waits with it

`SysVWait` is `sysvipc.c`: a blocking call becomes a `ppoll(2)`, `sysvipc_wake_tracee()` ends
it with a `SIGSTOP` that `handle_tracee_event()` ignores, or cancels it when it has not been
made. `cf` is `SysVIpcConfig` (and `tracee->sigstop`), `ke` is what the kernel knows. Calls
arrive from an entry stop or from the `SIGSYS` of a policy (`Paths`), which
take different ways. `SysVSem` adds `ipc_namespace->semaphores` and the handlers, `SemCheck` being
`sysvipc_sem_check()` and `CheckOthers` the loop that does the operations of waiters. A loop over the list of tracees goes
over `Order`, dead ones included: their `SysVIpcConfig` is fresh, so that every loop passes them over.

**The promise.** `SemaphoreSets` says what `semop(2)` promises, without PRoot: sets, pending
calls, results; a call that waits is settled at once and whole, or interrupted without
effect, or ended by a removal. `SysVSemSets` maps one to the other: a call is
pending until its result is decided, which may be long before the tracee sees it
(`status_after_wait`). The run `semaphores` checks `KeepsPromises` (`Semaphores!Spec`). In it one step of
PRoot may settle several calls, in the order of some sequence (`Settles`); a `RMID` may
leave calls of its step unended only if they were made but not yet handled (`early`).

| Property | What would violate it |
|---|---|
| `KeepsPromises` | half of a `semop` done; a result that does not say what happened; a waiter served from the next set of a slot |
| `WaitsAreSound` (`AssertionsHold`, `WakeupsTaken`, `WaitersHaveSets`, `NobodyFeasible`) | one of the assertions on `wait_state` and `wait_reason`; a program stopped by the `SIGSTOP`, or a woken tracee left in its `ppoll`; a waiter of a removed set; a waiter whose operations are possible (without `SETVAL` and without waiters that acquire and release at once, section 9) |
| `WaitsEnd` | a woken tracee, or one with a time limit, that never gets its result |

*Bounds.* Three tracees: one that releases and two that wait, so that the order of the
list matters; one slot with two semaphores of value 0 or 1 (a `semop` that is half possible);
generations of -4 to 3 (`HalfGen`), which four removals overflow; one tracee that may be killed.

*Fairness.* `WF(Progress(p))` per tracee: its stops are handled, the restarted call is made, a pending
signal ends a `ppoll`, and a time limit expires. Not that calls are handled, nor that
anybody releases, nor signals or deaths. Deadlock is off: all tracees may be dead or
waiting for one another.

### SysVMsg: message queues over the same waiting

`SysVMsg` has `ipc_namespace->queues` and the handlers of `sysvipc_msg.c`. A receiver that waits
is not handed its message: `msgsnd` marks it (`chain_state`, here `retry`), wakes it, and it
runs `msgrcv` again at the stop where it takes its result (`RetryAtEnter`, `RetryAtExit`). In between,
others run. `MessageQueues` is the promise: a receiver gets the oldest message it accepts,
whole, or nothing; `SysVMsgQueues` maps a woken receiver to one whose call is still
pending. "Oldest" is what the code does for a negative filter too; `msgrcv(2)` says lowest type first.

The run `messages` has a queue that stays, in which a receiver that was woken may find nothing
or another message, and a queue that is removed under its receiver. `message_retry` removes the
queue somebody was woken for: the assertion on the second try fails (section 9). `WaitsAreSound`
says that a receiver sleeps beside a message it accepts only while
another one was told of it (`NobodyOverlooked`), and that no waiter is left behind by a removal
(`ReceiversHaveQueues`). It holds of two receivers that live and have room, as those of the run; with three of them it depends
on which messages they share. The conditions are stated in the module (`Survive`, `Roomy`, `Alike`, and `QueuesStay` for the
assertion), and section 8 proves that they suffice.

*Bounds.* One sender suffices: what matters is who was woken and who comes first at the
queue. `MaxItems = 2` (a message may be sent while the queue holds fewer) is the least in which the
oldest message is not the only one. `IntBits = 4` keeps types small, `HalfGen = 4` generations. The liveness of
woken tracees is checked in `semaphores`, over the same `SysVWait`.

### SysVShm: shared memory and the helper

A segment is a file that a helper process holds open. `shmat(2)` of a tracee becomes a
`socket`, and PRoot chains `connect`, `recvmsg` and `mmap` behind it (`ShmatChain`, one step
per exit stop); between `connect` and `recvmsg` PRoot writes a request to the helper, which pairs
the oldest request with the oldest connection (`Helper`). A tracee that finds another one in its
chain waits in a `ppoll` (`waits`). `segs` and `maps` are PRoot's tables, `memory` what the kernel has
mapped, `open` what the helper holds; the actions for the kernel are external.

The run `shared_memory`, two processes and one that is forked, two segments, any number of calls, signals to
a waiter: `MappingsAgree` says that PRoot's mappings, the pages and the files agree whatever came
between, a `fork`, an `execve`, an exit, an `IPC_RMID`: a process maps the segment it asked for, and `shmdt` finds every
page. The helper pairs requests and connections by order alone; that this goes well is the doing of the waiting, which
keeps one tracee at most in the chained calls, and is assumed (`Spaced`) where it does not. `RemovedWhenUnused`: a segment
that `IPC_RMID` was called on goes with its last user. An interrupted wait leaves its pending mapping, whose address is
`LEFT` then: it keeps the segment of that wait, and no other. `WaitersServed`: who waits for the helper gets it, if it is not
overtaken for ever; the newest tracee comes first, and without this condition the property fails (section 9).

*Bounds.* There is none on the calls: `MaxMaps` bounds how many mappings a process has at a time (two for the forked one, one each for the others) and
`MaxRemovals` how often a slot is freed (once: there are two segments in all, each removed or not). `Interrupts = {1}`: signals end the waits of
one tracee. *Fairness:* the helper and the syscalls under way go on. *Assumed,* and see section 9: `Spaced` (no `shmat` starts while another one is in
its `socket`), no `mmap` that fails, no `execve` that fails after its translation, no tracee killed inside of
a call.

## 6. Files: link2symlink, bindings, access

The run `files` exercises one of three components per behaviour.

**`Link2Symlink`.** `fs` is the host: a name, an intermediate `.l2s.a0001` or a final file
`.l2s.a0001.0002`, as paths of one, two or three parts. `Enter` is what PRoot does at the entry of a
syscall: the list of its `rename`s, `unlink`s and `symlink`s is computed (`EnterEnd`), of which
`Enter` does all and `Killed` a prefix. `Kernel` does what is left of the call later, `ExitStat` and `Return` the rest; other
tracees come in between. `HardLinks` is the promise, without symbolic links: a name is that of one file,
`link` adds one, a file is kept as long as it has a name. `KeepsPromises` is the
refinement: a name is gone, or moved, once the `unlink` or `rename` was entered; `rename(2)` leaves no moment without the new
name; `open` and `stat` of a name that exists succeed, and `stat` counts exactly.
`LinksCounted`: the digits of a final file count its names, and no file is lost, doubled or left over.
`KeepsFiles`: a kill of PRoot in the middle of its renames loses no file that a name leads to.

*Assumed,* and see section 9. `Disciplined`: programs do not race on one name and make no call that fails half-way, a
`rename` does not replace a name of the same file, `linkat(2)` from a descriptor is to a free name. `Apart`: nobody opens or stats a
file while a call of somebody else changes its names; calls that change names of one file do overlap.
*Bounds.* Three names and two files are the least in which a final file is renamed (a link of a link),
a name moves from one file to another, and one file's last name goes while another stays.

**`Paths`, `Bindings`.** `world` has the two ordered lists of bindings, the host tree and the working
directory. `NewBinding` reads an option, `InitializeBinding` canonicalises it and builds the glue,
`InitializeCwd`, then lookups: `Lookup` (a path), `LookupAt` (relative to a descriptor, whose directory PRoot
names anew from `/proc`), `Chdir`, `Readlink`, `Creat`, and `Exit`, which removes the glue.
`Canonicalize` and `Translate` follow the code's recursion; `Namei` is the reference, the walk of a kernel in which
bindings are mounts, written without them. `LikeMounts`: the first binding of the list is the deepest, whatever the order of options; a path leads
where `Namei` leads, or fails as it does; a path relative to a descriptor or to the working directory leads where the path that
opened it did; what `readlink` says leads where the link leads. `GlueFits`: every binding can be reached, and the host is
left as it was. `LookupsCreateNothing`.

*Bounds.* Six command lines (a binding inside of another, in both orders; on a link of the rootfs, dereferenced and not;
behind two missing directories; below a file, which fails; `/` itself; `..` in the guest path), 25 requests (a link out of a binding, into
one, to itself, through `/proc/self`, through `..` after a link, relative ones), two requests per
session. Links may nest to `MaxSymlinks`. The tree is fixed; `Swaps` is empty.

**`DacOverride`.** With `-0`, PRoot adds the missing bits to the modes of the files on the way of a path (`OverridePermissions`)
and puts them back at the next event of the tracee (`Flush`), newest first and by name. `AccessLent`: once no
call is under way each file has the mode that programs gave it, a call is refused nothing, and `stat` tells
the mode that programs gave. A tracee may be killed before the kernel has executed its call: the modes come back all the
same, and in a `chmod(2)` the file gets the mode that was asked for, since the node to be restored holds it
(`DacKilled`; `given` counts such a `chmod` as made if it shows). One tracee and one call at a time, no rename of what PRoot has opened, `stat(2)`
alone, and no event of seccomp between the translation at an entry stop and the call, at which the modes would
come back too early (`Overlapped`, `Moves`, `Asks`, `EntryStops`: section 9).

## 7. Programs: what is done for them beside their files

The run `programs` exercises one of seven components per behaviour.

| Module | State and actions | Property | Bounds and assumptions |
|---|---|---|---|
| `Heap` (`syscall/heap.c`) | `heapOf`, `heaps`: the shared structs; `spaceOf`, `pages`: the kernel's. `BrkEnter`, `KernelBrk`, `BrkExit`; `HeapClone`, `ExecveEnter`, `KernelExecve`, `ExecveExit`, `HeapExit`, `MapOther` | `HeapSound`: who shares memory shares its heap (`SharedWithMemory`), what `brk` told a program is mapped (`HeapBacked`). `HeapPrivate`: nobody changes the heap of another memory | two tracees, half pages, so that rounding shows; `Limit` 8 leaves three pages, one of them taken by `MapOther` so that a heap fails to grow. Not `Concurrent`: a thread does not call `brk` inside of another's; not `Foreign`: no QEMU; no `vfork(2)` (`Clones`), whose child shares the memory and gets a copy of the struct: section 9 |
| `FakeId` (`fake_id0.c`) | `config`; one action per call of `SETXID`, `SETREXID`, `SETRESXID`, `SETFSXID`, `SysexitStart` (bits of a program) | `IdsAsKernel`: a call is refused when `credentials(7)` refuses it and leaves the identifiers that Linux would leave (`KernelSetXid`, `KernelSetReXid`, `KernelSetResXid`; `LikeTheKernel` names two answers that differ, and `Dropped` the tracees of `-0` that are refused nothing: section 9; the file system identifiers are not compared), what is told agrees, own files are own. `NoRaise`: a tracee that was not started by `-0` and has given up its privileges for good never gets them back; one of `-0` may at any time | three identifiers are the least in which real, effective and saved differ; `-i 0` and another. Not `RealOnly`: no `setreuid(r, -1)` |
| `Execve` (`execve/`) | `tracee`: `exe`, `load_info`, `qemu`...; `TranslateExecveEnter` (scripts, runner, `LD_LIBRARY_PATH`), the kernel, `TranslateExecveExit`, the loader | `ArgvAsKernel`: the arguments are those of `execve(2)` through any chain of scripts and runners, in arrays resized in place. `ProgramSeen`: `exe`, the masking of the loader from a ptracer, and the library path are of the program in memory, also after calls that failed. The library path: no foreign program gets that of a host program with the paths of QEMU (`LikeQemu`); with those of another one it does, section 9 | eleven paths: scripts of scripts, a loop, a missing interpreter, two host programs of which one has an `RPATH`, an unreadable one; 0 to 2 arguments; with and without `-q`. `Faults = {"leave"}`: a debugger leaves |
| `LoadScript` (`execve/enter.c`, `exit.c`, `loader/`) | `ExtractLoadInfo`, `TransferLoadScript`, `Load` (one statement per step) over an `image` of bytes | `LoadedAsElf`: each byte of each segment is the file's or zero, the heap is above, `AT_BASE` is the interpreter's. `LoaderSurvives` | 12 688 programs: one or two segments at every offset of pages of two bytes, position independent or not, with an interpreter or not. A file goes on after its last segment (not `AnyTail`) |
| `Filters` (`syscall/seccomp.c`, `sysnum.c`) | `MergeFilteredSysnums`, `AddArchSection`, `FinalizeProgramFilter`; `Runs` is the kernel's interpreter of BPF | `FiltersHear`: for each architecture and number the installed filter answers what the lists ask that PRoot started from (`wanted`), so that neither the merge nor the jumps lose one | two architectures, one with two ABIs, every table of two numbers, three sets of lists |
| `Kompat` (`kompat.c`) | `HandleSysenterEnd`, `Kernel`, `HandleSysexitEnd`, `ChainNextSyscall` | `AsAnnounced`: the older call gets its arguments by role wherever they moved to, and the descriptors have the flags asked for once the chain is over. `pselect6` and `epoll_pwait` are left out of the first (`Incompatible`): section 9 | kernels 2.6.15 to 40 around each release the tables name, announced 17 and 40, architectures without older calls; one call (`MaxCalls = 1`) |
| `Daemon` (`src/doki-proot-main.c`; `src/daemon`, `src/ipc` where they differ) | `Select`, `Accept`, `Receive`, `Messages`, `ExecSelect`, `ReadPipe`, `Reap`, `Exited`; clients and the command: `Connect`, `Send`, `Leave`, `Write`, `CommandEnds`, `Terminate` | `Answered`: each request once, in order, however chunks cut it, the output of a command before its end | two clients, four traffics (requests that share a chunk, that are cut, one longer than the buffer, `shutdown` before another); a command writes at most what one `read` takes (`Outputs`), clients stay (`Leaves`) |

The heaps and the clients are model values with symmetry; no property is a liveness property, so it is sound. These
components are sequential but for `Heap` (threads), `Daemon` (clients and the command) and `Execve` (a debugger): for
the others "model checking" is exhaustive comparison with a reference over bounded inputs. Deadlock is off
because programs, sessions and the daemon end.

## 8. Proofs

Each theorem holds for every value of the constants that satisfies the assumption of its module
(`StagesAssumption` and `NumbersAssumption`, `PtraceAssumption`, `WaitAssumption` and `SemAssumption`, `MsgAssumption`, `ShmAssumption`, `HeapAssumption`, `FakeIdAssumption`,
`DacAssumption`), which TLC evaluates in the runs of that module. What a theorem assumes beyond it is in the third column; each such
assumption is needed, and section 9 says what TLC finds without it.

### SyscallStages

`SyscallStagesProofs`: any kinds of syscalls, any hosts, chains and signals without bound.

| Theorem | Statement | Assuming |
|---|---|---|
| `TypeCorrect` | `Spec => []TypeOK`; with it, `restart_how` is always set when a tracee is restarted (the assertion of `restart_tracee()`), since `Restart` stores it in `last` whose type excludes "none" | |
| `AlwaysAnnounced` | `Spec => []QueueAnnounced`: an instruction pointer moved back is always remembered | |
| `SignalsOutsideChains` | `Spec => NoSignalInsideChain`: no signal of the default case is delivered inside of a chain or a restart; those of `BareSignalEvent` are | |
| `SignalsNotLost` | `Spec /\ []OneAtATime => []NoSignalLost` | no signal comes while another one is suppressed (`OneAtATime`): the run `two_signals` |
| `EachHandledOnce` | `Spec /\ []Spared => []HandledOnce` | `OrderlyHandlers`, `Spared` |
| `AlwaysInStep` | `Spec /\ []Spared => []ChainsInStep` | the same |
| `AlwaysFollowed` | `Spec /\ []Spared => []FollowedAsDecided` | the same |

*Types.* `IInv == TypeOK /\ QueueAnnounced` is inductive, and neither half is without the
other: the type of a queued call comes from the chain, and that a handler leaves no
queue unannounced depends on the values `restart_how` and the queue may have. Each operator of
the model has a lemma about its outcome (`TranslateExitType`, `SysTrapExit`,
`SeccompOutcome`...): given fields of the right type it returns fields of the right
type *and* announces what it queues. `RestartStep` carries such an outcome over to the next state;
each action has a step lemma that names its outcome; `NextStep` puts them together.

*Order.* That PRoot takes an entry for an entry and an exit for an exit follows from no field alone. `OrderInv` relates
three things at every stop: the place of the kernel with the gates it has still to open, the mode in which the
tracee was resumed, and the fields of the tracee. Its parts: `KernelPlaces` (which gates are left on old and on new kernels),
`OrderKnown` (the static variables of `handle_tracee_event()`), `Followed` (`PTRACE_CONT` only for an accelerated tracee of
which nothing is expected), `Staged` (`status` tells before the entry from after it), `Refused` (what a pending `SIGSYS`
says), `QueueKinds` and `CallKinds` (what is queued or chained, and whose call the current one is), and the history
that the properties speak about. `OrderNext` has one lemma per action; `OrderHandles`, `OrderSteps` and `OrderFollows` derive
the three properties.

*What is assumed of the handlers.* `OrderlyHandlers` says two things. A handler that chains syscalls is neither the one of `utime`
that restarts another syscall (`Again`) nor the one of a syscall that a policy refuses (`Traps`): in the code those that chain
do so after a success (`getdents`, `fstat`, the descriptors of kompat), and the restarts of `tracee/seccomp.c:130-531` are
syscalls of another number, whose handlers may chain (`RestartedAs` is unrestricted: the `shmat` of a refusing host, which is
restarted as a `ppoll`, is inside of the theorem). And a handler that changes the number of a syscall asks for its exit, or every host
can change it: the code meets this but for `shmdt`, and `ftruncate` and `memfd_create` on ashmem, whose filters have no `FILTER_SYSEXIT`
(`extension/sysvipc/sysvipc.c:30`, `ashmem_memfd.c:31`), on hosts where the number cannot be changed: there section 9 applies. `Spared` excludes
`PTRACE_TRACEME` on hosts that report no exit of a refused syscall: section 9 again.

### PtraceEmulation

`PtraceEmulationProofs`: any number of processes and any programs.

| Theorem | Statement | Assuming |
|---|---|---|
| `RelationsHold` | `Spec => []Relations` | |

No step is excluded: a process may attach to its parent, to its child, or to one whose creation is still being followed; it may be killed at
any step; and the events in which an assertion of the source fails (section 9) are inside of the theorem, up to the assertion.

*The invariant* is `PtraceInv`. Its core, `Related(s, x)`, is stated of a state of PRoot in the middle of an event, not only between two
events, because each handler is proved to keep it: the lists, counters and links of `s`, where `x` is the tracee that `remove_tracee()`
has taken from the list and not done with yet (`None` elsewhere). While `x` leaves, others may still name it as parent or ptracer
(`Known`), and if it has a ptracer itself it is still counted there (`Leaving` in `Counted`). The order in `remove_tracee()` matters:
only when no child and no ptracee names `x` (`Clean`) may its structure be freed (`ForgetRelated`), and before that
`x` is either detached, which takes it off the count, or turned into a zombie, which keeps the count (`BecomesZombie`).
`StoppedByEvent` and `ForkedAChild` are what the kernel contributes: who is stopped is so by an event, and a fork event names a child.

*The argument.* A handler of PRoot either touches no relation (`Calm`: the most of them, one lemma each), or keeps the list and all
relations (`Keeps`), or makes the list grow (`Extends`: the fork event and the first event of a process). `AttachKeeps`,
`DetachKeeps` and `ZombieStatusKeeps` count. The loops over the list, over the ptracees of the one that leaves and over those that have
terminated, are recursive functions of the place in the list: `Recursion` shows that such a function exists and
`Counting` carries a fact along it. `Released` and `Passes` are these facts: a ptracee once released keeps no ptracer, and what
has left the list does not come back while it is walked.

### SysVSem

`SysVSemProofs`: any number of tracees, sets, semaphores and calls, and any list of tracees.

| Theorem | Statement | Assuming |
|---|---|---|
| `WaitsInStep` | `Spec => [](TypeOK /\ AssertionsHold /\ WakeupsTaken /\ WaitersHaveSets)` | |
| `NobodyWaitsInVain` | `Spec /\ []Lowers => []WaitsAreSound` | `TakesOrGives`: a `semop` acquires or releases, not both; `Lowers`: no `SETVAL` raises a value that is waited for. `MCPrograms` meets both (its one `SETVAL` sets 0); section 9 has what happens without them |

`Sound` is inductive alone. `Phase` relates where the kernel has a tracee to `wait_state`, `wait_reason` and the pending `SIGSTOP`: without
it a wake-up could not be shown to find the tracee on its way into or in the `ppoll`, nor the exit of the
`ppoll` to find a result. `Fits` says that who waits has a set. `AllBlocked` adds that no wait is in vain; it is kept
because one pass over the list is enough: who takes leaves less than there was (`TakersLower`), and with less, who could not
go on still cannot (`StillWaits`), so those that were looked at before sleep on (`OthersSleepOn`). That needs induction over the
operations of a call and over the list: `Steps` is a function of how many elements were handled, `Recursion` shows that it exists, and
`Counting` (a least counterexample) carries a fact along it. `Near(p, i, s)` are the sessions that a pass may lead to: some
waiters woken, the values of the set `i` changed, all else as in `s`.

### SysVMsg

`SysVMsgProofs`: any number of tracees, queues, messages and calls, and any list of tracees.

| Theorem | Statement | Assuming |
|---|---|---|
| `ReceiversInPlace` | `Spec => [](TypeOK /\ ReceiversHaveQueues)` | |
| `OnlyRemovalsFail` | `Spec /\ []QueuesStay => []AssertionsHold` | `QueuesStay`: no queue is removed between the wake-up of a receiver and its second try: the run `message_retry` |
| `OneWakeupIsEnough` | `Spec /\ [](Alike /\ Roomy /\ Survive) => []WaitsAreSound` | `Survive`: a receiver that was woken lives until it looks again; `Roomy`: it has room for what it accepts; `Alike`: of three or more receivers that meet at a queue, those that share a message accept the same ones. Section 9 has what happens without each |

The three conditions of the last theorem are invariants of the run `messages`, so the theorem covers all of that run; and they leave
in what the run has not: any number of receivers of the same messages, kills of whoever was not woken, removals at any time.
The second one says more than that the run `message_retry` finds nothing else: the assertion of the second try is the only one of
the extension that a message can make fail.

`Sound` is inductive alone: `Phase` is the relation of `SysVSemProofs` between the kernel and the wait, `Fits` says that who waits has a queue,
and `Proper` that who is to try again has been cancelled or signalled, with `EAGAIN` as its status and the arguments of a call that
may wait. That nobody is overlooked is not inductive: that another receiver was woken for a message does not tell what is left when
that one has taken an older message. `Enough` counts instead. Either there are as many woken receivers that accept the same as there are
messages that the sleeping one accepts, and each second try takes at most one of both (`EnoughTaken`, `EnoughMissed`); or there is one
such message, which a woken receiver finds first. The second case is that of two receivers that differ: whoever takes another
message leaves this one first in line for the woken one (`FoundRemoved`). A message that is sent adds one of each (`EnoughWoken`), and
here `Alike` is used. The cardinalities need finite sets (`FiniteProcs`: all tracees are in the list).
TLC found `Enough` invariant on three receivers before it was proved, and found the execution without `Alike` of section 9.

### SysVShm

`SysVShmProofs`: any number of tracees, segments and calls.

| Theorem | Statement | Assuming |
|---|---|---|
| `MemoryAccounted` | `Spec => []MappingsAgree` | `Spaced`, `~ExecFails` |
| `SegmentsFreed` | `Spec => []RemovedWhenUnused` | the same and `~MapFails` |

They say more than the run: any number of tracees and segments and mappings, signals that end any wait, tracees killed at any step (`Kills`), and for the first one mappings that fail. `SegmentsFreed` exempts of
an interrupted wait only its own mapping: whatever was interrupted before, any other segment goes with its last user. `Agreed` is the
invariant. Requests and connections are paired by order alone, so the proof has to know that one
tracee at most is in its chain (`OneChain`), and that what a dead tracee left in the two queues is paired before what the living
one adds (`Exchange`: only the newest connection may be of somebody who lives, and its request is the newest). `Stage` relates where the
kernel has a tracee to `chain_state`, `Got` what it received to the segment of its call, `Placed` its call to the pending mapping,
`Counted` each page to a mapping or to the call under way, with an address the kernel has not given twice. `Tabled` relates the table to the files of the
helper. `Pended`, for the second theorem: a mapping without an address is that of the call of its process which is under way, or the one that an interrupted wait has left (`LEFT`).
TLC found `Agreed` and `Pended` invariant on three tracees and two segments before they were proved.

### Heap

`HeapProofs`: any number of tracees and any sizes.

| Theorem | Statement | Assuming |
|---|---|---|
| `HeapTypeCorrect` | `HeapSpec => []HeapTypeOK` | |
| `SharingFollowsMemory` | `HeapSpec => []SharedWithMemory` | `~Foreign`, no `vfork(2)` |
| `HeapsArePrivate` | `HeapSpec => HeapPrivate` | `~Foreign`, `~Concurrent` |
| `HeapsAreSound` | `HeapSpec => []HeapSound` | `~Foreign`, `~Concurrent`, no `vfork(2)` |

`HeapTyped` adds to the type what the exit of a call relies on (`CallOK`): the length of an `mremap(2)` holds the
page that the exit takes off it, so the size stays a natural number. `Shared` says that who shares a heap shares its memory, and the other way round
but for children of `vfork(2)` (`Follows`): the first half is all that `HeapsArePrivate` needs, which holds with them. It adds that a tracee
between the `execve(2)` of the kernel and that of PRoot (`Fresh`) has memory of its own; without it the step that
replaces its heap would not re-establish the equivalence. `OneAtATime` says that nobody else with the heap of a caller is in a call:
otherwise `BrkExit` of one thread could write into the heap of another one whose memory `execve(2)` has just replaced.
`Backed` follows a heap through a call: before the kernel has answered the pages are those of the noted heap, afterwards those of the heap
that `translate_brk_exit()` is about to note, whoever shares it (`BackedFor`).

### FakeId

`FakeIdProofs`: any set of identifiers and any option `-i`.

| Theorem | Statement | Assuming |
|---|---|---|
| `FakeTypeCorrect` | `FakeSpec => []FakeTypeOK` | |
| `DroppedForGood` | `FakeSpec => NoRaise`: an unprivileged tracee only gets identifiers that it holds already, but by the bits of a program. A tracee of `-0` is always privileged (`initial`): the theorem says nothing of it | |
| `IdentitiesAsLinux` | `FakeSpec => []IdsAsKernel`: results and refusals are those of `credentials(7)`, but for the refusals to a tracee of `-0` that is no longer root and the two answers of `LikeTheKernel` | `~RealOnly`; `HostId` and all identifiers below `Half` |

The invariant is `config \in Configs`. Each `set*id` call has a lemma: what it leaves (`Outcome`) are
identifiers, and those of an unprivileged caller are among the three it held. -1 needs care: it is
no identifier, so it never gets into a `Config`, and a call that means "unchanged" leaves the old one. That identifiers are below
2^16 is needed because `getresuid` writes half words only (section 9).

### DacOverride

`DacOverrideProofs`: any number of tracees, names and files.

| Theorem | Statement | Assuming |
|---|---|---|
| `AccessIsLent` | `DacSpec => []AccessLent` | `~Overlapped`, `~Moves`, `~EntryStops`, `Asks = {"stat"}` |

Section 9 has what happens without each of the four. Between two calls every file that can be reached has the mode that programs gave it (`AsGiven`);
during a call `Lent` says which modes differ and that the collector holds just these: the directory, then the file, which
gets back what it was given, or what `chmod(2)` is about to give it (`Due`), whether the kernel executes the call or its caller is killed. `OneName` is needed for `unlink` and `rename`: a file
that PRoot has opened must not be reachable by another name when the restoration goes by names. The order of the restoration
shows in `AllRestored`: the file is found only while the directory is still open.

### What stays with TLC

- Liveness: `SyscallsEnd`, `Redelivery`, `WaitsEnd`, `WaitersServed`, `AllEnd` and the like are out of the reach of the proof system.
- What recursive operators compute for every input: `Bindings`, `SemaphoreSets`; induction over data is out of its reach too, and a
  module that reaches such an operator loses the SMT solver. With it the refinements `KeepsPromises` of `SysVSemSets` and `Link2Symlink`.
- The wake-ups and terminations of `PtraceEmulation` (`WaitsAreAnswered`, `EndsTold`, `HeldOrFree`): they relate the emulated wait
  with the place and the history of every process of the kernel, and the theorem about `Relations` is only the first part of their invariant.
- `AsAnnounced`, `FiltersHear`, `LoadedAsElf`, `ArgvAsKernel`: comparisons of a function with a reference, where the
  tables, programs and paths are the instance and the function is a fold over them.
- `Answered` of `Daemon` and `LinksCounted` of `Link2Symlink`: what they say is a count or a filtered sequence of the whole history
  or file system, defined by recursion.

## 9. Where the code and its own words disagree

Four have a run of their own and an entry under `findings`:

| Run | What happens |
|---|---|
| `two_signals` | a second signal during one chain overwrites `suppressed_signal`; the first is lost |
| `semaphore_left` | `SETVAL` makes the operations of a waiter possible, nobody looks |
| `message_retry` | `IPC_RMID` between the wake-up of a receiver and its second try: `assert(queue->valid)` fails and the session ends |
| `daemon_aborts` | `handle_exec()` of the daemon frees the arguments of a command twice |

The others were met while modelling. Each is reproduced by checking the named property with the
given constants, other constants as in the named configuration, and, where a definition or an exception is named instead, with that changed. A property that a passing run checks
as a part of another one is meant as it is defined in the component's module; those of an instance (`Exec!`,
`Seccomp!`...) are stated, with their `part`, in a module that extends the MC module.

| Configuration | Property | Constants | What happens |
|---|---|---|---|
| `SyscallStages.cfg`, `SPECIFICATION Spec` | `FollowedOnceDisabled` | `Hosts <- MCSkipping` | the exit of `PTRACE_TRACEME` handled from a `SIGSYS` does not pass by the "disabled seccomp" code: the tracee goes on with `PTRACE_CONT` and its syscalls are not translated |
| | `ChainTriggered` | `Hosts <- MCReporting`, `Substs = {"open"}` | a replacement chained at the entry of a syscall whose exit is not asked for stays in the chain |
| | `ChainsInStep` | `Hosts <- MCReporting`, `Substs = {"open", "semop"}` or `{"accept", "semop"}` | the same, one syscall later: the chain left behind is run at the exit of another syscall, or PRoot is a stage behind the kernel |
| | `HandledOnce`, `ChainsInStep` | `Again = {"utime", "getdents"}` or `Traps = {"accept", "utime", "getdents"}` | a handler that chains syscalls at the exit of one that a policy refuses, or restarts as another: its chain is mixed up with the restart |
| `StagesLive.cfg` | `Redelivery` | `Hosts <- MCSkipping` | a chain that ends in a `SIGSYS` redelivers no signal |
| `Ptrace.cfg`, `SPECIFICATION OneSpec` | `HeldForPtracer` | `MCOptions`, `Fuel = 5`, `MaxKills = 0` | a ptracer dies after it was told a stop of its ptracee and before it continued it: the ptracee is never restarted |
| | `RestartHowSet` | `MCCont`, `Fuel = 4` | a ptracer continues a ptracee it has not waited for and dies: `assert(tracee->restart_how != 0)` fails |
| | `StatusNotLost`, `ParentKnown` | `MCTraceme`, `Fuel = 4` | the kernel collects a child that became a ptracee meanwhile; an orphan's `PTRACE_TRACEME` dereferences `NULL` |
| | `ChildUnattached` | `MCStranger`, `Fuel = 3` | `ATTACH` to a child whose fork event is not handled yet: the sanity checks of `new_child()` fail |
| | `ZombiesFound` | `MCChild`, `Fuel = 5` | a wait goes to the kernel although a zombie matches |
| | `HeldForFork` | `MCCont`, `Fuel = 1`, `MaxKills = 1` | a parent killed before its fork event leaves the child stopped |
| | `WaitsForTheLiving`, `DeadDontWait` | `MCCont`, `Fuel = 3`, `MaxKills = 1` | a ptracer waits for a process that is already dead; `restart_tracee()` keeps a killed ptracer at its exit event because it was waiting |
| `SysVSem.cfg` | `IdentifiersFind` | `HalfGen = 2`, programs `Delete(0)` and `Delete(1)` | the generation becomes negative and no identifier finds the set |
| `SysVMsg.cfg` | `NobodyOverlooked` | `Mortal = {3}`, or a receiver `Rcv(1, 1, 1, {"EXCEPT"})` | a woken receiver that dies, or whose buffer is too small, leaves the message in the queue; the others sleep on |
| | `NobodyOverlooked` | three receivers of one queue, `Rcv(1, 1, 2, {})`, `Rcv(1, 0, 2, {})` and `Rcv(1, 2, 2, {})`, in this order | the second one is woken for "b" and takes "a", for which the first one was woken; "b" stays in the queue beside the third one, who accepts it |
| | `KeepsPromises` | a message of type 18 | types are compared as `int`: a type beyond its width is received by a filter for another type |
| `SysVShm.cfg` | `MappingsAgree` | `Spaced = FALSE` | two tracees find nobody in the chain, both make their `socket`: requests and connections are paired wrongly |
| | `MappingsAgree` | `ExecFails = TRUE` | the mappings are dropped at the entry of an `execve` that then fails |
| | `RemovedWhenUnused` | `MapFails = TRUE` | the mapping of a failed `mmap(2)` keeps its segment, its address an error number |
| | `WaitersServed` | `Kills = TRUE` | a tracee killed in its chain wakes nobody |
| | `NobodyStarves` | as they are | the newest of those that wait is served first (`extension/sysvipc/sysvipc_shm.c:272-285`): two newer tracees that call `shmat` in turn keep an older one waiting for ever |
| `Files.cfg`, links | `NothingLost` | `Programs <- MCSelf`, `Disciplined = FALSE` | a file renamed to itself |
| | `CountMatches` | `Disciplined = FALSE` | a `rename(2)` that the kernel refuses has already cost a link; two tracees race on one count |
| | `KeepsPromises` | `Disciplined = FALSE` | a `rename` between two names of one file takes the first away, `rename(2)` does nothing then; `linkat(2)` from a descriptor onto a name that exists replaces it instead of failing |
| | `KeepsPromises` | `Apart = FALSE` | a path is translated to the final file, another tracee's `link` or `unlink` renames it, and the `open` or `stat` of a name that exists fails |
| `Files.cfg`, bindings | `LookupsCreateNothing` | `CommandLines <- MCFailing` | when the only binding fails to be initialised, the glue stays enabled |
| | `ResolvesAsMounted` | `Swaps = {<<"r", "l">>}` | a link replaced between `lstat` and `readlink` |
| `Files.cfg`, access | `ModesRestored` | `Moves = TRUE`, or `Overlapped = TRUE` with two `Users` | modes are restored by name: a file renamed meanwhile stays open; a second call saves the lent mode |
| | `AccessGranted` | `EntryStops = TRUE` | `get_tracee()` frees the collector (`tracee/tracee.c:321-342`) at the event of seccomp of a call that was translated at its entry stop already (`tracee/event.c:499-504`, `567-577`): the modes come back before the kernel executes it, and it is refused |
| | `ModeTold` | `Asks = {"statx"}` | only `stat` is left alone: `statx(2)` tells the lent mode |
| `Programs.cfg`, heap | `HeapPrivate`, `SharedWithMemory` | `Foreign = TRUE` | a child made by `clone(2)` with `CLONE_VM` (as `posix_spawn` does) that runs a foreign program disables the heap of its parent and keeps sharing it |
| | `SharedWithMemory` | `Clones = {"fork", "thread", "vfork"}` | `vfork(2)` reaches `new_child()` as `CLONE_VFORK` (`tracee/event.c:623-625`), whose flags are read for `clone` and `clone3` alone (`tracee/tracee.c:400-406`): the struct is copied (`460-462`) though the child shares the memory; `HeapPrivate` holds |
| | `HeapBacked`, `HeapPrivate` | `Concurrent = TRUE` | two threads in `brk`: the size is that of the last to leave |
| identities | `IdsAsKernel` | `Dropped(c) == FALSE` | a tracee of `-0` that has set its three identifiers to 1 gets 0 back: `initial_euid` counts as privilege (`extension/fake_id0/fake_id0.c:92`, `152`, `210`), contrary to the manual quoted above it (`88-91`) |
| | `IdsAsKernel` | without the two exceptions of `LikeTheKernel` | `setuid` to the effective identifier alone is not refused; `setreuid(e, s)`, for which the code asks "Is it possible to ... at the same time?" (`150-151`), is |
| | `IdsAsKernel` | `RealOnly = TRUE` | `setreuid(r, -1)` changes the saved identifier differently from the manual it quotes |
| filters | `Seccomp!OthersForbidden` | as they are | the last statement allows what the comment says it forbids |
| loader | `LoaderSurvives` | `AnyTail = TRUE` | the loader clears a page beyond the end of a file |
| execve | `Exec!LibraryRestored` | `LikeQemu(p) == IsHostElf(p)` | only the first library path of the host is remembered (`execve/ldso.c:575`) and compared with (`125`): the one of a host program with an `RPATH` is left to the foreign programs it runs, contrary to `549-551` |
| | `Exec!LibraryRestored` | `Libraries = {"unset"}` | a library path that was not set is not taken away again |
| | `Exec!ProgramsStart` | as they are | the notification that ends the load script for a debugger, which has left meanwhile, kills the program |
| | `Exec!RunnerHolds` | as they are | a call with no argument and a runner: an index of `resize_array_of_xpointers()` out of range |
| | `Exec!LoadKnown` | as they are | a failed `execve` leaves the load info of another program, or none |
| | `Exec!HearsTheProgram` | `Faults = {"refused"}` or `{"attach"}` | the masking of a loader that never ran hides syscalls of the program; one attached during the load hears the loader |
| kompat | `Older!ArgumentsKept` | as they are | `select` gets the `timespec` of `pselect6` and reads it as a `timeval` (`extension/kompat/kompat.c:476-489`), `epoll_wait` and `select` are called without the mask of signals (`220-228`) |
| | `ResultIsOwn` | `MaxCalls = 2`, `Kernels = {26}` | the forced result of a chain is given to a later call |
| daemon | `Server!ShutdownStops` | `Servers = {"daemon.c"}` | the acknowledged shutdown does not end the loop |
| | `Server!DaemonSurvives` | `Leaves = TRUE` | an answer to a client that has gone: `SIGPIPE` |
| | `Server!OutputTold`, `Server!LinesWhole` | `Outputs <- MCLarge` | a command that ends with more than a `read` in its pipe loses the rest; large output does not fit an answer |

Plain from the text, without a model:

- System V: a `semtimedop` whose time limit expires returns `EINTR`; "only sysvipc_wake_tracee function should
  set this to WR_NOT_WAITING" (`sysvipc_internal.h:160`) is contradicted by `sysvipc_semop_timedout()` and `sysvipc_semop()`.
- Identities: `getresuid` writes 16 bits of each identifier; `AT_EUID` is set before the set-uid bits are looked at;
  `execve` does not update the saved and file system identifiers; the `setuid` of a `-0` tracee that is not
  root sets the effective one alone; `chroot` reads `path_guest` uninitialised on one path.
- Execution: `exe` is not committed for programs under QEMU; the argument of a shebang line that ends the file
  without a newline is dropped; `execveat` with a directory is `ENOSYS`; an object without `PT_LOAD`
  has no mapping to take the base of; `AT_EXECFN` is `argv[0]`.
- Bindings: two missing directories share one glue directory; several bindings of one host path are ambiguous on the way back;
  `/proc/self/root` is a host path; the trailing slash of the target of a link is lost.
- Daemon: what overflows a buffer is dropped without an error; a command blocks all other clients; `SIGTERM` during a
  command tells exit code 0 while it runs; `config` stores nothing.

## 10. What is not modelled

Components with status `not_modelled` or `partly` in `PROJECT.json` say why. Inside the modelled ones:

- `SyscallStages`: what the handler of a bare `SIGTRAP`, a `SIGSTOP` or a `SIGSYS` of no filter does when it is delivered inside of a chain
  (the delivery is modelled, the program then goes on with the chain); the `POKEDATA` workaround of old ARM64 kernels; which syscalls `SIGSYS`
  emulates or restarts (any may be); clone of the stages into a child; kernels of the old order that
  report the exit of a refused syscall (none is known to the code).
- `PtraceEmulation`: threads, `CLONE_PARENT` and `__WALL`; `PTRACE_SEIZE`, `INTERRUPT` and
  group stops; requests on memory and registers; the syscalls of the loader; `SIGCHLD`; reuse of
  a pid; `waitid`, and waits for a process group.
- `SysVWait`, `SysVSem`, `SysVMsg`: hosts that cannot change the number of a syscall (the `SYSCALL_CHAINED_*`
  events); `IPC_STAT` and statistics; errors on the memory of a tracee; `fork` inside a session; `SETALL` (refused by the
  code) and the commands that only read. `SysVShm`: threads, a helper that fails, `SHM_RDONLY` and given addresses.
- `Link2Symlink`: several directories, symbolic links of programs, statuses other than success or failure.
- `Bindings`: bindings added while the session runs, extensions on `GUEST_PATH` and `HOST_PATH` (but for
  `DacOverride`, on its own), the f2fs workaround, limits of lengths, `which()`, the rest of `temp.c`.
- `Heap`: the parent that `vfork(2)` holds until its child is done.
- `FakeId`: `chroot`, credentials on sockets, descriptors opened again, the meta-files of the USERLAND build.
- `Execve`, `LoadScript`: the auxiliary vector but `AT_BASE`, executable stacks, ELF parsing, threads that call `execve`.
- `Filters`: which calls the lists name; the limit of a program's size.
- `Kompat`: `uname`, the auxiliary vector, the flag of `futex`, `dup3` of equal descriptors, a `fork` between a call and the `fcntl` behind it.
- `Daemon`: the syntax of JSON, descendants that keep pipes open, an `exec` without a command, the listen backlog.

## 11. Running

```
tlc -workers 2 -config SyscallStages.cfg MCSyscallStages.tla   # any run of PROJECT.json
tlc -workers 2 -config Files.cfg MCFiles.tla
tlc -workers 2 -config Programs.cfg MCPrograms.tla             # the longest, some minutes
tlapm SyscallStagesProofs.tla     # and PtraceEmulationProofs, SysVSemProofs, SysVMsgProofs, SysVShmProofs, HeapProofs, FakeIdProofs, DacOverrideProofs
```

Each property of a passing run has a *mutant* in `PROJECT.json`: an operator defined before
the one it stands for, that changes it as a plausible mistake would (`RestartSticky`,
`WakePtracerNever`, `SemCheckPartly`...). With it in place, TLC finds the property violated.
