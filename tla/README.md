# A TLA+ model of os5

os5 is a small x86 operating system in C: a kernel of about 4600 lines for one
processor, a tar image as root file system, a port of newlib, and a handful of
user programs (`init`, `sh`, `terminal`, `signal`, ...). This directory models the
parts of the kernel whose correctness depends on the order of events. All source
paths below are relative to `src/`.

## 1. Inventory

| Component (source) | State | Operations | What must be right |
|---|---|---|---|
| Lists (`kernel/include/lists.h`) | `prev`, `next` of every node | `init_list`, `append_to_list`, `remove_from_list`, `for_each_in_list` | rings stay closed; a node is on one list |
| Scheduler (`kernel/proc/scheduler.c`) | run queue, waiting lists, thread states | `scheduler_insert/cheat/remove/next/sleep/wake` | no thread lost or queued twice; wake terminates |
| Threads (`kernel/proc/thread.c`) | `thread_t`, saved kernel contexts, the stack in use | `new_thread`, `clone_thread`, `free_thread`, `clean_threads`, `switch_kernel_thread` | the stack in use is never freed |
| Processes (`kernel/proc/process.c`) | process list, family tree, threads, state | `fork_process`, `exit_process`, `free_process`, `switch_process` | tree well formed, reaped once, right address space |
| Signals (`kernel/proc/signals.c`) | signal queue, handlers | `signal_process`, `handle_signals`, `return_from_signal` | each signal reaches its process, interrupted threads resume |
| Process system calls (`kernel/syscall/sys_process.c`) | - | `fork`, `exit`, `execve`, `waitpid`, `kill`, `signal`, `yield`, `thread_fork` | blocking calls return, exit does not |
| Interrupt path, timer, page faults (`kernel/arch/idt.c`, `kernel/drivers/timer.c`, `kernel/fault/page_fault.c`) | tick counter | return to user mode, `timer_tick`, `page_fault_handler` | fairness, no endless loop with interrupts off |
| Physical memory (`kernel/mem/pmm.c`) | stack of free pages in free pages | `pmm_init`, `pmm_alloc_page`, `pmm_free_page` | a page has one owner |
| Pipes (`kernel/fs/pipes.c`) | ring buffer, open counts, waiting list | `pipe_open/close/read/write` | no byte lost or reordered, no lost wakeup |
| Memory areas (`kernel/mem/procmm.c`, `kernel/syscall/sys_mem.c`) | sorted areas, copy on write sharing | `new_area`, `split_area`, `glue_area`, `share_area`, page faults, `sbrk` | areas disjoint, shared pages copied before a write |
| Page tables (`kernel/mem/vmm.c`, `sbrk` of `kernel/syscall/sys_mem.c`) | page directories and tables, end of the kernel heap | `vmm_page_touch`, `vmm_page_set`, `vmm_clone_pd`, `sbrk`, the kernel's own page faults | all directories agree on the kernel's part, user parts are separate |
| File descriptors (`kernel/syscall/sys_fs.c`) | descriptor tables with user counts | `open`, `close`, `dup`, `dup2`, `pipe`, `read`, `write` | a node lives as long as it is referred to |
| Virtual file system (`kernel/fs/vfs.c`) | mount tree, node use counts | `vfs_namei`, `vfs_mount`, `vfs_readdir`, `vfs_free` | paths lead to what they name, nodes live while they are used |
| tar file system (`kernel/fs/tarfs.c`) | tree of entries, at most one inode for each, its users | `tar_finddir`, `tar_readdir`, `tar_get_inode`, `flush_tar` | the two counters of an inode meet at zero |
| ELF loader (`kernel/proc/elf.c`), keyboard, debug device, boot | descriptors and mounts set up once | `load_elf`, `keyboard_init`, `kinit` | the system starts in a state the rest expects |
| serial port, screen, descriptor tables, assembly | - | device input and output | - |

How they interact: everything in the kernel runs with interrupts off
(`enable_interrupts` in `idt_handler` is commented out and the gates are
interrupt gates), so a handler runs until it returns to user mode or calls
`schedule()`, a software interrupt that saves the kernel stack of the caller and
continues that of another thread. The calls of `schedule()` are `waitpid`,
`yield`, `_exit`, `pipe_read`, `pipe_write`, `handle_signals`,
`return_from_signal`, `page_fault_handler` and `timer_tick`. These are all the
places where kernel code of two threads interleaves, and the hard behaviours are there:
state read before and used after them (`waitpid`), handlers that run on the
stack of another thread (`idt_handler` for a thread that has not run yet,
`signal_process` for a sleeping thread), the freeing of threads that sleep or
have others sleep on them (`exit_process`, `clean_threads`), and lists that are
walked while they change (`scheduler_wake`). `PROJECT.json` lists the hazards
with their lines.

## 2. Modules

| Module | Models |
|---|---|
| `Scheduler` | scheduler.c as operators on queues of threads |
| `Process` | threads, processes, signals, their system calls, the timer and user page faults; the core of the project |
| `MCProcess` | instances of `Process` for TLC |
| `SchedulerProofs` | what the operators of `Scheduler` do to the members of queues; induction on the size of a finite set |
| `ProcessSafety` | proofs about `Process`: type correctness, lists match thread states, nothing freed is used, address spaces, reaping |
| `ProcessFamily` | proofs about `Process`: the process tree, and that the kernel reaches no dead end |
| `KList` | the pointer assignments of lists.h under the operations of scheduler.c, and the refinement mapping to `ThreadQueues` |
| `ThreadQueues` | abstract specification: queues of threads, with the operators of `Scheduler` |
| `KListProofs` | the lists are closed, separate rings, and implement `ThreadQueues` |
| `Pmm` | pmm.c |
| `PageAllocator` | abstract specification: a page is handed out only while nobody uses it |
| `MCPmm`, `PmmProofs` | memory maps for TLC; proofs, including the refinement of `PageAllocator` |
| `Areas` | procmm.c with the page table entries and frames behind the areas, the page faults, and the system calls that change memory |
| `PrivateMemory` | abstract specification: every process has a memory of its own, which a fork copies |
| `MCAreas` | instance of `Areas`, its symmetry |
| `PageTables` | vmm.c, the kernel's `sbrk`, faults of the kernel on its own heap |
| `PageTablesProofs` | proofs about `PageTables`: shared kernel tables, the reachable heap, separate user pages |
| `Vfs` | inodes, mount tree, path lookup and listing; vfs.c and tarfs.c as operators |
| `Files` | descriptors and the system calls on them (sys_fs.c) over `Vfs`, from the mounts of `kinit` on |
| `FilesProofs` | proofs about `Files`: types, user counts, no dangling inodes, lookups without side effect |
| `MCFiles` | the directories of the image, paths to open, to look up and to check |
| `Pipe` | pipes.c with the threads that read and write |
| `Channel` | abstract specification: a bounded first in, first out channel of bytes |
| `MCPipe` | instance of `Pipe` with its symmetry |
| `PipeProofs` | proofs about `Pipe`, including the refinement of `Channel` |

The layers meet as follows. `Process` uses the queue operators of `Scheduler`.
`KList` shows that the pointers behave as these queues provided no linked node
is inserted, which is the guard `Detached` of its actions; `Process` shows with
`LinkedOnce` that the kernel never does so. `Files` is built on the operators of
`Vfs`. `Areas`, `Files` and `Process` describe the same system calls from three
sides: what `fork`, `execve` and `exit` do to memory, to descriptors, and to
threads and the family. The three parts of a handler touch disjoint state and run
without a `schedule()` between them, so they are checked apart. `Areas` takes
page directories as given, `PageTables` shows how they are made; both take pages
from `pmm.c` for granted, which `Pmm` shows to be a page allocator.

### Process

The state is `thread_t` and `process_t` field by field: `tstate`, `tproc`,
`pstate`, `pthreads`, `parent`, `child`, `older`, `younger`, `sigq`, `handler`,
and `q` for the three kinds of lists a thread's `tasks` node can be on. Three
variables stand for the machine:

- `cpu`, the program counter of the kernel and the locals that are live there.
  `cpu.pc = "user"` is user mode; only then the actions of `User` and the timer
  are enabled.
- `kctx[t]`, the continuation on the kernel stack of thread `t`
  (`thread_t.kernel_thread`).
- `current`, the owner of the stack in use. It differs from the thread that
  `idt_handler` is about to return to when that thread has not run yet, and
  `current` in the C code is computed from the stack pointer in the same way.

Handlers that run to completion without `schedule()` and without a loop of
interest are one action (`Fork`, `ThreadFork`, `Signal`, `Execve`). The others
are cut where the code blocks or frees: `Exit`, `FreeOther`, `ExitDone` for
`_exit`; `Waitpid`, `WaitTest`, `FreeOther`, `FreeAdopt`, `AdoptNext`,
`AdoptDone`, `FreeDone` for `waitpid` and `free_process`; `Kill`/`PageFault`,
`Handle...`, `CheckWaiting`, `SignalSent` for `signal_process`; `CleanFree`,
`SwitchTo` for `switch_kernel_thread`. `Schedule` is the part of
`switch_kernel_thread` that saves, picks and switches the page directory. The
cuts inside a handler do not add interleavings, since at most one kernel action
is enabled; they keep each action the size of a loop body.

A freed thread or process gets the values of one that was never allocated, and
whoever follows a pointer to it goes to a `halt` state. These states, and the
endless loops of the code (`_exit`, `page_fault_handler`), are listed in `Halts`.

What user programs may do is unrestricted but for what no program of the
repository does and the kernel does not survive. Each such behaviour is a
member of the constant `Misuse`:

| Member | Behaviour | What the model then reaches |
|---|---|---|
| `wait_any` | two threads wait for one process, or for one that is no child | `waitpid` goes on with a freed process (`sys_process.c:288`) |
| `fork_in_handler` | `fork` inside a signal handler or a `thread_fork` thread | `clone_thread` copies the list head `waiting`, and the wakeup at its return follows foreign pointers (`thread.c:91`) |
| `segv_handler` | SIGSEGV handled or ignored | the faulting thread returns behind the `schedule()` in `page_fault.c:84` and loops there with interrupts off |
| `signal_new` | a signal for a process that has not run yet | `_exit` comes back behind its `schedule()` (`sys_process.c:45`): the signal is handled on the stack of another thread, which is finished and scheduled again |
| `signal_burst` | a signal sent to a process that has one pending, or a fault of such a process | the handler thread of the first has not run when the second is looked at: a fatal second signal runs `_exit` on the stack of the interrupted thread, which sleeps (`signals.c:163`) |

Three more guards describe programs: `/bin/init` neither exits nor signals nor is signalled
(`tarfs/src/init.c`), and `execve` is called for programs that exist.
`next_tid`, `next_pid` and the number of signals are bounded by `MaxTid`,
`MaxPid`, `MaxKill`; `Reserved` keeps back thread numbers for the handlers of
signals already queued (SIGKILL has none), so that the bound never disables a step of the kernel.

### KList

Each macro is the sequence of its assignments on a pair of pointer functions, so
that aliasing (an empty list, a list of one, adjacent nodes) is what it is in
memory. An operation of scheduler.c is one action, but for `scheduler_wake`,
whose loop is one step per iteration with its variables `waking` and `cursor`.
The refinement mapping counts the threads still to be moved as being on the run
queue already.

### Pmm

Pages are numbers. `stack` holds the entries between `PMM_PAGE_STACK` and
`pmm_page_stack_ptr`, `backing` the pages mapped below `pmm_page_stack_max`,
and `Entries` is `PMM_STACK_ENTRIES_PER_PAGE`. `pmm_init` runs one page per
step. Addresses are counted in 32 bits (`NextPage`): `pmm_pos`, the test of
`pmm_free_page`, and the loop variable `j`, which over a free region that reaches
the last page starts again at 0. `MapsAssumption` says of the memory map that its
free regions, with the page behind each and after the cut to 32 bits, do not
overlap: pmm.c does not check it, and with an overlap, as that of memory above 4 GB
with low memory, pages are freed twice. `TopReserved` says that no free region
reaches the last page, which on a PC is the firmware's; it is no assumption of the
module but a hypothesis of its theorems and a feature of the maps of the run
`pmm`. Without it the loop of `pmm_init` never ends (`pmm.c:105`): from page 0 on it
frees pages of no free region, and free pages again. The nested
`pmm_alloc_page` of `vmm_page_touch` is part of `pmm_free_page`. `Free` is the
call in `vidmem`; the frees by procmm.c have the same shape, a page that was
handed out and is no longer used.

### Pipe

One iteration of the outer loop of `pipe_read` or `pipe_write`, up to its
`schedule()`, is one step; which ready thread runs next is left open. The
positions are kept modulo `Wrap`, standing for 2^32. Ends are opened and closed
by anybody at any time, since `fork`, `exit` and `close` do so, and a sleeping
thread can be freed (`exit_process`). Reads of size 0, which never return, are
left out (`ReadSizes`), and so is the late opening of `/dev/kbdraw`
(`LateOpen`), after which a reader finds overwritten data.

### Areas

An area is a record of `start`, `end`, `flags` and `ring`; the areas of a process
are a sequence in list order. The functions of procmm.c are operators from a
memory state to a memory state, named as in the code, and each handler is one
action, since none of them calls `schedule()`. `ring` stands for the list
`copies`: areas with the same value are on one ring. Its name is chosen anew at
the end of each step from its first address and owners, so that the number of
rings ever made does not grow the state. The type of an area (data or stack) is
told by its flags, since only the stack grows down.

A page holds the set of the values stored in it since it was made, so that a
copy that loses old content, or a store that reaches a second process, shows. A
new page comes from a pool of its page number: which frame it is does not matter
to any property. Frames that nobody maps are free again; the code leaks those of
a process that has exited, and its page directory, which no property is about.

`Access` retries an instruction after every fault that was handled, as the
processor does, and treats stores of the kernel as not subject to the write
protection of a page: CR0.WP is never set (`boot/boot.S:77-79`).

What the code does not survive, or gets wrong, is kept out by guards that name a
member of `Cases`:

| Member | Behaviour | What the model then reaches |
|---|---|---|
| `deep_stack` | a stack of more than one page | the run `areas_grow` |
| `shared_kernel_write` | `read` or `stat` into a page still shared after `fork` | the run `areas_kernel_write` |
| `shrink` | `sbrk` with a negative argument | a later growth begins inside the area, and `new_area` loops (`sys_mem.c:48`) |
| `video_again` | `vidmem` twice in one process | the second area collides with the first (`procmm.c:47`) |

Further limits: segments are writable (a fork of a process with a read-only
segment writes page table entries through a window that is not loaded,
`procmm.c:70`, halt `window` of the model), and an access that no area allows ends
the process, the part of SIGSEGV that `Process` does not leave to handlers.

### PageTables

A directory maps table numbers to entries, a table maps its pages to absent,
read-only or writable. User tables belong to one directory. Tables of the kernel
are shared: `vmm_page_touch` enters a new one in the loaded and in the master
directory, and the page fault handler copies an entry from the master directory
when a directory lacks it. `vmm_exdir_set` and the two temporary pages are put
back by every function that uses them and are no state between steps. A table is
named by its place and the directory it was allocated for (`Entry`): directories
are never freed, and none has two tables made for one place, so that a new table
has a name of its own; `Named` of `PageTablesProofs` says so and is proved.

The kernel's `sbrk` is three actions: the check, one page of its loop, and the
end. Nothing else runs in between (`goal`). `Sbrk` needs the tables of the pages
it adds in the loaded directory, or nowhere. Most calls meet that: `malloc` has
just read the header of the last chunk of the heap, and where this lies in the
table in which the heap ends, the page fault handler has entered that table. The
other calls, whose last chunk begins in an earlier table while the heap has grown
into the next one under another directory, are the member `cold_heap` of `Cases`:
`vmm_page_touch` then copies the entry of the master directory and clears the
table behind it, with the part of the heap that is in it (`vmm.c:92-95`). With
`Cases = {"cold_heap"}` TLC finds `HeapReachable` violated; no run is kept for it.

### Vfs and Files

`Vfs` has the inodes by identity, with the pointers of the mount tree as fields
(`parent`, `child`, `older`, `younger`), `users` (opens) and, for entries of a tar
image, `refs` (`entry->users`). Paths are sequences of names. `Walk` is the loop of
`vfs_namei_mount`, with the references that each step takes and gives back;
`Replace` is the part that mounts, pointer by pointer. `Files` starts with an empty
tree and runs the mounts, `keyboard_init`, the two `fopen`s and the `execve` of
`kinit` before any system call. Both the image that `tarfs/src/Rules.mk` builds,
which has no `dev/debug` and no `dev/kbdraw`, and one that has them are initial
states: on the first, these mounts fail without notice.

Descriptors are named by one of the slots that share them. A system call is one
action. What is transferred, offsets, and calls that sleep in a pipe are not in
`Files`; `Pipe` has them. A pipe is made under an identity whose two inodes are
free. After a use of a freed inode (`stale`) or with a descriptor to one, nothing
more happens: the properties say when this cannot be.

Known deviations kept out by `Cases`: `root_parent`, the entry `..` of the root,
which is the freed inode the root was mounted on (`vfs.c:280`); `stat_missing`,
`stat` of a path that names nothing, which follows a null pointer
(`sys_fs.c:281`); `pipe_full`, `pipe` with one free slot, which leaves a descriptor
without an inode in it (`sys_fs.c:493`). Two more are in the statements of the
properties. `dup` and `dup2` share a descriptor without opening its inode again
while each `close` closes it, so that counts are right and inodes alive only for
inodes without a duplicated descriptor (`duped`); `terminal_src/terminal.c:301-303`
duplicates both ends of its pipes, and the exit of that child frees them under
the parent. And while a directory is open, lookups through it keep a
reference for ever (`vfs.c:49`), so `LookupNeutral` is about states in which
nothing of an image is open. And `canonicalize_path` follows a null pointer where
`..` is applied to the root (`vfs.c:368-369`); the model stays at the root there, and
no path of the runs does that.

## 3. Runs

| Run | Shows | Bounds |
|---|---|---|
| `process_core` | queues match thread states, nothing freed is queued, current or running, the process tree is doubly linked, user code runs in its own address space, no `halt`, states final once finished | 5 threads, 4 processes, one signal, sent by `kill` (of an ignorable or a fatal kind) or raised by a page fault |
| `process_live` | ready threads run, waiters reap, signals are taken | 4 threads, 3 processes, 1 signal, one that a handler can catch or SIGKILL |
| `process_terminate` | *violated*: a fatal signal for a sleeping process terminates the sender (`signals.c:20`) | 5 threads, 1 signal |
| `klist` | pointer lists implement thread queues, `scheduler_wake` terminates | 3 heads, 4 nodes |
| `pmm` | pages come from free regions and are in one place, the stack fits its storage, panics are honest, `PageAllocator` is implemented | 16 pages, 2 entries per storage page, 4 maps that leave the last page reserved |
| `pipe` | no lost wakeup, no overrun, `Channel` is implemented | 3 threads, 2 slots, counters of 4 values, writes of up to 3 bytes |
| `pipe_live` | readers and writers make progress | 3 threads, 1 slot |
| `areas` | areas stay sorted, rings and page protection agree with what is shared, every page fits an area, the kernel does not halt, `PrivateMemory` is implemented | 2 processes, 7 pages of 5 addresses, one segment, three growths of the heap by 3 addresses |
| `areas_kernel_write` | *violated*: a result stored by a system call reaches the page of another process (`process.c:162`) | 2 processes, 7 pages of 2 addresses, 2 segments page to page |
| `areas_grow` | *violated*: a stack that grows by a second page collides with itself and the kernel halts (`procmm.c:47`) | as `areas_kernel_write` |
| `page_tables` | kernel tables agree, the heap is reachable from every directory, user views are separate | master and 2 directories, 1 user table, 3 heap tables of 2 pages |
| `files` | users of descriptors and inodes are counted, no descriptor dangles, paths resolve, lookups leave nothing behind | 2 processes of 3 slots, 4 in use, 1 pipe besides the keyboard's, 2 images, 1 duplicated inode at a time |

Why the bounds are enough. Four processes allow a parent, two siblings and a
grandchild, the smallest family in which adoption joins two non-empty sibling
lists. Five threads are the boot thread, init, and three that are forked, made
by `thread_fork` or run handlers, so that a process can have a handler thread
and a second thread when it exits. One signal gives a handler thread, or a fatal
signal at any place of the target; a second one for a process that has one
pending is `signal_burst`, and the safety proofs of section 4 hold for any number of
signals, threads and processes. Two entries per storage page and 16 pages let the page stack gain
and lose several pages of storage. Writes longer than the pipe and a `Wrap` of
twice its size make pieces and wrap arounds occur in every order.

Two processes at a time make every ring of copies one of two; processes exit,
are reaped and forked again, from either side, so rings are split by one side,
by the other, and left by either. Rings of three are beyond the bound: with three
processes the states are too many for the other limits to be kept. The heap grows three
times: into a new area (`sys_mem.c:57`), beyond the end of its area into a second
page (`:53`), and within the area (`:48`). It is glued to the segment as long as
neither is shared, and programs write to the page of the segment, so that areas of
one, two and three pages are cut, shared and joined by later growths, in either
process. Three heap tables, with two directories, let the
second directory add a table, the first touch it late, and the heap
reach the next; the user table is cloned before and after it exists. Two
processes of three slots share descriptors over a fork while a third slot opens
and closes. `readdir` lists `.`, `..` and the first entry of what is open, and
`PathsResolve` looks at all entries of all directories on its paths. `MaxRefs` bounds the
references to entries of the images, all together: `kinit` leaves five, and two
more allow a second `execve` of the program with a directory open, two opens of one
directory, or a lookup through an open one.

Deadlock is checked in the `process` and `klist` runs. In the others the system
may really stop: everybody waits on an empty pipe that nobody will write, the
allocator has panicked, or the bounds on slots, references and directories are
reached.

The properties of the passing runs fail with the mutants in `PROJECT.json`, one
per property, each a plausible bug of the definition it changes.

Further disagreements of comments and code were met on the way, which no run is
kept for: the idle thread is put on the run queue like any other thread
(`kinit.c:30`, `thread.c:122`); `free_process` does not set the parent of the
oldest child that init adopts (`process.c:70`, the loop of line 76 stops before it);
the root's parent after the mount over it is the freed old root (`vfs.c:279`);
`pmm_init` frees the page at the end address of a free region, too, which belongs to
the region behind, while `pmm.c:97` speaks of "free pages from memory map" (`Hi` is
that page, and `FromMap` allows it); and `vmm_page_touch` clears a table that it has
copied from the master directory, while `vmm.c:76` says "just copy it" (`cold_heap`).

### Fairness

- `Process`: `WF_vars(Kernel)`, the processor executes instructions; strong
  fairness of `TimerSchedule`, because the interrupt of the timer stays pending while
  interrupts are off and is taken on the return to user mode, however short the
  stays in user mode are. Nothing is assumed of user programs.
- `Pipe`: weak fairness of the next iteration of each thread that is ready, which
  is what `NoStarvation` of `Process` provides.
- `KList`: weak fairness of the loop of `scheduler_wake`.
- `Areas`, `PageTables`, `Files`: none. Their handlers run to their end without
  waiting; that the faults of an access end is `FaultsResolve`, a part of
  `PagesFitAreas`.

## 4. Proofs

`TLC` checks the instances above; the following is proved for all values of the
constants, under the assumptions named in the modules (`BoundsAssumption`,
`ImageAssumption`, `FilesAssumption`, `NodesAssumption`, `EntriesAssumption`, `AddrAssumption`, `MapsAssumption`,
`FirstPosAssumption`, `SizeAssumption`, `ByteAssumption`, `SizesAssumption`).

- `ProcessSafety!TypeCorrect`: `TypeOK` of `Process`. It is not inductive:
  `Head(pthreads[cpu.pr])` is a thread only if `cpu.pr` is a process where
  `cpu.pc` says so. The inductive invariant `TInv` adds that every continuation,
  in `cpu` and saved in `kctx`, is `Sound`: the fields its code dereferences
  hold a thread or a process. `Rest` and `Machine` split it into the part that
  most steps leave alone and the part about the processor; `OnlyCpu`,
  `OnlySchedule` and `OnlySignal` cover the steps that change little, and
  `ScheduleType` everything that ends in `schedule()`. No restriction on
  programs is used: the theorem holds for every `Misuse`.
- `ProcessSafety`: `LinkedOnce`, `QueueMatchesState`, `NoFreedMemberOrHead`,
  `RunningAllocated`, `OwnAddressSpace` and the action property
  `ReapedOnceFinished`, each under the hypothesis `Orderly`, that programs send no
  signal to a process that has not run or has one pending (`signal_new`,
  `signal_burst`). They rest on one inductive invariant, `IInv`, since none of the
  five is inductive alone: a thread is found on the right list only if the
  kernel works on the thread it believes it works on, and that holds because of
  where threads and lists were before. `Tables` relates the lists to the fields of
  threads and processes. Its part `Heads` is why `exit_process` and `free_process`
  may free a thread others sleep on: who sleeps behind a handler is of the same
  process and older than the handler (`Before`), and the loops free the oldest
  first, so that a list is empty when its head goes. `Execution` says what holds at
  each place of the kernel and of each saved continuation; its part
  `NoNewPending` is why a handler is never set up on the stack of another thread:
  no signal is pending for a thread that has not run, except in the very call
  of `handle_signals` that takes it. There is one lemma for each action or
  group of alike actions (`...Step`, `...Steps`), over lemmas on what each
  operation of scheduler.c does to the members of the lists, and `NextI` joins them.
- `ProcessFamily!FamilyTreeSafe`: `FamilyTree`, if in addition programs wait for
  their own children only (`OwnChildren`). The pointers alone do not say that all
  children are found from the youngest, so `Tree` states that there is, for every
  process, a sequence of children in the order of the links; these partition
  the processes other than the first, and each process is younger than the one it
  is a child of (`First`, `Born`, `Links`). During
  `free_process`, `Adoption` says how far the loop over the children has come, and
  `Waiting`, that who waits for a process is a thread of its parent, so that the
  process and the parent are still there when it is reaped. `Parents` has the
  exception that the code makes: the oldest child adopted by init keeps a pointer
  to the freed parent (`process.c:76`). No process waits for that child: init
  waits for the terminal it started, and process numbers are not used again.
- `ProcessFamily!NoHaltSafe`: `NoHalt`, for programs with none of the misuses
  (`Misuse = {}`). To the invariant of the tree, `NInv` adds: no continuation that is
  saved leads to a dead end unless its thread is finished (`Stacks`); a page fault
  handles its own signal, which ends the process, before anything else
  (`OnCourse`, `Defaults`); and a process that runs has a thread of its main
  program until it exits (`Mains`), so that `signal_process` finds one. The
  table in section 2 says where each of the misuses leads instead.
- `PipeProofs`: `TypeOK`; `NoOverrun` and `PipeIsChannel`, that every step of `Pipe` is a
  step of `Channel` or a stutter, for `LateOpen = FALSE`; `NoLostWakeup`, for reads of
  at least one byte (`0 \notin ReadSizes`). Positions are numbers modulo `Wrap`, and the
  lemmas on `%` say that the slots of positions less than a size apart differ, so
  that a write of no more than the room leaves the unread bytes in place. `Sleepers` is what
  makes `NoLostWakeup` inductive: one thread sleeps at most, and the pipe is as it
  was when it went to sleep.
- `KListProofs!ListsAreRings` and `ListsStayApart`: `prev` and `next` are inverse
  in every reachable state, and no node belongs to two rings. The first needs
  only that each operation keeps rings; inside the loop of `scheduler_wake` the
  second is needed as well, namely that the cursor is on the list being woken.
  It is stated with an owner and a rank for each node, which the invariant says
  exist.
- `KListProofs!ListsAreQueues`: every step of `KList` is a step of `ThreadQueues`, or a
  stutter, and the guards of the abstract actions hold when the concrete ones
  run. The mapping `queues` reads each list from its head (`Walk` chooses the
  sequence of threads that the `next` pointers lead through) and counts the
  threads that `scheduler_wake` has still to move as members of the run queue. The
  invariant `Walking` says that there is one sequence for each head (`Listed`),
  that no thread is in two of them or twice in one, that every other thread is
  linked to itself, and that the cursor of the loop is at the first thread still to be
  moved. The lemmas give the sequences after each macro of lists.h; two
  sequences that the same pointers lead through are equal (`FollowsPrefix`), so that `Walk`
  chooses the one the lemmas speak of. Fairness is no part of `ThreadQueues`.
- `PmmProofs`, for memory maps with `TopReserved` (without it `pmm_init` does not
  end): `TypeOK`, `OnePlace`, `StorageFits`,
  `PanicsOnlyWhenEmpty`, `FromMap`, that pages come from free regions, and
  `StackIsAllocator`, that every step of `Pmm` is a step of `PageAllocator` or a
  stutter. `OnePlace` alone is not inductive: during `pmm_init` a page of the map
  could be free already. `IInv` adds that all free pages were visited by the
  loop and lie above `pmm_pos`, and that pages allocated early lie below it.
- `PageTablesProofs`: `KernelTablesAgree` and the action property `UserViewsApart`
  without further hypothesis, `HeapReachable` for `"cold_heap" \notin Cases`. The
  invariant `TInv` is about ownership: the master directory has each kernel table
  that another has (`Shared`), a user table was made for the directory that has it
  (`Own`), whoever a table was made for has it (`Named`), and directories not made
  yet are empty (`Unborn`). `Named` and `Unborn` are why a table that is made and
  cleared is one nobody uses. For the heap, `Warm` says what the loop of
  `sbrk` needs at each of its pages: that no table ahead of it is in the master
  directory but not in the loaded one, because `vmm_page_touch` would clear it.
- `FilesProofs`: `TypesKept`, `UsersCountedSafe`, `NoDanglingInodeSafe` and
  `LookupNeutralSafe`, for any image and any number of processes, descriptors and
  pipes, under the hypothesis `Careful`: `root_parent` and `pipe_full` of section 2 are not
  in `Cases`, and the paths of `stat` and `execve`, which the code looks up as they are,
  have no `..` in them (`open` removes it first). The second half is the same
  deviation as `root_parent`: whether such a path passes `..` of the root depends on the
  whole tree. `stat_missing` needs no exclusion. The instance of the run satisfies
  `Careful`. The inductive invariant `IInv` is `SInv` with what `kinit` has
  done so far. `SInv` says of each inode by itself, unless it is in `duped`, that its users are the
  slots that lead to it and the keyboard driver (`Counted`); that a descriptor
  counts its slots (`Shared`); that no slot leads to an end the driver keeps
  (`Leading`); and that a use of a freed inode needs a close of a duplicated one that came too
  late (`Late`). Counts alone do not survive a lookup, which makes and frees inodes on
  the way, so `SInv` has two parts about the file system: a freed inode is
  blank and the entry of a live one has a reference (`Kept`), and what
  hangs in the mount tree leads to what hangs in it (`Trees`). `vfs_free` leaves
  nodes of the tree alone, which is why a walk meets no freed inode. During
  the boot, `Boot` and `Vacant` describe the tree before each mount exactly, as far
  as it depends on the image at all: the mounts link nodes that nobody holds yet.
  The model's loops over names, slots and mounts are folds. Each is shown to be a sequence of
  rounds (`FoldExists`, `FoldRuns`), by induction with `InductSet`. `Word` lists two literal
  names beside `STRING`, because no backend knows a literal to be a string (`StringPaths`).

`SchedulerProofs!InductSet` is induction on the naturals for a set in place of a
predicate, proved from the finiteness of the intervals. With it, what a fold or a
recursive function computes can be proved although the library's induction theorems
cannot be instantiated here.

One of these proofs failed at first for a reason in the model: with a second signal
for a process that has one pending, `QueueMatchesState` is false (five threads,
four processes, SIGTERM caught and SIGKILL behind it). That is the misuse
`signal_burst`; no program of the repository sends two signals in a row to one
process.

Only model-checked:

- `Files!PathsResolve`. It compares the walk from the root with `Resolved`, which takes
  the mount with the longest path that is a prefix. What is proved of the walk
  is where it can get to, what it frees and what it keeps, not that it ends at this
  inode: that needs the whole mount tree after each mount of `kinit` for every image, and a
  correspondence between `..` in a path and the parents on the way.
- The properties of `Areas`. Their invariant is about folds that split, glue and
  share the areas of several processes at once, with the rings of copies across
  them, and is not proved.
- All liveness, since fairness is out of the prover's reach: `WakeTerminates`,
  `NoStarvation`, `Reaped`, `SignalTaken`, `ReadersServed` and `WritersServed`.

## 5. Not modelled

- Transfer of data and offsets: `read`, `write`, `lseek` of `sys_fs.c`, `read_tar`,
  the debug device and the serial port. A read or write that sleeps in a pipe
  goes on with a descriptor that another thread of the process may have closed
  (`sys_fs.c:253`); no program of the repository does so.
- `vfs_umount`, which nothing calls; `fstat`, `isatty`, `link`, `unlink`, `times`,
  which change no state.
- Parsing: ELF headers and the bytes of the tar image. Their results, segments
  and a tree of entries, are constants.
- The screen, the keyboard's scan codes, boot code, descriptor tables and assembly
  stubs: input and output or machine set-up.
- `semaphore_t`: never contended on one processor with interrupts off. The one
  nested acquisition is in `Pmm`.
- `signal_blocked`, never set by the code, and `switch_handler`, never called.
- Flags of directory entries: `vmm_page_touch` gives a table the flags of its first
  page (`vmm.c:89`), which would make a table read-only whose first page is;
  no program has a read-only area of user memory first in a table.
- Exhaustion of the kernel heap and of physical memory outside `Pmm`.
- User programs and the C library port: clients, whose behaviour is left open
  but for `Misuse`, `Cases` and the bounds.

## 6. Plan

Done, in this order: `Scheduler` and `Process` (the behaviour everything else
depends on), `KList` beneath them, `Pmm`, `Pipe`, with their abstract specifications
and the proofs above; then `Areas` with `PrivateMemory`, `PageTables`, `Vfs` and
`Files`. To come:

1. Proofs about `Areas`: `TypeOK`, `AreasSorted` and `SharingSound`, with `InductSet` for the
   folds over areas, as in `FilesProofs`.
2. The composition of `Files` and `Pipe`: calls that sleep in a pipe while the
   descriptor they came from is closed.
