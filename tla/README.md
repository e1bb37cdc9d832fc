# Verification of the ucore teaching kernel

The repository holds the eight labs of the ucore operating system course, with
the solutions filled in. `src/lab8` is the complete kernel: processes, a stride
scheduler, semaphores and monitors, virtual memory, a file system, and user
programs. lab1 to lab7 are earlier stages of the same code. This directory
models lab8 in TLA+, checks the models with TLC and proves what matters most
with TLAPS. All source paths below are relative to `src/lab8`.

## 1. The system

One x86 CPU. The kernel is not preemptive: another process runs only when the
current one calls `schedule()`, which it does when it blocks, exits, or returns
to user mode with `need_resched` set. Interrupts (clock, keyboard) come whenever
they are enabled, also inside system calls, and make sleepers runnable; code
between `local_intr_save` and `local_intr_restore` is atomic. So the
interleavings that matter are those of whole stretches of kernel code between
two calls of `schedule()`, cut by interrupt handlers.

| component | state | operations | talks to |
|---|---|---|---|
| process life cycle, `kern/process/proc.c` | `state`, `wait_state`, `flags`, `need_resched`, parent and child links, `nr_process` | `do_fork`, `do_exit`, `do_wait`, `do_kill`, `do_yield`, `do_sleep`, `init_main`, `cpu_idle` | scheduler, timers, memory, files |
| pid allocation, `get_pid` | `last_pid`, `next_safe`, process list | `get_pid`, `set_links`, `remove_links` | `do_fork`, `do_wait` |
| scheduler core, `kern/schedule/sched.c` | `current`, run queue, time slices | `wakeup_proc`, `schedule`, `sched_class_proc_tick` | every blocking operation |
| stride class, `kern/schedule/default_sched.c`, `libs/skew_heap.h` | strides, priorities, heap pointers | enqueue, dequeue, pick_next, `lab6_set_priority` | scheduler core |
| timers, `sched.c` | list of time differences | `add_timer`, `del_timer`, `run_timer_list` | `do_sleep`, clock interrupt |
| traps, `kern/trap/trap.c` | trap frame | `trap`, `trap_dispatch` | all system calls, `do_exit` of killed processes |
| keyboard, `kern/fs/devs/dev_stdin.c` | ring buffer, wait queue | `dev_stdin_write` (interrupt), `dev_stdin_read` | wait queues, scheduler |
| wait queues and semaphores, `kern/sync/wait.c`, `sem.c` | value, queue, wake-up flags | `up`, `down` | monitor, file system, address spaces |
| monitor, `kern/sync/monitor.c` | `next_count`, `count`, three kinds of semaphores | `cond_wait`, `cond_signal` | philosophers |
| philosophers, `kern/sync/check_sync.c` | states of five threads | take and put forks | semaphores, monitor |
| pages and page tables, `kern/mm/pmm.c`, `default_pmm.c` | free list, reference counts, page tables | alloc, free, `page_insert`, `page_remove`, `copy_range` | everything |
| kernel heap, `kern/mm/kmalloc.c` | SLOB list, big blocks | `kmalloc`, `kfree` | everything |
| address spaces, `kern/mm/vmm.c`, swapping | vma lists, `mm_count`, FIFO of pages | `mm_map`, `dup_mmap`, `exit_mmap`, `do_pgfault`, `swap_in`, `swap_out` | pages, `do_fork`, `do_exit`, `do_execve` |
| open files and VFS, `kern/fs/*.c`, `kern/fs/vfs` | descriptor tables, `ref_count`, `open_count` | open, close, dup, fork, exit | inodes of SFS and devices |
| simple file system, `kern/fs/sfs` | inode cache, free map, `reclaim_count`, two semaphores per file system and one per inode | load, reclaim, lookup, io, truncate, sync | disk device |
| drivers, boot, debugging, library | hardware ports, buffers | | |

What is hard in each, and what makes it correct:

- *Process core.* Wake-ups race with a process that has marked itself asleep and
  has not reached `schedule()` yet; timers and wait queue entries lie on kernel
  stacks that a kill may take away; a parent may die before its child or together
  with it. Correct means: the run queue is exact, no wake-up is lost, nothing
  linked outlives its stack, every process has a live parent and descends from
  initproc, zombies are reaped, sleepers return, and the shutdown of `init_main`
  finds nobody.
- *Pids.* A cached interval stays valid while processes come and go.
- *Stride.* Wrapped numbers order the processes only under a bound on their
  spread, and the heap is changed through parent pointers.
- *Timers.* Each entry stores the difference to the one before it.
- *Monitor.* The ownership of the monitor is nowhere stored: it is implied by
  which semaphore has been raised for whom.
- *Memory.* fork, execve, exit and page faults take and give back frames one by
  one, and memory may run out, or a program file turn out bad, between any two.
  Correct means: a frame is free exactly if nothing points to it, nobody shares a
  frame, reference counts are the mappings, a call that fails leaves nothing
  behind, the free list is ordered and merged, the queue of swappable pages names
  mapped pages only, and every process has memory that nobody else changes.
- *Files.* Descriptors are copied at fork and closed by close, dup, execve and
  exit; each holds two counts on an inode, which is freed with the last. Correct
  means: the counts are the pointers, and what nobody has open is on the disk.
- *Simple file system.* Blocks are allocated in the middle of writes and seeks and
  the disk may be full at each; the inode, the free map and the superblock are
  written at different times, each under a dirty flag that somebody has to set.
  Correct means: the free map agrees with the block maps and the counts, closed
  files are on the disk, and the assertions in the code hold.

`PROJECT.json` lists each hazard at its line with the properties that watch it,
or says why none does yet.

## 2. Modules

| module | models | its state and steps |
|---|---|---|
| `Process` | the process core: `proc.c`, `sched.c`, the end of `trap()`, `dev_stdin.c` | one variable per field of `proc_struct` that control depends on; `pc[p]` is the place in the kernel where a process stands; one action per system call, per continuation behind a `schedule()`, and per interrupt |
| `MCProcess` | | the symmetry of user processes for TLC |
| `Pids` | `get_pid`, step by step of its scan; `PidsInit`, `PidsNext` and `PidsSpec` are named so that a module can extend it together with `Process` | `last_pid`, `next_safe`, the pids still to be visited |
| `ProcessProofs` | | theorems about `Process` and `Pids` |
| `Timers` | what timers promise: a countdown for each sleeper | abstract; how `Process` sees timers |
| `TimerList` | the list of differences of `sched.c` | implements `Timers` |
| `TimerListProofs` | | theorems about `TimerList`, that it implements `Timers` among them |
| `Semaphores` | `sem.c` and `wait.c` among kernel threads on one CPU | values, queues, who is on the CPU; used by the next two |
| `HoareMonitor` | the monitor that `monitor.h` describes | abstract: owner, entry queue, urgent queue, condition queues |
| `Monitor` | `monitor.c` over `Semaphores`, with threads that use it in every way | implements `HoareMonitor` |
| `MonitorProofs` | | theorems about `Monitor`, that it implements `HoareMonitor` among them |
| `Dining` | the table: who may begin to eat | abstract |
| `PhilMonitor` | the philosophers of `check_sync.c` over `Monitor` | implements `Dining`, and is shown to be a client of `Monitor` |
| `PhilMonitorProofs` | | theorems about `PhilMonitor`; what it needs of the monitor it takes from `MonitorProofs` |
| `SkewHeap` | `skew_heap.h` with its pointers | operators on a memory of nodes; the recursion of `skew_heap_merge` is a recursive function of the two roots |
| `Stride` | `default_sched.c` over `SkewHeap`, and the operations of the core that feed it | strides with the sign bit `SignBit`, priorities, the heap, `current` |
| `FairShare` | what stride scheduling is for | abstract: how far each process is ahead, without wrap-around |
| `StrideShare` | `Stride` while nobody joins too far from the others | adds the unbounded numbers as an auxiliary variable; implements `FairShare` |
| `StrideProofs` | | theorems about `Stride` and `StrideShare`, that it implements `FairShare` among them |
| `Pages` | `default_pmm.c`: the free list with first fit, splitting and merging | list of blocks, `nr_free`; operators that other modules call |
| `VirtualMemory` | `pmm.c`, `vmm.c`, `swap.c`, `swap_fifo.c`, and what `proc.c` does to memory | free frames, what every pointer points to, reference counts, contents, areas, swap, the call in progress; one action per frame |
| `AddressSpaces` | what memory management promises to programs | abstract: private memory for each process |
| `Memory`, `MCMemory` | `VirtualMemory` whose frames come from `Pages` | implements `AddressSpaces` |
| `MemoryProofs` | | theorems about `VirtualMemory`, the refinement of `AddressSpaces` among them, and about `Memory` with its free list |
| `Files`, `MCFiles` | descriptor tables and inode counts: `kern/fs/*.c`, `kern/fs/vfs`, the inode cache of SFS | what every pointer points to, `open_count` of entries, `ref_count` and `open_count` of inodes, the call in progress |
| `FilesProofs` | | theorems about `Files` |
| `Sfs`, `MCSfs` | `sfs_inode.c`, `sfs_fs.c`, `bitmap.c`: block maps, sizes, positions, dirty flags, the disk | the block in every slot, inodes in memory and on disk, free map and superblock in both places; one action per block |
| `SfsProofs` | | theorems about `Sfs` |

Conventions. A slot of `Procs` in `Process` stands for one pid; slots are reused
when the process has been reaped. Data that nothing depends on is left out: exit
codes, the characters typed, the output. `SysNothing` stands for system calls
that change nothing in the model, failed forks among them; programs may make any
call at any time, so no user program needs a model. Formulas called "variant for
the mutation runs" are wrong forms of the definition that follows them, used
to make sure that each property notices a plausible mistake; no specification
refers to them.

### How steps correspond to code

`Process`. A step is the code between two points where something else may
happen. `do_wait`, for example, is `SysWait` (entry), `WaitReap`, `WaitSleep` or
`WaitNoChild` (one turn at the label `repeat`), `ScheduleTo`, and `WaitReturn`
(the test of `PF_EXITING` behind `schedule()`). Between `WaitSleep` and
`ScheduleTo` the process is asleep but on the CPU with interrupts enabled, so
`Tick` and `KeyPress` may come: this is the window in which `wakeup_proc` must
not enqueue it. `DoExit` is one step, since its part with interrupts off contains
all the shared state. `wakeup_proc` and `sched_class_enqueue` are operators that
every caller applies, `Wakeup` and `Enqueued`. `ScheduleTo` may pick any process
of the run queue; which one the strides choose is the subject of `Stride`.

`Stride`. The pointers of a node that is not in the heap are cleared, which the
code does in `stride_enqueue`; nothing reads them in between. Ticks are not
modelled: `Schedule` may come at any time.

`TimerList`. `Kill` and `Return` are separate, so that timers fire for a process
that a kill has woken already: the code warns and unlinks them.

`Monitor`. `cond_wait` is `Wait`, `WaitUp`, `WaitDown`, `WaitReturn`, and
`cond_signal` likewise. No interrupt changes the semaphores, so finer steps than
the code has would be possible and make no difference. A thread that is blocked
in `down` stands behind it already; the queue tells that it waits.

`VirtualMemory`, `Files`, `Sfs`. The kernel is not preempted and the disk is
polled, so one call runs at a time. A call that loops is nevertheless cut into
one step per frame, inode or block, since each turn can fail: `op` tells which
call is under way and what is left to do, in the order in which the code does it
(`Following` for `dup_mmap`, from the last area to the first, and `load_icode`).
All pointers of one kind are kept in one function `at` from slots to what they
point to: page tables, directories and kernel stacks in `VirtualMemory`;
descriptors, working directories and the result of a lookup in `Files`; direct,
indirect and indirectly mapped blocks in `Sfs`. So that "nothing points to it"
can be said once for all.

- *Fork* is `Fork` (kernel stack, areas), `SetupPgdir`, then `GetPte` and
  `CopyPage` for each page, `ForkDone`. *Execve* is `Execve`, `UnmapPage`,
  `ExitRange`, `PutPgdir` for the old space, and `SetupPgdir`, `LoadPage`,
  `GetPte`, `LoadInsert` for each page of the new one, then `LoadDone`, or
  `LoadFails` and the steps of an exit. A page fault is `Touch` and then
  `FaultFresh` or `SwapIn`, perhaps after `GetPte` and `SwapOut`.
- `alloc_pages(1)` never returns a null pointer: with no frame left it calls
  `swap_out(check_mm_struct)`, and that pointer is null except during the check
  at boot, so the kernel stops (`OutOfMemory`). Only the kernel stack, two frames
  in a row, fails cleanly. So the clean-up code behind the single allocations is
  never reached for lack of memory; what is reached is the clean-up after a bad
  program file, and that is modelled.
- Both ways the kernel can start with its memory are initial states: `InitUser`,
  after boot, and `InitCheck`, inside `check_swap`, the only time pages are
  swapped. `Memory` adds the free list: every step that takes or gives frames is
  one call of `AllocPages` or `FreePages`.
- A frame that is given back keeps what is in it, and `pgdir_alloc_page` clears
  nothing. `LoadInsert` therefore says what `load_icode` puts into a page
  (`Filled`): the pages of TEXT, DATA and BSS are read or cleared
  (`proc.c:676-713`), the stack pages (`proc.c:722-725`) are not, and neither is a
  page at its first touch. There a program finds what the frame had before: data
  of another process, or bytes of a page table or kernel stack, which are not
  followed, so any value. `AddressSpaces` accordingly promises the data pages only.
- A segment that begins inside another one fails cleanly (`LoadFails`); one that
  begins outside and reaches into another stops the kernel at the assertions of
  `check_vma_overlap` (`LoadStops`, `vmm.c:104-109`).
- *Files.* An open is `Lookup`, which takes the reference, then `Exists`,
  `OpenRefused` or `OpenDone`. A reader of the keyboard sleeps between
  `fd_array_acquire` and `fd_array_release` (`ReadSleeps`, `ReadEnds`): the only
  time at which two calls overlap; tables are not shared, so the others cannot
  touch the reader's entry, only the inode that it counts on. `execve` opens
  whatever has the name: the keyboard fails to load and the process exits; at a
  directory the seek of `load_icode_read` panics (`sfs_node_dirops` has no
  `vop_tryseek`), so no step follows. An open with `O_CREAT` and `O_EXCL` of a file
  that exists returns with the reference of the lookup still held
  (`vfsfile.c:47`); `lost` counts these apart, and `InodesExact` says that no
  other reference is lost.
- *Sfs.* `sfs_io` is `ReadOrWrite`, one `IoBlock` for each block, before it an
  `IoIndirect` where the indirect block is needed, and `IoDone`; or `IoFails` when
  the disk is full. `sfs_truncfile` is `Grow` or `Shrink` for each block and
  `TruncDone`. `CleanupAndMount` is the end of all processes and the next boot,
  which reads free map and superblock from the disk. A failed assertion or panic
  sets `stopped`: "position" for `sfs_inode.c:356`, "blocks" for `:935`, "range"
  for `:286`. The variables `cut` and `full` remember the events that
  `AssertsHold` and `ClosedOnDisk` refer to; no step depends on them.

## 3. What TLC checks

| run | question | bounds | result |
|---|---|---|---|
| `process_safety` | are run queue, wake-ups, parents, stack entries, shutdown right in every interleaving? | idleproc, initproc, 3 user processes, symmetric; sleeps of 1 tick, slices of 1 tick, buffer of 1 | 775,370 states, about a minute |
| `process_live` | are orphans reaped, do sleepers return, do killed sleepers exit? | 2 user processes and initproc, all of whom may be killed; no symmetry | 57,980 states, about 2 minutes |
| `process_killed` | does a killed process exit? | as above, initproc is not killed | **violated**, see below |
| `pids` | are pids unique, is the cache sound, does `get_pid` return? | `MAX_PID` 7, `MAX_PROCESS` 6 | holds |
| `timer_list` | does the list implement a countdown per sleeper? | 4 sleepers, up to 4 ticks | holds |
| `monitor` | do the semaphores implement a Hoare monitor in which signallers and entrants get their turn? | 3 threads, 2 conditions | holds |
| `philosophers_monitor` | table respected, woken philosophers may eat, monitor used as intended, everybody quits? | 4 philosophers, 1 meal each | holds |
| `stride_share` | are wrapped strides as good as unbounded ones, the heap exact, the sharing fair? | 3 processes, 3-bit strides (`SignBit` 4), priority unset or 2 | holds |
| `stride_least` | is the process picked one that nobody is behind? | the same, anybody may join at any time | **violated**, see below |
| `memory` | is every frame accounted for, nothing left behind, the free list merged, the swap queue exact, memory private? | 2 processes, 5 pages in 3 areas, two of which share a page table, 16 frames, 2 of them during the boot check | 245,502 states, about a minute and a half |
| `files` | are the counts of inodes the pointers to them, and closed files on the disk? | 2 processes, 3 descriptors each, one program, the keyboard, the root directory; one lost reference | 1,621,368 states, about a minute |
| `sfs` | are blocks accounted for, closed files on the disk, and when do the assertions fail? | 2 files, 2 descriptors, 4 blocks; a file has 1 direct block and 2 indirect ones | 728,108 states, about a minute |

Why the bounds are enough. In `process_safety`, three user processes give a
grandparent, a parent and a child, two children of one parent with one dying
while the other is a zombie, and a killer that is neither parent nor child of
the victim. That initproc may be killed as well (`sys_kill` does not look at
the pid), and panics then, is left to `process_live`, which is smaller, and to
the theorems, where only idleproc, which no pid finds, is never killed. Longer
sleeps and slices only delay interrupts, which the model lets come at any time anyway; `timer_list` covers
lists of four timers with all orders of expiry and equal expiries. `pids` leaves
two pids free at the process limit less one, so scans wrap around and restart. Three threads
are one signaller, one waiter and one entrant; with two conditions signallers
can nest. Four philosophers have opposite pairs who eat together, and neighbours
on both sides who wait. Strides of 3 bits wrap around at 8 with a greatest pass
of 3, so all cases of the signed comparison occur within a few picks.

In `memory`, text and data have a page each under one page table, so a fork or an
execve finds the table there for the second; the stack has three pages under
another table, of which `load_icode` maps one and faults the others. Two processes
with all of it, two tables, a directory and a kernel stack each would take 20
frames, and 8 each right after an execve; so 16 frames are enough for most
histories and run out in a fork, an execve or a fault, at a table or at a page,
while frames of both processes lie between each other. Every frame goes round
between owners with its contents, so a page that is not filled shows those. The
run counts as one the states that differ only in what is in frames nobody maps
(`VIEW Followed`): every step reads contents through page tables only and every
property speaks of mapped pages, so such states have the same continuations.
During the boot check two frames serve three pages of one area, so every page goes out and
comes back. In `files`, the three descriptors are the two that execve
spares and one that it closes and opens again; two processes give every inode
owners on both sides of a fork. In `sfs`, four blocks
are less than what two files can have, so the disk is full at a direct block, at
an indirect block and between the indirect block and its first entry; lengths of
3 with blocks of 2 cross borders, and the positions are the start, one inside the
last block that can be mapped, and one behind all of them, below `MaxSize`.

Deadlock is checked except in four runs: in `monitor` threads may all wait for a
condition that nobody signals or come to their end, and a monitor owes them
nothing; in `memory`, `files` and `sfs` the kernel really stops, at a panic, and
in `files` also when the last process has ended or `MaxLost` forbids the failure
under way.

Fairness.
- `process_live`: the clock ticks (weak fairness of `Tick`); what `current` does
  in the kernel goes on (weak, `KernelStep`); the scheduler passes nobody in the
  run queue over for ever (strong, `ScheduleTo`), which is what `NobodyStarves`
  says of the strides. Nothing is assumed of user programs or of keys: a process
  in user mode is interrupted by the clock.
- `pids`: the scan goes on, as it has interrupts off.
- `monitor`: the thread on the CPU goes on, routines of the monitor end (they
  have no loops), dispatch is fair. A thread may stay outside the monitor for
  ever.
- `philosophers_monitor`: the same, and timers fire.
- `stride_share`: time slices run out, so `schedule()` is called again and again.
- `memory`, `files`, `sfs`: none; their properties are about safety.

### Findings

*A kill may be lost* (`process_killed`, `KilledExit`). The header of `proc.c`
(lines 59 and 60) describes the kill of a process as leading to `do_exit`. The
flag `PF_EXITING` is looked at when a trap ends and behind the `schedule()` of
`do_wait`. A process that is killed while it is runnable in user mode, and then
makes a system call that sleeps before it is interrupted, sleeps with the flag
set; a second kill finds the flag and does nothing. If what it waits for does
not come, it never exits.

*The process picked may not have the least stride* (`stride_least`,
`RootIsLeast`). The comment of `stride_pick_next` says that it picks the element
with the minimum stride. New processes start with stride 0 and sleepers keep
theirs, wherever the others have got to. As soon as two strides differ by more
than `BIG_STRIDE` the comparison is no order any more, and the root of the heap
can be a process that the comparison itself puts behind another one. As long as
nobody joins from so far, everything is right: that is `stride_share`.

## 4. What is proved

TLAPS proves, for every set of processes and every value of the bounds:

| theorem | statement |
|---|---|
| `TypeCorrect` | `Spec => []TypeOK` for `Process` |
| `RunQueueCorrect`, `PositionsCorrect`, `FramesCorrect` | run queue exact; states agree with places; linked timers and wait entries lie in live frames |
| `ParentsCorrect`, `DescentCorrect` | parents are alive; everybody descends from initproc |
| `WakeupCorrect` | no lost wake-up |
| `ShutdownCorrect` | `init_main` finds nobody else at its end |
| `DeadCorrect` | the dead stay dead (an action property) |
| `PidsCorrect`, `CacheCorrect` | pids are unique; the cached interval is sound |
| `HeadCorrect`, `SleepersCorrect` | the head of the timer list has time left and nobody is in it twice; sleepers and timers match |
| `PromiseCorrect` | `TimerList` implements `Timers`: everybody wakes at the tick it asked for |
| `OneActiveCorrect`, `CountersCorrect` | one thread at most is active in `Monitor`; the counters count the threads that wait |
| `MonitorIsHoare` | `Monitor` implements `HoareMonitor` |
| `UsageCorrect` | the philosophers do with the monitor only what `Monitor` allows |
| `WokenCorrect`, `DiningCorrect`, `ForksCorrect` | a woken philosopher may eat; `PhilMonitor` implements `Dining`; neighbours never eat together |
| `HeapCorrect` | the skew heap is a tree with its pointers right and holds the run queue |
| `ComparisonCorrect` | in `StrideShare`, the comparison of wrapped strides tells who is behind |
| `SharesKept` | `StrideShare` implements `FairShare` |
| `ShareCorrect` | in `FairShare`, and so in `StrideShare`, no two processes are further apart than the greatest pass |
| `PagesCorrect`, `CleanupCorrect`, `SwapCorrect` | frames accounted for; nothing left behind; swap queue exact |
| `FreeListCorrect` | the free list of `Memory` is ordered and merged, holds the free frames and counts them |
| `MemoryIsPrivate` | `VirtualMemory` implements `AddressSpaces` |
| `TypeCorrect`, `CountsCorrect` | types of `Files`; counts of inodes are the pointers to them |
| `BlocksCorrect`, `DiskCorrect`, `AssertsCorrect` | blocks accounted for; closed files on the disk; when assertions of SFS can fail |

All but the types of `Files`, `ShareCorrect` and `ForksCorrect` are properties that
TLC checks on small instances too.

*Process.* The assumptions are those of `ProcessAssumption`: idleproc and
initproc are two of the slots, and the bounds are numbers. None of the
invariants is inductive alone. `RunQueueExact` needs to know that whoever an
interrupt wakes is alive, which `LinkedFramesAlive` says, and that a sleeping
process stands at a place of sleep, which `PositionsConsistent` says; these two
need `RunQueueExact` for the process that `schedule()` picks. Their conjunction
`Structure` is inductive relative to `TypeOK` (`StructureStep`). `Family` adds
parents: that they are alive follows, at an exit, from the children being
handed to initproc, which `Structure` shows to be alive; at a reap, from the
children of the dead having been handed over, which is `ParentsAlive` itself
before the step. Descent is stated without recursion, over sets of processes: no
set of user processes is closed under "parent of", so that it can be proved
by set reasoning, and it rules out cycles. On top come `NoLostWakeup` and
`ShutdownClean`, each with one lemma per group of actions, and `DeadStayDead` as
a property of each step under the invariants.

*Pids.* Only the `static_assert` of `get_pid` is assumed. The invariant says
what a scan in progress has established: of the pids already visited none is the
candidate, and none lies between it and `next_safe`.

*TimerList.* Nothing is assumed: any set of processes, any times. `IInv` says
that the list is in order (`InOrder`: no difference is negative, the head has
time left, nobody is in it twice) and that exactly sleepers, and woken processes
whose timer has not been deleted yet, are in it. When the k-th timer is due is
the sum of the first k differences (`Due`); `DueIsSums` and `DueUnique` show that
the recursive function of the model is that sum and the only one. Three lemmas
say what the operations of `sched.c` do to these sums: `AddTimerLinks`
and `DelTimerUnlinks` leave the times of all others as they are, and `TickFires`
makes everybody's time one less, whoever fires. Each step of the list is then the same
step of `Timers`, whose countdown is mapped to the sums.

*Monitor.* Assumed is `MonitorAssumption`: `mutex`, `next` and the conditions are
different semaphores. Who owns the monitor is nowhere stored, so the invariant says
it from the places of the threads. `Ownership`: one thread at most is active,
and mutex has its unit exactly if none is; no other semaphore ever has a unit,
which is what keeps an `up` for a waiter from being taken by anybody else.
`Queues`: whoever is in the queue of a semaphore stands behind its `down`, is not
ready and not on the CPU. `Counters` ties `next_count` and `count` to these places,
so that the tests of the counters decide whether somebody waits. For the
refinement, `Abstraction` says how owner and queues of `HoareMonitor` read at the
two places where a thread has given the monitor away and not blocked yet.

*PhilMonitor.* Any number of philosophers but zero. Every step of a philosopher is
a step of `Monitor` (`UsageCorrect`), so that `Ownership` and `Queues` hold of their
monitor by the proofs above, instantiated. `PlacesAgree` relates the routine of a
philosopher to the place in the monitor's; `StatesAgree` says what the place tells of
his state, and that somebody who has been signalled is eating. That is inductive
since states change only inside the monitor, and there is one thread in it. A
table of one is a philosopher who is his own neighbour, hence `N > 1` in
`ForksCorrect`.

*The skew heap.* Assumed is `StrideAssumption`: finitely many processes, among
them initproc, and a sign bit. `Tree` says that a root has a set of nodes below
it: some function `below` gives the nodes under each, children and parents
agree, the subtrees of a node are apart, and a key goes up downwards. A tree is
a root and two trees (`TreeParts`, `PartsTree`), and does not care for other
nodes (`TreeFrame`). That `skew_heap_merge` ends follows from the right pointers
of a tree going down in the number of nodes below (`TreeRank`, `MergeExists`);
that two trees become one of both their nodes, by induction over how many these
are (`MergeTrees`). `Heap` adds that the root has no parent and that all nodes
outside are cleared; `InsertKeeps` and `PopKeeps` say so of an insertion and of
the removal of the root. The keys may be any numbers by which the comparison
goes (`Agrees`). With all keys the same, any comparison does, so the heap holds
the queue even when a process has joined from too far (`HeapCorrect`); what is
lost then is only the order.

*Strides.* The keys are then the unbounded numbers `ahead`. The invariant `SInv`
says that those of the runnable processes lie between 0, which one of them has,
and `BIG_STRIDE`; that the strides are these numbers above some common one,
modulo twice the sign bit (`Tracked`); and that the heap goes by them. So
differences are less than the sign bit, and the sign of the wrapped difference
is right (`DifferenceIs`). Whoever joins is close to all others (`TimelyClose`),
whoever is picked has 0 and goes ahead by `BIG_STRIDE` at most (`DispatchIs`),
and to count from the new least keeps order and congruence (`AboveIs`,
`SettledInv`). Each step is the same step of `FairShare` (`FairStep`). That
`FairShare` keeps the shares is proved of the abstract steps alone:
`FairInRange`, all members between 0 and the greatest pass, is restored by
renormalising whenever no two are further apart (`SettleInRange`).

*VirtualMemory.* Assumed is `VMAssumption`: numbers for frames and pages, areas
and tables given by functions of the page, the area of the boot check being one of
them. Nothing is assumed of how many processes, pages or frames there are, nor of
how areas share tables. The invariant `IInv` has five parts besides the types.
`Points` and `Accounted` restate `PagesAccounted` slot by slot (`TakeAccounted`
and `GiveAccounted` then serve all allocations and releases). `Spaces` says where
tables and pages lie: only in the areas of a process and under tables, which is
why `exit_mmap`, going by the areas, finds them all. `Calls` says what the call
in progress has established, so that each step fills an empty slot or empties a
full one. `SwappableMapped` is inductive with these. Each action has a lemma
`...Keeps`. For the refinement, `CInv` adds what frames hold: `Copying` of the
part of a fork that is done, `Loading` of the part of an execve that is done (its
data pages are mapped and hold what was read). Of other frames nothing is known
and nothing needed. Each action has a lemma `...Seen` that says which
abstract step it is, or that no live process sees a difference. A fork becomes
visible in `ForkDone` and an execve in `LoadDone`; `SwapOut` and `SwapIn` are
never visible, which rests on two mapped pages not sharing a frame
(`PagesApart`).

*The free list.* Assumed is that there is memory at boot, as `init_memmap`
asserts (`MemoryAssumption`). `Lists` says that the list is sorted with gaps
between its blocks and that a frame is free exactly if it lies in one. `AllocPages`
takes from the first block that is long enough. `FreePages` passes over the list
once; `Passed` is what it has established after i blocks: the blocks kept and the
block that grows hold the frames of the first i blocks and the freed ones,
are apart from one another, and the rest of the list lies beside. A block can
touch the freed one on each side at most once, so one pass is enough to merge
all. `Moves` and `Paired` say why one call per step suffices: the frames that change
hands are one or two in a row, the two of a kernel stack for ever.

*Files.* Assumed: finitely many processes and programs, a table of more than two
entries, distinct inodes. `Places` relates states of processes and the call in
progress to the slots that are filled; `Exact` is `InodesExact` with the users of
an inode finite, so that their number can be counted up and down (`FillCounts`,
`EmptyCounts`).

*Sfs.* Assumed: the sizes are numbers, blocks are not empty. Two layers. `Core` is
about block maps and what the disk holds of them, without sizes: free map, slots
and counts agree, an inode that is not dirty is on the disk except perhaps for
blocks at its end. That entries of the indirect block do not make the inode dirty
(`sfs_inode.c:365`) is harmless because whatever needed them then makes the size
grow, unless a seek finds the disk full in between or the file has been cut under
another descriptor's position, which `ClosedOnDisk` excepts (such a block may even
lie inside the file: a write behind the cut that finds the disk full makes the
file longer without the block, and a read then adds it).
The second layer, `Sizes`, relates sizes, positions and blocks by the arithmetic
of `Room(n) == n * BlkSize`, until `cut` or `full`.

Induction. Sums over a list, the pass of `FreePages` and the like are recursive
functions in the models, whose equations follow from a unique-existence
argument. The induction theorems of the library take an operator as a parameter,
which the provers cannot instantiate; `NatLeast`, from the well-foundedness of
the numbers, and `SetInduction`, from it, say the same of sets and take their
place.

Only model-checked: liveness and everything that needs fairness, which is out of
the prover's reach, `NobodyStarves` of the strides among them. Every invariant
and every safety property that a run checks is a theorem, but `RootIsLeast`,
which is false. `Semaphores` has no theorem of its own: what it keeps is part of
the invariant of `Monitor`.

## 5. What is not modelled, and what is left

Left out for good: the programming of devices, booting, ELF parsing, formatting,
debugging output, user programs (any program may make any call at any time in the
models), the host tool `mksfs`, and lab1 to lab7, which are earlier stages of the
same files.

Left out where the rest of a component is modelled:

- *Processes.* User processes that share an address space or a descriptor table
  (`CLONE_VM`, `CLONE_FS`): `sys_fork` never asks for it. The semaphores of address
  spaces and of the file system: whoever holds one does not block, so none is
  ever contended; a reader of `stdin` sleeps, but holds none. `init_main` calls
  `check_sync` (`proc.c:1016`), whose philosopher threads are children of initproc
  for a while; they are the subject of `PhilMonitor` and left out of `Process`. A
  `read` of the keyboard takes one character; the loop over `len`
  (`dev_stdin.c:45`) repeats the same turn.
- *Memory.* `kmalloc`: the SLOB heap and its size classes. A fault outside all
  areas, or a write to an area that is read-only: the kernel panics. `user_mem_check`, which only reads. `check_swap` throws
  the frames of its small free list away at its end; the model stops before that,
  and starts again from `InitUser`.
- *Files.* Paths of more than one name, which `sfs_lookup` does not handle either;
  opening with `O_CREAT` a name that does not exist, for which SFS has no
  function, so the kernel panics; `chdir`, `getdirentry` and `fstat`; mounting and
  unmounting more than once.
- *Simple file system.* The contents of files and directories; nothing creates,
  links or removes files in this kernel. `FileOpen` reads the inode of a file nobody
  has open from the disk always; the one that the reference lost at `vfsfile.c:47`
  keeps in memory is not read again in the code. By `ClosedOnDisk` the two are the
  same but for the blocks it excepts. A machine that is switched off before
  `fs_cleanup`: free map and superblock are then older than the inodes, and no
  code looks for that.
- *Philosophers* with plain semaphores: their table is the one of `PhilMonitor`.
- `Process` and the memory and file modules are separate: the calls of `Process`
  that fork, execute and exit are atomic there, and `VirtualMemory` and `Files`
  show what they do inside, where nothing else runs.

What is left to do, in this order: the SLOB heap of `kmalloc.c` with the sizes at its boundaries; the
philosophers with semaphores over `Semaphores`.
