# A TLA+ development of the xv6 kernel

This directory models the kernel in `src/kernel` (xv6 for RISC-V) and the user
programs of `src/user` that have state worth checking, in TLA+. TLC checks the
modules on small instances; TLAPS proves the main results for all instances.

## The system and its parts

| part | code | state | operations that change it |
|---|---|---|---|
| logging | `log.c` | on-disk header and log blocks, `log.lh`, `outstanding`, `committing` | `begin_op`, `log_write`, `end_op`/`commit`, recovery |
| buffer cache, sleep locks | `bio.c`, `sleeplock.c` | buffers with `refcnt`, `valid`, LRU list; a sleep lock each | `bget`, `bread`, `bwrite`, `brelse`, `bpin`, `bunpin`; `acquiresleep`, `releasesleep` |
| disk driver | `virtio_disk.c` | descriptors, available and used rings, `info[]`, `b->disk` | `virtio_disk_rw`, `virtio_disk_intr`, the device |
| inodes and directories | `fs.c` | inode table, inodes and entries on disk | `ialloc`, `iget`, `ilock`, `iput`, `dirlink`, `namex` |
| file contents | `fs.c`, `file.c` | bitmap, block addresses, sizes, bytes | `balloc`, `bfree`, `bmap`, `itrunc`, `readi`, `writei`, `filewrite` |
| file table and calls | `file.c`, `sysfile.c` | `ftable`, `ofile[]`, `cwd` | `filealloc`, `filedup`, `fileclose`, `sys_*` |
| pipes | `pipe.c` | ring, `nread`, `nwrite`, two open flags | `pipewrite`, `piperead`, `pipeclose` |
| processes | `proc.c`, `trap.c` | process table, parents, per-CPU `proc` | `fork`, `exit`, `wait`, `kill`, `sleep`, `wakeup`, `scheduler`, `yield` |
| spinlocks, interrupts | `spinlock.c`, `trap.c`, `proc.c` | `locked`, `cpu`, `noff`, `intena`, the enable bit | `acquire`, `release`, `push_off`, `pop_off`, traps, `sched` |
| memory | `kalloc.c`, `vm.c`, `exec.c` | free list, page tables, `p->sz` | `kalloc`, `kfree`, `uvm*`, `mappages`, `fork`, `exec`, `sbrk` |
| console and UART | `console.c`, `uart.c` | input ring `r`/`w`/`e`, output ring, transmit FIFO | `consoleintr`, `consoleread`, `consolewrite`, `uartputc`, `uartstart`, `uartintr` |
| clock | `trap.c`, `sysproc.c` | `ticks` | `clockintr`, `sys_sleep` |
| user allocator | `user/umalloc.c` | circular free list | `malloc`, `free`, `morecore` |
| shell | `user/sh.c` | command tree; processes and descriptors | `parsecmd`, `runcmd` |

How they depend on each other: every system call of the file system runs
between `begin_op` and `end_op`, changes blocks through the buffer cache and
hands them to `log_write`; the cache reads and writes them through the disk
driver, which sleeps until its interrupt. All waiting, in every part, is
`sleep` and `wakeup` of `proc.c` under some spinlock. Processes reach pipes,
inodes and devices through the file table; `fork` and `exit` change its
reference counts. `kill` sets a flag that each part looks at in its own loops.

Layers meet at abstract specifications:

| abstract | implemented by | | used above by |
|---|---|---|---|
| `AtomicDisk` | `Log` | proved | `Fs`: a crash restores the disk between calls |
| `BlockDev` | `Virtio` | proved | `Bcache`, which instantiates it |
| `Fifo` | `Pipe`, `Uart` | proved | |
| `Tty` | `Console` | proved | |
| `Monitor` | `Sleep` | proved | all others: going to sleep and a wakeup are one step each |

## What is hard here

* Two CPUs run kernel code at once and each can be interrupted; every shared
  structure has a lock, and the questions are at the edges: what is still true
  when a lock is given up and taken again, and which lock covers a hand-over.
* A process gives up its CPU while another CPU may pick it up, wake it, kill it
  or free its stack.
* A crash can fall between any two disk writes, recovery included.
* A device finishes in its own order, and interrupts while its handler runs.
* Fixed tables (log, cache, descriptors, inodes, pipe, processes, memory) run
  full, and a call that fails half way must undo the half it did.
* Counters wrap, and are compared after they have wrapped.

`PROJECT.json` lists these as hazards, each at the line where it bites, and
maps every definition to the lines it models.

## Modules

Abstract specifications: `AtomicDisk` (a disk whose updates become durable in
groups of whole calls), `BlockDev` (a disk that makes one transfer for each
request), `Fifo` (a bounded queue with two ends), `Tty` (lines as typed and
edited), `Monitor` (a lock with condition variables). `Modular` has the
arithmetic of counters that wrap, `Null` the null pointer that several modules
use for "none". An operator whose comment starts with
*Mutant* is a plausible mistake in the definition that follows it; it is no
part of the specification and is there to show that a property notices the
mistake.

**Log** (`log.c`). State: home blocks, log blocks and header on the disk
(`disk`, `logd`, `head`), the fields of `struct log`, the cache as far as the
log needs it (`buf`, `pin`), and for each process where it is (`pc`) and the
blocks its call has written (`wrote`). A step is a section under `log.lock` or
the write of one block. `BeginOp`/`BeginSleep`, `LogWrite`, `EndOp`, then
`WriteLog` (a block at a time), `WriteHead` (the commit point), `Install` (a
block at a time), `Clear` and `CommitDone` are `begin_op`, `log_write`,
`end_op` and `commit`; `RecoverReadHead`, `RecoverInstall` and `RecoverClear`
are `recover_from_log`; `Evict` and `Load` are what `bget` and `bread` may do
to an unpinned block at any time; `Crash` keeps the disk and loses the rest.

**Bcache** (`bio.c`, `sleeplock.c`). A process stands for one use of a buffer:
`Bget` finds it or recycles the last unused one of the list; `Acquire` and
`AcquireSleeps` are `acquiresleep`, with the request of `bread` if the buffer is
not valid; `Change`, `Bwrite`, `Bpin` and `Bunpin` are what a holder may do;
`ReleaseSleep` and `Unref` are `brelse`. A caller for which there is no buffer
(`NoBuffers`) panics: it takes no further step. `Transfer` is the disk, by way of
`virtio_disk_rw`. `Killed` wakes a sleeper early. Of a block's contents one thing matters: whether a copy,
in a buffer or on the disk, is what the last writer left.

**Virtio** (`virtio_disk.c`). A step is a section under `vdisk_lock`, cut where
the device can see memory change: `Rw` (allocate and format a chain, or sleep
for want of one, then `Retry`), `Publish` (`avail->idx += 1`), `SleepAgain` or
`Return`; `IntrEnter`, an `IntrEntry` for
each entry of the used ring, `IntrExit`. The device takes heads (`DevFetch`) and
finishes them in any order (`DevDone`). The indices are counters of `UINT16`
values.

**Fs** (`fs.c`, `file.c`, `sysfile.c`): the inode table, inode locks, links,
directories, path walks and the calls on names and descriptors. A step is one
section under `itable.lock` or `ftable.lock` with what is done under inode locks
around it; locks that the code holds over several sections are held over
several steps. A crash restores what the disk held between calls, as
`AtomicDisk` allows.

**FileIO** (`fs.c`, `file.c`): bitmap, direct and indirect blocks, `readi`,
`writei`, `itrunc`, and `filewrite` piece by piece, with the blocks each piece
hands to `log_write`. A byte is the file and position it was written for, so
that a byte found elsewhere tells; an older byte of the same position does not.

**Pipe** (`pipe.c` and the two `struct file` of a pipe). A step is one turn of a
loop under `pi->lock`; `kill` comes between any two. The counters have `UINT`
values; that `PIPESIZE` divides `UINT` (512 and 2^32) is an assumption. A user
address may turn out unmapped at any byte (`WriteDone` early, `ReadFault`).

**Sleep** (`proc.c`). `sleep` is `SleepLock` (takes `p->lock`), `SleepRelease`
(gives up `lk`), `SleepSched` (its CPU's scheduler releases `p->lock`), `Run`
and `Acquire` (takes `lk` again); `wakeup` is a loop with one step for each
process. `woke` and `tick` are history for the refinement.

**Proc** (`proc.c`, `trap.c`). State: the fields of `struct proc`, `nextpid`,
the locks, `cpu[c]` for `c->proc`, and for each kernel thread its place and
locals. Slot 1 is `initproc`. A step is one section under a `p->lock`, or one
acquisition or release of `wait_lock`; the loops go slot by slot. `GiveUp` is
`sched`: the process holds its lock until `SwitchOut`, when its CPU is off its
stack. `TimerExit` and `TimerYield` are the timer interrupt, `Fault` a trap that
kills. Files, memory and exit statuses are left out.

**Spin** (`spinlock.c`, `trap.c`, `proc.c`). A CPU executes a context: the
kernel side of a process or its own scheduler. What a context does is left open
within the kernel's lock order, with two locks at most at a time (the kernel
nests one or two more, below `wait_lock` or `p->lock`); exact is the book-keeping of `noff`, `intena`
and the enable bit, with interrupts between any two steps, and switches that
move a process, `push_off` half done, to another CPU.

**Mem** (`kalloc.c`, `vm.c`, `exec.c`, memory of `proc.c`). Every `kalloc` is a
step of its own, so that another process can take the last page between any two
and each call can fail at each of its allocations. Pages are interchangeable:
the free list is a number, an address space the set of its table pages and
leaves.

**Console** and **Uart**. `consoleintr` is one step, `consoleread` one step for
each turn of its loop. In `Uart` the test of `LSR_TX_IDLE` and the write to
`THR` are two steps (`StartReady`, `StartSend`), and printing without the lock
is `SyncTest` and `SyncWrite`. **Clock**: `ticks` and `ticks0` have `UINT`
values, and so has the `int` argument once it is compared with them.

**Umalloc**: the circular list, first fit from where the last call left off, and
a program that also calls `sbrk` itself. **ShParse**: the recursive-descent
parser, and a printer as its reference. **ShRun**: one system call of `runcmd`
is a step, with calls that fail.

`MCLog`, `MCProc`, `MCPipe` and `MCFs` add to one specification what TLC needs
(symmetry, the menus of calls in `FsMenus`). `MCStorage`, `MCKernel` and `MCLive`
put several specifications side by side: the variable `part` says which one a
behaviour runs, the others stay in their initial state. They extend the modules
the proofs are about, so that a property checked there is the one a theorem
states (the parts that do not run satisfy it in their initial state), and hold
`Fs`, `FileIO`, `Mem`, `Umalloc` and the shell as instances, whose properties
are stated for the behaviours of that part.

## Runs

| run | checks |
|---|---|
| `log` | `ImplementsAtomicDisk`: after a crash at any step, recovery included, the disk holds whole groups of whole calls. `PinBalance`: a buffer is pinned exactly while its block is logged and not installed. `SleeperMustWait`: nobody sleeps in `begin_op` without a reason. `DurableWhenQuiet` |
| `proc` | `StackExclusive`: no kernel stack is used by two CPUs or freed in use. `ParentAlive`: every process but the first has a parent that can still wait for it. `NoLostExit`: nobody sleeps in `wait` past an exit. `NewbornAlive`: no process is born killed. No deadlock among the spinlocks |
| `proc_live` | `ChildReaped` |
| `pipe` | `ImplementsFifo`; `NoUseAfterFree`; `SleeperMustWait`, until somebody is killed; `EofMeansClosed`: a read of some bytes that returns 0 found the pipe empty and its writers gone, or lost a byte to `copyout` failing; `CloseReleases`: closing one end ends the calls that wait at the other |
| `storage` | `Fs`: `ilock` finds no free inode and `unlink` none without links (`FsNoPanic`), link counts equal the entries (`FsLinksExact`), reference counts equal the holders (`FsRefsExact`). `FileIO`: every position of a file holds a byte written there, in a block of its own (`ReadsBack`), a piece of `filewrite` stays in its reservation (`FitsTransaction`). `Bcache`: `Coherent`, one buffer for a block and the last contents in it; `BgetFinds`, exact reference counts, so that `bget` panics only with every buffer held, awaited or pinned; `SleepLockHeld`. `Spin`: `LockDiscipline`, interrupts off while a lock is held, restored as they were, and no panic |
| `kernel` | `Sleep`: `ImplementsMonitor`. `Virtio`: `DriverConsistent`, descriptors belong to the calls in progress, no completion is missed and nobody sleeps for descriptors that are free; `ImplementsBlockDev`. `Clock`: `SleptEnough`, nobody returns early, also when `ticks` wraps or the argument is negative. `Console`: `ImplementsTty`, `ReaderMustWait`. `Uart`: `OutputFits`, no byte is lost in the device and writers wait only for a full ring; `OutputInOrder`. `Mem`: `PagesConserved`, `ImageExact`. `Umalloc`: `HeapPartition`. Shell: `ParsesBack`, `StdioExact` |
| `live` | `LogMoves`: who sleeps in `begin_op` is woken (it may find the log full again, for ever), recovery completes. `DeviceWaitsEnd`: disk requests return, output is sent, `sleep` returns. `PromptReturns`: the shell comes back. `NoPanic`: the log does not overflow when calls stay below their reservation |

Five runs state what the repository says and find it violated by the code:

* `log_full` (`NoPanic`): `begin_op` admits calls while their reservations fit in
  `LOGSIZE`, "max data blocks in on-disk log" (`param.h:10`); `mkfs` counts the
  header among them, so calls that use all they reserved reach the panic at
  `log.c:220`. The calls of `sysfile.c` stay below; `ReservationSuffices` proves
  that to be enough.
* `proc_kill0` (`NewbornAlive`): `kill` does not look at `p->state`, an unused
  slot has pid 0, and `allocproc` does not clear `killed`.
* `pipe_killed` (`KilledLeaves`): a `kill` between the test of `killed` and
  `sleep` wakes nobody, and the victim sleeps for good. `wait`, `consoleread` and
  `sys_sleep` have the same two steps.
* `fs_iput` (`FreedWithLastReference`): `iput` frees the inode and gives its
  reference up later; an inode allocated, linked and unlinked in between is never
  freed, against the comment at `fs.c:126-128`.
* `fs_dotdot` (`NoPanic`): `..` of a removed directory leads to a freed inode, and
  `ilock` panics (`fs.c:310`).

## Bounds

Each `.cfg` names its bounds; they are chosen so that every limit is met:

* `log`: three processes of which the log admits two; calls of two blocks out of
  three, so groups overlap and absorb each other's blocks. `live` has four
  blocks against the three that fit.
* `proc`: three slots give a parent, a child and a grandchild or a sibling; two
  CPUs the races of a switch. `MaxPid` ends `fork`, so a behaviour has two forks.
  `proc_live` has one CPU, for which every process competes.
* `pipe`: a ring of two bytes, counters that wrap at four, calls as long as the
  ring, one process that may be killed. The bytes written alternate from one
  round of the ring to the next (`Numbered`): the code does not look at them, and
  a byte left over in a slot shows. Both processes may close everything and stop,
  so deadlock is not checked.
* `storage`: `Menus` fixes what the two processes call (`links`, `cwd`, `odd`,
  `device`, `opens`), each menu small enough to be explored in full, with as many
  table entries as inodes; no menu of this run looks up `..` in a removed
  directory (that is `fs_dotdot`), and `dup` is in `device` only. Files have one direct and two indirect blocks of two
  bytes, and `BPB` of 5 gives two bitmap blocks. The cache has two buffers for
  three blocks, and two processes and a pin can use them up. `Spin` has two CPUs and two threads.
* `kernel`: three processes on one channel; two chains of three descriptors for
  three requests, with ring indices that wrap at twice the size of the ring;
  counters that wrap at 4 (`Clock`, `Uart`, `Console`); a heap of 9 units;
  all command trees of depth two for the parser, eight for `runcmd`; 17 pages of
  memory, too few for two processes to do all they want.

Symmetry is used in `log` and `proc`, their two violation runs, and `kernel`
(the requests of the driver); they check no liveness property.

## Fairness

The runs `proc_live`, `pipe`, `pipe_killed` and `live` assume fairness; the
others check safety only.

* Weak fairness for what a process or device does alone once it is under way: the
  end and commit of a call and recovery (`Log`), a switch (`Proc`), a device's
  fetch and completion, the rest of an interrupt handler, the draining of the
  transmitter, the shell's calls (`ShRun`).
* Strong fairness for steps that take a spinlock (`Test` of `Clock`, `Putc` of
  `Uart`, `IntrEnter` and the return of a request in `Virtio`, the kernel's steps
  in `Pipe` and `Proc`): others take and release the lock meanwhile, and
  `acquire` is a loop that is assumed to win it some time. The hardware does not
  promise that of `amoswap`; no liveness of any part holds without it.
* Strong fairness for the timer and for `Dispatch`: the scheduler's loop passes
  every slot, and the timer keeps interrupting.
* None for what a program chooses (to call, write, read, close or exit), except
  that `init` calls `wait` again, and that a killed process closes its files on
  its way out; none for the wait for a free descriptor, which can be overtaken
  for ever.

## Proofs

TLAPS proves the results below for every value of the constants. Each is an
inductive invariant (`Inv` of the specification, with the conjuncts that make it
inductive), the properties that follow from it, and for the refinements a step
simulation: `Init` implies the abstract `Init`, and every step is an abstract
step or leaves the abstract state alone.

| module | theorems | argument |
|---|---|---|
| `LogProofs` | `LogInvariant`, `TypeCorrect`, `PinsBalance`, `QuietIsDurable`, `SleepersHaveReason`, `ReservationSuffices`, `Refinement` (`ImplementsAtomicDisk`) | `LogInv` says for each phase of commit and recovery what the header, the log blocks, the home blocks and the cache have in common: up to the header write recovery would restore the old contents, from then on the new, however often `Install` is cut short |
| `BcacheProofs` | `CacheInvariant`, `CacheCoherent`, `PanicOnlyWhenFull` (`BgetFinds`), `NoLostRelease` | `CacheInv`: the list is a permutation of the buffers, `refcnt` is the number of callers and pins, a sleep lock is held by the caller that is past `acquiresleep`, and a valid buffer in use holds the latest contents, or its request is on the way |
| `ProcProofs` | `ProcInvariant`, `TypeCorrect`, `StacksAreExclusive`, `ParentsLive`, `ExitsAreNotLost`, `PidsAreUnique`, `NobodyBornKilled` | `ProcInv`: who holds which lock at each place (`RunInv`, `LockInv`), what a newborn slot may look like (`ForkInv`), how far `reparent`, the scan of `wait` and `wakeup` have come and what is settled below that (`ReparentInv`, `ScanInv`, `WokenInv`) |
| `PipeProofs` | `PipeInvariant`, `CallInvariant`, `TypeCorrect`, `FreedOnce`, `EofIsFinal`, `SleepersHaveReason`, `Refinement` (`ImplementsFifo`) | `PipeInv` ties `f->ref`, the descriptors, the open flags and the freed page together; `CallInv` bounds the bytes between the counters and says what a process past its tests may rely on; `Modular` shows that a slot of the ring is not reused while its byte is queued, through the wrap |
| `DeviceProofs`, on `Virtio` | `VirtioInvariant`, `DiskDriver`, `DriverImplementsBlockDev` | `VirtioInv`: the chains of the calls are disjoint (`ChainInv`); each head handed over is in exactly one of the available ring, the device and the used ring (`WorkInv`); the slots between a ring's two counters hold these heads, each once (`RingInv`), so there are fewer than `NUM` and the wrap is harmless |
| `DeviceProofs`, on `Clock` | `ClockInvariant`, `SleepLasts` (`SleptEnough`) | `ClockInv`: `ticks` is the number of ticks that have passed modulo its range, and the difference a sleeper computes is the time it has slept, as long as that has not reached its argument |
| `SpinProofs` | `SpinInvariant`, `InterruptsAndLocks` | `SpinInv`: `noff` counts the locks of the running context and a pending `push_off`, `intena` is what the outermost one found, and a context that is switched out left its value in `sched`'s frame |
| `ConsoleProofs`, on `Sleep` | `SleepInvariant`, `Refinement` (`ImplementsMonitor`) | `PassedInv`: the slots a running `wakeup` has passed hold no sleeper of its channel, because going to sleep needs the lock its caller holds |
| `ConsoleProofs`, on `Uart` | `UartInvariant`, `OutputIsSafe` (`OutputFits`), `OutputRefinement` (`OutputInOrder`) | `UartInv`: whoever is about to write to `THR` has seen it idle, one of them at most with `uart_tx_lock`, so what is in the FIFO and what is on its way to it fit; a writer goes to sleep under the lock with the ring full. The bytes between the two indices are the abstract queue |
| `ConsoleProofs`, on `Console` | `ConsoleInvariant`, `InputIsSafe` (`ReaderMustWait`), `InputRefinement` (`ImplementsTty`) | `ConsoleInv`: `e - r` is `(w - r) + (e - w)` over all wraps and at most the size of the ring, and there is no end of a line between `w` and `e`, so that `^U` stops at `w` and nowhere else. The characters from `r` to `w` and from `w` to `e` are the two sequences of `Tty`; storing, erasing and taking a character change one end of one of them |
| `Modular` | lemmas on `%` and on rings | the difference of two wrapping counters, the slots between them, and that a ring with no entry twice that leaves a value out is not full |

Assumptions, besides markers being distinct from the values they stand among:
`Log`, finitely many processes, `0 < OpBlocks <= MAXOPBLOCKS < LOGSIZE <= NLOG`;
`Pipe`, finitely many processes and `UINT` a multiple of `PIPESIZE` greater than
it; `Proc`, at least one slot; `Bcache`, finitely many processes and buffers;
`Virtio`, `UINT16` a multiple of `NUM` greater than it (65536 and 8 in the code);
`Clock`, arguments of `sleep` smaller in size than the range of `ticks`; `Uart` and `Console`,
ring sizes that divide the range of their indices and are smaller (32 and 2^64,
128 and 2^32), and for `Uart` a FIFO that holds a byte for each CPU that prints
and one more. For `Log`, `Sleep`, `Pipe`, `Proc`, `Clock`, `Uart` and `Console`
they are `ASSUME`s that the runs evaluate; for `Bcache`, `Spin` and `Virtio` they
are the hypothesis `Constants` of each theorem. Two theorems need more, and say
so: `ReservationSuffices`, `OpBlocks < MAXOPBLOCKS`; `NobodyBornKilled`, no
`kill(0)`.

Only model-checked:

* `LogMoves`, `DeviceWaitsEnd`, `PromptReturns`, `ChildReaped` and
  `CloseReleases`: liveness under fairness is outside the prover's reach.
* `ParsesBack` and `StdioExact`: their modules use recursive operators, and what
  a parser returns for every input is an induction over data.
* `ReadsBack`, `FitsTransaction` (`FileIO`) and `HeapPartition` (`Umalloc`): the
  states after a loop over blocks or over the free list are folds over data of
  any length.
* `FsNoPanic`, `FsLinksExact`, `FsRefsExact` (`Fs`), `PagesConserved` and
  `ImageExact` (`Mem`): they compare a counter with the size of a set that is
  spread over descriptors, directories, calls in progress or page tables, a sum
  over the processes in the case of `Mem`; no proof has been written.

## What is not modelled

* Memory ordering: steps are sequentially consistent. The fences of
  `spinlock.c` and `virtio_disk.c` are taken to do their work.
* Registers, trampoline, boot, the PLIC's registers, `printf`'s formatting,
  `mkfs`, the RAM disk (not built), and the sequential user programs.
* The contents of user pages, the kernel's own page table, `copyinstr`, `fstat`,
  `procdump`, and the failure paths of `pipe`.
* Panics for want of room in a table (`ialloc`, `iget`, `balloc`) and for blocks
  that cannot be read; `FsNoPanic` is about "ilock: no type" and "unlink: nlink <
  1" only. `bfree` of a free block is excluded by what `ReadsBack` says of the
  owners of blocks. The spinning of `uartputc` after a panic is left out.
* The order of `p->lock`s: a section under one is a step of `Proc`, so a wrong
  order would not show there.
* Details of one step: `dirlink` drops the reference to an entry it finds in the
  step that finds it; `exec` ends the same way for a header that cannot be read
  and for one that is malformed; `morecore` asks `sbrk` for less than 2^31 bytes;
  of the shell's calls one fails in a behaviour.
* An awake caller of `sys_sleep` that is kept from its test while `ticks` goes all
  the way round (`TickMayCome` excludes it; the code has nothing against it).

Behaviour of the code that the properties are stated around:

* A killed writer returns at `pipe.c:86` without waking readers for the bytes it
  stored, so `SleeperMustWait` of `Pipe` speaks of the time before the first kill.
* `piperead` whose first `copyout` fails returns 0, as at the end of the stream,
  with the pipe open and one byte lost; `EofMeansClosed` names the case.
* `bget` can run out of buffers: `NBUF` is 30, for 64 processes and a log that may
  pin 30. The panic is a reachable state of `Bcache`, and `BgetFinds` says what it
  means.
* `begin_op` promises no turn: a sleeper may be overtaken each time it is woken.
* `create` and `link` may put an entry into a directory that was just removed;
  from then on (`stray`) link counts are not exact. A crash with an open,
  unlinked file leaves its inode allocated (`lost`).
* `filewrite`'s reservation does not count a second bitmap block for the
  indirect block; with the two bitmap blocks of the model it still suffices.
* `sbrk` with a negative argument larger than the size succeeds and changes
  nothing. `writei` that fails in the middle of a block leaves the bytes it copied in
  the cache unlogged. `uartputc_sync` tests and writes without the lock.
