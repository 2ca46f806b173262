# Verification of the paging kernel

TLA+ models of the kernel in `src/OS-Assignment3` (xv6 for RISC-V with demand
paging to per-process swap files) and of the user programs that are more than
straight-line code. TLC checks them on small instances; for the paging core, the
write-ahead log, the process table and the buffer cache over the disk driver, TLAPS
proves the main invariants for every value of the constants.

## 1. The system and its parts

| Part | Source (kernel/ unless given) | State it owns | Talks to | Here |
|---|---|---|---|---|
| Paging framework | vm.c, trap.c, proc.h | page tables, `data[]`, `pagesInMemory` | allocator, swap files, scheduler | `Paging` and its parts |
| SCFIFO queue | vm.c `in`, `out`, `removePage`, `scfifo` | `pages[]`, `head`, `tail`, `numOfPages` | paging | `PageList`, `PageFifo`, `PageRing` |
| Swap files | fs.c 668-831 | one file per process | inodes | slots in `Paging`, bytes in `FileBlocks`, names in `Fs` |
| fork, exec, exit, wait, sbrk | proc.c, exec.c, sysproc.c | process table | paging, allocator | memory in `Paging`, states and locks in `Proc` |
| Physical allocator | kalloc.c | free list | everyone | `free` of `PagingState` |
| Scheduling, sleep, wakeup, kill | proc.c, trap.c | process states, `wait_lock` | everyone who waits | `Proc` |
| Spinlocks, sleep-locks | spinlock.c, sleeplock.c | `locked`, `noff`, `intena` | everyone | `Proc`; sleepers of sleep-locks in `BlockIo` |
| Write-ahead log | log.c | `log`, log area on disk | buffer cache, sleep/wakeup | `Log`, `AtomicDisk` |
| Buffer cache | bio.c | buffers, reference counts, LRU list | disk, log, inodes | `BlockIo`; pins in `Log` |
| Disk driver | virtio_disk.c | descriptors, rings | device, cache | `BlockIo` |
| Inodes, directories, paths | fs.c, sysfile.c | inode table, directories | log, cache, processes | `Fs` |
| File contents | fs.c, file.c | bitmap, block addresses, offsets | inodes | `FileBlocks` |
| Files, descriptors, pipes | file.c, sysfile.c, pipe.c | file table, `ofile[]`, rings of bytes | sleep/wakeup | `Files`, `ByteStream` |
| Console, serial port | console.c, uart.c | input and output rings | interrupts, sleep/wakeup | `Console`, `LineBuffer` |
| Shell, init | user/sh.c, user/init.c | descriptors, children | files, processes | `Shell`, `ShellParser`; init also in `Proc` |
| User allocator | user/umalloc.c | free list | sbrk | `Umalloc` |
| grep | user/grep.c | line buffer | read | `Grep` |
| Boot, PLIC, printing, strings, assembly | main.c, start.c, plic.c, printf.c, string.c, *.S | | | not modelled: straight-line set-up, formatting, registers |
| Other programs and tests | user/ | | | not modelled: clients whose calls the models enumerate |

`PROJECT.json` lists the parts with their status, the lines each definition
models, and the hazards the code is exposed to with the properties that cover
them.

## 2. The modules

### Paging

**PageList** has the SCFIFO queue as a sequence, with the loops of
`removePage()` and `scfifo()` in closed form. **PageFifo** is the abstract
queue made of these operators. **PageRing** is the code: the ring buffer and
the loops, as folds whose bound is read again at every turn as in the code.
`RingImplementsFifo` is the refinement, so the paging modules may use the
sequence.

**PagingState** has the state and what the calls share. One record per PTE keeps
PTE_V, PTE_PG, PTE_A, the frame and whether any of R, W, X, U is set. `meta[p]` is
the metadata of struct proc, `swapFile[p]` the file as a sequence of slots,
`free` the free list, `mem` the contents of frames, `act[p]` the place of
process p in the kernel. A loop over pages takes one step per page, since each
turn calls `kalloc()` or `kfree()`, which other CPUs call at the same time.
`shadow` is a history variable: what the user last wrote. The actions:

| Module | Actions | Code |
|---|---|---|
| `PagingSwap` | `Touch`, `SwapInStart`, `SwapInFinish`, `Tick` | user accesses, `usertrap()`, `swap_in()`, `updateAging()` |
| `PagingGrow` | `Grow`, `GrowEvict`, `GrowMap`, `GrowPage`, `GrowFail`, `GrowDone`, `Shrink` | `growproc()`, `uvmalloc()`, `uvmdealloc()` |
| `PagingUnmap` | `UnmapPage`, `UnmapDone`, `exit`, `Wait` | `uvmunmap()` and what its caller does next, `exit()`, `wait()` with `freeproc()` |
| `PagingFork` | `Fork`, `ForkCopy`, `createSwapFile`, `copySwapFile`, `ForkDone` | `fork()`, `uvmcopy()`, the swap file functions |
| `PagingExec` | `Exec`, `ExecPage`, `ExecBad`, `ExecCommit` | `exec()` |
| `Paging` | `Killed`, `Exit`, `Halted`, and `Init`, `Next`, the properties | faults that kill, `panic()` |

`page_to_file()`, `getOffset()`, `getIndexToRemove()` and the policies are
operators of `PagingState`.

### Processes

**Proc** has CPUs with `noff`, `intena` and the interrupt enable bit, every
spinlock with its holder, and for each process its entry and where its kernel
thread is. A step ends where the code acquires a spinlock, or where another CPU
or an interrupt could tell. `timer` may come at every step where interrupts are
enabled, and leads through `clockintr` and `yield` as in `usertrap()` and
`kerneltrap()`. Programs are init, shells and their children; they fork, wait,
sleep, kill and exit.

### Files

**Files** is the file table, descriptors and pipes; `sleep()` and `wakeup()` are
taken from `Proc` to be atomic under the pipe's lock. `pipe()` may fail at each of its
stages, for want of an entry, a page or two descriptors or because the copy of the
descriptors fails, and then closes its files one by one (`pipe_undo`). Copies from and
to user memory may fail at each byte, and a writer may be killed between two bytes. **Shell** puts it to use: a process has a script of
the calls that `runcmd()` makes for a pipeline, a list, a redirection or a
background command, and programs that read or write. **ByteStream** is what a pipe promises.

**Fs** has inodes on disk and in memory, directories, current directories, open
files and swap files. A call goes from one `ilock()` to the next in one step. The
steps of `iput()` that free an inode are apart: it has released `itable.lock`
and, before its last step, the inode too. **FileBlocks** has the contents: `bmap()` with
the indirect block, `writei()` block by block, the chunks of `filewrite()`, unsigned
arithmetic that wraps.

**Log** is `log.c` with the pins of the buffer cache, one step per disk write, a
crash possible everywhere, and recovery. **AtomicDisk** is what it promises:
operations write blocks, and only states without an operation under way become
durable. **BlockIo** is the buffer cache over the disk driver over a device that
takes requests in order and answers in any order. Its interrupt handler takes one
step per entry of the used ring, so that the device may add to the ring at every moment.
`bget()` serves every call for every block, pinned or not; of the callers only
`install_trans()` is held to what log.c does, to write a block home once for each
pin (`Owed`).

### Console and programs

**Console** has the input ring with its three indices, readers whose copies may fail at
any byte, the transmit ring with its writers, the port and its interrupt; **LineBuffer** is what it promises
to readers. **ShellParser** is the recursive descent of sh.c on positions in the
line, next to a grammar that says which trees derive a line. **Grep** is the
buffer that cuts the input into lines and the matcher, next to the language of a
pattern. **Umalloc** is the circular free list, next to the partition of the
heap into used and free units.

### Instances

`MCPaging`, `MCUser`, `MCLog`, `MCShell`, `MCFs` and `MCBlockIo` hold the constants
of their runs. `MCSequential` and `MCProgress` put components that share no
state side by side: the initial state chooses one of them (`kind`), and the
others stay as they are; `MCUser` chooses one of two replacement policies
(`policy`) in the same way. What is checked of a component there is what its module says,
and nothing is claimed about their interaction.

## 3. What the runs show

### Paging

- `PagingFamily` (SCFIFO, too little memory): a user process makes every call,
  `exec()` fails for lack of memory only, and its children grow and exit next to
  it. It checks `TypeOK`, `FramesOwnedOnce` (no frame shared, leaked or freed
  twice), `MetadataAgrees`, `VictimExists`, `FreewalkFindsNoLeaf` and `NoRemap`.
  These hold although `uvmunmap()` updates the metadata of the calling process
  when it works on another table.
- `PagingUser` (SCFIFO or NFUA, enough memory), for programs that grow, exec and
  touch their pages: `Transparent` (every page is resident or in its slot with the
  content last given to it, so no two share a slot); `FaultsServed` (under SCFIFO
  the process gets past every fault); and `OnlyNfuaPanics`: no panic under SCFIFO,
  and under NFUA only that of `walk()` after `nfua()` found no page, because all were
  accessed before the last tick (vm.c:566).
- `PagingAging`: the same programs under LAPA with ticks at any moment.
  `Transparent` and `NoPanic` hold.
- `PagingParent` is expected to be violated: `wait()` forgets slots of the
  parent's swapped-out pages (vm.c:226), and the parent then meets the
  assertion of `swap_in()`.

Programs that shrink, fork with swapped-out pages, or grow by more pages at once
meet other places where the code departs from its comments or from the assignment (`src/assignment
description.pdf`). They are in the models, and the workload of `PagingUser`
keeps away from them:

| Place | What happens |
|---|---|
| vm.c:678 | after a shrink, `swap_in()` maps the page with PTE_V only; the retry faults and the process is killed |
| exec.c:129 | `exec()` loses the count of its own pages when it frees the old image; more than MAX_PSYC_PAGES become resident |
| vm.c:298 | growing by several pages, `getOffset()` runs out of slots below the old size and gives slot 0 twice; `MaxGrow` is 2 or 1 in the runs, which is too little for it |
| vm.c:436 | `uvmcopy()` skips swapped-out pages, and the child is killed when it touches one |
| fs.c:826 | `copySwapFile()` loses slots that it meets beyond the end of the child's file |
| exec.c:32 | a failing `exec()` has already reset the metadata |
| vm.c:183 | `removePage()` makes the newest page the oldest (see `PageRemoved`) |

### File system

- `Fs`: two processes create, open, link, unlink and make directories under the
  same names, change directory, close, and make and remove swap files.
  `RefsCounted` (ref is the number of pointers), `LinksCoverNames` (no name
  outlives its inode, and inodes in memory agree with the disk), `NoPanic`, and
  `CallsReturn`: no two calls wait for each other's inodes.
- `FsOrphan` is expected to be violated. `iput()` frees an inode without a name and
  releases it before it lowers `ref` (fs.c:352-357). If another process allocates
  the same inode in between, gives it a name and unlinks it again, that process's own
  `iput()` sees `ref` 2, and the first one does not look again: the inode stays
  allocated without a name or a reference.
- `LogAtomic`: `AtomicOperations` (refinement of `AtomicDisk`, with
  crashes at any step), `QuiescentIsDurable` (with no operation under way, what the
  cache shows is what a crash would recover) and `Reserved` (promised space is there,
  and no panic is met), for operations that write fewer blocks than they reserve.
  Operations of exactly MAXOPBLOCKS blocks would overflow a log of LOGSIZE blocks
  with its header (log.c:220, mkfs.c:25).
- `BlockIo`: `CacheCoherent` (a block has one buffer, and who has it is alone and
  sees the last contents of the block), `DescriptorsSound` (chains are disjoint
  and none is lost), and `CallsReturn`.
- `Sequential`, blocks: `BlocksOwnedOnce` (no block is shared or leaked, and no
  file has holes), and `WritesLand`: a step of
  a write changes the bytes at its offset, as many as it says, and nothing else.
  A copy from user memory that fails inside a block leaves the bytes before the
  failure in the block (fs.c:501); the property allows that and no more.

### Processes, pipes and the console

- `Proc` (two CPUs): `LocksCounted` (the depth of `push_off()` is the number of locks
  held, interrupts are off under a lock and in a handler, and `sched()` meets no
  panic), `OneStackOneCpu`, and `NoLostWakeup` (nobody sleeps in `wait()` over a
  zombie, and every process has a living parent).
- `Progress`, one component at a time: `ShellRestarted` and `SleepReturns` of `Proc`;
  `SleeperWakes` of `Log`; `AllSent` of console output (everything written is sent, in
  order).
- `Sequential`, console input: `LinesEdited` (refinement of `LineBuffer`) and
  `SleepsWithoutInput` (a reader sleeps only while there is nothing to read).
- `Pipeline`: `FilesCounted` (of file table entries, and of the ends that keep the
  page of a pipe), `EofIsFinal` (the end of the data is reported only when nobody
  can write any more), `PipeIsStream` (refinement of `ByteStream`), and
  `BackAtPrompt`: whichever of the commands of `MCShell` is typed and whoever is
  killed, the shell prompts again and nothing of the command is left.

### Algorithms

`Sequential` checks, next to the blocks of files and the lines of the console, `RingImplementsFifo` of
`PageRing`; `ParserMatchesGrammar` of the parser (accepted lines and trees are those
of the grammar, and every word ends where it should); `PrintsMatchingLines` of grep,
where a line that fills the buffer ends the run and a last line without a newline is not
printed, as in the code; and `UnitsOwnedOnce` of malloc and free (no unit of the
heap is shared or lost, free neighbours are joined, malloc fails only without
room).

### Bounds

- `Paging`: 3 or 4 pages with a limit of 1 or 2 resident pages, so that eviction,
  swap-in and two pages in the swap file all occur. Process 1 is init, 2 the
  shell, 3 and 4 user programs: parent and child are the closest relation the
  code knows. 5 frames make every `kalloc()` fail at some point; 7 are enough for
  everyone. `TopBit` 1 or 2 gives aging counters of one or two bits,
  `FirstCandidate` 0 or 1 stands for the 3 of the code in a smaller address
  space. Contents name their page, so one or two versions per page are enough.
- The views `Shape...` of `MCPaging` merge states that differ in the identity of
  frames or, for the structural invariants, in contents. No guard reads either,
  so merged states have the same futures up to renaming; the value of
  `FramesOwnedOnce` is part of the view that is used to check it.
- `Log`: two processes, three blocks, two values: absorption, a transaction of
  both processes, and a reservation that makes the second process wait all
  occur. Processes are symmetric (safety only).
- `Proc`: two CPUs and three processes for the invariants: a parent, a child and an
  heir, with one CPU on each side of every race. One CPU for liveness, where all must
  share it.
- `Fs`: two processes, three calls (`MaxCalls`), four inodes: one call per process and one that
  prepares or spoils them. `BlockIo`: three processes on three buffers, descriptors
  for two requests, indices about to wrap; a third request has to wait. A block may be
  logged again while it is pinned or being installed; the proofs cover every other
  combination of calls and blocks.
- `Files` and `Shell`: five processes, a pipeline of up to three programs, four
  entries of the file table so that it may be full, a pipe of two bytes and
  counters that wrap at four, one kill.
- `Console`: rings of two characters, indices about to wrap at eight, three
  characters typed, two readers or two writers.
- `FileBlocks`: blocks of two bytes, one direct and two indirect blocks, unsigned
  numbers below 16, three operations (`MaxOps`). `ShellParser`: all lines of up
  to five characters. `Grep`: all patterns of up to three and inputs of up to
  four characters. `Umalloc`: a heap of nine units. `PageRing`: four slots, every order.

Runs with `CHECK_DEADLOCK FALSE` have a bounded number of calls, characters or
operations, after which the system is at rest. The others (`Paging`, `LogAtomic`,
`Proc`) can always go on, and TLC checks that they do.

### Fairness

- `Paging`: weak fairness of each process's continuation in the kernel and of the
  retry of a faulting instruction, because `scheduler()` goes round all runnable
  processes. None on what programs choose to call.
- `Proc`: handlers go on; a timer interrupt stays pending until it is taken, and
  a spinlock or a turn of the scheduler that is free again and again is got in the
  end (strong fairness), which is what `scheduler()`'s rounds and the hardware's
  atomic swap are trusted for. init makes its calls, other programs need not.
- `Log`: a commit goes on, disk requests complete, a woken process runs, and an
  operation that has begun ends, because no system call waits inside one without
  bound.
- `Fs`, `BlockIo`, `Files`: a process that can go on does; the device answers and its interrupt
  is served. Sleepers are woken only by the code.
- `Console`: the port sends what it was given and its interrupt is served.

## 4. What is proved

For every value of the constants that satisfies the assumptions named in the
modules:

| Theorem | Statement |
|---|---|
| `PagingProofs`: `InvHolds` | `Spec => []Inv` |
| `TypeCorrect` | `Spec => []TypeOK` |
| `MetadataAlwaysAgrees` | `Spec => []MetadataAgrees` |
| `VictimAlwaysExists` | `Spec => []VictimExists` |
| `FreewalkNeverFindsLeaf` | `Spec => []FreewalkFindsNoLeaf` |
| `NeverRemaps` | `Spec => []NoRemap` |
| `FramesAlwaysOwnedOnce` | `Spec => []FramesOwnedOnce` |
| `LogProofs`: `LogInvariant` | `Spec => []LInv` |
| `AlwaysReserved` | `Spec => []Reserved` |
| `AlwaysDurable` | `Spec => []QuiescentIsDurable` |
| `LogIsAtomic` | `Spec => AtomicOperations`, the refinement of `AtomicDisk` |
| `ProcProofs`: `ProcInvariant` | `Spec => []PInv` |
| `LocksAlwaysCounted` | `Spec => []LocksCounted` |
| `AlwaysOneStackOneCpu` | `Spec => []OneStackOneCpu` |
| `WakeupsNeverLost` | `Spec => []NoLostWakeup` |
| `BlockIoProofs`: `CacheInvariant` | `Spec => []BInv` |
| `CacheAlwaysCoherent` | `Spec => []CacheCoherent` |
| `DescriptorsAlwaysSound` | `Spec => []DescriptorsSound` |

### Paging

For any number of processes, frames and pages, any limits, workload and policy.
None of the properties is inductive alone: that a page marked in use is
resident depends on which table `uvmunmap()` is working on and how far it has
come; that depends on `p->sz` covering the table; and that depends on what every
half-done call has mapped. `Inv` therefore has, for each process, `ActOK` (what
each point of the kernel implies, and that no two processes work on the same
child), `TablesOK` (which pages a table can have at each point) and `MetaOK`
(queue, counter and marks agree, with the table of `Tracked`). The key fact for
`VictimExists` is that `uvmunmap()` lowers `pagesInMemory` whenever it may take a
page off the queue, and stops at zero.

`FramesOwnedOnce` needs a second invariant, `FrameInv`, relative to `Inv`. The PTEs of
all tables and the buffer of `swap_in()` are cells of one function, `held`; two cells
never hold one frame, and a frame is free exactly when no cell holds it. A step of the
kernel is then a frame taken into an empty cell, given back, moved, or two tables
exchanged, and `NoRemap` says that the cell was empty.

The assumptions: processes 1 and 2 exist, limits are positive and ordered, images
fit in MAX_PSYC_PAGES (the assignment says programs are smaller), memory holds the
shell's image, and no frame is the null pointer.

- `PagingMetaProofs`: each change of the metadata keeps `GoodMeta`; what a step
  leaves of `Inv` for the processes it does not touch; what `swap_in()` finds; and
  one lemma for each action of `fork()`, `exit()` and `wait()`.
- `PagingMemoryProofs`: one lemma for each action of growth, faults and `exec()`, and
  for unmapping one's own pages.
- `PagingFrameProofs`: the four updates of `held`, and one lemma per action.
- `PagingProofs`: `Init`, `Next`, and the theorems.

### The log

For any number of processes and blocks. `LInv` says what the headers in memory and
on disk, the log area, the home blocks, the cache and the pins have to do with each
other in each phase of a commit and of recovery (`Phases`, `CacheOK`, `DlogOK`), and
counts the operations under way against their reservations (`Counted`). The
refinement follows step by step: the write of the header is the moment at which
`AtomicDisk` makes a state durable, a crash before it falls back to the last such
state, and every other step of a commit or of recovery is a stutter.

The assumptions: sizes are positive, the set of processes is finite, and an operation
writes fewer blocks than it reserves, as far as `OpBlocksAssumption` says. Without it
`Reserved` is false (see `LogAtomic` above).

### Processes

For any number of CPUs and processes. `PInv` says which locks a CPU holds, as a
function of the place of the thread that it runs (`CpuOK`); that this thread is on no
other CPU (`RunOK`); how the state of a process and the place of its thread agree
(`StateOK`); that `fork()`'s child is in nobody else's hands (`KidOK`); and what
`exit()` and `wait()` know of a family (`FamilyOK`): who is in `sleep()`, or about to
call it with `wait_lock` held, has children and no zombie among them; who is about to become a
zombie has given its children away and has woken its parent. The last two cannot be true at
once, because `wait_lock` is held across both (`WaitLockOnce`); this is what a lost
wakeup would contradict. Steps that take a lock, switch threads, wake sleepers or
change a family share a lemma each (`MovesInv`, `SwitchInv`, `WakesOnlyInv`,
`FamilyStep`). The assumption `NamesAssumption`: there is a process, and no CPU is
numbered 0, which stands for nobody.

### Buffer cache and disk driver

For any number of processes, buffers, descriptors and blocks, and any place of the ring
indices before they wrap. That `bread()` shows the last contents of a block is not
inductive: it depends on what the device did with the request, and so on the
descriptors that describe it. `BInv` has two halves. In the cache, `refcnt` is the
number of calls that have or want the buffer plus one for the log's pin (`CountOK`),
`locked` and the place of the owner name each other (`LockOK`, `PlaceOK`), no two
buffers have one block (`OneBuffer`), and the last contents are in the buffer if it
is valid, and on the disk unless a pin or a writer still owes them (`DataOK`). So
`bget()` recycles only what nobody has and the disk already holds. In the driver,
the chains of the requests under way are disjoint, describe their buffers and are
all that is not free (`ChainsOK`), and each such request is in the available ring,
with the device, in the used ring, or finished (`StagesOK`); once it has left the
device, disk and buffer agree. `RingPut`, `RingTake` and `RingEmpty` are about a ring
whose index wraps at `IdxRange` while its slots wrap at `NUM`. Steps that leave the
driver alone share the lemmas `LocalStep`, `RefStep` and `DriverKept` with those of
the cache (`BlockCacheProofs`), and `DeviceStep` and `StagesStep` serve the device and
the handler (`BlockIoProofs`).

The assumptions: sizes are positive (`SizesAssumption`), the index range is a multiple
of the ring and larger (`IndexAssumption`; 65536 and 8 in the code), and at the start
the buffers hold different blocks (`BlocksAssumption`).

Leaves that only move facts about functions and Booleans around cite Zenon; the
SMT solver does the arithmetic.

### Only model-checked

Liveness (`FaultsServed`, `SleeperWakes`, `BackAtPrompt`, `CallsReturn`,
`ShellRestarted`, `SleepReturns`, `AllSent`) is out of the prover's reach. So are
`ShellParser`, `Grep`, `FileBlocks`, `Umalloc` and `PageRing`, where what a recursion
or a fold computes would have to be proved by induction over data. `Transparent`,
`NoPanic` and `OnlyNfuaPanics` hold for the workloads of their runs and not for every
value of the constants (see the table in section 3). The invariants of `Fs`, `Files`
and `Console`, and the refinements of `LineBuffer`, `ByteStream` and
`PageFifo`, are checked on their instances only.

## 5. Not modelled

- Sizes beyond MAX_TOTAL_PAGES (vm.c:325 then indexes past `data[]`), and
  SELECTION=NONE, which switches paging off.
- The user guard page of `exec()`, ELF headers and the argument stack; page-table
  pages, trapframes, kernel stacks and pipe buffers, which share the free list
  but are not counted.
- Which copies between kernel and user memory fail because a page is swapped out
  (vm.c:480): in `Files`, `FileBlocks` and `Console` any copy may fail at any byte, and
  no module joins them to `Paging`. The failing `copyout()` of `wait()`.
- In `Paging`, `kill()` is an `Exit` at another moment, and process identifiers are
  table slots; an `exec()` that fails frees its new image in one pass.
- In `Proc`, `fork()`'s last two critical sections are one step, and files and memory are
  left out.
- In `Fs`, the references of `fork()` and `exit()` to the current directory, device
  numbers, names longer than DIRSIZ, more than one open file per process; a full
  disk is a panic there and does not occur in `FileBlocks`. `".."` of a directory
  whose parent was removed too takes more calls than the run makes (fs.c:312).
- `Fs` and `FileBlocks` take transactions from `Log` to be atomic; `FileBlocks` keeps bytes
  that were copied but not logged, which the cache may also forget.
- In `Log`, device errors and torn writes of one block.
- In `BlockIo`, a cache without an unused buffer (the panic of `bget()`), the
  device's set-up, and recovery, which writes home blocks that are not pinned. That
  `commit()` waits for the operations under way is in `Log` only: here a block may be
  installed while it is logged again.
- In `Console`, ^P, the text of the echo, and two CPUs that see the port idle at once
  (uart.c:126).
- In `Shell`, `cd` and the end of the shell's input.
- Boot, PLIC, printing, string functions, assembly, and the programs that only
  exercise the kernel.
