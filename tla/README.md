# xv6-riscv: a TLA+ verification project

This directory models this repository's kernel (`src/kernel`, an xv6 for RISC-V
with added scheduling policies), its first process and its shell (`src/user`)
in TLA+. TLC model-checks every module on small instances; TLAPS proves the
safety theorems of the process table, the log, the buffer cache, pipes and the
console for every size.

| modules | part of the system | run by | proofs |
|---|---|---|---|
| `Proc`, `ProcInv` | process table, sleep/wakeup, context switch (`proc.c`, `trap.c`) | `MCProc` | `ProcHandover`, `ProcProofs` |
| `Cfs` | the compiled-in scheduling policy (`proc.c`, `trap.c`) | `MCCfs` | none |
| `AtomicDisk`, `Log`, `LogInv` | write-ahead log (`log.c`) | `MCLog` | `LogSteps`, `LogProofs` |
| `Virtio`, `Bcache`, `BcacheInv` | disk driver (`virtio_disk.c`), buffer cache (`bio.c`), sleep locks (`sleeplock.c`) | `MCBcache` | `BcacheProofs` |
| `Fs` | inode table, directories, paths (`fs.c`), open files (`file.c`), calls on names (`sysfile.c`) | `MCFs` | none |
| `Inode` | blocks and contents of files (`fs.c`, `file.c`) | `MCInode` | none |
| `Channel`, `Pipe` | pipes (`pipe.c`) and their file table entries (`file.c`) | `MCPipe` | `RingLemmas`, `PipeProofs` |
| `Vm` | page allocator, page tables, exec (`kalloc.c`, `vm.c`, `exec.c`, `proc.c`) | `MCVm` | none |
| `Console` | console and UART (`console.c`, `uart.c`) | `MCConsole` | `RingLemmas`, `ConsoleProofs` |
| `Sh` | init and the shell (`init.c`, `sh.c`) | `MCSh` | none |

`PROJECT.json` lists components, runs, mutants, the map from definitions to
source lines, findings, hazards and theorems.

## 1. The parts and how they meet

| part | state | hard behaviour |
|---|---|---|
| processes | `proc[]`, `wait_lock`, `cpus[].proc` | a lock handed over across `swtch`, lost wakeups, orphans, kill races |
| scheduling policy | `cfs_priority`, `rtime`, `stime`, `retime`, `accumulator` | starvation, unlocked writes, division by zero |
| log | `log.lh`, `outstanding`, `committing`, the log on the disk | a crash at any write, a crash in recovery, a full log |
| buffer cache | buffers, LRU list, `refcnt` | recycling, exhaustion, sleeping while a buffer is held |
| disk driver | descriptors, two rings, `used_idx` | interrupt against submission, indices that wrap |
| inode table, directories | `itable`, dinodes, entries | the last reference against the last link, undo on failure |
| files | bitmap, `addrs`, indirect blocks, contents | blocks lost or shared when a write stops half-way |
| pipes | ring, `nread`, `nwrite`, open flags | wrap-around, two ends closing, lost wakeups |
| memory, exec | free pages, page tables, images | out of memory half-way, a failed exec |
| console, UART | two rings with indices, `THR` | editing across a wrap, output that stalls |
| init, shell | process tree, descriptors, pipes | a pipe end left open, waits that meet the wrong child |

`Proc` shows that sleep() with a held lock is atomic with respect to wakeup()
under that lock (`NoLostWakeup`); the other modules treat sleep() that way.
`Proc` lets a scheduler pick any RUNNABLE process, which every policy refines;
`Cfs` says which one the compiled-in policy picks. `Bcache` EXTENDS
`Virtio` and runs on it; its `Coherent` is what `Log` takes for granted when it
reads a block through the cache, and `Log`'s `CrashAtomic` is why `Fs` and `Inode`
may leave crashes out. `Inode`'s `WriteFitsTransaction` is the reservation that
`Log` assumes of its callers. `Sh` uses processes and pipes as `Proc` and `Pipe`
describe them.

## 2. Modules, state and actions

**Proc.** A slot of `proc[]` is a number; `state`, `chan`, `killed`, `pid`,
`parent` are its fields, `lock[p]` is the CPU that holds `p->lock`. Each CPU is
in its scheduler loop (`cpc = "scan"`), inside a process (`"run"`), just back
from `swtch` (`"back"`) or stopped by `panic` (`"halted"`). The kernel thread of
a process is at a label `pc[p]`; one label is one critical section, or one
iteration of a loop over the table, so all interleavings of fork, exit, wait,
kill and wakeup are there. A timer interrupt (`Timer`) may come wherever no
spinlock is held. That a page allocation fails is the choice between `ForkFail`
and `ForkCopy`. exit() may sleep again and again while it closes files
(`CloseSleep`, for a lock, a disk block or log space, all on the channel `Files`)
before it takes wait_lock; whom it waits for calls wakeup() (`CloseWakeup`).
`MAXPID` bounds the pids, `Unruly` is the set of slots whose programs fault or
call kill().

**Cfs.** The counters are reduced to zero/non-zero: the decay expression of the
code is 1 for priority 0 and else 0, so `vruntime` is -1 (division by zero on
RISC-V), 0 or 1 and depends on no more. Forks are not bounded: pids matter only
up to `EXEMPT`, so that `nextpid` stops after it. `asked` is a history variable.

**Log.** `disk`, `dlog`, `dn`, `dblock` survive a `Crash`, all else does not.
Each synchronous disk write is a step; a crash may tear the data block in
flight. The header takes less than a sector (31 words) and is written whole.
A process is idle, asleep in begin_op, inside an operation, holding a changed
buffer, or committing. `Evict` is bget() recycling any unpinned buffer.
`AtomicDisk` is the abstract disk: operations change the current contents, a
commit makes them stable at once when no operation runs, a crash falls back to
the stable contents. The refinement mapping reads the current contents through
the cache and the stable ones through the on-disk log (`Recovered`).

**Virtio.** `free`, `desc`, `info`, `avail`, `used` and `usedIdx` are the fields of
`struct disk`, `rw[p]` is the call of virtio_disk_rw() of a process. The
driver holds `vdisk_lock` from one sleep() to the next, so such a section is one
action; the handler takes one entry of the used ring per step, with
the device (external) taking and finishing requests in between, in any order.
The indices count modulo `NUM * WRAPS`.

**Bcache.** `lru` is the list, `buf` the buffers, `lock` their sleep locks. A
process goes through bget() (`Bget`), acquiresleep() and bread() (`Bread`,
`BreadDone`), what it does with the buffer, and the two halves of brelse()
(`ReleaseSleep`, `Brelse`), each a critical section of its own. The buffer of a
home block is changed and pinned by log_write() (`LogWrite`) and written and
unpinned by the commit (`InstallTrans`); that of a block of the log
(`LogBlocks`) is written at once and never pinned (`WriteLog`, for write_log() and
write_head()). `latest` is a history variable: what was last stored in each block.

**Fs.** A process carries what it has still to do in `todo[p]`, a sequence of
ilock, iunlock and iput calls and of the sections of a system call between
them. Only ilock() waits. `dinode` is the disk, `inode` the table entry of each
inode number, `ftable`, `ofile` and `cwd` the open files. Paths are sequences of
names. A directory is a function from names to inode numbers; dirlink() may find
the disk full. iput() is three steps (`Iput`, `IputFree`, `IputEnd`), because it
gives up `itable.lock` in the middle.

**Inode.** filewrite() is one step per chunk (`WriteStart`), per block
(`WriteBlock`, with any number of bytes copied before copyin() fails) and at the
end (`WriteEnd`). `Bmap` and `Balloc` compute the new map of a file, the bitmap and
the blocks logged. A block that was logged stays in its buffer until the
transaction ends and commits it (`EndOp`); a buffer that was changed and not
logged, as after a failed copyin(), may be recycled, and its change is then lost
(`Recycle`). `text` and `partial` are history variables, the contents each file
should have and the bytes of failed copies that may show beside them; `logged` is
what the transaction of a process has logged. Offsets and sizes are `uint`, modulo
`UINT`.

**Pipe.** The loops of piperead and pipewrite run under `pi->lock`, one byte per
step; kill() may come between. The counters count modulo `UINT`. `ref` and
`holds` are the reference counts of the two file table entries and the
descriptors behind them. `abandoned` is a history variable: a writer was killed
between two bytes and nobody has been woken since. `Channel` is the abstract
FIFO queue; the refinement mapping reads the ring from `nread` to `nwrite`.

**Vm.** The page table functions are recursive operators on a memory `mem` (free
pages, three-level tables of fan-out `FAN`, contents), each returning the memory
it leaves. A system call is one action: fork(), exec(), sbrk() and exit() of
different processes share only the free list, which is under its own lock, and a
failing kalloc() stands for pages that others have taken: the action chooses how
many allocations (`left`) and reads of the program (`reads`) succeed. `SysExec`
takes a page for each argument and gives all of them back, on success, on a
failure of exec() and at its own `bad` label. `Store` is a call that stores its
result in its caller, `GetCfsStats` the one that stores it in the process it asks
about. `image` is a history variable: the memory a process has been promised.

**Console.** `cons` and `tx` are the two rings with their indices modulo
`UINT`/`UINT64`. uartintr() is a process of its own (the PLIC gives the interrupt
to one hart at a time); the test of LSR and the write to THR are two steps, and
so are killed() and sleep() in consoleread(), since kill() takes no `cons.lock`.
`lines`, `edit`, `put` and `out` are history variables: the input entered and
not read, the line being edited, and the output counted. Input is stored before
it is echoed, not after: `cons.lock` is held over both.

**Sh.** The parser is the recursive descent of sh.c on sequences of tokens. A
process is at a label of init's, the shell's or runcmd()'s code, with its
descriptors in `fd`; fork(), exit(), wait(), dup() and close() are as in the
kernel. A program (external) ends when it likes, and must end when its input has
ended and its output is taken. open() and exec() may fail at any time, also init's
exec() of the shell (`InitExec`), fork() when
there is no slot and pipe() when there is no pipe.

## 3. Runs

| run | checks | bounds |
|---|---|---|
| `proc` | KernelStackExclusive, OnlyInitPanics, NoLostWakeup, ParentAlive, NoCircularWait, ReapedByParent, and the inductive invariant Inv | 3 slots, 2 CPUs, pids to 3, kill(1), faults and kills in slot 3 |
| `cfs` | SomeoneEligible, AllRunOnceQuiet | 3 slots, 1 CPU, priorities 0 and 3, any number of forks |
| `log` | CrashAtomic, EndedIsDurable, SleeperHasWaker, SleeperWoken, TypeOK | 2 operations of up to 2 blocks, 2 contents, log of 6 |
| `bcache` | OneBufferPerBlock, Coherent, PanicMeansExhausted, SleeperNotForgotten | 2 processes, 2 buffers, 3 blocks (one of the log), 4 or 6 descriptors, 1 pin |
| `fs` | NoPanic, NlinkCovers, NoLeak, FreedUnreferenced | 2 processes, 2 calls, 4 inodes, 3 table entries, 2 files, 16 trees to start from |
| `fs_leak` | UnlinkedFreed, violated | as `fs` |
| `inode` | ContentsKept, BitmapExact, WriteFitsTransaction | 2 processes, 3 calls, 2 inodes open as 3 files, 6 blocks of 2 bytes, 2 direct and 2 indirect blocks |
| `pipe` | IsChannel, FreedOnce, NobodyStranded | 2 readers, 1 writer, 2 byte values, ring of 2, counters modulo 4; a reader and the writer can be killed |
| `pipe_live` | ReadReturns | as `pipe`, 1 byte value |
| `vm` | PagesPartitioned, ImageKept | 2 processes, 4 calls, 20 pages, tables of 3 entries, 7 programs, 4 argument vectors |
| `console` | InputExact, SleepersWait, OutputInOrder, OutputNotStalled | 2 processes, 2 calls, 3 keys typed, reads of 1 and 3, writes of 2, rings of 2, indices modulo 4 from 3 |
| `sh` | ParsesGrammar, ProgramDescriptors, PromptMeansDone, PromptReturns | 5 processes, 1 pipe, every line of up to 3 tokens, and of 4 without `>`, 4 longer ones, 2 lines typed |

Why the bounds are enough. Three slots give a parent, a child and a grandchild
to be orphaned, two CPUs run any two of them at once, a slot is reused; the
one in slot 3 has init or the process in slot 2 as its parent, so that a kill or a
fault comes from either's child. Two
operations of two blocks share a commit, or one sleeps while the other runs or
commits. With two buffers for three blocks every miss recycles, and with one
pinned the cache runs out; 4 descriptors let one request in and the other sleep
for descriptors, 6 let two be in flight and finish in either order; the rings are
used WRAPS = 1 times per wrap of their indices. Two calls that meet at every lock
reach every race of two calls in `Fs`, and the states to start from hold what
earlier calls left: files with two links, a full directory, open files, a current
directory that was removed. In `Inode` a write of 8 bytes is every block of a
file, direct and indirect, is split over transactions when MAXOPBLOCKS is 10 and
two such files do not fit on the disk; BPB = 1 puts each block in a bitmap block
of its own, the worst case of the reservation. A ring of 2 with counters modulo 4
fills, empties and wraps many times. In `Vm` the choice of `left` and `reads`
makes every allocation and every read fail in turn, and the argument vectors
are short, bad and too long for MAXARG = 3. In `Sh` five processes are
init, the shell, the child that runs the line and two more, so that pipelines
run and, with a background job, run out of slots; a pipeline of three finds no
second pipe and so shows the failure path. CPUs (`proc`) and processes
(`console`, `bcache`, `inode`) are symmetric; slots are not, init is one of them.

`proc`, `pipe`, `pipe_live` and `sh` do not check for deadlock: a CPU stops when
init exits, a pipe that everyone has closed is at rest, and a shell waits for
somebody to type.

NoPanic of `fs` has two exceptions that the code really reaches: more than NINODE
inodes in use at once (`iget: no inodes`), and `..` looked up in a directory that
was removed, when its parent was removed and freed after it (`ilock: no type`).

WriteFitsTransaction of `inode` is about what filewrite() reserves: it counts the
blocks that a chunk of a write logs. It does not count itrunc(), and that the
log has the room that begin_op() promises is a matter of `Log` (section 4).

Fairness. No liveness is claimed for `Proc`: the policy in use, cfsScheduler(),
gives every RUNNABLE process the processor only under the condition of
`AllRunOnceQuiet`. The liveness properties of the other modules are conditional on
that: they say that a process which is given the processor again and again gets
where it should. `LiveSpec` of `Log`: operations end (strongly fair, since
end_op() waits for `log.lock` and an operation may go on to another block first),
the disk answers. `Spec` of `Cfs`:
schedulers scan, timers tick. `Spec` of `Pipe`: a process inside a call goes on
(strongly fair: it competes for `pi->lock`, and one that spins in acquire() while
the lock is free again and again gets it; the amoswap does not promise that, the
timing of the harts makes it so).
`Spec` of `Sh`: a process that can go on does, and a program ends once its input
has ended and its output is taken; nobody has to type.

## 4. Disagreements

Where the code does not do what a comment, a document or its own checks say.
`fs_leak` is a run and ends with a counterexample:

- iput() frees an inode without links on the disk and later drops its reference
  without looking again. A create() in between can take the freed number, find
  the same table entry, fail for want of disk space and drop its own reference
  while the first is still there: an inode that has a type, no links and no
  references stays allocated.

The others are stated in the modules and are refuted by TLC with the constants
given here in place of those of the run:

- `KilledNotAsleep` (`MCProc`, KillPids = {2}): a process killed between its
  check in wait() and its sleep() sleeps on, marked killed.
- `FreeNotKilled` (`MCProc`, KillPids = {0}): kill(0) marks a free slot; the next
  process there is born killed.
- `NoPanic` of `Log` (`MCLog`, three operations and blocks, OPBLOCKS =
  MAXOPBLOCKS = 1, LOGSIZE = SIZE = 3): mkfs sizes the log at LOGSIZE blocks with
  the header, begin_op() reserves LOGSIZE data blocks, and log_write() checks
  for room before it looks for an absorbed block: a legal operation panics.
- `AllRun` (`MCCfs`, Priorities = {0}): a RUNNABLE process is never run.
- `AllRunAtNormal` (`MCCfs`, Priorities = {0, 1, 3}): nor without priority 0, when
  another process keeps forking: each fresh child has vruntime -1 and goes first.
- `PriorityKept` (`MCCfs`, two CPUs, Priorities = {0, 1}): a child's
  set_cfs_priority() is overwritten by its parent's fork().
- `SleepsOnlyWhenEmpty` (`MCPipe`, as in the run): a writer killed between two
  bytes wakes no reader, which sleeps beside them until the next write or close.
- `KilledReaderReturns` (`MCConsole`, as in the run): a reader of the console
  killed between killed() and sleep() sleeps on until a line is entered.
- `StatsForCaller` (`MCVm`, as in the run): get_cfs_stats() copies its result to
  the page table of the process it asks about, not to its caller's.
- `OnlyCountedBytes` (`MCInode`, as in the run): when copyin() fails in the middle
  of a block, writei() neither counts nor logs the bytes it has changed in the
  buffer, and a read() finds them there until the buffer is recycled, or for good
  if a later write logs the block.
- `NoOverrun` (`MCConsole`, as in the run): uartputc_sync() tests LSR and writes THR without
  `uart_tx_lock`, and overwrites a character that uartstart() has put there.

Two more are visible in the models without a property of their own.
`ReadFault` of `Console`: a character whose copyout() fails is gone. `Halted` of
`Sh`: init exits when its fork() fails, which it does when a background job has
taken the last slot while the shell exits, and the kernel panics.

## 5. Proofs

`ProcProofs` proves, for every NPROC, set of CPUs, MAXPID, KillPids and Unruly,
that `Inv` of `ProcInv` is inductive and implies `TypeOK`,
`KernelStackExclusive`, `OnlyInitPanics`, `NoLostWakeup`, `ParentAlive` and
`NoCircularWait`; `ReapedByParent` follows from `Inv` and one step. That no
spinlocks are waited for in a circle (`LockOrder`) comes from where a holder can
be: whoever holds a p->lock acquires nothing more, and whoever holds wait_lock
acquires one p->lock at most (lemmas `LockHolder` and `WaitLockHolder`). The
safety properties are not inductive. What they need is who holds which lock at
which label, that a RUNNING process is on exactly one CPU or between `swtch` and
release (both in `ProcHandover`), that whoever can be reaped has a parent to do
it and init never exits, and, for wakeups, how far a wakeup() loop under
wait_lock has got: a sleeping parent of a ZOMBIE is one the loop has yet to
reach (both in `ProcProofs`).

`LogSteps` and `LogProofs` prove that `Inv` of `LogInv` is inductive and implies
`TypeOK`, `SleeperHasWaker` and `EndedIsDurable`, and that `Log` implements
`AtomicDisk` (`CrashAtomic`), for any operations, blocks, contents and sizes. The
invariant says what each phase of the commit has copied where: before the header
is written the on-disk log is empty, after it log and cache agree, and home
blocks that are not yet installed are pinned.

`BcacheProofs` proves for any processes, buffers, blocks and contents, and
whatever the driver and the device do meanwhile, that `CacheInv` of `BcacheInv` is
inductive. It implies `OneBufferPerBlock`; that a buffer has one holder from
acquiresleep() to releasesleep() and nobody sleeps for a free lock
(`LockExclusive`); that bget() panics only when every buffer is used or pinned,
and bwrite() and brelse() never do (`CachePanics`, the part of
`PanicMeansExhausted` that is about bio.c); and, as an action property, that a
buffer in use or pinned keeps its block (`BufferKept`). The invariant says that a
reference count is the number of processes at the buffer plus the pin of the log,
that the owner of a lock is the process between the two calls, and that the list
has every buffer. A step is first reduced to what it does to blocks and reference
counts (`Moves`), where all of the driver is `Quiet`.

`RingLemmas` is what a ring buffer with free-running indices rests on: for a size
that divides 2^32, the slots of the next `size` indices are different, also
across the wrap, and the difference of two indices modulo 2^32 is the number of
steps between them.

`PipeProofs` proves for any readers, writers, bytes, PIPESIZE and word size that
`PipeInv` is inductive, that it implies `FreedOnce`, and that `Pipe` implements
`Channel` (`IsChannel`). The invariant says who holds the spinlock, that the
reference count of each end is the number of processes that have it open, that
the page is there as long as one of them may use it, and that nread and nwrite
are at most PIPESIZE apart. It also implies `NobodyStranded`, whoever is killed:
every section that stores or takes a byte, or closes an end, ends with the
wakeup() of the sleepers it concerns, but for the writer that is killed in its
loop, which `abandoned` records.

`ConsoleProofs` proves for any processes, typing, reads, writes and sizes that
`ConsoleInv` is inductive and implies `InputExact`, `SleepersWait`,
`OutputInOrder` and `OutputNotStalled`. The invariant places what is entered and
what is edited in consecutive slots from r, and says that whoever is about to
write to THR from the ring holds uart_tx_lock and has seen the ring not empty.
`OutputInOrder` is about what uartstart() writes to THR; an echo may still overwrite
it there (`NoOverrun`, section 4).

Assumptions are those of `ProcAssumption`, `LogAssumption`, `VirtioAssumption`,
`BcacheAssumption`, `PipeAssumption` and `ConsoleAssumption` (sizes are positive
and divide the range of their indices; names are distinct; the processes that
use the disk are finitely many), which TLC evaluates in each run.

Only model-checked: the liveness properties (liveness under fairness is out of
the prover's reach); `Vm` and `Sh`, whose algorithms are recursive operators;
`Fs` and `Inode`; `Cfs`, whose minimum is a recursive function over the table, so
that what it computes needs induction over data; and of `Bcache`, `Coherent`,
`SleeperNotForgotten` and the panics of the driver in `PanicMeansExhausted`, which
depend on the descriptors and the two rings.

## 6. Not modelled

- Boot, assembly, register access, the PLIC: straight-line code; the initial
  states of the modules are what it leaves. The kernel's own page table is built
  there and never changes.
- printf, strings, ELF and directory layout, the characters of paths and command
  lines: formatting, without state. nulterminate() of the shell works on them.
- push_off/pop_off nesting: a CPU that holds a lock has interrupts off.
- sys_sleep() and the ps-like calls: the first is the sleep() of `Proc` with a
  counter, the others only read. Of get_cfs_stats() the copyout() is in `Vm`, the
  unlocked reads of another process's fields are not.
- sys_pipe() and the failure path of pipealloc(): what they leave is the initial
  state of `Pipe`.
- priorityScheduler() and defaulScheduler(): scheduler() fixes SCHEDULER_TYPE to 2,
  cfsScheduler().
- The RAM disk (not linked), mkfs (sequential, on the host), the user programs
  other than init and the shell, and the tests.
- Crashes in `Fs` and `Inode`: a crash falls back to the last commit, which is
  `CrashAtomic` of `Log`.

To repeat a run: `tlc -config MCFs.cfg MCFs`; a proof: `tlapm ProcProofs.tla`.
