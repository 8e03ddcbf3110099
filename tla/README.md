# A TLA+ model of the UoDOS kernel

UoDOS is a small x86 teaching kernel in the style of xv6: processes with
fork/exit/wait/kill, sleep and wakeup on channels, pipes, a table of open
files, a buffer cache over an IDE disk and a read-only FAT12 file system.
This directory models the kernel's processes, memory, files, disk path, file
system and console, with the steps of processes, CPUs and interrupts in every
order. TLC checks the models on small instances; TLAPS proves the safety
properties of the process table, the locks and the interrupt flag, the pipes,
the open files and the disk path for every size.

## The system

| Part | State | Operations | What makes it hard |
|---|---|---|---|
| Process table, scheduler (`proc.c`, `trap.c`) | process states, ProcessIds, parents, channels, kill flags, the table lock | fork, exit, wait, kill, sleep, wakeup, yield, sched, scheduler, forkret | the table lock is taken by one thread and released by another; sleep and wakeup race; a stack is freed by someone else |
| Pipes (`pipe.c`) | ring buffer, two wrapping counters, two end flags | pipewrite, piperead, pipeclose | both sides sleep on each other; the last closer frees the page |
| Open files (`file.c`, `sysfile.c`) | File table with reference counts, descriptors per process | open, dup, close, pipe, read, write; the descriptor side of fork, exit, exec | counts change in separate lock regions; calls fail half way |
| Disk path (`bio.c`, `sleeplock.c`, `ide.c`) | buffers in an MRU list, sleep locks, request queue, the disk | get, read, write, release; lock, unlock; request, interrupt | buffers are recycled; the interrupt races with new requests |
| Console (`console.c`) | input ring with three indices | keyboard interrupt, read, line editing | interrupt and reader share the ring |
| Memory (`kalloc.c`, `vm.c`) | free list, page tables | alloc, free, copy, grow, load | running out of memory half way |
| File system (`fs.c`) | FAT in memory, directories, cluster chains, file positions | open, read | positions shared after fork; chain arithmetic |
| Program loading (`exec.c`) | a global image header, a new address space | exec | the header is shared by all processes |
| Ticks (`trap.c`, `sysproc.c`) | tick counter | timer interrupt, sleep, uptime | sleepers depend on the counter advancing |
| Spinlocks (`spinlock.c`) | lock word, owner, interrupt nesting | acquire, release, pushCli, popCli | nesting across a context switch |

Processes enter every other part by a system call; every blocking operation in
them uses `sleep(chan, lock)` and `wakeup(chan)` of `proc.c`. `exit` and
`fork` act on the open files, closing the last reference to a pipe end acts on
the pipe, and `exec` and `open` go through the file system to the disk path.

## Modules

A step of a module is the code that runs between two points where another
actor can see the state: a region under a spinlock is one step, unless it ends
in `sched()`, which switches stacks with the table lock held. Code that
touches only what belongs to the running process is joined to the next region.
Bounds and sizes are CONSTANTS with named assumptions.

* **Proc** models `proc.c` with the trap entries that call it. `cur[c]` is
  both `Cpu.Process` and the stack CPU `c` executes on, `pc` the place of each
  kernel thread, `preempted` the threads inside `yield()`. `sched()` is a step
  of its own, so there is a moment at which a process is already RUNNABLE,
  SLEEPING or ZOMBIE and its CPU still runs on its stack with the lock held:
  that moment is what the stack and lock properties are about. The sleeper
  with a lock of its own is `consoleRead`; its buffer is abstracted to whether
  it has input. Timer interrupts may hit wherever interrupts are on.
* **Pipe** models one pipe and the processes that hold its ends, byte by byte,
  with counters that wrap at `Wrap` as the `uint32_t` of the code wraps at
  2^32. `Wrap` is a multiple of `PIPESIZE`, as 2^32 is of 512. Here, and in the
  modules below, `sleep()` gives up its lock and blocks in one step: Proc's
  `NoLostWakeup` is the justification, since it shows that no wakeup falls
  between the two.
* **Channel** is what a pipe promises: a bounded queue that reports end of file
  only after the write end is closed and every byte is delivered.
* **Files** models the File table, the descriptors, and what `fork`, `exit` and
  `exec` do to them. A call in progress holds Files in `held`; `closing` is
  `fileClose`'s local copy between the release of the table lock and
  `pipeclose`. The failures of `exec` that come after it has closed the
  program file close it a second time; `late`, a history variable, says that
  one of them has happened. Of a closed File the model forgets all fields, the
  code only the type: every path that reuses the entry writes the others first.
* **BufferCache** models `bio.c`, `sleeplock.c` and `ide.c`. The MRU list is a
  function from places to buffers, in the order `diskBufferGet` walks it.
  `ErrorSpec` adds reads that the disk reports as failed. `diskBufferWrite` has
  no caller in the kernel yet; the model lets any holder of a buffer call it.
* **SectorStore** is what the cache promises at the head of `bio.c`: one user
  per sector at a time, who sees what was last written.
* **Vm** has the free list of `kalloc.c` and the page tables of `vm.c` as
  operators from the memory before a call to the memory after it, with how the
  call ended. A page table is the pages it is made of, its user entries and the
  entries without PTE_U. The kernel's part is one page-table page; the code
  takes several, the same way. Sizes are in units of which a page has
  `PGSIZE`, so that a size can end inside a page, and wrap at `Wrap`, which
  stands for 2^32 as `KERNBASE` does for 2^31.
* **Memory** is what processes do with it: `sbrk`, `fork`, `exit`, `wait` and
  `exec`, one allocation or one disk wait to a step. A page holds zeros, the
  fill of a freed page, kernel data, or what a process or a program file put
  there. `hdr` says whose bytes are in the one global `imageFileHeader`, `lost`
  collects the pages nobody can free any more. `Accepts` is what the checks of
  `syscall.c` let through. `exec` fails at any read and for want of any page.
  A program file may have sections that are not aligned or whose end wraps past
  2^32: the loader's panics are modelled, and a section that goes on above
  `KERNBASE` ends the model as "wild". After `sbrk` to a size of exactly 0 the
  process is taken to fault (`Emptied`): `growProcess` returns before it reloads
  the page directory, and what a stale translation would still let the process
  do is left out.
* **AddressSpaces** is what memory promises: private pages, zeros when new,
  copies on `fork`, nothing left of the old image after `exec`.
* **Fat12** models `fs.c`. A byte of the disk is its cluster and its place in
  it, so that a read shows exactly which bytes it has delivered; the FAT is kept
  as bytes, because its 12-bit entries straddle them. `Position` and `Eof` are
  read and written in steps of their own. `pathPart` is kept with what is
  behind the end of the name. Cwd belongs to one process, so the effect of
  `chdir` is chosen when a path is opened. A search that got no File goes on
  with a null pointer: the model stops that process (`wild`). `sys_chdir` looks
  for a slash through a pointer that may be null; the model takes the byte at
  address 0 not to be one. Paths fit `pathPart`.
* **Spinlock** is `spinlock.c` on one CPU: operators on the interrupt flag,
  `CliDepth`, `InterruptsEnabled` and the locks held, panics included.
* **Console** runs kernel threads on that CPU: the scheduler's loop, `sched`,
  `sleep`, `yield`, `forkret`, `consoleRead` and `sys_sleep` split wherever the
  interrupt flag is on or the CPU switches, and the keyboard's and the timer's
  handlers at every point where the flag is on. The panics of `sched` and of
  the locks set `panicked`.
* **Terminal** is what the console promises: a line under edit, a queue of
  finished input, reads that end at a newline, at their length or at ^D.
* **ProcInvariant** and **ProcProofs**, **ConsoleProofs**, **PipeProofs**,
  **BufferCacheProofs**, and **FilesInvariant**, **FilesSteps** and
  **FilesProofs** hold the invariants and the theorems about the modules they are
  named after. The modules **MC...** are the ones TLC runs.

The modules meet in the same functions of the code. `fork`, `exit` and `exec`
are in Proc (the process table), Files (descriptors) and Memory (pages), which
touch disjoint state; `sleep` and `wakeup` are in full in Proc and Console; and
Fat12 relies on BufferCache's `ImplementsStore`, by which a sector that is read
holds what is on the disk.

Operators such as `ScanAfterSkipping` or `WriteWakesNobody`, marked
"mutated" in a comment, are plausible errors in the operator that follows
them; they show that each property would notice.

## Runs

| Run | Instance | Shows |
|---|---|---|
| `proc` | 3 entries, 2 CPUs, 3 ProcessIds | type, `SchedDiscipline`, `StackInUse`, `NoLostWakeup`, `ParentAlive`, `PidsUnique` |
| `proc_live` | 3 entries, 1 CPU, fair | `KilledNotAsleep`; `KilledExits`, `WaitReturns` |
| `proc_kill` | 2 entries, 1 CPU | violates `BornNotKilled` |
| `pipe` | 2 processes, both may read and write, 2-byte ring, counters of 4 values, fair | type, `PipeSleepersBlocked`, `FreedOnceUnused`, `ImplementsChannel`; `ReaderSeesEof`, `WriterSeesClose`, `KilledReturns` |
| `files` | 2 processes, 2 descriptors, 4 Files, 1 pipe page, up to the first late failure of `exec` | type, `RefCount`, `DescriptorsValid`, `PipeEndsTracked`, `NoRefPanic`, `DescriptorStable` |
| `files_exec` | the same, files opened for reading only | violates `ClosedOnce` |
| `buffers` | 3 processes, 2 buffers, 3 sectors, 2 contents | type, `OneBufferPerSector`, `SleepersServed`, `PanicOnlyIfAllInUse`, `ImplementsStore` |
| `buffers_error` | 1 process, 2 buffers | violates `ValidMeansRead` |
| `memory` | 2 processes, 16 pages, 4 files, 4 calls | type, `PagesOwnedOnce`, `SizeIsMapped`, `NoVmPanic`, `ReadyImage`, `ImplementsAddressSpaces` |
| `fat12` | 2 processes, 1 File, clusters of 2 sectors of 2 units, 8-byte FAT sector | type with File ownership, `ReadExact`, `OpenFinds` |
| `console` | 2 processes, ring of 3 with indices of 6 values, 5 kinds of key | `NoLockPanic`, `InterruptsRestored`, `ImplementsTerminal` |
| `console_ticks` | the same | violates `TicksCounted` |

**Bounds.** Three table entries are init, a parent and its child: enough for
orphans, for a full table and for a reaped entry to be used again; two CPUs
are the least on which exit and wait, or kill and sleep, run at once. A pipe of
two bytes with transfers of none, one or two fills, empties and wraps (the
counters pass zero after four bytes), and a second write does not fit; two
processes that both hold both ends compete with each other and with
themselves. Four Files are a pipe and two consoles, so the
table runs full in the middle of `pipe()` and of `fork()`; two descriptors are
the fewest a pipe fits in. `StdFds` is `{0}` there instead of `{0, 1, 2}`, one
console descriptor being enough to share. The constraint `UpToLateFailure`
stops `files` behind the first `exec` that fails after its `fileClose`: that
failure is what `files_exec` shows, and nothing is claimed of what follows.
Three processes over two buffers and three sectors make buffers be contended
for, recycled and run out; processes are interchangeable, hence the symmetry.
Sixteen pages hold two processes and one `exec`, not two at once, so that each
allocation of each call is the one that fails; four calls let two `exec` and a
`fork` overlap. Of the four files one is a program, one is too large, one is no
program, and one has a section that starts above `KERNBASE` and wraps; two more
malformed sections lie where only an `exec` that goes by another's header reads
them. The FAT sector of `fat12` ends inside the entry of the second
file's first cluster; sectors, clusters and the file end at different places,
and read lengths 1, 3 and 5 start and stop on both sides of each. The names
have two characters and an extension of three; the paths have names and
extensions that are shorter, as long and longer, with files on the disk that a
name cut short, or its extension dropped, could be mistaken for. One File is
enough to be shared, and to be missing when a subdirectory is searched. A ring of
three characters holds an unfinished line of two, so that ^U erases more than
backspace; its indices wrap at six, a multiple of three as 2^32 is of 128. The
view of `console` leaves out the characters of the ring outside `r..e`, which
are overwritten before anyone reads them.

**Fairness.** Proc: a CPU never stops, so `scheduler()` and code with
interrupts off are weakly fair. Code with interrupts on advances in its time
slices although the timer may preempt it at any point, and a pending timer
interrupt is delivered once interrupts are on: strong fairness for both, since
each is disabled again and again by the other. A killed process in user space
is taken out by its next trap. Nothing is assumed of voluntary system calls,
of the keyboard or of processes that exit by themselves. Pipe: a process
inside the kernel gets the CPU again and again, also while others contend for
the pipe's lock, hence strong fairness of its steps; calls, closes and kills
need not happen.

**What the violations show.**

* `proc_kill`: `kill()` compares ProcessIds only. Entries without a process
  have ProcessId 0 (or, after a failed fork, a stale one), so `kill(0)` sets
  IsKilled in an UNUSED entry; `allocateProcess` does not clear it, and the
  next process there is killed at its first trap.
* `files_exec`: `exec` closes the program file after loading it, and again in
  `cleanupExec` if the stack cannot be allocated or the arguments do not fit:
  the panic of `fileClose`, or, if the entry was taken meanwhile, the loss of a
  reference of whoever has it.
* `buffers_error`: the interrupt handler marks a buffer valid although the disk
  reported an error and nothing was transferred.
* `console_ticks`: `myCpu() == 0` (`trap.c:54`) compares a pointer into `cpus[]`
  with 0. No timer interrupt is counted, `uptime` is always 0, and `sleep(n)`
  for `n > 0` ends by a `kill` alone.

`PipeSleepersBlocked` carries one exception: a writer killed on a full pipe
returns without waking the readers, so a reader may sleep on beside a full
buffer until the next wakeup of the readers: a `write` that sleeps or returns,
or the last close of the write end. All properties of Files but `ClosedOnce`
speak of the time up to the first `exec` that fails after its `fileClose`; every
other failure is covered. `RefCount` allows counts that are too large for
console Files only: the console File that `allocateProcess` opens is overwritten
by `fork`'s copies of the parent's descriptors, or abandoned if `fork` fails.
After about a hundred such forks the table is full and `allocateProcess` writes
through a null pointer (`ForkNullFile`). `NoRefPanic` allows the panic of
`fileDup` when the table is full, where the null File can reach it, and leaves
out that of `fileWrite`, which writing to a disk file opened for writing reaches.

The properties of the later modules state, as exceptions, what the code does
not do; without any one of them TLC finds a counterexample.

* `PagesOwnedOnce`: the page copied last when `copyProcessPageTable` finds no
  room for its entry (`vm.c:413`), and the page table of an `exec` that could
  not read a section header (`exec.c:76`), are lost.
* `NoVmPanic`: a section that is not aligned, or whose `VirtualAddress` and size
  add up to 2^32 or more, passes `exec.c:82`; loading it panics, or writes
  where the kernel's own mappings lead.
* `SizeIsMapped`, `NoVmPanic`: `sbrk` to a size of exactly 0 frees all pages and
  reports failure with MemorySize unchanged; the process can then only fault,
  and when it is the first one the kernel stops with "init exiting".
* `ReadyImage`: `imageFileHeader` is one for all. Two `exec` calls that overlap
  at a disk wait may use each other's section count and entry point.
* `ReadExact`: a piece that starts inside a sector and crosses its end is
  copied from the wrong place (`fs.c:151`); only the first sector of the FAT is
  in `fat[]`, since `&fat + fatOffset` counts whole tables (`fs.c:55`); no length
  is clamped to `Size`, so that a read at the end of a file also delivers, and
  counts, what follows in its last cluster, and a read of an empty file delivers
  a cluster's worth from before the data area (`fs.c:326-336`). For a
  File that one process reads at a time the property says exactly how many bytes
  come, and from where, in the last case too. Two processes
  that read a shared File at the same time each get a contiguous stretch from
  the Position they started at, as far as it lies below `Size`, but may get the
  same one, and Position may end anywhere between.
* `OpenFinds`: only the first sector of a subdirectory is searched, its size
  being 0 on the disk; an extension of one letter picks up what is behind it in
  `pathPart`; ".." of a directory in the root has cluster 0, which is looked up
  as if it were a data cluster. In these cases a file is not found. A base name
  of more than eight characters is cut, and its extension is dropped with the
  rest (`fs.c:94`): "commandxx.com" opens the file "COMMANDX" without extension
  if there is one. The property takes such a name for that file's; given this, no
  path on the modelled disk opens another file than its own.
* `InterruptsRestored`: a new process inherits the CPU's `InterruptsEnabled`, so
  it may reach `trapret` with interrupts off; `iret` turns them on.

## Proofs

In each module `IInv` is the inductive invariant: no property but the simplest
is preserved by every step on its own, because a step relies on what other
processes can be in the middle of. Each group of `IInv` below is preserved by a
lemma with one step per action; `Invariance` puts them together.

### Process table

`ProcProofs` proves, for every `NPROC`, `NCPU` and `MaxPid` greater than 0
(`ProcAssumption`, the only assumption):

| Theorem | Property |
|---|---|
| `TypeCorrect` | `TypeOK` |
| `Scheduling` | `SchedDiscipline` |
| `StackSafety` | `StackInUse` |
| `Wakeups` | `NoLostWakeup` |
| `Parents` | `ParentAlive` |
| `Pids` | `PidsUnique` |
| `KilledSleepers` | `KilledNotAsleep`, for `NCPU = 1` |

`IInv` (in `ProcInvariant`) is the conjunction of:

* `PcInv`: which states a process may be in at each place of its code, and
  on which channel it sleeps there (one past `sched()` in `exit` is a ZOMBIE,
  or its entry is free or being used again);
* `CpuInv`: a RUNNING process is on exactly one CPU, and a CPU whose process is
  not RUNNING holds the table lock;
* `HandOffInv`: whoever comes back from `swtch()` finds the table lock held by
  its CPU, the lock the scheduler took for it;
* `ConsInv`: a thread between the console's test and `sleep()` holds
  `cons.Lock`, so nothing can become readable behind its back;
* `ForkInv`: the child a `fork()` is building is an EMBRYO that no other
  `fork()` refers to, complete by the time it is published;
* `FamilyInv`: a process past EMBRYO has its stack and page table, and every
  one but initproc has a parent that is alive;
* `PidInv`: ProcessIds in use are below `nextpid` and distinct.

`NoLostWakeup` joins them as a conjunct of its own. `KillInv` is the extra
group for one CPU: a thread about to sleep was not killed, because `kill()`
needs the CPU that thread is running on. TLC finds
`IInv` invariant on the instance of `proc`, and `IInv` with `KillInv` on that
of `proc_live`.

### Console and locks

`ConsoleProofs` proves, for any set of processes, ring, keys and arguments that
`ConsoleAssumption` allows:

| Theorem | Property |
|---|---|
| `NoPanic` | `NoLockPanic` |
| `FlagRestored` | `InterruptsRestored` |

Of the assumption the proofs use one conjunct, that no process is named
"scheduler". The first lemmas say what `spinlockAcquire` and `spinlockRelease`
do to a CPU, outermost and nested. The invariant, also called `IInv`, says:

* `ThreadInv`: a thread that is off the CPU is new, past `sched()` in `sleep`,
  inside `yield` or a zombie, and has the InterruptsEnabled saved that it needs
  there: on for a sleeper, off for one the timer stopped;
* `MachineInv`: the place of the thread on the CPU determines the interrupt
  flag, `CliDepth`, `InterruptsEnabled` and the locks held. The property speaks
  of places without a lock only; the proof needs the others, since what
  `popCli` restores is what `pushCli` saved there;
* `FirstInv`: until a process has run, `InterruptsEnabled` is what `scheduler()`
  saved, which is why the first process has interrupts on in `forkret()` and
  later ones may not.

`Moves`, `Switches` and `Wakes` show once what steps on the CPU, calls of
`sched()` and changes of other processes' states have in common; each action
then needs only the CPU it leaves behind. An interrupt finds the flag on, hence
by `MachineInv` no lock (`Interrupted`), which is why no handler meets a lock of
the thread it interrupts. TLC finds this `IInv` invariant on the instance of
`console`.

### Pipes

`PipeProofs` proves, for every `PIPESIZE`, every greater multiple of it as `Wrap`, any
bytes, any length of calls and any sets of readers and writers
(`PipeAssumption`):

| Theorem | Property |
|---|---|
| `TypeCorrect` | `TypeOK` |
| `SleepersBlocked` | `PipeSleepersBlocked` |
| `FreedOnce` | `FreedOnceUnused` |
| `Refinement` | `ImplementsChannel` |

`IInv` says who holds the pipe's lock (`LockInv`); that whoever is inside
`piperead` or `pipewrite` has the end it uses, and that one process at most is
about to close an end (`EndInv`), whence the page is freed by the second closer
(`FreeInv`); that only the process holding the lock may have taken a sleeper's
reason to sleep away, and has yet to wake it (`SleepInv`); and that a reader that
has copied nothing left its first loop for a byte or for the end (`CopyInv`).
For the refinement, lemmas on arithmetic modulo `Wrap` and `PIPESIZE` show what
one byte more or less does to the sequence the ring stands for.

### Disk path

`BufferCacheProofs` proves, for every number of buffers and any finite set of
processes (`BufferAssumption`), for the specification without disk errors:

| Theorem | Property |
|---|---|
| `TypeCorrect` | `TypeOK` |
| `OneCopy` | `OneBufferPerSector` |
| `NobodyForgotten` | `SleepersServed` |
| `PanicJustified` | `PanicOnlyIfAllInUse` |
| `Refinement` | `ImplementsStore` |

`IInv`: the list holds every buffer once (`ListInv`); `ReferenceCount` counts the
processes that have the buffer (`CountInv`, `UseInv`); the sleep lock has one
holder (`LockInv`), who knows the flags at each place of its code (`FlagInv`); the
queue holds the buffers of those asleep in `ideReadWrite`, and the disk works
while it is not empty (`QueueInv`); and the buffer that really stands for a
sector comes before all others that carry its number (`OrderInv`). The last is
what makes the buffers that were never used, and all claim sector 0, harmless.
`PanicOnlyIfAllInUse` and, there being no disk errors, `ValidMeansRead` are
conjuncts of their own.

### Open files

`FilesProofs` proves, for any number of processes, Files, descriptors and pipe
pages (`FilesAssumption`), up to the first `exec` that fails after its
`fileClose`, as the properties say:

| Theorem | Property |
|---|---|
| `TypeCorrect` | `TypeOK`, as long as `~late` |
| `CountsReferences` | `RefCount` |
| `ValidDescriptors` | `DescriptorsValid` |
| `EndsTracked` | `PipeEndsTracked` |
| `NeverRefPanics` | `NoRefPanic` |
| `StableDescriptors` | `DescriptorStable` |

`Invariance` is `Spec => [](~late => IInv)`: every step but a late failure keeps
`IInv`, and after one `late` stays TRUE. `IInv` (in `FilesInvariant`) says what a
call in progress holds (`CallInv`), that a held File has no other user
(`HeldInv`), that a `fork` builds a child of its own whose descriptors are
consoles until they are replaced (`ForkInv`, `FreshInv`), that a File without
references is closed and a descriptor names an open one (`OpenInv`), that an end
of a pipe is open as long as the one File or `fileClose` that stands for it
(`PageInv`, `EndInv`), and that the count of a File is the number of descriptors
plus the call that holds it, less a `dup` that has installed its descriptor and
not yet counted it (`CountInv`). The proofs about counts add or remove one
element of a finite set at a time.

### Only model-checked

* The liveness properties: fairness and ENABLED are outside the prover's reach.
* Memory and Vm, whose properties add up cardinalities over all page tables, and
  their refinement `ImplementsAddressSpaces`.
* Fat12, which computes with recursive functions over paths and chains: what
  they return for every input needs an induction the prover cannot do.
* `ImplementsTerminal`, the console's refinement.
* The violations, each being one counterexample. Nothing is proved of Files
  after a late failure of `exec`, its types included.

## Not modelled

* Screen output, `consoleWrite` included, `processDump`, `fstat`, `getcwd`,
  `uptime` and `getpid`: they change no state another part looks at.
* The keyboard's scan code tables, string routines and generated tables:
  sequential code without interaction.
* Boot, multiprocessor and interrupt controller set-up: straight-line
  initialisation. `main()` never starts the application processors, so the
  second CPU of `proc` covers what the locks are written for rather than what
  this build runs; `KilledNotAsleep` is stated for one CPU because with two it
  fails. Console and Spinlock are for one CPU.
* `fsFat12Open` for a directory (no caller), what happens after a write through
  a null File, paths longer than `pathPart`.
* The shell, the user programs and `malloc`: sequential user code; the system
  calls they make are taken in any order by the modules above.
