# A TLA+ model of xv6

This directory models the kernel in `kernel/` (xv6 for RISC-V with the lab
changes of this repository) in TLA+. TLC checks the models on small instances;
TLAPS proves the central results for every value of the constants.
`PROJECT.json` lists the components, the runs, the source lines each definition
stands for, the hazards of the code and the theorems.

## The system and its parts

| Part | Source | Concurrency it lives under | Module |
| --- | --- | --- | --- |
| redo log | `kernel/log.c` | `log.lock`, `sleep(&log)`, crashes | `Log`, `AtomicDisk`, `Log_proofs` |
| process life cycle | `kernel/proc.c`, `user/init.c` | `p->lock`, `wait_lock`, `pid_lock` | `Proc` |
| scheduling, spin-locks, sleep-locks | `kernel/proc.c`, `spinlock.c`, `sleeplock.c`, `trap.c` | several CPUs, timer interrupts | `Sched` |
| pipes | `kernel/pipe.c`, `file.c` | `pi->lock`, kill, close | `Pipe`, `ByteQueue` |
| buffer cache | `kernel/bio.c` | `bcache.lock`, buffer locks | as far as the log needs it, in `Log` |
| disk driver | `kernel/virtio_disk.c` | `vdisk_lock`, device, interrupts | planned |
| inodes, block allocation | `kernel/fs.c` | `itable.lock`, inode locks, log | planned |
| directories and paths | `kernel/fs.c`, `sysfile.c` | inode locks, log | planned |
| open files, descriptors | `kernel/file.c`, `sysfile.c` | `ftable.lock` | planned |
| pages, address spaces, exec | `kernel/kalloc.c`, `vm.c`, `exec.c` | `kmem.lock` | planned |
| console, UART | `kernel/console.c`, `uart.c` | `cons.lock`, interrupts | planned |
| clock | `kernel/trap.c`, `sysproc.c` | `tickslock` | planned |
| user allocator, lab programs | `user/umalloc.c`, `pingpong.c`, `primes.c` | pipes, fork | planned |

How they interact: a system call runs in the kernel thread of its process. It
enters through `usertrap`, takes spin-locks for short sections and sleep-locks
for long ones, and gives up its CPU in `sleep` or, at a timer interrupt, in
`yield`. File-system calls change blocks only in the buffer cache, between
`begin_op` and `end_op`; the log writes them to disk. Pipes and `wait` use
`sleep` and `wakeup` directly. Every model but `Sched` takes `sleep` as atomic;
`Sched` is where that is justified (`NoLostWakeup`, `OneCpuPerStack`).

## Modules

### Log: `kernel/log.c`

State: the disk (`disk`, the log's data blocks `logblk`, the header `hdr`), the
cached blocks and the pins, `log.lh`, `outstanding`, `committing`, one program
counter per process and the loop variable `tail`. One action per section under
`log.lock` (`begin_op`, `begin_op_sleep`, `log_write`, `end_op`, `end_commit`)
and one per disk write of `commit` and of `recover_from_log`. `ReadBlock` and
`Recycle` are `bread` and `bget`. `Crash` may happen at any time, during
recovery too; it keeps the disk and nothing else. A block is written
atomically. Only the header needs it, and its 124 bytes lie within one sector: a
torn log block is not yet listed, and a torn home block is installed again.

`log_write(p, b, v)` is what the comment at `log.c:205-211` asks of a caller:
`bread`, change the data, `log_write`, `brelse`, all under the buffer's
sleep-lock. The model assumes that every caller does this, so that no buffer is
changed without being logged, and `DirtyIsPinned`, `Transactions` and their
theorems rest on it. One path in the code leaves it: `writei` whose
`either_copyin` fails part-way (`fs.c:522-525`) releases a buffer that it may have
changed and does not log it. That path is outside the model. A block that is
already in the log is absorbed and not pinned again.

`AtomicDisk` is the promise: calls begin, write and end; `durable` changes only
in `Commit`, when no call is active, and a crash resets the memory to it. Under
the refinement mapping `durable` is what a recovery starting now would leave
and `mem` is what reads return.

### Proc: life of a process, `kernel/proc.c`

`p->state`, `pid`, `parent`, `killed`, `chan`, the locks, and for every slot the
program counter and locals of its kernel thread. An action is what a process
does between two acquires; loops over the table take one step per slot.
Failures of allocation and of `copyout` are there; memory, files and exit
status are not. `init` only forks and waits, and never exits, so the panic of
`exit` for `initproc` is left out. `allocpid` is two steps, the read of `nextpid` and
the increment, under `pid_lock` and with the lock of the new slot held. `gone` is a
history variable: the pids of the processes that `wait` has collected or that
a failed `fork` has given up.
`fork` writes `np->parent` twice, first without `wait_lock` (`proc.c:299`, against
the comment in `proc.h:95`); the model has both writes. The second comes before
the child can run, and no property fails because of the first.

### Sched: CPUs, locks and switching

The scheduler loop of each CPU, the threads that run on it, `noff`, `intena` and
the interrupt-enable bit, and a sleep-lock all processes use. An acquire is two
steps: `acquire_spin` is `push_off` and the test of `holding`, after which
`spin[c]` is the lock that CPU c spins for; the second step is the swap that
succeeds, with what follows up to the next lock operation. A release, a `swtch`
and the locked part of an iteration of `wakeup` are one step each. `swtch` hands
the CPU over while `p->lock` stays held. The panics of `acquire`, `release`,
`pop_off` and `sched` set `panicked`, wherever these are called.

A timer interrupt may come wherever interrupts are on. On CPU 0, `devintr` calls
`clockintr`, which takes `tickslock` and, in `wakeup(&ticks)`, the lock of every
process but the one interrupted; no process of the model sleeps on `&ticks`.
Then `kerneltrap` yields if the process is RUNNING. In the scheduler there is no
process to yield for, so an interrupt there matters on CPU 0 alone. The counter
`ticks` is left out.

### Pipe: `kernel/pipe.c` with `fileclose`

The ring with its wrapping counters, the two open flags, `pi->lock`, and for
each process where it is in `piperead`, `pipewrite` or `pipeclose`. `killed(pr)`
and the `sleep` that follows are two actions. `ByteQueue` is the promise: a
bounded FIFO queue each byte of which goes to one reader.

## Runs

| Run | Question | Outcome |
| --- | --- | --- |
| `MCLog` | Is a crash-prone log a store of atomic transactions? Are modified blocks kept? Is every sleeper in `begin_op` woken? Is the invariant of the proof one? | holds |
| `MCLogSpace` | Is the reservation enough when a call leaves one reserved block unused? Does a call that ends early wake those that wait for space? | holds |
| `MCLogSpaceFull` | And when calls use all they reserve? | violated: finding |
| `MCProc` | Do exit, wait, fork and kill agree on who is alive, whose child and off its stack? Do concurrent forks get different pids, and is no process lost before it is collected? | holds |
| `MCProcLive` | Does init collect every zombie it has, own or inherited? | holds |
| `MCProcKillLost` | Does a killed process exit? | violated: finding |
| `MCProcKillZero` | Are free slots free of kill marks? | violated: finding |
| `MCPipe` | Is the pipe a queue; does anyone sleep without cause; is it freed safely? | holds |
| `MCPipeKill` | The same for readers when a writer is killed | violated: finding |
| `MCPipeLive` | Do calls return once the other end is closed? | holds |
| `MCSched` | Mutual exclusion, stacks, wakeups, interrupt state on two CPUs; can CPUs spin for each other's locks? | holds |
| `MCSchedLive` | Does every process run again? | holds |

### Bounds

- `MCLog`: two calls, two blocks, two values. Two calls show a commit racing a
  begin; two blocks make a transaction that can be torn. There is no symmetry
  set, since the run checks liveness. With two calls a sleeper is woken by the
  end of a commit (`log.c:172`); the wakeup of a call that ends while another is
  active (`log.c:162`) needs the three of `MCLogSpace`, whose `SleeperMustWait`
  fails without it.
- `MCLogSpace`: the sizes keep the ratio of the code, LOGSIZE = 3 * MAXOPBLOCKS
  and a log of LOGSIZE blocks with its header. OpBlocks is the number of
  distinct blocks a call writes.
- `MCProc`: four slots, five pids, and kills of one pid. `allocproc` keeps
  the lock of the slot it found, so two forks meet in `allocpid` only if one
  passes a slot in use that is then freed and taken by the other; that takes
  four slots. `MCProcLive` has four slots, so that a process whose
  parent is not init can leave orphans, three
  forks, and no kill, which would only add exits that exit() already gives.
- `MCPipe`: PIPESIZE 2 and counters modulo 4 wrap within one behaviour; 4 is a
  multiple of 2, as 2^32 is of 512. Writes of 3 bytes do not fit the ring.
- `MCSched`: two CPUs and three processes, so that one waits while two run.
  `MCSchedLive` has one CPU, which the three processes must share and which
  takes the clock interrupts; a wakeup racing a sleep on another CPU is covered
  by `NoLostWakeup` in `MCSched` alone.

### Fairness

Weak fairness of the kernel's own steps: a CPU does not stop, and the scheduler
runs every runnable process (shown by `EveryProcessRuns`). Strong fairness of
acquisitions of `wait_lock`, `pid_lock`, `pi->lock` and, in `Sched`, of every spin-lock: a
CPU that spins obtains a lock that is free again and again. The `amoswap` loop of
`acquire` gives no such guarantee in theory; it does in practice with
few CPUs and short sections. `Sched` further assumes that the timer
keeps interrupting and that a process, or the scheduler, gets something done
between two ticks.
`init` calls `wait` again and again (`user/init.c`). No user program is obliged
to make a call, except that a killed process exits.

### Findings

1. The log is one data block shorter than `param.h` says (`MCLogSpaceFull`).
   No present file-system call writes as many blocks as it reserves.
2. A kill can be lost between the test and the sleep in `wait`
   (`MCProcKillLost`).
3. `kill(0)` marks a free slot (`MCProcKillZero`).
4. A killed writer does not wake the reader (`MCPipeKill`). The passing run
   `MCPipe` lets only the reader be killed.

## Proofs

`Log_proofs` proves, for every finite set of processes, any blocks and values and
any sizes with MAXOPBLOCKS <= LOGSIZE:

- `LogInvariant`: `IndInv` always holds. `DirtyIsPinned` and `SleeperHasWaker`
  are not inductive alone. `CallInv` adds who may be where: `outstanding` counts
  the active calls, at most one process commits and only with no call active.
  `CacheInv` adds that a dirty block is in the log as well as pinned, and
  `PinInv` that every listed block is pinned, since an absorbed one is not pinned
  again. `TransInv`
  adds how far the commit has come: the log blocks written so far equal the
  cache, the home blocks written so far equal the log, and the header on disk
  is empty except while a transaction is installed.
- `LogTypeCorrect`, `LogDirtyIsPinned`, `LogSleeperHasWaker`: consequences.
- `LogSleeperMustWait`: whoever sleeps in `begin_op` would have to sleep again
  if it were to run now. Each action that ends a commit or gives space back also
  wakes the sleepers.
- `LogTransactions`: the refinement `Spec => AD!Spec`. `TransactionsStep` takes
  each action to an abstract step or a stutter: `write_head` is `Commit`,
  installing and erasing are stutters because the invariant makes the installed
  disk the same before and after, and `Crash` is `Crash`.

`NoPanic` of the log rests on a sum over processes of what they wrote, which
needs induction over finite sets; it is only model-checked, like all liveness
and everything about `Proc`, `Pipe` and `Sched`.

## Plan

1. Further modules, in this order: `Bcache` (bget, brelse, bpin under
   `bcache.lock`, refining the cache of `Log`); `Virtio` (descriptors, rings,
   completion out of order); `Inode` (table references, `ilock`, `iput`, with
   link counts and unlink of an open file, over `AtomicDisk`); `FileTable`;
   `Vm` with the page allocator and the roll-back of failed allocations, and
   `exec`; `Console` and `Uart`; `Clock`; `Umalloc`; `Pingpong` and `Primes`.
2. Composition: `Bcache` under `Log`; `Inode` over `AtomicDisk`; the lab
   programs over `ByteQueue`.
3. Pure algorithms against reference definitions: `skipelem`, `bmap`, `walk`,
   the bitmap of `balloc`.
4. Proofs: the ring of `Pipe` refines `ByteQueue` for any PIPESIZE and any
   counter width it divides; mutual exclusion and `OneCpuPerStack` of `Sched`
   for any number of CPUs and processes; `NoZombieMissed` and `FreedOffStack`
   of `Proc`; the reference counts of `Bcache`.

Not planned: register saving, the boot code, formatting, and the sequential
user utilities, where there is no protocol to check; memory-model effects below
the locks.
