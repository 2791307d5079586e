# A TLA+ model of the mp_2 repository

The repository holds an xv6 kernel for RISC-V with three additions (system call
counts, `sigalarm`/`sigreturn`, and run and wait times with `waitx`) and, under `networks/`, three small network programs: a
tic-tac-toe server over TCP, the same over UDP, and a message sent in chunks over
UDP with acknowledgments. This directory specifies the parts in which several
threads, CPUs, processes or machines meet or in which a call can fail half-way,
checks them with TLC, and proves most of what the runs check about the kernel's
processes, files, pipes, log, cache and disk, and about the message transfer, with TLAPS.

Paths below are relative to `src/initial-xv6/src/`.

## 1. Inventory

| Component | State | Operations | Meets others through |
|---|---|---|---|
| Process table (`kernel/proc.c`) | `proc[NPROC]`: state, chan, killed, pid, parent; `nextpid`; `wait_lock`, one `p->lock` per slot | fork, exit, wait, waitx, kill, allocproc, freeproc, reparent | every CPU runs these on the shared table |
| Scheduler (`kernel/proc.c`) | per CPU `c->proc`, saved contexts | scheduler, sched, yield, sleep, wakeup | `p->lock` handed over across `swtch`; the timer |
| Traps (`kernel/trap.c`) | trapframe, `which_dev` | usertrap, usertrapret, kerneltrap, clockintr, devintr | enters everything else |
| Alarm (`sysproc.c`, `trap.c`) | alarm_interval, alarm_handler, ticks_count, alarm_on, alarm_tf | sigalarm, sigreturn, the timer branch of usertrap | slots and pages reused by later processes |
| Log (`kernel/log.c`) | `log.lh`, outstanding, committing; the log area of the disk | begin_op, log_write, end_op, commit, recovery | concurrent file system calls; buffer cache; crashes |
| Buffer cache (`kernel/bio.c`) | buffers, refcnt, LRU list | bread, bwrite, brelse, bpin, bunpin | log, file system, disk |
| Disk driver (`kernel/virtio_disk.c`) | descriptors, avail/used rings | virtio_disk_rw, virtio_disk_intr | the device, asynchronously |
| File system (`fs.c`, `sysfile.c`) | inodes, itable, bitmap, directories | ialloc, iget, iput, bmap, itrunc, dirlink, create, unlink... | log, inode locks |
| Pipes and files (`pipe.c`, `file.c`) | ring buffer, open flags, ftable | pipealloc, pipewrite, piperead, pipeclose, filedup, fileclose | readers and writers |
| Console, UART | cons.buf r/w/e, transmit ring | consoleread, consoleintr, uartputc, uartstart | interrupts against system calls |
| Memory (`kalloc.c`, `vm.c`, `exec.c`) | free list, page tables | kalloc, kfree, uvmcopy, uvmalloc, exec | all processes share the free list |
| Clock and counts | ticks, rtime/ctime/etime, syscall_count | update_time, sys_sleep, waitx, getSysCount | timer of CPU 0 against exit and wait |
| UDP transfer (`networks/partb`) | chunk arrays, ack arrays, sockets | send_message, receive_message | lossy datagrams |
| TCP tic-tac-toe (`networks/parta`) | board, current_player, move_count, game_over, turn_mutex | handle_game, ask_play_again | two threads, two clients |
| UDP tic-tac-toe | the same | the same, and the clients | one socket shared by two threads |

What is hard here: scans of `proc[]` that other CPUs interleave with; the lock
that one thread acquires and another releases across a context switch; sleeping
without losing a wakeup; a handler that interrupts its own process; a crash
between any two disk writes; a device that completes requests in its own order;
path-name calls that meet at one inode; memory that runs out in the middle of a
call; counters that wrap around; datagrams lost, withheld and repeated; two
threads that share a board, partly without the mutex, or one socket. `PROJECT.json` lists these hazards
at the lines where they bite, with the property that covers each.

## 2. Modules

| Module | Models | Run |
|---|---|---|
| `Proc` | process table, scheduler, traps as far as they change it | `proc`, `proc_live` |
| `ProcTree` | what fork, exit and wait promise: a tree changed by single steps | refined by `Proc` |
| `Alarm` | sigalarm/sigreturn through a process's life | `alarm` |
| `Log` | the log on the buffer cache, with crashes | `log` |
| `Txn` | what the log promises: atomic, durable transactions | refined by `Log` |
| `Disk` | buffer cache, sleep-locks, virtio driver and device | `disk` |
| `Fs` | inodes, blocks, directories, the path-name calls | `fs` |
| `Pipe` | pipes, the file table, descriptors | `pipe` |
| `Channel` | what a pipe promises: a bounded queue with two ends | refined by `Pipe` |
| `Mem` | free pages, page tables, fork, sbrk, exec, copies to and from programs | `mem` |
| `Clock` | ticks, sleep, run and wait times, system call counts | `clock` |
| `Transfer` | sender and receiver of partb and the network between | `transfer` |
| `Game` | the TCP tic-tac-toe server | `game` |
| `UdpGame` | the UDP tic-tac-toe server and its clients | `udp` |
| `ProcProofs` | theorems about `Proc` and its refinement of `ProcTree` | section 6 |
| `LogProofs` | theorems about `Log` and its refinement of `Txn` | section 6 |
| `PipeProofs` | theorems about `Pipe` and its refinement of `Channel` | section 6 |
| `AlarmProofs`, `ClockProofs`, `DiskProofs`, `FsProofs`, `TransferProofs` | theorems about those modules | section 6 |

`MCDisk`, `MCFs`, `MCPipe`, `MCMem` and `MCClock` only define constants for TLC, and
`MCClock` a bound.
The definitions named "Mutant:" in a comment are no part of the models: each is
a plausible bug, put in the place of the definition that follows it to see that
a property notices.

How the modules meet: `Disk` is the buffer cache that `Log` reduces to one cached
copy per block; `Log` is why `Fs` may take the disk writes of one call as atomic;
`Fs` and `Pipe` split the open files between inodes and pipes; `Mem`, `Clock` and
`Alarm` follow fields of `struct proc` whose slots are handed out as in `Proc`.

### Proc

State is that of `struct proc` and `struct cpu`, per slot and per CPU, plus a
program counter `pc` and the locals of the system call a thread is in. `sw` is
the thread's context: `"go"` while it executes, `"switch"` from the moment it
has given up its state under `p->lock` until `swtch` has saved its registers,
`"saved"` after that.

A critical section on one `p->lock` is one step, enabled while the lock is free.
What stays held between steps is a variable: `wait_lock`, and `plock[s]` for the
hand-over across `swtch`. Each loop over `proc[]` visits one slot per step. A
timer interrupt (`Timer`) may take the CPU away at every point where the thread
holds no lock; elsewhere interrupts are off. `wait` and `waitx` have the same
control, so one set of actions stands for both.

| Action | Code |
|---|---|
| SchedSkip, SchedRun, Swtch | scheduler(), sched() and the return into it |
| Timer, Syscall, Fault, UserTrapRet | kerneltrap(), usertrap(), usertrapret() |
| ForkScan, ForkParent, ForkRun | allocproc() and the three critical sections of fork() |
| ExitLock, ExitReparent, ExitWakeInit, ExitWakeup, ExitZombie | exit() with reparent() and its wakeups |
| WaitLock, WaitScan, WaitReap, WaitKilled, WaitSleep | wait(), with killed() and sleep() as separate steps |
| KillScan | kill() |

Sleeping anywhere but in `wait` is left out: it uses the same `sleep` and
`wakeup`. Closing files in `exit` is another component. init only calls fork and
wait (`user/init.c`), and `exit` of init is the kernel's panic; the runs do not
kill pid 1.

### Alarm

The alarm fields belong to the process that traps, so a trap is one step. A
trapframe is reduced to whose code it runs, whether that is the handler, and one
register. `intr` is a history variable: the contexts that running handlers
interrupted. The fields are followed through fork (which clears all but
`alarm_tf`), exec (which clears none), exit, wait and kill, and pages are
counted because a saved trapframe takes one. A fork that fails only sets a0.

### Log and Txn

`Log` has the disk (home blocks, log blocks, header), the cached blocks with
their pins, `log.lh`, `outstanding`, `committing`, and the step at which a commit
or a recovery is. Every disk write is a step and `Crash` is always possible, in
recovery too. Changing a block and `log_write` are one step, under the buffer's
sleep lock. A disk write of one block is atomic. `Txn` has the newest contents,
the contents a crash would leave, and the number of active calls; the mapping
computes the second from the header on disk (`AfterRecovery`).

### Transfer

Both programs run on 127.0.0.1: datagrams stay in order and are not duplicated by
the network (the programs themselves send chunks more than once), but a full
socket buffer drops one, and so may the network for the kinds in `Lose`. The
receiver withholds every other acknowledgment, as its code does to simulate loss.
A message is its number of chunks, `n`, and whether the last of them is `short`;
chunks have two halves so that a short one can be told from a full one: it leaves the
second half of the receiver's packet buffer as it was.
`strcmp` on buffers that were received without a NUL may go either way.

### Game

One program counter per thread of the TCP server; what runs under `turn_mutex` is
one step up to the next `recv`, except that a move and a reset are two steps each,
because `initialize_board()` and the draw branch write the shared variables
without the mutex. The draw branch unlocks a mutex it does not hold, which
releases it for whoever does. After a game both threads call `initialize_board()`
when both players agree to another one; the second call may come at any time in the
new game, and `late` records that it came after a move. A player may answer anything or leave at any time.
Sending to a client that has gone may also end the server by SIGPIPE; that is not
modelled.

### Disk

The buffers with their reference counts and sleep-locks, the LRU list, the
descriptors and both rings of the driver, and the device, an external actor that
takes requests from the avail ring and completes them in any order, any number
before or while `virtio_disk_intr` runs. `bcache.lock` and the spin lock in a
sleep-lock are held for one action each; `vdisk_lock` is held by the interrupt
handler over its loop (`intr`). The ring indices are counters modulo `Counters`.
Processes bread, change, write, pin, unpin and release blocks the way `log.c`
does. `last` is a history variable: what the last holder of a block made of it.

| Action | Code |
|---|---|
| bget and its wait for the lock, bread, brelse, bpin, bunpin | bio.c, acquiresleep, releasesleep |
| rw (with alloc3_desc), io, and the wake-ups in both | virtio_disk_rw |
| the handler's start, one completion, its end | virtio_disk_intr |
| the device takes a request, completes one | external |

### Fs

Per inode: its copy on disk (`disk`), in the table (`mem`, `valid`, `ref`) and
its sleep-lock; the bitmap (`used`); per process its cwd, descriptors, and the
call it is in. A path is not a string: namex() meets one element after the other,
each chosen when it is looked up. What a process does with an inode between
ilock() and iunlock() is one step, unless it takes a second lock or drops a
reference on the way; iput() itself is four steps, since it frees an inode after
it has released `itable.lock`. `puts` is the list of iput()s a call still has to
do. bmap() with its indirect block, itrunc(), dirlink() and writei() are
operators, each with its failures. The bytes of files and the crash-safety of
several writes are elsewhere (the first nowhere, the second in `Log`).

### Pipe and Channel

`file`, `pipe`, the descriptors per process, and `pi->lock` as a variable, since
kill() does not take it. sys_pipe() is two steps (the files and the page, then
the descriptors or giving everything back), a read or a write one step per byte,
close() and exit() one step per file and one to tell the pipe; exit() itself
comes before the first and after the last of them. `cut` is a history
variable (section 4). `Channel` is the bounded queue; the mapping reads the
contents out of the ring between `nread` and `nwrite`, modulo `Counters`.

### Mem

Processes share nothing but the free list, so each call is one step, with
kalloc() failing after any number of successes (`left`). A page table is the set
of its tree's pages and its leaves; walk(), mappages(), uvmunmap(), uvmalloc(),
uvmcopy(), proc_pagetable(), exec() and the others are operators on a call in
progress that keep the order of allocations, failures and clean-up of the code. A
panic of `vm.c`, and a page that would be freed twice, set `panicked`. `Copy` is
the loop of copyout() and copyin(); what it reaches is compared with a reference
definition in CopiesInside, for all addresses and lengths up to the bound, in
every state.

### Clock

clockintr() is a step for `ticks`, one per slot of update_time() and one for the
wakeup, interleaved with the other CPUs creating, running and reaping processes;
`ticks` is a number modulo `Width`. Any process forks, in the two steps between which
the child has a slot but no parent, exits, which makes its children init's, and waits,
for the child of its own that has exited: init, syscount, the program syscount starts
and the processes that one starts are all alike. wait() is modelled by its effect on
the counts and the slot; how it sleeps and finds the child is in `Proc`. `made` and
`waited` are history variables: the calls that were really made, and of the child last
waited for its calls, those of the caller by then, and whether the child had waited
too.

### UdpGame

The queue of datagrams that came in on the one socket, per client the prompts it
has not answered yet, per thread the address its last recvfrom() stored, and
where each thread is. A player types a cell, yes, no, nothing (a datagram of no
bytes, which the server takes for a disconnection and closes the socket) or
something else. ask_play_again() asks both players from both threads, as coded.

## 3. Runs, bounds and what they show

All runs pass. The type invariants of all modules hold on these instances; only
that of `Proc`, which is also proved, is kept in a run.

* `proc`: 3 slots, 2 CPUs, pids up to 3, kill of either child, failing kalloc and
  copyout. Two CPUs are what a race needs, three slots allow init, a parent and
  its child. Checks StackExclusive, FreedOffCpu, SchedLocks, NoLostWakeup,
  OrphansAdopted and the refinement of ProcTree. The same results are proved
  without bounds (section 6).
* `proc_live`: 3 slots, 1 CPU. RunnableRuns and OrphansReaped.
* `alarm`: 2 slots, 2 programs, intervals up to 2 ticks, 4 pages (so that kalloc
  fails and the kernel panics in some behaviours). Slots only meet in the pages
  and in being reused, which two of them already do. Handlers may disarm the
  alarm but not arm it (`Rearm = FALSE`), as in `user/alarmtest.c`.
* `log`: 3 blocks of 2 values, 2 concurrent calls, MAXOPBLOCKS 2, LOGSIZE 4, each
  call writing 1 block: with these one commit covers several calls, callers
  sleep for space and for commits, and a reservation too few overflows the log.
  `OpBlocks` stays below MAXOPBLOCKS because the superblock's nlog counts the
  header (`mkfs/mkfs.c:25`), so the log holds one block less than begin_op()
  reserves; no call of the file system comes that close.
* `disk`: 3 interchangeable processes (symmetry), 4 blocks on 3 buffers, so that
  buffers are recycled while others wait for them; 7 descriptors, which two
  requests use up and a third has to wait for; ring counters modulo 7 that begin
  at 5 and wrap around; 1 pin and 5 calls. ReadsLatest, DescriptorsOwned and
  NoLostCompletion.
* `fs`: one process makes directories, links and unlinks, the other creates,
  opens, reads, writes, changes directory and closes, 5 calls in all, on 3 inodes
  and 3 blocks with one direct and one indirect address: inodes, blocks and
  directory slots run out, and two calls meet at every lock. The path elements
  are the names a and b; with "." added (853,279 states) the results are the same,
  for ".." see section 4. RefsExact, LinksCounted, BlocksOwned, NoPanic.
* `pipe`: 2 processes, 1 page, 2 files, 2 descriptors each, a ring of 2 bytes with
  counters modulo 4, reads and writes of 3 bytes: files, pages and descriptors
  run out, a write fills the ring and the counters wrap around. FileRefs,
  PipeEnds, NoLostWakeup and the refinement of Channel.
* `mem`: 2 processes, 18 pages, tables with a fan-out of 2 over 3 levels, pages and
  pointers of 2 bytes, sizes up to 6, 6 calls. Two programs, one with a gap before
  its second segment; one argument page. Pages are too few for both processes to
  be large, and kalloc() fails at every point anyway. PagesOwned, SizeIsMapped,
  CopiesInside.
* `clock`: `uint` modulo 8 starting at 6, 3 ticks, sleep(2) and sleep(-1): the tick
  counter wraps around in the middle. WaitTime and NoOversleep, for two processes on two
  CPUs. CountsOfChild, for these and for three processes, init, a child and a
  grandchild, which is the depth at which counts are lost: what getSysCount() gives after
  wait() is the child's own calls and the caller's since, with the exception of a child
  that has waited for a child itself. The constraint `Bound` of `MCClock` keeps the two
  instances apart. A third process, and calls of open(), are there only while no tick
  passes, nobody sleeps and CPU 1 is idle, so that the three take turns on CPU 0, which
  each may lose between any two steps. The proofs (section 6) are without it.
* `transfer`: messages of 0 to 3 chunks, the last one full or short, a buffer of 4
  datagrams, chunks lost. Reassembled: every byte sent is printed at its place, and
  behind a short last chunk stand bytes of an earlier chunk or of the uninitialized
  buffer; AcknowledgedIsStored; Finishes.
* `game`: all games and replays, with invalid input and leaving players; no bound.
  MovesAlternate (which says too that the threads do not both wait for the other's move)
  and NoMoveAfterVerdict hold until a thread resets the board when a move has been made;
  ServerEnds is about servers that are not asked for a replay.
* `udp`: all games; no bound. FairPlay: although both threads read one socket, each
  gets its own player's moves, and the players alternate.

`transfer`, `game` and `udp` do not check for deadlock: there the programs end, and
there are ways for a server to wait for ever (section 4). `Transfer` also stops
when a connection is refused.

## 4. What the models show about the code besides

Behaviours found while modelling that a reader of the code should know. Where a
property is said to fail and a constant is named, the run keeps to the part of the
state space where the property holds, and setting the constant the other way makes TLC
print the behaviour. Where no constant is named, the property is defined in the module
but is in no run; asking for it on the run's instance makes TLC print the behaviour.

Processes and alarms

* `kill(0)` marks an UNUSED slot (`proc.c:628`), and the next process in it is born
  killed: BornUnkilled fails with 0 in `KillPids`. `user/kill.c` sends 0 for an
  argument that is no number.
* A kill() between killed(p) and sleep() in wait() (`proc.c:461`) is noticed only
  when a child exits.
* A process that ends in its alarm handler leaks the saved trapframe, and the slot
  keeps the pointer (`proc.c:177`): PagesOwned of `Alarm` fails.
* A handler that calls sigalarm() turns the alarm on inside the handler
  (`sysproc.c:159`): NoReentry fails with `Rearm = TRUE`.
* exec() keeps alarm_handler, an address of the old image (`exec.c:125`).
* wtime may be 2^32 - 1: a tick can be counted in rtime after ctime was taken from
  the same tick (`proc.c:750`). WaitTime states exactly this.
* sleep() of a negative number sleeps about 2^32 ticks (`sysproc.c:63`).
* sys_waitx() copies uninitialised values when waitx() returns -1
  (`sysproc.c:106`), and getSysCount() reads `syscall_count[-1]` for a mask with
  bit 0 (`sysproc.c:136`).
* wait() replaces the caller's counts by those of the last child; its own and those of
  earlier children are lost (`proc.c:439`). So a program under syscount that waits for
  children, as sh and forktest do, is reported with the calls of its last child and
  those it made afterwards: CountsOfAnyChild of `Clock` fails. CountsOfChild excludes it.

Storage

* A process whose current directory was removed and that looks up ".." may reach an
  inode that is free: ilock() panics (`fs.c:315`). `Elems` has no "..".
* What is created in a removed directory is never freed; hence "at least" in
  LinksCounted.
* bget() panics when all buffers are in use, and NBUF is LOGSIZE (`bio.c:88`): a
  transaction that pins LOGSIZE - 1 buffers leaves one. `MaxPins` keeps away from it.
* A process that cannot have three descriptors frees the ones it got, which wakes
  the other waiters (`virtio_disk.c:206`): they take turns until a request completes.
* A writer that is killed between two bytes returns -1 without wakeup()
  (`pipe.c:84`): a reader may sleep over the bytes it left. NoLostWakeup excludes
  these pipes (`cut`).

Network programs

* When the length of the message is no multiple of CHUNK_SIZE the receiver prints bytes
  that were not sent (`retransmissions.c:85`): PrintsTheMessage fails. Reassembled says
  which bytes they may be.
* The receiver ends once it has sent the last acknowledgment; if that is lost the
  sender repeats for ever (`:95`): Finishes fails with "ack" in `Lose`. If the
  datagram with the number of chunks is lost, the first chunk is taken for it (`:63`).
* A win with the ninth move is also called a draw (`tcp_tictactoe_server.c:309`, and
  in the UDP server): DrawHasNoWinner fails.
* Both threads reset the board for a replay; the second reset erases moves of the
  new game (`tcp_tictactoe_server.c:327`): MovesKept fails. It also gives the turn to
  player 1 without waking him, so that both threads may wait for ever. The properties
  of `game` exclude the rest of such a game (`late`).
* A TCP player who leaves makes the other thread wait for ever (`:245`).
* In the UDP server both threads ask both players for a replay, so a client that has
  said no is asked again and the server hangs in recvfrom()
  (`udp_tictactoe_server.c:113`); the board is never reset in spite of the message
  "Resetting the board..." (`:120`); after the ninth move the other thread may still
  ask for a tenth; an empty line counts as leaving, closes the shared socket and
  leaves the other thread waiting.

## 5. Fairness

* `Proc`: every scheduler loops (WF), `swtch` completes (WF). The timer interrupt
  of each CPU is strongly fair for each thread: interrupts are off while a lock is
  held, but timers tick for ever, and a thread cannot stay clear of them by
  computing. Kernel code of a thread is strongly fair because the thread loses its
  CPU to the timer over and over and comes back; so is init's loop around `wait`.
* `Alarm`: the timer keeps interrupting a running process.
* `Log`: commit and recovery go on, and a file system call reaches its end_op().
* `Transfer`: both programs run, and a chunk that is sent again and again is not
  lost every time.
* `Game`: threads run and players answer; a player asked again and again makes a
  valid move in the end.
* The other modules state safety properties only.

## 6. Proofs

TLAPS checks the modules named `...Proofs`, eight in all, one for a module of the
model. The theorems hold for every value of the constants that the named
assumptions of the model allow; TLC evaluates these assumptions in the runs. Every
proof has the same shape: none of the properties is inductive alone, so an
invariant of several named parts is stated first, each part with the action it is
about; one lemma per action or per part shows that a step keeps it; `Invariance`
combines them, and the theorems at the end of the module follow from the invariant.
Each invariant was checked on the instance of the run before it was proved.

| Module | Theorem | What it states, for all constants |
|---|---|---|
| `ProcProofs` | TypeCorrect, StacksExclusive, FreedSlotsOffCpu, SchedNeverPanics, WakeupsNotLost, OrphansHaveParent | TypeOK, StackExclusive, FreedOffCpu, SchedLocks, NoLostWakeup, OrphansAdopted |
| `ProcProofs` | Refinement | ImplementsTree |
| `LogProofs` | NeverPanics, IdleIsDurable, TransactionsAreAtomic | NoPanic, DurableWhenIdle, ImplementsTxn |
| `AlarmProofs` | NoHandlerReentry, SigreturnResumes | NoReentry, ReturnsToInterrupted |
| `ClockProofs` | CountsAreTheChilds, NobodyOversleeps, WaitTimesInRange | CountsOfChild, NoOversleep, WaitTime |
| `DiskProofs` | ReadersSeeTheLast, NoDescriptorLost, EveryRequestOnce | ReadsLatest, DescriptorsOwned, NoLostCompletion |
| `FsProofs` | ReferencesExact, BlocksExact, LastReference | RefsExact, BlocksOwned, LastUnlocked |
| `FsProofs`, without ".." | LinksExist, NeverPanics, NoneDangles | LinksCounted, NoPanic, PointersValid |
| `PipeProofs` | ReferencesExact, EndsHaveFiles, WakeupsNotLost, PipeIsChannel | FileRefs, PipeEnds, NoLostWakeup, IsChannel |
| `TransferProofs` | AllAcknowledgedAreStored, MessageReassembled | AcknowledgedIsStored, Reassembled |

The other proof modules have a TypeCorrect too (that of `FsProofs` without ".."); the type invariant is part of what
the rest of each proof needs.

### Processes

Any NPROC > 0, NCPU > 0, MaxPid, KillPids and Failures. `IInv` has ten
parts: types; who is on which CPU and that `p->lock` is held exactly while a
context is being switched out (CpuInv); that `wait_lock` belongs to the one
thread inside WaitLocked (LockInv); index ranges; that a child under construction
belongs to one fork (ForkInv); the shape of the tree (ParentInv); what a
half-finished exit() has established about the slots behind its index (ExitInv);
what a scan by wait() has established (ScanInv); and where and why processes sleep
(SleepChan, SleepInv). The last two carry NoLostWakeup: the only sleeper with a
zombie child is init, for as long as the process that handed the child over is
about to wake it.

`Refinement`: exit takes effect when it acquires `wait_lock`; from then on its
process counts as a zombie and children it has not reached yet count as init's.
Under `wait_lock` nobody else can see the difference.

### Log

Any finite set of concurrent calls, any blocks and values, and MAXOPBLOCKS and
LOGSIZE with `OpBlocks < MAXOPBLOCKS < LOGSIZE` (ReservationAssumption: the calls of
fs.c and file.c write fewer blocks than begin_op() reserves for them, `param.h`).
That the log never overflows is a counting argument (SpaceInv): the free entries
cover `outstanding * MAXOPBLOCKS` less what the active calls have used. It is not
inductive without its last conjunct, since begin_op() checks the space with
MAXOPBLOCKS per call but the log holds one block less than LOGSIZE: a call that is
alone in its transaction is either the first or has been left an entry by one that
ended. For crashes: the header on disk is the transaction from the commit point to
the last installed block (HeadInv); pinned is what is logged and not yet installed,
and no other cached block differs from its home (PinInv); and what log blocks and
home blocks hold at every point of a commit and a recovery (CopyInv).

`TransactionsAreAtomic`: in `Txn` a commit is the one disk write of the header
(write_head); each step of copying before it and installing after it leaves
AfterRecovery as it was, and a crash maps to Txn's crash wherever it comes.

### Buffer cache and disk

Any finite set of processes, any blocks, buffers, descriptors (NUM) and any modulus of the ring
indices that is a multiple of NUM, as 2^16 is of 8. The first half of `IInv` is the
cache: CacheType, the sleep-lock's holder and waiters (LockInv), that refcnt is
the number of holders, waiters and pins (RefInv), one buffer per block (CacheInv),
and where the latest contents of a block are: in its buffer, if that is valid, and
on the disk too unless that buffer is locked or pinned (DataInv). The second half is the driver: QueueType,
the chains of descriptors (ChainInv), the state of each request from alloc3_desc()
to free_chain() (RequestInv), what is between the indices of both rings (RingInv),
and who is asleep with what still to come (WakeInv). EveryRequestOnce counts a
request's head in three places: avail ring, device, used ring. That rests on lemmas
about a ring whose counters wrap around (Advance, Position, Enqueue, Dequeue, Room),
which also say that a ring is never over-full because there are not more chains
than descriptors.

### File system

Any finite set of processes, any numbers of inodes, blocks, descriptors and direct and
indirect addresses, any names and any calls; a block has at least three
directory entries (SizeAssumption: mkfs puts three into the root's first block, and
the code has 64). The first invariant, `IInv`, holds with ".." in paths too. A reference is dropped long after it was taken, by a list of iput()s
that a call has still to do, so RefsExact needs CallInv: which of its two inodes a call
has at each of its points, and of which kind of call that point is. Each step of a call
then takes at most one reference and hands the others over, to a local, a descriptor,
the current directory or the list (Balanced, and the counting lemmas under it: one
place changes, one term of the sum changes).

BlocksOwned is about the inodes as the next ilock() finds them. To be inductive it has
to hold of the disk too (BlockInv), so CacheInv says when the copy in the table is the
inode on disk, which it is but for a window in iput(): between itrunc() and the release
of the lock ialloc() may already have taken the inode on disk. LockInv says which two
inodes a process has locked at each point, the one its call works on and the one that
its iput() frees, and that they differ. The lemmas Bmap, Dirlink and writei's say that
what balloc() took is in the inode, also when there was no block for the data after the
indirect block. One lemma per action shows that its step is good (Good): types, the
process's own part of the state, its balance, its locks and the blocks.

`LastReference` is the comment at `fs.c:343`: who holds the last reference does not wait
for the lock. Somebody who had the inode locked would have a reference of his own, so
`ref` would be 2.

The second invariant, `TreeInv`, is about links. It is proved from `".." \notin Elems`,
and cannot do without: with ".." LinksCounted and NoPanic are false (section 4). The
instance of section 3 satisfies it. LinksCounted says nothing of who may still use an
inode without links, so it is not inductive. LinkInv is LinksCounted of the disk; it
agrees with LinksCounted of the copies outside the window of CacheInv, and in the window
the inode has no links. LiveInv says that every pointer but the one through which iput()
is freeing an inode is to an inode in use; FreeingInv and NewInv that nothing else points
to an inode that is being freed, or that create() has just taken and not yet named;
KindInv what a call has found out before it let go of a lock and relies on when it has
it again (unlink()'s entry is still there because the parent stays locked; link()'s old
inode is still no directory because types change only in ialloc() and iput());
DotInv that "." is the first entry of a directory, so that looking it up finds the
directory itself. The directory in which a lookup finds an entry is locked, so the entry
still counts as a link when iget() takes the reference: that is why what is found is
never free (Found). For the sum of LinkInv, a step changes one place of one directory and
at most one call (ListStep, LinkStep): link() and unlink() pass a unit from the call to
the entry and back, mkdir() and unlink() of a directory change the parent's count with
its subdirectories. The panic that remains possible, then, is the one of section 4.

### Pipes

Any finite set of processes, any numbers of files, descriptors and pages, any
PIPESIZE, and counters modulo any larger multiple of it, as 2^32 is of 512.
`IInv` begins with the references. What a process has at hand, the files it is about
to put into descriptors or to close, are at most two different ones, and none while it
reads or writes (HandInv); FileInv counts descriptors and hands; CallInv says that a
process in read() or write() keeps a descriptor for that end, which is why no end
closes under it. The counting lemmas (Descriptor, HandChange, FileCount) are shared
by pipe, dup, close, exit and fork, which copies all descriptors at once. EndInv adds
to PipeEnds that an end has one file or one close() on its way, never two, so that the
last reference ends it, and that a page without ends is as it was before it was used.
LockInv says who holds `pi->lock` between two steps. NoLostWakeup is not inductive: it
allows a sleeper whose condition holds as long as anyone has the lock. SleepInv says
who: a writer that has written a byte, or a reader that is copying, and both come to
their wakeup() before they give up the lock, unless the writer is killed (`cut`).
RingInv bounds the bytes by PIPESIZE, from lemmas about counters that wrap around.

`PipeIsChannel`: pipealloc() is Create, a byte written or read is Put or Get, the
step of pipeclose() is Close, and all else leaves queues and ends as they are. That
the ring gives back the bytes in their order (BytesPut, BytesGet) is where PIPESIZE has
to divide the range of the counters.

### Alarm

Any slots, programs, intervals and pages. The invariant of types needs to count pages
(PageInv: kfree() gives back only what kalloc() gave out). HandlerInv: while a handler
runs the alarm is off and alarm_tf is the context it interrupted, whatever an earlier
owner has left there. Both theorems assume `~Rearm`, that handlers do not call
sigalarm() with a positive interval; with `Rearm` they are false (section 4).

### Clock

Any slots, CPUs, width of ticks and number of interrupts less than half the width. A
process is charged with the interrupt it was created in only if it was
RUNNING when update_time() came to its slot; Pending(s) says whether it still will,
and TimeInv bounds rtime by the interrupts since creation, plus one. SleepInv does
the unsigned subtraction `ticks - ticks0`. ForkInv says that a child in fork() does not
run and belongs to one process only. CountInv is CountsOfChild with the part that makes
it inductive: a process that has not waited has nothing to remember, so that what its
parent takes over are its own calls.

### Transfer

Any number of chunks, any socket buffer, any losses. OrderInv is the order the handshake
forces on the two queues of datagrams, StoreInv says that what is stored or acknowledged
under a number, also in a datagram on its way, is that chunk, and PassInv that a
pass of the sender that met no missing acknowledgment may end. For the exact message
PlaceInv follows the datagram with the number of chunks, and HalfInv the second half of
the packet buffer, which a short chunk leaves as it is. MessageReassembled assumes
that the number of chunks is not lost (`"total"` not in `Lose`, `Buffer > 1`, since
a buffer of one datagram drops it): without that it is false (section 4). The message
is any, its last chunk full or short.

### What is not proved

* Everything under fairness: RunnableRuns, OrphansReaped, AlarmFires, SleepersWoken,
  Finishes, ServerEnds. The prover has no rules for fairness and ENABLED.
* LinksCounted, NoPanic and PointersValid of `Fs` for calls with "..": false (section 4).
* `Mem`. A call is a fold over the pages it goes through, in the order of the code, and
  what a fold computes is shown by induction over data, which the prover has no rule
  for that its backends can use.
* The properties of `Game` and FairPlay. `Game` and `UdpGame` have no constants and no
  bounds: TLC covers every behaviour of the models.

## 7. Not modelled

* Console and UART: the three indices of `cons.buf` and the transmit ring.
* Boot code, the PLIC, printf and string functions: no state that several actors
  change. Register save and restore in assembly is taken as correct, and so are
  push_off() and pop_off().
* The kernel's own page table, built once at boot, and the contents of user memory.
* The bytes of files; the limit of the inode table (iget() panics when it is full);
  an error reported by the disk (the driver panics).
* mkfs and the user programs: sequential clients, of which the modules take the calls
  they make. The RAM disk is not linked.
* Loss of datagrams in the UDP game: neither program has a way to go on after one.

## 8. Plan

1. `Console`: consoleread() and consoleintr() on the three indices; uartputc(),
   uartputc_sync() and uartstart() on the transmit register.
