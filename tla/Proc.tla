-------------------------------- MODULE Proc --------------------------------
(***************************************************************************)
(* The process table of kernel/proc.c: NPROC slots, NCPU schedulers, and   *)
(* the kernel threads that run fork, exit, wait and kill on them.          *)
(*                                                                         *)
(* Grain of atomicity.  A critical section that acquires one p->lock and   *)
(* releases it again is one step, enabled while the lock is free.  The     *)
(* locks that stay held from one step to the next are variables: wait_lock *)
(* (the loops of wait and exit run under it) and plock (p->lock, which a   *)
(* thread that gives up its CPU hands to the scheduler across swtch).      *)
(* Every loop over proc[] visits one slot per step, so that the steps of   *)
(* the other CPUs come in between, and a timer interrupt can take the CPU  *)
(* away wherever the thread holds no lock (interrupts are off otherwise).  *)
(***************************************************************************)
EXTENDS Integers, FiniteSets

CONSTANTS
  NPROC,      \* number of slots of proc[] (param.h)
  NCPU,       \* number of CPUs running scheduler()
  MaxPid,     \* bound: no fork starts once the next pid is beyond it
  KillPids,   \* the pids user programs pass to kill()
  Failures    \* the calls that may fail, a subset of {"kalloc", "copyout"}

ASSUME SizeAssumption == NPROC \in Nat \ {0} /\ NCPU \in Nat \ {0}
ASSUME PidAssumption == MaxPid \in Nat \ {0} /\ KillPids \subseteq Nat
ASSUME FailureAssumption == Failures \subseteq {"kalloc", "copyout"}

Slots    == 1..NPROC
CPUs     == 1..NCPU
Null     == 0           \* the null pointer in p->parent, p->chan and c->proc
Nobody   == 0           \* lk->cpu of a free lock
Index    == 0..NPROC + 1  \* a loop's pointer into proc[]: 0 before, NPROC + 1 after
initproc == 1           \* userinit() takes the first slot of the empty table

VARIABLES
  state, chan, killed, pid, parent,   \* the fields of struct proc, per slot
  nextpid,
  plock, wait_lock,                   \* p->lock and wait_lock: the CPU that holds it
  cproc, sidx,                        \* per CPU: c->proc, and p of scheduler()'s loop
  pc, sw,                             \* per thread: where it is, and its context
  idx, widx, arg, kids                \* per thread: locals of the system call

table  == <<state, chan, killed, pid, parent, nextpid>>
locks  == <<plock, wait_lock>>
sched  == <<cproc, sidx>>
locals == <<idx, widx, arg, kids>>
vars   == <<table, locks, sched, pc, sw, locals>>

ProcState == {"UNUSED", "USED", "SLEEPING", "RUNNABLE", "RUNNING", "ZOMBIE"}

\* Where a thread can be; those of WaitLocked lie between acquire(&wait_lock)
\* and its release.
WaitLocked == {"wait_scan", "wait_sleep", "exit_reparent",
               "exit_wakeinit", "exit_wakeup", "exit_zombie"}
Unlocked   == {"none", "user", "ret", "fork_scan", "fork_parent", "fork_run",
               "kill_scan", "wait", "wait_asleep", "exit"}

\* A thread's context: "go" while it executes, "switch" from the moment it has
\* given up its state under p->lock until swtch has saved its registers, "saved"
\* from then on, until a scheduler loads them.
Context == {"go", "switch", "saved"}

TypeOK ==
  /\ state \in [Slots -> ProcState]
  /\ chan \in [Slots -> Slots \cup {Null}]
  /\ killed \in [Slots -> BOOLEAN]
  /\ pid \in [Slots -> Nat]
  /\ parent \in [Slots -> Slots \cup {Null}]
  /\ nextpid \in Nat
  /\ plock \in [Slots -> CPUs \cup {Nobody}]
  /\ wait_lock \in CPUs \cup {Nobody}
  /\ cproc \in [CPUs -> Slots \cup {Null}]
  /\ sidx \in [CPUs -> Slots]
  /\ pc \in [Slots -> WaitLocked \cup Unlocked]
  /\ sw \in [Slots -> Context]
  /\ idx \in [Slots -> Index]
  /\ widx \in [Slots -> Index]
  /\ arg \in [Slots -> Nat]
  /\ kids \in [Slots -> BOOLEAN]

-----------------------------------------------------------------------------
(* procinit() and userinit(): the first process waits to be scheduled.     *)

Init ==
  /\ state = [s \in Slots |-> IF s = initproc THEN "RUNNABLE" ELSE "UNUSED"]
  /\ chan = [s \in Slots |-> Null]
  /\ killed = [s \in Slots |-> FALSE]
  /\ pid = [s \in Slots |-> IF s = initproc THEN 1 ELSE 0]
  /\ parent = [s \in Slots |-> Null]
  /\ nextpid = 2
  /\ plock = [s \in Slots |-> Nobody]
  /\ wait_lock = Nobody
  /\ cproc = [c \in CPUs |-> Null]
  /\ sidx = [c \in CPUs |-> 1]
  /\ pc = [s \in Slots |-> IF s = initproc THEN "user" ELSE "none"]
  /\ sw = [s \in Slots |-> "saved"]
  /\ idx = [s \in Slots |-> 0]
  /\ widx = [s \in Slots |-> 0]
  /\ arg = [s \in Slots |-> 0]
  /\ kids = [s \in Slots |-> FALSE]

-----------------------------------------------------------------------------
(* Shared pieces of the operations.                                        *)

\* Thread s executes on CPU c and has reached the point `at'.
On(c, s, at) == cproc[c] = s /\ sw[s] = "go" /\ pc[s] = at

Free(s) == plock[s] = Nobody

Goto(s, at) == pc' = [pc EXCEPT ![s] = at]

\* The thread returns from its system call to usertrap(): its locals are dead.
Return(s) ==
  /\ Goto(s, "ret")
  /\ idx' = [idx EXCEPT ![s] = 0]
  /\ widx' = [widx EXCEPT ![s] = 0]
  /\ arg' = [arg EXCEPT ![s] = 0]
  /\ kids' = [kids EXCEPT ![s] = FALSE]

\* Mutant: p->lock is released before swtch has saved the context.
GiveUpUnlocked(c, s, newstate) ==
  /\ Free(s)
  /\ state' = [state EXCEPT ![s] = newstate]
  /\ sw' = [sw EXCEPT ![s] = "switch"]
  /\ UNCHANGED plock

\* The end of yield(), sleep() and exit(): with p->lock held and the new state
\* set, the thread calls sched().
GiveUp(c, s, newstate) ==
  /\ Free(s)
  /\ plock' = [plock EXCEPT ![s] = c]
  /\ state' = [state EXCEPT ![s] = newstate]
  /\ sw' = [sw EXCEPT ![s] = "switch"]

\* freeproc(q), which must run under q's lock.
freeproc(q) ==
  /\ pid' = [pid EXCEPT ![q] = 0]
  /\ parent' = [parent EXCEPT ![q] = Null]
  /\ chan' = [chan EXCEPT ![q] = Null]
  /\ killed' = [killed EXCEPT ![q] = FALSE]
  /\ state' = [state EXCEPT ![q] = "UNUSED"]

\* Mutant: a slot whose lock is taken is passed over.
WakeupTry(s, q, ch) ==
  state' = IF q # s /\ Free(q) /\ state[q] = "SLEEPING" /\ chan[q] = ch
           THEN [state EXCEPT ![q] = "RUNNABLE"] ELSE state

\* Mutant: the loop starts at the second slot.
WakeupNotFirst(s, q, ch) ==
  IF q \in {s, 1}
  THEN UNCHANGED state
  ELSE /\ Free(q)
       /\ state' = IF state[q] = "SLEEPING" /\ chan[q] = ch
                   THEN [state EXCEPT ![q] = "RUNNABLE"] ELSE state

\* One iteration of wakeup(ch) by thread s, at slot q.
wakeup(s, q, ch) ==
  IF q = s
  THEN UNCHANGED state
  ELSE /\ Free(q)
       /\ state' = IF state[q] = "SLEEPING" /\ chan[q] = ch
                   THEN [state EXCEPT ![q] = "RUNNABLE"] ELSE state

-----------------------------------------------------------------------------
(* scheduler() on CPU c.                                                   *)

\* Mutant: the scan runs past the end of proc[].
AdvanceNoWrap(c) == sidx' = [sidx EXCEPT ![c] = @ + 1]

\* Mutant: after running a process the scan starts over.
AdvanceRestart(c) ==
  sidx' = [sidx EXCEPT ![c] = IF @ = NPROC \/ cproc[c] # Null THEN 1 ELSE @ + 1]

Advance(c) == sidx' = [sidx EXCEPT ![c] = IF @ = NPROC THEN 1 ELSE @ + 1]

\* The slot looked at is not RUNNABLE: release its lock and go on.
SchedSkip(c) ==
  LET s == sidx[c] IN
  /\ cproc[c] = Null
  /\ Free(s) /\ state[s] # "RUNNABLE"
  /\ Advance(c)
  /\ UNCHANGED <<table, locks, cproc, pc, sw, locals>>

\* Switch to a RUNNABLE process.  The thread resumes after its own sched() (or
\* in forkret), still under p->lock: out of sleep() it clears p->chan, and then
\* it releases the lock.
SchedRun(c) ==
  LET s == sidx[c] IN
  /\ cproc[c] = Null
  /\ Free(s) /\ state[s] = "RUNNABLE"
  /\ state' = [state EXCEPT ![s] = "RUNNING"]
  /\ cproc' = [cproc EXCEPT ![c] = s]
  /\ sw' = [sw EXCEPT ![s] = "go"]
  /\ IF pc[s] = "wait_asleep"
     THEN Goto(s, "wait") /\ chan' = [chan EXCEPT ![s] = Null]
     ELSE UNCHANGED <<pc, chan>>
  /\ UNCHANGED <<killed, pid, parent, nextpid, locks, sidx, locals>>

\* sched() in thread s, and the scheduler it switches to: swtch saves the
\* thread's registers, the scheduler clears c->proc, releases the lock the
\* thread acquired, and goes on to the next slot.
Swtch(c, s) ==
  /\ cproc[c] = s /\ sw[s] = "switch"
  /\ sw' = [sw EXCEPT ![s] = "saved"]
  /\ cproc' = [cproc EXCEPT ![c] = Null]
  /\ plock' = [plock EXCEPT ![s] = Nobody]
  /\ Advance(c)
  /\ UNCHANGED <<table, wait_lock, pc, locals>>

\* A timer interrupt in thread s, whose CPU holds no lock: yield().  One that
\* comes from user space looks at p->killed first.
Timer(c, s) ==
  /\ cproc[c] = s /\ sw[s] = "go" /\ pc[s] \notin WaitLocked
  /\ IF pc[s] = "user" /\ killed[s]
     THEN Goto(s, "exit") /\ UNCHANGED <<state, plock, sw>>
     ELSE GiveUp(c, s, "RUNNABLE") /\ UNCHANGED pc
  /\ UNCHANGED <<chan, killed, pid, parent, nextpid, wait_lock, sched, locals>>

-----------------------------------------------------------------------------
(* usertrap(): the ways into the kernel and back.                          *)

\* An ecall.  A process that has been killed exits instead.  init calls fork
\* and wait only (user/init.c); kill's argument is any pid the programs use.
Syscall(c, s) ==
  /\ On(c, s, "user") /\ Free(s)
  /\ \/ killed[s] /\ Goto(s, "exit") /\ UNCHANGED <<idx, arg>>
     \/ /\ ~killed[s] /\ s # initproc
        /\ Goto(s, "exit") /\ UNCHANGED <<idx, arg>>
     \/ ~killed[s] /\ Goto(s, "wait") /\ UNCHANGED <<idx, arg>>
     \/ /\ ~killed[s] /\ nextpid <= MaxPid
        /\ Goto(s, "fork_scan") /\ idx' = [idx EXCEPT ![s] = 1] /\ UNCHANGED arg
     \/ \E target \in KillPids :
          /\ ~killed[s] /\ s # initproc
          /\ Goto(s, "kill_scan")
          /\ idx' = [idx EXCEPT ![s] = 1]
          /\ arg' = [arg EXCEPT ![s] = target]
  /\ UNCHANGED <<table, locks, sched, sw, widx, kids>>

\* An exception in user code: setkilled(p), and then exit(-1).
Fault(c, s) ==
  /\ On(c, s, "user") /\ Free(s) /\ s # initproc
  /\ killed' = [killed EXCEPT ![s] = TRUE]
  /\ Goto(s, "exit")
  /\ UNCHANGED <<state, chan, pid, parent, nextpid, locks, sched, sw, locals>>

\* The end of usertrap(): exit if killed meanwhile, else back to user space.
UserTrapRet(c, s) ==
  /\ On(c, s, "ret") /\ Free(s)
  /\ Goto(s, IF killed[s] THEN "exit" ELSE "user")
  /\ UNCHANGED <<table, locks, sched, sw, locals>>

-----------------------------------------------------------------------------
(* fork().                                                                 *)

\* allocproc() looks at one slot.  In an UNUSED one it sets up the process; when
\* memory runs out, there or in uvmcopy, freeproc undoes all but the pid.
ForkScan(c, s) ==
  LET q == idx[s] IN
  /\ On(c, s, "fork_scan")
  /\ Free(q)
  /\ IF state[q] = "UNUSED"
     THEN /\ nextpid' = nextpid + 1
          /\ \/ /\ pid' = [pid EXCEPT ![q] = nextpid]
                /\ state' = [state EXCEPT ![q] = "USED"]
                /\ pc' = [pc EXCEPT ![s] = "fork_parent", ![q] = "user"]
                /\ arg' = [arg EXCEPT ![s] = q]
                /\ idx' = [idx EXCEPT ![s] = 0]
                /\ UNCHANGED <<chan, killed, parent, widx, kids>>
             \/ "kalloc" \in Failures /\ freeproc(q) /\ Return(s)
     ELSE /\ IF q = NPROC
             THEN Return(s)
             ELSE /\ idx' = [idx EXCEPT ![s] = q + 1]
                  /\ UNCHANGED <<pc, widx, arg, kids>>
          /\ UNCHANGED table
  /\ UNCHANGED <<locks, sched, sw>>

\* With np->lock released, take wait_lock for np->parent = p.
ForkParent(c, s) ==
  /\ On(c, s, "fork_parent")
  /\ wait_lock = Nobody
  /\ parent' = [parent EXCEPT ![arg[s]] = s]
  /\ Goto(s, "fork_run")
  /\ UNCHANGED <<state, chan, killed, pid, nextpid, locks, sched, sw, locals>>

ForkRun(c, s) ==
  /\ On(c, s, "fork_run")
  /\ Free(arg[s])
  /\ state' = [state EXCEPT ![arg[s]] = "RUNNABLE"]
  /\ Return(s)
  /\ UNCHANGED <<chan, killed, pid, parent, nextpid, locks, sched, sw>>

-----------------------------------------------------------------------------
(* exit().                                                                 *)

\* Files and directory are closed; exit takes wait_lock.
ExitLock(c, s) ==
  /\ On(c, s, "exit") /\ s # initproc
  /\ wait_lock = Nobody
  /\ wait_lock' = c
  /\ Goto(s, "exit_reparent")
  /\ idx' = [idx EXCEPT ![s] = 1]
  /\ UNCHANGED <<table, plock, sched, sw, widx, arg, kids>>

\* Mutant: the loop of reparent stops one slot early.
ReparentDoneEarly(q) == q >= NPROC

ReparentDone(q) == q > NPROC

\* reparent(p) at one slot: a child goes to init, which is then woken.
ExitReparent(c, s) ==
  LET q == idx[s] IN
  /\ On(c, s, "exit_reparent")
  /\ IF ReparentDone(q)
     THEN /\ Goto(s, "exit_wakeup")
          /\ widx' = [widx EXCEPT ![s] = 1]
          /\ idx' = [idx EXCEPT ![s] = 0]
          /\ UNCHANGED parent
     ELSE IF parent[q] = s
     THEN /\ parent' = [parent EXCEPT ![q] = initproc]
          /\ Goto(s, "exit_wakeinit")
          /\ widx' = [widx EXCEPT ![s] = 1]
          /\ UNCHANGED idx
     ELSE /\ idx' = [idx EXCEPT ![s] = q + 1]
          /\ UNCHANGED <<pc, parent, widx>>
  /\ UNCHANGED <<state, chan, killed, pid, nextpid, locks, sched, sw, arg, kids>>

\* wakeup(initproc) inside reparent, at one slot.
ExitWakeInit(c, s) ==
  LET q == widx[s] IN
  /\ On(c, s, "exit_wakeinit")
  /\ wakeup(s, q, initproc)
  /\ IF q = NPROC
     THEN /\ Goto(s, "exit_reparent")
          /\ widx' = [widx EXCEPT ![s] = 0]
          /\ idx' = [idx EXCEPT ![s] = @ + 1]
     ELSE widx' = [widx EXCEPT ![s] = q + 1] /\ UNCHANGED <<pc, idx>>
  /\ UNCHANGED <<chan, killed, pid, parent, nextpid, locks, sched, sw, arg, kids>>

\* wakeup(p->parent), at one slot.
ExitWakeup(c, s) ==
  LET q == widx[s] IN
  /\ On(c, s, "exit_wakeup")
  /\ wakeup(s, q, parent[s])
  /\ IF q = NPROC
     THEN Goto(s, "exit_zombie") /\ widx' = [widx EXCEPT ![s] = 0]
     ELSE widx' = [widx EXCEPT ![s] = q + 1] /\ UNCHANGED pc
  /\ UNCHANGED <<chan, killed, pid, parent, nextpid, locks, sched, sw, idx, arg, kids>>

\* Under p->lock the process becomes a ZOMBIE; wait_lock goes, p->lock stays.
ExitZombie(c, s) ==
  /\ On(c, s, "exit_zombie")
  /\ GiveUp(c, s, "ZOMBIE")
  /\ wait_lock' = Nobody
  /\ Goto(s, "none")
  /\ UNCHANGED <<chan, killed, pid, parent, nextpid, sched, locals>>

-----------------------------------------------------------------------------
(* wait(), and waitx(), which has the same control.                        *)

\* Acquire wait_lock, on entry or when sleep() has returned, and start a scan.
WaitLock(c, s) ==
  /\ On(c, s, "wait")
  /\ wait_lock = Nobody
  /\ wait_lock' = c
  /\ Goto(s, "wait_scan")
  /\ idx' = [idx EXCEPT ![s] = 1]
  /\ kids' = [kids EXCEPT ![s] = FALSE]
  /\ UNCHANGED <<table, plock, sched, sw, widx, arg>>

\* A slot that is not a ZOMBIE child of p.
WaitScan(c, s) ==
  LET q == idx[s] IN
  /\ On(c, s, "wait_scan")
  /\ q <= NPROC
  /\ \/ parent[q] # s /\ UNCHANGED kids
     \/ /\ parent[q] = s /\ Free(q) /\ state[q] # "ZOMBIE"
        /\ kids' = [kids EXCEPT ![s] = TRUE]
  /\ idx' = [idx EXCEPT ![s] = q + 1]
  /\ UNCHANGED <<table, locks, sched, pc, sw, widx, arg>>

\* Mutant: the child's lock is not acquired.
FoundZombieUnlocked(s, q) == parent[q] = s /\ state[q] = "ZOMBIE"

\* Under q's lock, which waits for q to be out of exit() and swtch().
FoundZombie(s, q) == parent[q] = s /\ Free(q) /\ state[q] = "ZOMBIE"

\* A ZOMBIE child: free it, unless its status cannot be copied out.  init
\* passes a null address, for which nothing is copied.
WaitReap(c, s) ==
  LET q == idx[s] IN
  /\ On(c, s, "wait_scan")
  /\ q <= NPROC
  /\ FoundZombie(s, q)
  /\ \/ freeproc(q) /\ UNCHANGED nextpid
     \/ "copyout" \in Failures /\ s # initproc /\ UNCHANGED table
  /\ wait_lock' = Nobody
  /\ Return(s)
  /\ UNCHANGED <<plock, sched, sw>>

\* After the scan: without children, or killed, there is no point in waiting.
WaitKilled(c, s) ==
  /\ On(c, s, "wait_scan")
  /\ idx[s] > NPROC /\ Free(s)
  /\ IF ~kids[s] \/ killed[s]
     THEN wait_lock' = Nobody /\ Return(s)
     ELSE /\ Goto(s, "wait_sleep")
          /\ idx' = [idx EXCEPT ![s] = 0]
          /\ kids' = [kids EXCEPT ![s] = FALSE]
          /\ UNCHANGED <<wait_lock, widx, arg>>
  /\ UNCHANGED <<table, plock, sched, sw>>

\* sleep(p, &wait_lock): p->lock first, and only then is wait_lock released.
WaitSleep(c, s) ==
  /\ On(c, s, "wait_sleep")
  /\ GiveUp(c, s, "SLEEPING")
  /\ wait_lock' = Nobody
  /\ chan' = [chan EXCEPT ![s] = s]
  /\ Goto(s, "wait_asleep")
  /\ UNCHANGED <<killed, pid, parent, nextpid, sched, locals>>

-----------------------------------------------------------------------------
(* kill().                                                                 *)

KillScan(c, s) ==
  LET q == idx[s] IN
  /\ On(c, s, "kill_scan")
  /\ Free(q)
  /\ IF pid[q] = arg[s]
     THEN /\ killed' = [killed EXCEPT ![q] = TRUE]
          /\ state' = IF state[q] = "SLEEPING"
                      THEN [state EXCEPT ![q] = "RUNNABLE"] ELSE state
          /\ Return(s)
     ELSE /\ IF q = NPROC
             THEN Return(s)
             ELSE /\ idx' = [idx EXCEPT ![s] = q + 1]
                  /\ UNCHANGED <<pc, widx, arg, kids>>
          /\ UNCHANGED <<killed, state>>
  /\ UNCHANGED <<chan, pid, parent, nextpid, locks, sched, sw>>

-----------------------------------------------------------------------------

Thread(c, s) ==
  \/ Swtch(c, s) \/ Timer(c, s)
  \/ Syscall(c, s) \/ Fault(c, s) \/ UserTrapRet(c, s)
  \/ ForkScan(c, s) \/ ForkParent(c, s) \/ ForkRun(c, s)
  \/ ExitLock(c, s) \/ ExitReparent(c, s) \/ ExitWakeInit(c, s)
  \/ ExitWakeup(c, s) \/ ExitZombie(c, s)
  \/ WaitLock(c, s) \/ WaitScan(c, s) \/ WaitReap(c, s)
  \/ WaitKilled(c, s) \/ WaitSleep(c, s)
  \/ KillScan(c, s)

Next ==
  \E c \in CPUs :
    \/ SchedSkip(c) \/ SchedRun(c)
    \/ \E s \in Slots : Thread(c, s)

Spec == Init /\ [][Next]_vars

\* Kernel code of thread s that is not an interrupt: it goes on whenever the
\* thread has the CPU and the lock it needs.
Kernel(c, s) ==
  \/ UserTrapRet(c, s)
  \/ ForkScan(c, s) \/ ForkParent(c, s) \/ ForkRun(c, s)
  \/ ExitLock(c, s) \/ ExitReparent(c, s) \/ ExitWakeInit(c, s)
  \/ ExitWakeup(c, s) \/ ExitZombie(c, s)
  \/ WaitLock(c, s) \/ WaitScan(c, s) \/ WaitReap(c, s)
  \/ WaitKilled(c, s) \/ WaitSleep(c, s)
  \/ KillScan(c, s)

\* The schedulers loop, the timer of every CPU keeps ticking, a thread that gets
\* a CPU again and again makes progress on it, and init keeps calling wait().
Fairness ==
  /\ \A c \in CPUs : WF_vars(SchedSkip(c) \/ SchedRun(c))
  /\ \A c \in CPUs : \A s \in Slots : WF_vars(Swtch(c, s)) /\ SF_vars(Timer(c, s))
  /\ \A s \in Slots : SF_vars(\E c \in CPUs : Kernel(c, s))
  /\ SF_vars(\E c \in CPUs : Syscall(c, initproc) /\ pc'[initproc] = "wait")

FairSpec == Spec /\ Fairness

-----------------------------------------------------------------------------
(* Properties.                                                             *)

\* No two CPUs are ever on the same kernel stack: p->lock, held across swtch,
\* keeps a second scheduler from loading a context that is not yet saved.
StackExclusive ==
  \A c, d \in CPUs : cproc[c] = cproc[d] /\ cproc[c] # Null => c = d

\* wait() never frees a slot whose thread is still in exit() or swtch(), and
\* allocproc() never hands out such a slot.
FreedOffCpu ==
  \A s \in Slots : state[s] \in {"UNUSED", "USED"} =>
    sw[s] = "saved" /\ \A c \in CPUs : cproc[c] # s

\* What sched() panics about: its caller holds p->lock and no other lock.
SchedLocks ==
  \A c \in CPUs : \A s \in Slots : cproc[c] = s /\ sw[s] = "switch" =>
    plock[s] = c /\ wait_lock # c /\ state[s] # "RUNNING"

\* While nobody holds wait_lock, a parent asleep in wait() has a child and none
\* of its children is a ZOMBIE: no wakeup from exit() or reparent() is lost.
NoLostWakeup ==
  wait_lock = Nobody =>
    \A s \in Slots : state[s] = "SLEEPING" =>
      /\ \E q \in Slots : parent[q] = s
      /\ \A q \in Slots : parent[q] = s => state[q] # "ZOMBIE"

\* While nobody holds wait_lock, every process has a parent that can still wait
\* for it: one that is allocated and not exiting.
OrphansAdopted ==
  wait_lock = Nobody =>
    \A s \in Slots \ {initproc} :
      state[s] \notin {"UNUSED", "USED"} =>
        /\ parent[s] \in Slots
        /\ state[parent[s]] \in {"SLEEPING", "RUNNABLE", "RUNNING"}

\* kill() affects the process that has the given pid: a process comes out of
\* allocproc() with the kernel state of a new one, not with a pending kill.  The code
\* violates this when KillPids has 0; no run checks it (README, section 4).
BornUnkilled ==
  [][\A s \in Slots :
       state[s] = "UNUSED" /\ state'[s] = "USED" => ~killed'[s]]_vars

\* fork, exit and wait act on the tree of processes as single steps.  exit takes
\* effect when it acquires wait_lock: from then on its process is a zombie, and
\* the children it has not reached yet already belong to init.
Exiting == {"exit_reparent", "exit_wakeinit", "exit_wakeup", "exit_zombie"}

TreeStatus ==
  [s \in Slots |->
     IF state[s] = "ZOMBIE" \/ pc[s] \in Exiting THEN "zombie"
     ELSE IF s # initproc /\ parent[s] = Null THEN "free" ELSE "live"]

TreeUp ==
  [s \in Slots |->
     IF parent[s] \in Slots /\ pc[parent[s]] \in Exiting THEN initproc ELSE parent[s]]

Tree == INSTANCE ProcTree WITH status <- TreeStatus, up <- TreeUp
ImplementsTree == Tree!TreeSpec

\* The round-robin scan starves nobody.
RunnableRuns ==
  \A s \in Slots : state[s] = "RUNNABLE" ~> state[s] = "RUNNING"

\* A process that has been handed to init and has exited leaves the table: init
\* is woken for it and finds it.
OrphansReaped ==
  \A s \in Slots :
    (state[s] = "ZOMBIE" /\ parent[s] = initproc) ~> state[s] = "UNUSED"

=============================================================================
