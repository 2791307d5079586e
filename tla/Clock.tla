-------------------------------- MODULE Clock -------------------------------
(***************************************************************************)
(* The clock and what is counted with it: clockintr() and update_time(),   *)
(* sleep(), the times that waitx() reports, and the counts of system calls *)
(* of getSysCount(), which the program syscount reads.                     *)
(*                                                                         *)
(* clockintr() runs on CPU 0 with tickslock held, but ticks is read        *)
(* without it when a process is created and when it exits, and             *)
(* update_time() takes one p->lock after the other: the other CPUs go on   *)
(* in between.  Any process forks, and waits for its children with wait()  *)
(* or waitx(): syscount, the program it starts, the children of that one.  *)
(* The steps of fork(), exit() and wait() themselves are in module Proc.   *)
(***************************************************************************)
EXTENDS Integers, Sequences, FiniteSets

CONSTANTS
  NPROC,      \* slots; slot 1 is init's
  NCPU,
  Width,      \* a uint counts modulo this (2^32)
  Boot,       \* ticks when init has been started
  Sleeps,     \* arguments of sleep()
  Calls,      \* system calls that are told apart, besides exit(); not those with
              \* actions of their own, but sleep()
  MaxTicks,   \* bound: clock interrupts
  MaxCount,   \* bound: calls of one kind a process makes
  None

ASSUME ClockAssumption ==
  /\ NPROC \in Nat /\ NPROC > 1 /\ NCPU \in Nat \ {0}
  /\ Width \in Nat /\ Boot \in 0..Width - 1 /\ Sleeps \subseteq Int
  /\ MaxTicks \in Nat /\ MaxCount \in Nat /\ 2 * MaxTicks < Width
  /\ None \notin (1..NPROC)
  /\ Calls \cap {"exit", "fork", "wait", "waitx", "kill", "getSysCount"} = {}

Slots    == 1..NPROC
initproc == 1
Others   == 2..NPROC
CPUs     == 0..NCPU - 1
Num      == Calls \cup {"exit"}

VARIABLES
  elapsed,              \* clock interrupts since Boot
  tick,                 \* clockintr(): 0 when it does not run, else the slot update_time() is at
  state, parent,        \* p->state, p->parent
  np,                   \* per slot: the child in fork(), None outside it
  cpu,                  \* the process each CPU runs
  rtime, ctime, etime,  \* per slot
  syscall_count,        \* per slot
  killed,
  ticks0, n,            \* per slot: sys_sleep()'s variables, n = None outside it
  made,                 \* history: the calls a process has made
  waited                \* history: the child a process has last called wait() for

clock   == <<elapsed, tick>>
tree    == <<parent, np>>
acct    == <<rtime, ctime, etime, syscall_count, made, waited>>
sleeper == <<ticks0, n>>
vars    == <<clock, state, cpu, tree, acct, killed, sleeper>>

ticks == (Boot + elapsed) % Width

Zero == [k \in Num |-> 0]

\* What is remembered of wait(): the calls the child had made, those of the process
\* itself, and whether this child is the first of its line to be waited for (1), or has
\* waited for a child too (2).
NotWaited == [calls |-> Zero, own |-> Zero, depth |-> 0]

Init ==
  /\ elapsed = 0 /\ tick = 0
  /\ state = [s \in Slots |-> IF s = initproc THEN "RUNNABLE" ELSE "UNUSED"]
  /\ cpu = [c \in CPUs |-> None]
  /\ rtime = [s \in Slots |-> 0] /\ etime = rtime
  /\ ctime = [s \in Slots |-> IF s = initproc THEN Boot ELSE 0]
  /\ syscall_count = [s \in Slots |-> Zero] /\ made = syscall_count
  /\ killed = {} /\ ticks0 = rtime /\ n = [s \in Slots |-> None]
  /\ parent = n /\ np = n
  /\ waited = [s \in Slots |-> NotWaited]

TypeOK ==
  /\ elapsed \in 0..MaxTicks /\ tick \in 0..NPROC + 1
  /\ state \in [Slots -> {"UNUSED", "USED", "RUNNABLE", "RUNNING", "SLEEPING", "ZOMBIE"}]
  /\ cpu \in [CPUs -> Slots \cup {None}]
  /\ rtime \in [Slots -> 0..Width - 1] /\ ctime \in [Slots -> 0..Width - 1]
  /\ etime \in [Slots -> 0..Width - 1] /\ ticks0 \in [Slots -> 0..Width - 1]
  /\ n \in [Slots -> 0..Width - 1 \cup {None}]
  /\ syscall_count \in [Slots -> [Num -> Nat]] /\ made \in [Slots -> [Num -> Nat]]
  /\ waited \in [Slots -> [calls : [Num -> Nat], own : [Num -> Nat], depth : 0..2]]
  /\ parent \in [Slots -> Slots \cup {None}] /\ np \in [Slots -> Others \cup {None}]
  /\ killed \subseteq Others

\* s runs on a CPU that clockintr() does not keep busy; s is in user code.
Free(c)  == c # 0 \/ tick = 0
On(s)    == \E c \in CPUs : cpu[c] = s /\ Free(c)
User(s)  == On(s) /\ n[s] = None /\ np[s] = None /\ s \notin killed

\* s gives up its CPU.
Off(s) == cpu' = [c \in CPUs |-> IF cpu[c] = s THEN None ELSE cpu[c]]

\* syscall() counts the call before it makes it.
syscall(s, k) ==
  /\ syscall_count' = [syscall_count EXCEPT ![s][k] = @ + 1]
  /\ made' = [made EXCEPT ![s][k] = @ + 1]

-----------------------------------------------------------------------------
(* The scheduler and the clock.                                            *)

scheduler(c, s) ==
  /\ Free(c) /\ cpu[c] = None /\ state[s] = "RUNNABLE"
  /\ state' = [state EXCEPT ![s] = "RUNNING"]
  /\ cpu' = [cpu EXCEPT ![c] = s]
  /\ UNCHANGED <<clock, tree, acct, killed, sleeper>>

\* yield(), after a timer interrupt
yield(s) ==
  /\ On(s)
  /\ state' = [state EXCEPT ![s] = "RUNNABLE"] /\ Off(s)
  /\ UNCHANGED <<clock, tree, acct, killed, sleeper>>

\* clockintr(), on CPU 0: ticks++, ...
clockintr ==
  /\ tick = 0 /\ elapsed < MaxTicks
  /\ elapsed' = elapsed + 1 /\ tick' = 1
  /\ UNCHANGED <<state, cpu, tree, acct, killed, sleeper>>

\* ... update_time(), one process at a time, ...
update_time ==
  /\ tick \in Slots
  /\ rtime' = IF state[tick] = "RUNNING" THEN [rtime EXCEPT ![tick] = (@ + 1) % Width] ELSE rtime
  /\ tick' = tick + 1
  /\ UNCHANGED <<elapsed, state, cpu, tree, ctime, etime, syscall_count, made, waited, killed,
                 sleeper>>

\* Mutant: the first sleeper only.
tick_wakeup_one ==
  /\ tick = NPROC + 1
  /\ tick' = 0
  /\ state' = IF \E s \in Slots : state[s] = "SLEEPING"
              THEN [state EXCEPT ![CHOOSE s \in Slots : state[s] = "SLEEPING"] = "RUNNABLE"]
              ELSE state
  /\ UNCHANGED <<elapsed, cpu, tree, acct, killed, sleeper>>

\* ... wakeup(&ticks).
tick_wakeup ==
  /\ tick = NPROC + 1
  /\ tick' = 0
  /\ state' = [s \in Slots |-> IF state[s] = "SLEEPING" THEN "RUNNABLE" ELSE state[s]]
  /\ UNCHANGED <<elapsed, cpu, tree, acct, killed, sleeper>>

-----------------------------------------------------------------------------
(* sleep()                                                                 *)

\* The loop of sys_sleep(), with tickslock; the difference and n are unsigned.
\* It ends, with 0 or, for a process that was killed, with -1.
sleep_loop(s, t0, m) ==
  IF (ticks - t0) % Width < m /\ s \notin killed
  THEN /\ state' = [state EXCEPT ![s] = "SLEEPING"] /\ Off(s)
       /\ ticks0' = [ticks0 EXCEPT ![s] = t0] /\ n' = [n EXCEPT ![s] = m]
  ELSE /\ ticks0' = [ticks0 EXCEPT ![s] = 0] /\ n' = [n EXCEPT ![s] = None]
       /\ UNCHANGED <<state, cpu>>

sys_sleep(s, m) ==
  /\ User(s) /\ tick = 0 /\ "sleep" \in Calls
  /\ made[s]["sleep"] < MaxCount
  /\ syscall(s, "sleep")
  /\ sleep_loop(s, ticks, m % Width)
  /\ UNCHANGED <<clock, tree, rtime, ctime, etime, waited, killed>>

sleep_again(s) ==
  /\ On(s) /\ n[s] # None /\ tick = 0
  /\ sleep_loop(s, ticks0[s], n[s])
  /\ UNCHANGED <<clock, tree, acct, killed>>

\* kill() of a child, by any process.
kill(s) ==
  /\ state[s] # "UNUSED"
  /\ killed' = killed \cup {s}
  /\ state' = [state EXCEPT ![s] = IF @ = "SLEEPING" THEN "RUNNABLE" ELSE @]
  /\ UNCHANGED <<clock, cpu, tree, acct, sleeper>>

-----------------------------------------------------------------------------
(* Processes.                                                              *)

freeproc(s) ==
  /\ state' = [state EXCEPT ![s] = "UNUSED"] /\ parent' = [parent EXCEPT ![s] = None]
  /\ killed' = killed \ {s}

\* allocproc() sets the counts of the new process to 0.
Counts(s) == Zero

\* Mutant: so does its running time.
NewRtime_kept(s) == rtime[s]

NewRtime(s) == 0

\* fork() by p: allocproc() takes a slot and the time, ...
allocproc(p, s) ==
  /\ User(p) /\ state[s] = "UNUSED"
  /\ state' = [state EXCEPT ![s] = "USED"] /\ np' = [np EXCEPT ![p] = s]
  /\ rtime' = [rtime EXCEPT ![s] = NewRtime(s)] /\ etime' = [etime EXCEPT ![s] = 0]
  /\ ctime' = [ctime EXCEPT ![s] = ticks]
  /\ syscall_count' = [syscall_count EXCEPT ![s] = Counts(s)]
  /\ made' = [made EXCEPT ![s] = Zero] /\ waited' = [waited EXCEPT ![s] = NotWaited]
  /\ UNCHANGED <<clock, cpu, parent, killed, sleeper>>

\* ... and at its end the child has a parent and may run, or there was no memory for it.
fork(p) ==
  /\ On(p) /\ np[p] # None
  /\ np' = [np EXCEPT ![p] = None]
  /\ \/ /\ state' = [state EXCEPT ![np[p]] = "RUNNABLE"]
        /\ parent' = [parent EXCEPT ![np[p]] = p]
        /\ UNCHANGED killed
     \/ freeproc(np[p])
  /\ UNCHANGED <<clock, cpu, acct, sleeper>>

\* Another system call.
call(s, k) ==
  /\ User(s) /\ made[s][k] < MaxCount
  /\ syscall(s, k)
  /\ UNCHANGED <<clock, state, cpu, tree, rtime, ctime, etime, waited, killed, sleeper>>

\* exit(), called by the program, or by usertrap() for a process that was killed.  Its
\* children become init's.
exit(s) ==
  /\ On(s) /\ n[s] = None /\ np[s] = None
  /\ IF s \in killed THEN UNCHANGED <<syscall_count, made>> ELSE syscall(s, "exit")
  /\ parent' = [q \in Slots |-> IF parent[q] = s THEN initproc ELSE parent[q]]
  /\ state' = [state EXCEPT ![s] = "ZOMBIE"] /\ Off(s)
  /\ etime' = [etime EXCEPT ![s] = ticks]
  /\ UNCHANGED <<clock, np, rtime, ctime, waited, killed, sleeper>>

\* Mutant: the child's counts are added to the parent's.
Inherit_sum(p, s) == [k \in Num |-> syscall_count[p][k] + syscall_count[s][k]]

\* The parent's counts become those of the child.
Inherit(p, s) == syscall_count[s]

\* wait() by p finds its child s.  The child is freed, unless its status cannot be
\* copied out.
wait(p, s) ==
  /\ User(p) /\ parent[s] = p /\ state[s] = "ZOMBIE"
  /\ syscall_count' = [syscall_count EXCEPT ![p] = Inherit(p, s)]
  /\ waited' = [waited EXCEPT ![p] = [calls |-> made[s], own |-> made[p],
                                      depth |-> IF waited[s].depth = 0 THEN 1 ELSE 2]]
  /\ freeproc(s) \/ UNCHANGED <<state, parent, killed>>
  /\ UNCHANGED <<clock, cpu, np, rtime, ctime, etime, made, sleeper>>

\* waitx(): the times of the child.
waitx_rtime(s) == rtime[s]
waitx_wtime(s) == (etime[s] - ctime[s] - rtime[s]) % Width

waitx(p, s) ==
  /\ User(p) /\ parent[s] = p /\ state[s] = "ZOMBIE"
  /\ freeproc(s)
  /\ UNCHANGED <<clock, cpu, np, acct, sleeper>>

\* getSysCount() with the bit of one call.
getSysCount(p, k) == syscall_count[p][k]

-----------------------------------------------------------------------------
\* The bound is reached: those who sleep will not be woken.
Done ==
  /\ elapsed = MaxTicks /\ tick = 0 /\ \A s \in Slots : state[s] \notin {"RUNNABLE", "RUNNING"}
  /\ UNCHANGED vars

Next ==
  \/ clockintr \/ update_time \/ tick_wakeup
  \/ \E c \in CPUs, s \in Slots : scheduler(c, s)
  \/ \E s \in Slots : yield(s) \/ sleep_again(s) \/ \E m \in Sleeps : sys_sleep(s, m)
  \/ \E s \in Slots, k \in Calls \ {"sleep"} : call(s, k)
  \/ Done
  \/ \E s \in Others : kill(s) \/ exit(s)
  \/ \E p \in Slots : fork(p) \/ \E s \in Others : allocproc(p, s) \/ wait(p, s) \/ waitx(p, s)

Spec == Init /\ [][Next]_vars

-----------------------------------------------------------------------------
(* Properties.                                                             *)

\* The times that waitx() reports: a process has run in at most as many ticks as it
\* lived, plus the one in which it was created, when update_time() comes to its slot
\* after ctime was read.  So wtime is right or, as an unsigned number, 2^32 - 1.
WaitTime ==
  \A s \in Others :
    state[s] = "ZOMBIE" => /\ waitx_rtime(s) <= MaxTicks
                           /\ waitx_wtime(s) \in 0..MaxTicks \cup {Width - 1}

\* Nobody oversleeps: who sleeps has not slept as long as it asked for, or the clock
\* interrupt that ends its sleep is under way.  This holds when ticks wraps around.
NoOversleep ==
  \A s \in Slots :
    state[s] = "SLEEPING" => (ticks - ticks0[s]) % Width < n[s] \/ tick # 0

\* The calls that wait() and what followed it should have counted for p.
Owed(p, k) == waited[p].calls[k] + (made[p][k] - waited[p].own[k])

\* What syscount prints: after wait() a process's count of a call is the number of
\* times the child it waited for has made it, plus its own calls since, whoever else
\* forks, calls, waits and exits meanwhile.  A process that has not waited counts its own
\* calls.  The exception is a child that has waited for a child of its own: then it has
\* lost its own calls before that.
CountsOfChild ==
  \A p \in Slots, k \in Num : waited[p].depth < 2 => getSysCount(p, k) = Owed(p, k)

\* "Get the syscall count for the child process" (user/syscount.c:99): the same without
\* the exception.  The code does not keep it.
CountsOfAnyChild == \A p \in Slots, k \in Num : getSysCount(p, k) = Owed(p, k)
=============================================================================
