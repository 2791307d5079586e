----------------------------- MODULE ProcProofs -----------------------------
(***************************************************************************)
(* Proofs about Proc, for every number of slots and CPUs.                  *)
(***************************************************************************)
EXTENDS Proc, TLAPS

Dead == {"UNUSED", "USED", "ZOMBIE"}

\* Who is on which CPU.  A thread on a CPU has no saved context; p->lock is held
\* exactly from the moment its thread gives up the CPU until swtch, and by that
\* CPU; a process is RUNNING exactly while its thread executes.
CpuSaved    == \A c \in CPUs : cproc[c] # Null => sw[cproc[c]] # "saved"
LockSwitch  == \A s \in Slots : plock[s] # Nobody <=> sw[s] = "switch"
LockOnCpu   == \A s \in Slots : plock[s] # Nobody => cproc[plock[s]] = s
RunningGo   == \A s \in Slots : state[s] = "RUNNING" <=> sw[s] = "go"
SwitchAlive == \A s \in Slots : sw[s] = "switch" => state[s] \notin {"UNUSED", "USED"}

CpuInv == CpuSaved /\ LockSwitch /\ LockOnCpu /\ RunningGo /\ SwitchAlive /\ StackExclusive

\* wait_lock is held exactly by the CPU whose thread is inside WaitLocked.
LockInv ==
  /\ wait_lock # Nobody =>
       cproc[wait_lock] \in Slots /\ pc[cproc[wait_lock]] \in WaitLocked
  /\ \A s \in Slots : pc[s] \in WaitLocked =>
       sw[s] = "go" /\ wait_lock # Nobody /\ cproc[wait_lock] = s

\* Loop indexes are inside the table where the loops use them.
IndexInv ==
  \A s \in Slots :
    /\ pc[s] \in {"wait_scan", "exit_reparent"} => idx[s] # 0
    /\ pc[s] \in {"fork_scan", "kill_scan", "exit_wakeinit"} => idx[s] \in Slots
    /\ pc[s] \in {"exit_wakeinit", "exit_wakeup"} => widx[s] \in Slots

\* The child being set up by fork() is nobody else's: USED, with a parent once
\* the parent has taken wait_lock for it.
ForkInv ==
  /\ \A s \in Slots : state[s] \in Dead => pc[s] \in {"none", "user"}
  /\ \A s \in Slots : pc[s] \in {"fork_parent", "fork_run"} =>
       /\ arg[s] \in Slots /\ state[arg[s]] = "USED"
       /\ parent[arg[s]] = IF pc[s] = "fork_run" THEN s ELSE Null
  /\ \A s, t \in Slots :
       pc[s] \in {"fork_parent", "fork_run"} /\ pc[t] \in {"fork_parent", "fork_run"} =>
         (arg[s] = arg[t] => s = t)

\* The tree: init is its root and never dies, a parent is a process that can
\* still wait, and a process past fork() has one.
ParentInv ==
  /\ state[initproc] \notin Dead /\ parent[initproc] = Null
  /\ \A s \in Slots :
       /\ state[s] = "UNUSED" => parent[s] = Null
       /\ parent[s] # Null => parent[s] # s /\ state[parent[s]] \notin Dead
       /\ s # initproc /\ state[s] \notin {"UNUSED", "USED"} => parent[s] # Null

\* What an exiting process has done so far: the slots behind its index hold no
\* child of its, and its parent, once passed by wakeup(), is awake.
ExitInv ==
  \A s \in Slots :
    /\ pc[s] \in Exiting => s # initproc
    /\ pc[s] = "exit_reparent" => \A q \in Slots : q < idx[s] => parent[q] # s
    /\ pc[s] = "exit_wakeinit" => \A q \in Slots : q <= idx[s] => parent[q] # s
    /\ pc[s] \in {"exit_wakeup", "exit_zombie"} => \A q \in Slots : parent[q] # s
    /\ pc[s] = "exit_wakeup" /\ parent[s] < widx[s] => state[parent[s]] # "SLEEPING"
    /\ pc[s] = "exit_zombie" => state[parent[s]] # "SLEEPING"

\* What a scan by wait() has established when it decides to sleep.
ScanInv ==
  \A s \in Slots :
    /\ pc[s] = "wait_scan" =>
         /\ \A q \in Slots : q < idx[s] /\ parent[q] = s => state[q] # "ZOMBIE"
         /\ kids[s] => \E q \in Slots : parent[q] = s
    /\ pc[s] = "wait_sleep" =>
         /\ \A q \in Slots : parent[q] = s => state[q] # "ZOMBIE"
         /\ \E q \in Slots : parent[q] = s

\* Every sleeper of this module sleeps in wait(), on its own struct proc.
SleepChan ==
  \A s \in Slots : state[s] = "SLEEPING" => chan[s] = s /\ pc[s] = "wait_asleep"

\* A sleeper has a child; if one of its children is a ZOMBIE, then the sleeper is
\* init and the process that handed the child over is about to wake it.
SleepInv ==
  \A s \in Slots : state[s] = "SLEEPING" =>
    /\ \E q \in Slots : parent[q] = s
    /\ \A q \in Slots : parent[q] = s /\ state[q] = "ZOMBIE" =>
         /\ s = initproc
         /\ \E h \in Slots : pc[h] = "exit_wakeinit" /\ widx[h] = 1

IInv == /\ TypeOK /\ CpuInv /\ LockInv /\ IndexInv /\ ForkInv
        /\ ParentInv /\ ExitInv /\ ScanInv /\ SleepChan /\ SleepInv

-----------------------------------------------------------------------------

\* The null pointer is no process, and a free lock has no CPU.
LEMMA NullFact == Null \notin Slots /\ Nobody \notin CPUs
BY SizeAssumption DEF Null, Slots, Nobody, CPUs

\* The indexes the loops over proc[] go through.
LEMMA IndexFacts ==
  /\ 0 \in Index /\ 1 \in Slots /\ Slots \subseteq Index /\ Slots \subseteq Nat
  /\ \A q \in Slots : q + 1 \in Index /\ q + 1 # 0
  /\ \A q \in Slots : q # NPROC => q + 1 \in Slots
  /\ \A q \in Index : q # 0 => (q \in Slots <=> q <= NPROC) /\ (q \in Slots <=> ~(q > NPROC))
BY SizeAssumption DEF Index, Slots

\* The order in which the loops visit the slots.
LEMMA OrderFacts ==
  /\ \A q \in Slots : ~(q < 1) /\ (q < NPROC \/ q = NPROC)
  /\ \A q \in Slots, i \in Index :
       /\ q < i + 1 <=> q < i \/ q = i
       /\ q <= i <=> q < i \/ q = i
       /\ i > NPROC => q < i
BY SizeAssumption DEF Index, Slots

\* At most one thread is inside WaitLocked, and none while wait_lock is free.
LEMMA OneHolder ==
  ASSUME LockInv, NEW s \in Slots, pc[s] \in WaitLocked
  PROVE  wait_lock # Nobody /\ \A t \in Slots : pc[t] \in WaitLocked => t = s
BY DEF LockInv

\* Steps that leave p->parent alone and neither create nor end a process.
LEMMA ParentFrame ==
  /\ TypeOK /\ ParentInv /\ parent' = parent
  /\ \A q \in Slots :
       state'[q] # state[q] => state[q] \notin Dead /\ state'[q] \notin Dead
  => ParentInv'
<1>1. TypeOK => initproc \in Slots /\ \A q \in Slots : parent[q] \in Slots \cup {Null}
  BY IndexFacts DEF TypeOK, initproc
<1>2. QED
  BY <1>1 DEF ParentInv, Dead

\* An exiting process is neither init nor its own parent, and it has a parent.
LEMMA ExitParent ==
  ASSUME TypeOK, LockInv, CpuInv, ParentInv, ExitInv
  PROVE  \A s \in Slots : pc[s] \in Exiting =>
           /\ state[s] = "RUNNING"
           /\ parent[s] \in Slots /\ parent[s] # s
<1>1. \A s \in Slots : pc[s] \in Exiting => state[s] = "RUNNING" /\ s # initproc
  BY DEF LockInv, CpuInv, RunningGo, Exiting, WaitLocked, ExitInv
<1>2. \A s \in Slots : parent[s] \in Slots \cup {Null}
  BY DEF TypeOK
<1>3. QED
  BY <1>1, <1>2 DEF ParentInv

\* The type invariant is inductive together with the bounds of the loop indexes.
LEMMA TypeStep ==
  ASSUME TypeOK, IndexInv, Next
  PROVE  TypeOK'
<1>1. ASSUME NEW c \in CPUs, SchedSkip(c)
      PROVE  TypeOK'
  <2>1. sidx' \in [CPUs -> Slots]
    BY <1>1, IndexFacts DEF TypeOK, SchedSkip, Advance, table, locks, sched, locals
  <2>2. QED
    BY <1>1, <2>1 DEF TypeOK, SchedSkip,
      table, locks, sched, locals
<1>2. ASSUME NEW c \in CPUs, SchedRun(c)
      PROVE  TypeOK'
  <2>1. state' \in [Slots -> ProcState]
    BY <1>2 DEF TypeOK, SchedRun, Goto, ProcState, table, locks, sched, locals
  <2>2. cproc' \in [CPUs -> Slots \cup {Null}]
    BY <1>2 DEF TypeOK, SchedRun, Goto, table, locks, sched, locals
  <2>3. sw' \in [Slots -> Context]
    BY <1>2 DEF TypeOK, SchedRun, Goto, Context, table, locks, sched, locals
  <2>4. pc' \in [Slots -> WaitLocked \cup Unlocked]
    BY <1>2 DEF TypeOK, SchedRun, Goto, WaitLocked, Unlocked, table, locks, sched,
      locals
  <2>5. chan' \in [Slots -> Slots \cup {Null}]
    BY <1>2 DEF TypeOK, SchedRun, Goto, table, locks, sched, locals
  <2>6. QED
    BY <1>2, <2>1, <2>2, <2>3, <2>4, <2>5 DEF TypeOK, SchedRun,
      table, locks, sched, locals
<1>3. ASSUME NEW c \in CPUs, NEW s \in Slots, Swtch(c, s)
      PROVE  TypeOK'
  <2>1. sw' \in [Slots -> Context]
    BY <1>3 DEF TypeOK, Swtch, Advance, Context, table, locks, sched, locals
  <2>2. cproc' \in [CPUs -> Slots \cup {Null}]
    BY <1>3 DEF TypeOK, Swtch, Advance, table, locks, sched, locals
  <2>3. plock' \in [Slots -> CPUs \cup {Nobody}]
    BY <1>3 DEF TypeOK, Swtch, Advance, table, locks, sched, locals
  <2>4. sidx' \in [CPUs -> Slots]
    BY <1>3, IndexFacts DEF TypeOK, Swtch, Advance, table, locks, sched, locals
  <2>5. QED
    BY <1>3, <2>1, <2>2, <2>3, <2>4 DEF TypeOK, Swtch,
      table, locks, sched, locals
<1>4. ASSUME NEW c \in CPUs, NEW s \in Slots, Timer(c, s)
      PROVE  TypeOK'
  <2>1. state' \in [Slots -> ProcState]
    BY <1>4 DEF TypeOK, Timer, GiveUp, Goto, ProcState, table, locks, sched, locals
  <2>2. plock' \in [Slots -> CPUs \cup {Nobody}]
    BY <1>4 DEF TypeOK, Timer, GiveUp, Goto, table, locks, sched, locals
  <2>3. sw' \in [Slots -> Context]
    BY <1>4 DEF TypeOK, Timer, GiveUp, Goto, Context, table, locks, sched, locals
  <2>4. pc' \in [Slots -> WaitLocked \cup Unlocked]
    BY <1>4 DEF TypeOK, Timer, GiveUp, Goto, WaitLocked, Unlocked, table, locks, sched,
      locals
  <2>5. QED
    BY <1>4, <2>1, <2>2, <2>3, <2>4 DEF TypeOK, Timer,
      table, locks, sched, locals
<1>5. ASSUME NEW c \in CPUs, NEW s \in Slots, Syscall(c, s)
      PROVE  TypeOK'
  <2>1. pc' \in [Slots -> WaitLocked \cup Unlocked]
    BY <1>5 DEF TypeOK, Syscall, Goto, WaitLocked, Unlocked, table, locks, sched, locals
  <2>2. idx' \in [Slots -> Index]
    BY <1>5, IndexFacts DEF TypeOK, Syscall, Goto, table, locks, sched, locals
  <2>3. arg' \in [Slots -> Nat]
    BY <1>5, IndexFacts, PidAssumption DEF TypeOK, Syscall, Goto, table, locks, sched,
      locals
  <2>4. QED
    BY <1>5, <2>1, <2>2, <2>3 DEF TypeOK, Syscall,
      table, locks, sched, locals
<1>6. ASSUME NEW c \in CPUs, NEW s \in Slots, Fault(c, s)
      PROVE  TypeOK'
  <2>1. killed' \in [Slots -> BOOLEAN]
    BY <1>6 DEF TypeOK, Fault, Goto, table, locks, sched, locals
  <2>2. pc' \in [Slots -> WaitLocked \cup Unlocked]
    BY <1>6 DEF TypeOK, Fault, Goto, WaitLocked, Unlocked, table, locks, sched, locals
  <2>3. QED
    BY <1>6, <2>1, <2>2 DEF TypeOK, Fault,
      table, locks, sched, locals
<1>7. ASSUME NEW c \in CPUs, NEW s \in Slots, UserTrapRet(c, s)
      PROVE  TypeOK'
  <2>1. pc' \in [Slots -> WaitLocked \cup Unlocked]
    BY <1>7 DEF TypeOK, UserTrapRet, Goto, WaitLocked, Unlocked, table, locks, sched,
      locals
  <2>2. QED
    BY <1>7, <2>1 DEF TypeOK, UserTrapRet,
      table, locks, sched, locals
<1>8. ASSUME NEW c \in CPUs, NEW s \in Slots, ForkScan(c, s)
      PROVE  TypeOK'
  <2>1. idx[s] \in Slots
    BY <1>8, IndexFacts DEF TypeOK, ForkScan, On, IndexInv
  <2>2. nextpid' \in Nat
    BY <1>8 DEF TypeOK, ForkScan, Goto, Return, freeproc, table, locks, sched, locals
  <2>3. pid' \in [Slots -> Nat]
    BY <1>8 DEF TypeOK, ForkScan, Goto, Return, freeproc, table, locks, sched, locals
  <2>4. state' \in [Slots -> ProcState]
    BY <1>8 DEF TypeOK, ForkScan, Goto, Return, freeproc, ProcState, table, locks,
      sched, locals
  <2>5. pc' \in [Slots -> WaitLocked \cup Unlocked]
    BY <1>8 DEF TypeOK, ForkScan, Goto, Return, freeproc, WaitLocked, Unlocked, table,
      locks, sched, locals
  <2>6. arg' \in [Slots -> Nat]
    <3>1. \/ arg' = arg
          \/ arg' = [arg EXCEPT ![s] = 0]
          \/ arg' = [arg EXCEPT ![s] = idx[s]]
      BY <1>8 DEF ForkScan, Return
    <3>2. 0 \in Nat /\ idx[s] \in Nat
      BY <2>1, IndexFacts
    <3>3. QED
      BY <3>1, <3>2 DEF TypeOK
  <2>7. idx' \in [Slots -> Index]
    <3>1. \/ idx' = [idx EXCEPT ![s] = 0]
          \/ idx' = [idx EXCEPT ![s] = idx[s] + 1]
      BY <1>8 DEF ForkScan, Return
    <3>2. 0 \in Index /\ idx[s] + 1 \in Index
      BY <2>1, IndexFacts
    <3>3. QED
      BY <3>1, <3>2 DEF TypeOK
  <2>8. chan' \in [Slots -> Slots \cup {Null}]
    BY <1>8 DEF TypeOK, ForkScan, Goto, Return, freeproc, table, locks, sched, locals
  <2>9. killed' \in [Slots -> BOOLEAN]
    BY <1>8 DEF TypeOK, ForkScan, Goto, Return, freeproc, table, locks, sched, locals
  <2>10. parent' \in [Slots -> Slots \cup {Null}]
    BY <1>8 DEF TypeOK, ForkScan, Goto, Return, freeproc, table, locks, sched, locals
  <2>11. widx' \in [Slots -> Index]
    BY <1>8, <2>1, IndexFacts DEF TypeOK, ForkScan, Goto, Return, freeproc, table,
      locks, sched, locals
  <2>12. kids' \in [Slots -> BOOLEAN]
    BY <1>8 DEF TypeOK, ForkScan, Goto, Return, freeproc, table, locks, sched, locals
  <2>13. QED
    BY <1>8, <2>2, <2>3, <2>4, <2>5, <2>6, <2>7, <2>8, <2>9, <2>10, <2>11,
      <2>12 DEF TypeOK, ForkScan,
      table, locks, sched, locals
<1>9. ASSUME NEW c \in CPUs, NEW s \in Slots, ForkParent(c, s)
      PROVE  TypeOK'
  <2>1. parent' \in [Slots -> Slots \cup {Null}]
    BY <1>9 DEF TypeOK, ForkParent, Goto, table, locks, sched, locals
  <2>2. pc' \in [Slots -> WaitLocked \cup Unlocked]
    BY <1>9 DEF TypeOK, ForkParent, Goto, WaitLocked, Unlocked, table, locks, sched,
      locals
  <2>3. QED
    BY <1>9, <2>1, <2>2 DEF TypeOK, ForkParent,
      table, locks, sched, locals
<1>10. ASSUME NEW c \in CPUs, NEW s \in Slots, ForkRun(c, s)
      PROVE  TypeOK'
  <2>1. state' \in [Slots -> ProcState]
    BY <1>10 DEF TypeOK, ForkRun, Goto, Return, ProcState, table, locks, sched, locals
  <2>2. pc' \in [Slots -> WaitLocked \cup Unlocked]
    BY <1>10 DEF TypeOK, ForkRun, Goto, Return, WaitLocked, Unlocked, table, locks,
      sched, locals
  <2>3. idx' \in [Slots -> Index]
    BY <1>10, IndexFacts DEF TypeOK, ForkRun, Goto, Return, table, locks, sched, locals
  <2>4. widx' \in [Slots -> Index]
    BY <1>10, IndexFacts DEF TypeOK, ForkRun, Goto, Return, table, locks, sched, locals
  <2>5. arg' \in [Slots -> Nat]
    BY <1>10, IndexFacts DEF TypeOK, ForkRun, Goto, Return, table, locks, sched, locals
  <2>6. kids' \in [Slots -> BOOLEAN]
    BY <1>10 DEF TypeOK, ForkRun, Goto, Return, table, locks, sched, locals
  <2>7. QED
    BY <1>10, <2>1, <2>2, <2>3, <2>4, <2>5, <2>6 DEF TypeOK, ForkRun,
      table, locks, sched, locals
<1>11. ASSUME NEW c \in CPUs, NEW s \in Slots, ExitLock(c, s)
      PROVE  TypeOK'
  <2>1. wait_lock' \in CPUs \cup {Nobody}
    BY <1>11 DEF TypeOK, ExitLock, Goto, table, locks, sched, locals
  <2>2. pc' \in [Slots -> WaitLocked \cup Unlocked]
    BY <1>11 DEF TypeOK, ExitLock, Goto, WaitLocked, Unlocked, table, locks, sched,
      locals
  <2>3. idx' \in [Slots -> Index]
    BY <1>11, IndexFacts DEF TypeOK, ExitLock, Goto, table, locks, sched, locals
  <2>4. QED
    BY <1>11, <2>1, <2>2, <2>3 DEF TypeOK, ExitLock,
      table, locks, sched, locals
<1>12. ASSUME NEW c \in CPUs, NEW s \in Slots, ExitReparent(c, s)
      PROVE  TypeOK'
  <2>1. ~ReparentDone(idx[s]) => idx[s] \in Slots
    BY <1>12, IndexFacts DEF TypeOK, ExitReparent, On, IndexInv, ReparentDone
  <2>2. pc' \in [Slots -> WaitLocked \cup Unlocked]
    BY <1>12 DEF TypeOK, ExitReparent, Goto, WaitLocked, Unlocked, table, locks, sched,
      locals
  <2>3. widx' \in [Slots -> Index]
    BY <1>12, <2>1, IndexFacts DEF TypeOK, ExitReparent, Goto, table, locks, sched,
      locals
  <2>4. idx' \in [Slots -> Index]
    <3>1. \/ idx' = idx
          \/ idx' = [idx EXCEPT ![s] = 0]
          \/ ~ReparentDone(idx[s]) /\ idx' = [idx EXCEPT ![s] = idx[s] + 1]
      BY <1>12 DEF ExitReparent
    <3>2. 0 \in Index /\ (~ReparentDone(idx[s]) => idx[s] + 1 \in Index)
      BY <2>1, IndexFacts
    <3>3. QED
      BY <3>1, <3>2 DEF TypeOK
  <2>5. parent' \in [Slots -> Slots \cup {Null}]
    BY <1>12, IndexFacts DEF TypeOK, ExitReparent, On, Goto, ReparentDone, initproc,
      table, locks, sched, locals
  <2>6. QED
    BY <1>12, <2>2, <2>3, <2>4, <2>5 DEF TypeOK, ExitReparent,
      table, locks, sched, locals
<1>13. ASSUME NEW c \in CPUs, NEW s \in Slots, ExitWakeInit(c, s)
      PROVE  TypeOK'
  <2>1. idx[s] \in Slots /\ widx[s] \in Slots
    BY <1>13, IndexFacts DEF TypeOK, ExitWakeInit, On, IndexInv
  <2>2. state' \in [Slots -> ProcState]
    BY <1>13 DEF TypeOK, ExitWakeInit, Goto, wakeup, ProcState, table, locks, sched,
      locals
  <2>3. pc' \in [Slots -> WaitLocked \cup Unlocked]
    BY <1>13 DEF TypeOK, ExitWakeInit, Goto, wakeup, WaitLocked, Unlocked, table,
      locks, sched, locals
  <2>4. widx' \in [Slots -> Index]
    <3>1. \E i \in {0, widx[s] + 1} : widx' = [widx EXCEPT ![s] = i]
      BY <1>13 DEF ExitWakeInit
    <3>2. 0 \in Index /\ widx[s] + 1 \in Index
      BY <2>1, IndexFacts
    <3>3. QED
      BY <3>1, <3>2 DEF TypeOK
  <2>5. idx' \in [Slots -> Index]
    <3>1. idx' = idx \/ idx' = [idx EXCEPT ![s] = idx[s] + 1]
      BY <1>13 DEF ExitWakeInit
    <3>2. idx[s] + 1 \in Index
      BY <2>1, IndexFacts
    <3>3. QED
      BY <3>1, <3>2 DEF TypeOK
  <2>6. QED
    BY <1>13, <2>2, <2>3, <2>4, <2>5 DEF TypeOK, ExitWakeInit,
      table, locks, sched, locals
<1>14. ASSUME NEW c \in CPUs, NEW s \in Slots, ExitWakeup(c, s)
      PROVE  TypeOK'
  <2>1. widx[s] \in Slots
    BY <1>14, IndexFacts DEF TypeOK, ExitWakeup, On, IndexInv
  <2>2. state' \in [Slots -> ProcState]
    BY <1>14 DEF TypeOK, ExitWakeup, Goto, wakeup, ProcState, table, locks, sched,
      locals
  <2>3. pc' \in [Slots -> WaitLocked \cup Unlocked]
    BY <1>14 DEF TypeOK, ExitWakeup, Goto, wakeup, WaitLocked, Unlocked, table, locks,
      sched, locals
  <2>4. widx' \in [Slots -> Index]
    <3>1. \E i \in {0, widx[s] + 1} : widx' = [widx EXCEPT ![s] = i]
      BY <1>14 DEF ExitWakeup
    <3>2. 0 \in Index /\ widx[s] + 1 \in Index
      BY <2>1, IndexFacts
    <3>3. QED
      BY <3>1, <3>2 DEF TypeOK
  <2>5. QED
    BY <1>14, <2>2, <2>3, <2>4 DEF TypeOK, ExitWakeup,
      table, locks, sched, locals
<1>15. ASSUME NEW c \in CPUs, NEW s \in Slots, ExitZombie(c, s)
      PROVE  TypeOK'
  <2>1. state' \in [Slots -> ProcState]
    BY <1>15 DEF TypeOK, ExitZombie, Goto, GiveUp, ProcState, table, locks, sched,
      locals
  <2>2. plock' \in [Slots -> CPUs \cup {Nobody}]
    BY <1>15 DEF TypeOK, ExitZombie, Goto, GiveUp, table, locks, sched, locals
  <2>3. sw' \in [Slots -> Context]
    BY <1>15 DEF TypeOK, ExitZombie, Goto, GiveUp, Context, table, locks, sched, locals
  <2>4. wait_lock' \in CPUs \cup {Nobody}
    BY <1>15 DEF TypeOK, ExitZombie, Goto, GiveUp, table, locks, sched, locals
  <2>5. pc' \in [Slots -> WaitLocked \cup Unlocked]
    BY <1>15 DEF TypeOK, ExitZombie, Goto, GiveUp, WaitLocked, Unlocked, table, locks,
      sched, locals
  <2>6. QED
    BY <1>15, <2>1, <2>2, <2>3, <2>4, <2>5 DEF TypeOK, ExitZombie,
      table, locks, sched, locals
<1>16. ASSUME NEW c \in CPUs, NEW s \in Slots, WaitLock(c, s)
      PROVE  TypeOK'
  <2>1. wait_lock' \in CPUs \cup {Nobody}
    BY <1>16 DEF TypeOK, WaitLock, Goto, table, locks, sched, locals
  <2>2. pc' \in [Slots -> WaitLocked \cup Unlocked]
    BY <1>16 DEF TypeOK, WaitLock, Goto, WaitLocked, Unlocked, table, locks, sched,
      locals
  <2>3. idx' \in [Slots -> Index]
    BY <1>16, IndexFacts DEF TypeOK, WaitLock, Goto, table, locks, sched, locals
  <2>4. kids' \in [Slots -> BOOLEAN]
    BY <1>16 DEF TypeOK, WaitLock, Goto, table, locks, sched, locals
  <2>5. QED
    BY <1>16, <2>1, <2>2, <2>3, <2>4 DEF TypeOK, WaitLock,
      table, locks, sched, locals
<1>17. ASSUME NEW c \in CPUs, NEW s \in Slots, WaitScan(c, s)
      PROVE  TypeOK'
  <2>1. idx[s] \in Slots
    BY <1>17, IndexFacts DEF TypeOK, WaitScan, On, IndexInv
  <2>2. idx' \in [Slots -> Index]
    BY <1>17, <2>1, IndexFacts DEF TypeOK, WaitScan, On, table, locks, sched, locals
  <2>3. kids' \in [Slots -> BOOLEAN]
    BY <1>17 DEF TypeOK, WaitScan, On, table, locks, sched, locals
  <2>4. QED
    BY <1>17, <2>2, <2>3 DEF TypeOK, WaitScan,
      table, locks, sched, locals
<1>18. ASSUME NEW c \in CPUs, NEW s \in Slots, WaitReap(c, s)
      PROVE  TypeOK'
  <2>1. pid' \in [Slots -> Nat]
    BY <1>18 DEF TypeOK, WaitReap, freeproc, Goto, Return, table, locks, sched, locals
  <2>2. parent' \in [Slots -> Slots \cup {Null}]
    BY <1>18 DEF TypeOK, WaitReap, freeproc, Goto, Return, table, locks, sched, locals
  <2>3. chan' \in [Slots -> Slots \cup {Null}]
    BY <1>18 DEF TypeOK, WaitReap, freeproc, Goto, Return, table, locks, sched, locals
  <2>4. killed' \in [Slots -> BOOLEAN]
    BY <1>18 DEF TypeOK, WaitReap, freeproc, Goto, Return, table, locks, sched, locals
  <2>5. state' \in [Slots -> ProcState]
    BY <1>18 DEF TypeOK, WaitReap, freeproc, Goto, Return, ProcState, table, locks,
      sched, locals
  <2>6. wait_lock' \in CPUs \cup {Nobody}
    BY <1>18 DEF TypeOK, WaitReap, freeproc, Goto, Return, table, locks, sched, locals
  <2>7. pc' \in [Slots -> WaitLocked \cup Unlocked]
    BY <1>18 DEF TypeOK, WaitReap, freeproc, Goto, Return, WaitLocked, Unlocked, table,
      locks, sched, locals
  <2>8. idx' \in [Slots -> Index]
    BY <1>18, IndexFacts DEF TypeOK, WaitReap, freeproc, Goto, Return, table, locks,
      sched, locals
  <2>9. widx' \in [Slots -> Index]
    BY <1>18, IndexFacts DEF TypeOK, WaitReap, freeproc, Goto, Return, table, locks,
      sched, locals
  <2>10. arg' \in [Slots -> Nat]
    BY <1>18, IndexFacts DEF TypeOK, WaitReap, freeproc, Goto, Return, table, locks,
      sched, locals
  <2>11. kids' \in [Slots -> BOOLEAN]
    BY <1>18 DEF TypeOK, WaitReap, freeproc, Goto, Return, table, locks, sched, locals
  <2>12. QED
    BY <1>18, <2>1, <2>2, <2>3, <2>4, <2>5, <2>6, <2>7, <2>8, <2>9, <2>10,
      <2>11 DEF TypeOK, WaitReap,
      table, locks, sched, locals
<1>19. ASSUME NEW c \in CPUs, NEW s \in Slots, WaitKilled(c, s)
      PROVE  TypeOK'
  <2>1. wait_lock' \in CPUs \cup {Nobody}
    BY <1>19 DEF TypeOK, WaitKilled, Goto, Return, table, locks, sched, locals
  <2>2. pc' \in [Slots -> WaitLocked \cup Unlocked]
    BY <1>19 DEF TypeOK, WaitKilled, Goto, Return, WaitLocked, Unlocked, table, locks,
      sched, locals
  <2>3. idx' \in [Slots -> Index]
    BY <1>19, IndexFacts DEF TypeOK, WaitKilled, Goto, Return, table, locks, sched,
      locals
  <2>4. kids' \in [Slots -> BOOLEAN]
    BY <1>19 DEF TypeOK, WaitKilled, Goto, Return, table, locks, sched, locals
  <2>5. widx' \in [Slots -> Index]
    BY <1>19, IndexFacts DEF TypeOK, WaitKilled, Goto, Return, table, locks, sched,
      locals
  <2>6. arg' \in [Slots -> Nat]
    BY <1>19, IndexFacts DEF TypeOK, WaitKilled, Goto, Return, table, locks, sched,
      locals
  <2>7. QED
    BY <1>19, <2>1, <2>2, <2>3, <2>4, <2>5, <2>6 DEF TypeOK, WaitKilled,
      table, locks, sched, locals
<1>20. ASSUME NEW c \in CPUs, NEW s \in Slots, WaitSleep(c, s)
      PROVE  TypeOK'
  <2>1. state' \in [Slots -> ProcState]
    BY <1>20 DEF TypeOK, WaitSleep, Goto, GiveUp, ProcState, table, locks, sched, locals
  <2>2. plock' \in [Slots -> CPUs \cup {Nobody}]
    BY <1>20 DEF TypeOK, WaitSleep, Goto, GiveUp, table, locks, sched, locals
  <2>3. sw' \in [Slots -> Context]
    BY <1>20 DEF TypeOK, WaitSleep, Goto, GiveUp, Context, table, locks, sched, locals
  <2>4. wait_lock' \in CPUs \cup {Nobody}
    BY <1>20 DEF TypeOK, WaitSleep, Goto, GiveUp, table, locks, sched, locals
  <2>5. chan' \in [Slots -> Slots \cup {Null}]
    BY <1>20 DEF TypeOK, WaitSleep, Goto, GiveUp, table, locks, sched, locals
  <2>6. pc' \in [Slots -> WaitLocked \cup Unlocked]
    BY <1>20 DEF TypeOK, WaitSleep, Goto, GiveUp, WaitLocked, Unlocked, table, locks,
      sched, locals
  <2>7. QED
    BY <1>20, <2>1, <2>2, <2>3, <2>4, <2>5, <2>6 DEF TypeOK, WaitSleep,
      table, locks, sched, locals
<1>21. ASSUME NEW c \in CPUs, NEW s \in Slots, KillScan(c, s)
      PROVE  TypeOK'
  <2>1. idx[s] \in Slots
    BY <1>21, IndexFacts DEF TypeOK, KillScan, On, IndexInv
  <2>2. killed' \in [Slots -> BOOLEAN]
    BY <1>21 DEF TypeOK, KillScan, Goto, Return, table, locks, sched, locals
  <2>3. state' \in [Slots -> ProcState]
    BY <1>21 DEF TypeOK, KillScan, Goto, Return, ProcState, table, locks, sched, locals
  <2>4. pc' \in [Slots -> WaitLocked \cup Unlocked]
    BY <1>21 DEF TypeOK, KillScan, Goto, Return, WaitLocked, Unlocked, table, locks,
      sched, locals
  <2>5. idx' \in [Slots -> Index]
    <3>1. \E i \in {0, idx[s] + 1} : idx' = [idx EXCEPT ![s] = i]
      BY <1>21 DEF KillScan, Return
    <3>2. 0 \in Index /\ idx[s] + 1 \in Index
      BY <2>1, IndexFacts
    <3>3. QED
      BY <3>1, <3>2 DEF TypeOK
  <2>6. widx' \in [Slots -> Index]
    BY <1>21, <2>1, IndexFacts DEF TypeOK, KillScan, Goto, Return, table, locks, sched,
      locals
  <2>7. arg' \in [Slots -> Nat]
    BY <1>21, <2>1, IndexFacts DEF TypeOK, KillScan, Goto, Return, table, locks, sched,
      locals
  <2>8. kids' \in [Slots -> BOOLEAN]
    BY <1>21 DEF TypeOK, KillScan, Goto, Return, table, locks, sched, locals
  <2>9. QED
    BY <1>21, <2>2, <2>3, <2>4, <2>5, <2>6, <2>7, <2>8 DEF TypeOK, KillScan,
      table, locks, sched, locals
<1>22. QED
  BY <1>1, <1>2, <1>3, <1>4, <1>5, <1>6, <1>7, <1>8, <1>9, <1>10, <1>11, <1>12,
      <1>13, <1>14, <1>15, <1>16, <1>17, <1>18, <1>19, <1>20, <1>21 DEF Next, Thread

\* The bounds of the loop indexes are kept.
LEMMA IndexStep ==
  ASSUME TypeOK, IndexInv, Next
  PROVE  IndexInv'
<1>1. ASSUME NEW c \in CPUs, SchedSkip(c)
      PROVE  IndexInv'
  BY <1>1, IndexFacts DEF TypeOK, IndexInv, SchedSkip, Advance, Free,
    table, locks, sched, locals
<1>2. ASSUME NEW c \in CPUs, SchedRun(c)
      PROVE  IndexInv'
  BY <1>2, IndexFacts DEF TypeOK, IndexInv, SchedRun, Free, Goto,
    table, locks, sched, locals
<1>3. ASSUME NEW c \in CPUs, NEW s \in Slots, Swtch(c, s)
      PROVE  IndexInv'
  BY <1>3, IndexFacts DEF TypeOK, IndexInv, Swtch, Advance,
    table, locks, sched, locals
<1>4. ASSUME NEW c \in CPUs, NEW s \in Slots, Timer(c, s)
      PROVE  IndexInv'
  BY <1>4, IndexFacts DEF TypeOK, IndexInv, Timer, GiveUp, Free, Goto,
    table, locks, sched, locals
<1>5. ASSUME NEW c \in CPUs, NEW s \in Slots, Syscall(c, s)
      PROVE  IndexInv'
  BY <1>5, IndexFacts DEF TypeOK, IndexInv, Syscall, On, Free, Goto,
    table, locks, sched, locals
<1>6. ASSUME NEW c \in CPUs, NEW s \in Slots, Fault(c, s)
      PROVE  IndexInv'
  BY <1>6, IndexFacts DEF TypeOK, IndexInv, Fault, On, Free, Goto,
    table, locks, sched, locals
<1>7. ASSUME NEW c \in CPUs, NEW s \in Slots, UserTrapRet(c, s)
      PROVE  IndexInv'
  BY <1>7, IndexFacts DEF TypeOK, IndexInv, UserTrapRet, On, Free, Goto,
    table, locks, sched, locals
<1>8. ASSUME NEW c \in CPUs, NEW s \in Slots, ForkScan(c, s)
      PROVE  IndexInv'
  <2>1. pc[s] = "fork_scan" /\ idx[s] \in Slots
    BY <1>8 DEF ForkScan, On, IndexInv
  <2>2. idx[s] # NPROC => idx[s] + 1 \in Slots
    BY <2>1, IndexFacts
  <2>3. /\ \A t \in Slots \ {s} :
             (pc'[t] = pc[t] \/ pc'[t] = "user") /\ idx'[t] = idx[t] /\ widx'[t] = widx[t]
        /\ \/ pc'[s] \in {"ret", "fork_parent", "user"}
           \/ pc'[s] = pc[s] /\ idx[s] # NPROC /\ idx'[s] = idx[s] + 1
    BY <1>8, <2>1 DEF TypeOK, ForkScan, Return, Goto
  <2>4. QED
    BY <2>1, <2>2, <2>3 DEF IndexInv
<1>9. ASSUME NEW c \in CPUs, NEW s \in Slots, ForkParent(c, s)
      PROVE  IndexInv'
  BY <1>9, IndexFacts DEF TypeOK, IndexInv, ForkParent, On, Goto,
    table, locks, sched, locals
<1>10. ASSUME NEW c \in CPUs, NEW s \in Slots, ForkRun(c, s)
      PROVE  IndexInv'
  BY <1>10, IndexFacts DEF TypeOK, IndexInv, ForkRun, On, Free, Goto, Return,
    table, locks, sched, locals
<1>11. ASSUME NEW c \in CPUs, NEW s \in Slots, ExitLock(c, s)
      PROVE  IndexInv'
  BY <1>11, IndexFacts DEF TypeOK, IndexInv, ExitLock, On, Goto,
    table, locks, sched, locals
<1>12. ASSUME NEW c \in CPUs, NEW s \in Slots, ExitReparent(c, s)
      PROVE  IndexInv'
  <2>1. pc[s] = "exit_reparent" /\ idx[s] \in Index /\ idx[s] # 0
    BY <1>12 DEF TypeOK, ExitReparent, On, IndexInv
  <2>2. ~ReparentDone(idx[s]) => idx[s] \in Slots /\ idx[s] + 1 # 0
    BY <2>1, IndexFacts DEF ReparentDone
  <2>3. /\ \A t \in Slots \ {s} : pc'[t] = pc[t] /\ idx'[t] = idx[t] /\ widx'[t] = widx[t]
        /\ \/ pc'[s] = "exit_wakeup" /\ widx'[s] = 1
           \/ /\ pc'[s] = "exit_wakeinit" /\ ~ReparentDone(idx[s])
              /\ idx'[s] = idx[s] /\ widx'[s] = 1
           \/ pc'[s] = pc[s] /\ ~ReparentDone(idx[s]) /\ idx'[s] = idx[s] + 1
    BY <1>12 DEF TypeOK, ExitReparent, Goto
  <2>4. QED
    BY <2>1, <2>2, <2>3, IndexFacts DEF IndexInv
<1>13. ASSUME NEW c \in CPUs, NEW s \in Slots, ExitWakeInit(c, s)
      PROVE  IndexInv'
  <2>1. pc[s] = "exit_wakeinit" /\ idx[s] \in Slots /\ widx[s] \in Slots
    BY <1>13 DEF ExitWakeInit, On, IndexInv
  <2>2. (widx[s] # NPROC => widx[s] + 1 \in Slots) /\ idx[s] + 1 # 0
    BY <2>1, IndexFacts
  <2>3. /\ \A t \in Slots \ {s} : pc'[t] = pc[t] /\ idx'[t] = idx[t] /\ widx'[t] = widx[t]
        /\ \/ pc'[s] = "exit_reparent" /\ idx'[s] = idx[s] + 1
           \/ /\ pc'[s] = pc[s] /\ idx'[s] = idx[s]
              /\ widx[s] # NPROC /\ widx'[s] = widx[s] + 1
    BY <1>13 DEF TypeOK, ExitWakeInit, Goto
  <2>4. QED
    BY <2>1, <2>2, <2>3 DEF IndexInv
<1>14. ASSUME NEW c \in CPUs, NEW s \in Slots, ExitWakeup(c, s)
      PROVE  IndexInv'
  <2>1. pc[s] = "exit_wakeup" /\ widx[s] \in Slots
    BY <1>14 DEF ExitWakeup, On, IndexInv
  <2>2. widx[s] # NPROC => widx[s] + 1 \in Slots
    BY <2>1, IndexFacts
  <2>3. /\ \A t \in Slots \ {s} : pc'[t] = pc[t] /\ widx'[t] = widx[t]
        /\ idx' = idx
        /\ \/ pc'[s] = "exit_zombie"
           \/ pc'[s] = pc[s] /\ widx[s] # NPROC /\ widx'[s] = widx[s] + 1
    BY <1>14 DEF TypeOK, ExitWakeup, Goto
  <2>4. QED
    BY <2>1, <2>2, <2>3 DEF IndexInv
<1>15. ASSUME NEW c \in CPUs, NEW s \in Slots, ExitZombie(c, s)
      PROVE  IndexInv'
  BY <1>15, IndexFacts DEF TypeOK, IndexInv, ExitZombie, On, Goto, GiveUp, Free,
    table, locks, sched, locals
<1>16. ASSUME NEW c \in CPUs, NEW s \in Slots, WaitLock(c, s)
      PROVE  IndexInv'
  BY <1>16, IndexFacts DEF TypeOK, IndexInv, WaitLock, On, Goto,
    table, locks, sched, locals
<1>17. ASSUME NEW c \in CPUs, NEW s \in Slots, WaitScan(c, s)
      PROVE  IndexInv'
  <2>1. pc[s] = "wait_scan" /\ idx[s] \in Slots
    BY <1>17, IndexFacts DEF TypeOK, WaitScan, On, IndexInv
  <2>2. idx[s] + 1 # 0
    BY <2>1, IndexFacts
  <2>3. /\ pc' = pc /\ widx' = widx
        /\ \A t \in Slots \ {s} : idx'[t] = idx[t]
        /\ idx'[s] = idx[s] + 1
    BY <1>17 DEF TypeOK, WaitScan
  <2>4. QED
    BY <2>1, <2>2, <2>3 DEF IndexInv
<1>18. ASSUME NEW c \in CPUs, NEW s \in Slots, WaitReap(c, s)
      PROVE  IndexInv'
  BY <1>18, IndexFacts DEF TypeOK, IndexInv, WaitReap, On, FoundZombie, Free, freeproc,
    Goto, Return,
    table, locks, sched, locals
<1>19. ASSUME NEW c \in CPUs, NEW s \in Slots, WaitKilled(c, s)
      PROVE  IndexInv'
  BY <1>19, IndexFacts DEF TypeOK, IndexInv, WaitKilled, On, Free, Goto, Return,
    table, locks, sched, locals
<1>20. ASSUME NEW c \in CPUs, NEW s \in Slots, WaitSleep(c, s)
      PROVE  IndexInv'
  BY <1>20, IndexFacts DEF TypeOK, IndexInv, WaitSleep, On, Goto, GiveUp, Free,
    table, locks, sched, locals
<1>21. ASSUME NEW c \in CPUs, NEW s \in Slots, KillScan(c, s)
      PROVE  IndexInv'
  <2>1. pc[s] = "kill_scan" /\ idx[s] \in Slots
    BY <1>21 DEF KillScan, On, IndexInv
  <2>2. idx[s] # NPROC => idx[s] + 1 \in Slots
    BY <2>1, IndexFacts
  <2>3. /\ \A t \in Slots \ {s} : pc'[t] = pc[t] /\ idx'[t] = idx[t] /\ widx'[t] = widx[t]
        /\ \/ pc'[s] = "ret"
           \/ pc'[s] = pc[s] /\ idx[s] # NPROC /\ idx'[s] = idx[s] + 1
    BY <1>21 DEF TypeOK, KillScan, Return, Goto
  <2>4. QED
    BY <2>1, <2>2, <2>3 DEF IndexInv
<1>22. QED
  BY <1>1, <1>2, <1>3, <1>4, <1>5, <1>6, <1>7, <1>8, <1>9, <1>10, <1>11,
    <1>12, <1>13, <1>14, <1>15, <1>16, <1>17, <1>18, <1>19, <1>20, <1>21
    DEF Next, Thread

\* CpuInv is kept: a scheduler only loads a context that is saved.
LEMMA CpuStep ==
  ASSUME TypeOK, CpuInv, ForkInv, Next
  PROVE  CpuInv'
<1>1. ASSUME NEW c \in CPUs, SchedSkip(c)
      PROVE  CpuInv'
  BY <1>1, NullFact DEF TypeOK, CpuInv, CpuSaved, LockSwitch, LockOnCpu, RunningGo,
    SwitchAlive, StackExclusive, SchedSkip, Advance, Free,
    table, locks, sched, locals
<1>2. ASSUME NEW c \in CPUs, SchedRun(c)
      PROVE  CpuInv'
  <2> DEFINE s == sidx[c]
  <2>1. /\ s \in Slots /\ cproc[c] = Null
        /\ plock[s] = Nobody /\ plock' = plock
        /\ state[s] = "RUNNABLE"
        /\ \A q \in Slots : state'[q] = IF q = s THEN "RUNNING" ELSE state[q]
        /\ \A q \in Slots : sw'[q] = IF q = s THEN "go" ELSE sw[q]
        /\ \A d \in CPUs : cproc'[d] = IF d = c THEN s ELSE cproc[d]
    BY <1>2 DEF TypeOK, SchedRun, Free, locks
  <2>2. /\ \A q \in Slots : sw[q] \in {"go", "switch", "saved"}
        /\ \A d \in CPUs : cproc[d] \in Slots \cup {Null}
        /\ \A q \in Slots : plock[q] \in CPUs \cup {Nobody}
    BY DEF TypeOK, Context
  <2> HIDE DEF s
  <2>3. sw[s] = "saved"
    BY <2>1, <2>2 DEF CpuInv, LockSwitch, RunningGo
  <2>4. QED
    BY <2>1, <2>2, <2>3, NullFact DEF CpuInv, CpuSaved, LockSwitch, LockOnCpu,
      RunningGo, SwitchAlive, StackExclusive
<1>3. ASSUME NEW c \in CPUs, NEW s \in Slots, Swtch(c, s)
      PROVE  CpuInv'
  BY <1>3, NullFact DEF TypeOK, CpuInv, CpuSaved, LockSwitch, LockOnCpu, RunningGo,
    SwitchAlive, StackExclusive, Swtch, Advance,
    table, locks, sched, locals
<1>4. ASSUME NEW c \in CPUs, NEW s \in Slots, Timer(c, s)
      PROVE  CpuInv'
  BY <1>4, NullFact DEF TypeOK, CpuInv, CpuSaved, LockSwitch, LockOnCpu, RunningGo,
    SwitchAlive, StackExclusive, Timer, GiveUp, Free, Goto,
    table, locks, sched, locals
<1>5. ASSUME NEW c \in CPUs, NEW s \in Slots, Syscall(c, s)
      PROVE  CpuInv'
  BY <1>5, NullFact DEF TypeOK, CpuInv, CpuSaved, LockSwitch, LockOnCpu, RunningGo,
    SwitchAlive, StackExclusive, Syscall, On, Free, Goto,
    table, locks, sched, locals
<1>6. ASSUME NEW c \in CPUs, NEW s \in Slots, Fault(c, s)
      PROVE  CpuInv'
  BY <1>6, NullFact DEF TypeOK, CpuInv, CpuSaved, LockSwitch, LockOnCpu, RunningGo,
    SwitchAlive, StackExclusive, Fault, On, Free, Goto,
    table, locks, sched, locals
<1>7. ASSUME NEW c \in CPUs, NEW s \in Slots, UserTrapRet(c, s)
      PROVE  CpuInv'
  BY <1>7, NullFact DEF TypeOK, CpuInv, CpuSaved, LockSwitch, LockOnCpu, RunningGo,
    SwitchAlive, StackExclusive, UserTrapRet, On, Free, Goto,
    table, locks, sched, locals
<1>8. ASSUME NEW c \in CPUs, NEW s \in Slots, ForkScan(c, s)
      PROVE  CpuInv'
  BY <1>8, NullFact DEF TypeOK, CpuInv, CpuSaved, LockSwitch, LockOnCpu, RunningGo,
    SwitchAlive, StackExclusive, ForkScan, On, Free, Goto, Return, freeproc,
    table, locks, sched, locals
<1>9. ASSUME NEW c \in CPUs, NEW s \in Slots, ForkParent(c, s)
      PROVE  CpuInv'
  BY <1>9, NullFact DEF TypeOK, CpuInv, CpuSaved, LockSwitch, LockOnCpu, RunningGo,
    SwitchAlive, StackExclusive, ForkParent, On, Goto,
    table, locks, sched, locals
<1>10. ASSUME NEW c \in CPUs, NEW s \in Slots, ForkRun(c, s)
      PROVE  CpuInv'
  <2>1. arg[s] \in Slots /\ state[arg[s]] = "USED"
    BY <1>10 DEF ForkRun, On, ForkInv
  <2>2. /\ plock[arg[s]] = Nobody
        /\ \A q \in Slots : state'[q] = IF q = arg[s] THEN "RUNNABLE" ELSE state[q]
        /\ cproc' = cproc /\ plock' = plock /\ sw' = sw
    BY <1>10, <2>1 DEF TypeOK, ForkRun, Free, locks, sched
  <2>3. QED
    BY <2>1, <2>2 DEF CpuInv, CpuSaved, LockSwitch, LockOnCpu, RunningGo,
      SwitchAlive, StackExclusive
<1>11. ASSUME NEW c \in CPUs, NEW s \in Slots, ExitLock(c, s)
      PROVE  CpuInv'
  BY <1>11, NullFact DEF TypeOK, CpuInv, CpuSaved, LockSwitch, LockOnCpu, RunningGo,
    SwitchAlive, StackExclusive, ExitLock, On, Goto,
    table, locks, sched, locals
<1>12. ASSUME NEW c \in CPUs, NEW s \in Slots, ExitReparent(c, s)
      PROVE  CpuInv'
  BY <1>12, NullFact DEF TypeOK, CpuInv, CpuSaved, LockSwitch, LockOnCpu, RunningGo,
    SwitchAlive, StackExclusive, ExitReparent, On, Goto, ReparentDone,
    table, locks, sched, locals
<1>13. ASSUME NEW c \in CPUs, NEW s \in Slots, ExitWakeInit(c, s)
      PROVE  CpuInv'
  BY <1>13, NullFact DEF TypeOK, CpuInv, CpuSaved, LockSwitch, LockOnCpu, RunningGo,
    SwitchAlive, StackExclusive, ExitWakeInit, On, Goto, wakeup, Free,
    table, locks, sched, locals
<1>14. ASSUME NEW c \in CPUs, NEW s \in Slots, ExitWakeup(c, s)
      PROVE  CpuInv'
  BY <1>14, NullFact DEF TypeOK, CpuInv, CpuSaved, LockSwitch, LockOnCpu, RunningGo,
    SwitchAlive, StackExclusive, ExitWakeup, On, Goto, wakeup, Free,
    table, locks, sched, locals
<1>15. ASSUME NEW c \in CPUs, NEW s \in Slots, ExitZombie(c, s)
      PROVE  CpuInv'
  BY <1>15, NullFact DEF TypeOK, CpuInv, CpuSaved, LockSwitch, LockOnCpu, RunningGo,
    SwitchAlive, StackExclusive, ExitZombie, On, Goto, GiveUp, Free,
    table, locks, sched, locals
<1>16. ASSUME NEW c \in CPUs, NEW s \in Slots, WaitLock(c, s)
      PROVE  CpuInv'
  BY <1>16, NullFact DEF TypeOK, CpuInv, CpuSaved, LockSwitch, LockOnCpu, RunningGo,
    SwitchAlive, StackExclusive, WaitLock, On, Goto,
    table, locks, sched, locals
<1>17. ASSUME NEW c \in CPUs, NEW s \in Slots, WaitScan(c, s)
      PROVE  CpuInv'
  BY <1>17, NullFact DEF TypeOK, CpuInv, CpuSaved, LockSwitch, LockOnCpu, RunningGo,
    SwitchAlive, StackExclusive, WaitScan, On, Free,
    table, locks, sched, locals
<1>18. ASSUME NEW c \in CPUs, NEW s \in Slots, WaitReap(c, s)
      PROVE  CpuInv'
  BY <1>18, NullFact DEF TypeOK, CpuInv, CpuSaved, LockSwitch, LockOnCpu, RunningGo,
    SwitchAlive, StackExclusive, WaitReap, On, FoundZombie, Free, freeproc, Goto,
    Return,
    table, locks, sched, locals
<1>19. ASSUME NEW c \in CPUs, NEW s \in Slots, WaitKilled(c, s)
      PROVE  CpuInv'
  BY <1>19, NullFact DEF TypeOK, CpuInv, CpuSaved, LockSwitch, LockOnCpu, RunningGo,
    SwitchAlive, StackExclusive, WaitKilled, On, Free, Goto, Return,
    table, locks, sched, locals
<1>20. ASSUME NEW c \in CPUs, NEW s \in Slots, WaitSleep(c, s)
      PROVE  CpuInv'
  BY <1>20, NullFact DEF TypeOK, CpuInv, CpuSaved, LockSwitch, LockOnCpu, RunningGo,
    SwitchAlive, StackExclusive, WaitSleep, On, Goto, GiveUp, Free,
    table, locks, sched, locals
<1>21. ASSUME NEW c \in CPUs, NEW s \in Slots, KillScan(c, s)
      PROVE  CpuInv'
  BY <1>21, NullFact DEF TypeOK, CpuInv, CpuSaved, LockSwitch, LockOnCpu, RunningGo,
    SwitchAlive, StackExclusive, KillScan, On, Free, Goto, Return,
    table, locks, sched, locals
<1>22. QED
  BY <1>1, <1>2, <1>3, <1>4, <1>5, <1>6, <1>7, <1>8, <1>9, <1>10, <1>11,
    <1>12, <1>13, <1>14, <1>15, <1>16, <1>17, <1>18, <1>19, <1>20, <1>21
    DEF Next, Thread

\* wait_lock is held by the CPU of the one thread inside WaitLocked.
LEMMA LockStep ==
  ASSUME TypeOK, CpuInv, ForkInv, LockInv, Next
  PROVE  LockInv'
<1>1. ASSUME NEW c \in CPUs, SchedSkip(c)
      PROVE  LockInv'
  BY <1>1, NullFact DEF TypeOK, LockInv, WaitLocked, SchedSkip, Advance, Free,
    table, locks, sched, locals
<1>2. ASSUME NEW c \in CPUs, SchedRun(c)
      PROVE  LockInv'
  BY <1>2, NullFact DEF TypeOK, LockInv, WaitLocked, SchedRun, Free, Goto,
    table, locks, sched, locals
<1>3. ASSUME NEW c \in CPUs, NEW s \in Slots, Swtch(c, s)
      PROVE  LockInv'
  BY <1>3, NullFact DEF TypeOK, LockInv, WaitLocked, Swtch, Advance,
    table, locks, sched, locals
<1>4. ASSUME NEW c \in CPUs, NEW s \in Slots, Timer(c, s)
      PROVE  LockInv'
  BY <1>4, NullFact DEF TypeOK, LockInv, WaitLocked, Timer, GiveUp, Free, Goto,
    table, locks, sched, locals
<1>5. ASSUME NEW c \in CPUs, NEW s \in Slots, Syscall(c, s)
      PROVE  LockInv'
  BY <1>5, NullFact DEF TypeOK, LockInv, WaitLocked, Syscall, On, Free, Goto,
    table, locks, sched, locals
<1>6. ASSUME NEW c \in CPUs, NEW s \in Slots, Fault(c, s)
      PROVE  LockInv'
  BY <1>6, NullFact DEF TypeOK, LockInv, WaitLocked, Fault, On, Free, Goto,
    table, locks, sched, locals
<1>7. ASSUME NEW c \in CPUs, NEW s \in Slots, UserTrapRet(c, s)
      PROVE  LockInv'
  BY <1>7, NullFact DEF TypeOK, LockInv, WaitLocked, UserTrapRet, On, Free, Goto,
    table, locks, sched, locals
<1>8. ASSUME NEW c \in CPUs, NEW s \in Slots, ForkScan(c, s)
      PROVE  LockInv'
  <2>1. /\ pc[s] = "fork_scan"
        /\ \A t \in Slots : pc'[t] = pc[t] \/ pc'[t] \in {"ret", "fork_parent", "user"}
        /\ \A t \in Slots : pc'[t] # pc[t] => t = s \/ state[t] = "UNUSED"
        /\ wait_lock' = wait_lock /\ cproc' = cproc /\ sw' = sw
    BY <1>8 DEF TypeOK, ForkScan, On, Return, Goto, locks, sched
  <2>2. \A t \in Slots : pc'[t] # pc[t] => pc[t] \notin WaitLocked /\ pc'[t] \notin WaitLocked
    BY <2>1 DEF ForkInv, Dead, WaitLocked
  <2>3. QED
    BY <2>1, <2>2 DEF LockInv
<1>9. ASSUME NEW c \in CPUs, NEW s \in Slots, ForkParent(c, s)
      PROVE  LockInv'
  BY <1>9, NullFact DEF TypeOK, LockInv, WaitLocked, ForkParent, On, Goto,
    table, locks, sched, locals
<1>10. ASSUME NEW c \in CPUs, NEW s \in Slots, ForkRun(c, s)
      PROVE  LockInv'
  BY <1>10, NullFact DEF TypeOK, LockInv, WaitLocked, ForkRun, On, Free, Goto, Return,
    table, locks, sched, locals
<1>11. ASSUME NEW c \in CPUs, NEW s \in Slots, ExitLock(c, s)
      PROVE  LockInv'
  BY <1>11, NullFact DEF TypeOK, LockInv, WaitLocked, ExitLock, On, Goto,
    table, locks, sched, locals
<1>12. ASSUME NEW c \in CPUs, NEW s \in Slots, ExitReparent(c, s)
      PROVE  LockInv'
  BY <1>12, NullFact DEF TypeOK, LockInv, WaitLocked, ExitReparent, On, Goto,
    ReparentDone,
    table, locks, sched, locals
<1>13. ASSUME NEW c \in CPUs, NEW s \in Slots, ExitWakeInit(c, s)
      PROVE  LockInv'
  BY <1>13, NullFact DEF TypeOK, LockInv, WaitLocked, ExitWakeInit, On, Goto, wakeup,
    Free,
    table, locks, sched, locals
<1>14. ASSUME NEW c \in CPUs, NEW s \in Slots, ExitWakeup(c, s)
      PROVE  LockInv'
  BY <1>14, NullFact DEF TypeOK, LockInv, WaitLocked, ExitWakeup, On, Goto, wakeup,
    Free,
    table, locks, sched, locals
<1>15. ASSUME NEW c \in CPUs, NEW s \in Slots, ExitZombie(c, s)
      PROVE  LockInv'
  BY <1>15, NullFact DEF TypeOK, LockInv, WaitLocked, ExitZombie, On, Goto, GiveUp,
    Free,
    table, locks, sched, locals
<1>16. ASSUME NEW c \in CPUs, NEW s \in Slots, WaitLock(c, s)
      PROVE  LockInv'
  BY <1>16, NullFact DEF TypeOK, LockInv, WaitLocked, WaitLock, On, Goto,
    table, locks, sched, locals
<1>17. ASSUME NEW c \in CPUs, NEW s \in Slots, WaitScan(c, s)
      PROVE  LockInv'
  BY <1>17, NullFact DEF TypeOK, LockInv, WaitLocked, WaitScan, On, Free,
    table, locks, sched, locals
<1>18. ASSUME NEW c \in CPUs, NEW s \in Slots, WaitReap(c, s)
      PROVE  LockInv'
  BY <1>18, NullFact DEF TypeOK, LockInv, WaitLocked, WaitReap, On, FoundZombie, Free,
    freeproc, Goto, Return,
    table, locks, sched, locals
<1>19. ASSUME NEW c \in CPUs, NEW s \in Slots, WaitKilled(c, s)
      PROVE  LockInv'
  BY <1>19, NullFact DEF TypeOK, LockInv, WaitLocked, WaitKilled, On, Free, Goto,
    Return,
    table, locks, sched, locals
<1>20. ASSUME NEW c \in CPUs, NEW s \in Slots, WaitSleep(c, s)
      PROVE  LockInv'
  BY <1>20, NullFact DEF TypeOK, LockInv, WaitLocked, WaitSleep, On, Goto, GiveUp, Free,
    table, locks, sched, locals
<1>21. ASSUME NEW c \in CPUs, NEW s \in Slots, KillScan(c, s)
      PROVE  LockInv'
  BY <1>21, NullFact DEF TypeOK, LockInv, WaitLocked, KillScan, On, Free, Goto, Return,
    table, locks, sched, locals
<1>22. QED
  BY <1>1, <1>2, <1>3, <1>4, <1>5, <1>6, <1>7, <1>8, <1>9, <1>10, <1>11,
    <1>12, <1>13, <1>14, <1>15, <1>16, <1>17, <1>18, <1>19, <1>20, <1>21
    DEF Next, Thread

\* What fork() relies on is kept.
LEMMA ForkStep ==
  ASSUME TypeOK, CpuInv, IndexInv, ForkInv, ParentInv, Next
  PROVE  ForkInv'
<1>1. ASSUME NEW c \in CPUs, SchedSkip(c)
      PROVE  ForkInv'
  BY <1>1, NullFact DEF TypeOK, ForkInv, Dead, SchedSkip, Advance, Free,
    table, locks, sched, locals
<1>2. ASSUME NEW c \in CPUs, SchedRun(c)
      PROVE  ForkInv'
  BY <1>2, NullFact DEF TypeOK, ForkInv, Dead, SchedRun, Free, Goto,
    table, locks, sched, locals
<1>3. ASSUME NEW c \in CPUs, NEW s \in Slots, Swtch(c, s)
      PROVE  ForkInv'
  BY <1>3, NullFact DEF TypeOK, ForkInv, Dead, Swtch, Advance,
    table, locks, sched, locals
<1>4. ASSUME NEW c \in CPUs, NEW s \in Slots, Timer(c, s)
      PROVE  ForkInv'
  <2>1. state[s] = "RUNNING"
    BY <1>4 DEF Timer, CpuInv, RunningGo
  <2>2. /\ \A q \in Slots \ {s} : state'[q] = state[q] /\ pc'[q] = pc[q]
        /\ state'[s] \in {"RUNNING", "RUNNABLE"}
        /\ pc'[s] \in {pc[s], "exit"}
        /\ arg' = arg /\ parent' = parent
    BY <1>4, <2>1 DEF TypeOK, Timer, GiveUp, Goto, locals
  <2>3. QED
    BY <2>1, <2>2 DEF ForkInv, Dead
<1>5. ASSUME NEW c \in CPUs, NEW s \in Slots, Syscall(c, s)
      PROVE  ForkInv'
  <2>1. state[s] = "RUNNING"
    BY <1>5 DEF Syscall, On, CpuInv, RunningGo
  <2>2. /\ \A q \in Slots \ {s} : pc'[q] = pc[q] /\ arg'[q] = arg[q]
        /\ pc'[s] \in {"exit", "wait", "fork_scan", "kill_scan"}
        /\ state' = state /\ parent' = parent
    BY <1>5 DEF TypeOK, Syscall, Goto, table
  <2>3. QED
    BY <2>1, <2>2 DEF ForkInv, Dead
<1>6. ASSUME NEW c \in CPUs, NEW s \in Slots, Fault(c, s)
      PROVE  ForkInv'
  <2>1. state[s] = "RUNNING"
    BY <1>6 DEF Fault, On, CpuInv, RunningGo
  <2>2. /\ \A q \in Slots \ {s} : pc'[q] = pc[q]
        /\ pc'[s] = "exit"
        /\ state' = state /\ parent' = parent /\ arg' = arg
    BY <1>6 DEF TypeOK, Fault, Goto, locals
  <2>3. QED
    BY <2>1, <2>2 DEF ForkInv, Dead
<1>7. ASSUME NEW c \in CPUs, NEW s \in Slots, UserTrapRet(c, s)
      PROVE  ForkInv'
  BY <1>7, NullFact DEF TypeOK, ForkInv, Dead, UserTrapRet, On, Free, Goto,
    table, locks, sched, locals
<1>8. ASSUME NEW c \in CPUs, NEW s \in Slots, ForkScan(c, s)
      PROVE  ForkInv'
  <2> DEFINE q == idx[s]
  <2>1. state[s] = "RUNNING" /\ pc[s] = "fork_scan" /\ q \in Slots
    BY <1>8 DEF ForkScan, On, CpuInv, RunningGo, IndexInv
  <2>2. CASE state[q] # "UNUSED"
    <3>1. /\ \A t \in Slots \ {s} : pc'[t] = pc[t] /\ arg'[t] = arg[t]
          /\ pc'[s] \in {"fork_scan", "ret"}
          /\ state' = state /\ parent' = parent
      BY <1>8, <2>1, <2>2 DEF TypeOK, ForkScan, Return, Goto, table
    <3>2. QED
      BY <2>1, <3>1 DEF ForkInv, Dead
  <2>3. CASE state[q] = "UNUSED" /\ pc'[s] = "fork_parent"
    <3>1. q # s /\ pc[q] \in {"none", "user"} /\ parent[q] = Null
      BY <2>1, <2>3 DEF ForkInv, Dead, ParentInv
    <3>2. /\ \A t \in Slots \ {s, q} : pc'[t] = pc[t]
          /\ \A t \in Slots \ {s} : arg'[t] = arg[t]
          /\ \A t \in Slots \ {q} : state'[t] = state[t]
          /\ pc'[q] = "user" /\ arg'[s] = q /\ state'[q] = "USED" /\ parent' = parent
      BY <1>8, <2>1, <2>3, <3>1 DEF TypeOK, ForkScan, Return, Goto
    <3>3. QED
      BY <2>1, <2>3, <3>1, <3>2 DEF ForkInv, Dead
  <2>4. CASE state[q] = "UNUSED" /\ pc'[s] # "fork_parent"
    <3>1. q # s /\ pc[q] \in {"none", "user"} /\ parent[q] = Null
      BY <2>1, <2>4 DEF ForkInv, Dead, ParentInv
    <3>2. /\ \A t \in Slots \ {s} : pc'[t] = pc[t] /\ arg'[t] = arg[t]
          /\ \A t \in Slots \ {q} : state'[t] = state[t] /\ parent'[t] = parent[t]
          /\ pc'[s] = "ret" /\ state'[q] = "UNUSED"
      BY <1>8, <2>1, <2>4, <3>1 DEF TypeOK, ForkScan, Return, Goto, freeproc
    <3>3. QED
      BY <2>1, <2>4, <3>1, <3>2 DEF ForkInv, Dead
  <2>5. QED
    BY <2>2, <2>3, <2>4
<1>9. ASSUME NEW c \in CPUs, NEW s \in Slots, ForkParent(c, s)
      PROVE  ForkInv'
  BY <1>9, NullFact DEF TypeOK, ForkInv, Dead, ForkParent, On, Goto,
    table, locks, sched, locals
<1>10. ASSUME NEW c \in CPUs, NEW s \in Slots, ForkRun(c, s)
      PROVE  ForkInv'
  BY <1>10, NullFact DEF TypeOK, ForkInv, Dead, ForkRun, On, Free, Goto, Return,
    table, locks, sched, locals
<1>11. ASSUME NEW c \in CPUs, NEW s \in Slots, ExitLock(c, s)
      PROVE  ForkInv'
  BY <1>11, NullFact DEF TypeOK, ForkInv, Dead, ExitLock, On, Goto,
    table, locks, sched, locals
<1>12. ASSUME NEW c \in CPUs, NEW s \in Slots, ExitReparent(c, s)
      PROVE  ForkInv'
  BY <1>12, NullFact DEF TypeOK, ForkInv, Dead, ExitReparent, On, Goto, ReparentDone,
    table, locks, sched, locals
<1>13. ASSUME NEW c \in CPUs, NEW s \in Slots, ExitWakeInit(c, s)
      PROVE  ForkInv'
  <2>1. state[s] = "RUNNING" /\ pc[s] = "exit_wakeinit"
    BY <1>13 DEF ExitWakeInit, On, CpuInv, RunningGo
  <2>2. /\ \A q \in Slots \ {s} : pc'[q] = pc[q]
        /\ pc'[s] \in {"exit_wakeinit", "exit_reparent"}
        /\ parent' = parent /\ arg' = arg
    BY <1>13, <2>1 DEF TypeOK, ExitWakeInit, Goto
  <2>3. \A q \in Slots : \/ state'[q] = state[q]
                         \/ state[q] = "SLEEPING" /\ state'[q] = "RUNNABLE"
    BY <1>13 DEF TypeOK, ExitWakeInit, wakeup
  <2>4. QED
    BY <2>1, <2>2, <2>3 DEF ForkInv, Dead
<1>14. ASSUME NEW c \in CPUs, NEW s \in Slots, ExitWakeup(c, s)
      PROVE  ForkInv'
  BY <1>14, NullFact DEF TypeOK, ForkInv, Dead, ExitWakeup, On, Goto, wakeup, Free,
    table, locks, sched, locals
<1>15. ASSUME NEW c \in CPUs, NEW s \in Slots, ExitZombie(c, s)
      PROVE  ForkInv'
  BY <1>15, NullFact DEF TypeOK, ForkInv, Dead, ExitZombie, On, Goto, GiveUp, Free,
    table, locks, sched, locals
<1>16. ASSUME NEW c \in CPUs, NEW s \in Slots, WaitLock(c, s)
      PROVE  ForkInv'
  BY <1>16, NullFact DEF TypeOK, ForkInv, Dead, WaitLock, On, Goto,
    table, locks, sched, locals
<1>17. ASSUME NEW c \in CPUs, NEW s \in Slots, WaitScan(c, s)
      PROVE  ForkInv'
  BY <1>17, NullFact DEF TypeOK, ForkInv, Dead, WaitScan, On, Free,
    table, locks, sched, locals
<1>18. ASSUME NEW c \in CPUs, NEW s \in Slots, WaitReap(c, s)
      PROVE  ForkInv'
  BY <1>18, NullFact DEF TypeOK, ForkInv, Dead, WaitReap, On, FoundZombie, Free,
    freeproc, Goto, Return,
    table, locks, sched, locals
<1>19. ASSUME NEW c \in CPUs, NEW s \in Slots, WaitKilled(c, s)
      PROVE  ForkInv'
  <2>1. state[s] = "RUNNING" /\ pc[s] = "wait_scan"
    BY <1>19 DEF WaitKilled, On, CpuInv, RunningGo
  <2>2. /\ \A q \in Slots \ {s} : pc'[q] = pc[q] /\ arg'[q] = arg[q]
        /\ pc'[s] \in {"ret", "wait_sleep"}
        /\ state' = state /\ parent' = parent
    BY <1>19 DEF TypeOK, WaitKilled, Goto, Return, table
  <2>3. QED
    BY <2>1, <2>2 DEF ForkInv, Dead
<1>20. ASSUME NEW c \in CPUs, NEW s \in Slots, WaitSleep(c, s)
      PROVE  ForkInv'
  BY <1>20, NullFact DEF TypeOK, ForkInv, Dead, WaitSleep, On, Goto, GiveUp, Free,
    table, locks, sched, locals
<1>21. ASSUME NEW c \in CPUs, NEW s \in Slots, KillScan(c, s)
      PROVE  ForkInv'
  <2>1. state[s] = "RUNNING" /\ pc[s] = "kill_scan"
    BY <1>21 DEF KillScan, On, CpuInv, RunningGo
  <2>2. /\ \A q \in Slots \ {s} : pc'[q] = pc[q] /\ arg'[q] = arg[q]
        /\ pc'[s] \in {"kill_scan", "ret"}
        /\ parent' = parent
    BY <1>21, <2>1 DEF TypeOK, KillScan, Goto, Return
  <2>3. \A q \in Slots : \/ state'[q] = state[q]
                         \/ state[q] = "SLEEPING" /\ state'[q] = "RUNNABLE"
    BY <1>21 DEF TypeOK, KillScan
  <2>4. QED
    BY <2>1, <2>2, <2>3 DEF ForkInv, Dead
<1>22. QED
  BY <1>1, <1>2, <1>3, <1>4, <1>5, <1>6, <1>7, <1>8, <1>9, <1>10, <1>11,
    <1>12, <1>13, <1>14, <1>15, <1>16, <1>17, <1>18, <1>19, <1>20, <1>21
    DEF Next, Thread

\* The tree keeps its shape.
LEMMA ParentStep ==
  ASSUME TypeOK, CpuInv, IndexInv, ForkInv, ParentInv, ExitInv, Next
  PROVE  ParentInv'
<1>1. ASSUME NEW c \in CPUs, SchedSkip(c)
      PROVE  ParentInv'
  BY <1>1, NullFact DEF TypeOK, ParentInv, Dead, SchedSkip, Advance, Free,
    table, locks, sched, locals
<1>2. ASSUME NEW c \in CPUs, SchedRun(c)
      PROVE  ParentInv'
  <2>1. /\ parent' = parent
        /\ \A q \in Slots : state'[q] # state[q] => state[q] = "RUNNABLE" /\ state'[q] = "RUNNING"
    BY <1>2 DEF TypeOK, SchedRun
  <2>2. QED
    BY <2>1, ParentFrame DEF Dead
<1>3. ASSUME NEW c \in CPUs, NEW s \in Slots, Swtch(c, s)
      PROVE  ParentInv'
  BY <1>3, NullFact DEF TypeOK, ParentInv, Dead, Swtch, Advance,
    table, locks, sched, locals
<1>4. ASSUME NEW c \in CPUs, NEW s \in Slots, Timer(c, s)
      PROVE  ParentInv'
  <2>1. state[s] = "RUNNING"
    BY <1>4 DEF Timer, CpuInv, RunningGo
  <2>2. /\ parent' = parent
        /\ \A q \in Slots : state'[q] # state[q] => state[q] = "RUNNING" /\ state'[q] = "RUNNABLE"
    BY <1>4, <2>1 DEF TypeOK, Timer, GiveUp
  <2>3. QED
    BY <2>2, ParentFrame DEF Dead
<1>5. ASSUME NEW c \in CPUs, NEW s \in Slots, Syscall(c, s)
      PROVE  ParentInv'
  BY <1>5, NullFact DEF TypeOK, ParentInv, Dead, Syscall, On, Free, Goto,
    table, locks, sched, locals
<1>6. ASSUME NEW c \in CPUs, NEW s \in Slots, Fault(c, s)
      PROVE  ParentInv'
  BY <1>6, NullFact DEF TypeOK, ParentInv, Dead, Fault, On, Free, Goto,
    table, locks, sched, locals
<1>7. ASSUME NEW c \in CPUs, NEW s \in Slots, UserTrapRet(c, s)
      PROVE  ParentInv'
  BY <1>7, NullFact DEF TypeOK, ParentInv, Dead, UserTrapRet, On, Free, Goto,
    table, locks, sched, locals
<1>8. ASSUME NEW c \in CPUs, NEW s \in Slots, ForkScan(c, s)
      PROVE  ParentInv'
  <2> DEFINE q == idx[s]
  <2>1. q \in Slots /\ initproc \in Slots /\ \A t \in Slots : parent[t] \in Slots \cup {Null}
    BY <1>8, IndexFacts DEF ForkScan, On, IndexInv, TypeOK, initproc
  <2>2. CASE state[q] # "UNUSED"
    BY <1>8, <2>1, <2>2, ParentFrame DEF ForkScan, table
  <2>3. CASE state[q] = "UNUSED"
    <3>1. /\ \A t \in Slots \ {q} : state'[t] = state[t] /\ parent'[t] = parent[t]
          /\ state'[q] \in {"USED", "UNUSED"} /\ parent'[q] \in {parent[q], Null}
      BY <1>8, <2>1, <2>3 DEF TypeOK, ForkScan, freeproc
    <3>2. parent[q] = Null /\ q # initproc
      BY <2>1, <2>3 DEF ParentInv, Dead
    <3>3. QED
      BY <2>1, <2>3, <3>1, <3>2 DEF ParentInv, Dead
  <2>4. QED
    BY <2>2, <2>3
<1>9. ASSUME NEW c \in CPUs, NEW s \in Slots, ForkParent(c, s)
      PROVE  ParentInv'
  <2>1. /\ arg[s] \in Slots /\ state[arg[s]] = "USED" /\ state[s] = "RUNNING"
        /\ initproc \in Slots /\ \A t \in Slots : parent[t] \in Slots \cup {Null}
    BY <1>9, IndexFacts DEF ForkParent, On, ForkInv, CpuInv, RunningGo, TypeOK, initproc
  <2>2. /\ state' = state
        /\ \A t \in Slots : parent'[t] = IF t = arg[s] THEN s ELSE parent[t]
    BY <1>9 DEF TypeOK, ForkParent
  <2>3. QED
    BY <2>1, <2>2 DEF ParentInv, Dead
<1>10. ASSUME NEW c \in CPUs, NEW s \in Slots, ForkRun(c, s)
      PROVE  ParentInv'
  <2>1. /\ arg[s] \in Slots /\ state[arg[s]] = "USED" /\ parent[arg[s]] = s
        /\ initproc \in Slots /\ \A t \in Slots : parent[t] \in Slots \cup {Null}
    BY <1>10, IndexFacts DEF ForkRun, On, ForkInv, TypeOK, initproc
  <2>2. /\ parent' = parent
        /\ \A t \in Slots : state'[t] = IF t = arg[s] THEN "RUNNABLE" ELSE state[t]
    BY <1>10 DEF TypeOK, ForkRun
  <2>3. QED
    BY <2>1, <2>2, NullFact DEF ParentInv, Dead
<1>11. ASSUME NEW c \in CPUs, NEW s \in Slots, ExitLock(c, s)
      PROVE  ParentInv'
  BY <1>11, NullFact DEF TypeOK, ParentInv, Dead, ExitLock, On, Goto,
    table, locks, sched, locals
<1>12. ASSUME NEW c \in CPUs, NEW s \in Slots, ExitReparent(c, s)
      PROVE  ParentInv'
  <2>1. initproc \in Slots /\ \A t \in Slots : parent[t] \in Slots \cup {Null}
    BY IndexFacts DEF TypeOK, initproc
  <2>2. /\ state' = state
        /\ \A t \in Slots : parent'[t] = parent[t] \/ (parent[t] = s /\ parent'[t] = initproc)
    BY <1>12 DEF TypeOK, ExitReparent
  <2>3. QED
    BY <2>1, <2>2, NullFact DEF ParentInv, Dead
<1>13. ASSUME NEW c \in CPUs, NEW s \in Slots, ExitWakeInit(c, s)
      PROVE  ParentInv'
  <2>1. /\ parent' = parent
        /\ \A q \in Slots : state'[q] # state[q] => state[q] = "SLEEPING" /\ state'[q] = "RUNNABLE"
    BY <1>13 DEF TypeOK, ExitWakeInit, wakeup
  <2>2. QED
    BY <2>1, ParentFrame DEF Dead
<1>14. ASSUME NEW c \in CPUs, NEW s \in Slots, ExitWakeup(c, s)
      PROVE  ParentInv'
  <2>1. /\ parent' = parent
        /\ \A q \in Slots : state'[q] # state[q] => state[q] = "SLEEPING" /\ state'[q] = "RUNNABLE"
    BY <1>14 DEF TypeOK, ExitWakeup, wakeup
  <2>2. QED
    BY <2>1, ParentFrame DEF Dead
<1>15. ASSUME NEW c \in CPUs, NEW s \in Slots, ExitZombie(c, s)
      PROVE  ParentInv'
  <2>1. /\ state[s] = "RUNNING" /\ s # initproc /\ \A t \in Slots : parent[t] # s
        /\ initproc \in Slots /\ \A t \in Slots : parent[t] \in Slots \cup {Null}
    BY <1>15, IndexFacts DEF ExitZombie, On, CpuInv, RunningGo, ExitInv, Exiting,
      TypeOK, initproc
  <2>2. /\ parent' = parent
        /\ \A t \in Slots : state'[t] = IF t = s THEN "ZOMBIE" ELSE state[t]
    BY <1>15 DEF TypeOK, ExitZombie, GiveUp
  <2>3. QED
    BY <2>1, <2>2 DEF ParentInv, Dead
<1>16. ASSUME NEW c \in CPUs, NEW s \in Slots, WaitLock(c, s)
      PROVE  ParentInv'
  BY <1>16, NullFact DEF TypeOK, ParentInv, Dead, WaitLock, On, Goto,
    table, locks, sched, locals
<1>17. ASSUME NEW c \in CPUs, NEW s \in Slots, WaitScan(c, s)
      PROVE  ParentInv'
  BY <1>17, NullFact DEF TypeOK, ParentInv, Dead, WaitScan, On, Free,
    table, locks, sched, locals
<1>18. ASSUME NEW c \in CPUs, NEW s \in Slots, WaitReap(c, s)
      PROVE  ParentInv'
  <2> DEFINE q == idx[s]
  <2>1. initproc \in Slots /\ \A t \in Slots : parent[t] \in Slots \cup {Null}
    BY IndexFacts DEF TypeOK, initproc
  <2>2. CASE UNCHANGED table
    BY <2>2, ParentFrame DEF table
  <2>3. CASE freeproc(q)
    <3>1. q \in Slots /\ state[q] = "ZOMBIE"
      BY <1>18, IndexFacts DEF WaitReap, On, FoundZombie, IndexInv, TypeOK
    <3>2. \A t \in Slots : /\ state'[t] = IF t = q THEN "UNUSED" ELSE state[t]
                           /\ parent'[t] = IF t = q THEN Null ELSE parent[t]
      BY <2>3 DEF TypeOK, freeproc
    <3>3. QED
      BY <2>1, <3>1, <3>2 DEF ParentInv, Dead
  <2>4. QED
    BY <1>18, <2>2, <2>3 DEF WaitReap
<1>19. ASSUME NEW c \in CPUs, NEW s \in Slots, WaitKilled(c, s)
      PROVE  ParentInv'
  BY <1>19, NullFact DEF TypeOK, ParentInv, Dead, WaitKilled, On, Free, Goto, Return,
    table, locks, sched, locals
<1>20. ASSUME NEW c \in CPUs, NEW s \in Slots, WaitSleep(c, s)
      PROVE  ParentInv'
  <2>1. state[s] = "RUNNING"
    BY <1>20 DEF WaitSleep, On, CpuInv, RunningGo
  <2>2. /\ parent' = parent
        /\ \A q \in Slots : state'[q] # state[q] => state[q] = "RUNNING" /\ state'[q] = "SLEEPING"
    BY <1>20, <2>1 DEF TypeOK, WaitSleep, GiveUp
  <2>3. QED
    BY <2>2, ParentFrame DEF Dead
<1>21. ASSUME NEW c \in CPUs, NEW s \in Slots, KillScan(c, s)
      PROVE  ParentInv'
  <2>1. /\ parent' = parent
        /\ \A q \in Slots : state'[q] # state[q] => state[q] = "SLEEPING" /\ state'[q] = "RUNNABLE"
    BY <1>21 DEF TypeOK, KillScan
  <2>2. QED
    BY <2>1, ParentFrame DEF Dead
<1>22. QED
  BY <1>1, <1>2, <1>3, <1>4, <1>5, <1>6, <1>7, <1>8, <1>9, <1>10, <1>11,
    <1>12, <1>13, <1>14, <1>15, <1>16, <1>17, <1>18, <1>19, <1>20, <1>21
    DEF Next, Thread

\* What exit() has established is kept.
LEMMA ExitStep ==
  ASSUME TypeOK, CpuInv, LockInv, IndexInv, ForkInv, ParentInv, ExitInv, SleepChan, Next
  PROVE  ExitInv'
<1>1. ASSUME NEW c \in CPUs, SchedSkip(c)
      PROVE  ExitInv'
  BY <1>1, NullFact DEF TypeOK, ExitInv, Exiting, SchedSkip, Advance, Free,
    table, locks, sched, locals
<1>2. ASSUME NEW c \in CPUs, SchedRun(c)
      PROVE  ExitInv'
  BY <1>2, NullFact DEF TypeOK, ExitInv, Exiting, SchedRun, Free, Goto,
    table, locks, sched, locals
<1>3. ASSUME NEW c \in CPUs, NEW s \in Slots, Swtch(c, s)
      PROVE  ExitInv'
  BY <1>3, NullFact DEF TypeOK, ExitInv, Exiting, Swtch, Advance,
    table, locks, sched, locals
<1>4. ASSUME NEW c \in CPUs, NEW s \in Slots, Timer(c, s)
      PROVE  ExitInv'
  <2>1. /\ idx' = idx /\ widx' = widx /\ parent' = parent
        /\ \A t \in Slots : pc'[t] # pc[t] => pc'[t] = "exit"
        /\ \A t \in Slots : state'[t] # state[t] => state'[t] = "RUNNABLE"
    BY <1>4 DEF TypeOK, Timer, GiveUp, Goto, locals
  <2>2. \A t \in Slots : pc[t] \in Exiting => parent[t] \in Slots
    BY ExitParent
  <2>3. QED
    BY <2>1, <2>2 DEF ExitInv, Exiting
<1>5. ASSUME NEW c \in CPUs, NEW s \in Slots, Syscall(c, s)
      PROVE  ExitInv'
  BY <1>5, NullFact DEF TypeOK, ExitInv, Exiting, Syscall, On, Free, Goto,
    table, locks, sched, locals
<1>6. ASSUME NEW c \in CPUs, NEW s \in Slots, Fault(c, s)
      PROVE  ExitInv'
  BY <1>6, NullFact DEF TypeOK, ExitInv, Exiting, Fault, On, Free, Goto,
    table, locks, sched, locals
<1>7. ASSUME NEW c \in CPUs, NEW s \in Slots, UserTrapRet(c, s)
      PROVE  ExitInv'
  BY <1>7, NullFact DEF TypeOK, ExitInv, Exiting, UserTrapRet, On, Free, Goto,
    table, locks, sched, locals
<1>8. ASSUME NEW c \in CPUs, NEW s \in Slots, ForkScan(c, s)
      PROVE  ExitInv'
  <2> DEFINE q == idx[s]
  <2>1. q \in Slots
    BY <1>8 DEF ForkScan, On, IndexInv
  <2>2. /\ \A t \in Slots : pc'[t] # pc[t] => pc'[t] \in {"ret", "fork_parent", "user"}
        /\ \A t \in Slots : pc'[t] \in Exiting => t # s
        /\ \A t \in Slots \ {s} : idx'[t] = idx[t] /\ widx'[t] = widx[t]
        /\ \A t \in Slots : state'[t] # state[t] => state'[t] = "USED"
        /\ \A t \in Slots : parent'[t] # parent[t] => parent'[t] = Null /\ state[t] = "UNUSED"
    BY <1>8, <2>1 DEF TypeOK, ForkScan, Return, Goto, freeproc, On, Exiting, table
  <2>3. \A t \in Slots : pc[t] \in Exiting => parent[t] \in Slots /\ state[t] = "RUNNING"
    BY ExitParent
  <2>4. QED
    BY <2>2, <2>3, NullFact DEF ExitInv, Exiting
<1>9. ASSUME NEW c \in CPUs, NEW s \in Slots, ForkParent(c, s)
      PROVE  ExitInv'
  <2>1. \A t \in Slots : pc'[t] \notin Exiting
    <3>1. /\ wait_lock = Nobody /\ \A t \in Slots : pc'[t] # pc[t] => pc'[t] = "fork_run"
      BY <1>9 DEF TypeOK, ForkParent, Goto
    <3>2. QED
      BY <3>1, OneHolder DEF Exiting, WaitLocked
  <2>2. QED
    BY <2>1 DEF ExitInv, Exiting
<1>10. ASSUME NEW c \in CPUs, NEW s \in Slots, ForkRun(c, s)
      PROVE  ExitInv'
  BY <1>10, NullFact DEF TypeOK, ExitInv, Exiting, ForkRun, On, Free, Goto, Return,
    table, locks, sched, locals
<1>11. ASSUME NEW c \in CPUs, NEW s \in Slots, ExitLock(c, s)
      PROVE  ExitInv'
  <2>1. /\ s # initproc /\ pc'[s] = "exit_reparent" /\ idx'[s] = 1
        /\ wait_lock = Nobody /\ \A t \in Slots \ {s} : pc'[t] = pc[t]
    BY <1>11 DEF TypeOK, ExitLock, Goto
  <2>2. \A t \in Slots \ {s} : pc'[t] \notin Exiting
    BY <2>1, OneHolder DEF Exiting, WaitLocked
  <2>3. QED
    BY <2>1, <2>2, OrderFacts DEF ExitInv, Exiting
<1>12. ASSUME NEW c \in CPUs, NEW s \in Slots, ExitReparent(c, s)
      PROVE  ExitInv'
  <2> DEFINE q == idx[s]
  <2>1. /\ pc[s] = "exit_reparent" /\ s # initproc /\ q \in Index /\ q # 0
        /\ \A t \in Slots : t < q => parent[t] # s
    BY <1>12 DEF TypeOK, ExitReparent, On, ExitInv, Exiting, IndexInv
  <2>2. \A t \in Slots \ {s} : pc'[t] \notin Exiting
    <3>1. \A t \in Slots \ {s} : pc'[t] = pc[t]
      BY <1>12 DEF TypeOK, ExitReparent, Goto
    <3>2. QED
      BY <2>1, <3>1, OneHolder DEF Exiting, WaitLocked
  <2>3. CASE ReparentDone(q)
    <3>1. /\ pc'[s] = "exit_wakeup" /\ widx'[s] = 1 /\ parent' = parent
      BY <1>12, <2>3 DEF TypeOK, ExitReparent, Goto
    <3>2. \A t \in Slots : parent'[t] # s
      BY <2>1, <2>3, <3>1, OrderFacts DEF ReparentDone
    <3>3. ~(parent'[s] < widx'[s])
      <4>1. parent[s] \in Slots
        BY <2>1, ExitParent DEF Exiting
      <4>2. QED
        BY <3>1, <4>1, OrderFacts
    <3>4. QED
      BY <2>1, <2>2, <3>1, <3>2, <3>3 DEF ExitInv, Exiting
  <2>4. CASE ~ReparentDone(q) /\ parent[q] = s
    <3>1. /\ pc'[s] = "exit_wakeinit" /\ idx'[s] = q
          /\ \A t \in Slots : parent'[t] = IF t = q THEN initproc ELSE parent[t]
      BY <1>12, <2>4 DEF TypeOK, ExitReparent, Goto
    <3>2. \A t \in Slots : t <= q => parent'[t] # s
      BY <2>1, <3>1, OrderFacts
    <3>3. QED
      BY <2>1, <2>2, <3>1, <3>2 DEF ExitInv, Exiting
  <2>5. CASE ~ReparentDone(q) /\ parent[q] # s
    <3>1. pc'[s] = "exit_reparent" /\ idx'[s] = q + 1 /\ parent' = parent
      BY <1>12, <2>1, <2>5 DEF TypeOK, ExitReparent, Goto
    <3>2. \A t \in Slots : t < q + 1 => parent'[t] # s
      BY <2>1, <2>5, <3>1, OrderFacts
    <3>3. QED
      BY <2>1, <2>2, <3>1, <3>2 DEF ExitInv, Exiting
  <2>6. QED
    BY <2>3, <2>4, <2>5
<1>13. ASSUME NEW c \in CPUs, NEW s \in Slots, ExitWakeInit(c, s)
      PROVE  ExitInv'
  <2>1. /\ pc[s] = "exit_wakeinit" /\ s # initproc /\ idx[s] \in Index
        /\ \A t \in Slots : t <= idx[s] => parent[t] # s
    BY <1>13 DEF TypeOK, ExitWakeInit, On, ExitInv, Exiting
  <2>2. /\ \A t \in Slots \ {s} : pc'[t] = pc[t]
        /\ parent' = parent
        /\ \/ pc'[s] = "exit_reparent" /\ idx'[s] = idx[s] + 1
           \/ pc'[s] = "exit_wakeinit" /\ idx'[s] = idx[s]
    BY <1>13, <2>1 DEF TypeOK, ExitWakeInit, Goto
  <2>3. \A t \in Slots \ {s} : pc'[t] \notin Exiting
    BY <2>1, <2>2, OneHolder DEF Exiting, WaitLocked
  <2>4. \A t \in Slots : t < idx[s] + 1 => t <= idx[s]
    BY <2>1, OrderFacts
  <2>5. QED
    BY <2>1, <2>2, <2>3, <2>4 DEF ExitInv, Exiting
<1>14. ASSUME NEW c \in CPUs, NEW s \in Slots, ExitWakeup(c, s)
      PROVE  ExitInv'
  <2> DEFINE q == widx[s]
  <2>1. /\ pc[s] = "exit_wakeup" /\ s # initproc /\ q \in Slots /\ q \in Index
        /\ \A t \in Slots : parent[t] # s
        /\ parent[s] < q => state[parent[s]] # "SLEEPING"
    BY <1>14 DEF TypeOK, ExitWakeup, On, ExitInv, Exiting, IndexInv
  <2>2. parent[s] \in Slots /\ parent[s] # s
    BY <2>1, ExitParent DEF Exiting
  <2>3. /\ parent' = parent /\ chan' = chan
        /\ \A t \in Slots \ {s} : pc'[t] = pc[t]
        /\ \A t \in Slots : state'[t] # state[t] => state'[t] = "RUNNABLE"
        /\ q # s /\ chan[q] = parent[s] => state'[q] # "SLEEPING"
        /\ \/ pc'[s] = "exit_zombie" /\ q = NPROC
           \/ pc'[s] = "exit_wakeup" /\ widx'[s] = q + 1
    BY <1>14, <2>1 DEF TypeOK, ExitWakeup, wakeup, Goto
  <2>4. \A t \in Slots \ {s} : pc'[t] \notin Exiting
    BY <2>1, <2>3, OneHolder DEF Exiting, WaitLocked
  <2>5. parent[s] < q + 1 => state'[parent[s]] # "SLEEPING"
    <3>1. CASE parent[s] = q
      BY <2>2, <2>3, <3>1 DEF SleepChan
    <3>2. CASE parent[s] # q
      BY <2>1, <2>2, <2>3, <3>2, OrderFacts
    <3>3. QED
      BY <3>1, <3>2
  <2>6. q = NPROC => parent[s] < q + 1
    BY <2>1, <2>2, OrderFacts
  <2>7. QED
    BY <2>1, <2>3, <2>4, <2>5, <2>6 DEF ExitInv, Exiting
<1>15. ASSUME NEW c \in CPUs, NEW s \in Slots, ExitZombie(c, s)
      PROVE  ExitInv'
  BY <1>15, NullFact DEF TypeOK, ExitInv, Exiting, ExitZombie, On, Goto, GiveUp, Free,
    table, locks, sched, locals
<1>16. ASSUME NEW c \in CPUs, NEW s \in Slots, WaitLock(c, s)
      PROVE  ExitInv'
  BY <1>16, NullFact DEF TypeOK, ExitInv, Exiting, WaitLock, On, Goto,
    table, locks, sched, locals
<1>17. ASSUME NEW c \in CPUs, NEW s \in Slots, WaitScan(c, s)
      PROVE  ExitInv'
  BY <1>17, NullFact DEF TypeOK, ExitInv, Exiting, WaitScan, On, Free,
    table, locks, sched, locals
<1>18. ASSUME NEW c \in CPUs, NEW s \in Slots, WaitReap(c, s)
      PROVE  ExitInv'
  <2>1. \A t \in Slots : pc'[t] \notin Exiting
    <3>1. /\ pc[s] = "wait_scan"
          /\ \A t \in Slots : pc'[t] # pc[t] => pc'[t] = "ret"
      BY <1>18 DEF TypeOK, WaitReap, On, Return, Goto
    <3>2. QED
      BY <3>1, OneHolder DEF Exiting, WaitLocked
  <2>2. QED
    BY <2>1 DEF ExitInv, Exiting
<1>19. ASSUME NEW c \in CPUs, NEW s \in Slots, WaitKilled(c, s)
      PROVE  ExitInv'
  BY <1>19, NullFact DEF TypeOK, ExitInv, Exiting, WaitKilled, On, Free, Goto, Return,
    table, locks, sched, locals
<1>20. ASSUME NEW c \in CPUs, NEW s \in Slots, WaitSleep(c, s)
      PROVE  ExitInv'
  <2>1. \A t \in Slots : pc'[t] \notin Exiting
    <3>1. /\ pc[s] = "wait_sleep"
          /\ \A t \in Slots : pc'[t] # pc[t] => pc'[t] = "wait_asleep"
      BY <1>20 DEF TypeOK, WaitSleep, On, Goto
    <3>2. QED
      BY <3>1, OneHolder DEF Exiting, WaitLocked
  <2>2. QED
    BY <2>1 DEF ExitInv, Exiting
<1>21. ASSUME NEW c \in CPUs, NEW s \in Slots, KillScan(c, s)
      PROVE  ExitInv'
  <2>1. /\ \A t \in Slots : pc'[t] # pc[t] => pc'[t] = "ret"
        /\ \A t \in Slots : pc'[t] \in Exiting => t # s
        /\ \A t \in Slots \ {s} : idx'[t] = idx[t] /\ widx'[t] = widx[t]
        /\ \A t \in Slots : state'[t] # state[t] => state'[t] = "RUNNABLE"
        /\ parent' = parent
    BY <1>21 DEF TypeOK, KillScan, Return, Goto, On, Exiting
  <2>2. \A t \in Slots : pc[t] \in Exiting => parent[t] \in Slots
    BY ExitParent
  <2>3. QED
    BY <2>1, <2>2 DEF ExitInv, Exiting
<1>22. QED
  BY <1>1, <1>2, <1>3, <1>4, <1>5, <1>6, <1>7, <1>8, <1>9, <1>10, <1>11,
    <1>12, <1>13, <1>14, <1>15, <1>16, <1>17, <1>18, <1>19, <1>20, <1>21
    DEF Next, Thread

\* What a scan of wait() has established is kept.
LEMMA ScanStep ==
  ASSUME TypeOK, CpuInv, LockInv, IndexInv, ForkInv, ParentInv, ScanInv, Next
  PROVE  ScanInv'
<1>1. ASSUME NEW c \in CPUs, SchedSkip(c)
      PROVE  ScanInv'
  BY <1>1, NullFact DEF TypeOK, ScanInv, SchedSkip, Advance, Free,
    table, locks, sched, locals
<1>2. ASSUME NEW c \in CPUs, SchedRun(c)
      PROVE  ScanInv'
  BY <1>2, NullFact DEF TypeOK, ScanInv, SchedRun, Free, Goto,
    table, locks, sched, locals
<1>3. ASSUME NEW c \in CPUs, NEW s \in Slots, Swtch(c, s)
      PROVE  ScanInv'
  BY <1>3, NullFact DEF TypeOK, ScanInv, Swtch, Advance,
    table, locks, sched, locals
<1>4. ASSUME NEW c \in CPUs, NEW s \in Slots, Timer(c, s)
      PROVE  ScanInv'
  BY <1>4, NullFact DEF TypeOK, ScanInv, Timer, GiveUp, Free, Goto,
    table, locks, sched, locals
<1>5. ASSUME NEW c \in CPUs, NEW s \in Slots, Syscall(c, s)
      PROVE  ScanInv'
  BY <1>5, NullFact DEF TypeOK, ScanInv, Syscall, On, Free, Goto,
    table, locks, sched, locals
<1>6. ASSUME NEW c \in CPUs, NEW s \in Slots, Fault(c, s)
      PROVE  ScanInv'
  BY <1>6, NullFact DEF TypeOK, ScanInv, Fault, On, Free, Goto,
    table, locks, sched, locals
<1>7. ASSUME NEW c \in CPUs, NEW s \in Slots, UserTrapRet(c, s)
      PROVE  ScanInv'
  BY <1>7, NullFact DEF TypeOK, ScanInv, UserTrapRet, On, Free, Goto,
    table, locks, sched, locals
<1>8. ASSUME NEW c \in CPUs, NEW s \in Slots, ForkScan(c, s)
      PROVE  ScanInv'
  <2> DEFINE q == idx[s]
  <2>1. q \in Slots
    BY <1>8 DEF ForkScan, On, IndexInv
  <2>2. /\ \A t \in Slots : pc'[t] # pc[t] => pc'[t] \in {"ret", "fork_parent", "user"}
        /\ \A t \in Slots : pc'[t] \in {"wait_scan", "wait_sleep"} => t # s
        /\ \A t \in Slots \ {s} : idx'[t] = idx[t] /\ kids'[t] = kids[t]
        /\ \A t \in Slots : state'[t] # state[t] => state'[t] = "USED"
        /\ \A t \in Slots : parent'[t] # parent[t] => parent'[t] = Null /\ state[t] = "UNUSED"
    BY <1>8, <2>1 DEF TypeOK, ForkScan, Return, Goto, freeproc, On, table
  <2>3. \A t \in Slots : parent'[t] = parent[t]
    BY <2>2 DEF ParentInv
  <2>4. QED
    BY <2>2, <2>3 DEF ScanInv
<1>9. ASSUME NEW c \in CPUs, NEW s \in Slots, ForkParent(c, s)
      PROVE  ScanInv'
  <2>1. /\ wait_lock = Nobody
        /\ \A t \in Slots : pc'[t] # pc[t] => pc'[t] = "fork_run"
    BY <1>9 DEF TypeOK, ForkParent, Goto
  <2>2. \A t \in Slots : pc'[t] \notin {"wait_scan", "wait_sleep"}
    BY <2>1, OneHolder DEF WaitLocked
  <2>3. QED
    BY <2>2 DEF ScanInv
<1>10. ASSUME NEW c \in CPUs, NEW s \in Slots, ForkRun(c, s)
      PROVE  ScanInv'
  BY <1>10, NullFact DEF TypeOK, ScanInv, ForkRun, On, Free, Goto, Return,
    table, locks, sched, locals
<1>11. ASSUME NEW c \in CPUs, NEW s \in Slots, ExitLock(c, s)
      PROVE  ScanInv'
  BY <1>11, NullFact DEF TypeOK, ScanInv, ExitLock, On, Goto,
    table, locks, sched, locals
<1>12. ASSUME NEW c \in CPUs, NEW s \in Slots, ExitReparent(c, s)
      PROVE  ScanInv'
  <2>1. /\ pc[s] = "exit_reparent"
        /\ \A t \in Slots : pc'[t] # pc[t] => pc'[t] \in Exiting
    BY <1>12 DEF TypeOK, ExitReparent, On, Goto, Exiting
  <2>2. \A t \in Slots : pc'[t] \notin {"wait_scan", "wait_sleep"}
    BY <2>1, OneHolder DEF WaitLocked, Exiting
  <2>3. QED
    BY <2>2 DEF ScanInv
<1>13. ASSUME NEW c \in CPUs, NEW s \in Slots, ExitWakeInit(c, s)
      PROVE  ScanInv'
  BY <1>13, NullFact DEF TypeOK, ScanInv, ExitWakeInit, On, Goto, wakeup, Free,
    table, locks, sched, locals
<1>14. ASSUME NEW c \in CPUs, NEW s \in Slots, ExitWakeup(c, s)
      PROVE  ScanInv'
  BY <1>14, NullFact DEF TypeOK, ScanInv, ExitWakeup, On, Goto, wakeup, Free,
    table, locks, sched, locals
<1>15. ASSUME NEW c \in CPUs, NEW s \in Slots, ExitZombie(c, s)
      PROVE  ScanInv'
  <2>1. /\ pc[s] = "exit_zombie"
        /\ \A t \in Slots : pc'[t] # pc[t] => pc'[t] = "none"
    BY <1>15 DEF TypeOK, ExitZombie, On, Goto
  <2>2. \A t \in Slots : pc'[t] \notin {"wait_scan", "wait_sleep"}
    BY <2>1, OneHolder DEF WaitLocked
  <2>3. QED
    BY <2>2 DEF ScanInv
<1>16. ASSUME NEW c \in CPUs, NEW s \in Slots, WaitLock(c, s)
      PROVE  ScanInv'
  <2>1. /\ wait_lock = Nobody /\ pc'[s] = "wait_scan" /\ idx'[s] = 1 /\ ~kids'[s]
        /\ \A t \in Slots \ {s} : pc'[t] = pc[t]
    BY <1>16 DEF TypeOK, WaitLock, Goto
  <2>2. \A t \in Slots \ {s} : pc'[t] \notin {"wait_scan", "wait_sleep"}
    BY <2>1, OneHolder DEF WaitLocked
  <2>3. QED
    BY <2>1, <2>2, OrderFacts DEF ScanInv
<1>17. ASSUME NEW c \in CPUs, NEW s \in Slots, WaitScan(c, s)
      PROVE  ScanInv'
  <2> DEFINE q == idx[s]
  <2>1. /\ pc[s] = "wait_scan" /\ q \in Index
        /\ \A t \in Slots : t < q /\ parent[t] = s => state[t] # "ZOMBIE"
        /\ kids[s] => \E t \in Slots : parent[t] = s
    BY <1>17 DEF TypeOK, WaitScan, On, ScanInv
  <2>2. q \in Slots
    BY <1>17, <2>1, IndexFacts DEF WaitScan, IndexInv
  <2>3. /\ pc' = pc /\ idx'[s] = q + 1
        /\ parent' = parent /\ state' = state
        /\ kids'[s] => kids[s] \/ parent[q] = s
        /\ parent[q] = s => state[q] # "ZOMBIE"
    BY <1>17 DEF TypeOK, WaitScan, table
  <2>4. \A t \in Slots \ {s} : pc[t] \notin {"wait_scan", "wait_sleep"}
    BY <2>1, OneHolder DEF WaitLocked
  <2>5. \A t \in Slots : t < q + 1 /\ parent[t] = s => state[t] # "ZOMBIE"
    BY <2>1, <2>3, OrderFacts
  <2>6. QED
    BY <2>1, <2>2, <2>3, <2>4, <2>5 DEF ScanInv
<1>18. ASSUME NEW c \in CPUs, NEW s \in Slots, WaitReap(c, s)
      PROVE  ScanInv'
  <2>1. /\ pc[s] = "wait_scan"
        /\ \A t \in Slots \ {s} : pc'[t] = pc[t]
        /\ pc'[s] = "ret"
    BY <1>18 DEF TypeOK, WaitReap, On, Return, Goto
  <2>2. \A t \in Slots : pc'[t] \notin {"wait_scan", "wait_sleep"}
    BY <2>1, OneHolder DEF WaitLocked
  <2>3. QED
    BY <2>2 DEF ScanInv
<1>19. ASSUME NEW c \in CPUs, NEW s \in Slots, WaitKilled(c, s)
      PROVE  ScanInv'
  <2>1. /\ pc[s] = "wait_scan" /\ idx[s] \in Index /\ idx[s] > NPROC
        /\ \A t \in Slots : t < idx[s] /\ parent[t] = s => state[t] # "ZOMBIE"
        /\ kids[s] => \E t \in Slots : parent[t] = s
    BY <1>19 DEF TypeOK, WaitKilled, On, ScanInv
  <2>2. /\ parent' = parent /\ state' = state
        /\ \A t \in Slots \ {s} : pc'[t] = pc[t]
        /\ \/ pc'[s] = "ret"
           \/ pc'[s] = "wait_sleep" /\ kids[s]
    BY <1>19 DEF TypeOK, WaitKilled, Return, Goto, table
  <2>3. \A t \in Slots \ {s} : pc'[t] \notin {"wait_scan", "wait_sleep"}
    BY <2>1, <2>2, OneHolder DEF WaitLocked
  <2>4. \A t \in Slots : parent[t] = s => state[t] # "ZOMBIE"
    BY <2>1, OrderFacts
  <2>5. QED
    BY <2>1, <2>2, <2>3, <2>4 DEF ScanInv
<1>20. ASSUME NEW c \in CPUs, NEW s \in Slots, WaitSleep(c, s)
      PROVE  ScanInv'
  BY <1>20, NullFact DEF TypeOK, ScanInv, WaitSleep, On, Goto, GiveUp, Free,
    table, locks, sched, locals
<1>21. ASSUME NEW c \in CPUs, NEW s \in Slots, KillScan(c, s)
      PROVE  ScanInv'
  BY <1>21, NullFact DEF TypeOK, ScanInv, KillScan, On, Free, Goto, Return,
    table, locks, sched, locals
<1>22. QED
  BY <1>1, <1>2, <1>3, <1>4, <1>5, <1>6, <1>7, <1>8, <1>9, <1>10, <1>11,
    <1>12, <1>13, <1>14, <1>15, <1>16, <1>17, <1>18, <1>19, <1>20, <1>21
    DEF Next, Thread

\* Sleepers sleep in wait().
LEMMA ChanStep ==
  ASSUME TypeOK, CpuInv, LockInv, IndexInv, ForkInv, SleepChan, Next
  PROVE  SleepChan'
<1>1. ASSUME NEW c \in CPUs, SchedSkip(c)
      PROVE  SleepChan'
  BY <1>1, NullFact DEF TypeOK, SleepChan, CpuInv, RunningGo, SchedSkip, Advance, Free,
    table, locks, sched, locals
<1>2. ASSUME NEW c \in CPUs, SchedRun(c)
      PROVE  SleepChan'
  BY <1>2, NullFact DEF TypeOK, SleepChan, CpuInv, RunningGo, SchedRun, Free, Goto,
    table, locks, sched, locals
<1>3. ASSUME NEW c \in CPUs, NEW s \in Slots, Swtch(c, s)
      PROVE  SleepChan'
  BY <1>3, NullFact DEF TypeOK, SleepChan, CpuInv, RunningGo, Swtch, Advance,
    table, locks, sched, locals
<1>4. ASSUME NEW c \in CPUs, NEW s \in Slots, Timer(c, s)
      PROVE  SleepChan'
  BY <1>4, NullFact DEF TypeOK, SleepChan, CpuInv, RunningGo, Timer, GiveUp, Free, Goto,
    table, locks, sched, locals
<1>5. ASSUME NEW c \in CPUs, NEW s \in Slots, Syscall(c, s)
      PROVE  SleepChan'
  BY <1>5, NullFact DEF TypeOK, SleepChan, CpuInv, RunningGo, Syscall, On, Free, Goto,
    table, locks, sched, locals
<1>6. ASSUME NEW c \in CPUs, NEW s \in Slots, Fault(c, s)
      PROVE  SleepChan'
  BY <1>6, NullFact DEF TypeOK, SleepChan, CpuInv, RunningGo, Fault, On, Free, Goto,
    table, locks, sched, locals
<1>7. ASSUME NEW c \in CPUs, NEW s \in Slots, UserTrapRet(c, s)
      PROVE  SleepChan'
  BY <1>7, NullFact DEF TypeOK, SleepChan, CpuInv, RunningGo, UserTrapRet, On, Free,
    Goto,
    table, locks, sched, locals
<1>8. ASSUME NEW c \in CPUs, NEW s \in Slots, ForkScan(c, s)
      PROVE  SleepChan'
  BY <1>8, NullFact DEF TypeOK, SleepChan, CpuInv, RunningGo, ForkScan, On, Free, Goto,
    Return, freeproc,
    table, locks, sched, locals
<1>9. ASSUME NEW c \in CPUs, NEW s \in Slots, ForkParent(c, s)
      PROVE  SleepChan'
  BY <1>9, NullFact DEF TypeOK, SleepChan, CpuInv, RunningGo, ForkParent, On, Goto,
    table, locks, sched, locals
<1>10. ASSUME NEW c \in CPUs, NEW s \in Slots, ForkRun(c, s)
      PROVE  SleepChan'
  BY <1>10, NullFact DEF TypeOK, SleepChan, CpuInv, RunningGo, ForkRun, On, Free, Goto,
    Return,
    table, locks, sched, locals
<1>11. ASSUME NEW c \in CPUs, NEW s \in Slots, ExitLock(c, s)
      PROVE  SleepChan'
  BY <1>11, NullFact DEF TypeOK, SleepChan, CpuInv, RunningGo, ExitLock, On, Goto,
    table, locks, sched, locals
<1>12. ASSUME NEW c \in CPUs, NEW s \in Slots, ExitReparent(c, s)
      PROVE  SleepChan'
  BY <1>12, NullFact DEF TypeOK, SleepChan, CpuInv, RunningGo, ExitReparent, On, Goto,
    ReparentDone,
    table, locks, sched, locals
<1>13. ASSUME NEW c \in CPUs, NEW s \in Slots, ExitWakeInit(c, s)
      PROVE  SleepChan'
  BY <1>13, NullFact DEF TypeOK, SleepChan, CpuInv, RunningGo, ExitWakeInit, On, Goto,
    wakeup, Free,
    table, locks, sched, locals
<1>14. ASSUME NEW c \in CPUs, NEW s \in Slots, ExitWakeup(c, s)
      PROVE  SleepChan'
  BY <1>14, NullFact DEF TypeOK, SleepChan, CpuInv, RunningGo, ExitWakeup, On, Goto,
    wakeup, Free,
    table, locks, sched, locals
<1>15. ASSUME NEW c \in CPUs, NEW s \in Slots, ExitZombie(c, s)
      PROVE  SleepChan'
  BY <1>15, NullFact DEF TypeOK, SleepChan, CpuInv, RunningGo, ExitZombie, On, Goto,
    GiveUp, Free,
    table, locks, sched, locals
<1>16. ASSUME NEW c \in CPUs, NEW s \in Slots, WaitLock(c, s)
      PROVE  SleepChan'
  BY <1>16, NullFact DEF TypeOK, SleepChan, CpuInv, RunningGo, WaitLock, On, Goto,
    table, locks, sched, locals
<1>17. ASSUME NEW c \in CPUs, NEW s \in Slots, WaitScan(c, s)
      PROVE  SleepChan'
  BY <1>17, NullFact DEF TypeOK, SleepChan, CpuInv, RunningGo, WaitScan, On, Free,
    table, locks, sched, locals
<1>18. ASSUME NEW c \in CPUs, NEW s \in Slots, WaitReap(c, s)
      PROVE  SleepChan'
  BY <1>18, NullFact DEF TypeOK, SleepChan, CpuInv, RunningGo, WaitReap, On,
    FoundZombie, Free, freeproc, Goto, Return,
    table, locks, sched, locals
<1>19. ASSUME NEW c \in CPUs, NEW s \in Slots, WaitKilled(c, s)
      PROVE  SleepChan'
  BY <1>19, NullFact DEF TypeOK, SleepChan, CpuInv, RunningGo, WaitKilled, On, Free,
    Goto, Return,
    table, locks, sched, locals
<1>20. ASSUME NEW c \in CPUs, NEW s \in Slots, WaitSleep(c, s)
      PROVE  SleepChan'
  BY <1>20, NullFact DEF TypeOK, SleepChan, CpuInv, RunningGo, WaitSleep, On, Goto,
    GiveUp, Free,
    table, locks, sched, locals
<1>21. ASSUME NEW c \in CPUs, NEW s \in Slots, KillScan(c, s)
      PROVE  SleepChan'
  BY <1>21, NullFact DEF TypeOK, SleepChan, CpuInv, RunningGo, KillScan, On, Free,
    Goto, Return,
    table, locks, sched, locals
<1>22. QED
  BY <1>1, <1>2, <1>3, <1>4, <1>5, <1>6, <1>7, <1>8, <1>9, <1>10, <1>11,
    <1>12, <1>13, <1>14, <1>15, <1>16, <1>17, <1>18, <1>19, <1>20, <1>21
    DEF Next, Thread

\* No sleeper is left without a wakeup.
LEMMA SleepStep ==
  ASSUME TypeOK, CpuInv, LockInv, IndexInv, ForkInv, ParentInv, ExitInv, ScanInv,
  SleepChan, SleepInv, Next
  PROVE  SleepInv'
<1>1. ASSUME NEW c \in CPUs, SchedSkip(c)
      PROVE  SleepInv'
  BY <1>1, NullFact DEF TypeOK, SleepInv, SchedSkip, Advance, Free,
    table, locks, sched, locals
<1>2. ASSUME NEW c \in CPUs, SchedRun(c)
      PROVE  SleepInv'
  BY <1>2, NullFact DEF TypeOK, SleepInv, SchedRun, Free, Goto,
    table, locks, sched, locals
<1>3. ASSUME NEW c \in CPUs, NEW s \in Slots, Swtch(c, s)
      PROVE  SleepInv'
  BY <1>3, NullFact DEF TypeOK, SleepInv, Swtch, Advance,
    table, locks, sched, locals
<1>4. ASSUME NEW c \in CPUs, NEW s \in Slots, Timer(c, s)
      PROVE  SleepInv'
  BY <1>4, NullFact DEF TypeOK, SleepInv, Timer, GiveUp, Free, Goto,
    table, locks, sched, locals
<1>5. ASSUME NEW c \in CPUs, NEW s \in Slots, Syscall(c, s)
      PROVE  SleepInv'
  BY <1>5, NullFact DEF TypeOK, SleepInv, Syscall, On, Free, Goto,
    table, locks, sched, locals
<1>6. ASSUME NEW c \in CPUs, NEW s \in Slots, Fault(c, s)
      PROVE  SleepInv'
  BY <1>6, NullFact DEF TypeOK, SleepInv, Fault, On, Free, Goto,
    table, locks, sched, locals
<1>7. ASSUME NEW c \in CPUs, NEW s \in Slots, UserTrapRet(c, s)
      PROVE  SleepInv'
  BY <1>7, NullFact DEF TypeOK, SleepInv, UserTrapRet, On, Free, Goto,
    table, locks, sched, locals
<1>8. ASSUME NEW c \in CPUs, NEW s \in Slots, ForkScan(c, s)
      PROVE  SleepInv'
  <2> DEFINE q == idx[s]
  <2>1. q \in Slots /\ pc[s] = "fork_scan"
    BY <1>8 DEF ForkScan, On, IndexInv
  <2>2. \A t \in Slots : pc[t] = "exit_wakeinit" => t # s /\ state[t] # "UNUSED"
    BY <2>1 DEF ForkInv, Dead
  <2>3. /\ \A t \in Slots : state'[t] # state[t] => state'[t] = "USED"
        /\ \A t \in Slots : pc'[t] # pc[t] => t = s \/ state[t] = "UNUSED"
        /\ \A t \in Slots \ {s} : widx'[t] = widx[t]
        /\ \A t \in Slots : parent'[t] # parent[t] => parent'[t] = Null /\ state[t] = "UNUSED"
    BY <1>8, <2>1 DEF TypeOK, ForkScan, Return, Goto, freeproc, table
  <2>4. \A t \in Slots : parent'[t] = parent[t]
    BY <2>3 DEF ParentInv
  <2>5. QED
    BY <2>2, <2>3, <2>4 DEF SleepInv
<1>9. ASSUME NEW c \in CPUs, NEW s \in Slots, ForkParent(c, s)
      PROVE  SleepInv'
  <2> DEFINE q == arg[s]
  <2>1. /\ q \in Slots /\ state[q] = "USED" /\ parent[q] = Null
        /\ state[s] = "RUNNING"
    BY <1>9 DEF ForkParent, On, ForkInv, CpuInv, RunningGo
  <2>2. \A t \in Slots : pc[t] # "exit_wakeinit"
    BY <1>9, OneHolder DEF ForkParent, WaitLocked
  <2>3. /\ state' = state
        /\ \A t \in Slots : parent'[t] = IF t = q THEN s ELSE parent[t]
    BY <1>9 DEF TypeOK, ForkParent
  <2>4. QED
    BY <2>1, <2>2, <2>3, NullFact DEF SleepInv
<1>10. ASSUME NEW c \in CPUs, NEW s \in Slots, ForkRun(c, s)
      PROVE  SleepInv'
  BY <1>10, NullFact DEF TypeOK, SleepInv, ForkRun, On, Free, Goto, Return,
    table, locks, sched, locals
<1>11. ASSUME NEW c \in CPUs, NEW s \in Slots, ExitLock(c, s)
      PROVE  SleepInv'
  BY <1>11, NullFact DEF TypeOK, SleepInv, ExitLock, On, Goto,
    table, locks, sched, locals
<1>12. ASSUME NEW c \in CPUs, NEW s \in Slots, ExitReparent(c, s)
      PROVE  SleepInv'
  <2> DEFINE q == idx[s]
  <2>1. pc[s] = "exit_reparent" /\ state[s] = "RUNNING"
    BY <1>12, ExitParent DEF ExitReparent, On, Exiting
  <2>2. \A t \in Slots : pc[t] # "exit_wakeinit"
    BY <2>1, OneHolder DEF WaitLocked
  <2>3. \A t, u \in Slots : state[t] = "SLEEPING" /\ parent[u] = t => state[u] # "ZOMBIE"
    BY <2>2 DEF SleepInv
  <2>4. CASE ~ReparentDone(q) /\ parent[q] = s
    <3>1. /\ pc'[s] = "exit_wakeinit" /\ widx'[s] = 1 /\ state' = state
          /\ \A t \in Slots : parent'[t] = IF t = q THEN initproc ELSE parent[t]
      BY <1>12, <2>4 DEF TypeOK, ExitReparent, Goto
    <3>2. QED
      BY <2>1, <2>3, <2>4, <3>1 DEF SleepInv
  <2>5. CASE ~(~ReparentDone(q) /\ parent[q] = s)
    <3>1. state' = state /\ parent' = parent
      BY <1>12, <2>5 DEF ExitReparent
    <3>2. QED
      BY <2>3, <3>1 DEF SleepInv
  <2>6. QED
    BY <2>4, <2>5
<1>13. ASSUME NEW c \in CPUs, NEW s \in Slots, ExitWakeInit(c, s)
      PROVE  SleepInv'
  <2> DEFINE q == widx[s]
  <2>1. /\ pc[s] = "exit_wakeinit" /\ s # initproc /\ q \in Slots
        /\ initproc \in Slots
    BY <1>13, IndexFacts DEF ExitWakeInit, On, ExitInv, Exiting, IndexInv, initproc
  <2>2. \A t \in Slots : pc[t] = "exit_wakeinit" => t = s
    BY <2>1, OneHolder DEF WaitLocked
  <2>3. /\ parent' = parent
        /\ \A t \in Slots : state'[t] # state[t] => state'[t] = "RUNNABLE"
        /\ q # s /\ chan[q] = initproc => state'[q] # "SLEEPING"
    BY <1>13, <2>1 DEF TypeOK, ExitWakeInit, wakeup
  <2>4. CASE q = 1
    <3>1. state'[initproc] # "SLEEPING"
      BY <2>1, <2>3, <2>4 DEF SleepChan, initproc
    <3>2. QED
      BY <2>3, <3>1 DEF SleepInv
  <2>5. CASE q # 1
    <3>1. \A t, u \in Slots : state[t] = "SLEEPING" /\ parent[u] = t => state[u] # "ZOMBIE"
      BY <2>2, <2>5 DEF SleepInv
    <3>2. QED
      BY <2>3, <3>1 DEF SleepInv
  <2>6. QED
    BY <2>4, <2>5
<1>14. ASSUME NEW c \in CPUs, NEW s \in Slots, ExitWakeup(c, s)
      PROVE  SleepInv'
  BY <1>14, NullFact DEF TypeOK, SleepInv, ExitWakeup, On, Goto, wakeup, Free,
    table, locks, sched, locals
<1>15. ASSUME NEW c \in CPUs, NEW s \in Slots, ExitZombie(c, s)
      PROVE  SleepInv'
  <2>1. /\ pc[s] = "exit_zombie" /\ state[s] = "RUNNING"
        /\ parent[s] \in Slots /\ state[parent[s]] # "SLEEPING"
    BY <1>15, ExitParent DEF ExitZombie, On, Exiting, ExitInv
  <2>2. \A t \in Slots : pc[t] # "exit_wakeinit"
    BY <2>1, OneHolder DEF WaitLocked
  <2>3. /\ parent' = parent
        /\ \A t \in Slots : state'[t] = IF t = s THEN "ZOMBIE" ELSE state[t]
    BY <1>15 DEF TypeOK, ExitZombie, GiveUp
  <2>4. QED
    BY <2>1, <2>2, <2>3 DEF SleepInv
<1>16. ASSUME NEW c \in CPUs, NEW s \in Slots, WaitLock(c, s)
      PROVE  SleepInv'
  BY <1>16, NullFact DEF TypeOK, SleepInv, WaitLock, On, Goto,
    table, locks, sched, locals
<1>17. ASSUME NEW c \in CPUs, NEW s \in Slots, WaitScan(c, s)
      PROVE  SleepInv'
  BY <1>17, NullFact DEF TypeOK, SleepInv, WaitScan, On, Free,
    table, locks, sched, locals
<1>18. ASSUME NEW c \in CPUs, NEW s \in Slots, WaitReap(c, s)
      PROVE  SleepInv'
  <2> DEFINE q == idx[s]
  <2>1. pc[s] = "wait_scan" /\ state[s] = "RUNNING"
    BY <1>18 DEF WaitReap, On, CpuInv, RunningGo
  <2>2. \A t \in Slots : pc[t] # "exit_wakeinit"
    BY <2>1, OneHolder DEF WaitLocked
  <2>3. /\ parent[q] = s
        /\ \A t \in Slots : parent'[t] # parent[t] => t = q /\ parent'[t] = Null
        /\ \A t \in Slots : state'[t] # state[t] => state'[t] = "UNUSED"
    BY <1>18 DEF TypeOK, WaitReap, FoundZombie, freeproc, table
  <2>4. QED
    BY <2>1, <2>2, <2>3, NullFact DEF SleepInv
<1>19. ASSUME NEW c \in CPUs, NEW s \in Slots, WaitKilled(c, s)
      PROVE  SleepInv'
  BY <1>19, NullFact DEF TypeOK, SleepInv, WaitKilled, On, Free, Goto, Return,
    table, locks, sched, locals
<1>20. ASSUME NEW c \in CPUs, NEW s \in Slots, WaitSleep(c, s)
      PROVE  SleepInv'
  <2>1. /\ pc[s] = "wait_sleep"
        /\ \A q \in Slots : parent[q] = s => state[q] # "ZOMBIE"
        /\ \E q \in Slots : parent[q] = s
    BY <1>20 DEF WaitSleep, On, ScanInv
  <2>2. \A t \in Slots : pc[t] # "exit_wakeinit"
    BY <2>1, OneHolder DEF WaitLocked
  <2>3. /\ parent' = parent
        /\ \A t \in Slots : state'[t] = IF t = s THEN "SLEEPING" ELSE state[t]
    BY <1>20 DEF TypeOK, WaitSleep, GiveUp
  <2>4. QED
    BY <2>1, <2>2, <2>3 DEF SleepInv
<1>21. ASSUME NEW c \in CPUs, NEW s \in Slots, KillScan(c, s)
      PROVE  SleepInv'
  BY <1>21, NullFact DEF TypeOK, SleepInv, KillScan, On, Free, Goto, Return,
    table, locks, sched, locals
<1>22. QED
  BY <1>1, <1>2, <1>3, <1>4, <1>5, <1>6, <1>7, <1>8, <1>9, <1>10, <1>11,
    <1>12, <1>13, <1>14, <1>15, <1>16, <1>17, <1>18, <1>19, <1>20, <1>21
    DEF Next, Thread

-----------------------------------------------------------------------------
(* The invariant holds of every reachable state.                           *)

\* The table that procinit() and userinit() leave behind satisfies it.
LEMMA InitIInv == Init => IInv
<1> SUFFICES ASSUME Init PROVE IInv
  OBVIOUS
<1>1. /\ initproc \in Slots /\ 1 \in Slots /\ 0 \in Index /\ 0 \in Nat /\ 1 \in Nat /\ 2 \in Nat
  BY IndexFacts DEF initproc
<1>2. TypeOK
  BY <1>1 DEF Init, TypeOK, ProcState, Context, Unlocked
<1>3. CpuInv
  BY DEF Init, CpuInv, CpuSaved, LockSwitch, LockOnCpu, RunningGo, SwitchAlive,
    StackExclusive
<1>4. LockInv /\ IndexInv
  BY DEF Init, LockInv, IndexInv, WaitLocked
<1>5. ForkInv /\ ParentInv
  BY <1>1 DEF Init, ForkInv, ParentInv, Dead
<1>6. ExitInv /\ ScanInv /\ SleepChan /\ SleepInv
  BY DEF Init, ExitInv, ScanInv, SleepChan, SleepInv, Exiting
<1>7. QED
  BY <1>2, <1>3, <1>4, <1>5, <1>6 DEF IInv

\* A step that changes nothing keeps every part of it.
LEMMA StutterIInv ==
  ASSUME IInv, UNCHANGED vars
  PROVE  IInv'
<1>1. UNCHANGED <<state, chan, killed, pid, parent, nextpid, plock, wait_lock, cproc,
                  sidx, pc, sw, idx, widx, arg, kids>>
  BY DEF vars, table, locks, sched, locals
<1>2. TypeOK' /\ LockInv' /\ IndexInv' /\ SleepChan'
  BY <1>1 DEF IInv, TypeOK, LockInv, IndexInv, SleepChan
<1>3. CpuInv'
  BY <1>1 DEF IInv, CpuInv, CpuSaved, LockSwitch, LockOnCpu, RunningGo, SwitchAlive,
    StackExclusive
<1>4. ForkInv' /\ ParentInv'
  BY <1>1 DEF IInv, ForkInv, ParentInv
<1>5. ExitInv' /\ ScanInv'
  BY <1>1 DEF IInv, ExitInv, ScanInv
<1>6. SleepInv'
  BY <1>1 DEF IInv, SleepInv
<1>7. QED
  BY <1>2, <1>3, <1>4, <1>5, <1>6 DEF IInv

\* Every step of the kernel keeps it: IInv is inductive.
LEMMA NextIInv ==
  ASSUME IInv, [Next]_vars
  PROVE  IInv'
<1>1. CASE Next
  <2>1. /\ TypeOK /\ CpuInv /\ LockInv /\ IndexInv /\ ForkInv
        /\ ParentInv /\ ExitInv /\ ScanInv /\ SleepChan /\ SleepInv
    BY DEF IInv
  <2>2. TypeOK' /\ IndexInv' /\ CpuInv' /\ LockInv' /\ ForkInv'
    BY <1>1, <2>1, TypeStep, IndexStep, CpuStep, LockStep, ForkStep
  <2>3. ParentInv' /\ ExitInv' /\ ScanInv' /\ SleepChan' /\ SleepInv'
    BY <1>1, <2>1, ParentStep, ExitStep, ScanStep, ChanStep, SleepStep
  <2>4. QED
    BY <2>2, <2>3 DEF IInv
<1>2. CASE UNCHANGED vars
  BY <1>2, StutterIInv
<1>3. QED
  BY <1>1, <1>2

\* The inductive invariant holds in every behaviour of the process table.
THEOREM Invariance == Spec => []IInv
<1>1. Init => IInv
  BY InitIInv
<1>2. IInv /\ [Next]_vars => IInv'
  BY NextIInv
<1>3. QED
  BY <1>1, <1>2, PTL DEF Spec

-----------------------------------------------------------------------------
(* The properties.                                                         *)

\* Every variable keeps its type; in particular the loops of fork, kill, exit,
\* wait and scheduler() never index proc[] outside its NPROC slots.
THEOREM TypeCorrect == Spec => []TypeOK
<1>1. IInv => TypeOK
  BY DEF IInv
<1>2. QED
  BY <1>1, Invariance, PTL

\* No two CPUs run on the same kernel stack, whatever NPROC and NCPU: the
\* hand-over of p->lock across swtch() in sched() and scheduler() is sound.
THEOREM StacksExclusive == Spec => []StackExclusive
<1>1. IInv => StackExclusive
  BY DEF IInv, CpuInv
<1>2. QED
  BY <1>1, Invariance, PTL

\* wait() frees and allocproc() hands out only slots whose thread has left its
\* kernel stack.
THEOREM FreedSlotsOffCpu == Spec => []FreedOffCpu
<1>1. IInv => FreedOffCpu
  <2> SUFFICES ASSUME IInv, NEW s \in Slots, state[s] \in {"UNUSED", "USED"}
               PROVE  sw[s] = "saved" /\ \A c \in CPUs : cproc[c] # s
    BY DEF FreedOffCpu
  <2>1. sw[s] = "saved"
    BY DEF IInv, TypeOK, Context, CpuInv, RunningGo, SwitchAlive
  <2>2. \A c \in CPUs : cproc[c] # s
    BY <2>1, NullFact DEF IInv, CpuInv, CpuSaved
  <2>3. QED
    BY <2>1, <2>2
<1>2. QED
  BY <1>1, Invariance, PTL

\* The conditions sched() panics about never arise: its caller holds p->lock,
\* no other lock, and is not RUNNING any more.
THEOREM SchedNeverPanics == Spec => []SchedLocks
<1>1. IInv => SchedLocks
  <2> SUFFICES ASSUME IInv, NEW c \in CPUs, NEW s \in Slots,
                      cproc[c] = s, sw[s] = "switch"
               PROVE  plock[s] = c /\ wait_lock # c /\ state[s] # "RUNNING"
    BY DEF SchedLocks
  <2>1. plock[s] \in CPUs /\ cproc[plock[s]] = s
    BY DEF IInv, TypeOK, CpuInv, LockSwitch, LockOnCpu
  <2>2. plock[s] = c
    BY <2>1, NullFact DEF IInv, CpuInv, StackExclusive
  <2>3. state[s] # "RUNNING"
    BY DEF IInv, CpuInv, RunningGo
  <2>4. wait_lock # c
    BY NullFact DEF IInv, LockInv
  <2>5. QED
    BY <2>2, <2>3, <2>4
<1>2. QED
  BY <1>1, Invariance, PTL

\* No wakeup of exit() or reparent() is lost, for any number of processes: while
\* wait_lock is free, no parent sleeps in wait() over a ZOMBIE child.
THEOREM WakeupsNotLost == Spec => []NoLostWakeup
<1>1. IInv => NoLostWakeup
  <2> SUFFICES ASSUME IInv, wait_lock = Nobody PROVE NoLostWakeup
    BY DEF NoLostWakeup
  <2>1. \A h \in Slots : pc[h] # "exit_wakeinit"
    BY OneHolder DEF IInv, WaitLocked
  <2>2. QED
    BY <2>1 DEF IInv, SleepInv, NoLostWakeup
<1>2. QED
  BY <1>1, Invariance, PTL

\* Every process always has a parent that can still wait for it.
THEOREM OrphansHaveParent == Spec => []OrphansAdopted
<1>1. IInv => OrphansAdopted
  <2> SUFFICES ASSUME IInv, NEW s \in Slots \ {initproc},
                      state[s] \notin {"UNUSED", "USED"}
               PROVE  /\ parent[s] \in Slots
                      /\ state[parent[s]] \in {"SLEEPING", "RUNNABLE", "RUNNING"}
    BY DEF OrphansAdopted
  <2>1. parent[s] \in Slots /\ state[parent[s]] \notin Dead
    BY DEF IInv, TypeOK, ParentInv
  <2>2. state[parent[s]] \in ProcState
    BY <2>1 DEF IInv, TypeOK
  <2>3. QED
    BY <2>1, <2>2 DEF Dead, ProcState
<1>2. QED
  BY <1>1, Invariance, PTL

-----------------------------------------------------------------------------
(* Proc implements the tree of processes of ProcTree.                      *)

\* A step that no observer of the tree can tell from a stutter: no parent
\* changes, and nobody becomes or stops being a zombie.
Quiet ==
  \A t \in Slots :
    /\ parent'[t] = parent[t]
    /\ pc'[t] \in Exiting <=> pc[t] \in Exiting
    /\ state'[t] = "ZOMBIE" <=> state[t] = "ZOMBIE"

\* A quiet step is a stutter of the tree.
LEMMA TreeFrame ==
  ASSUME Quiet
  PROVE  UNCHANGED Tree!treevars
<1>1. TreeStatus' = TreeStatus
  BY DEF Quiet, TreeStatus
<1>2. TreeUp' = TreeUp
  BY DEF Quiet, TreeUp
<1>3. QED
  BY <1>1, <1>2 DEF Tree!treevars

\* A process that executes and is not inside exit() is live.
LEMMA Live ==
  ASSUME IInv, NEW s \in Slots, sw[s] = "go", pc[s] \notin Exiting
  PROVE  TreeStatus[s] = "live"
<1>1. state[s] = "RUNNING"
  BY DEF IInv, CpuInv, RunningGo
<1>2. s = initproc \/ parent[s] # Null
  BY <1>1 DEF IInv, ParentInv
<1>3. QED
  BY <1>1, <1>2 DEF TreeStatus

\* The table starts as the tree that holds init alone.
LEMMA TreeInitStep ==
  ASSUME Init
  PROVE  Tree!TreeInit
<1>1. TreeStatus = [s \in Slots |-> IF s = initproc THEN "live" ELSE "free"]
  BY DEF Init, TreeStatus, Exiting
<1>2. TreeUp = [s \in Slots |-> 0]
  BY NullFact DEF Init, TreeUp, Null
<1>3. QED
  BY <1>1, <1>2 DEF Tree!TreeInit

\* Every step of the kernel is a step of the tree or a stutter.
LEMMA TreeStep ==
  ASSUME IInv, Next
  PROVE  [Tree!TreeNext]_(Tree!treevars)
<1>1. ASSUME NEW c \in CPUs, SchedSkip(c)
      PROVE  [Tree!TreeNext]_(Tree!treevars)
  <2>1. Quiet
    BY <1>1 DEF Quiet, Exiting, IInv, TypeOK, CpuInv, RunningGo, IndexInv, ForkInv,
      SchedSkip, Advance, Free,
      table, locks, sched, locals
  <2>2. QED
    BY <2>1, TreeFrame
<1>2. ASSUME NEW c \in CPUs, SchedRun(c)
      PROVE  [Tree!TreeNext]_(Tree!treevars)
  <2>1. Quiet
    BY <1>2 DEF Quiet, Exiting, IInv, TypeOK, CpuInv, RunningGo, IndexInv, ForkInv,
      SchedRun, Free, Goto,
      table, locks, sched, locals
  <2>2. QED
    BY <2>1, TreeFrame
<1>3. ASSUME NEW c \in CPUs, NEW s \in Slots, Swtch(c, s)
      PROVE  [Tree!TreeNext]_(Tree!treevars)
  <2>1. Quiet
    BY <1>3 DEF Quiet, Exiting, IInv, TypeOK, CpuInv, RunningGo, IndexInv, ForkInv,
      Swtch, Advance,
      table, locks, sched, locals
  <2>2. QED
    BY <2>1, TreeFrame
<1>4. ASSUME NEW c \in CPUs, NEW s \in Slots, Timer(c, s)
      PROVE  [Tree!TreeNext]_(Tree!treevars)
  <2>1. Quiet
    BY <1>4 DEF Quiet, Exiting, IInv, TypeOK, CpuInv, RunningGo, IndexInv, ForkInv,
      Timer, GiveUp, Free, Goto,
      table, locks, sched, locals
  <2>2. QED
    BY <2>1, TreeFrame
<1>5. ASSUME NEW c \in CPUs, NEW s \in Slots, Syscall(c, s)
      PROVE  [Tree!TreeNext]_(Tree!treevars)
  <2>1. Quiet
    BY <1>5 DEF Quiet, Exiting, IInv, TypeOK, CpuInv, RunningGo, IndexInv, ForkInv,
      Syscall, On, Free, Goto,
      table, locks, sched, locals
  <2>2. QED
    BY <2>1, TreeFrame
<1>6. ASSUME NEW c \in CPUs, NEW s \in Slots, Fault(c, s)
      PROVE  [Tree!TreeNext]_(Tree!treevars)
  <2>1. Quiet
    BY <1>6 DEF Quiet, Exiting, IInv, TypeOK, CpuInv, RunningGo, IndexInv, ForkInv,
      Fault, On, Free, Goto,
      table, locks, sched, locals
  <2>2. QED
    BY <2>1, TreeFrame
<1>7. ASSUME NEW c \in CPUs, NEW s \in Slots, UserTrapRet(c, s)
      PROVE  [Tree!TreeNext]_(Tree!treevars)
  <2>1. Quiet
    BY <1>7 DEF Quiet, Exiting, IInv, TypeOK, CpuInv, RunningGo, IndexInv, ForkInv,
      UserTrapRet, On, Free, Goto,
      table, locks, sched, locals
  <2>2. QED
    BY <2>1, TreeFrame
<1>8. ASSUME NEW c \in CPUs, NEW s \in Slots, ForkScan(c, s)
      PROVE  [Tree!TreeNext]_(Tree!treevars)
  <2> DEFINE q == idx[s]
  <2>1. q \in Slots /\ pc[s] = "fork_scan"
    BY <1>8 DEF ForkScan, On, IInv, IndexInv
  <2>2. \A t \in Slots : state[t] = "UNUSED" => parent[t] = Null /\ pc[t] \notin Exiting
    BY DEF IInv, ForkInv, ParentInv, Dead, Exiting
  <2>3. /\ \A t \in Slots : parent'[t] # parent[t] => state[t] = "UNUSED" /\ parent'[t] = Null
        /\ \A t \in Slots : pc'[t] # pc[t] =>
             pc'[t] \in {"ret", "fork_parent", "user"} /\ (t = s \/ state[t] = "UNUSED")
        /\ \A t \in Slots : state'[t] # state[t] => state'[t] = "USED" /\ state[t] = "UNUSED"
    BY <1>8, <2>1 DEF IInv, TypeOK, ForkScan, Return, Goto, freeproc, table
  <2>4. Quiet
    BY <2>1, <2>2, <2>3 DEF Quiet, Exiting
  <2>5. QED
    BY <2>4, TreeFrame
<1>9. ASSUME NEW c \in CPUs, NEW s \in Slots, ForkParent(c, s)
      PROVE  [Tree!TreeNext]_(Tree!treevars)
  <2> DEFINE q == arg[s]
  <2>1. /\ q \in Slots /\ state[q] = "USED" /\ parent[q] = Null /\ q # initproc
        /\ pc[q] \notin Exiting /\ pc[s] = "fork_parent" /\ wait_lock = Nobody
    BY <1>9 DEF ForkParent, On, IInv, ForkInv, ParentInv, Dead, Exiting
  <2>2. TreeStatus[s] = "live"
    BY <1>9, <2>1, Live DEF ForkParent, On, Exiting
  <2>3. \A t \in Slots : pc[t] \notin Exiting
    BY <2>1, OneHolder DEF IInv, Exiting, WaitLocked
  <2>4. /\ state' = state
        /\ \A t \in Slots : parent'[t] = IF t = q THEN s ELSE parent[t]
        /\ \A t \in Slots : pc'[t] # pc[t] => pc'[t] = "fork_run"
    BY <1>9 DEF IInv, TypeOK, ForkParent, Goto
  <2>5. \A t \in Slots : pc'[t] \notin Exiting
    BY <2>3, <2>4 DEF Exiting
  <2>6. TreeStatus[q] = "free"
    BY <2>1 DEF TreeStatus
  <2>7. TreeStatus' = [TreeStatus EXCEPT ![q] = "live"]
    BY <2>1, <2>3, <2>4, <2>5, NullFact DEF TreeStatus
  <2>8. TreeUp' = [TreeUp EXCEPT ![q] = s]
    BY <2>1, <2>3, <2>4, <2>5 DEF TreeUp
  <2>9. QED
    BY <2>1, <2>2, <2>6, <2>7, <2>8 DEF Tree!Fork, Tree!TreeNext
<1>10. ASSUME NEW c \in CPUs, NEW s \in Slots, ForkRun(c, s)
      PROVE  [Tree!TreeNext]_(Tree!treevars)
  <2>1. Quiet
    BY <1>10 DEF Quiet, Exiting, IInv, TypeOK, CpuInv, RunningGo, IndexInv, ForkInv,
      ForkRun, On, Free, Goto, Return,
      table, locks, sched, locals
  <2>2. QED
    BY <2>1, TreeFrame
<1>11. ASSUME NEW c \in CPUs, NEW s \in Slots, ExitLock(c, s)
      PROVE  [Tree!TreeNext]_(Tree!treevars)
  <2>1. s # initproc /\ pc[s] = "exit" /\ wait_lock = Nobody
    BY <1>11 DEF ExitLock, On
  <2>2. TreeStatus[s] = "live"
    BY <1>11, <2>1, Live DEF ExitLock, On, Exiting
  <2>3. \A t \in Slots : pc[t] \notin Exiting
    BY <2>1, OneHolder DEF IInv, Exiting, WaitLocked
  <2>4. /\ state' = state /\ parent' = parent
        /\ \A t \in Slots : pc'[t] = IF t = s THEN "exit_reparent" ELSE pc[t]
    BY <1>11 DEF IInv, TypeOK, ExitLock, Goto, table
  <2>5. TreeStatus' = [TreeStatus EXCEPT ![s] = "zombie"]
    BY <2>3, <2>4 DEF TreeStatus, Exiting
  <2>6. TreeUp' = [q \in Slots |-> IF TreeUp[q] = s THEN initproc ELSE TreeUp[q]]
    BY <2>3, <2>4 DEF TreeUp, Exiting
  <2>7. QED
    BY <2>1, <2>2, <2>5, <2>6 DEF Tree!Exit, Tree!TreeNext
<1>12. ASSUME NEW c \in CPUs, NEW s \in Slots, ExitReparent(c, s)
      PROVE  [Tree!TreeNext]_(Tree!treevars)
  <2>1. /\ pc[s] = "exit_reparent" /\ s # initproc /\ pc[initproc] \notin Exiting
        /\ initproc \in Slots
    BY <1>12, IndexFacts DEF ExitReparent, On, IInv, ExitInv, Exiting, initproc
  <2>2. /\ state' = state
        /\ \A t \in Slots : pc'[t] # pc[t] => t = s /\ pc'[t] \in Exiting
        /\ \A t \in Slots : parent'[t] # parent[t] => parent[t] = s /\ parent'[t] = initproc
    BY <1>12 DEF IInv, TypeOK, ExitReparent, Goto, Exiting
  <2>3. \A t \in Slots : pc'[t] \in Exiting <=> pc[t] \in Exiting
    BY <2>1, <2>2 DEF Exiting
  <2>4. TreeStatus' = TreeStatus
    BY <2>1, <2>2, <2>3, NullFact DEF TreeStatus
  <2>5. TreeUp' = TreeUp
    BY <2>1, <2>2, <2>3 DEF TreeUp, Exiting
  <2>6. QED
    BY <2>4, <2>5 DEF Tree!treevars
<1>13. ASSUME NEW c \in CPUs, NEW s \in Slots, ExitWakeInit(c, s)
      PROVE  [Tree!TreeNext]_(Tree!treevars)
  <2>1. Quiet
    BY <1>13 DEF Quiet, Exiting, IInv, TypeOK, CpuInv, RunningGo, IndexInv, ForkInv,
      ExitWakeInit, On, Goto, wakeup, Free,
      table, locks, sched, locals
  <2>2. QED
    BY <2>1, TreeFrame
<1>14. ASSUME NEW c \in CPUs, NEW s \in Slots, ExitWakeup(c, s)
      PROVE  [Tree!TreeNext]_(Tree!treevars)
  <2>1. Quiet
    BY <1>14 DEF Quiet, Exiting, IInv, TypeOK, CpuInv, RunningGo, IndexInv, ForkInv,
      ExitWakeup, On, Goto, wakeup, Free,
      table, locks, sched, locals
  <2>2. QED
    BY <2>1, TreeFrame
<1>15. ASSUME NEW c \in CPUs, NEW s \in Slots, ExitZombie(c, s)
      PROVE  [Tree!TreeNext]_(Tree!treevars)
  <2>1. pc[s] = "exit_zombie" /\ \A t \in Slots : parent[t] # s
    BY <1>15 DEF ExitZombie, On, IInv, ExitInv
  <2>2. /\ parent' = parent
        /\ \A t \in Slots : state'[t] = IF t = s THEN "ZOMBIE" ELSE state[t]
        /\ \A t \in Slots : pc'[t] = IF t = s THEN "none" ELSE pc[t]
    BY <1>15 DEF IInv, TypeOK, ExitZombie, GiveUp, Goto
  <2>3. TreeStatus' = TreeStatus
    BY <2>1, <2>2 DEF TreeStatus, Exiting
  <2>4. TreeUp' = TreeUp
    BY <2>1, <2>2 DEF TreeUp
  <2>5. QED
    BY <2>3, <2>4 DEF Tree!treevars
<1>16. ASSUME NEW c \in CPUs, NEW s \in Slots, WaitLock(c, s)
      PROVE  [Tree!TreeNext]_(Tree!treevars)
  <2>1. Quiet
    BY <1>16 DEF Quiet, Exiting, IInv, TypeOK, CpuInv, RunningGo, IndexInv, ForkInv,
      WaitLock, On, Goto,
      table, locks, sched, locals
  <2>2. QED
    BY <2>1, TreeFrame
<1>17. ASSUME NEW c \in CPUs, NEW s \in Slots, WaitScan(c, s)
      PROVE  [Tree!TreeNext]_(Tree!treevars)
  <2>1. Quiet
    BY <1>17 DEF Quiet, Exiting, IInv, TypeOK, CpuInv, RunningGo, IndexInv, ForkInv,
      WaitScan, On, Free,
      table, locks, sched, locals
  <2>2. QED
    BY <2>1, TreeFrame
<1>18. ASSUME NEW c \in CPUs, NEW s \in Slots, WaitReap(c, s)
      PROVE  [Tree!TreeNext]_(Tree!treevars)
  <2> DEFINE q == idx[s]
  <2>1. /\ pc[s] = "wait_scan" /\ q \in Slots /\ parent[q] = s /\ state[q] = "ZOMBIE"
    <3>1. q \in Index /\ q # 0 /\ q <= NPROC
      BY <1>18 DEF WaitReap, On, IInv, TypeOK, IndexInv
    <3>2. QED
      BY <1>18, <3>1, IndexFacts DEF WaitReap, On, FoundZombie
  <2>2. /\ TreeStatus[s] = "live" /\ TreeStatus[q] = "zombie" /\ TreeUp[q] = s
    <3>1. TreeStatus[s] = "live"
      BY <1>18, <2>1, Live DEF WaitReap, On, Exiting
    <3>2. QED
      BY <2>1, <3>1 DEF TreeStatus, TreeUp, Exiting
  <2>3. q # initproc /\ pc[q] \notin Exiting
    BY <2>1 DEF IInv, ForkInv, ParentInv, Dead, Exiting
  <2>4. \A t \in Slots : pc'[t] \in Exiting <=> pc[t] \in Exiting
    BY <1>18, <2>1 DEF IInv, TypeOK, WaitReap, Return, Goto, Exiting
  <2>5. CASE freeproc(q)
    <3>1. /\ \A t \in Slots : state'[t] = IF t = q THEN "UNUSED" ELSE state[t]
          /\ \A t \in Slots : parent'[t] = IF t = q THEN Null ELSE parent[t]
      BY <2>5 DEF IInv, TypeOK, freeproc
    <3>2. TreeStatus' = [TreeStatus EXCEPT ![q] = "free"]
      <4>1. \A t \in Slots : TreeStatus'[t] = IF t = q THEN "free" ELSE TreeStatus[t]
        BY <2>3, <2>4, <3>1 DEF TreeStatus
      <4>2. QED
        BY <4>1 DEF TreeStatus
    <3>3. TreeUp' = [TreeUp EXCEPT ![q] = 0]
      BY <2>4, <3>1, NullFact DEF TreeUp, Null
    <3>4. QED
      BY <2>1, <2>2, <3>2, <3>3 DEF Tree!Reap, Tree!TreeNext
  <2>6. CASE UNCHANGED table
    <3>1. Quiet
      BY <2>4, <2>6 DEF Quiet, table
    <3>2. QED
      BY <3>1, TreeFrame
  <2>7. QED
    BY <1>18, <2>5, <2>6 DEF WaitReap
<1>19. ASSUME NEW c \in CPUs, NEW s \in Slots, WaitKilled(c, s)
      PROVE  [Tree!TreeNext]_(Tree!treevars)
  <2>1. Quiet
    BY <1>19 DEF Quiet, Exiting, IInv, TypeOK, CpuInv, RunningGo, IndexInv, ForkInv,
      WaitKilled, On, Free, Goto, Return,
      table, locks, sched, locals
  <2>2. QED
    BY <2>1, TreeFrame
<1>20. ASSUME NEW c \in CPUs, NEW s \in Slots, WaitSleep(c, s)
      PROVE  [Tree!TreeNext]_(Tree!treevars)
  <2>1. Quiet
    BY <1>20 DEF Quiet, Exiting, IInv, TypeOK, CpuInv, RunningGo, IndexInv, ForkInv,
      WaitSleep, On, Goto, GiveUp, Free,
      table, locks, sched, locals
  <2>2. QED
    BY <2>1, TreeFrame
<1>21. ASSUME NEW c \in CPUs, NEW s \in Slots, KillScan(c, s)
      PROVE  [Tree!TreeNext]_(Tree!treevars)
  <2>1. Quiet
    BY <1>21 DEF Quiet, Exiting, IInv, TypeOK, CpuInv, RunningGo, IndexInv, ForkInv,
      KillScan, On, Free, Goto, Return,
      table, locks, sched, locals
  <2>2. QED
    BY <2>1, TreeFrame
<1>22. QED
  BY <1>1, <1>2, <1>3, <1>4, <1>5, <1>6, <1>7, <1>8, <1>9, <1>10, <1>11,
    <1>12, <1>13, <1>14, <1>15, <1>16, <1>17, <1>18, <1>19, <1>20, <1>21
    DEF Next, Thread

\* fork, exit and wait, with all their loops, locks and context switches, appear
\* to user programs as single steps on one tree of processes.
THEOREM Refinement == Spec => ImplementsTree
<1>1. Init => Tree!TreeInit
  BY TreeInitStep
<1>2. IInv /\ [Next]_vars => [Tree!TreeNext]_(Tree!treevars)
  <2>1. CASE Next
    BY <2>1, TreeStep
  <2>2. ASSUME UNCHANGED vars PROVE Quiet
    BY <2>2 DEF Quiet, vars, table
  <2>3. QED
    BY <2>1, <2>2, TreeFrame
<1>3. QED
  BY <1>1, <1>2, Invariance, PTL DEF Spec, ImplementsTree, Tree!TreeSpec

=============================================================================
