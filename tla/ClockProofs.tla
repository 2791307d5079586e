----------------------------- MODULE ClockProofs -----------------------------
(***************************************************************************)
(* The clock and the counts of module Clock, for any number of processes   *)
(* and CPUs, any width of ticks and any number of clock interrupts that    *)
(* is less than half of it.                                                *)
(***************************************************************************)
EXTENDS Clock, TLAPS

-----------------------------------------------------------------------------
(* The invariant.                                                          *)

\* A process that has a CPU is RUNNING.
CpuInv == \A c \in CPUs : cpu[c] \in Slots => state[cpu[c]] = "RUNNING"

\* Who sleeps is in sys_sleep(), and has time left unless the clock is about to wake it.
SleepInv ==
  \A s \in Slots :
    state[s] = "SLEEPING" =>
      /\ n[s] \in 0..Width - 1
      /\ (ticks - ticks0[s]) % Width < n[s] \/ tick # 0

\* A child that fork() is about to give to its parent does not run yet, and has one parent.
ForkInv ==
  \A p \in Slots : np[p] # None =>
    /\ state[np[p]] = "USED"
    /\ \A q \in Slots : np[q] = np[p] => q = p

\* The counts of a process are its own calls or, once it has waited, those of the child
\* and its own since.
CountInv ==
  /\ CountsOfChild
  /\ \A s \in Slots : waited[s].depth = 0 => waited[s] = NotWaited

\* update_time() has not been at the slot in this clock interrupt.
Pending(s) == IF tick \in 1..s THEN 1 ELSE 0

\* The value of ticks after so many clock interrupts.
At(e) == (Boot + e) % Width

\* A process created after b interrupts has run in one more than there were since, at
\* most: the one it was created in may count.
Lived(s) ==
  \E b \in 0..elapsed : ctime[s] = At(b) /\ rtime[s] + Pending(s) <= elapsed - b + 1

\* The same for a process that exited after d interrupts.
Died(s) ==
  \E b \in 0..elapsed, d \in 0..elapsed :
    /\ b <= d /\ ctime[s] = At(b) /\ etime[s] = At(d)
    /\ rtime[s] <= d - b + 1

TimeInv ==
  /\ tick # 0 => elapsed > 0
  /\ \A s \in Others : state[s] # "UNUSED" => Lived(s) /\ rtime[s] + Pending(s) <= elapsed
  /\ \A s \in Others : state[s] = "ZOMBIE" => Died(s)

-----------------------------------------------------------------------------
(* Arithmetic modulo the width of ticks.                                   *)

\* The constants as the proofs use them.
LEMMA Constants ==
  /\ Width \in Nat \ {0} /\ MaxTicks \in Nat /\ 2 * MaxTicks < Width /\ Boot \in 0..Width - 1
  /\ initproc \in Slots /\ Others \subseteq Slots /\ initproc \notin Others
  /\ \A s \in Slots : s # initproc => s \in Others
  /\ None \notin Slots /\ NPROC \in Nat /\ Slots = 1..NPROC /\ "exit" \in Num /\ Calls \subseteq Num
  /\ 0 \in CPUs
BY ClockAssumption DEF initproc, Others, Slots, Num, CPUs

\* A remainder, for numbers of at most twice the divisor.
LEMMA Remainder ==
  ASSUME NEW x \in Int
  PROVE  /\ x % Width \in 0..Width - 1
         /\ x \in 0..Width - 1 => x % Width = x
         /\ x \in Width..2 * Width - 1 => x % Width = x - Width
         /\ x < 0 /\ -Width <= x => x % Width = x + Width
         /\ x < -Width /\ -(2 * Width) <= x => x % Width = x + 2 * Width
<1>1. x % Width \in 0..Width - 1
  BY Constants
<1>2. x \in 0..Width - 1 => x % Width = x
  BY Constants
<1>3. x \in Width..2 * Width - 1 => x % Width = x - Width
  BY Constants
<1>4. x < 0 /\ -Width <= x => x % Width = x + Width
  BY Constants
<1>5. x < -Width /\ -(2 * Width) <= x => x % Width = x + 2 * Width
  BY Constants
<1>6. QED
  BY <1>1, <1>2, <1>3, <1>4, <1>5

\* What waitx() computes of the three times, in unsigned arithmetic: how long the
\* process lived less how long it ran, or the largest number if it ran for one more.
LEMMA WaitingTime ==
  ASSUME NEW b \in 0..MaxTicks, NEW d \in 0..MaxTicks, b <= d,
         NEW r \in 0..MaxTicks, r <= d - b + 1
  PROVE  (At(d) - At(b) - r) % Width \in 0..MaxTicks \cup {Width - 1}
<1>1. \A e \in 0..MaxTicks : At(e) = IF Boot + e < Width THEN Boot + e ELSE Boot + e - Width
  <2>1. SUFFICES ASSUME NEW e \in 0..MaxTicks
                 PROVE  At(e) = IF Boot + e < Width THEN Boot + e ELSE Boot + e - Width
    OBVIOUS
  <2>2. Boot + e \in Int /\ Boot + e \in 0..2 * Width - 1
    BY Constants
  <2>3. CASE Boot + e < Width
    <3>1. (Boot + e) % Width = Boot + e
      BY <2>2, <2>3, Constants
    <3>2. QED
      BY <2>3, <3>1 DEF At
  <2>4. CASE Boot + e >= Width
    <3>1. (Boot + e) % Width = Boot + e - Width
      BY <2>2, <2>4, Constants
    <3>2. QED
      BY <2>2, <2>4, <3>1, Constants DEF At
  <2>5. QED
    BY <2>2, <2>3, <2>4, Constants
<1>2. At(d) - At(b) - r \in {d - b - r, d - b - r - Width}
  BY <1>1, Constants
<1>3. d - b - r \in -1..MaxTicks
  BY Constants
<1> DEFINE x == At(d) - At(b) - r
<1>4. x \in Int /\ (x = d - b - r \/ x = d - b - r - Width)
  BY <1>2, <1>3, Constants
<1>5. x \in 0..Width - 1 => x % Width = x
  BY <1>4, Remainder
<1>6. x < 0 /\ -Width <= x => x % Width = x + Width
  BY <1>4, Remainder
<1>7. x < -Width /\ -(2 * Width) <= x => x % Width = x + 2 * Width
  BY <1>4, Remainder
<1>8. d - b - r <= MaxTicks /\ -1 <= d - b - r
  BY <1>3, Constants
<1> HIDE DEF x
<1>9. x % Width \in 0..MaxTicks \cup {Width - 1}
  <2>1. CASE x = d - b - r
    BY <1>4, <1>5, <1>6, <1>8, <2>1, Constants
  <2>2. CASE x = d - b - r - Width
    BY <1>4, <1>6, <1>7, <1>8, <2>2, Constants
  <2>3. QED
    BY <1>4, <2>1, <2>2
<1>10. QED
  BY <1>9 DEF x

-----------------------------------------------------------------------------
(* Type correctness.                                                       *)

\* ticks, remainders and the argument of sleep() are unsigned numbers.
LEMMA Unsigned ==
  ASSUME TypeOK
  PROVE  /\ ticks \in 0..Width - 1 /\ 0 \in 0..Width - 1
         /\ \A x \in Int : x % Width \in 0..Width - 1
<1>1. \A x \in Int : x % Width \in 0..Width - 1
  BY Remainder
<1>2. (Boot + elapsed) % Width \in 0..Width - 1
  <2>1. Boot + elapsed \in Int
    BY Constants DEF TypeOK
  <2>2. QED
    BY <1>1, <2>1
<1>3. QED
  BY <1>1, <1>2, Constants DEF ticks

\* A call is counted twice, for the program and for the history.
LEMMA SyscallType ==
  ASSUME TypeOK, NEW s \in Slots, NEW k \in Num, syscall(s, k)
  PROVE  /\ syscall_count' \in [Slots -> [Num -> Nat]] /\ made' \in [Slots -> [Num -> Nat]]
         /\ \A q \in Slots, j \in Num :
              /\ syscall_count'[q][j] = IF q = s /\ j = k THEN syscall_count[q][j] + 1
                                                          ELSE syscall_count[q][j]
              /\ made'[q][j] = IF q = s /\ j = k THEN made[q][j] + 1 ELSE made[q][j]
<1>1. /\ syscall_count[s][k] + 1 \in Nat /\ made[s][k] + 1 \in Nat
      /\ syscall_count[s] \in [Num -> Nat] /\ made[s] \in [Num -> Nat]
  BY DEF TypeOK
<1>2. /\ [syscall_count[s] EXCEPT ![k] = @ + 1] \in [Num -> Nat]
      /\ [made[s] EXCEPT ![k] = @ + 1] \in [Num -> Nat]
  BY <1>1
<1>3. /\ syscall_count' = [syscall_count EXCEPT
                             ![s] = [syscall_count[s] EXCEPT ![k] = syscall_count[s][k] + 1]]
      /\ made' = [made EXCEPT ![s] = [made[s] EXCEPT ![k] = made[s][k] + 1]]
  BY DEF syscall
<1>4. /\ syscall_count' \in [Slots -> [Num -> Nat]] /\ made' \in [Slots -> [Num -> Nat]]
  BY <1>2, <1>3 DEF TypeOK
<1>5. ASSUME NEW q \in Slots, NEW j \in Num
      PROVE  /\ syscall_count'[q][j] = IF q = s /\ j = k THEN syscall_count[q][j] + 1
                                                         ELSE syscall_count[q][j]
             /\ made'[q][j] = IF q = s /\ j = k THEN made[q][j] + 1 ELSE made[q][j]
  BY <1>1, <1>3 DEF TypeOK
<1>6. QED
  BY <1>4, <1>5

\* One turn of the loop of sys_sleep().
LEMMA SleepLoopType ==
  ASSUME TypeOK, NEW s \in Slots, NEW t0 \in 0..Width - 1, NEW m \in 0..Width - 1 \cup {None},
         sleep_loop(s, t0, m)
  PROVE  /\ state' \in [Slots -> {"UNUSED", "USED", "RUNNABLE", "RUNNING", "SLEEPING", "ZOMBIE"}]
         /\ cpu' \in [CPUs -> Slots \cup {None}]
         /\ ticks0' \in [Slots -> 0..Width - 1] /\ n' \in [Slots -> 0..Width - 1 \cup {None}]
<1>1. 0 \in 0..Width - 1
  BY Unsigned
<1>2. CASE (ticks - t0) % Width < m /\ s \notin killed
  <2>1. /\ ticks0' = [ticks0 EXCEPT ![s] = t0] /\ n' = [n EXCEPT ![s] = m]
        /\ state' = [state EXCEPT ![s] = "SLEEPING"] /\ Off(s)
    BY <1>2 DEF sleep_loop
  <2>2. QED
    BY <2>1 DEF Off, TypeOK
<1>3. CASE ~((ticks - t0) % Width < m /\ s \notin killed)
  <2>1. /\ ticks0' = [ticks0 EXCEPT ![s] = 0] /\ n' = [n EXCEPT ![s] = None]
        /\ state' = state /\ cpu' = cpu
    BY <1>3 DEF sleep_loop
  <2>2. QED
    BY <1>1, <2>1 DEF TypeOK
<1>4. QED
  BY <1>2, <1>3

\* What is remembered of wait() before a process has waited.
LEMMA WaitedType ==
  /\ Zero \in [Num -> Nat]
  /\ NotWaited \in [calls : [Num -> Nat], own : [Num -> Nat], depth : 0..2]
BY DEF Zero, NotWaited

\* The machine starts with init alone.
LEMMA TypeInit ==
  ASSUME Init
  PROVE  TypeOK
BY ClockAssumption, Constants, WaitedType DEF Init, TypeOK

\* The variables keep their types.
LEMMA TypeNext ==
  ASSUME TypeOK, [Next]_vars
  PROVE  TypeOK'
<1>0. /\ ticks \in 0..Width - 1 /\ 0 \in 0..Width - 1
      /\ \A x \in Int : x % Width \in 0..Width - 1
  BY Unsigned
<1>1. CASE clockintr
  <2>1. elapsed' \in 0..MaxTicks /\ tick' \in 0..NPROC + 1
    BY <1>1, Constants DEF clockintr, TypeOK
  <2>2. QED
    BY <1>1, <2>1 DEF clockintr, TypeOK, clock, tree, acct, sleeper
<1>2. CASE update_time
  <2>1. rtime' \in [Slots -> 0..Width - 1]
    BY <1>0, <1>2 DEF update_time, TypeOK
  <2>2. tick' \in 0..NPROC + 1
    BY <1>2, Constants DEF update_time, TypeOK
  <2>3. QED
    BY <1>2, <2>1, <2>2 DEF update_time, clock, tree, TypeOK, sleeper
<1>3. CASE tick_wakeup
  <2>1. tick' \in 0..NPROC + 1
    BY <1>3, Constants DEF tick_wakeup
  <2>2. QED
    BY <1>3, <2>1 DEF tick_wakeup, TypeOK, clock, tree, acct, sleeper
<1>4. ASSUME NEW c \in CPUs, NEW s \in Slots, scheduler(c, s)
      PROVE  TypeOK'
  BY <1>4 DEF scheduler, TypeOK, clock, tree, acct, sleeper
<1>5. ASSUME NEW s \in Slots, yield(s)
      PROVE  TypeOK'
  BY <1>5 DEF yield, Off, TypeOK, clock, tree, acct, sleeper
<1>6. ASSUME NEW s \in Slots, sleep_again(s)
      PROVE  TypeOK'
  <2>1. ticks0[s] \in 0..Width - 1 /\ n[s] \in 0..Width - 1 \cup {None}
    BY DEF TypeOK
  <2>2. QED
    BY <1>6, <2>1, SleepLoopType DEF sleep_again, TypeOK, clock, tree, acct
<1>7. ASSUME NEW s \in Slots, NEW m \in Sleeps, sys_sleep(s, m)
      PROVE  TypeOK'
  <2>1. m % Width \in 0..Width - 1
    BY <1>0, ClockAssumption
  <2>2. "sleep" \in Num
    BY <1>7, Constants DEF sys_sleep
  <2>3. QED
    BY <1>0, <1>7, <2>1, <2>2, SleepLoopType, SyscallType DEF sys_sleep, clock, tree, TypeOK
<1>8. ASSUME NEW s \in Slots, NEW k \in Calls \ {"sleep"}, call(s, k)
      PROVE  TypeOK'
  <2>1. k \in Num
    BY Constants
  <2>2. QED
    BY <1>8, <2>1, SyscallType DEF call, clock, tree, TypeOK, sleeper
<1>9. CASE Done
  BY <1>9 DEF Done, TypeOK, vars, clock, tree, acct, sleeper
<1>10. ASSUME NEW s \in Others, kill(s)
       PROVE  TypeOK'
  BY <1>10, Constants DEF kill, TypeOK, clock, tree, acct, sleeper
<1>11. ASSUME NEW p \in Slots, NEW s \in Others, allocproc(p, s)
       PROVE  TypeOK'
  BY <1>0, <1>11, Constants, WaitedType
     DEF allocproc, clock, TypeOK, sleeper, NewRtime, Counts
<1>12. ASSUME NEW p \in Slots, fork(p)
       PROVE  TypeOK'
  <2>1. np[p] \in Slots
    BY <1>12, Constants DEF fork, TypeOK
  <2>2. QED
    <3>1. /\ state' \in [Slots -> {"UNUSED", "USED", "RUNNABLE", "RUNNING", "SLEEPING", "ZOMBIE"}]
          /\ parent' \in [Slots -> Slots \cup {None}] /\ killed' \subseteq Others
      <4>1. CASE freeproc(np[p])
        BY <2>1, <4>1 DEF freeproc, TypeOK
      <4>2. CASE /\ state' = [state EXCEPT ![np[p]] = "RUNNABLE"]
                 /\ parent' = [parent EXCEPT ![np[p]] = p] /\ killed' = killed
        BY <2>1, <4>2 DEF TypeOK
      <4>3. QED
        BY <1>12, <4>1, <4>2 DEF fork
    <3>2. np' \in [Slots -> Others \cup {None}]
      BY <1>12 DEF fork, TypeOK
    <3>3. QED
      BY <1>12, <3>1, <3>2 DEF fork, TypeOK, clock, acct, sleeper
<1>13. ASSUME NEW s \in Others, exit(s)
       PROVE  TypeOK'
  <2>1. s \in Slots /\ "exit" \in Num
    BY Constants
  <2>2. /\ syscall_count' \in [Slots -> [Num -> Nat]] /\ made' \in [Slots -> [Num -> Nat]]
    BY <1>13, <2>1, SyscallType DEF exit, TypeOK
  <2>3. QED
    BY <1>0, <1>13, <2>1, <2>2, Constants DEF exit, Off, clock, TypeOK, sleeper
<1>14. ASSUME NEW p \in Slots, NEW s \in Others, wait(p, s)
       PROVE  TypeOK'
  <2>1. s \in Slots /\ syscall_count[s] \in [Num -> Nat]
    BY Constants DEF TypeOK
  <2>2. syscall_count' \in [Slots -> [Num -> Nat]]
    BY <1>14, <2>1 DEF wait, Inherit, TypeOK
  <2>3. waited' \in [Slots -> [calls : [Num -> Nat], own : [Num -> Nat], depth : 0..2]]
    BY <1>14, <2>1 DEF wait, TypeOK
  <2>4. QED
    BY <1>14, <2>1, <2>2, <2>3, Constants DEF wait, freeproc, TypeOK, clock, sleeper
<1>15. ASSUME NEW p \in Slots, NEW s \in Others, waitx(p, s)
       PROVE  TypeOK'
  BY <1>15, Constants DEF waitx, freeproc, TypeOK, clock, acct, sleeper
<1>16. CASE UNCHANGED vars
  BY <1>16 DEF TypeOK, vars, clock, tree, acct, sleeper
<1>17. QED
  BY <1>1, <1>2, <1>3, <1>4, <1>5, <1>6, <1>7, <1>8, <1>9, <1>10, <1>11, <1>12, <1>13, <1>14,
     <1>15, <1>16 DEF Next

\* Every variable keeps its type: the counts are natural numbers, and the times and
\* ticks are unsigned integers that wrap around.
THEOREM TypeCorrect == Spec => []TypeOK
<1>1. Init => TypeOK
  BY TypeInit
<1>2. TypeOK /\ [Next]_vars => TypeOK'
  BY TypeNext
<1>3. QED
  BY <1>1, <1>2, PTL DEF Spec

-----------------------------------------------------------------------------
(* The counts of system calls.                                             *)

\* A call of any process.
LEMMA SyscallCounts ==
  ASSUME TypeOK, CountInv, NEW s \in Slots, NEW k \in Num, syscall(s, k), waited' = waited
  PROVE  CountInv'
<1>1. \A q \in Slots, j \in Num :
        /\ syscall_count[q][j] \in Nat /\ made[q][j] \in Nat
        /\ waited[q].calls[j] \in Nat /\ waited[q].own[j] \in Nat
        /\ syscall_count'[q][j] = IF q = s /\ j = k THEN syscall_count[q][j] + 1
                                                    ELSE syscall_count[q][j]
        /\ made'[q][j] = IF q = s /\ j = k THEN made[q][j] + 1 ELSE made[q][j]
  BY SyscallType DEF TypeOK
<1>2. ASSUME NEW q \in Slots, NEW j \in Num, waited'[q].depth < 2
      PROVE  syscall_count'[q][j] = waited'[q].calls[j] + (made'[q][j] - waited'[q].own[j])
  <2>1. syscall_count[q][j] = waited[q].calls[j] + (made[q][j] - waited[q].own[j])
    BY <1>2 DEF CountInv, CountsOfChild, getSysCount, Owed
  <2>2. QED
    BY <1>1, <2>1
<1>3. QED
  BY <1>2 DEF CountInv, CountsOfChild, getSysCount, Owed

\* CountInv is inductive: what a new process, a call and wait() make of the counts.
LEMMA CountNext ==
  ASSUME TypeOK, CountInv, [Next]_vars
  PROVE  CountInv'
<1>1. ASSUME UNCHANGED <<syscall_count, made, waited>>
      PROVE  CountInv'
  BY <1>1 DEF CountInv, CountsOfChild, getSysCount, Owed
<1>2. CASE clockintr \/ update_time \/ tick_wakeup \/ Done \/ UNCHANGED vars
  BY <1>1, <1>2 DEF clockintr, update_time, tick_wakeup, Done, vars, clock, tree, acct
<1>3. ASSUME NEW c \in CPUs, NEW s \in Slots, scheduler(c, s)
      PROVE  CountInv'
  BY <1>1, <1>3 DEF scheduler, clock, tree, acct
<1>4. ASSUME NEW s \in Slots, yield(s) \/ sleep_again(s)
      PROVE  CountInv'
  BY <1>1, <1>4 DEF yield, sleep_again, clock, tree, acct
<1>5. ASSUME NEW s \in Slots, NEW m \in Sleeps, sys_sleep(s, m)
      PROVE  CountInv'
  BY <1>5, SyscallCounts, Constants DEF sys_sleep
<1>6. ASSUME NEW s \in Slots, NEW k \in Calls \ {"sleep"}, call(s, k)
      PROVE  CountInv'
  BY <1>6, SyscallCounts, Constants DEF call
<1>7. ASSUME NEW p \in Slots, \/ fork(p)
                              \/ \E s \in Others : kill(s) \/ waitx(p, s)
      PROVE  CountInv'
  BY <1>1, <1>7 DEF kill, fork, waitx, acct
<1>8. ASSUME NEW p \in Slots, NEW s \in Others, allocproc(p, s)
      PROVE  CountInv'
  <2>1. /\ syscall_count' = [syscall_count EXCEPT ![s] = Zero] /\ made' = [made EXCEPT ![s] = Zero]
        /\ waited' = [waited EXCEPT ![s] = NotWaited]
    BY <1>8 DEF allocproc, Counts
  <2>2. ASSUME NEW q \in Slots, q # s
        PROVE  UNCHANGED <<syscall_count[q], made[q], waited[q]>>
    BY <2>1, <2>2 DEF TypeOK
  <2>3. s \in Slots /\ syscall_count'[s] = Zero /\ made'[s] = Zero /\ waited'[s] = NotWaited
    BY <2>1, Constants DEF TypeOK
  <2>4. \A k \in Num : Zero[k] = NotWaited.calls[k] + (Zero[k] - NotWaited.own[k])
    BY DEF Zero, NotWaited
  <2>5. ASSUME NEW q \in Slots, NEW k \in Num, waited'[q].depth < 2
        PROVE  syscall_count'[q][k] = waited'[q].calls[k] + (made'[q][k] - waited'[q].own[k])
    <3>1. CASE q = s
      BY <2>3, <2>4, <3>1
    <3>2. CASE q # s
      BY <2>2, <2>5, <3>2 DEF CountInv, CountsOfChild, getSysCount, Owed
    <3>3. QED
      BY <3>1, <3>2
  <2>6. \A q \in Slots : waited'[q].depth = 0 => waited'[q] = NotWaited
    BY <2>2, <2>3 DEF CountInv
  <2>7. QED
    BY <2>5, <2>6 DEF CountInv, CountsOfChild, getSysCount, Owed
<1>9. ASSUME NEW s \in Others, exit(s)
      PROVE  CountInv'
  <2>1. CASE s \in killed
    BY <1>1, <1>9, <2>1 DEF exit
  <2>2. CASE s \notin killed
    BY <1>9, <2>2, SyscallCounts, Constants DEF exit
  <2>3. QED
    BY <2>1, <2>2
<1>10. ASSUME NEW p \in Slots, NEW s \in Others, wait(p, s)
       PROVE  CountInv'
  <2>1. /\ syscall_count' = [syscall_count EXCEPT ![p] = syscall_count[s]] /\ made' = made
        /\ waited' = [waited EXCEPT ![p] = [calls |-> made[s], own |-> made[p],
                                            depth |-> IF waited[s].depth = 0 THEN 1 ELSE 2]]
    BY <1>10 DEF wait, Inherit
  <2>2. ASSUME NEW q \in Slots, q # p
        PROVE  UNCHANGED <<syscall_count[q], made[q], waited[q]>>
    BY <2>1, <2>2 DEF TypeOK
  <2>3. /\ syscall_count'[p] = syscall_count[s] /\ made'[p] = made[p]
        /\ waited'[p].calls = made[s] /\ waited'[p].own = made[p]
        /\ waited'[p].depth = IF waited[s].depth = 0 THEN 1 ELSE 2
    BY <2>1 DEF TypeOK
  <2>4. ASSUME NEW k \in Num, waited[s].depth = 0
        PROVE  syscall_count[s][k] = made[s][k]
    <3>1. s \in Slots /\ waited[s] = NotWaited /\ waited[s].depth < 2
      BY <2>4, Constants DEF CountInv
    <3>2. waited[s].calls[k] = 0 /\ waited[s].own[k] = 0
      BY <3>1 DEF NotWaited, Zero
    <3>3. syscall_count[s][k] = waited[s].calls[k] + (made[s][k] - waited[s].own[k])
      BY <3>1 DEF CountInv, CountsOfChild, getSysCount, Owed
    <3>4. made[s][k] \in Nat
      BY <3>1 DEF TypeOK
    <3>5. QED
      BY <3>2, <3>3, <3>4
  <2>5. ASSUME NEW q \in Slots, NEW k \in Num, waited'[q].depth < 2
        PROVE  syscall_count'[q][k] = waited'[q].calls[k] + (made'[q][k] - waited'[q].own[k])
    <3>1. CASE q = p
      <4>1. waited[s].depth = 0
        BY <2>3, <2>5, <3>1
      <4>2. made[s][k] \in Nat /\ made[p][k] \in Nat
        BY Constants DEF TypeOK
      <4>3. QED
        BY <2>3, <2>4, <3>1, <4>1, <4>2
    <3>2. CASE q # p
      BY <2>2, <2>5, <3>2 DEF CountInv, CountsOfChild, getSysCount, Owed
    <3>3. QED
      BY <3>1, <3>2
  <2>6. \A q \in Slots : waited'[q].depth = 0 => waited'[q] = NotWaited
    BY <2>2, <2>3 DEF CountInv
  <2>7. QED
    BY <2>5, <2>6 DEF CountInv, CountsOfChild, getSysCount, Owed
<1>11. initproc \in Slots
  BY Constants
<1>12. QED
  BY <1>2, <1>3, <1>4, <1>5, <1>6, <1>7, <1>8, <1>9, <1>10, <1>11 DEF Next

\* What syscount prints is what the child has called, whoever forks, calls, waits and
\* exits meanwhile and whatever process had the slot before: the counts that wait() hands
\* over are those of the child alone, and the parent's own calls since come on top of
\* them; unless the child has waited for a child of its own.
THEOREM CountsAreTheChilds == Spec => []CountsOfChild
<1>1. Init => CountInv
  <2>1. SUFFICES ASSUME Init
                 PROVE  CountInv
    OBVIOUS
  <2>2. ASSUME NEW s \in Slots, NEW k \in Num
        PROVE  syscall_count[s][k] = waited[s].calls[k] + (made[s][k] - waited[s].own[k])
    <3>1. syscall_count[s] = Zero /\ made[s] = Zero /\ waited[s] = NotWaited
      BY <2>1 DEF Init
    <3>2. Zero[k] = 0 /\ NotWaited.calls[k] = 0 /\ NotWaited.own[k] = 0
      BY DEF Zero, NotWaited
    <3>3. QED
      BY <3>1, <3>2
  <2>3. \A s \in Slots : waited[s] = NotWaited
    BY <2>1 DEF Init
  <2>4. QED
    BY <2>2, <2>3 DEF CountInv, CountsOfChild, getSysCount, Owed
<1>2. CountInv => CountsOfChild
  BY DEF CountInv
<1>3. TypeOK /\ CountInv /\ [Next]_vars => CountInv'
  BY CountNext
<1>4. QED
  BY <1>1, <1>2, <1>3, TypeCorrect, PTL DEF Spec

-----------------------------------------------------------------------------
(* sleep()                                                                 *)

\* A process that runs is not asleep.
LEMMA OnIsRunning ==
  ASSUME CpuInv, NEW s \in Slots, On(s)
  PROVE  state[s] = "RUNNING"
BY DEF CpuInv, On

\* A process gives up its CPU, and the others keep theirs.
LEMMA OffCpu ==
  ASSUME TypeOK, CpuInv, NEW s \in Slots, Off(s), \A q \in Slots : q # s => state'[q] = state[q]
  PROVE  CpuInv'
<1>1. ASSUME NEW c \in CPUs, cpu'[c] \in Slots
      PROVE  state'[cpu'[c]] = "RUNNING"
  <2>1. cpu'[c] = cpu[c] /\ cpu[c] # s
    BY <1>1, Constants DEF Off
  <2>2. QED
    BY <1>1, <2>1 DEF CpuInv
<1>2. QED
  BY <1>1 DEF CpuInv

\* One turn of the loop of sys_sleep() by a process that runs: it goes to sleep with time
\* left, or it ends.
LEMMA SleepLoop ==
  ASSUME TypeOK, CpuInv, SleepInv, NEW s \in Slots, On(s), NEW t0, NEW m \in 0..Width - 1,
         sleep_loop(s, t0, m), UNCHANGED <<elapsed, tick>>
  PROVE  CpuInv' /\ SleepInv'
<1>1. ticks' = ticks
  BY DEF ticks
<1>2. CASE (ticks - t0) % Width < m /\ s \notin killed
  <2>1. /\ ticks0' = [ticks0 EXCEPT ![s] = t0] /\ n' = [n EXCEPT ![s] = m]
        /\ state' = [state EXCEPT ![s] = "SLEEPING"] /\ Off(s)
    BY <1>2 DEF sleep_loop
  <2>2. \A q \in Slots :
          q # s => state'[q] = state[q] /\ ticks0'[q] = ticks0[q] /\ n'[q] = n[q]
    BY <2>1 DEF TypeOK
  <2>3. ticks0'[s] = t0 /\ n'[s] = m
    BY <2>1 DEF TypeOK
  <2>4. CpuInv'
    BY <2>1, <2>2, OffCpu
  <2>5. ASSUME NEW q \in Slots, state'[q] = "SLEEPING"
        PROVE  n'[q] \in 0..Width - 1 /\ ((ticks' - ticks0'[q]) % Width < n'[q] \/ tick' # 0)
    <3>1. CASE q = s
      BY <1>1, <1>2, <2>3, <3>1
    <3>2. CASE q # s
      BY <1>1, <2>2, <2>5, <3>2 DEF SleepInv
    <3>3. QED
      BY <3>1, <3>2
  <2>6. QED
    BY <2>4, <2>5 DEF SleepInv
<1>3. CASE ~((ticks - t0) % Width < m /\ s \notin killed)
  <2>1. /\ ticks0' = [ticks0 EXCEPT ![s] = 0] /\ n' = [n EXCEPT ![s] = None]
        /\ state' = state /\ cpu' = cpu
    BY <1>3 DEF sleep_loop
  <2>2. \A q \in Slots : q # s => ticks0'[q] = ticks0[q] /\ n'[q] = n[q]
    BY <2>1 DEF TypeOK
  <2>3. state[s] # "SLEEPING"
    BY OnIsRunning
  <2>4. ASSUME NEW q \in Slots, state'[q] = "SLEEPING"
        PROVE  n'[q] \in 0..Width - 1 /\ ((ticks' - ticks0'[q]) % Width < n'[q] \/ tick' # 0)
    BY <1>1, <2>1, <2>2, <2>3, <2>4 DEF SleepInv
  <2>5. QED
    BY <2>1, <2>4 DEF CpuInv, SleepInv
<1>4. QED
  BY <1>2, <1>3

\* No other action puts a process to sleep or changes what it sleeps for.
LEMMA SleepFrame ==
  ASSUME SleepInv, UNCHANGED <<elapsed, tick, ticks0, n>>,
         \A s \in Slots : state'[s] = "SLEEPING" => state[s] = "SLEEPING"
  PROVE  SleepInv'
<1>1. ticks' = ticks
  BY DEF ticks
<1>2. QED
  BY <1>1 DEF SleepInv

\* A step that only gives a CPU back or takes it, or kills: the children in fork() stay.
LEMMA ForkFrame ==
  ASSUME TypeOK, ForkInv, np' = np, NEW s \in Slots, state[s] # "USED",
         \A q \in Slots : q # s => state'[q] = state[q]
  PROVE  ForkInv'
<1>1. ASSUME NEW p \in Slots, np[p] # None
      PROVE  state'[np[p]] = "USED"
  <2>1. np[p] \in Slots /\ state[np[p]] = "USED"
    BY <1>1, Constants DEF ForkInv, TypeOK
  <2>2. QED
    BY <2>1
<1>2. QED
  BY <1>1 DEF ForkInv

\* ForkInv is inductive.
LEMMA ForkNext ==
  ASSUME TypeOK, CpuInv, ForkInv, [Next]_vars
  PROVE  ForkInv'
<1>0. ASSUME UNCHANGED <<state, np>>
      PROVE  ForkInv'
  BY <1>0 DEF ForkInv
<1>1. CASE clockintr \/ update_time \/ Done \/ UNCHANGED vars
  BY <1>0, <1>1 DEF clockintr, update_time, Done, vars, tree
<1>2. CASE tick_wakeup
  <2>1. np' = np /\ \A q \in Slots : state[q] = "USED" => state'[q] = "USED"
    BY <1>2 DEF tick_wakeup, tree
  <2>2. \A p \in Slots : np[p] # None => np[p] \in Slots
    BY Constants DEF TypeOK
  <2>3. QED
    BY <2>1, <2>2 DEF ForkInv
<1>3. ASSUME NEW c \in CPUs, NEW s \in Slots, scheduler(c, s)
      PROVE  ForkInv'
  <2>1. /\ np' = np /\ state[s] = "RUNNABLE" /\ \A q \in Slots : q # s => state'[q] = state[q]
    BY <1>3 DEF scheduler, tree, TypeOK
  <2>2. QED
    BY <2>1, ForkFrame
<1>4. ASSUME NEW s \in Slots,
             yield(s) \/ sleep_again(s) \/ (\E m \in Sleeps : sys_sleep(s, m))
      PROVE  ForkInv'
  <2>1. On(s) /\ np' = np /\ \A q \in Slots : q # s => state'[q] = state[q]
    BY <1>4 DEF yield, sleep_again, sys_sleep, sleep_loop, User, tree, TypeOK
  <2>2. QED
    BY <2>1, OnIsRunning, ForkFrame
<1>5. ASSUME NEW s \in Slots, NEW k \in Calls \ {"sleep"}, call(s, k)
      PROVE  ForkInv'
  BY <1>0, <1>5 DEF call, tree
<1>6. ASSUME NEW s \in Others, kill(s)
      PROVE  ForkInv'
  <2>1. /\ np' = np /\ s \in Slots /\ \A q \in Slots : q # s => state'[q] = state[q]
        /\ state[s] = "USED" => state' = state
    BY <1>6, Constants DEF kill, tree, TypeOK
  <2>2. QED
    BY <1>0, <2>1, ForkFrame
<1>7. ASSUME NEW s \in Others, exit(s)
      PROVE  ForkInv'
  <2>1. On(s) /\ np' = np /\ s \in Slots /\ \A q \in Slots : q # s => state'[q] = state[q]
    BY <1>7, Constants DEF exit, TypeOK
  <2>2. QED
    BY <2>1, OnIsRunning, ForkFrame
<1>8. ASSUME NEW p \in Slots, fork(p)
      PROVE  ForkInv'
  <2>1. /\ np' = [np EXCEPT ![p] = None]
        /\ \E v \in {"RUNNABLE", "UNUSED"} : state' = [state EXCEPT ![np[p]] = v]
    BY <1>8 DEF fork, freeproc
  <2>2. ASSUME NEW q \in Slots, np'[q] # None
        PROVE  q # p /\ np'[q] = np[q] /\ np[q] \in Slots /\ np[q] # np[p]
    <3>1. np[p] # None /\ np'[p] = None
      BY <1>8, <2>1 DEF fork, TypeOK
    <3>2. q # p
      BY <2>2, <3>1
    <3>3. np'[q] = np[q] /\ np[q] \in Slots
      BY <2>1, <2>2, <3>2, Constants DEF TypeOK
    <3>4. QED
      BY <3>1, <3>2, <3>3 DEF ForkInv
  <2>3. \A q \in Slots : np'[q] # None => state'[np'[q]] = "USED"
    BY <2>1, <2>2 DEF ForkInv, TypeOK
  <2>4. QED
    BY <2>2, <2>3 DEF ForkInv
<1>9. ASSUME NEW p \in Slots, NEW s \in Others, allocproc(p, s)
      PROVE  ForkInv'
  <2>1. /\ np' = [np EXCEPT ![p] = s] /\ state' = [state EXCEPT ![s] = "USED"]
        /\ state[s] = "UNUSED" /\ s \in Slots /\ s # None
    BY <1>9, Constants DEF allocproc
  <2>2. \A q \in Slots : np[q] # s
    BY <2>1 DEF ForkInv
  <2>3. ASSUME NEW q \in Slots, np'[q] # None
        PROVE  state'[np'[q]] = "USED"
    <3>1. CASE q = p
      BY <2>1, <3>1 DEF TypeOK
    <3>2. CASE q # p
      <4>1. np'[q] = np[q] /\ np[q] \in Slots
        BY <2>1, <2>3, <3>2, Constants DEF TypeOK
      <4>2. QED
        BY <2>1, <2>2, <2>3, <4>1 DEF ForkInv, TypeOK
    <3>3. QED
      BY <3>1, <3>2
  <2>4. ASSUME NEW q \in Slots, np'[q] # None, NEW o \in Slots, np'[o] = np'[q]
        PROVE  o = q
    BY <2>1, <2>2, <2>4 DEF ForkInv, TypeOK
  <2>5. QED
    BY <2>3, <2>4 DEF ForkInv
<1>10. ASSUME NEW p \in Slots, NEW s \in Others, wait(p, s) \/ waitx(p, s)
       PROVE  ForkInv'
  <2>1. /\ np' = np /\ s \in Slots /\ state[s] = "ZOMBIE"
        /\ \A q \in Slots : q # s => state'[q] = state[q]
    BY <1>10, Constants DEF wait, waitx, freeproc, TypeOK
  <2>2. QED
    BY <2>1, ForkFrame
<1>11. QED
  BY <1>1, <1>2, <1>3, <1>4, <1>5, <1>6, <1>7, <1>8, <1>9, <1>10 DEF Next

\* CpuInv and SleepInv are inductive.
LEMMA SleepNext ==
  ASSUME TypeOK, CpuInv, ForkInv, SleepInv, [Next]_vars
  PROVE  CpuInv' /\ SleepInv'
<1>1. CASE clockintr
  BY <1>1 DEF clockintr, sleeper, CpuInv, SleepInv
<1>2. CASE update_time
  <2>1. tick' # 0
    BY <1>2, Constants DEF update_time
  <2>2. QED
    BY <1>2, <2>1 DEF update_time, sleeper, CpuInv, SleepInv
<1>3. CASE tick_wakeup
  BY <1>3 DEF tick_wakeup, CpuInv, SleepInv
<1>4. ASSUME NEW c \in CPUs, NEW s \in Slots, scheduler(c, s)
      PROVE  CpuInv' /\ SleepInv'
  <2>1. SleepInv'
    BY <1>4, SleepFrame DEF scheduler, clock, sleeper, TypeOK
  <2>2. CpuInv'
    BY <1>4 DEF scheduler, CpuInv, TypeOK
  <2>3. QED
    BY <2>1, <2>2
<1>5. ASSUME NEW s \in Slots, yield(s)
      PROVE  CpuInv' /\ SleepInv'
  <2>1. \A q \in Slots : q # s => state'[q] = state[q]
    BY <1>5 DEF yield, TypeOK
  <2>2. QED
    BY <1>5, <2>1, OffCpu, SleepFrame DEF yield, clock, sleeper, TypeOK
<1>6. ASSUME NEW s \in Slots, sleep_again(s)
      PROVE  CpuInv' /\ SleepInv'
  <2>1. n[s] \in 0..Width - 1
    BY <1>6 DEF sleep_again, TypeOK
  <2>2. QED
    BY <1>6, <2>1, SleepLoop DEF sleep_again, clock
<1>7. ASSUME NEW s \in Slots, NEW m \in Sleeps, sys_sleep(s, m)
      PROVE  CpuInv' /\ SleepInv'
  <2>1. m % Width \in 0..Width - 1
    BY Unsigned, ClockAssumption
  <2>2. QED
    BY <1>7, <2>1, SleepLoop DEF sys_sleep, User, clock
<1>8. ASSUME NEW s \in Slots, NEW k \in Calls \ {"sleep"}, call(s, k)
      PROVE  CpuInv' /\ SleepInv'
  BY <1>8, SleepFrame DEF call, clock, sleeper, CpuInv
<1>9. CASE Done \/ UNCHANGED vars
  BY <1>9, SleepFrame DEF Done, vars, clock, sleeper, CpuInv
<1>10. ASSUME NEW s \in Others, kill(s)
       PROVE  CpuInv' /\ SleepInv'
  BY <1>10, SleepFrame, Constants DEF kill, clock, sleeper, CpuInv, TypeOK
<1>11. ASSUME NEW p \in Slots, \/ fork(p)
                               \/ \E o \in Others : allocproc(p, o) \/ wait(p, o) \/ waitx(p, o)
       PROVE  CpuInv' /\ SleepInv'
  <2>1. PICK s \in Slots :
          /\ \/ state' = state
             \/ /\ state[s] \in {"USED", "UNUSED", "ZOMBIE"}
                /\ \E v \in {"USED", "RUNNABLE", "UNUSED"} : state' = [state EXCEPT ![s] = v]
          /\ UNCHANGED <<elapsed, tick, cpu, ticks0, n>>
    <3>1. CASE fork(p)
      <4>1. np[p] \in Slots /\ state[np[p]] = "USED"
        BY <3>1, Constants DEF fork, ForkInv, TypeOK
      <4>2. QED
        BY <3>1, <4>1 DEF fork, freeproc, clock, sleeper
    <3>2. CASE \E o \in Others : allocproc(p, o)
      BY <3>2, Constants DEF allocproc, clock, sleeper
    <3>3. CASE \E o \in Others : wait(p, o) \/ waitx(p, o)
      BY <3>3, Constants DEF wait, waitx, freeproc, clock, sleeper
    <3>4. QED
      BY <1>11, <3>1, <3>2, <3>3
  <2>2. \A q \in Slots : \/ state'[q] = state[q]
                         \/ q = s /\ state[q] # "RUNNING" /\ state'[q] # "SLEEPING"
    BY <2>1 DEF TypeOK
  <2>3. QED
    BY <2>1, <2>2, SleepFrame DEF CpuInv
<1>12. ASSUME NEW s \in Others, exit(s)
       PROVE  CpuInv' /\ SleepInv'
  <2>1. \A q \in Slots : q # s => state'[q] = state[q]
    BY <1>12 DEF exit, TypeOK
  <2>2. QED
    BY <1>12, <2>1, OffCpu, SleepFrame, Constants DEF exit, clock, sleeper, TypeOK
<1>13. QED
  BY <1>1, <1>2, <1>3, <1>4, <1>5, <1>6, <1>7, <1>8, <1>9, <1>10, <1>11, <1>12 DEF Next

\* Nobody oversleeps: between two clock interrupts no process sleeps whose time is over,
\* though ticks wraps around and the difference is taken in unsigned arithmetic.
THEOREM NobodyOversleeps == Spec => []NoOversleep
<1>1. Init => CpuInv /\ ForkInv /\ SleepInv
  BY Constants DEF Init, CpuInv, ForkInv, SleepInv
<1>2. SleepInv => NoOversleep
  BY DEF SleepInv, NoOversleep
<1>3. TypeOK /\ CpuInv /\ ForkInv /\ SleepInv /\ [Next]_vars => CpuInv' /\ ForkInv' /\ SleepInv'
  BY SleepNext, ForkNext
<1>4. QED
  BY <1>1, <1>2, <1>3, TypeCorrect, PTL DEF Spec

-----------------------------------------------------------------------------
(* The times of waitx().                                                   *)

\* Lived(s) and Died(s) depend on the times of s, the clock and Pending(s) only.
LEMMA SameTimes ==
  ASSUME NEW s \in Others, elapsed' = elapsed, Pending(s)' = Pending(s),
         rtime'[s] = rtime[s], ctime'[s] = ctime[s]
  PROVE  /\ Lived(s) => Lived(s)'
         /\ Died(s) /\ etime'[s] = etime[s] => Died(s)'
BY DEF Lived, Died, At

\* What does not touch the clock or the times, and neither makes nor ends a process.
LEMMA TimeFrame ==
  ASSUME TimeInv, UNCHANGED <<elapsed, tick, rtime, ctime, etime>>,
         \A s \in Others : /\ state'[s] # "UNUSED" => state[s] # "UNUSED"
                           /\ state'[s] = "ZOMBIE" => state[s] = "ZOMBIE"
  PROVE  TimeInv'
<1>1. \A s \in Others : Pending(s)' = Pending(s)
  BY DEF Pending
<1>2. \A s \in Others : (Lived(s) => Lived(s)') /\ (Died(s) => Died(s)')
  BY <1>1, SameTimes
<1>3. /\ elapsed' = elapsed /\ (tick' # 0 => elapsed' > 0)
      /\ \A s \in Others : rtime'[s] = rtime[s]
  BY DEF TimeInv
<1>4. ASSUME NEW s \in Others, state'[s] # "UNUSED"
      PROVE  Lived(s)' /\ rtime'[s] + Pending(s)' <= elapsed'
  <2>1. state[s] # "UNUSED"
    BY <1>4
  <2>2. QED
    BY <1>1, <1>2, <1>3, <2>1 DEF TimeInv
<1>5. ASSUME NEW s \in Others, state'[s] = "ZOMBIE"
      PROVE  Died(s)'
  BY <1>2, <1>5 DEF TimeInv
<1>6. QED
  BY <1>3, <1>4, <1>5 DEF TimeInv

\* A clock interrupt starts: it is pending for every slot.
LEMMA TimeClock ==
  ASSUME TypeOK, TimeInv, clockintr
  PROVE  TimeInv'
<1>1. /\ elapsed \in Nat /\ elapsed' = elapsed + 1 /\ tick = 0 /\ tick' = 1
      /\ UNCHANGED <<state, rtime, ctime, etime>>
  BY DEF clockintr, TypeOK, clock, tree, acct
<1>2. ASSUME NEW s \in Others
      PROVE  /\ Pending(s) = 0 /\ Pending(s)' = 1 /\ rtime[s] \in Nat
             /\ s \in Slots
  BY <1>1, Constants DEF Pending, TypeOK, Others
<1>3. ASSUME NEW s \in Others, Lived(s)
      PROVE  Lived(s)'
  <2>1. PICK b \in 0..elapsed : ctime[s] = At(b) /\ rtime[s] + Pending(s) <= elapsed - b + 1
    BY <1>3 DEF Lived
  <2>2. b \in 0..elapsed' /\ ctime'[s] = At(b) /\ rtime'[s] + Pending(s)' <= elapsed' - b + 1
    BY <1>1, <1>2, <2>1
  <2>3. QED
    BY <2>2 DEF Lived, At
<1>4. ASSUME NEW s \in Others, Died(s)
      PROVE  Died(s)'
  <2>1. 0..elapsed \subseteq 0..elapsed'
    BY <1>1
  <2>2. QED
    BY <1>1, <1>4, <2>1 DEF Died, At
<1>5. ASSUME NEW s \in Others, rtime[s] + Pending(s) <= elapsed
      PROVE  rtime'[s] + Pending(s)' <= elapsed'
  BY <1>1, <1>2, <1>5
<1>6. elapsed' > 0
  BY <1>1
<1>7. QED
  BY <1>1, <1>3, <1>4, <1>5, <1>6 DEF TimeInv

\* update_time() charges the process at its slot if it runs.
LEMMA TimeUpdate ==
  ASSUME TypeOK, TimeInv, update_time
  PROVE  TimeInv'
<1>1. /\ tick \in Slots /\ tick' = tick + 1
      /\ rtime' = IF state[tick] = "RUNNING" THEN [rtime EXCEPT ![tick] = (@ + 1) % Width] ELSE rtime
      /\ UNCHANGED <<elapsed, state, ctime, etime>>
  BY DEF update_time
<1>2. elapsed > 0 /\ elapsed \in 0..MaxTicks
  BY <1>1, Constants DEF TimeInv, TypeOK
<1>3. ASSUME NEW s \in Others, state[s] # "UNUSED"
      PROVE  /\ rtime'[s] + Pending(s)' <= rtime[s] + Pending(s)
             /\ rtime'[s] \in Nat /\ Pending(s)' \in {0, 1} /\ rtime[s] \in Nat /\ Pending(s) \in {0, 1}
  <2>0. rtime[s] \in 0..Width - 1 /\ s \in Slots /\ s \in Nat
    BY Constants DEF TypeOK, Others
  <2>1. CASE tick = s
    <3>1. Pending(s) = 1 /\ Pending(s)' = 0
      BY <1>1, <2>0, <2>1, Constants DEF Pending
    <3>2. rtime[s] + 1 \in 0..Width - 1
      BY <1>2, <1>3, <2>0, <3>1, Constants DEF TimeInv
    <3>3. (rtime[s] + 1) % Width = rtime[s] + 1
      BY <2>0, <3>2, Remainder
    <3>4. rtime'[s] = rtime[s] + 1 \/ rtime'[s] = rtime[s]
      BY <1>1, <2>0, <2>1, <3>3 DEF TypeOK
    <3>5. QED
      BY <2>0, <3>1, <3>4, Constants
  <2>2. CASE tick # s
    <3>1. Pending(s)' = Pending(s) /\ Pending(s) \in {0, 1}
      BY <1>1, <2>0, <2>2, Constants DEF Pending
    <3>2. rtime'[s] = rtime[s]
      BY <1>1, <2>0, <2>2 DEF TypeOK
    <3>3. QED
      BY <2>0, <3>1, <3>2, Constants
  <2>3. QED
    BY <2>1, <2>2
<1>4. ASSUME NEW s \in Others, state[s] # "UNUSED", Lived(s)
      PROVE  Lived(s)'
  <2>1. PICK b \in 0..elapsed : ctime[s] = At(b) /\ rtime[s] + Pending(s) <= elapsed - b + 1
    BY <1>4 DEF Lived
  <2>2. rtime'[s] + Pending(s)' <= elapsed - b + 1
    BY <1>2, <1>3, <1>4, <2>1
  <2>3. QED
    BY <1>1, <2>1, <2>2 DEF Lived, At
<1>5. ASSUME NEW s \in Others, state[s] = "ZOMBIE", Died(s)
      PROVE  Died(s)'
  <2>1. rtime'[s] = rtime[s]
    BY <1>1, <1>5, Constants DEF TypeOK
  <2>2. QED
    BY <1>1, <1>5, <2>1 DEF Died, At
<1>6. ASSUME NEW s \in Others, state[s] # "UNUSED", rtime[s] + Pending(s) <= elapsed
      PROVE  rtime'[s] + Pending(s)' <= elapsed'
  BY <1>1, <1>2, <1>3, <1>6
<1>7. QED
  BY <1>1, <1>2, <1>4, <1>5, <1>6 DEF TimeInv

\* The clock interrupt ends: it has been at every slot.
LEMMA TimeWakeup ==
  ASSUME TypeOK, TimeInv, tick_wakeup
  PROVE  TimeInv'
<1>1. /\ tick = NPROC + 1 /\ tick' = 0 /\ UNCHANGED <<elapsed, rtime, ctime, etime>>
      /\ state' = [s \in Slots |-> IF state[s] = "SLEEPING" THEN "RUNNABLE" ELSE state[s]]
  BY DEF tick_wakeup, clock, tree, acct
<1>2. \A s \in Others : Pending(s)' = Pending(s) /\ s \in Slots
  BY <1>1, Constants DEF Pending, Others
<1>3. \A s \in Others : /\ state'[s] # "UNUSED" => state[s] # "UNUSED"
                        /\ state'[s] = "ZOMBIE" => state[s] = "ZOMBIE"
  BY <1>1, <1>2
<1>4. QED
  BY <1>1, <1>2, <1>3, SameTimes DEF TimeInv

\* A process is made: it has not run.
LEMMA TimeAlloc ==
  ASSUME TypeOK, TimeInv, NEW p \in Slots, NEW s \in Others, allocproc(p, s)
  PROVE  TimeInv'
<1>1. /\ state' = [state EXCEPT ![s] = "USED"] /\ rtime' = [rtime EXCEPT ![s] = 0]
      /\ etime' = [etime EXCEPT ![s] = 0] /\ ctime' = [ctime EXCEPT ![s] = ticks]
      /\ elapsed' = elapsed /\ tick' = tick
  BY DEF allocproc, NewRtime, clock
<1>2. \A q \in Others : Pending(q)' = Pending(q) /\ Pending(q) \in {0, 1} /\ q \in Slots
  BY <1>1, Constants DEF Pending
<1>3. ASSUME NEW q \in Others, q # s
      PROVE  /\ state'[q] = state[q] /\ rtime'[q] = rtime[q] /\ ctime'[q] = ctime[q]
             /\ etime'[q] = etime[q]
  BY <1>1, <1>2, <1>3 DEF TypeOK
<1>4. state'[s] = "USED" /\ rtime'[s] = 0 /\ ctime'[s] = At(elapsed)
  BY <1>1, <1>2 DEF TypeOK, At, ticks
<1>5. elapsed \in Nat /\ (Pending(s) = 1 => elapsed > 0)
  BY Constants DEF TypeOK, TimeInv, Pending
<1>6. rtime'[s] + Pending(s)' <= elapsed'
  BY <1>1, <1>2, <1>4, <1>5
<1>7. Lived(s)'
  <2>1. elapsed \in 0..elapsed' /\ rtime'[s] + Pending(s)' <= elapsed' - elapsed + 1
    BY <1>1, <1>2, <1>4, <1>5
  <2>2. QED
    BY <1>4, <2>1 DEF Lived, At
<1>8. ASSUME NEW q \in Others, q # s
      PROVE  /\ state'[q] # "UNUSED" => Lived(q)' /\ rtime'[q] + Pending(q)' <= elapsed'
             /\ state'[q] = "ZOMBIE" => Died(q)'
  BY <1>1, <1>2, <1>3, <1>8, SameTimes DEF TimeInv
<1>9. tick' # 0 => elapsed' > 0
  BY <1>1 DEF TimeInv
<1>10. QED
  BY <1>4, <1>6, <1>7, <1>8, <1>9 DEF TimeInv

\* A process exits: it has run in at most one more interrupt than it lived.
LEMMA TimeExit ==
  ASSUME TypeOK, CpuInv, TimeInv, NEW s \in Others, exit(s)
  PROVE  TimeInv'
<1>1. /\ state' = [state EXCEPT ![s] = "ZOMBIE"] /\ etime' = [etime EXCEPT ![s] = ticks]
      /\ UNCHANGED <<elapsed, tick, rtime, ctime>> /\ On(s) /\ s \in Slots
  BY Constants DEF exit, clock
<1>2. \A q \in Others : Pending(q)' = Pending(q) /\ Pending(q) \in {0, 1} /\ q \in Slots
  BY <1>1, Constants DEF Pending
<1>3. \A q \in Others : q # s => state'[q] = state[q] /\ etime'[q] = etime[q]
  BY <1>1, <1>2 DEF TypeOK
<1>4. state[s] = "RUNNING"
  BY <1>1, OnIsRunning
<1>5. Lived(s) /\ rtime[s] + Pending(s) <= elapsed
  BY <1>4 DEF TimeInv
<1>6. Lived(s)' /\ rtime'[s] + Pending(s)' <= elapsed'
  BY <1>1, <1>2, <1>5, SameTimes
<1>7. Died(s)'
  <2>1. PICK b \in 0..elapsed : ctime[s] = At(b) /\ rtime[s] + Pending(s) <= elapsed - b + 1
    BY <1>5 DEF Lived
  <2>2. etime'[s] = At(elapsed)
    BY <1>1 DEF TypeOK, At, ticks
  <2>3. /\ b \in 0..elapsed' /\ elapsed \in 0..elapsed' /\ b <= elapsed
        /\ rtime'[s] <= elapsed - b + 1
    <3>1. elapsed \in Nat /\ rtime[s] \in Nat
      BY <1>1, Constants DEF TypeOK
    <3>2. QED
      BY <1>1, <1>2, <2>1, <3>1
  <2>4. QED
    BY <1>1, <2>1, <2>2, <2>3 DEF Died, At
<1>8. ASSUME NEW q \in Others, q # s
      PROVE  /\ state'[q] # "UNUSED" => Lived(q)' /\ rtime'[q] + Pending(q)' <= elapsed'
             /\ state'[q] = "ZOMBIE" => Died(q)'
  BY <1>1, <1>2, <1>3, <1>8, SameTimes DEF TimeInv
<1>9. tick' # 0 => elapsed' > 0
  BY <1>1 DEF TimeInv
<1>10. QED
  BY <1>6, <1>7, <1>8, <1>9 DEF TimeInv

\* TimeInv is inductive.
LEMMA TimeNext ==
  ASSUME TypeOK, CpuInv, ForkInv, TimeInv, [Next]_vars
  PROVE  TimeInv'
<1>1. CASE clockintr \/ update_time \/ tick_wakeup
  BY <1>1, TimeClock, TimeUpdate, TimeWakeup
<1>2. ASSUME NEW s \in Others, exit(s) \/ \E p \in Slots : allocproc(p, s)
      PROVE  TimeInv'
  BY <1>2, TimeAlloc, TimeExit
<1>3. ASSUME NEW c \in CPUs, NEW s \in Slots, scheduler(c, s)
      PROVE  TimeInv'
  BY <1>3, TimeFrame, Constants DEF scheduler, clock, tree, acct, TypeOK
<1>4. ASSUME NEW s \in Slots, yield(s)
      PROVE  TimeInv'
  <2>1. state[s] = "RUNNING"
    BY <1>4, OnIsRunning DEF yield
  <2>2. QED
    BY <1>4, <2>1, TimeFrame, Constants DEF yield, clock, tree, acct, TypeOK
<1>5. ASSUME NEW s \in Slots, sleep_again(s) \/ \E m \in Sleeps : sys_sleep(s, m)
      PROVE  TimeInv'
  <2>1. state[s] = "RUNNING"
    BY <1>5, OnIsRunning DEF sleep_again, sys_sleep, User
  <2>2. /\ UNCHANGED <<elapsed, tick, rtime, ctime, etime>>
        /\ state' \in {state, [state EXCEPT ![s] = "SLEEPING"]}
    BY <1>5 DEF sleep_again, sys_sleep, sleep_loop, clock, tree, acct
  <2>3. QED
    BY <2>1, <2>2, TimeFrame, Constants DEF TypeOK
<1>6. ASSUME NEW s \in Slots, NEW k \in Calls \ {"sleep"}, call(s, k)
      PROVE  TimeInv'
  <2>1. UNCHANGED <<elapsed, tick, state, rtime, ctime, etime>>
    BY <1>6 DEF call, clock
  <2>2. QED
    BY <2>1, TimeFrame
<1>7. CASE Done \/ UNCHANGED vars
  BY <1>7, TimeFrame DEF Done, vars, clock, tree, acct
<1>8. ASSUME NEW s \in Others, kill(s) \/ \E p \in Slots : wait(p, s) \/ waitx(p, s)
      PROVE  TimeInv'
  <2>1. /\ UNCHANGED <<elapsed, tick, rtime, ctime, etime>>
        /\ \/ state' = state
           \/ state' = [state EXCEPT ![s] = "UNUSED"]
           \/ state[s] = "SLEEPING" /\ state' = [state EXCEPT ![s] = "RUNNABLE"]
    BY <1>8, Constants DEF kill, wait, waitx, freeproc, clock, acct, TypeOK
  <2>2. QED
    BY <2>1, TimeFrame, Constants DEF TypeOK
<1>9. ASSUME NEW p \in Slots, fork(p)
      PROVE  TimeInv'
  <2>1. /\ UNCHANGED <<elapsed, tick, rtime, ctime, etime>>
        /\ state[np[p]] = "USED"
        /\ \E v \in {"UNUSED", "RUNNABLE"} : state' = [state EXCEPT ![np[p]] = v]
    BY <1>9 DEF fork, freeproc, ForkInv, clock, acct
  <2>2. QED
    BY <2>1, TimeFrame, Constants DEF TypeOK
<1>10. QED
  BY <1>1, <1>2, <1>3, <1>4, <1>5, <1>6, <1>7, <1>8, <1>9 DEF Next

\* The times of a process that has exited give what waitx() should report.
LEMMA TimesReported ==
  ASSUME TypeOK, TimeInv
  PROVE  WaitTime
<1>1. SUFFICES ASSUME NEW s \in Others, state[s] = "ZOMBIE"
               PROVE  /\ waitx_rtime(s) <= MaxTicks
                      /\ waitx_wtime(s) \in 0..MaxTicks \cup {Width - 1}
  BY DEF WaitTime
<1>2. s \in Slots /\ elapsed \in 0..MaxTicks /\ rtime[s] \in Nat /\ Pending(s) \in {0, 1}
  BY Constants DEF TypeOK, Pending
<1>3. rtime[s] + Pending(s) <= elapsed /\ Died(s)
  BY <1>1 DEF TimeInv
<1>4. rtime[s] \in 0..MaxTicks
  BY <1>2, <1>3, Constants
<1>5. PICK b \in 0..elapsed, d \in 0..elapsed :
        b <= d /\ ctime[s] = At(b) /\ etime[s] = At(d) /\ rtime[s] <= d - b + 1
  BY <1>3 DEF Died
<1>6. b \in 0..MaxTicks /\ d \in 0..MaxTicks
  BY <1>2, <1>5, Constants
<1>7. (At(d) - At(b) - rtime[s]) % Width \in 0..MaxTicks \cup {Width - 1}
  BY <1>4, <1>5, <1>6, WaitingTime
<1>8. QED
  BY <1>4, <1>5, <1>7, Constants DEF waitx_rtime, waitx_wtime

\* waitx() reports a running time that is no longer than the machine has run, and a
\* waiting time that is either that short too or, for a process charged with the clock
\* interrupt it was created in, 2^32 - 1.
THEOREM WaitTimesInRange == Spec => []WaitTime
<1>1. Init => CpuInv /\ ForkInv /\ SleepInv /\ TimeInv
  BY Constants DEF Init, CpuInv, ForkInv, SleepInv, TimeInv
<1>2. TypeOK /\ CpuInv /\ ForkInv /\ SleepInv /\ TimeInv /\ [Next]_vars =>
        CpuInv' /\ ForkInv' /\ SleepInv' /\ TimeInv'
  BY SleepNext, ForkNext, TimeNext
<1>3. TypeOK /\ TimeInv => WaitTime
  BY TimesReported
<1>4. QED
  BY <1>1, <1>2, <1>3, TypeCorrect, PTL DEF Spec
=============================================================================
