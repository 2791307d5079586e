------------------------------- MODULE Alarm --------------------------------
(***************************************************************************)
(* sigalarm and sigreturn: the alarm fields of struct proc, the timer      *)
(* branch of usertrap() that enters a handler, and what fork, exec, exit   *)
(* and wait do to those fields.                                            *)
(*                                                                         *)
(* The fields belong to the process that traps, so a trap is one step.     *)
(* Processes meet in two places only: the pages kalloc() hands out, and    *)
(* the slots of proc[], which one process leaves to the next.              *)
(***************************************************************************)
EXTENDS Integers, Sequences, FiniteSets

CONSTANTS
  NPROC,       \* number of slots of proc[]
  Progs,       \* the programs exec() can load
  Intervals,   \* the intervals programs pass to sigalarm(); 0 disarms
  TickCap,     \* bound: ticks_count saturates here, at or above every interval
  NPAGES,      \* bound: the pages kalloc() has for trapframes
  MaxDepth,    \* bound: no handler is entered on top of this many
  None,        \* the null pointer
  Rearm        \* may a handler call sigalarm() with a positive interval?

ASSUME SlotAssumption == NPROC \in Nat \ {0}
ASSUME IntervalAssumption == Intervals \subseteq 0..TickCap /\ TickCap \in Nat
ASSUME PageAssumption == NPAGES \in Nat \ {0} /\ MaxDepth \in Nat \ {0}
ASSUME RearmAssumption == Rearm \in BOOLEAN

Slots    == 1..NPROC
initproc == 1

\* A trapframe, as far as it matters here: whose code epc points into, whether
\* that is the alarm handler, and a register (a0, which system calls set).
Frame == [prog : Progs, at : {"main", "handler"}, a0 : {0, 1}]

ASSUME NoneAssumption == None \notin Frame \cup Progs

VARIABLES
  status,           \* per slot: "free", "live" or "zombie" (p->state)
  killed,
  prog,             \* the program whose image p->pagetable maps
  trapframe,
  alarm_interval, alarm_handler, ticks_count, alarm_on, alarm_tf,
  pages,            \* pages allocated for trapframes and saved trapframes
  panicked,         \* panic() has stopped the kernel
  intr              \* history: the contexts that running handlers interrupted

alarm == <<alarm_interval, alarm_handler, ticks_count, alarm_on>>
vars  == <<status, killed, prog, trapframe, alarm, alarm_tf, pages, panicked, intr>>

TypeOK ==
  /\ status \in [Slots -> {"free", "live", "zombie"}]
  /\ killed \in [Slots -> BOOLEAN]
  /\ prog \in [Slots -> Progs]
  /\ trapframe \in [Slots -> Frame]
  /\ alarm_interval \in [Slots -> Intervals \cup {0}]
  /\ alarm_handler \in [Slots -> Progs \cup {None}]
  /\ ticks_count \in [Slots -> 0..TickCap]
  /\ alarm_on \in [Slots -> BOOLEAN]
  /\ alarm_tf \in [Slots -> Frame \cup {None}]
  /\ pages \in 0..NPAGES
  /\ panicked \in BOOLEAN
  /\ intr \in [Slots -> Seq(Frame)]

\* userinit(): init is the only process.
Init ==
  /\ status = [s \in Slots |-> IF s = initproc THEN "live" ELSE "free"]
  /\ killed = [s \in Slots |-> FALSE]
  /\ \E p \in Progs :
       /\ prog = [s \in Slots |-> p]
       /\ trapframe = [s \in Slots |-> [prog |-> p, at |-> "main", a0 |-> 0]]
  /\ alarm_interval = [s \in Slots |-> 0]
  /\ alarm_handler = [s \in Slots |-> None]
  /\ ticks_count = [s \in Slots |-> 0]
  /\ alarm_on = [s \in Slots |-> FALSE]
  /\ alarm_tf = [s \in Slots |-> None]
  /\ pages = 1
  /\ panicked = FALSE
  /\ intr = [s \in Slots |-> <<>>]

-----------------------------------------------------------------------------

Running(s) == ~panicked /\ status[s] = "live"

\* usertrap() lets a system call through: the process has not been killed.
Syscall(s) == Running(s) /\ ~killed[s]

InHandler(s) == trapframe[s].at = "handler"

\* User code computes.
Run(s) ==
  /\ Running(s)
  /\ \E v \in {0, 1} : trapframe' = [trapframe EXCEPT ![s].a0 = v]
  /\ UNCHANGED <<status, killed, prog, alarm, alarm_tf, pages, panicked, intr>>

Count(s) == IF ticks_count[s] < TickCap THEN ticks_count[s] + 1 ELSE TickCap

\* Mutant: the alarm stays on while the handler runs.
FireStaysOn(s) ==
  /\ alarm_tf' = [alarm_tf EXCEPT ![s] = trapframe[s]]
  /\ trapframe' = [trapframe EXCEPT ![s].prog = alarm_handler[s], ![s].at = "handler"]
  /\ ticks_count' = [ticks_count EXCEPT ![s] = 0]
  /\ UNCHANGED alarm_on

\* The alarm is due: save the trapframe in a new page and point epc at the
\* handler.  The other registers stay as they are.
Fire(s) ==
  /\ alarm_on' = [alarm_on EXCEPT ![s] = FALSE]
  /\ alarm_tf' = [alarm_tf EXCEPT ![s] = trapframe[s]]
  /\ trapframe' = [trapframe EXCEPT ![s].prog = alarm_handler[s], ![s].at = "handler"]
  /\ ticks_count' = [ticks_count EXCEPT ![s] = 0]

\* A timer interrupt from user space.  A killed process exits, but only after
\* the alarm has been dealt with.
Tick(s) ==
  /\ Running(s)
  /\ IF alarm_interval[s] > 0 /\ Count(s) >= alarm_interval[s] /\ alarm_on[s]
     THEN \/ /\ pages = NPAGES /\ panicked' = TRUE
             /\ alarm_on' = [alarm_on EXCEPT ![s] = FALSE]
             /\ ticks_count' = [ticks_count EXCEPT ![s] = Count(s)]
             /\ alarm_tf' = [alarm_tf EXCEPT ![s] = None]
             /\ UNCHANGED <<status, trapframe, pages, intr>>
          \/ /\ pages < NPAGES /\ pages' = pages + 1
             /\ Len(intr[s]) < MaxDepth
             /\ Fire(s)
             /\ intr' = [intr EXCEPT ![s] = IF killed[s] THEN <<>> ELSE <<trapframe[s]>> \o @]
             /\ status' = [status EXCEPT ![s] = IF killed[s] THEN "zombie" ELSE "live"]
             /\ UNCHANGED panicked
     ELSE /\ ticks_count' = [ticks_count EXCEPT ![s] = Count(s)]
          /\ status' = [status EXCEPT ![s] = IF killed[s] THEN "zombie" ELSE "live"]
          /\ intr' = [intr EXCEPT ![s] = IF killed[s] THEN <<>> ELSE @]
          /\ UNCHANGED <<trapframe, alarm_on, alarm_tf, pages, panicked>>
  /\ UNCHANGED <<killed, prog, alarm_interval, alarm_handler>>

\* sigalarm(n, handler), with a handler of the calling program.
Sigalarm(s, n) ==
  /\ Syscall(s) /\ s # initproc
  /\ n > 0 /\ InHandler(s) => Rearm
  /\ alarm_interval' = [alarm_interval EXCEPT ![s] = n]
  /\ alarm_handler' = [alarm_handler EXCEPT ![s] = IF n = 0 THEN None ELSE prog[s]]
  /\ ticks_count' = [ticks_count EXCEPT ![s] = 0]
  /\ alarm_on' = [alarm_on EXCEPT ![s] = n > 0]
  /\ trapframe' = [trapframe EXCEPT ![s].a0 = 0]
  /\ UNCHANGED <<status, killed, prog, alarm_tf, pages, panicked, intr>>

\* Mutant: the call returns through syscall(), which stores its result in a0.
RestoreReturns(s) ==
  /\ trapframe' = [trapframe EXCEPT ![s] = [alarm_tf[s] EXCEPT !.a0 = 0]]
  /\ alarm_on' = [alarm_on EXCEPT ![s] = TRUE]

\* Mutant: the alarm is not turned on again.
RestoreStaysOff(s) ==
  /\ trapframe' = [trapframe EXCEPT ![s] = alarm_tf[s]]
  /\ UNCHANGED alarm_on

Restore(s) ==
  /\ trapframe' = [trapframe EXCEPT ![s] = alarm_tf[s]]
  /\ alarm_on' = [alarm_on EXCEPT ![s] = TRUE]

\* sigreturn() leaves through usertrapret(), past the code that sets a0.
Sigreturn(s) ==
  /\ Syscall(s) /\ s # initproc
  /\ IF alarm_tf[s] # None
     THEN /\ Restore(s)
          /\ alarm_tf' = [alarm_tf EXCEPT ![s] = None]
          /\ pages' = pages - 1
     ELSE UNCHANGED <<trapframe, alarm_on, alarm_tf, pages>>
  /\ intr' = [intr EXCEPT ![s] = IF @ = <<>> THEN <<>> ELSE Tail(@)]
  /\ UNCHANGED <<status, killed, prog, alarm_interval, alarm_handler, ticks_count, panicked>>

-----------------------------------------------------------------------------
(* The rest of a process's life, as far as it touches the alarm.           *)

\* fork(): allocproc() clears the alarm fields of the slot except alarm_tf.  A
\* fork that fails changes a0 only, as Run does.
Fork(s, q) ==
  /\ Syscall(s)
  /\ status[q] = "free" /\ \A t \in Slots : status[t] = "free" => q <= t
  /\ pages < NPAGES /\ pages' = pages + 1
  /\ status' = [status EXCEPT ![q] = "live"]
  /\ prog' = [prog EXCEPT ![q] = prog[s]]
  /\ trapframe' = [trapframe EXCEPT ![q] = [trapframe[s] EXCEPT !.a0 = 0], ![s].a0 = 1]
  /\ alarm_interval' = [alarm_interval EXCEPT ![q] = 0]
  /\ alarm_handler' = [alarm_handler EXCEPT ![q] = None]
  /\ ticks_count' = [ticks_count EXCEPT ![q] = 0]
  /\ alarm_on' = [alarm_on EXCEPT ![q] = FALSE]
  /\ UNCHANGED <<killed, alarm_tf, panicked, intr>>

\* exec() replaces the image and the trapframe's entry, and no alarm field.
Exec(s, p) ==
  /\ Syscall(s) /\ s # initproc
  /\ prog' = [prog EXCEPT ![s] = p]
  /\ trapframe' = [trapframe EXCEPT ![s] = [prog |-> p, at |-> "main", a0 |-> 1]]
  /\ intr' = [intr EXCEPT ![s] = <<>>]
  /\ UNCHANGED <<status, killed, alarm, alarm_tf, pages, panicked>>

\* exit(), called or imposed on a killed process at its next system call.
Exit(s) ==
  /\ Running(s) /\ s # initproc
  /\ status' = [status EXCEPT ![s] = "zombie"]
  /\ intr' = [intr EXCEPT ![s] = <<>>]
  /\ UNCHANGED <<killed, prog, trapframe, alarm, alarm_tf, pages, panicked>>

\* wait() by the parent: freeproc() frees the trapframe, not alarm_tf.
Reap(s) ==
  /\ ~panicked /\ status[s] = "zombie"
  /\ status' = [status EXCEPT ![s] = "free"]
  /\ killed' = [killed EXCEPT ![s] = FALSE]
  /\ pages' = pages - 1
  /\ UNCHANGED <<prog, trapframe, alarm, alarm_tf, panicked, intr>>

Kill(s) ==
  /\ Running(s) /\ s # initproc
  /\ killed' = [killed EXCEPT ![s] = TRUE]
  /\ UNCHANGED <<status, prog, trapframe, alarm, alarm_tf, pages, panicked, intr>>

\* panic() spins for ever.
Halted == panicked /\ UNCHANGED vars

Next ==
  \/ \E s \in Slots :
       \/ Run(s) \/ Tick(s) \/ Sigreturn(s) \/ Exit(s) \/ Reap(s) \/ Kill(s)
       \/ \E n \in Intervals : Sigalarm(s, n)
       \/ \E q \in Slots : Fork(s, q)
       \/ \E p \in Progs : Exec(s, p)
  \/ Halted

Spec == Init /\ [][Next]_vars

\* The timer keeps interrupting a process that runs.
FairSpec == Spec /\ \A s \in Slots : WF_vars(Tick(s))

-----------------------------------------------------------------------------
(* Properties.                                                             *)

\* alarmtest.c's test2: a handler is not entered again before it has returned.
NoReentry == \A s \in Slots : Len(intr[s]) <= 1

\* alarmtest.c's test1 and test3: sigreturn() takes a handler's process back to
\* the point where the timer interrupt came, with every register as it was,
\* whatever earlier owners of the slot have left in alarm_tf.
ReturnsToInterrupted ==
  [][\A s \in Slots :
       Sigreturn(s) /\ intr[s] # <<>> => trapframe'[s] = Head(intr[s])]_vars

\* freeproc() frees "the data hanging from" a process: every page that kalloc()
\* gave out for a trapframe hangs from some process.  The code violates this; no run
\* checks it (README, section 4).
PagesOwned ==
  pages = Cardinality({s \in Slots : status[s] # "free"})
        + Cardinality({s \in Slots : status[s] # "free" /\ alarm_tf[s] # None})

\* alarmtest.c's test0 and test1: a process that has set an alarm, and does not
\* keep setting it anew, gets its handler called, and called again once the
\* handler has returned.
AlarmFires ==
  \A s \in Slots :
    <>[][\A n \in Intervals : ~Sigalarm(s, n)]_vars =>
      ((/\ status[s] = "live" /\ alarm_interval[s] > 0 /\ intr[s] = <<>>
        /\ alarm_on[s] \/ alarm_tf[s] = None)
         ~> (intr[s] # <<>> \/ alarm_interval[s] = 0 \/ status[s] # "live" \/ panicked))

=============================================================================
