----------------------------- MODULE AlarmProofs -----------------------------
(***************************************************************************)
(* sigalarm and sigreturn of module Alarm, for any number of processes,    *)
(* programs, intervals and pages.                                          *)
(***************************************************************************)
EXTENDS Alarm, FiniteSetTheorems, TLAPS

-----------------------------------------------------------------------------
(* Types, and the pages that types depend on.                              *)

\* The slots that own a trapframe, and those with a saved one.
Owners == {s \in Slots : status[s] # "free"}
Savers == {s \in Slots : alarm_tf[s] # None}

\* Every trapframe in use and every saved one is a page of its own.
PageInv == Cardinality(Owners) + Cardinality(Savers) <= pages

\* An armed alarm has a handler.
HandlerSet == \A s \in Slots : alarm_interval[s] > 0 => alarm_handler[s] # None

TInv == TypeOK /\ PageInv /\ HandlerSet

(* The handler that runs.                                                  *)

\* While a handler runs its alarm is off, and alarm_tf is what it interrupted;
\* a process that is not live is in no handler.
HandlerInv ==
  \A s \in Slots :
    intr[s] # <<>> =>
      /\ Len(intr[s]) = 1 /\ alarm_tf[s] = Head(intr[s])
      /\ ~alarm_on[s] /\ InHandler(s) /\ status[s] = "live"

AInv == TInv /\ HandlerInv

-----------------------------------------------------------------------------
(* Type correctness.                                                       *)

\* Sets of slots are finite, so they can be counted.
LEMMA SlotsFinite ==
  ASSUME NEW S, S \subseteq Slots
  PROVE  IsFiniteSet(S) /\ Cardinality(S) \in Nat
<1>1. IsFiniteSet(Slots)
  BY SlotAssumption, FS_Interval DEF Slots
<1>2. QED
  BY <1>1, FS_Subset, FS_CardinalityType

\* A register of a trapframe may be set.
LEMMA SetRegister ==
  ASSUME NEW f \in Frame, NEW v \in {0, 1}
  PROVE  /\ [f EXCEPT !.a0 = v] \in Frame
         /\ [f EXCEPT !.a0 = v].at = f.at
BY DEF Frame

\* Initially only the first process exists, and no handler runs.
LEMMA TypeInit ==
  ASSUME Init
  PROVE  TInv
<1>1. initproc \in Slots
  BY SlotAssumption DEF initproc, Slots
<1>2. TypeOK
  <2>1. trapframe \in [Slots -> Frame] /\ prog \in [Slots -> Progs]
    BY DEF Init, Frame
  <2>2. intr \in [Slots -> Seq(Frame)]
    BY DEF Init
  <2>3. alarm_interval \in [Slots -> Intervals \cup {0}] /\ ticks_count \in [Slots -> 0..TickCap]
    BY IntervalAssumption DEF Init
  <2>4. pages \in 0..NPAGES
    BY PageAssumption DEF Init
  <2>5. QED
    BY <2>1, <2>2, <2>3, <2>4 DEF Init, TypeOK
<1>3. Owners = {initproc} /\ Savers = {}
  BY <1>1 DEF Init, Owners, Savers
<1>4. PageInv /\ HandlerSet
  <2>1. Cardinality(Owners) = 1 /\ Cardinality(Savers) = 0
    BY <1>3, FS_Singleton, FS_EmptySet
  <2>2. QED
    BY <2>1 DEF Init, PageInv, HandlerSet
<1>5. QED
  BY <1>2, <1>4 DEF TInv

\* The alarm goes off, or its time has not come, or there is no page for it.
LEMMA TickType ==
  ASSUME TInv, NEW s \in Slots, Tick(s)
  PROVE  TInv'
<1>1. /\ Owners \subseteq Slots /\ Savers \subseteq Slots
      /\ Owners' \subseteq Slots /\ Savers' \subseteq Slots
  BY DEF Owners, Savers
<1>2. /\ IsFiniteSet(Owners) /\ Cardinality(Owners) \in Nat
      /\ IsFiniteSet(Savers) /\ Cardinality(Savers) \in Nat
  BY <1>1, SlotsFinite
<1>3. Count(s) \in 0..TickCap
  BY IntervalAssumption DEF TInv, TypeOK, Count
<1>4. /\ UNCHANGED <<killed, prog, alarm_interval, alarm_handler>>
      /\ Running(s)
  BY DEF Tick
<1>5. HandlerSet'
  BY <1>4 DEF TInv, HandlerSet
<1>6. CASE ~(alarm_interval[s] > 0 /\ Count(s) >= alarm_interval[s] /\ alarm_on[s])
  <2>1. /\ ticks_count' = [ticks_count EXCEPT ![s] = Count(s)]
        /\ status' = [status EXCEPT ![s] = IF killed[s] THEN "zombie" ELSE "live"]
        /\ intr' = [intr EXCEPT ![s] = IF killed[s] THEN <<>> ELSE @]
        /\ UNCHANGED <<trapframe, alarm_on, alarm_tf, pages, panicked>>
    BY <1>6 DEF Tick
  <2>2. intr' \in [Slots -> Seq(Frame)]
    BY <2>1 DEF TInv, TypeOK
  <2>3. TypeOK'
    BY <1>3, <1>4, <2>1, <2>2 DEF TInv, TypeOK
  <2>4. Owners' = Owners /\ Savers' = Savers
    BY <1>4, <2>1 DEF TInv, TypeOK, Owners, Savers, Running
  <2>5. QED
    BY <1>5, <2>1, <2>3, <2>4 DEF TInv, PageInv
<1>7. CASE /\ alarm_interval[s] > 0 /\ Count(s) >= alarm_interval[s] /\ alarm_on[s]
           /\ pages = NPAGES /\ panicked' = TRUE
           /\ alarm_on' = [alarm_on EXCEPT ![s] = FALSE]
           /\ ticks_count' = [ticks_count EXCEPT ![s] = Count(s)]
           /\ alarm_tf' = [alarm_tf EXCEPT ![s] = None]
           /\ UNCHANGED <<status, trapframe, pages, intr>>
  <2>1. TypeOK'
    BY <1>3, <1>4, <1>7 DEF TInv, TypeOK
  <2>2. Owners' = Owners /\ Savers' = Savers \ {s}
    BY <1>7 DEF TInv, TypeOK, Owners, Savers
  <2>3. Cardinality(Savers') <= Cardinality(Savers) /\ Cardinality(Savers') \in Nat
    BY <1>1, <1>2, <2>2, SlotsFinite, FS_RemoveElement
  <2>4. PageInv'
    BY <1>2, <1>7, <2>2, <2>3 DEF TInv, TypeOK, PageInv
  <2>5. QED
    BY <1>5, <2>1, <2>4 DEF TInv
<1>8. CASE /\ alarm_interval[s] > 0 /\ Count(s) >= alarm_interval[s] /\ alarm_on[s]
           /\ pages < NPAGES /\ pages' = pages + 1
           /\ Fire(s)
           /\ intr' = [intr EXCEPT ![s] = IF killed[s] THEN <<>> ELSE <<trapframe[s]>> \o @]
           /\ status' = [status EXCEPT ![s] = IF killed[s] THEN "zombie" ELSE "live"]
           /\ UNCHANGED panicked
  <2>1. intr' \in [Slots -> Seq(Frame)]
    <3>1. <<trapframe[s]>> \o intr[s] \in Seq(Frame) /\ <<>> \in Seq(Frame)
      BY DEF TInv, TypeOK
    <3>2. QED
      BY <1>8, <3>1 DEF TInv, TypeOK
  <2>2. alarm_handler[s] \in Progs
    BY <1>8 DEF TInv, TypeOK, HandlerSet
  <2>3. /\ trapframe' \in [Slots -> Frame] /\ alarm_tf' \in [Slots -> Frame \cup {None}]
    BY <1>8, <2>2 DEF TInv, TypeOK, Fire, Frame
  <2>4. TypeOK'
    BY <1>3, <1>4, <1>8, <2>1, <2>3, PageAssumption, IntervalAssumption
    DEF TInv, TypeOK, Fire
  <2>5. Owners' = Owners
    BY <1>4, <1>8 DEF TInv, TypeOK, Owners, Running
  <2>6. Savers' = Savers \cup {s}
    <3>1. trapframe[s] # None
      BY NoneAssumption DEF TInv, TypeOK
    <3>2. QED
      BY <1>8, <3>1 DEF TInv, TypeOK, Savers, Fire
  <2>7. Cardinality(Savers') <= Cardinality(Savers) + 1 /\ Cardinality(Savers') \in Nat
    BY <1>1, <1>2, <2>6, SlotsFinite, FS_AddElement
  <2>8. PageInv'
    BY <1>2, <1>8, <2>5, <2>7 DEF TInv, TypeOK, PageInv
  <2>9. QED
    BY <1>5, <2>4, <2>8 DEF TInv
<1>9. QED
  BY <1>6, <1>7, <1>8 DEF Tick

\* TInv is inductive.
LEMMA TypeNext ==
  ASSUME TInv, [Next]_vars
  PROVE  TInv'
<1>0. /\ Owners \subseteq Slots /\ Savers \subseteq Slots
      /\ IsFiniteSet(Owners) /\ Cardinality(Owners) \in Nat
      /\ IsFiniteSet(Savers) /\ Cardinality(Savers) \in Nat
  BY SlotsFinite DEF Owners, Savers
<1>1. ASSUME NEW s \in Slots, Run(s)
      PROVE  TInv'
  <2>1. TypeOK'
    <3>1. trapframe' \in [Slots -> Frame]
      <4>1. PICK v \in {0, 1} : trapframe' = [trapframe EXCEPT ![s].a0 = v]
        BY <1>1 DEF Run
      <4>2. [trapframe[s] EXCEPT !.a0 = v] \in Frame
        BY SetRegister DEF TInv, TypeOK
      <4>3. QED
        BY <4>1, <4>2 DEF TInv, TypeOK
    <3>2. QED
      BY <1>1, <3>1 DEF TInv, TypeOK, Run, Running, alarm
  <2>2. Owners' = Owners /\ Savers' = Savers /\ pages' = pages
    BY <1>1 DEF TInv, TypeOK, Owners, Savers, Run, Running, alarm, Frame
  <2>3. PageInv' /\ HandlerSet'
    BY <1>1, <2>2 DEF TInv, PageInv, HandlerSet, TypeOK, Run, Running, alarm, Frame
  <2>4. QED
    BY <2>1, <2>3 DEF TInv
<1>2. ASSUME NEW s \in Slots, NEW n \in Intervals, Sigalarm(s, n)
      PROVE  TInv'
  <2>1. TypeOK'
    <3>1. trapframe' \in [Slots -> Frame]
      BY <1>2 DEF TInv, TypeOK, Sigalarm, Syscall, Running, Frame
    <3>2. QED
      BY <1>2, <3>1, IntervalAssumption DEF TInv, TypeOK, Sigalarm, Syscall, Running
  <2>2. Owners' = Owners /\ Savers' = Savers /\ pages' = pages
    BY <1>2 DEF TInv, TypeOK, Owners, Savers, Sigalarm, Syscall, Running, Frame
  <2>3. PageInv' /\ HandlerSet'
    BY <1>2, <2>2, NoneAssumption DEF TInv, PageInv, HandlerSet, TypeOK, Sigalarm, Syscall, Running, Frame
  <2>4. QED
    BY <2>1, <2>3 DEF TInv
<1>3. ASSUME NEW s \in Slots, NEW p \in Progs, Exec(s, p)
      PROVE  TInv'
  <2>1. TypeOK'
    <3>1. trapframe' \in [Slots -> Frame] /\ intr' \in [Slots -> Seq(Frame)]
      <4>1. [prog |-> p, at |-> "main", a0 |-> 1] \in Frame /\ <<>> \in Seq(Frame)
        BY DEF Frame
      <4>2. QED
        BY <1>3, <4>1 DEF TInv, TypeOK, Exec
    <3>2. QED
      BY <1>3, <3>1 DEF TInv, TypeOK, Exec, Syscall, Running, alarm
  <2>2. Owners' = Owners /\ Savers' = Savers /\ pages' = pages
    BY <1>3 DEF TInv, TypeOK, Owners, Savers, Exec, Syscall, Running, alarm, Frame
  <2>3. PageInv' /\ HandlerSet'
    BY <1>3, <2>2 DEF TInv, PageInv, HandlerSet, TypeOK, Exec, Syscall, Running, alarm, Frame
  <2>4. QED
    BY <2>1, <2>3 DEF TInv
<1>4. ASSUME NEW s \in Slots, Exit(s)
      PROVE  TInv'
  <2>1. TypeOK'
    BY <1>4 DEF TInv, TypeOK, Exit, Running, alarm
  <2>2. Owners' = Owners /\ Savers' = Savers /\ pages' = pages
    BY <1>4 DEF TInv, TypeOK, Owners, Savers, Exit, Running, alarm
  <2>3. PageInv' /\ HandlerSet'
    BY <1>4, <2>2 DEF TInv, PageInv, HandlerSet, TypeOK, Exit, Running, alarm
  <2>4. QED
    BY <2>1, <2>3 DEF TInv
<1>5. ASSUME NEW s \in Slots, Kill(s)
      PROVE  TInv'
  <2>1. TypeOK'
    BY <1>5 DEF TInv, TypeOK, Kill, Running, alarm
  <2>2. Owners' = Owners /\ Savers' = Savers /\ pages' = pages
    BY <1>5 DEF TInv, TypeOK, Owners, Savers, Kill, Running, alarm
  <2>3. PageInv' /\ HandlerSet'
    BY <1>5, <2>2 DEF TInv, PageInv, HandlerSet, TypeOK, Kill, Running, alarm
  <2>4. QED
    BY <2>1, <2>3 DEF TInv
<1>6. ASSUME NEW s \in Slots, Sigreturn(s)
      PROVE  TInv'
  <2>1. intr' \in [Slots -> Seq(Frame)]
    <3>1. intr[s] \in Seq(Frame) /\ (intr[s] # <<>> => Tail(intr[s]) \in Seq(Frame))
      BY DEF TInv, TypeOK
    <3>2. QED
      BY <1>6, <3>1 DEF TInv, TypeOK, Sigreturn
  <2>2. UNCHANGED <<status, killed, prog, alarm_interval, alarm_handler, ticks_count, panicked>>
    BY <1>6 DEF Sigreturn
  <2>3. CASE alarm_tf[s] # None
    <3>1. /\ trapframe' = [trapframe EXCEPT ![s] = alarm_tf[s]]
          /\ alarm_on' = [alarm_on EXCEPT ![s] = TRUE]
          /\ alarm_tf' = [alarm_tf EXCEPT ![s] = None] /\ pages' = pages - 1
      BY <1>6, <2>3 DEF Sigreturn, Restore
    <3>2. Owners' = Owners /\ Savers' = Savers \ {s} /\ s \in Savers
      BY <2>2, <2>3, <3>1 DEF TInv, TypeOK, Owners, Savers
    <3>3. Cardinality(Savers') = Cardinality(Savers) - 1 /\ Cardinality(Savers') \in Nat
      BY <1>0, <3>2, SlotsFinite, FS_RemoveElement
    <3>4. PageInv' /\ pages' >= 0
      BY <1>0, <3>1, <3>2, <3>3 DEF TInv, TypeOK, PageInv
    <3>5. TypeOK'
      BY <2>1, <2>2, <2>3, <3>1, <3>4, PageAssumption DEF TInv, TypeOK
    <3>6. QED
      BY <2>2, <3>4, <3>5 DEF TInv, HandlerSet
  <2>4. CASE alarm_tf[s] = None
    <3>1. UNCHANGED <<trapframe, alarm_on, alarm_tf, pages>>
      BY <1>6, <2>4 DEF Sigreturn
    <3>2. QED
      BY <2>1, <2>2, <3>1 DEF TInv, TypeOK, PageInv, Owners, Savers, HandlerSet
  <2>5. QED
    BY <2>3, <2>4
<1>7. ASSUME NEW s \in Slots, NEW q \in Slots, Fork(s, q)
      PROVE  TInv'
  <2>1. TypeOK'
    <3>1. trapframe' \in [Slots -> Frame]
      <4>1. /\ [trapframe[s] EXCEPT !.a0 = 0] \in Frame
            /\ [trapframe[s] EXCEPT !.a0 = 1] \in Frame
        BY SetRegister DEF TInv, TypeOK
      <4>2. /\ s # q
            /\ trapframe' = [trapframe EXCEPT ![q] = [trapframe[s] EXCEPT !.a0 = 0],
                                              ![s].a0 = 1]
        BY <1>7 DEF Fork, Syscall, Running
      <4>3. QED
        BY <4>1, <4>2 DEF TInv, TypeOK
    <3>2. pages' \in 0..NPAGES
      BY <1>7, PageAssumption DEF TInv, TypeOK, Fork
    <3>3. /\ alarm_interval' \in [Slots -> Intervals \cup {0}]
          /\ ticks_count' \in [Slots -> 0..TickCap]
      BY <1>7, IntervalAssumption DEF TInv, TypeOK, Fork
    <3>4. QED
      BY <1>7, <3>1, <3>2, <3>3 DEF TInv, TypeOK, Fork
  <2>2. Owners' = Owners \cup {q} /\ q \notin Owners /\ Savers' = Savers /\ pages' = pages + 1
    BY <1>7 DEF TInv, TypeOK, Owners, Savers, Fork
  <2>3. Cardinality(Owners') = Cardinality(Owners) + 1
    BY <1>0, <2>2, FS_AddElement
  <2>4. PageInv' /\ HandlerSet'
    BY <1>0, <1>7, <2>2, <2>3 DEF TInv, TypeOK, PageInv, HandlerSet, Fork
  <2>5. QED
    BY <2>1, <2>4 DEF TInv
<1>8. ASSUME NEW s \in Slots, Reap(s)
      PROVE  TInv'
  <2>1. Owners' = Owners \ {s} /\ s \in Owners /\ Savers' = Savers /\ pages' = pages - 1
    BY <1>8 DEF TInv, TypeOK, Owners, Savers, Reap
  <2>2. Cardinality(Owners') = Cardinality(Owners) - 1 /\ Cardinality(Owners') \in Nat
    BY <1>0, <2>1, SlotsFinite, FS_RemoveElement
  <2>3. PageInv' /\ HandlerSet' /\ pages' >= 0
    BY <1>0, <1>8, <2>1, <2>2 DEF TInv, TypeOK, PageInv, HandlerSet, Reap, alarm
  <2>4. TypeOK'
    BY <1>8, <2>1, <2>3, PageAssumption DEF TInv, TypeOK, Reap, alarm
  <2>5. QED
    BY <2>3, <2>4 DEF TInv
<1>9. CASE UNCHANGED vars
  BY <1>9 DEF TInv, TypeOK, PageInv, Owners, Savers, HandlerSet, vars, alarm
<1>10. QED
  BY <1>1, <1>2, <1>3, <1>4, <1>5, <1>6, <1>7, <1>8, <1>9, TickType DEF Next, Halted

\* The alarm fields keep their types; in particular kfree() gives back no page,
\* of a trapframe or of a saved one, that kalloc() has not given out.
THEOREM TypeCorrect == Spec => []TypeOK
<1>1. Init => TInv
  BY TypeInit
<1>2. TInv /\ [Next]_vars => TInv'
  BY TypeNext
<1>3. TInv => TypeOK
  BY DEF TInv
<1>4. QED
  BY <1>1, <1>2, <1>3, PTL DEF Spec

-----------------------------------------------------------------------------
(* Handlers.                                                               *)

\* A timer interrupt enters a handler only where none runs.
LEMMA TickHandler ==
  ASSUME TInv, HandlerInv, NEW s \in Slots, Tick(s)
  PROVE  HandlerInv'
<1>1. SUFFICES ASSUME NEW t \in Slots, intr'[t] # <<>>
               PROVE  /\ Len(intr'[t]) = 1 /\ alarm_tf'[t] = Head(intr'[t])
                      /\ ~alarm_on'[t] /\ InHandler(t)' /\ status'[t] = "live"
  BY DEF HandlerInv
<1>2. CASE t # s
  BY <1>1, <1>2 DEF TInv, TypeOK, HandlerInv, InHandler, Tick, Fire
<1>3. CASE t = s /\ ~(alarm_interval[s] > 0 /\ Count(s) >= alarm_interval[s] /\ alarm_on[s])
  BY <1>1, <1>3 DEF TInv, TypeOK, HandlerInv, InHandler, Tick, Running
<1>4. CASE t = s /\ alarm_interval[s] > 0 /\ Count(s) >= alarm_interval[s] /\ alarm_on[s]
  <2>1. intr[s] = <<>>
    BY <1>4 DEF HandlerInv
  <2>2. /\ Fire(s) /\ ~killed[s] /\ status' = [status EXCEPT ![s] = "live"]
        /\ intr' = [intr EXCEPT ![s] = <<trapframe[s]>> \o @]
    BY <1>1, <1>4, <2>1 DEF TInv, TypeOK, Tick
  <2>3. intr'[s] = <<trapframe[s]>>
    BY <2>1, <2>2 DEF TInv, TypeOK
  <2>4. /\ alarm_tf'[s] = trapframe[s] /\ ~alarm_on'[s] /\ status'[s] = "live"
    BY <2>2 DEF TInv, TypeOK, Fire
  <2>5. InHandler(s)'
    BY <2>2 DEF TInv, TypeOK, Fire, Frame, InHandler
  <2>6. QED
    BY <1>4, <2>3, <2>4, <2>5
<1>5. QED
  BY <1>2, <1>3, <1>4

\* AInv is inductive, for programs whose handlers do not set the alarm anew.
LEMMA HandlerNext ==
  ASSUME ~Rearm, AInv, [Next]_vars
  PROVE  AInv'
<1>1. TInv'
  BY TypeNext DEF AInv
<1>2. ASSUME NEW s \in Slots, Run(s)
      PROVE  HandlerInv'
  <2>1. PICK v \in {0, 1} : trapframe' = [trapframe EXCEPT ![s].a0 = v]
    BY <1>2 DEF Run
  <2>2. \A t \in Slots : trapframe'[t].at = trapframe[t].at
    BY <2>1, SetRegister DEF AInv, TInv, TypeOK
  <2>3. QED
    BY <1>2, <2>2 DEF AInv, HandlerInv, InHandler, Run, alarm
<1>3. ASSUME NEW s \in Slots, Tick(s)
      PROVE  HandlerInv'
  BY <1>3, TickHandler DEF AInv
<1>4. ASSUME NEW s \in Slots, NEW n \in Intervals, Sigalarm(s, n)
      PROVE  HandlerInv'
  <2>1. \A t \in Slots : trapframe'[t].at = trapframe[t].at
    BY <1>4, SetRegister DEF AInv, TInv, TypeOK, Sigalarm
  <2>2. intr[s] # <<>> => n = 0
    BY <1>4, IntervalAssumption DEF AInv, HandlerInv, Sigalarm
  <2>3. \A t \in Slots : intr[t] # <<>> => ~alarm_on'[t]
    BY <1>4, <2>2 DEF AInv, TInv, TypeOK, HandlerInv, Sigalarm
  <2>4. UNCHANGED <<intr, alarm_tf, status>>
    BY <1>4 DEF Sigalarm
  <2>5. QED
    BY <2>1, <2>3, <2>4 DEF AInv, HandlerInv, InHandler
<1>5. ASSUME NEW s \in Slots, Sigreturn(s)
      PROVE  HandlerInv'
  <2>1. /\ UNCHANGED status /\ intr'[s] = <<>>
        /\ \A t \in Slots : t # s => /\ intr'[t] = intr[t] /\ alarm_tf'[t] = alarm_tf[t]
                                     /\ alarm_on'[t] = alarm_on[t]
                                     /\ trapframe'[t] = trapframe[t]
    <3>1. intr[s] # <<>> => Tail(intr[s]) = <<>>
      <4>1. intr[s] \in Seq(Frame) /\ (intr[s] # <<>> => Len(intr[s]) = 1)
        BY DEF AInv, TInv, TypeOK, HandlerInv
      <4>2. \A f \in Seq(Frame) : Len(f) = 1 => Tail(f) \in Seq(Frame) /\ Len(Tail(f)) = 0
        OBVIOUS
      <4>3. \A f \in Seq(Frame) : Len(f) = 0 => f = <<>>
        OBVIOUS
      <4>4. QED
        BY <4>1, <4>2, <4>3
    <3>2. QED
      BY <1>5, <3>1 DEF AInv, TInv, TypeOK, Sigreturn, Restore
  <2>2. QED
    BY <2>1 DEF AInv, HandlerInv, InHandler
<1>6. ASSUME NEW s \in Slots, NEW q \in Slots, Fork(s, q)
      PROVE  HandlerInv'
  <2>1. status[q] = "free" /\ s # q
    BY <1>6 DEF Fork, Syscall, Running
  <2>2. intr[q] = <<>>
    BY <2>1 DEF AInv, HandlerInv
  <2>3. trapframe' = [trapframe EXCEPT ![q] = [trapframe[s] EXCEPT !.a0 = 0], ![s].a0 = 1]
    BY <1>6 DEF Fork
  <2>4. \A t \in Slots : t # q => trapframe'[t].at = trapframe[t].at
    <3>1. trapframe'[s] = [trapframe[s] EXCEPT !.a0 = 1]
      BY <2>1, <2>3 DEF AInv, TInv, TypeOK
    <3>2. \A t \in Slots : t \notin {s, q} => trapframe'[t] = trapframe[t]
      BY <2>3 DEF AInv, TInv, TypeOK
    <3>3. QED
      BY <3>1, <3>2, SetRegister DEF AInv, TInv, TypeOK
  <2>5. \A t \in Slots : t # q => alarm_on'[t] = alarm_on[t] /\ status'[t] = status[t]
    BY <1>6 DEF AInv, TInv, TypeOK, Fork
  <2>6. UNCHANGED <<intr, alarm_tf>>
    BY <1>6 DEF Fork
  <2>7. QED
    BY <2>2, <2>4, <2>5, <2>6 DEF AInv, HandlerInv, InHandler
<1>7. ASSUME NEW s \in Slots, NEW p \in Progs, Exec(s, p)
      PROVE  HandlerInv'
  BY <1>7 DEF AInv, TInv, TypeOK, HandlerInv, InHandler, Exec, alarm
<1>8. ASSUME NEW s \in Slots, Exit(s)
      PROVE  HandlerInv'
  BY <1>8 DEF AInv, TInv, TypeOK, HandlerInv, InHandler, Exit, alarm
<1>9. ASSUME NEW s \in Slots, Reap(s)
      PROVE  HandlerInv'
  BY <1>9 DEF AInv, TInv, TypeOK, HandlerInv, InHandler, Reap, alarm
<1>10. ASSUME NEW s \in Slots, Kill(s)
       PROVE  HandlerInv'
  BY <1>10 DEF AInv, HandlerInv, InHandler, Kill, alarm
<1>11. ASSUME UNCHANGED vars
       PROVE  HandlerInv'
  BY <1>11 DEF AInv, HandlerInv, InHandler, vars, alarm
<1>12. HandlerInv'
  BY <1>2, <1>3, <1>4, <1>5, <1>6, <1>7, <1>8, <1>9, <1>10, <1>11 DEF Next, Halted
<1>13. QED
  BY <1>1, <1>12 DEF AInv

\* With handlers that set no alarm, the handler invariant holds in every reachable state.
LEMMA HandlerInvariance ==
  ASSUME ~Rearm
  PROVE  Spec => []AInv
<1>1. Init => AInv
  <2>1. ASSUME Init
        PROVE  HandlerInv
    BY <2>1 DEF Init, HandlerInv
  <2>2. QED
    BY <2>1, TypeInit DEF AInv
<1>2. AInv /\ [Next]_vars => AInv'
  BY HandlerNext
<1>3. QED
  BY <1>1, <1>2, PTL DEF Spec

\* No handler is entered before the last one has returned, provided that handlers
\* do not call sigalarm() with a positive interval.  (With Rearm it is false: the
\* new alarm is on, and may go off inside the handler.)
THEOREM NoHandlerReentry ==
  ASSUME ~Rearm
  PROVE  Spec => []NoReentry
<1>1. AInv => NoReentry
  <2>1. ASSUME AInv, NEW s \in Slots
        PROVE  Len(intr[s]) <= 1
    <3>1. CASE intr[s] = <<>>
      BY <3>1
    <3>2. CASE intr[s] # <<>>
      <4>1. Len(intr[s]) = 1
        BY <2>1, <3>2 DEF AInv, HandlerInv
      <4>2. QED
        BY <4>1
    <3>3. QED
      BY <3>1, <3>2
  <2>2. QED
    BY <2>1 DEF NoReentry
<1>2. QED
  BY <1>1, HandlerInvariance, PTL

\* sigreturn() in a handler resumes exactly what the timer interrupted, whatever
\* earlier owners of the slot have left in alarm_tf.
THEOREM SigreturnResumes ==
  ASSUME ~Rearm
  PROVE  Spec => ReturnsToInterrupted
<1>1. ASSUME AInv, NEW s \in Slots, Sigreturn(s), intr[s] # <<>>
      PROVE  trapframe'[s] = Head(intr[s])
  <2>1. alarm_tf[s] = Head(intr[s]) /\ Head(intr[s]) \in Frame
    BY <1>1 DEF AInv, TInv, TypeOK, HandlerInv
  <2>2. alarm_tf[s] # None
    BY <2>1, NoneAssumption
  <2>3. QED
    BY <1>1, <2>1, <2>2 DEF AInv, TInv, TypeOK, Sigreturn, Restore
<1>2. AInv => [\A s \in Slots :
                 Sigreturn(s) /\ intr[s] # <<>> => trapframe'[s] = Head(intr[s])]_vars
  BY <1>1
<1>3. QED
  BY <1>2, HandlerInvariance, PTL DEF ReturnsToInterrupted

=============================================================================
