------------------------------ MODULE LogProofs ------------------------------
(***************************************************************************)
(* The logging layer of module Log, for any number of blocks, values and   *)
(* concurrent calls: it never panics, what an idle file system has written *)
(* survives a crash, and every transaction is atomic.                      *)
(***************************************************************************)
EXTENDS Log, FiniteSetTheorems, TLAPS

-----------------------------------------------------------------------------
(* The inductive invariant.                                                *)

\* The calls between begin_op() and end_op().
Inside == {o \in Ops : opc[o] = "in"}

\* The reserved log entries that the calls in progress have made use of.
Used == {e \in Ops \X (1..OpBlocks) :
           opc[e[1]] = "in" /\ e[2] <= Cardinality(written[e[1]])}

\* commit() or the end of end_op() is under way.
CommitSteps == {"write_log", "write_head", "install", "clear", "end"}

\* No block is twice in s.
Distinct(s) == \A i, j \in 1..Len(s) : s[i] = s[j] => i = j

\* outstanding counts the calls; there is none while a commit or recovery is
\* under way, and a log that nobody writes to is empty.
CountInv ==
  /\ outstanding = Cardinality(Inside)
  /\ step # "idle" => Inside = {}
  /\ step = "idle" /\ Inside = {} => lh = <<>>
  /\ committing <=> step \in CommitSteps

\* The calls in progress may still write all they have reserved: the entries
\* that are free cover outstanding * MAXOPBLOCKS less what they have used.  Two
\* calls have reserved two entries more than they need; a single call is either
\* the first of the transaction or has been left one by a call that has ended.
SpaceInv ==
  /\ \A o \in Ops :
       /\ IsFiniteSet(written[o]) /\ Cardinality(written[o]) <= OpBlocks
       /\ opc[o] = "in" => \A b \in written[o] : Logged(b)
       /\ opc[o] # "in" => written[o] = {}
  /\ Len(lh) + outstanding * MAXOPBLOCKS <= LOGSIZE + Cardinality(Used)
  /\ outstanding = 1 =>
       \/ Len(lh) <= Cardinality(Used)
       \/ Len(lh) + MAXOPBLOCKS + 1 <= LOGSIZE + Cardinality(Used)

\* The header block on the disk is the log of a transaction from its commit
\* point to its last installed block, and empty at any other time.
HeadInv ==
  /\ Distinct(lh) /\ Distinct(dhead) /\ Len(lh) <= LOGSIZE /\ Len(dhead) <= LOGSIZE
  /\ step \in {"idle", "write_log", "write_head", "end"} => dhead = <<>>
  /\ step \in {"install", "clear", "r_install", "r_clear"} => dhead = lh
  /\ step \in {"read_head", "end"} => lh = <<>>
  /\ step = "write_head" => lh # <<>>
  /\ step \in {"write_log", "install", "r_install"} => tail \in 1..Len(lh)

\* Pinned are the logged blocks until they are installed; they stay in the
\* cache, and no other cached block differs from its home.
PinInv ==
  /\ step \in {"idle", "write_log", "write_head"} =>
       \A b \in Blocks : b \in pinned <=> Logged(b)
  /\ step = "install" =>
       \A b \in Blocks : b \in pinned <=> \E i \in tail..Len(lh) : lh[i] = b
  /\ step \notin {"idle", "write_log", "write_head", "install"} => pinned = {}
  /\ \A b \in Blocks :
       IF b \in pinned THEN cache[b] # Absent ELSE cache[b] \in {Absent, home[b]}

\* What the log blocks and the home blocks hold while a transaction moves from
\* the cache to the log and from there to its home.
CopyInv ==
  /\ step = "write_log" => \A i \in 1..(tail - 1) : dlog[i] = cache[lh[i]]
  /\ step = "write_head" => \A i \in 1..Len(lh) : dlog[i] = cache[lh[i]]
  /\ step = "install" => \A i \in tail..Len(lh) : dlog[i] = cache[lh[i]]
  /\ step \in {"install", "r_install"} => \A i \in 1..(tail - 1) : home[lh[i]] = dlog[i]
  /\ step \in {"clear", "r_clear"} => \A i \in 1..Len(lh) : home[lh[i]] = dlog[i]

IInv == TypeOK /\ NoPanic /\ CountInv /\ SpaceInv /\ HeadInv /\ PinInv /\ CopyInv

-----------------------------------------------------------------------------
(* Counting calls and entries.                                             *)

\* a calls that use b of their c entries leave at least one each.
LEMMA Spare ==
  ASSUME NEW a \in Nat, NEW b \in Nat, NEW c \in Nat, b < c
  PROVE  /\ a * b \in Nat /\ a * c \in Nat /\ a * b + a <= a * c
         /\ a > 0 => (a - 1) * c = a * c - c
<1>1. PICK d \in Nat : c = b + 1 + d
  <2>1. c - b - 1 \in Nat
    OBVIOUS
  <2>2. QED
    BY <2>1
<1>2. a * c = a * b + a + a * d /\ a * d \in Nat
  BY <1>1
<1>3. QED
  BY <1>1, <1>2

\* Sets of calls, and of entries of calls, are finite.
LEMMA EntriesFinite ==
  ASSUME NEW S, S \subseteq Ops, NEW T, T \subseteq S \X (1..OpBlocks)
  PROVE  /\ IsFiniteSet(S) /\ Cardinality(S) \in Nat
         /\ IsFiniteSet(T) /\ Cardinality(T) \in Nat
         /\ Cardinality(T) <= Cardinality(S) * OpBlocks
<1>1. IsFiniteSet(S) /\ Cardinality(S) \in Nat
  BY LogAssumption, FS_Subset, FS_CardinalityType
<1>2. IsFiniteSet(1..OpBlocks) /\ Cardinality(1..OpBlocks) = OpBlocks
  BY LogAssumption, FS_Interval
<1>3. /\ IsFiniteSet(S \X (1..OpBlocks))
      /\ Cardinality(S \X (1..OpBlocks)) = Cardinality(S) * OpBlocks
  BY <1>1, <1>2, FS_Product
<1>4. QED
  BY <1>1, <1>3, FS_Subset, FS_CardinalityType

\* begin_op() has reserved enough: a call in progress finds room in the log.
LEMMA RoomInside ==
  ASSUME IInv, NEW o \in Ops, opc[o] = "in"
  PROVE  Len(lh) < LOGSIZE - 1 /\ outstanding >= 1 /\ step = "idle" /\ ~committing
<1>1. /\ IsFiniteSet(Inside) /\ Cardinality(Used) \in Nat
      /\ Cardinality(Used) <= outstanding * OpBlocks /\ outstanding \in Nat
  <2>1. Inside \subseteq Ops /\ Used \subseteq Inside \X (1..OpBlocks)
    BY DEF Inside, Used
  <2>2. QED
    BY <2>1, EntriesFinite DEF IInv, CountInv
<1>2. o \in Inside
  BY DEF Inside
<1>3. outstanding >= 1 /\ step = "idle" /\ ~committing
  BY <1>1, <1>2, FS_EmptySet DEF IInv, CountInv, CommitSteps
<1>4. /\ outstanding * OpBlocks + outstanding <= outstanding * MAXOPBLOCKS
      /\ outstanding * OpBlocks \in Nat /\ outstanding * MAXOPBLOCKS \in Nat
  BY <1>1, LogAssumption, ReservationAssumption, Spare
<1>5. Len(lh) \in Nat
  BY DEF IInv, TypeOK
<1>6. Len(lh) < LOGSIZE - 1
  <2>1. CASE outstanding = 1
    <3>1. /\ outstanding * OpBlocks = OpBlocks /\ outstanding * MAXOPBLOCKS = MAXOPBLOCKS
      BY <2>1, LogAssumption
    <3>2. Cardinality(Used) <= OpBlocks
      BY <1>1, <3>1
    <3>3. CASE Len(lh) <= Cardinality(Used)
      BY <1>1, <1>5, <3>2, <3>3, LogAssumption, ReservationAssumption
    <3>4. CASE Len(lh) + MAXOPBLOCKS + 1 <= LOGSIZE + Cardinality(Used)
      BY <1>1, <1>5, <3>2, <3>4, LogAssumption, ReservationAssumption
    <3>5. QED
      BY <2>1, <3>3, <3>4 DEF IInv, SpaceInv
  <2>2. CASE outstanding >= 2
    BY <1>1, <1>4, <1>5, <2>2, LogAssumption DEF IInv, SpaceInv
  <2>3. QED
    BY <1>1, <1>3, <2>1, <2>2
<1>7. QED
  BY <1>3, <1>6

\* A step that moves no call in or out of a transaction leaves the count alone.
LEMMA SpaceFrame ==
  ASSUME SpaceInv, UNCHANGED <<written, outstanding, lh>>,
         \A o \in Ops : opc'[o] = "in" <=> opc[o] = "in"
  PROVE  SpaceInv' /\ Inside' = Inside
<1>1. Inside' = Inside
  BY DEF Inside
<1>2. Used' = Used
  BY DEF Used
<1>3. QED
  BY <1>1, <1>2 DEF SpaceInv, Logged

\* Where no call is in progress any log that fits will do.
LEMMA SpaceEmpty ==
  ASSUME Inside' = {}, \A o \in Ops : written'[o] = {},
         outstanding' = 0, Len(lh') \in Nat, Len(lh') <= LOGSIZE
  PROVE  SpaceInv'
<1>1. Used' \subseteq Ops \X (1..OpBlocks)
  BY DEF Used
<1>2. Cardinality(Used') \in Nat
  BY <1>1, EntriesFinite
<1>3. outstanding' * MAXOPBLOCKS = 0
  BY LogAssumption
<1>4. IsFiniteSet({}) /\ Cardinality({}) = 0
  BY FS_EmptySet
<1>5. \A o \in Ops : opc'[o] # "in"
  BY DEF Inside
<1>6. \A o \in Ops : /\ IsFiniteSet(written'[o]) /\ Cardinality(written'[o]) <= OpBlocks
                     /\ \A b \in written'[o] : Logged(b)'
  <2>1. 0 <= OpBlocks
    BY LogAssumption
  <2>2. SUFFICES ASSUME NEW o \in Ops
                 PROVE  /\ IsFiniteSet(written'[o]) /\ Cardinality(written'[o]) <= OpBlocks
                        /\ \A b \in written'[o] : Logged(b)'
    OBVIOUS
  <2>3. written'[o] = {}
    OBVIOUS
  <2>4. QED
    BY <2>1, <2>3, <1>4
<1>7. Len(lh') + outstanding' * MAXOPBLOCKS <= LOGSIZE + Cardinality(Used')
  BY <1>2, <1>3, LogAssumption
<1>8. QED
  BY <1>5, <1>6, <1>7 DEF SpaceInv

-----------------------------------------------------------------------------
(* Every step preserves the invariant.                                     *)

\* Initially the log is empty and no call is inside.
LEMMA InitInv ==
  ASSUME Init
  PROVE  IInv
<1>1. TypeOK /\ NoPanic
  <2>1. home \in [Blocks -> Val] /\ dlog \in [Entries -> Val]
    BY DEF Init
  <2>2. dhead \in Seq(Blocks) /\ lh \in Seq(Blocks)
    BY DEF Init
  <2>3. QED
    BY <2>1, <2>2 DEF Init, TypeOK, NoPanic, Steps
<1>2. Inside = {} /\ Used = {}
  BY DEF Init, Inside, Used
<1>3. IsFiniteSet({}) /\ Cardinality({}) = 0
  BY FS_EmptySet
<1>4. CountInv
  BY <1>2, <1>3 DEF Init, CountInv, CommitSteps
<1>5. SpaceInv
  <2>1. Len(lh) = 0 /\ outstanding * MAXOPBLOCKS = 0
    BY LogAssumption DEF Init
  <2>2. \A o \in Ops : opc[o] # "in" /\ written[o] = {}
    BY DEF Init
  <2>3. \A o \in Ops : IsFiniteSet(written[o]) /\ Cardinality(written[o]) <= OpBlocks
    BY <1>3, <2>2, LogAssumption
  <2>4. outstanding # 1 /\ Len(lh) + outstanding * MAXOPBLOCKS <= LOGSIZE + Cardinality(Used)
    BY <1>2, <1>3, <2>1, LogAssumption DEF Init
  <2>5. QED
    BY <2>2, <2>3, <2>4 DEF SpaceInv
<1>6. HeadInv
  BY LogAssumption DEF Init, HeadInv, Distinct
<1>7. PinInv /\ CopyInv
  BY DEF Init, PinInv, CopyInv
<1>8. QED
  BY <1>1, <1>4, <1>5, <1>6, <1>7 DEF IInv

\* Reading a block into the cache, or dropping one from it, touches no pinned
\* block.
LEMMA CacheStep ==
  ASSUME IInv, NEW b \in Blocks, Bread(b) \/ Recycle(b)
  PROVE  IInv'
<1>1. /\ UNCHANGED <<home, dlog, dhead, pinned, lh, outstanding, committing,
                     opc, written, step, tail>>
      /\ \A c \in Blocks : c # b => cache'[c] = cache[c]
      /\ cache'[b] \in {Absent, home[b]}
      /\ cache' \in [Blocks -> Val \cup {Absent}]
  BY DEF IInv, TypeOK, Bread, Recycle, disk, log, ops
<1>2. b \notin pinned
  BY DEF IInv, PinInv, Bread, Recycle
<1>3. TypeOK' /\ NoPanic'
  BY <1>1 DEF IInv, TypeOK, NoPanic
<1>4. SpaceInv' /\ Inside' = Inside
  BY <1>1, SpaceFrame DEF IInv
<1>5. CountInv' /\ HeadInv'
  BY <1>1, <1>4 DEF IInv, CountInv, HeadInv, Distinct
<1>6. PinInv'
  BY <1>1, <1>2 DEF IInv, PinInv, Logged
<1>7. CopyInv'
  <2>1. /\ step \in {"write_log", "write_head"} => \A i \in 1..Len(lh) : lh[i] \in pinned
        /\ step = "install" => \A i \in tail..Len(lh) : lh[i] \in pinned
    BY DEF IInv, TypeOK, PinInv, HeadInv, Logged
  <2>2. /\ step \in {"write_log", "write_head"} =>
             \A i \in 1..Len(lh) : cache'[lh[i]] = cache[lh[i]]
        /\ step = "install" => \A i \in tail..Len(lh) : cache'[lh[i]] = cache[lh[i]]
    BY <1>1, <1>2, <2>1 DEF IInv, TypeOK
  <2>3. QED
    BY <1>1, <2>2 DEF IInv, CopyInv, HeadInv, TypeOK
<1>8. QED
  BY <1>3, <1>4, <1>5, <1>6, <1>7 DEF IInv

\* A step that changes only where calls are that are in no transaction.
LEMMA CallStep ==
  ASSUME IInv,
         UNCHANGED <<home, dlog, dhead, cache, pinned, lh, outstanding, written>>,
         step' = step /\ tail' = tail /\ committing' = committing,
         opc' \in [Ops -> {"idle", "begin", "asleep", "in", "commit"}],
         \A o \in Ops : opc'[o] = "in" <=> opc[o] = "in"
  PROVE  IInv'
<1>1. SpaceInv' /\ Inside' = Inside
  BY SpaceFrame DEF IInv
<1>2. TypeOK' /\ NoPanic' /\ CountInv'
  BY <1>1 DEF IInv, TypeOK, NoPanic, CountInv
<1>3. HeadInv' /\ PinInv' /\ CopyInv'
  BY DEF IInv, HeadInv, Distinct, PinInv, Logged, CopyInv
<1>4. QED
  BY <1>1, <1>2, <1>3 DEF IInv

\* A call that begins.
LEMMA BeginStep ==
  ASSUME IInv, NEW o \in Ops, begin_op(o)
  PROVE  IInv'
<1>1. CASE committing \/ ~Room
  <2>1. /\ UNCHANGED <<home, dlog, dhead, cache, pinned, lh, outstanding, written>>
        /\ step' = step /\ tail' = tail /\ committing' = committing
    BY <1>1 DEF begin_op, disk, buf
  <2>2. /\ opc' \in [Ops -> {"idle", "begin", "asleep", "in", "commit"}]
        /\ \A p \in Ops : opc'[p] = "in" <=> opc[p] = "in"
    BY <1>1 DEF IInv, TypeOK, begin_op
  <2>3. QED
    BY <2>1, <2>2, CallStep
<1>2. CASE ~committing /\ Room
  <2>1. /\ UNCHANGED <<home, dlog, dhead, cache, pinned, lh, committing, step, tail>>
        /\ outstanding' = outstanding + 1
        /\ opc' = [opc EXCEPT ![o] = "in"] /\ written' = [written EXCEPT ![o] = {}]
        /\ opc[o] = "begin" /\ Running
    BY <1>2 DEF begin_op, disk, buf
  <2>2. step = "idle"
    BY <1>2, <2>1 DEF IInv, TypeOK, Steps, CountInv, CommitSteps, Running
  <2>3. TypeOK' /\ NoPanic'
    BY <2>1 DEF IInv, TypeOK, NoPanic
  <2>4. Inside' = Inside \cup {o} /\ o \notin Inside
    BY <2>1 DEF IInv, TypeOK, Inside
  <2>5. IsFiniteSet(Inside) /\ Cardinality(Inside) \in Nat
    BY LogAssumption, FS_Subset, FS_CardinalityType DEF Inside
  <2>6. CountInv'
    <3>1. Cardinality(Inside') = Cardinality(Inside) + 1
      BY <2>4, <2>5, FS_AddElement
    <3>2. Inside' # {}
      BY <2>4
    <3>3. QED
      BY <1>2, <2>1, <2>2, <3>1, <3>2 DEF IInv, CountInv, CommitSteps
  <2>7. written[o] = {} /\ written' = written
    BY <2>1 DEF IInv, TypeOK, SpaceInv
  <2>8. Used' = Used
    <3>1. Cardinality({}) = 0
      BY FS_EmptySet
    <3>2. \A k \in 1..OpBlocks : ~(k <= Cardinality(written[o]))
      BY <2>7, <3>1, LogAssumption
    <3>3. \A e \in Ops \X (1..OpBlocks) :
             (opc'[e[1]] = "in" /\ e[2] <= Cardinality(written'[e[1]]))
             <=> (opc[e[1]] = "in" /\ e[2] <= Cardinality(written[e[1]]))
      BY <2>1, <2>7, <3>2 DEF IInv, TypeOK
    <3>4. QED
      BY <3>3 DEF Used
  <2>9. Cardinality(Used) \in Nat
    BY EntriesFinite DEF Used
  <2>10. SpaceInv'
    <3>1. \A p \in Ops : opc'[p] = "in" => (opc[p] = "in" \/ written'[p] = {})
      BY <2>1, <2>7 DEF IInv, TypeOK
    <3>2. \A p \in Ops : opc'[p] # "in" => opc[p] # "in"
      BY <2>1 DEF IInv, TypeOK
    <3>3. Len(lh) \in Nat /\ outstanding \in Nat
      BY DEF IInv, TypeOK
    <3>4. Len(lh) + (outstanding + 1) * MAXOPBLOCKS <= LOGSIZE + Cardinality(Used)
      <4>1. (outstanding + 1) * MAXOPBLOCKS \in Nat
        BY <3>3, LogAssumption
      <4>2. QED
        BY <1>2, <2>9, <3>3, <4>1, LogAssumption DEF Room
    <3>5. outstanding + 1 = 1 => Len(lh) <= Cardinality(Used)
      <4>1. outstanding = 0 => Inside = {}
        BY <2>5, FS_EmptySet DEF IInv, CountInv
      <4>2. outstanding = 0 => Len(lh) = 0
        BY <2>2, <4>1 DEF IInv, CountInv
      <4>3. QED
        BY <2>9, <3>3, <4>2
    <3>6. QED
      BY <2>1, <2>7, <2>8, <3>1, <3>2, <3>4, <3>5 DEF IInv, SpaceInv, Logged
  <2>11. HeadInv' /\ PinInv' /\ CopyInv'
    BY <2>1 DEF IInv, HeadInv, Distinct, PinInv, Logged, CopyInv
  <2>12. QED
    BY <2>3, <2>6, <2>10, <2>11 DEF IInv
<1>3. QED
  BY <1>1, <1>2

\* A call that writes a block.
LEMMA WriteStep ==
  ASSUME IInv, NEW o \in Ops, NEW b \in Blocks, NEW v \in Val, log_write(o, b, v)
  PROVE  IInv'
<1>1. /\ cache' = [cache EXCEPT ![b] = v]
      /\ UNCHANGED <<home, dlog, dhead, outstanding, committing, opc, tail>>
  BY DEF log_write, disk
<1>2. opc[o] = "in"
  BY DEF log_write
<1>3. Len(lh) < LOGSIZE - 1 /\ outstanding >= 1 /\ step = "idle" /\ ~committing
  BY <1>2, RoomInside
<1>4. lh \in Seq(Blocks) /\ Len(lh) \in Nat /\ outstanding \in Nat
  BY DEF IInv, TypeOK
<1>5. /\ Record(b) /\ step' = "idle"
      /\ written' = [written EXCEPT ![o] = @ \cup {b}]
  BY <1>3, <1>4, LogAssumption DEF log_write
<1>6. \/ Logged(b) /\ lh' = lh /\ pinned' = pinned
      \/ ~Logged(b) /\ lh' = Append(lh, b) /\ pinned' = pinned \cup {b}
  BY <1>5 DEF Record
<1>7. /\ lh' \in Seq(Blocks) /\ Len(lh') \in {Len(lh), Len(lh) + 1}
      /\ \A i \in 1..Len(lh) : lh'[i] = lh[i]
      /\ \A c \in Blocks : Logged(c)' <=> Logged(c) \/ c = b
  BY <1>4, <1>6 DEF Logged
<1>8. TypeOK' /\ NoPanic'
  BY <1>1, <1>5, <1>6, <1>7 DEF IInv, TypeOK, NoPanic, Steps
<1>9. Inside' = Inside /\ Inside # {}
  BY <1>1, <1>2 DEF Inside
<1>10. CountInv'
  BY <1>1, <1>3, <1>5, <1>9 DEF IInv, CountInv
<1>11. HeadInv'
  <2>1. Distinct(lh')
    <3>1. CASE lh' = lh
      BY <3>1 DEF IInv, HeadInv, Distinct
    <3>2. CASE ~Logged(b) /\ lh' = Append(lh, b)
      <4>1. /\ Len(lh') = Len(lh) + 1 /\ lh'[Len(lh) + 1] = b
            /\ \A i \in 1..Len(lh) : lh'[i] = lh[i] /\ lh[i] # b
        BY <1>4, <3>2 DEF Logged
      <4>2. QED
        BY <1>4, <4>1 DEF IInv, HeadInv, Distinct
    <3>3. QED
      BY <1>6, <3>1, <3>2
  <2>2. QED
    BY <1>1, <1>3, <1>4, <1>5, <1>7, <2>1, LogAssumption DEF IInv, HeadInv, Distinct
<1>12. PinInv'
  <2>1. \A c \in Blocks : c \in pinned' <=> Logged(c)'
    BY <1>3, <1>6, <1>7 DEF IInv, PinInv
  <2>2. b \in pinned' /\ \A c \in pinned : c \in pinned'
    BY <1>6, <1>7, <2>1
  <2>3. \A c \in Blocks : IF c \in pinned' THEN cache'[c] # Absent
                                           ELSE cache'[c] \in {Absent, home'[c]}
    BY <1>1, <1>6, <2>2, LogAssumption DEF IInv, TypeOK, PinInv
  <2>4. QED
    BY <1>5, <2>1, <2>3 DEF PinInv
<1>13. CopyInv'
  BY <1>5 DEF CopyInv
<1>14. SpaceInv'
  <2>1. IsFiniteSet(written[o]) /\ Cardinality(written[o]) \in Nat
    BY FS_CardinalityType DEF IInv, SpaceInv
  <2>2. /\ \A p \in Ops : p # o => written'[p] = written[p]
        /\ written'[o] = written[o] \cup {b}
    BY <1>5 DEF IInv, TypeOK
  <2>3. \A p \in Ops : opc[p] = "in" => \A c \in written'[p] : Logged(c)'
    BY <1>7, <2>2 DEF IInv, SpaceInv, TypeOK
  <2>4. Cardinality(Used) \in Nat /\ IsFiniteSet(Used)
    BY EntriesFinite DEF Used
  <2>5. CASE b \in written[o]
    <3>1. Logged(b)
      BY <1>2, <2>5 DEF IInv, SpaceInv
    <3>2. lh' = lh
      BY <1>6, <3>1
    <3>3. written' = written
      BY <1>5, <2>5 DEF IInv, TypeOK
    <3>4. QED
      BY <1>1, <3>2, <3>3, SpaceFrame DEF IInv
  <2>6. CASE b \notin written[o]
    <3>1. /\ IsFiniteSet(written'[o]) /\ Cardinality(written'[o]) = Cardinality(written[o]) + 1
      BY <2>1, <2>2, <2>6, FS_AddElement
    <3>2. Cardinality(written[o]) < OpBlocks
      BY <2>6 DEF log_write
    <3>3. Cardinality(written'[o]) <= OpBlocks
      BY <2>1, <3>1, <3>2, LogAssumption
    <3> DEFINE e == <<o, Cardinality(written[o]) + 1>>
    <3>5. Used' = Used \cup {e} /\ e \notin Used
      <4>1. e \in Ops \X (1..OpBlocks)
        BY <2>1, <3>2, LogAssumption
      <4>2. e \notin Used
        BY <2>1 DEF Used
      <4>3. \A f \in Ops \X (1..OpBlocks) :
               f[2] <= Cardinality(written'[f[1]])
               <=> f[2] <= Cardinality(written[f[1]]) \/ f = e
        <5>1. SUFFICES ASSUME NEW p \in Ops, NEW k \in 1..OpBlocks
                       PROVE  k <= Cardinality(written'[p])
                              <=> k <= Cardinality(written[p]) \/ <<p, k>> = e
          OBVIOUS
        <5>2. CASE p = o
          BY <2>1, <3>1, <5>2, LogAssumption
        <5>3. CASE p # o
          BY <2>2, <5>3
        <5>4. QED
          BY <5>2, <5>3
      <4>4. QED
        BY <1>1, <1>2, <4>1, <4>2, <4>3 DEF Used
    <3>6. Cardinality(Used') = Cardinality(Used) + 1
      <4>1. Cardinality(Used \cup {e}) = Cardinality(Used) + 1
        BY <2>4, <3>5, FS_AddElement
      <4>2. QED
        BY <3>5, <4>1
    <3>7. /\ Len(lh') + outstanding' * MAXOPBLOCKS <= LOGSIZE + Cardinality(Used')
          /\ outstanding' = 1 =>
               \/ Len(lh') <= Cardinality(Used')
               \/ Len(lh') + MAXOPBLOCKS + 1 <= LOGSIZE + Cardinality(Used')
      <4>1. outstanding * MAXOPBLOCKS \in Nat /\ Len(lh') \in Nat
        BY <1>4, <1>7, LogAssumption
      <4>2. QED
        BY <1>1, <1>4, <1>7, <2>4, <3>6, <4>1, LogAssumption DEF IInv, SpaceInv
    <3>8. \A p \in Ops : /\ IsFiniteSet(written'[p]) /\ Cardinality(written'[p]) <= OpBlocks
                         /\ opc'[p] # "in" => written'[p] = {}
      <4>1. SUFFICES ASSUME NEW p \in Ops
                     PROVE  /\ IsFiniteSet(written'[p]) /\ Cardinality(written'[p]) <= OpBlocks
                            /\ opc'[p] # "in" => written'[p] = {}
        OBVIOUS
      <4>2. CASE p = o
        BY <1>1, <1>2, <3>1, <3>3, <4>2
      <4>3. CASE p # o
        BY <1>1, <2>2, <4>3 DEF IInv, SpaceInv
      <4>4. QED
        BY <4>2, <4>3
    <3>9. QED
      BY <1>1, <2>3, <3>7, <3>8 DEF SpaceInv
  <2>7. QED
    BY <2>5, <2>6
<1>15. QED
  BY <1>8, <1>10, <1>11, <1>12, <1>13, <1>14 DEF IInv

\* A call that ends, and commits if it is the last one.
LEMMA EndStep ==
  ASSUME IInv, NEW o \in Ops, end_op(o)
  PROVE  IInv'
<1>1. /\ opc[o] = "in" /\ outstanding' = outstanding - 1
      /\ written' = [written EXCEPT ![o] = {}]
      /\ UNCHANGED <<home, dlog, dhead, cache, pinned, lh>>
  BY DEF end_op, disk, buf
<1>2. outstanding >= 1 /\ step = "idle" /\ ~committing /\ outstanding \in Nat
  BY <1>1, RoomInside DEF IInv, TypeOK
<1>3. /\ IsFiniteSet(Inside) /\ Inside' = Inside \ {o} /\ o \in Inside
      /\ Inside' \subseteq Ops
  <2>1. \A p \in Ops : opc'[p] = "in" <=> opc[p] = "in" /\ p # o
    BY <1>1, <1>2 DEF IInv, TypeOK, end_op, Wakeup
  <2>2. QED
    BY <1>1, <2>1, LogAssumption, FS_Subset DEF Inside
<1>4. outstanding = Cardinality(Inside) /\ outstanding' = Cardinality(Inside')
  BY <1>1, <1>2, <1>3, FS_RemoveElement DEF IInv, CountInv
<1>5. outstanding' = 0 <=> Inside' = {}
  BY <1>3, <1>4, FS_RemoveElement, FS_EmptySet
<1>6. \A p \in Ops : written'[p] = IF p = o THEN {} ELSE written[p]
  BY <1>1 DEF IInv, TypeOK
<1>7. CASE outstanding = 1
  <2>1. /\ committing' = TRUE /\ opc' = [opc EXCEPT ![o] = "commit"]
        /\ step' = (IF lh = <<>> THEN "end" ELSE "write_log") /\ tail' = 1
    BY <1>2, <1>7 DEF end_op
  <2>2. Inside' = {}
    BY <1>1, <1>5, <1>7
  <2>3. TypeOK' /\ NoPanic'
    BY <1>1, <1>2, <2>1 DEF IInv, TypeOK, NoPanic, Steps
  <2>4. CountInv'
    BY <1>4, <2>1, <2>2 DEF CountInv, CommitSteps
  <2>5. SpaceInv'
    <3>1. \A p \in Ops : written'[p] = {}
      BY <1>6, <2>2, <1>3 DEF IInv, SpaceInv, Inside
    <3>2. QED
      BY <1>1, <1>7, <2>2, <3>1, SpaceEmpty DEF IInv, TypeOK, HeadInv
  <2>6. HeadInv'
    <3>1. lh # <<>> => 1 \in 1..Len(lh)
      BY DEF IInv, TypeOK
    <3>2. QED
      BY <1>1, <1>2, <2>1, <3>1 DEF IInv, HeadInv, Distinct
  <2>7. PinInv'
    <3>1. lh = <<>> => pinned = {}
      BY <1>2 DEF IInv, TypeOK, PinInv, Logged
    <3>2. QED
      BY <1>1, <1>2, <2>1, <3>1 DEF IInv, PinInv, Logged
  <2>8. CopyInv'
    BY <1>1, <1>2, <2>1 DEF CopyInv
  <2>9. QED
    BY <2>3, <2>4, <2>5, <2>6, <2>7, <2>8 DEF IInv
<1>8. CASE outstanding # 1
  <2>1. Wakeup(o, "idle") /\ UNCHANGED <<committing, step, tail>>
    BY <1>2, <1>8 DEF end_op
  <2>2. TypeOK' /\ NoPanic'
    BY <1>1, <1>2, <2>1 DEF IInv, TypeOK, NoPanic, Wakeup
  <2>3. CountInv'
    <3>1. Inside' # {}
      BY <1>1, <1>2, <1>5, <1>8
    <3>2. QED
      BY <1>1, <1>2, <1>4, <2>1, <3>1 DEF IInv, CountInv
  <2>4. SpaceInv'
    <3>1. IsFiniteSet(written[o]) /\ Cardinality(written[o]) \in 0..OpBlocks
      BY FS_CardinalityType, LogAssumption DEF IInv, SpaceInv
    <3> DEFINE X == {o} \X (1..Cardinality(written[o]))
    <3>2. X \subseteq Used
      BY <1>1, <3>1, LogAssumption DEF Used
    <3>3. Cardinality(X) = Cardinality(written[o])
      <4>1. IsFiniteSet({o}) /\ Cardinality({o}) = 1
        BY FS_Singleton
      <4>2. /\ IsFiniteSet(1..Cardinality(written[o]))
            /\ Cardinality(1..Cardinality(written[o])) = Cardinality(written[o])
        BY <3>1, FS_Interval, LogAssumption
      <4>3. Cardinality(X) = Cardinality({o}) * Cardinality(1..Cardinality(written[o]))
        BY ONLY <4>1, <4>2, FS_Product, Zenon
      <4>4. QED
        BY <3>1, <4>1, <4>2, <4>3, LogAssumption
    <3>4. Used' = Used \ X
      <4>1. \A f \in Ops \X (1..OpBlocks) :
               (opc'[f[1]] = "in" /\ f[2] <= Cardinality(written'[f[1]]))
               <=> /\ opc[f[1]] = "in" /\ f[2] <= Cardinality(written[f[1]])
                   /\ f \notin X
        <5>1. SUFFICES ASSUME NEW p \in Ops, NEW k \in 1..OpBlocks
                       PROVE  (opc'[p] = "in" /\ k <= Cardinality(written'[p]))
                              <=> /\ opc[p] = "in" /\ k <= Cardinality(written[p])
                                  /\ <<p, k>> \notin X
          OBVIOUS
        <5>2. opc'[p] = "in" <=> opc[p] = "in" /\ p # o
          BY <1>1, <2>1 DEF IInv, TypeOK, Wakeup
        <5>3. CASE p = o
          BY <1>1, <3>1, <5>2, <5>3, LogAssumption
        <5>4. CASE p # o
          BY <1>6, <5>2, <5>4
        <5>5. QED
          BY <5>3, <5>4
      <4>2. QED
        BY <4>1 DEF Used
    <3>5. IsFiniteSet(Used) /\ Cardinality(Used) \in Nat
      BY EntriesFinite DEF Used
    <3>6. Cardinality(Used') = Cardinality(Used) - Cardinality(written[o])
      <4>1. Used \cap X = X
        BY <3>2
      <4>2. Cardinality(Used \ X) = Cardinality(Used) - Cardinality(Used \cap X)
        BY <3>5, FS_Difference
      <4>3. QED
        BY <3>3, <3>4, <4>1, <4>2
    <3>7. /\ outstanding * MAXOPBLOCKS \in Nat
          /\ (outstanding - 1) * MAXOPBLOCKS = outstanding * MAXOPBLOCKS - MAXOPBLOCKS
      BY <1>2, LogAssumption, ReservationAssumption, Spare
    <3>8. Len(lh) \in Nat
      BY DEF IInv, TypeOK
    <3>9. Len(lh) + outstanding' * MAXOPBLOCKS + 1 <= LOGSIZE + Cardinality(Used')
      BY <1>1, <3>1, <3>5, <3>6, <3>7, <3>8, LogAssumption, ReservationAssumption
      DEF IInv, SpaceInv
    <3>10. outstanding' = 1 => outstanding' * MAXOPBLOCKS = MAXOPBLOCKS
      BY LogAssumption
    <3>11. /\ Cardinality(Used') \in Int /\ outstanding' * MAXOPBLOCKS \in Int
      BY <1>1, <3>1, <3>5, <3>6, <3>7, LogAssumption
    <3>12. \A p \in Ops : /\ IsFiniteSet(written'[p]) /\ Cardinality(written'[p]) <= OpBlocks
                          /\ opc'[p] = "in" => \A b \in written'[p] : Logged(b)'
                          /\ opc'[p] # "in" => written'[p] = {}
      <4>1. SUFFICES ASSUME NEW p \in Ops
                     PROVE  /\ IsFiniteSet(written'[p]) /\ Cardinality(written'[p]) <= OpBlocks
                            /\ opc'[p] = "in" => \A b \in written'[p] : Logged(b)'
                            /\ opc'[p] # "in" => written'[p] = {}
        OBVIOUS
      <4>2. CASE p = o
        <5>1. written'[p] = {} /\ IsFiniteSet({}) /\ Cardinality({}) = 0
          BY <1>6, <4>2, FS_EmptySet
        <5>2. QED
          BY <5>1, LogAssumption
      <4>3. CASE p # o
        BY <1>1, <1>6, <2>1, <4>3 DEF IInv, TypeOK, SpaceInv, Wakeup, Logged
      <4>4. QED
        BY <4>2, <4>3
    <3>13. QED
      BY <1>1, <3>8, <3>9, <3>10, <3>11, <3>12, LogAssumption DEF SpaceInv
  <2>5. HeadInv' /\ PinInv' /\ CopyInv'
    BY <1>1, <1>2, <2>1 DEF IInv, HeadInv, Distinct, PinInv, Logged, CopyInv
  <2>6. QED
    BY <2>2, <2>3, <2>4, <2>5 DEF IInv
<1>9. QED
  BY <1>7, <1>8

\* A step of commit() or of recovery, whose log fits: no call is in progress, so
\* what is left to show is about the disk and the cache.
LEMMA DiskStep ==
  ASSUME IInv, TypeOK', step # "idle", step' # "panic",
         UNCHANGED <<outstanding, opc, written>>,
         Len(lh') <= LOGSIZE,
         committing' <=> step' \in CommitSteps,
         step' = "idle" => lh' = <<>>
  PROVE  NoPanic' /\ CountInv' /\ SpaceInv'
<1>1. Inside = {} /\ Inside' = {}
  BY DEF IInv, CountInv, Inside
<1>2. outstanding' = 0 /\ outstanding = Cardinality(Inside')
  BY <1>1, FS_EmptySet DEF IInv, CountInv
<1>3. \A o \in Ops : written'[o] = {}
  BY <1>1 DEF IInv, SpaceInv, Inside
<1>4. Len(lh') \in Nat
  BY DEF TypeOK
<1>5. SpaceInv'
  BY <1>1, <1>2, <1>3, <1>4, SpaceEmpty
<1>6. QED
  BY <1>1, <1>2, <1>5 DEF NoPanic, CountInv

\* One block from the cache to the log.
LEMMA WriteLogStep ==
  ASSUME IInv, write_log
  PROVE  IInv'
<1>1. /\ step = "write_log" /\ dlog' = [dlog EXCEPT ![tail] = Contents(lh[tail])]
      /\ Advance("write_log", "write_head")
      /\ UNCHANGED <<home, dhead, cache, pinned, lh, outstanding, committing, opc, written>>
  BY DEF write_log, buf, log, ops
<1>2. /\ lh \in Seq(Blocks) /\ tail \in 1..Len(lh) /\ tail \in Entries
      /\ Len(lh) \in Nat /\ Len(lh) <= LOGSIZE /\ tail \in Nat
  BY <1>1, LogAssumption DEF IInv, TypeOK, HeadInv, Entries
<1>3. Contents(lh[tail]) = cache[lh[tail]] /\ cache[lh[tail]] \in Val
  <2>1. lh[tail] \in pinned /\ lh[tail] \in Blocks
    BY <1>1, <1>2 DEF IInv, PinInv, Logged
  <2>2. QED
    BY <2>1 DEF IInv, TypeOK, PinInv, Contents
<1>4. /\ step' = (IF tail = Len(lh) THEN "write_head" ELSE "write_log")
      /\ tail' = (IF tail = Len(lh) THEN 1 ELSE tail + 1)
  BY <1>1 DEF Advance
<1>5. TypeOK'
  BY <1>1, <1>2, <1>3, <1>4 DEF IInv, TypeOK, Steps
<1>6. NoPanic' /\ CountInv' /\ SpaceInv'
  BY <1>1, <1>2, <1>4, <1>5, DiskStep DEF IInv, CountInv, CommitSteps
<1>7. HeadInv'
  BY <1>1, <1>2, <1>4 DEF IInv, HeadInv, Distinct
<1>8. PinInv'
  BY <1>1, <1>4 DEF IInv, PinInv, Logged
<1>9. CopyInv'
  <2>1. \A i \in 1..tail : dlog'[i] = cache[lh[i]]
    BY <1>1, <1>2, <1>3 DEF IInv, TypeOK, CopyInv, Entries
  <2>2. QED
    BY <1>1, <1>2, <1>4, <2>1 DEF CopyInv
<1>10. QED
  BY <1>5, <1>6, <1>7, <1>8, <1>9 DEF IInv

\* The commit point.
LEMMA WriteHeadStep ==
  ASSUME IInv, write_head
  PROVE  IInv'
<1>1. /\ step = "write_head" /\ dhead' = lh /\ step' = "install" /\ tail' = 1
      /\ UNCHANGED <<home, dlog, cache, pinned, lh, outstanding, committing, opc, written>>
  BY DEF write_head, buf, log, ops
<1>2. TypeOK'
  BY <1>1 DEF IInv, TypeOK, Steps
<1>3. NoPanic' /\ CountInv' /\ SpaceInv'
  BY <1>1, <1>2, DiskStep DEF IInv, CountInv, CommitSteps, HeadInv
<1>4. HeadInv'
  <2>1. 1 \in 1..Len(lh)
    BY <1>1 DEF IInv, TypeOK, HeadInv
  <2>2. QED
    BY <1>1, <2>1 DEF IInv, HeadInv, Distinct
<1>5. PinInv' /\ CopyInv'
  BY <1>1 DEF IInv, PinInv, Logged, CopyInv
<1>6. QED
  BY <1>2, <1>3, <1>4, <1>5 DEF IInv

\* One block from the log to its home, in commit().
LEMMA InstallStep ==
  ASSUME IInv, install_trans
  PROVE  IInv'
<1>1. /\ step = "install" /\ Install(lh[tail]) /\ pinned' = pinned \ {lh[tail]}
      /\ Advance("install", "clear")
      /\ UNCHANGED <<dlog, dhead, lh, outstanding, committing, opc, written>>
  BY DEF install_trans, log, ops
<1>2. /\ lh \in Seq(Blocks) /\ tail \in 1..Len(lh) /\ tail \in Entries
      /\ Len(lh) \in Nat /\ Len(lh) <= LOGSIZE /\ tail \in Nat
      /\ lh[tail] \in Blocks /\ dlog[tail] \in Val
  BY <1>1, LogAssumption DEF IInv, TypeOK, HeadInv, Entries
<1>3. /\ step' = (IF tail = Len(lh) THEN "clear" ELSE "install")
      /\ tail' = (IF tail = Len(lh) THEN 1 ELSE tail + 1)
  BY <1>1 DEF Advance
<1>4. TypeOK'
  BY <1>1, <1>2, <1>3 DEF IInv, TypeOK, Steps, Install
<1>5. NoPanic' /\ CountInv' /\ SpaceInv'
  BY <1>1, <1>2, <1>3, <1>4, DiskStep DEF IInv, CountInv, CommitSteps
<1>6. HeadInv'
  BY <1>1, <1>2, <1>3 DEF IInv, HeadInv, Distinct
<1>7. \A i \in 1..Len(lh) : lh[i] = lh[tail] => i = tail
  BY <1>2 DEF IInv, HeadInv, Distinct
<1>8. PinInv'
  <2>1. \A b \in Blocks : b \in pinned' <=> \E i \in (tail + 1)..Len(lh) : lh[i] = b
    BY <1>1, <1>2, <1>7 DEF IInv, PinInv
  <2>2. \A b \in Blocks : IF b \in pinned' THEN cache'[b] # Absent
                                           ELSE cache'[b] \in {Absent, home'[b]}
    BY <1>1, <1>2 DEF IInv, TypeOK, PinInv, Install
  <2>3. tail = Len(lh) => pinned' = {}
    BY <1>1, <1>2, <2>1 DEF IInv, TypeOK
  <2>4. QED
    BY <1>1, <1>3, <2>1, <2>2, <2>3 DEF PinInv
<1>9. CopyInv'
  <2>1. \A i \in 1..tail : home'[lh[i]] = dlog[i]
    BY <1>1, <1>2, <1>7 DEF IInv, TypeOK, CopyInv, Install
  <2>2. \A i \in (tail + 1)..Len(lh) : dlog[i] = cache'[lh[i]]
    BY <1>1, <1>2, <1>7 DEF IInv, TypeOK, CopyInv, Install
  <2>3. QED
    BY <1>1, <1>2, <1>3, <2>1, <2>2 DEF CopyInv
<1>10. QED
  BY <1>4, <1>5, <1>6, <1>8, <1>9 DEF IInv

\* The transaction is erased from the log, in commit() and after recovery.
LEMMA ClearStep ==
  ASSUME IInv, clear \/ r_clear
  PROVE  IInv'
<1>1. /\ lh' = <<>> /\ dhead' = <<>>
      /\ UNCHANGED <<home, dlog, cache, pinned, outstanding, committing, opc, written, tail>>
      /\ \/ step = "clear" /\ step' = "end"
         \/ step = "r_clear" /\ step' = "idle"
  BY DEF clear, r_clear, buf, ops
<1>2. TypeOK'
  BY <1>1 DEF IInv, TypeOK, Steps
<1>3. NoPanic' /\ CountInv' /\ SpaceInv'
  BY <1>1, <1>2, DiskStep, LogAssumption DEF IInv, CountInv, CommitSteps
<1>4. HeadInv' /\ PinInv' /\ CopyInv'
  BY <1>1, LogAssumption DEF IInv, HeadInv, Distinct, PinInv, Logged, CopyInv
<1>5. QED
  BY <1>2, <1>3, <1>4 DEF IInv

\* The end of end_op() after a commit.
LEMMA EndCommitStep ==
  ASSUME IInv, NEW o \in Ops, end_commit(o)
  PROVE  IInv'
<1>1. /\ step = "end" /\ opc[o] = "commit" /\ committing' = FALSE /\ step' = "idle"
      /\ UNCHANGED <<home, dlog, dhead, cache, pinned, lh, outstanding, written, tail>>
  BY DEF end_commit, disk, buf
<1>2. /\ opc' \in [Ops -> {"idle", "begin", "asleep", "in", "commit"}]
      /\ \A p \in Ops : opc'[p] = "in" <=> opc[p] = "in"
  BY <1>1 DEF IInv, TypeOK, end_commit, EndCommit, Wakeup
<1>3. TypeOK' /\ NoPanic'
  BY <1>1, <1>2 DEF IInv, TypeOK, NoPanic, Steps
<1>4. SpaceInv' /\ Inside' = Inside
  BY <1>1, <1>2, SpaceFrame DEF IInv
<1>5. CountInv' /\ HeadInv' /\ CopyInv'
  BY <1>1, <1>4 DEF IInv, CountInv, CommitSteps, HeadInv, Distinct, CopyInv
<1>6. PinInv'
  BY <1>1 DEF IInv, HeadInv, PinInv, Logged
<1>7. QED
  BY <1>3, <1>4, <1>5, <1>6 DEF IInv

\* The machine stops: the log on the disk is still one that recovery can read.
LEMMA CrashStep ==
  ASSUME IInv, Crash
  PROVE  IInv'
<1>1. TypeOK' /\ NoPanic'
  <2>1. lh' \in Seq(Blocks) /\ written' \in [Ops -> SUBSET Blocks]
    BY DEF Crash
  <2>2. /\ cache' \in [Blocks -> Val \cup {Absent}]
        /\ opc' \in [Ops -> {"idle", "begin", "asleep", "in", "commit"}]
    BY DEF Crash
  <2>3. UNCHANGED <<home, dlog, dhead>>
    BY DEF Crash, disk
  <2>4. /\ pinned' = {} /\ outstanding' = 0 /\ committing' = FALSE
        /\ step' = "read_head" /\ tail' = 0
    BY DEF Crash
  <2>5. QED
    BY <2>1, <2>2, <2>3, <2>4 DEF IInv, TypeOK, NoPanic, Steps
<1>2. Inside' = {} /\ (\A o \in Ops : written'[o] = {}) /\ Len(lh') = 0
  BY DEF Crash, Inside
<1>3. CountInv'
  BY <1>2, FS_EmptySet DEF CountInv, CommitSteps, Crash
<1>4. SpaceInv'
  BY <1>2, SpaceEmpty, LogAssumption DEF Crash
<1>5. HeadInv'
  BY <1>2, LogAssumption DEF IInv, HeadInv, Distinct, Crash, disk
<1>6. PinInv' /\ CopyInv'
  BY DEF PinInv, CopyInv, Crash
<1>7. QED
  BY <1>1, <1>3, <1>4, <1>5, <1>6 DEF IInv

\* Recovery finds the header of a transaction, or an empty one.
LEMMA ReadHeadStep ==
  ASSUME IInv, read_head
  PROVE  IInv'
<1>1. /\ step = "read_head" /\ lh' = dhead /\ tail' = 1
      /\ step' = (IF dhead = <<>> THEN "r_clear" ELSE "r_install")
      /\ UNCHANGED <<home, dlog, dhead, cache, pinned, outstanding, committing, opc, written>>
  BY DEF read_head, disk, buf, ops
<1>2. TypeOK'
  BY <1>1 DEF IInv, TypeOK, Steps
<1>3. NoPanic' /\ CountInv' /\ SpaceInv'
  BY <1>1, <1>2, DiskStep DEF IInv, CountInv, CommitSteps, HeadInv
<1>4. HeadInv'
  <2>1. dhead # <<>> => 1 \in 1..Len(dhead)
    BY DEF IInv, TypeOK
  <2>2. QED
    BY <1>1, <2>1 DEF IInv, HeadInv, Distinct
<1>5. PinInv' /\ CopyInv'
  BY <1>1 DEF IInv, PinInv, Logged, CopyInv
<1>6. QED
  BY <1>2, <1>3, <1>4, <1>5 DEF IInv

\* One block from the log to its home, in recovery.
LEMMA RecoverStep ==
  ASSUME IInv, r_install
  PROVE  IInv'
<1>1. /\ step = "r_install" /\ Install(lh[tail]) /\ Advance("r_install", "r_clear")
      /\ UNCHANGED <<dlog, dhead, pinned, lh, outstanding, committing, opc, written>>
  BY DEF r_install, log, ops
<1>2. /\ lh \in Seq(Blocks) /\ tail \in 1..Len(lh) /\ tail \in Entries
      /\ Len(lh) \in Nat /\ Len(lh) <= LOGSIZE /\ tail \in Nat
      /\ lh[tail] \in Blocks /\ dlog[tail] \in Val
  BY <1>1, LogAssumption DEF IInv, TypeOK, HeadInv, Entries
<1>3. /\ step' = (IF tail = Len(lh) THEN "r_clear" ELSE "r_install")
      /\ tail' = (IF tail = Len(lh) THEN 1 ELSE tail + 1)
  BY <1>1 DEF Advance
<1>4. TypeOK'
  BY <1>1, <1>2, <1>3 DEF IInv, TypeOK, Steps, Install
<1>5. NoPanic' /\ CountInv' /\ SpaceInv'
  BY <1>1, <1>2, <1>3, <1>4, DiskStep DEF IInv, CountInv, CommitSteps
<1>6. HeadInv'
  BY <1>1, <1>2, <1>3 DEF IInv, HeadInv, Distinct
<1>7. PinInv'
  BY <1>1, <1>2, <1>3 DEF IInv, TypeOK, PinInv, Install
<1>8. CopyInv'
  <2>1. \A i \in 1..Len(lh) : lh[i] = lh[tail] => i = tail
    BY <1>2 DEF IInv, HeadInv, Distinct
  <2>2. \A i \in 1..tail : home'[lh[i]] = dlog[i]
    BY <1>1, <1>2, <2>1 DEF IInv, TypeOK, CopyInv, Install
  <2>3. QED
    BY <1>1, <1>2, <1>3, <2>2 DEF CopyInv
<1>9. QED
  BY <1>4, <1>5, <1>6, <1>7, <1>8 DEF IInv

\* IInv is inductive.
LEMMA NextInv ==
  ASSUME IInv, [Next]_vars
  PROVE  IInv'
<1>1. CASE UNCHANGED vars
  <2>1. UNCHANGED <<home, dlog, dhead, cache, pinned, lh, outstanding, committing,
                    opc, written, step, tail>>
    BY <1>1 DEF vars, disk, buf, log, ops
  <2>2. QED
    BY <2>1, CallStep DEF IInv, TypeOK
<1>2. ASSUME NEW o \in Ops, Call(o)
      PROVE  IInv'
  <2>1. /\ UNCHANGED <<home, dlog, dhead, cache, pinned, lh, outstanding, written>>
        /\ step' = step /\ tail' = tail /\ committing' = committing
    BY <1>2 DEF Call, disk, buf, log
  <2>2. /\ opc' \in [Ops -> {"idle", "begin", "asleep", "in", "commit"}]
        /\ \A p \in Ops : opc'[p] = "in" <=> opc[p] = "in"
    BY <1>2 DEF IInv, TypeOK, Call
  <2>3. QED
    BY <2>1, <2>2, CallStep
<1>3. QED
  BY <1>1, <1>2, CacheStep, BeginStep, WriteStep, EndStep, WriteLogStep, WriteHeadStep,
     InstallStep, ClearStep, EndCommitStep, CrashStep, ReadHeadStep, RecoverStep
  DEF Next, Commit, Recover

\* The invariant holds in every reachable state.
LEMMA Invariance == Spec => []IInv
<1>1. Init => IInv
  BY InitInv
<1>2. IInv /\ [Next]_vars => IInv'
  BY NextInv
<1>3. QED
  BY <1>1, <1>2, PTL DEF Spec

-----------------------------------------------------------------------------
(* What follows from it.                                                   *)

\* The variables of log.c, of the buffer cache and of the disk keep their types;
\* in particular commit() and recovery never index the log outside of it.
THEOREM TypeCorrect == Spec => []TypeOK
<1>1. IInv => TypeOK
  BY DEF IInv
<1>2. QED
  BY <1>1, Invariance, PTL

\* begin_op()'s reservation suffices for any number of concurrent calls: neither
\* log_write() (log full, or outside a transaction) nor end_op() (commit under
\* way) panics.
THEOREM NeverPanics == Spec => []NoPanic
<1>1. IInv => NoPanic
  BY DEF IInv
<1>2. QED
  BY <1>1, Invariance, PTL

\* A block that is not pinned is what its home holds.
LEMMA UnpinnedIsHome ==
  ASSUME IInv, NEW b \in Blocks, b \notin pinned
  PROVE  Contents(b) = home[b]
BY DEF IInv, PinInv, Contents

\* When no call is active and no commit is under way, a crash loses nothing.
THEOREM IdleIsDurable == Spec => []DurableWhenIdle
<1>1. ASSUME IInv, outstanding = 0, ~committing, Running
      PROVE  Visible = AfterRecovery
  <2>1. step = "idle"
    BY <1>1 DEF IInv, TypeOK, Steps, CountInv, CommitSteps, Running
  <2>2. Inside = {}
    BY <1>1, LogAssumption, FS_Subset, FS_EmptySet DEF IInv, CountInv, Inside
  <2>3. lh = <<>> /\ dhead = <<>>
    BY <1>1, <2>1, <2>2 DEF IInv, CountInv, HeadInv
  <2>4. \A b \in Blocks : b \notin pinned
    BY <1>1, <2>1, <2>3 DEF IInv, PinInv, Logged
  <2>5. \A b \in Blocks : Contents(b) = home[b]
    BY <1>1, <2>4, UnpinnedIsHome
  <2>6. QED
    BY <2>1, <2>3, <2>5 DEF Visible, AfterRecovery
<1>2. IInv => DurableWhenIdle
  BY <1>1 DEF DurableWhenIdle
<1>3. QED
  BY <1>2, Invariance, PTL

-----------------------------------------------------------------------------
(* The log implements atomic transactions.                                 *)

\* The disk after the log blocks d with header h are installed over the homes m.
Replay(m, d, h) ==
  [b \in Blocks |-> IF \E i \in 1..Len(h) : h[i] = b
                    THEN d[CHOOSE i \in 1..Len(h) : h[i] = b] ELSE m[b]]

\* Each logged block comes from its entry, every other block from its home.
LEMMA ReplayBlock ==
  ASSUME NEW m, NEW d, NEW h \in Seq(Blocks), Distinct(h)
  PROVE  /\ \A i \in 1..Len(h) : Replay(m, d, h)[h[i]] = d[i]
         /\ \A b \in Blocks : (\A i \in 1..Len(h) : h[i] # b) => Replay(m, d, h)[b] = m[b]
         /\ h = <<>> => Replay(m, d, h) = [b \in Blocks |-> m[b]]
<1>1. ASSUME NEW i \in 1..Len(h)
      PROVE  Replay(m, d, h)[h[i]] = d[i]
  <2>1. h[i] \in Blocks
    OBVIOUS
  <2>2. (CHOOSE j \in 1..Len(h) : h[j] = h[i]) = i
    BY DEF Distinct
  <2>3. QED
    BY <2>1, <2>2 DEF Replay
<1>2. \A b \in Blocks : (\A i \in 1..Len(h) : h[i] # b) => Replay(m, d, h)[b] = m[b]
  BY DEF Replay
<1>3. ASSUME h = <<>>
      PROVE  Replay(m, d, h) = [b \in Blocks |-> m[b]]
  BY <1>3 DEF Replay
<1>4. QED
  BY <1>1, <1>2, <1>3

\* Installing what the log holds anyway changes nothing for recovery: it may be
\* interrupted and begun again.
LEMMA ReplayInstalled ==
  ASSUME NEW m, NEW n, NEW d, NEW h \in Seq(Blocks), Distinct(h),
         \A b \in Blocks : (\A i \in 1..Len(h) : h[i] # b) => m[b] = n[b]
  PROVE  Replay(m, d, h) = Replay(n, d, h)
<1>1. ASSUME NEW b \in Blocks
      PROVE  Replay(m, d, h)[b] = Replay(n, d, h)[b]
  BY ReplayBlock
<1>2. QED
  BY <1>1 DEF Replay

\* AfterRecovery is a replay, before and after a step.
LEMMA AfterIsReplay ==
  /\ AfterRecovery = Replay(home, dlog, dhead)
  /\ AfterRecovery' = Replay(home', dlog', dhead')
BY DEF AfterRecovery, Replay

\* What the invariant says of a disk whose header is lh and whose blocks are home.
LEMMA AllInstalled ==
  ASSUME IInv, step \in {"clear", "r_clear"}
  PROVE  AfterRecovery = home
<1>1. dhead \in Seq(Blocks) /\ Distinct(dhead) /\ home \in [Blocks -> Val]
  BY DEF IInv, TypeOK, HeadInv
<1>2. \A i \in 1..Len(dhead) : home[dhead[i]] = dlog[i]
  BY DEF IInv, HeadInv, CopyInv
<1>3. ASSUME NEW b \in Blocks
      PROVE  Replay(home, dlog, dhead)[b] = home[b]
  BY <1>1, <1>2, ReplayBlock
<1>4. QED
  BY <1>1, <1>3, AfterIsReplay DEF Replay

-----------------------------------------------------------------------------

\* The file system sees nothing yet.
Recovering == step \in {"read_head", "r_install", "r_clear"}

\* A step that changes neither the disk nor the cache shows nothing.
LEMMA SameContents ==
  ASSUME UNCHANGED <<home, dlog, dhead, cache>>, Recovering' <=> Recovering
  PROVE  Visible' = Visible /\ AfterRecovery' = AfterRecovery
<1>1. AfterRecovery' = AfterRecovery
  BY DEF AfterRecovery
<1>2. \A b \in Blocks : Contents(b)' = Contents(b)
  BY DEF Contents
<1>3. QED
  BY <1>1, <1>2 DEF Visible, Recovering

\* The machine starts with the contents that mkfs wrote.
LEMMA TxnInitStep ==
  ASSUME Init
  PROVE  Transactions!TxnInit
<1>1. Visible = AfterRecovery
  BY DEF Init, Visible
<1>2. AfterRecovery = [b \in Blocks |-> home[b]]
  BY DEF Init, AfterRecovery
<1>3. home \in [Blocks -> Val]
  BY DEF Init
<1>4. AfterRecovery \in [Blocks -> Val]
  BY <1>2, <1>3
<1>5. QED
  BY <1>1, <1>4 DEF Init, Transactions!TxnInit

\* Every step of log.c, of the cache and of recovery is a step of the abstract
\* transactions or a stutter.
LEMMA TxnStep ==
  ASSUME IInv, Next
  PROVE  [Transactions!TxnNext]_(Transactions!txnvars)
<1>1. ASSUME NEW b \in Blocks, Bread(b) \/ Recycle(b)
      PROVE  UNCHANGED Transactions!txnvars
  <2>1. UNCHANGED <<home, dlog, dhead, outstanding, step>>
    BY <1>1 DEF Bread, Recycle, disk, log
  <2>2. \A c \in Blocks : Contents(c)' = Contents(c)
    BY <1>1, <2>1, LogAssumption DEF IInv, TypeOK, PinInv, Contents, Bread, Recycle
  <2>3. AfterRecovery' = AfterRecovery
    BY <2>1 DEF AfterRecovery
  <2>4. Visible' = Visible
    BY <2>1, <2>2, <2>3 DEF Visible
  <2>5. QED
    BY <2>1, <2>3, <2>4 DEF Transactions!txnvars
<1>2. ASSUME NEW o \in Ops, Call(o) \/ end_commit(o)
      PROVE  UNCHANGED Transactions!txnvars
  <2>1. UNCHANGED <<home, dlog, dhead, cache, outstanding>> /\ (Recovering' <=> Recovering)
    BY <1>2 DEF Call, end_commit, disk, buf, log, Recovering
  <2>2. QED
    BY <2>1, SameContents DEF Transactions!txnvars
<1>3. ASSUME NEW o \in Ops, begin_op(o)
      PROVE  Transactions!Begin \/ UNCHANGED Transactions!txnvars
  <2>1. /\ UNCHANGED <<home, dlog, dhead, cache>> /\ (Recovering' <=> Recovering)
        /\ outstanding' = outstanding + 1 \/ outstanding' = outstanding
    BY <1>3 DEF begin_op, disk, buf, Recovering
  <2>2. QED
    BY <2>1, SameContents DEF Transactions!txnvars, Transactions!Begin
<1>4. ASSUME NEW o \in Ops, end_op(o)
      PROVE  Transactions!End
  <2>1. outstanding >= 1 /\ step = "idle" /\ ~committing /\ outstanding \in Nat
    BY <1>4, RoomInside DEF end_op, IInv, TypeOK
  <2>2. /\ UNCHANGED <<home, dlog, dhead, cache>> /\ (Recovering' <=> Recovering)
        /\ outstanding' = outstanding - 1
    BY <1>4, <2>1 DEF end_op, disk, buf, Recovering
  <2>3. QED
    BY <2>1, <2>2, SameContents DEF Transactions!End
<1>5. ASSUME NEW o \in Ops, NEW b \in Blocks, NEW v \in Val, log_write(o, b, v)
      PROVE  Transactions!Write(b, v)
  <2>1. /\ Len(lh) < LOGSIZE - 1 /\ outstanding >= 1 /\ step = "idle" /\ ~committing
        /\ outstanding \in Nat /\ Len(lh) \in Nat
    BY <1>5, RoomInside DEF log_write, IInv, TypeOK
  <2>2. /\ UNCHANGED <<home, dlog, dhead, outstanding, step>>
        /\ cache' = [cache EXCEPT ![b] = v]
    BY <1>5, <2>1, LogAssumption DEF log_write, disk
  <2>3. AfterRecovery' = AfterRecovery
    BY <2>2 DEF AfterRecovery
  <2>4. \A c \in Blocks : Contents(c)' = IF c = b THEN v ELSE Contents(c)
    BY <2>2, LogAssumption DEF IInv, TypeOK, Contents
  <2>5. Visible' = [Visible EXCEPT ![b] = v]
    BY <2>1, <2>2, <2>4 DEF Visible
  <2>6. QED
    BY <2>1, <2>2, <2>3, <2>5 DEF Transactions!Write
<1>6. ASSUME write_log
      PROVE  UNCHANGED Transactions!txnvars
  <2>1. /\ UNCHANGED <<home, dhead, cache, outstanding>>
        /\ step = "write_log" /\ step' \in {"write_log", "write_head"}
    BY <1>6 DEF write_log, Advance, buf, log
  <2>2. dhead = <<>>
    BY <2>1 DEF IInv, HeadInv
  <2>3. AfterRecovery' = AfterRecovery
    BY <2>1, <2>2 DEF AfterRecovery
  <2>4. \A c \in Blocks : Contents(c)' = Contents(c)
    BY <2>1 DEF Contents
  <2>5. Visible' = Visible
    BY <2>1, <2>4 DEF Visible
  <2>6. QED
    BY <2>1, <2>3, <2>5 DEF Transactions!txnvars
<1>7. ASSUME write_head
      PROVE  Transactions!Commit
  <2>1. /\ UNCHANGED <<home, dlog, cache, outstanding>>
        /\ step = "write_head" /\ step' = "install" /\ dhead' = lh
    BY <1>7 DEF write_head, buf, log
  <2>2. \A c \in Blocks : Contents(c)' = Contents(c)
    BY <2>1 DEF Contents
  <2>3. Visible' = Visible
    BY <2>1, <2>2 DEF Visible
  <2>4. outstanding = 0
    BY <2>1, FS_EmptySet DEF IInv, CountInv
  <2>5. lh \in Seq(Blocks) /\ Distinct(lh)
    BY DEF IInv, TypeOK, HeadInv
  <2>6. ASSUME NEW b \in Blocks
        PROVE  Replay(home, dlog, lh)[b] = Contents(b)
    <3>1. CASE Logged(b)
      <4>1. PICK i \in 1..Len(lh) : lh[i] = b
        BY <3>1 DEF Logged
      <4>2. dlog[i] = cache[b] /\ cache[b] # Absent
        BY <2>1, <3>1, <4>1 DEF IInv, CopyInv, PinInv
      <4>3. Replay(home, dlog, lh)[b] = dlog[i]
        BY <2>5, <4>1, ReplayBlock
      <4>4. QED
        BY <4>2, <4>3 DEF Contents
    <3>2. CASE ~Logged(b)
      <4>1. Contents(b) = home[b]
        BY <2>1, <3>2, UnpinnedIsHome DEF IInv, PinInv
      <4>2. Replay(home, dlog, lh)[b] = home[b]
        BY <2>5, <3>2, ReplayBlock DEF Logged
      <4>3. QED
        BY <4>1, <4>2
    <3>3. QED
      BY <3>1, <3>2
  <2>7. AfterRecovery' = Visible
    BY <2>1, <2>6, AfterIsReplay DEF Visible, Replay
  <2>8. QED
    BY <2>1, <2>3, <2>4, <2>7 DEF Transactions!Commit
<1>8. ASSUME install_trans \/ r_install
      PROVE  UNCHANGED Transactions!txnvars
  <2>1. /\ UNCHANGED <<dlog, dhead, lh, outstanding>> /\ Install(lh[tail])
        /\ \/ step = "install" /\ step' \in {"install", "clear"}
           \/ step = "r_install" /\ step' \in {"r_install", "r_clear"}
    BY <1>8 DEF install_trans, r_install, Advance, log
  <2>2. /\ dhead \in Seq(Blocks) /\ Distinct(dhead) /\ dhead = lh
        /\ tail \in 1..Len(lh) /\ lh[tail] \in Blocks /\ tail \in Entries
    BY <2>1, LogAssumption DEF IInv, TypeOK, HeadInv, Entries
  <2>3. AfterRecovery' = AfterRecovery
    <3>1. \A b \in Blocks : (\A i \in 1..Len(dhead) : dhead[i] # b) => home'[b] = home[b]
      BY <2>1, <2>2 DEF IInv, TypeOK, Install
    <3>2. QED
      BY <2>1, <2>2, <3>1, AfterIsReplay, ReplayInstalled
  <2>4. CASE step = "install"
    <3>1. dlog[tail] = cache[lh[tail]] /\ dlog[tail] \in Val
      BY <2>2, <2>4 DEF IInv, TypeOK, CopyInv
    <3>2. \A c \in Blocks : Contents(c)' = Contents(c)
      BY <2>1, <2>2, <3>1, LogAssumption DEF IInv, TypeOK, Contents, Install
    <3>3. Visible' = Visible
      BY <2>1, <2>4, <3>2 DEF Visible
    <3>4. QED
      BY <2>1, <2>3, <3>3 DEF Transactions!txnvars
  <2>5. CASE step = "r_install"
    BY <2>1, <2>3, <2>5 DEF Visible, Transactions!txnvars
  <2>6. QED
    BY <2>1, <2>4, <2>5
<1>9. ASSUME clear \/ r_clear
      PROVE  UNCHANGED Transactions!txnvars
  <2>1. /\ UNCHANGED <<home, dlog, cache, pinned, outstanding>> /\ dhead' = <<>>
        /\ \/ step = "clear" /\ step' = "end"
           \/ step = "r_clear" /\ step' = "idle"
    BY <1>9 DEF clear, r_clear, buf
  <2>2. AfterRecovery = home
    BY <2>1, AllInstalled
  <2>3. AfterRecovery' = home
    <3>1. AfterRecovery' = [b \in Blocks |-> home[b]]
      BY <2>1 DEF AfterRecovery
    <3>2. QED
      BY <3>1 DEF IInv, TypeOK
  <2>4. \A b \in Blocks : Contents(b) = home[b] /\ Contents(b)' = home[b]
    <3>1. pinned = {}
      BY <2>1 DEF IInv, PinInv
    <3>2. \A b \in Blocks : Contents(b)' = Contents(b)
      BY <2>1 DEF Contents
    <3>3. QED
      BY <3>1, <3>2, UnpinnedIsHome
  <2>5. home = [b \in Blocks |-> home[b]]
    BY DEF IInv, TypeOK
  <2>6. Visible = home /\ Visible' = home
    BY <2>1, <2>2, <2>4, <2>5 DEF Visible
  <2>7. QED
    BY <2>1, <2>2, <2>3, <2>6 DEF Transactions!txnvars
<1>10. ASSUME Crash
       PROVE  Transactions!Crash
  <2>1. UNCHANGED <<home, dlog, dhead>> /\ step' = "read_head" /\ outstanding' = 0
    BY <1>10 DEF Crash, disk
  <2>2. AfterRecovery' = AfterRecovery
    BY <2>1 DEF AfterRecovery
  <2>3. QED
    BY <2>1, <2>2 DEF Visible, Transactions!Crash
<1>11. ASSUME read_head
       PROVE  UNCHANGED Transactions!txnvars
  <2>1. UNCHANGED <<home, dlog, dhead, cache, outstanding>> /\ (Recovering' <=> Recovering)
    BY <1>11 DEF read_head, disk, buf, Recovering
  <2>2. QED
    BY <2>1, SameContents DEF Transactions!txnvars
<1>12. QED
  BY <1>1, <1>2, <1>3, <1>4, <1>5, <1>6, <1>7, <1>8, <1>9, <1>10, <1>11
  DEF Next, Commit, Recover, Transactions!TxnNext

\* Any crash, in the middle of a commit or of a recovery, leaves the disk with all
\* the updates of a transaction or with none: log.c implements Txn.
THEOREM TransactionsAreAtomic == Spec => ImplementsTxn
<1>1. Init => Transactions!TxnInit
  BY TxnInitStep
<1>2. IInv /\ [Next]_vars => [Transactions!TxnNext]_(Transactions!txnvars)
  <2>1. CASE Next
    BY <2>1, TxnStep
  <2>2. CASE UNCHANGED vars
    <3>1. UNCHANGED <<home, dlog, dhead, cache, outstanding>> /\ (Recovering' <=> Recovering)
      BY <2>2 DEF vars, disk, buf, log, Recovering
    <3>2. QED
      BY <3>1, SameContents DEF Transactions!txnvars
  <2>3. QED
    BY <2>1, <2>2
<1>3. QED
  BY <1>1, <1>2, Invariance, PTL DEF Spec, ImplementsTxn, Transactions!TxnSpec

=============================================================================
