----------------------------- MODULE DiskProofs -----------------------------
(***************************************************************************)
(* The buffer cache and the virtio driver of module Disk, for any number   *)
(* of processes, blocks, buffers and descriptors.                          *)
(***************************************************************************)
EXTENDS Disk, FiniteSetTheorems, TLAPS

-----------------------------------------------------------------------------
(* Facts about numbers and finite sets.                                    *)

\* The constants as the proofs use them.
LEMMA Constants ==
  /\ NUM \in Nat /\ NUM >= 3 /\ NBUF \in Nat \ {0} /\ MaxCalls \in Nat /\ MaxPins \in Nat
  /\ Counters \in Nat \ {0} /\ Counters % NUM = 0 /\ First \in 0..Counters - 1
  /\ Bufs = 1..NBUF /\ Descs = 0..NUM - 1 /\ IsFiniteSet(Procs) /\ IsFiniteSet(Descs)
  /\ Cardinality(Descs) = NUM
  /\ None \notin Procs /\ None \notin Blocks /\ None \notin Bufs /\ None \notin Descs
<1>1. IsFiniteSet(0..NUM - 1) /\ Cardinality(0..NUM - 1) = NUM
  BY DiskAssumption, FS_Interval
<1>2. QED
  BY <1>1, DiskAssumption DEF Bufs, Descs

\* A finite set of natural numbers that is not empty has a least element: Min() is in it.
LEMMA LeastElement ==
  ASSUME NEW T \in SUBSET Nat, IsFiniteSet(T), T # {}
  PROVE  Min(T) \in T
<1> DEFINE W == {U \in SUBSET T : \E x \in T : \A y \in T : y \in U <=> y <= x}
           R == StrictSubsetOrdering(T)
<1>1. IsWellFoundedOn(R, FiniteSubsetsOf(T)) /\ FiniteSubsetsOf(T) = SUBSET T
  BY FS_StrictSubsetOrderingWellFounded, FS_FiniteSubsetsOfFinite
<1>2. W \subseteq FiniteSubsetsOf(T) /\ \A x \in T : {y \in T : y <= x} \in W
  BY <1>1
<1>3. \E X \in W : \A Y \in W : ~ (<<Y, X>> \in R)
  <2>1. W # {}
    BY <1>2
  <2> HIDE DEF W, R
  <2>2. QED
    BY <1>1, <1>2, <2>1, WFMin
<1>4. PICK X \in W : \A Y \in W : <<Y, X>> \notin R
  BY <1>3
<1>5. PICK x \in T : \A y \in T : y \in X <=> y <= x
  BY <1>4
<1>6. ASSUME NEW z \in T, z < x
      PROVE  FALSE
  <2> DEFINE Z == {y \in T : y <= z}
  <2>1. \A y \in T : y \in Nat
    OBVIOUS
  <2>2. \A y \in Z : y \in X
    BY <1>5, <1>6, <2>1
  <2>3. x \in X /\ x \notin Z
    BY <1>5, <1>6, <2>1
  <2>4. Z \in SUBSET T /\ X \in SUBSET T
    OBVIOUS
  <2>5. <<Z, X>> \in R
    BY <2>2, <2>3, <2>4 DEF StrictSubsetOrdering
  <2>6. QED
    BY <1>2, <1>4, <2>5
<1>7. \A y \in T : x <= y
  <2>1. \A y \in T : y \in Nat
    OBVIOUS
  <2>2. QED
    BY <1>6, <2>1
<1>8. QED
  BY <1>7 DEF Min

\* The same for Max() and the numbers up to N.
LEMMA GreatestElement ==
  ASSUME NEW N \in Nat, NEW T \in SUBSET (1..N), T # {}
  PROVE  Max(T) \in T
<1> DEFINE W == {U \in SUBSET T : \E x \in T : \A y \in T : y \in U <=> y >= x}
           R == StrictSubsetOrdering(T)
<1>0. IsFiniteSet(T)
  <2>1. IsFiniteSet(1..N)
    BY FS_Interval
  <2>2. QED
    BY <2>1, FS_Subset
<1>1. IsWellFoundedOn(R, FiniteSubsetsOf(T)) /\ FiniteSubsetsOf(T) = SUBSET T
  BY <1>0, FS_StrictSubsetOrderingWellFounded, FS_FiniteSubsetsOfFinite
<1>2. W \subseteq FiniteSubsetsOf(T) /\ \A x \in T : {y \in T : y >= x} \in W
  BY <1>1
<1>3. \E X \in W : \A Y \in W : ~ (<<Y, X>> \in R)
  <2>1. W # {}
    BY <1>2
  <2> HIDE DEF W, R
  <2>2. QED
    BY <1>1, <1>2, <2>1, WFMin
<1>4. PICK X \in W : \A Y \in W : <<Y, X>> \notin R
  BY <1>3
<1>5. PICK x \in T : \A y \in T : y \in X <=> y >= x
  BY <1>4
<1>6. ASSUME NEW z \in T, z > x
      PROVE  FALSE
  <2> DEFINE Z == {y \in T : y >= z}
  <2>1. \A y \in T : y \in Nat
    OBVIOUS
  <2>2. \A y \in Z : y \in X
    BY <1>5, <1>6, <2>1
  <2>3. x \in X /\ x \notin Z
    BY <1>5, <1>6, <2>1
  <2>4. Z \in SUBSET T /\ X \in SUBSET T
    OBVIOUS
  <2>5. <<Z, X>> \in R
    BY <2>2, <2>3, <2>4 DEF StrictSubsetOrdering
  <2>6. QED
    BY <1>2, <1>4, <2>5
<1>7. \A y \in T : x >= y
  <2>1. \A y \in T : y \in Nat
    OBVIOUS
  <2>2. QED
    BY <1>6, <2>1
<1>8. QED
  BY <1>7 DEF Max

\* Division by NUM: quotient and remainder, and that they are unique.
LEMMA Division ==
  ASSUME NEW x \in Int
  PROVE  /\ x \div NUM \in Int /\ x % NUM \in 0..NUM - 1
         /\ x = NUM * (x \div NUM) + (x % NUM)
         /\ \A q \in Int, r \in 0..NUM - 1 : x = NUM * q + r => x % NUM = r
<1>1. x \div NUM \in Int /\ x % NUM \in 0..NUM - 1 /\ x = NUM * (x \div NUM) + (x % NUM)
  BY Constants
<1>2. ASSUME NEW q \in Int, NEW r \in 0..NUM - 1, x = NUM * q + r
      PROVE  x % NUM = r
  BY <1>2, Constants
<1>3. QED
  BY <1>1, <1>2

\* Positions that are less than NUM apart are different in a ring of NUM entries.
LEMMA Apart ==
  ASSUME NEW x \in Nat, NEW y \in Nat, x < y, y < x + NUM
  PROVE  x % NUM # y % NUM
<1> DEFINE q == x \div NUM
           r == x % NUM
<1>1. q \in Int /\ r \in 0..NUM - 1 /\ x = NUM * q + r
  BY Division
<1> HIDE DEF q
<1>2. CASE r + (y - x) < NUM
  <2>1. y = NUM * q + (r + (y - x)) /\ r + (y - x) \in 0..NUM - 1
    BY <1>1, <1>2, Constants
  <2>2. y % NUM = r + (y - x)
    BY <1>1, <2>1, Division
  <2>3. QED
    BY <1>1, <2>2
<1>3. CASE r + (y - x) >= NUM
  <2>1. r + (y - x) - NUM \in 0..NUM - 1
    BY <1>1, <1>3, Constants
  <2>2. NUM * (q + 1) = NUM * q + NUM
    BY <1>1, Constants
  <2>3. y = NUM * (q + 1) + (r + (y - x) - NUM)
    BY <1>1, <2>2, Constants
  <2>4. y % NUM = r + (y - x) - NUM
    BY <1>1, <2>1, <2>3, Division
  <2>5. QED
    BY <1>1, <2>4, Constants
<1>4. QED
  BY <1>1, <1>2, <1>3, Constants

\* Counters is a multiple of NUM, so a counter that wraps around stays at its position.
LEMMA WrapsInStep ==
  ASSUME NEW x \in Nat
  PROVE  (Counters + x) % NUM = x % NUM
<1> DEFINE q == Counters \div NUM
           p == x \div NUM
           r == x % NUM
<1>1. q \in Int /\ Counters = NUM * q
  <2>1. Counters \in Int /\ Counters % NUM = 0
    BY Constants
  <2>2. q \in Int /\ Counters = NUM * q + (Counters % NUM)
    BY <2>1, Division
  <2> HIDE DEF q
  <2>3. NUM * q \in Int
    BY <2>2, Constants
  <2>4. QED
    BY <2>1, <2>2, <2>3
<1>2. p \in Int /\ r \in 0..NUM - 1 /\ x = NUM * p + r
  BY Division
<1> HIDE DEF q, p, r
<1>3. NUM * (q + p) = NUM * q + NUM * p
  BY <1>1, <1>2, Constants
<1>4. Counters + x = NUM * (q + p) + r /\ q + p \in Int /\ Counters + x \in Int
  BY <1>1, <1>2, <1>3, Constants
<1>5. (Counters + x) % NUM = r
  BY <1>2, <1>4, Division
<1>6. QED
  BY <1>5 DEF r

-----------------------------------------------------------------------------
(* The invariant.                                                          *)

\* A process from its acquiresleep() to its releasesleep().
Locked == {"rw", "rw_asleep", "io", "io_done", "held"}

\* A request of the process is on its way; its descriptors.
Active(p) == pc[p] \in {"io", "io_done"}
Own(p)    == IF Active(p) THEN {idx[p][1], idx[p][2], idx[p][3]} ELSE {}

\* From bget() to brelse() a process has the buffer of a block; the lock says who.
LockInv ==
  /\ \A p \in Procs : IF pc[p] \in {"idle", "panic"} THEN cur[p] = None
                      ELSE cur[p] \in Bufs /\ buf[cur[p]].blockno \in Blocks
  /\ \A p \in Procs, b \in Bufs : buf[b].lock = p <=> (cur[p] = b /\ pc[p] \in Locked)

\* The processes that have a buffer; with the pin they are its references.
Users(b) == {p \in Procs : cur[p] = b}
Pins(b)  == IF b \in pinned THEN 1 ELSE 0

RefInv == \A b \in Bufs : buf[b].refcnt = Cardinality(Users(b)) + Pins(b)

\* A block is in one buffer at most.
CacheInv ==
  /\ \A b \in Bufs, c \in Bufs : buf[b].blockno = buf[c].blockno /\ buf[b].blockno \in Blocks => b = c
  /\ \A b \in pinned : buf[b].blockno \in Blocks

\* A valid buffer holds what the last holder of the block left.  So does the disk, or
\* the block is in a valid buffer that is locked or pinned.
DataInv ==
  /\ \A b \in Bufs :
       buf[b].valid => buf[b].blockno \in Blocks /\ buf[b].data = last[buf[b].blockno]
  /\ \A k \in Blocks :
       \/ platter[k] = last[k]
       \/ \E b \in Bufs : /\ buf[b].blockno = k /\ buf[b].valid
                          /\ buf[b].lock # None \/ b \in pinned
  /\ \A p \in Procs : pc[p] = "held" => buf[cur[p]].valid

\* A request is a chain of three descriptors; the others are free.
ChainInv ==
  /\ DOMAIN desc = Descs
  /\ \A p \in Procs :
       IF Active(p)
       THEN /\ idx[p] \in Descs \X Descs \X Descs
            /\ idx[p][1] # idx[p][2] /\ idx[p][1] # idx[p][3] /\ idx[p][2] # idx[p][3]
            /\ desc[idx[p][1]].next = idx[p][2] /\ desc[idx[p][2]].next = idx[p][3]
       ELSE idx[p] = <<>>
  /\ \A d \in Descs : d \in free <=> \A p \in Procs : d \notin Own(p)
  /\ \A p \in Procs, q \in Procs : Own(p) \cap Own(q) # {} => p = q

\* The chain says what is to be done with the buffer, and info[] which buffer it is;
\* when the request is done the buffer holds what it should.
RequestInv ==
  \A p \in Procs :
    Active(p) =>
      LET h == idx[p][1]
          b == cur[p] IN
      /\ desc[h].addr = [write |-> buf[b].valid, sector |-> buf[b].blockno]
      /\ desc[idx[p][2]].addr = b /\ desc[idx[p][3]].addr = h
      /\ info[h].b = b
      /\ info[h].done => buf[b].data = last[buf[b].blockno]
      /\ pc[p] = "io_done" => info[h].done

\* The position a counter stands for, the counter after one, and how far apart two are.
Pos(x)     == x % NUM
Succ(x)    == (x + 1) % Counters
Dist(x, y) == (x - y) % Counters

\* Entry k of a ring that is read from `from' on, and how many there are.
Entry(r, from, k) == r.ring[Pos(from + k)]
Length(r, from)   == Dist(r.idx, from)

\* They are different heads of chains.
Heads(r, from) ==
  /\ Length(r, from) < NUM
  /\ \A k \in 0..Length(r, from) - 1 :
       /\ Entry(r, from, k) \in Descs
       /\ \A l \in 0..Length(r, from) - 1 : Entry(r, from, k) = Entry(r, from, l) => k = l

\* Where a request can be.
In(r, from, h) == \E k \in 0..Length(r, from) - 1 : Entry(r, from, k) = h
InAvail(h)     == In(avail, seen, h)
InUsed(h)      == In(used, used_idx, h)

\* The requests that nobody has woken are in the avail ring, with the device or in the
\* used ring, in one of the three, and nothing else is there.
RingInv ==
  /\ Heads(avail, seen) /\ Heads(used, used_idx)
  /\ \A h \in Descs : (InAvail(h) \/ h \in taken \/ InUsed(h))
                       <=> \E p \in Procs : pc[p] = "io" /\ idx[p][1] = h
  /\ \A h \in Descs : /\ ~(InAvail(h) /\ h \in taken) /\ ~(InAvail(h) /\ InUsed(h))
                      /\ ~(h \in taken /\ InUsed(h))
                      /\ InUsed(h) => info[h].done

\* The interrupt handler has been called for, and who waits for descriptors has to.
WakeInv ==
  /\ used_idx # used.idx => isr \/ intr
  /\ (\E p \in Procs : pc[p] = "rw_asleep") => Cardinality(free) < 3

IInv ==
  /\ TypeOK /\ LockInv /\ RefInv /\ CacheInv /\ DataInv
  /\ ChainInv /\ RequestInv /\ RingInv /\ WakeInv

-----------------------------------------------------------------------------
(* The rings, for either of them.                                          *)

\* A remainder, for numbers of at most the divisor.
LEMMA Remainder ==
  ASSUME NEW x \in Int
  PROVE  /\ x % Counters \in 0..Counters - 1
         /\ x \in 0..Counters - 1 => x % Counters = x
         /\ x = Counters => x % Counters = 0
         /\ x < 0 /\ -Counters <= x => x % Counters = x + Counters
<1>1. x % Counters \in 0..Counters - 1
  BY Constants
<1>2. x \in 0..Counters - 1 => x % Counters = x
  BY Constants
<1>3. x = Counters => x % Counters = 0
  BY Constants
<1>4. x < 0 /\ -Counters <= x => x % Counters = x + Counters
  BY Constants
<1>5. QED
  BY <1>1, <1>2, <1>3, <1>4

\* The successor of a counter, and the distance of two.
LEMMA Distance ==
  ASSUME NEW i \in 0..Counters - 1, NEW j \in 0..Counters - 1
  PROVE  /\ (i + 1) % Counters = IF i + 1 = Counters THEN 0 ELSE i + 1
         /\ (i - j) % Counters = IF i >= j THEN i - j ELSE i - j + Counters
<1>1. i + 1 = Counters \/ i + 1 \in 0..Counters - 1
  BY Constants
<1>2. i >= j => i - j \in 0..Counters - 1
  BY Constants
<1>3. i < j => i - j < 0 /\ -Counters <= i - j
  BY Constants
<1>4. i \in Int /\ j \in Int /\ i + 1 \in Int /\ i - j \in Int /\ (i < j \/ i >= j)
  BY Constants
<1>5. (i + 1) % Counters = IF i + 1 = Counters THEN 0 ELSE i + 1
  <2>1. CASE i + 1 = Counters
    BY <1>4, <2>1, Remainder
  <2>2. CASE i + 1 # Counters
    <3>1. i + 1 \in 0..Counters - 1
      BY <1>1, <2>2
    <3>2. QED
      BY <1>4, <2>2, <3>1, Remainder
  <2>3. QED
    BY <2>1, <2>2
<1>6. CASE i >= j
  <2>1. (i - j) % Counters = i - j
    BY <1>2, <1>4, <1>6, Remainder
  <2>2. QED
    BY <1>5, <1>6, <2>1
<1>7. CASE i < j
  <2>1. (i - j) % Counters = i - j + Counters
    BY <1>3, <1>4, <1>7, Remainder
  <2>2. ~(i >= j)
    BY <1>4, <1>7
  <2>3. QED
    BY <1>5, <2>1, <2>2
<1>8. QED
  BY <1>4, <1>6, <1>7

\* One counter is advanced: the distance grows, or shrinks, by one.
LEMMA Advance ==
  ASSUME NEW i \in 0..Counters - 1, NEW j \in 0..Counters - 1
  PROVE  /\ Dist(i, j) \in 0..Counters - 1 /\ (i = j <=> Dist(i, j) = 0)
         /\ Succ(i) \in 0..Counters - 1
         /\ Dist(i, j) + 1 < Counters => Dist(Succ(i), j) = Dist(i, j) + 1
         /\ i # j => Dist(i, Succ(j)) = Dist(i, j) - 1
<1>0. \A x \in 0..Counters - 1, y \in 0..Counters - 1 :
        /\ Succ(x) = IF x + 1 = Counters THEN 0 ELSE x + 1
        /\ Dist(x, y) = IF x >= y THEN x - y ELSE x - y + Counters
  BY Distance DEF Succ, Dist
<1>1. /\ Dist(i, j) = IF i >= j THEN i - j ELSE i - j + Counters
      /\ Succ(i) = IF i + 1 = Counters THEN 0 ELSE i + 1
      /\ Succ(j) = IF j + 1 = Counters THEN 0 ELSE j + 1
  BY <1>0
<1>2. /\ Dist(i, j) \in 0..Counters - 1 /\ (i = j <=> Dist(i, j) = 0)
      /\ Succ(i) \in 0..Counters - 1 /\ Succ(j) \in 0..Counters - 1
  BY <1>1, Constants
<1>3. ASSUME Dist(i, j) + 1 < Counters
      PROVE  Dist(Succ(i), j) = Dist(i, j) + 1
  <2>1. Dist(Succ(i), j) = IF Succ(i) >= j THEN Succ(i) - j ELSE Succ(i) - j + Counters
    BY <1>0, <1>2
  <2>2. QED
    BY <1>1, <1>2, <1>3, <2>1, Constants
<1>4. ASSUME i # j
      PROVE  Dist(i, Succ(j)) = Dist(i, j) - 1
  <2>1. Dist(i, Succ(j)) = IF i >= Succ(j) THEN i - Succ(j) ELSE i - Succ(j) + Counters
    BY <1>0, <1>2
  <2>2. QED
    BY <1>1, <1>2, <1>4, <2>1, Constants
<1>5. QED
  BY <1>2, <1>3, <1>4

\* Positions in a ring are descriptors, whether the counters wrap around or not.
LEMMA Position ==
  ASSUME NEW x \in 0..Counters - 1, NEW k \in Nat
  PROVE  /\ x + k \in Nat /\ Pos(x + k) \in Descs /\ Pos(x) \in Descs
         /\ Pos(Succ(x) + k) = Pos(x + 1 + k)
<1>1. x \in Nat /\ x + k \in Nat /\ x + k \in Int /\ x \in Int
  BY Constants
<1>2. Pos(x + k) \in Descs /\ Pos(x) \in Descs
  BY <1>1, Division, Constants DEF Pos
<1>3. Pos(Succ(x) + k) = Pos(x + 1 + k)
  <2>1. CASE x + 1 # Counters
    <3>1. Succ(x) = x + 1
      BY <2>1, Distance DEF Succ
    <3>2. QED
      BY <3>1
  <2>2. CASE x + 1 = Counters
    <3>1. Succ(x) = 0
      BY <2>2, Distance DEF Succ
    <3>2. Pos(Counters + k) = Pos(k)
      BY WrapsInStep DEF Pos
    <3>3. 0 + k = k
      OBVIOUS
    <3>4. QED
      BY <2>2, <3>1, <3>2, <3>3
  <2>3. QED
    BY <2>1, <2>2
<1>4. QED
  BY <1>1, <1>2, <1>3

\* The place of the next entry.
LEMMA RingEnd ==
  ASSUME NEW i \in 0..Counters - 1, NEW j \in 0..Counters - 1
  PROVE  Pos(i) = Pos(j + Dist(i, j))
<1>1. Dist(i, j) = IF i >= j THEN i - j ELSE i - j + Counters
  BY Distance DEF Dist
<1>2. CASE i >= j
  <2>1. j + Dist(i, j) = i
    BY <1>1, <1>2, Constants
  <2>2. QED
    BY <2>1
<1>3. CASE ~(i >= j)
  <2>1. j + Dist(i, j) = Counters + i /\ i \in Nat
    BY <1>1, <1>3, Constants
  <2>2. Pos(Counters + i) = Pos(i)
    BY <2>1, WrapsInStep DEF Pos
  <2>3. QED
    BY <2>1, <2>2
<1>4. QED
  BY <1>2, <1>3

\* With two descriptors that are not in the ring there is room for another entry.
LEMMA Room ==
  ASSUME NEW r \in Ring, NEW from \in 0..Counters - 1, Heads(r, from),
         NEW x \in Descs, NEW y \in Descs, x # y,
         \A k \in 0..Length(r, from) - 1 : Entry(r, from, k) \notin {x, y}
  PROVE  Length(r, from) + 2 <= NUM
<1> DEFINE n == Length(r, from)
           T == (Descs \ {x}) \ {y}
           f == [k \in 1..n |-> Entry(r, from, k - 1)]
<1>1. n \in Nat
  <2>1. r.idx \in 0..Counters - 1 /\ n = Dist(r.idx, from)
    BY DEF Length, Ring
  <2> HIDE DEF n
  <2>2. n \in 0..Counters - 1
    BY <2>1, Advance
  <2>3. QED
    BY <2>2
<1>2. IsFiniteSet(T) /\ Cardinality(T) = NUM - 2
  <2>0. IsFiniteSet(Descs) /\ Cardinality(Descs) = NUM
    BY Constants
  <2>1. /\ IsFiniteSet(Descs \ {x}) /\ Cardinality(Descs \ {x}) = NUM - 1
    BY <2>0, FS_RemoveElement
  <2>2. y \in Descs \ {x}
    OBVIOUS
  <2>3. IsFiniteSet(T) /\ Cardinality(T) = NUM - 1 - 1
    BY <2>1, <2>2, FS_RemoveElement
  <2>4. QED
    BY <2>3, Constants
<1>3. f \in Injection(1..n, T)
  <2>1. \A k \in 1..n : k - 1 \in 0..n - 1
    BY <1>1
  <2>2. \A k \in 1..n : f[k] \in T
    BY <2>1 DEF Heads
  <2>3. ASSUME NEW k \in 1..n, NEW l \in 1..n, f[k] = f[l]
        PROVE  k = l
    <3>1. k - 1 = l - 1
      BY <2>1, <2>3 DEF Heads
    <3>2. QED
      BY <1>1, <3>1
  <2>4. f \in [1..n -> T]
    BY <2>2
  <2>5. QED
    BY <2>3, <2>4 DEF Injection, IsInjective
<1>4. Cardinality(1..n) = n
  <2> HIDE DEF n, T, f
  <2>1. Cardinality(1..n) = IF 1 > n THEN 0 ELSE n - 1 + 1
    BY <1>1, FS_Interval
  <2>2. QED
    BY <1>1, <2>1
<1> HIDE DEF n, T, f
<1>5. Cardinality(1..n) <= Cardinality(T)
  BY <1>2, <1>3, FS_Injection
<1>6. QED
  BY <1>1, <1>2, <1>4, <1>5, Constants DEF n

\* A new entry comes after the others, which stay where they are.
LEMMA Enqueue ==
  ASSUME NEW r \in Ring, NEW from \in 0..Counters - 1, NEW h \in Descs,
         Length(r, from) + 2 <= NUM,
         NEW r2, r2 = [idx |-> Succ(r.idx), ring |-> [r.ring EXCEPT ![Pos(r.idx)] = h]]
  PROVE  /\ r2 \in Ring /\ Length(r, from) \in Nat
         /\ Length(r2, from) = Length(r, from) + 1
         /\ Entry(r2, from, Length(r, from)) = h
         /\ \A k \in 0..Length(r, from) - 1 : Entry(r2, from, k) = Entry(r, from, k)
<1> DEFINE n == Length(r, from)
<1>0. r.idx \in 0..Counters - 1 /\ r.ring \in [Descs -> Descs \cup {None}]
  BY DEF Ring
<1>1. n \in 0..Counters - 1 /\ Pos(r.idx) = Pos(from + n)
  BY <1>0, Advance, RingEnd DEF Length
<1>2. NUM <= Counters
  <2>1. NUM > Counters => Counters % NUM = Counters
    BY Constants
  <2>2. QED
    BY <2>1, Constants
<1>3. Succ(r.idx) \in 0..Counters - 1 /\ Pos(r.idx) \in Descs
  <2>1. 0 \in Nat
    OBVIOUS
  <2>2. QED
    BY <1>0, <2>1, Advance, Position
<1>4. r2.idx = Succ(r.idx) /\ r2.ring = [r.ring EXCEPT ![Pos(r.idx)] = h]
  OBVIOUS
<1>5. r2 \in Ring
  BY <1>0, <1>3, <1>4 DEF Ring
<1>6. Length(r2, from) = n + 1
  <2>1. n + 1 < Counters
    BY <1>1, <1>2, Constants
  <2>2. QED
    BY <1>0, <1>4, <2>1, Advance DEF Length
<1>7. Entry(r2, from, n) = h
  BY <1>0, <1>1, <1>3, <1>4 DEF Entry
<1>8. ASSUME NEW k \in 0..n - 1
      PROVE  Entry(r2, from, k) = Entry(r, from, k)
  <2>1. /\ from + k \in Nat /\ from + n \in Nat
        /\ from + k < from + n /\ from + n < from + k + NUM
    BY <1>1, Constants
  <2>2. Pos(from + k) # Pos(from + n)
    BY <2>1, Apart DEF Pos
  <2>3. QED
    BY <1>0, <1>1, <1>4, <2>2 DEF Entry
<1>9. QED
  BY <1>1, <1>5, <1>6, <1>7, <1>8

\* The first entry is taken out, and the others move up.
LEMMA Dequeue ==
  ASSUME NEW r \in Ring, NEW from \in 0..Counters - 1, r.idx # from, Length(r, from) <= NUM,
         NEW r2, r2 = [r EXCEPT !.ring[Pos(from)] = None]
  PROVE  /\ r2 \in Ring /\ Succ(from) \in 0..Counters - 1 /\ Length(r, from) \in Nat
         /\ Length(r2, Succ(from)) = Length(r, from) - 1 /\ Length(r, from) > 0
         /\ Entry(r, from, 0) = r.ring[Pos(from)]
         /\ \A k \in 0..Length(r, from) - 2 : Entry(r2, Succ(from), k) = Entry(r, from, k + 1)
<1> DEFINE n == Length(r, from)
<1>0. r.idx \in 0..Counters - 1 /\ r.ring \in [Descs -> Descs \cup {None}]
  BY DEF Ring
<1>1. n \in 0..Counters - 1 /\ n # 0
  BY <1>0, Advance DEF Length
<1>2. Pos(from) \in Descs /\ Succ(from) \in 0..Counters - 1
  <2>1. 0 \in Nat
    OBVIOUS
  <2>2. QED
    BY <1>0, <2>1, Advance, Position
<1>3. r2.idx = r.idx /\ r2.ring = [r.ring EXCEPT ![Pos(from)] = None]
  BY DEF Ring
<1>4. r2 \in Ring
  BY <1>0, <1>2 DEF Ring
<1>5. Length(r2, Succ(from)) = n - 1
  BY <1>0, <1>3, Advance DEF Length
<1>6. Entry(r, from, 0) = r.ring[Pos(from)]
  <2>1. from + 0 = from
    BY Constants
  <2>2. QED
    BY <2>1 DEF Entry
<1>7. ASSUME NEW k \in 0..n - 2
      PROVE  Entry(r2, Succ(from), k) = Entry(r, from, k + 1)
  <2>1. k \in Nat /\ k + 1 \in Nat /\ from \in Nat /\ from + 1 + k = from + (k + 1)
    BY <1>1, Constants
  <2>2. Pos(Succ(from) + k) = Pos(from + (k + 1))
    BY <2>1, Position
  <2>3. from + (k + 1) \in Nat /\ from < from + (k + 1) /\ from + (k + 1) < from + NUM
    <3>1. n \in Nat /\ n <= NUM /\ NUM \in Nat
      BY <1>1, Constants
    <3> HIDE DEF n
    <3>2. k \in Nat /\ k + 1 < NUM
      BY <3>1
    <3>3. QED
      BY <2>1, <3>1, <3>2
  <2>4. Pos(from) # Pos(from + (k + 1))
    BY <2>1, <2>3, Apart DEF Pos
  <2>5. Pos(from + (k + 1)) \in Descs
    BY <2>1, Position
  <2>6. QED
    BY <1>0, <1>3, <2>2, <2>4, <2>5 DEF Entry
<1>8. n \in Nat /\ n > 0
  BY <1>1, Constants
<1>9. QED
  BY <1>2, <1>4, <1>5, <1>6, <1>7, <1>8

\* What that does to the heads in the ring.
LEMMA EnqueueHeads ==
  ASSUME NEW r \in Ring, NEW from \in 0..Counters - 1, NEW h \in Descs, NEW y \in Descs, h # y,
         Heads(r, from), ~In(r, from, h), ~In(r, from, y),
         NEW r2, r2 = [idx |-> Succ(r.idx), ring |-> [r.ring EXCEPT ![Pos(r.idx)] = h]]
  PROVE  /\ r2 \in Ring /\ Heads(r2, from)
         /\ \A x : In(r2, from, x) <=> x = h \/ In(r, from, x)
<1> DEFINE n == Length(r, from)
<1>1. \A k \in 0..n - 1 : Entry(r, from, k) \notin {h, y}
  BY DEF In
<1>2. n + 2 <= NUM
  BY <1>1, Room
<1>3. /\ r2 \in Ring /\ n \in Nat /\ Length(r2, from) = n + 1
      /\ Entry(r2, from, n) = h
      /\ \A k \in 0..n - 1 : Entry(r2, from, k) = Entry(r, from, k)
  BY <1>2, Enqueue
<1> HIDE DEF n
<1>4. \A k \in 0..n : k \in 0..n - 1 \/ k = n
  BY <1>3
<1>5. 0..Length(r2, from) - 1 = 0..n /\ n \in 0..n
  BY <1>3
<1>6. Heads(r2, from)
  <2>1. n + 1 < NUM
    BY <1>2, <1>3, Constants
  <2>2. \A k \in 0..n : Entry(r2, from, k) \in Descs
    BY <1>3, <1>4 DEF Heads, n
  <2>3. \A k \in 0..n, l \in 0..n : Entry(r2, from, k) = Entry(r2, from, l) => k = l
    BY <1>1, <1>3, <1>4 DEF Heads, n
  <2>4. QED
    BY <1>3, <1>5, <2>1, <2>2, <2>3 DEF Heads
<1>7. ASSUME NEW x
      PROVE  In(r2, from, x) <=> x = h \/ In(r, from, x)
  <2>1. In(r2, from, x) <=> \E k \in 0..n : Entry(r2, from, k) = x
    BY <1>5 DEF In
  <2>2. In(r, from, x) <=> \E k \in 0..n - 1 : Entry(r, from, k) = x
    BY DEF In, n
  <2>3. \A k \in 0..n - 1 : k \in 0..n
    BY <1>3
  <2>4. QED
    BY <1>3, <1>4, <1>5, <2>1, <2>2, <2>3
<1>8. QED
  BY <1>3, <1>6, <1>7

\* The same when the first entry is taken out.
LEMMA DequeueHeads ==
  ASSUME NEW r \in Ring, NEW from \in 0..Counters - 1, r.idx # from, Heads(r, from),
         NEW r2, r2 = [r EXCEPT !.ring[Pos(from)] = None]
  PROVE  /\ r2 \in Ring /\ Succ(from) \in 0..Counters - 1 /\ Heads(r2, Succ(from))
         /\ r.ring[Pos(from)] \in Descs /\ In(r, from, r.ring[Pos(from)])
         /\ \A x : In(r2, Succ(from), x) <=> x # r.ring[Pos(from)] /\ In(r, from, x)
<1> DEFINE n == Length(r, from)
           h == r.ring[Pos(from)]
<1>0. n <= NUM
  <2>1. n \in 0..Counters - 1
    BY Advance DEF Length, Ring
  <2>2. QED
    BY <2>1, Constants DEF Heads
<1>1. /\ r2 \in Ring /\ Succ(from) \in 0..Counters - 1 /\ n \in Nat
      /\ Length(r2, Succ(from)) = n - 1 /\ n > 0 /\ Entry(r, from, 0) = h
      /\ \A k \in 0..n - 2 : Entry(r2, Succ(from), k) = Entry(r, from, k + 1)
  BY <1>0, Dequeue
<1>2. /\ n < NUM
      /\ \A k \in 0..n - 1 : /\ Entry(r, from, k) \in Descs
                             /\ \A l \in 0..n - 1 : Entry(r, from, k) = Entry(r, from, l) => k = l
  BY DEF Heads
<1>3. \A x : In(r, from, x) <=> \E k \in 0..n - 1 : Entry(r, from, k) = x
  BY DEF In
<1> HIDE DEF n, h
<1>4. /\ 0 \in 0..n - 1 /\ (n - 1) - 1 = n - 2
      /\ \A k \in 0..n - 2 : k + 1 \in 0..n - 1 /\ k + 1 # 0
      /\ \A k \in 0..n - 2, l \in 0..n - 2 : k + 1 = l + 1 => k = l
      /\ \A k \in 0..n - 1 : k # 0 => k - 1 \in 0..n - 2 /\ (k - 1) + 1 = k
  BY <1>1
<1>5. h \in Descs /\ In(r, from, h)
  BY <1>1, <1>2, <1>3, <1>4
<1>6. Heads(r2, Succ(from))
  <2>1. n - 1 < NUM
    BY <1>1, <1>2, Constants
  <2>2. 0..Length(r2, Succ(from)) - 1 = 0..n - 2
    BY <1>1, <1>4
  <2>3. \A k \in 0..n - 2 : Entry(r2, Succ(from), k) \in Descs
    BY <1>1, <1>2, <1>4
  <2>4. ASSUME NEW k \in 0..n - 2, NEW l \in 0..n - 2,
               Entry(r2, Succ(from), k) = Entry(r2, Succ(from), l)
        PROVE  k = l
    <3>1. Entry(r, from, k + 1) = Entry(r, from, l + 1)
      BY <1>1, <2>4
    <3>2. k + 1 = l + 1
      BY <1>2, <1>4, <3>1
    <3>3. QED
      BY <1>4, <3>2
  <2>5. QED
    BY <1>1, <2>1, <2>2, <2>3, <2>4 DEF Heads
<1>7. ASSUME NEW x
      PROVE  In(r2, Succ(from), x) <=> x # h /\ In(r, from, x)
  <2>1. In(r2, Succ(from), x) <=> \E k \in 0..n - 2 : Entry(r2, Succ(from), k) = x
    BY <1>1, <1>4 DEF In
  <2>2. ASSUME In(r2, Succ(from), x)
        PROVE  x # h /\ In(r, from, x)
    BY <1>1, <1>2, <1>3, <1>4, <2>1, <2>2
  <2>3. ASSUME x # h, In(r, from, x)
        PROVE  In(r2, Succ(from), x)
    <3>1. PICK k \in 0..n - 1 : Entry(r, from, k) = x
      BY <1>3, <2>3
    <3>2. k # 0
      BY <1>1, <2>3, <3>1
    <3>3. k - 1 \in 0..n - 2 /\ Entry(r2, Succ(from), k - 1) = x
      BY <1>1, <1>4, <3>1, <3>2
    <3>4. QED
      BY <2>1, <3>3
  <2>4. QED
    BY <2>2, <2>3
<1>8. QED
  BY <1>1, <1>5, <1>6, <1>7 DEF h

-----------------------------------------------------------------------------
(* The buffers.                                                            *)

Buffer == [blockno : Blocks \cup {None}, valid : BOOLEAN, disk : BOOLEAN, refcnt : Nat,
           data : Bit, lock : Procs \cup {None}]

\* What TypeOK says of the variables of the cache and the processes, and of the others.
CacheType ==
  /\ buf \in [Bufs -> Buffer] /\ lru \in [1..NBUF -> Bufs] /\ pinned \subseteq Bufs
  /\ pc \in [Procs -> {"idle", "lock", "lock_asleep", "rw", "rw_asleep", "io", "io_done",
                       "held", "release", "panic"}]
  /\ cur \in [Procs -> Bufs \cup {None}]
  /\ platter \in [Blocks -> Bit] /\ last \in [Blocks -> Bit] /\ calls \in 0..MaxCalls

QueueType ==
  /\ idx \in [Procs -> {<<>>} \cup (Descs \X Descs \X Descs)]
  /\ free \subseteq Descs
  /\ info \in [Descs -> [b : Bufs \cup {None}, done : BOOLEAN]]
  /\ avail \in Ring /\ used \in Ring
  /\ used_idx \in 0..Counters - 1 /\ seen \in 0..Counters - 1
  /\ intr \in BOOLEAN /\ isr \in BOOLEAN /\ taken \subseteq Descs

\* The part of the invariant that is about the cache.
CInv == CacheType /\ LockInv /\ RefInv /\ CacheInv /\ DataInv

\* TypeOK is about both.
LEMMA Types == TypeOK <=> CacheType /\ QueueType
BY DEF TypeOK, CacheType, QueueType, Buffer

\* The users of a buffer can be counted.
LEMMA UsersFinite ==
  ASSUME NEW b
  PROVE  IsFiniteSet(Users(b)) /\ Cardinality(Users(b)) \in Nat
<1>1. IsFiniteSet(Procs) /\ Users(b) \in SUBSET Procs
  BY Constants DEF Users
<1>2. QED
  BY <1>1, FS_Subset, FS_CardinalityType

\* bget(): one user more.
LEMMA UserComes ==
  ASSUME CacheType, NEW p \in Procs, NEW b \in Bufs, cur[p] = None, cur' = [cur EXCEPT ![p] = b]
  PROVE  /\ Cardinality(Users(b)') = Cardinality(Users(b)) + 1
         /\ \A c \in Bufs : c # b => Users(c)' = Users(c)
<1>1. Users(b)' = Users(b) \cup {p} /\ p \notin Users(b)
  BY Constants DEF CacheType, Users
<1>2. IsFiniteSet(Users(b))
  BY UsersFinite
<1>3. Cardinality(Users(b) \cup {p}) = Cardinality(Users(b)) + 1
  BY <1>1, <1>2, FS_AddElement
<1>4. \A c \in Bufs : c # b => Users(c)' = Users(c)
  BY Constants DEF CacheType, Users
<1>5. QED
  BY <1>1, <1>3, <1>4

\* brelse(): one user less.
LEMMA UserGoes ==
  ASSUME CacheType, NEW p \in Procs, NEW b \in Bufs, cur[p] = b, cur' = [cur EXCEPT ![p] = None]
  PROVE  /\ Cardinality(Users(b)') = Cardinality(Users(b)) - 1 /\ Cardinality(Users(b)) > 0
         /\ \A c \in Bufs : c # b => Users(c)' = Users(c)
<1>1. Users(b)' = Users(b) \ {p} /\ p \in Users(b)
  BY Constants DEF CacheType, Users
<1>2. IsFiniteSet(Users(b)) /\ Cardinality(Users(b)) \in Nat
  BY UsersFinite
<1>3. Cardinality(Users(b) \ {p}) = Cardinality(Users(b)) - 1
  BY <1>1, <1>2, FS_RemoveElement
<1>4. Cardinality(Users(b)) # 0
  BY <1>1, <1>2, FS_EmptySet
<1>5. \A c \in Bufs : c # b => Users(c)' = Users(c)
  BY Constants DEF CacheType, Users
<1>6. QED
  BY <1>1, <1>2, <1>3, <1>4, <1>5

\* A buffer without references is nobody's, and neither locked nor pinned.
LEMMA Unreferenced ==
  ASSUME CInv, NEW b \in Bufs, buf[b].refcnt = 0
  PROVE  (\A p \in Procs : cur[p] # b) /\ b \notin pinned /\ buf[b].lock = None
<1>1. Cardinality(Users(b)) \in Nat /\ Pins(b) \in {0, 1} /\ Cardinality(Users(b)) + Pins(b) = 0
  BY UsersFinite DEF CInv, RefInv, Pins
<1>2. Cardinality(Users(b)) = 0 /\ Pins(b) = 0
  BY <1>1
<1>3. Users(b) = {}
  BY <1>2, UsersFinite, FS_EmptySet
<1>4. \A p \in Procs : cur[p] # b
  BY <1>3 DEF Users
<1>5. b \notin pinned
  BY <1>2 DEF Pins
<1>6. buf[b].lock = None
  <2>1. buf[b].lock \in Procs => cur[buf[b].lock] = b
    BY DEF CInv, LockInv
  <2>2. buf[b].lock \in Procs \cup {None}
    BY DEF CInv, CacheType, Buffer
  <2>3. QED
    BY <1>4, <2>1, <2>2
<1>7. QED
  BY <1>4, <1>5, <1>6

\* bget() finds the block, ...
LEMMA BgetHit ==
  ASSUME CInv, NEW p \in Procs, NEW k \in Blocks, NEW b \in Cached(k),
         pc[p] = "idle", calls < MaxCalls, calls' = calls + 1,
         buf' = [buf EXCEPT ![b].refcnt = @ + 1], cur' = [cur EXCEPT ![p] = b], Goto(p, "lock"),
         UNCHANGED <<lru, pinned, platter, last>>
  PROVE  CInv'
<1>1. b \in Bufs /\ buf[b].blockno = k /\ cur[p] = None
  BY DEF Cached, CInv, LockInv
<1>2. buf' \in [Bufs -> Buffer]
  <2>1. buf[b] \in Buffer /\ buf \in [Bufs -> Buffer]
    BY <1>1 DEF CInv, CacheType
  <2>2. [buf[b] EXCEPT !.refcnt = buf[b].refcnt + 1] \in Buffer
    BY <2>1 DEF Buffer
  <2>3. buf' = [buf EXCEPT ![b] = [buf[b] EXCEPT !.refcnt = buf[b].refcnt + 1]]
    OBVIOUS
  <2>4. QED
    BY <2>1, <2>2, <2>3
<1>3. \A c \in Bufs : /\ buf'[c].blockno = buf[c].blockno /\ buf'[c].valid = buf[c].valid
                      /\ buf'[c].data = buf[c].data /\ buf'[c].lock = buf[c].lock
                      /\ buf'[c].refcnt = IF c = b THEN buf[c].refcnt + 1 ELSE buf[c].refcnt
  BY <1>1 DEF CInv, CacheType, Buffer
<1>4. CacheType'
  BY <1>1, <1>2, Constants DEF CInv, CacheType, Goto
<1>5. /\ pc'[p] = "lock" /\ cur'[p] = b
      /\ \A q \in Procs : q # p => pc'[q] = pc[q] /\ cur'[q] = cur[q]
  BY DEF CInv, CacheType, Goto
<1>6. LockInv'
  BY <1>1, <1>3, <1>5, Constants DEF CInv, LockInv, Locked
<1>7. RefInv'
  <2>1. ASSUME NEW c \in Bufs
        PROVE  buf'[c].refcnt = Cardinality(Users(c)') + Pins(c)'
    <3>1. buf[c].refcnt = Cardinality(Users(c)) + Pins(c) /\ Pins(c)' = Pins(c) /\ Pins(c) \in {0, 1}
      BY DEF CInv, RefInv, Pins
    <3>2. Cardinality(Users(c)) \in Nat
      BY UsersFinite
    <3>3. Cardinality(Users(c)') = IF c = b THEN Cardinality(Users(c)) + 1 ELSE Cardinality(Users(c))
      BY <1>1, UserComes DEF CInv
    <3>4. QED
      BY <1>3, <3>1, <3>2, <3>3
  <2>2. QED
    BY <2>1 DEF RefInv
<1>8. CacheInv' /\ DataInv'
  BY <1>1, <1>3, <1>5 DEF CInv, CacheInv, DataInv
<1>9. QED
  BY <1>4, <1>6, <1>7, <1>8 DEF CInv

\* ... or recycles a buffer, ...
LEMMA BgetMiss ==
  ASSUME CInv, NEW p \in Procs, NEW k \in Blocks, Cached(k) = {}, NEW b \in Bufs, buf[b].refcnt = 0,
         pc[p] = "idle", calls < MaxCalls, calls' = calls + 1,
         buf' = [buf EXCEPT ![b] = Recycle(@, k)], cur' = [cur EXCEPT ![p] = b], Goto(p, "lock"),
         UNCHANGED <<lru, pinned, platter, last>>
  PROVE  CInv'
<1>1. cur[p] = None
  BY DEF CInv, LockInv
<1>2. (\A q \in Procs : cur[q] # b) /\ b \notin pinned /\ buf[b].lock = None
  BY Unreferenced
<1>3. \A c \in Bufs : buf[c].blockno # k
  BY DEF Cached
<1>4. buf' \in [Bufs -> Buffer]
  BY DEF CInv, CacheType, Buffer, Recycle
<1>5. /\ \A c \in Bufs : c # b => buf'[c] = buf[c]
      /\ buf'[b].blockno = k /\ ~buf'[b].valid /\ buf'[b].refcnt = 1 /\ buf'[b].lock = None
  BY <1>2 DEF CInv, CacheType, Buffer, Recycle
<1>6. CacheType'
  <2>1. calls' \in 0..MaxCalls
    BY Constants DEF CInv, CacheType
  <2>2. QED
    BY <1>4, <2>1 DEF CInv, CacheType, Goto
<1>7. /\ pc'[p] = "lock" /\ cur'[p] = b
      /\ \A q \in Procs : q # p => pc'[q] = pc[q] /\ cur'[q] = cur[q]
  BY DEF CInv, CacheType, Goto
<1>8. LockInv'
  BY <1>1, <1>2, <1>5, <1>7, Constants DEF CInv, LockInv, Locked
<1>9. RefInv'
  <2>1. ASSUME NEW c \in Bufs
        PROVE  buf'[c].refcnt = Cardinality(Users(c)') + Pins(c)'
    <3>1. buf[c].refcnt = Cardinality(Users(c)) + Pins(c) /\ Pins(c)' = Pins(c) /\ Pins(c) \in {0, 1}
      BY DEF CInv, RefInv, Pins
    <3>2. Cardinality(Users(c)) \in Nat
      BY UsersFinite
    <3>3. Cardinality(Users(c)') = IF c = b THEN Cardinality(Users(c)) + 1 ELSE Cardinality(Users(c))
      BY <1>1, UserComes DEF CInv
    <3>4. QED
      BY <1>5, <3>1, <3>2, <3>3
  <2>2. QED
    BY <2>1 DEF RefInv
<1>10. CacheInv'
  BY <1>2, <1>3, <1>5 DEF CInv, CacheInv
<1>11. DataInv'
  <2>1. ASSUME NEW c \in Bufs, buf'[c].valid
        PROVE  buf'[c].blockno \in Blocks /\ buf'[c].data = last'[buf'[c].blockno]
    BY <1>5, <2>1 DEF CInv, DataInv
  <2>2. ASSUME NEW j \in Blocks, platter'[j] # last'[j]
        PROVE  \E c \in Bufs : /\ buf'[c].blockno = j /\ buf'[c].valid
                               /\ buf'[c].lock # None \/ c \in pinned'
    <3>1. PICK c \in Bufs : /\ buf[c].blockno = j /\ buf[c].valid
                            /\ buf[c].lock # None \/ c \in pinned
      BY <2>2 DEF CInv, DataInv
    <3>2. c # b
      BY <1>2, <3>1
    <3>3. QED
      BY <1>5, <3>1, <3>2
  <2>3. ASSUME NEW q \in Procs, pc'[q] = "held"
        PROVE  buf'[cur'[q]].valid
    <3>1. q # p /\ cur'[q] = cur[q] /\ cur[q] # b /\ cur[q] \in Bufs /\ buf[cur[q]].valid
      BY <1>2, <1>7, <2>3 DEF CInv, DataInv, LockInv
    <3>2. QED
      BY <1>5, <3>1
  <2>4. QED
    BY <2>1, <2>2, <2>3 DEF DataInv
<1>12. QED
  BY <1>6, <1>8, <1>9, <1>10, <1>11 DEF CInv

\* ... or panics.
LEMMA BgetCache ==
  ASSUME CInv, NEW p \in Procs, NEW k \in Blocks, bget(p, k)
  PROVE  CInv'
<1>0. UNCHANGED <<lru, pinned, platter, last>> /\ pc[p] = "idle" /\ calls < MaxCalls /\ calls' = calls + 1
  BY DEF bget, device
<1>1. ASSUME NEW b \in Cached(k), buf' = [buf EXCEPT ![b].refcnt = @ + 1],
             cur' = [cur EXCEPT ![p] = b], Goto(p, "lock")
      PROVE  CInv'
  BY <1>0, <1>1, BgetHit
<1>2. ASSUME Cached(k) = {}, Unused # {}, buf' = [buf EXCEPT ![lru[Max(Unused)]] = Recycle(@, k)],
             cur' = [cur EXCEPT ![p] = lru[Max(Unused)]], Goto(p, "lock")
      PROVE  CInv'
  <2>1. Unused \in SUBSET (1..NBUF) /\ NBUF \in Nat
    BY Constants DEF Unused
  <2>2. Max(Unused) \in Unused
    BY <1>2, <2>1, GreatestElement
  <2>3. lru[Max(Unused)] \in Bufs /\ buf[lru[Max(Unused)]].refcnt = 0
    BY <2>1, <2>2 DEF Unused, CInv, CacheType
  <2>4. QED
    BY <1>0, <1>2, <2>3, BgetMiss
<1>3. ASSUME Goto(p, "panic"), UNCHANGED <<buf, cur>>
      PROVE  CInv'
  <2>1. CacheType'
    BY <1>0, <1>3, Constants DEF CInv, CacheType, Goto
  <2>2. pc'[p] = "panic" /\ \A q \in Procs : q # p => pc'[q] = pc[q]
    BY <1>3 DEF CInv, CacheType, Goto
  <2>3. LockInv' /\ DataInv'
    BY <1>0, <1>3, <2>2 DEF CInv, LockInv, DataInv, Locked
  <2>4. RefInv' /\ CacheInv'
    BY <1>0, <1>3 DEF CInv, RefInv, CacheInv, Users, Pins
  <2>5. QED
    BY <2>1, <2>3, <2>4 DEF CInv
<1>4. QED
  BY <1>1, <1>2, <1>3 DEF bget

\* acquiresleep() takes a lock that nobody has.
LEMMA AcquireCache ==
  ASSUME CInv, NEW p \in Procs, acquiresleep(p)
  PROVE  CInv'
<1> DEFINE b == cur[p]
<1>0. UNCHANGED <<lru, pinned, platter, last, cur, calls>> /\ pc[p] = "lock"
  BY DEF acquiresleep, device
<1>1. b \in Bufs /\ buf[b].blockno \in Blocks
  BY <1>0 DEF CInv, LockInv
<1>2. CASE buf[b].lock # None
  <2>1. Goto(p, "lock_asleep") /\ buf' = buf
    BY <1>2 DEF acquiresleep
  <2>2. pc'[p] = "lock_asleep" /\ \A q \in Procs : q # p => pc'[q] = pc[q]
    BY <2>1 DEF CInv, CacheType, Goto
  <2>3. CacheType'
    BY <1>0, <2>1 DEF CInv, CacheType, Goto
  <2>4. LockInv' /\ DataInv'
    BY <1>0, <2>1, <2>2 DEF CInv, LockInv, DataInv, Locked
  <2>5. RefInv' /\ CacheInv'
    BY <1>0, <2>1 DEF CInv, RefInv, CacheInv, Users, Pins
  <2>6. QED
    BY <2>3, <2>4, <2>5 DEF CInv
<1>3. CASE buf[b].lock = None
  <2>1. Goto(p, bread(b)) /\ buf' = [buf EXCEPT ![b].lock = p]
    BY <1>3 DEF acquiresleep
  <2>2. /\ pc'[p] = IF buf[b].valid THEN "held" ELSE "rw"
        /\ \A q \in Procs : q # p => pc'[q] = pc[q]
    BY <2>1 DEF CInv, CacheType, Goto, bread
  <2>3. buf' \in [Bufs -> Buffer]
    BY <2>1 DEF CInv, CacheType, Buffer
  <2>4. \A c \in Bufs : /\ buf'[c].blockno = buf[c].blockno /\ buf'[c].valid = buf[c].valid
                        /\ buf'[c].data = buf[c].data /\ buf'[c].refcnt = buf[c].refcnt
                        /\ buf'[c].lock = IF c = b THEN p ELSE buf[c].lock
    BY <1>1, <2>1 DEF CInv, CacheType, Buffer
  <2>5. CacheType'
    BY <1>0, <2>1, <2>3 DEF CInv, CacheType, Goto, bread
  <2>6. LockInv'
    BY <1>0, <1>1, <1>3, <2>2, <2>4, Constants DEF CInv, LockInv, Locked
  <2>7. RefInv'
    BY <1>0, <2>4 DEF CInv, RefInv, Users, Pins
  <2>8. CacheInv'
    BY <1>0, <2>4 DEF CInv, CacheType, CacheInv
  <2>9. DataInv'
    BY <1>0, <1>1, <2>2, <2>4, Constants DEF CInv, DataInv, LockInv
  <2>10. QED
    BY <2>5, <2>6, <2>7, <2>8, <2>9 DEF CInv
<1>4. QED
  BY <1>2, <1>3

\* change(): the only buffer of the block, which is locked and valid.
LEMMA ChangeCache ==
  ASSUME CInv, NEW p \in Procs, change(p)
  PROVE  CInv'
<1> DEFINE b == cur[p]
           k == buf[b].blockno
<1>0. UNCHANGED <<lru, pinned, platter, cur, pc>> /\ pc[p] = "held" /\ calls < MaxCalls /\ calls' = calls + 1
  BY DEF change, device
<1>1. b \in Bufs /\ k \in Blocks /\ buf[b].valid /\ buf[b].lock = p
  BY <1>0 DEF CInv, LockInv, DataInv, Locked
<1>2. buf' = [buf EXCEPT ![b].data = 1 - buf[b].data] /\ last' = [last EXCEPT ![k] = 1 - buf[b].data]
  BY DEF change
<1>3. 1 - buf[b].data \in Bit
  BY <1>1 DEF CInv, CacheType, Buffer, Bit
<1>4. buf' \in [Bufs -> Buffer] /\ last' \in [Blocks -> Bit]
  <2>1. [buf[b] EXCEPT !.data = 1 - buf[b].data] \in Buffer
    BY <1>1, <1>3 DEF CInv, CacheType, Buffer
  <2>2. buf' = [buf EXCEPT ![b] = [buf[b] EXCEPT !.data = 1 - buf[b].data]]
    BY <1>2
  <2>3. buf' \in [Bufs -> Buffer]
    BY <2>1, <2>2 DEF CInv, CacheType
  <2>4. QED
    BY <1>1, <1>2, <1>3, <2>3 DEF CInv, CacheType
<1>5. \A c \in Bufs : /\ buf'[c].blockno = buf[c].blockno /\ buf'[c].valid = buf[c].valid
                      /\ buf'[c].lock = buf[c].lock /\ buf'[c].refcnt = buf[c].refcnt
                      /\ buf'[c].data = IF c = b THEN 1 - buf[b].data ELSE buf[c].data
  BY <1>1, <1>2 DEF CInv, CacheType, Buffer
<1>6. \A j \in Blocks : last'[j] = IF j = k THEN 1 - buf[b].data ELSE last[j]
  BY <1>1, <1>2 DEF CInv, CacheType
<1>7. CacheType'
  <2>1. calls' \in 0..MaxCalls
    BY <1>0, Constants DEF CInv, CacheType
  <2>2. QED
    BY <1>0, <1>4, <2>1 DEF CInv, CacheType
<1>8. LockInv' /\ CacheInv'
  <2>1. LockInv'
    BY <1>0, <1>5 DEF CInv, LockInv
  <2>2. CacheInv'
    BY <1>0, <1>5 DEF CInv, CacheType, CacheInv
  <2>3. QED
    BY <2>1, <2>2
<1>9. RefInv'
  BY <1>0, <1>5 DEF CInv, RefInv, Users, Pins
<1>10. DataInv'
  <2>1. ASSUME NEW c \in Bufs, buf'[c].valid
        PROVE  buf'[c].blockno \in Blocks /\ buf'[c].data = last'[buf'[c].blockno]
    <3>1. buf[c].blockno \in Blocks /\ buf[c].data = last[buf[c].blockno]
      BY <1>5, <2>1 DEF CInv, DataInv
    <3>2. buf[c].blockno = k => c = b
      BY <1>1 DEF CInv, CacheInv
    <3>3. QED
      BY <1>5, <1>6, <3>1, <3>2
  <2>2. ASSUME NEW j \in Blocks, platter'[j] # last'[j]
        PROVE  \E c \in Bufs : /\ buf'[c].blockno = j /\ buf'[c].valid
                               /\ buf'[c].lock # None \/ c \in pinned'
    <3>1. CASE j = k
      BY <1>1, <1>5, <3>1, Constants
    <3>2. CASE j # k
      BY <1>0, <1>5, <1>6, <2>2, <3>2 DEF CInv, DataInv
    <3>3. QED
      BY <3>1, <3>2
  <2>3. \A q \in Procs : pc'[q] = "held" => buf'[cur'[q]].valid
    BY <1>0, <1>5 DEF CInv, DataInv, LockInv
  <2>4. QED
    BY <2>1, <2>2, <2>3 DEF DataInv
<1>11. QED
  BY <1>7, <1>8, <1>9, <1>10 DEF CInv

\* bwrite() and alloc3_desc() only go from one point of the holder of a lock to another.
LEMMA PointCache ==
  ASSUME CInv, UNCHANGED <<buf, lru, pinned, platter, last, cur, calls>>,
         pc' \in [Procs -> {"idle", "lock", "lock_asleep", "rw", "rw_asleep", "io", "io_done",
                            "held", "release", "panic"}],
         \A q \in Procs : pc'[q] = pc[q] \/ (pc[q] \in Locked /\ pc'[q] \in Locked \ {"held"})
  PROVE  CInv'
<1>1. CacheType'
  BY DEF CInv, CacheType
<1>2. LockInv'
  BY DEF CInv, LockInv, Locked
<1>3. RefInv' /\ CacheInv'
  BY DEF CInv, RefInv, CacheInv, Users, Pins
<1>4. DataInv'
  BY DEF CInv, DataInv, LockInv
<1>5. QED
  BY <1>1, <1>2, <1>3, <1>4 DEF CInv

\* bwrite() goes on to the driver.
LEMMA WriteCache ==
  ASSUME CInv, NEW p \in Procs, bwrite(p)
  PROVE  CInv'
<1>1. UNCHANGED <<buf, lru, pinned, platter, last, cur, calls>> /\ Goto(p, "rw") /\ pc[p] = "held"
  BY DEF bwrite, cache, device
<1>2. /\ pc' \in [Procs -> {"idle", "lock", "lock_asleep", "rw", "rw_asleep", "io", "io_done",
                            "held", "release", "panic"}]
      /\ \A q \in Procs : pc'[q] = pc[q] \/ (pc[q] \in Locked /\ pc'[q] \in Locked \ {"held"})
  BY <1>1 DEF CInv, CacheType, Goto, Locked
<1>3. QED
  BY <1>1, <1>2, PointCache

\* alloc3_desc() that fails goes to sleep, and wakes the others.
LEMMA AllocCache ==
  ASSUME CInv, NEW p \in Procs, alloc3_fail(p)
  PROVE  CInv'
<1>1. /\ UNCHANGED <<buf, lru, pinned, platter, last, cur, calls>> /\ pc[p] = "rw"
      /\ Goto(p, "rw_asleep") \/ WakeAllocators(p, "rw_asleep")
  BY DEF alloc3_fail, cache, device
<1>2. /\ pc' \in [Procs -> {"idle", "lock", "lock_asleep", "rw", "rw_asleep", "io", "io_done",
                            "held", "release", "panic"}]
      /\ \A q \in Procs : pc'[q] = pc[q] \/ (pc[q] \in Locked /\ pc'[q] \in Locked \ {"held"})
  BY <1>1 DEF CInv, CacheType, Goto, WakeAllocators, Locked
<1>3. QED
  BY <1>1, <1>2, PointCache

\* bpin() and bunpin(): one reference more or less, and the pin.
LEMMA PinCache ==
  ASSUME CInv, NEW p \in Procs, bpin(p)
  PROVE  CInv'
<1> DEFINE b == cur[p]
<1>0. /\ UNCHANGED <<lru, pc, cur, platter, last, calls>> /\ pc[p] = "held" /\ b \notin pinned
      /\ pinned' = pinned \cup {b} /\ buf' = [buf EXCEPT ![b].refcnt = buf[b].refcnt + 1]
  BY DEF bpin, device
<1>1. b \in Bufs /\ buf[b].blockno \in Blocks
  BY <1>0 DEF CInv, LockInv
<1>2. buf' \in [Bufs -> Buffer]
  <2>1. [buf[b] EXCEPT !.refcnt = buf[b].refcnt + 1] \in Buffer
    BY <1>1 DEF CInv, CacheType, Buffer
  <2>2. buf' = [buf EXCEPT ![b] = [buf[b] EXCEPT !.refcnt = buf[b].refcnt + 1]]
    BY <1>0
  <2>3. QED
    BY <2>1, <2>2 DEF CInv, CacheType
<1>3. \A c \in Bufs : /\ buf'[c].blockno = buf[c].blockno /\ buf'[c].valid = buf[c].valid
                      /\ buf'[c].data = buf[c].data /\ buf'[c].lock = buf[c].lock
                      /\ buf'[c].refcnt = IF c = b THEN buf[c].refcnt + 1 ELSE buf[c].refcnt
  BY <1>0, <1>1 DEF CInv, CacheType, Buffer
<1>4. CacheType'
  BY <1>0, <1>1, <1>2 DEF CInv, CacheType
<1>5. LockInv'
  BY <1>0, <1>3 DEF CInv, LockInv
<1>6. CacheInv'
  BY <1>0, <1>1, <1>3 DEF CInv, CacheType, CacheInv
<1>7. RefInv'
  <2>1. ASSUME NEW c \in Bufs
        PROVE  buf'[c].refcnt = Cardinality(Users(c)') + Pins(c)'
    <3>1. buf[c].refcnt = Cardinality(Users(c)) + Pins(c) /\ Users(c)' = Users(c)
      BY <1>0 DEF CInv, RefInv, Users
    <3>2. Cardinality(Users(c)) \in Nat
      BY UsersFinite
    <3>3. Pins(c)' = (IF c = b THEN Pins(c) + 1 ELSE Pins(c)) /\ Pins(c) \in {0, 1}
      BY <1>0 DEF Pins
    <3>4. QED
      BY <1>3, <3>1, <3>2, <3>3
  <2>2. QED
    BY <2>1 DEF RefInv
<1>8. DataInv'
  BY <1>0, <1>3 DEF CInv, DataInv, LockInv
<1>9. QED
  BY <1>4, <1>5, <1>6, <1>7, <1>8 DEF CInv

\* bunpin(): the reference of the pin goes.
LEMMA UnpinCache ==
  ASSUME CInv, NEW p \in Procs, bunpin(p)
  PROVE  CInv'
<1> DEFINE b == cur[p]
<1>0. /\ UNCHANGED <<lru, pc, cur, platter, last, calls>> /\ pc[p] = "held" /\ b \in pinned
      /\ pinned' = pinned \ {b} /\ buf' = [buf EXCEPT ![b].refcnt = buf[b].refcnt - 1]
  BY DEF bunpin, device
<1>1. b \in Bufs /\ buf[b].blockno \in Blocks /\ buf[b].lock = p
  BY <1>0 DEF CInv, LockInv, Locked
<1>2. /\ \A c \in Bufs : /\ buf[c].refcnt = Cardinality(Users(c)) + Pins(c) /\ Users(c)' = Users(c)
                         /\ Cardinality(Users(c)) \in Nat
                         /\ Pins(c)' = (IF c = b THEN Pins(c) - 1 ELSE Pins(c)) /\ Pins(c) \in {0, 1}
      /\ Pins(b) = 1
  <2>1. \A c \in Bufs : buf[c].refcnt = Cardinality(Users(c)) + Pins(c) /\ Users(c)' = Users(c)
    BY <1>0 DEF CInv, RefInv, Users
  <2>2. \A c \in Bufs : Cardinality(Users(c)) \in Nat
    BY UsersFinite
  <2>3. \A c \in Bufs : Pins(c)' = (IF c = b THEN Pins(c) - 1 ELSE Pins(c)) /\ Pins(c) \in {0, 1}
    BY <1>0 DEF Pins
  <2>4. Pins(b) = 1
    BY <1>0 DEF Pins
  <2>5. QED
    BY <2>1, <2>2, <2>3, <2>4
<1>3. buf' \in [Bufs -> Buffer]
  <2>1. buf[b].refcnt - 1 \in Nat
    BY <1>1, <1>2
  <2>2. [buf[b] EXCEPT !.refcnt = buf[b].refcnt - 1] \in Buffer
    <3>1. buf[b] \in Buffer
      BY <1>1 DEF CInv, CacheType
    <3>2. QED
      BY <2>1, <3>1 DEF Buffer
  <2>3. buf' = [buf EXCEPT ![b] = [buf[b] EXCEPT !.refcnt = buf[b].refcnt - 1]]
    BY <1>0
  <2>4. QED
    BY <2>2, <2>3 DEF CInv, CacheType
<1>4. \A c \in Bufs : /\ buf'[c].blockno = buf[c].blockno /\ buf'[c].valid = buf[c].valid
                      /\ buf'[c].data = buf[c].data /\ buf'[c].lock = buf[c].lock
                      /\ buf'[c].refcnt = IF c = b THEN buf[c].refcnt - 1 ELSE buf[c].refcnt
  BY <1>0, <1>1 DEF CInv, CacheType, Buffer
<1>5. CacheType'
  BY <1>0, <1>1, <1>3 DEF CInv, CacheType
<1>6. LockInv'
  BY <1>0, <1>4 DEF CInv, LockInv
<1>7. CacheInv'
  BY <1>0, <1>1, <1>4 DEF CInv, CacheType, CacheInv
<1>8. RefInv'
  <2>1. ASSUME NEW c \in Bufs
        PROVE  buf'[c].refcnt = Cardinality(Users(c)') + Pins(c)'
    BY <1>2, <1>4
  <2>2. QED
    BY <2>1 DEF RefInv
<1>9. DataInv'
  BY <1>0, <1>1, <1>4, Constants DEF CInv, DataInv, LockInv
<1>10. QED
  BY <1>5, <1>6, <1>7, <1>8, <1>9 DEF CInv

\* releasesleep(): a buffer that is not pinned is as the disk has it.
LEMMA ReleaseCache ==
  ASSUME CInv, NEW p \in Procs, releasesleep(p)
  PROVE  CInv'
<1> DEFINE b == cur[p]
<1>0. /\ UNCHANGED <<lru, pinned, cur, platter, last, calls>> /\ pc[p] = "held"
      /\ b \in pinned \/ buf[b].data = platter[buf[b].blockno]
      /\ buf' = [buf EXCEPT ![b].lock = None]
      /\ pc' = [q \in Procs |-> IF q = p THEN "release"
                                ELSE IF pc[q] = "lock_asleep" /\ cur[q] = b THEN "lock" ELSE pc[q]]
  BY DEF releasesleep, device
<1>1. b \in Bufs /\ buf[b].blockno \in Blocks /\ buf[b].lock = p /\ buf[b].valid
  BY <1>0 DEF CInv, LockInv, DataInv, Locked
<1>2. buf' \in [Bufs -> Buffer]
  <2>1. buf[b] \in Buffer
    BY <1>1 DEF CInv, CacheType
  <2>2. [buf[b] EXCEPT !.lock = None] \in Buffer
    BY <2>1 DEF Buffer
  <2>3. QED
    BY <1>0, <2>2 DEF CInv, CacheType
<1>3. \A c \in Bufs : /\ buf'[c].blockno = buf[c].blockno /\ buf'[c].valid = buf[c].valid
                      /\ buf'[c].data = buf[c].data /\ buf'[c].refcnt = buf[c].refcnt
                      /\ buf'[c].lock = IF c = b THEN None ELSE buf[c].lock
  BY <1>0, <1>1 DEF CInv, CacheType, Buffer
<1>4. CacheType'
  <2>1. pc' \in [Procs -> {"idle", "lock", "lock_asleep", "rw", "rw_asleep", "io", "io_done",
                           "held", "release", "panic"}]
    BY <1>0 DEF CInv, CacheType
  <2>2. QED
    BY <1>0, <1>2, <2>1 DEF CInv, CacheType
<1>5. /\ \A q \in Procs : /\ q # p => (pc'[q] \in Locked <=> pc[q] \in Locked)
                          /\ pc'[q] \in {"idle", "panic"} <=> pc[q] \in {"idle", "panic"}
                          /\ pc'[q] = "held" => pc[q] = "held" /\ q # p
      /\ pc'[p] \notin Locked
  BY <1>0 DEF Locked
<1>6. LockInv'
  BY <1>0, <1>1, <1>3, <1>5, Constants DEF CInv, LockInv
<1>7. RefInv'
  BY <1>0, <1>3 DEF CInv, RefInv, Users, Pins
<1>8. CacheInv'
  BY <1>0, <1>3 DEF CInv, CacheType, CacheInv
<1>9. DataInv'
  <2>1. \A c \in Bufs : buf'[c].valid => buf'[c].blockno \in Blocks
                                         /\ buf'[c].data = last'[buf'[c].blockno]
    BY <1>0, <1>3 DEF CInv, DataInv
  <2>2. ASSUME NEW j \in Blocks, platter'[j] # last'[j]
        PROVE  \E c \in Bufs : /\ buf'[c].blockno = j /\ buf'[c].valid
                               /\ buf'[c].lock # None \/ c \in pinned'
    <3>1. PICK c \in Bufs : /\ buf[c].blockno = j /\ buf[c].valid
                            /\ buf[c].lock # None \/ c \in pinned
      BY <1>0, <2>2 DEF CInv, DataInv
    <3>2. buf[c].data = last[j]
      BY <3>1 DEF CInv, DataInv
    <3>3. c = b => c \in pinned
      BY <1>0, <2>2, <3>1, <3>2
    <3>4. QED
      BY <1>0, <1>3, <3>1, <3>3
  <2>3. \A q \in Procs : pc'[q] = "held" => buf'[cur'[q]].valid
    BY <1>0, <1>3, <1>5 DEF CInv, DataInv, LockInv
  <2>4. QED
    BY <2>1, <2>2, <2>3 DEF DataInv
<1>10. QED
  BY <1>4, <1>6, <1>7, <1>8, <1>9 DEF CInv

\* The end of brelse().
LEMMA BrelseCache ==
  ASSUME CInv, NEW p \in Procs, brelse(p)
  PROVE  CInv'
<1> DEFINE b == cur[p]
<1>0. /\ UNCHANGED <<pinned, platter, last, calls>> /\ pc[p] = "release"
      /\ buf' = [buf EXCEPT ![b].refcnt = buf[b].refcnt - 1]
      /\ lru' = (IF buf[b].refcnt = 1 THEN MoveToHead(b) ELSE lru)
      /\ Goto(p, "idle") /\ cur' = [cur EXCEPT ![p] = None]
  BY DEF brelse, device
<1>1. b \in Bufs
  BY <1>0 DEF CInv, LockInv
<1>2. \A c \in Bufs : /\ buf[c].refcnt = Cardinality(Users(c)) + Pins(c)
                      /\ Cardinality(Users(c)) \in Nat
                      /\ Pins(c)' = Pins(c) /\ Pins(c) \in {0, 1}
                      /\ Cardinality(Users(c)') = IF c = b THEN Cardinality(Users(c)) - 1
                                                  ELSE Cardinality(Users(c))
                      /\ c = b => Cardinality(Users(c)) > 0
  <2>1. \A c \in Bufs : Cardinality(Users(c)') = IF c = b THEN Cardinality(Users(c)) - 1
                                                 ELSE Cardinality(Users(c))
    BY <1>0, <1>1, UserGoes DEF CInv
  <2>2. \A c \in Bufs : c = b => Cardinality(Users(c)) > 0
    BY <1>0, <1>1, UserGoes DEF CInv
  <2>3. \A c \in Bufs : Pins(c)' = Pins(c) /\ Pins(c) \in {0, 1}
    BY <1>0 DEF Pins
  <2>4. QED
    BY <2>1, <2>2, <2>3, UsersFinite DEF CInv, RefInv
<1>3. buf' \in [Bufs -> Buffer]
  <2>1. buf[b].refcnt - 1 \in Nat
    BY <1>1, <1>2
  <2>2. [buf[b] EXCEPT !.refcnt = buf[b].refcnt - 1] \in Buffer
    <3>1. buf[b] \in Buffer
      BY <1>1 DEF CInv, CacheType
    <3>2. QED
      BY <2>1, <3>1 DEF Buffer
  <2>3. buf' = [buf EXCEPT ![b] = [buf[b] EXCEPT !.refcnt = buf[b].refcnt - 1]]
    BY <1>0
  <2>4. QED
    BY <2>2, <2>3 DEF CInv, CacheType
<1>4. \A c \in Bufs : /\ buf'[c].blockno = buf[c].blockno /\ buf'[c].valid = buf[c].valid
                      /\ buf'[c].data = buf[c].data /\ buf'[c].lock = buf[c].lock
                      /\ buf'[c].refcnt = IF c = b THEN buf[c].refcnt - 1 ELSE buf[c].refcnt
  BY <1>0, <1>1 DEF CInv, CacheType, Buffer
<1>5. lru' \in [1..NBUF -> Bufs]
  <2>1. lru \in [1..NBUF -> Bufs]
    BY DEF CInv, CacheType
  <2>2. \A n \in 1..NBUF : n # 1 => n - 1 \in 1..NBUF
    BY Constants
  <2>3. MoveToHead(b) \in [1..NBUF -> Bufs]
    BY <1>1, <2>1, <2>2 DEF MoveToHead
  <2>4. QED
    BY <1>0, <2>1, <2>3
<1>6. CacheType'
  BY <1>0, <1>3, <1>5 DEF CInv, CacheType, Goto
<1>7. /\ pc'[p] = "idle" /\ cur'[p] = None
      /\ \A q \in Procs : q # p => pc'[q] = pc[q] /\ cur'[q] = cur[q]
  BY <1>0 DEF CInv, CacheType, Goto
<1>8. LockInv'
  BY <1>0, <1>1, <1>4, <1>7, Constants DEF CInv, LockInv, Locked
<1>9. RefInv'
  <2>1. ASSUME NEW c \in Bufs
        PROVE  buf'[c].refcnt = Cardinality(Users(c)') + Pins(c)'
    BY <1>2, <1>4
  <2>2. QED
    BY <2>1 DEF RefInv
<1>10. CacheInv'
  BY <1>0, <1>4 DEF CInv, CacheType, CacheInv
<1>11. DataInv'
  BY <1>0, <1>4, <1>7 DEF CInv, DataInv, LockInv
<1>12. QED
  BY <1>6, <1>8, <1>9, <1>10, <1>11 DEF CInv

\* A step of the driver or of the device keeps who has which buffer.
LEMMA CacheFrame ==
  ASSUME CInv, UNCHANGED <<lru, pinned, cur, last, calls>>,
         buf' \in [Bufs -> Buffer], platter' \in [Blocks -> Bit],
         pc' \in [Procs -> {"idle", "lock", "lock_asleep", "rw", "rw_asleep", "io", "io_done",
                            "held", "release", "panic"}],
         \A c \in Bufs : /\ buf'[c].blockno = buf[c].blockno /\ buf'[c].lock = buf[c].lock
                         /\ buf'[c].refcnt = buf[c].refcnt,
         \A q \in Procs : pc'[q] = pc[q] \/ (pc[q] \in Locked /\ pc'[q] \in Locked),
         DataInv'
  PROVE  CInv'
<1>1. CacheType'
  BY DEF CInv, CacheType
<1>2. LockInv'
  BY DEF CInv, LockInv, Locked
<1>3. RefInv'
  BY DEF CInv, RefInv, Users, Pins
<1>4. CacheInv'
  BY DEF CInv, CacheType, CacheInv
<1>5. QED
  BY <1>1, <1>2, <1>3, <1>4 DEF CInv

\* The request of a process: its chain, and the buffer, whose lock the process holds.
LEMMA Request ==
  ASSUME CInv, QueueType, ChainInv, RequestInv, NEW p \in Procs, Active(p)
  PROVE  /\ idx[p] \in Descs \X Descs \X Descs
         /\ idx[p][1] \in Descs /\ idx[p][2] \in Descs /\ idx[p][3] \in Descs
         /\ idx[p][1] # idx[p][2] /\ idx[p][1] # idx[p][3] /\ idx[p][2] # idx[p][3]
         /\ Chain(idx[p][1]) = <<idx[p][1], idx[p][2], idx[p][3]>>
         /\ Own(p) = {idx[p][1], idx[p][2], idx[p][3]}
         /\ cur[p] \in Bufs /\ buf[cur[p]].blockno \in Blocks /\ buf[cur[p]].lock = p
         /\ desc[idx[p][1]].addr = [write |-> buf[cur[p]].valid, sector |-> buf[cur[p]].blockno]
         /\ desc[idx[p][2]].addr = cur[p] /\ desc[idx[p][3]].addr = idx[p][1]
         /\ info[idx[p][1]].b = cur[p]
         /\ info[idx[p][1]].done => buf[cur[p]].data = last[buf[cur[p]].blockno]
         /\ pc[p] = "io_done" => info[idx[p][1]].done
<1>1. /\ idx[p] \in Descs \X Descs \X Descs
      /\ idx[p][1] # idx[p][2] /\ idx[p][1] # idx[p][3] /\ idx[p][2] # idx[p][3]
      /\ desc[idx[p][1]].next = idx[p][2] /\ desc[idx[p][2]].next = idx[p][3]
  BY DEF ChainInv
<1>2. idx[p][1] \in Descs /\ idx[p][2] \in Descs /\ idx[p][3] \in Descs
  BY <1>1
<1>3. Chain(idx[p][1]) = <<idx[p][1], idx[p][2], idx[p][3]>>
  BY <1>1 DEF Chain
<1>4. pc[p] \in Locked /\ pc[p] \notin {"idle", "panic"}
  BY DEF Active, Locked
<1>5. cur[p] \in Bufs /\ buf[cur[p]].blockno \in Blocks /\ buf[cur[p]].lock = p
  BY <1>4 DEF CInv, LockInv
<1>6. /\ desc[idx[p][1]].addr = [write |-> buf[cur[p]].valid, sector |-> buf[cur[p]].blockno]
      /\ desc[idx[p][2]].addr = cur[p] /\ desc[idx[p][3]].addr = idx[p][1]
      /\ info[idx[p][1]].b = cur[p]
      /\ info[idx[p][1]].done => buf[cur[p]].data = last[buf[cur[p]].blockno]
      /\ pc[p] = "io_done" => info[idx[p][1]].done
  BY DEF RequestInv
<1>7. QED
  BY <1>1, <1>2, <1>3, <1>5, <1>6 DEF Own

\* virtio_disk_rw(): the buffer is marked.
LEMMA SubmitCache ==
  ASSUME CInv, NEW p \in Procs, virtio_disk_rw(p)
  PROVE  CInv'
<1> DEFINE b == cur[p]
<1>0. /\ UNCHANGED <<lru, pinned, cur, platter, last, calls>> /\ pc[p] = "rw"
      /\ buf' = [buf EXCEPT ![b].disk = TRUE] /\ Goto(p, "io")
  BY DEF virtio_disk_rw, device
<1>1. b \in Bufs
  BY <1>0 DEF CInv, LockInv
<1>2. buf' \in [Bufs -> Buffer]
  <2>1. buf[b] \in Buffer
    BY <1>1 DEF CInv, CacheType
  <2>2. [buf[b] EXCEPT !.disk = TRUE] \in Buffer
    BY <2>1 DEF Buffer
  <2>3. QED
    BY <1>0, <2>2 DEF CInv, CacheType
<1>3. \A c \in Bufs : /\ buf'[c].blockno = buf[c].blockno /\ buf'[c].valid = buf[c].valid
                      /\ buf'[c].data = buf[c].data /\ buf'[c].lock = buf[c].lock
                      /\ buf'[c].refcnt = buf[c].refcnt
  BY <1>0, <1>1 DEF CInv, CacheType, Buffer
<1>4. /\ pc' \in [Procs -> {"idle", "lock", "lock_asleep", "rw", "rw_asleep", "io", "io_done",
                            "held", "release", "panic"}]
      /\ \A q \in Procs : pc'[q] = pc[q] \/ (pc[q] \in Locked /\ pc'[q] \in Locked)
      /\ \A q \in Procs : pc'[q] = "held" => pc[q] = "held"
  BY <1>0 DEF CInv, CacheType, Goto, Locked
<1>5. DataInv'
  BY <1>0, <1>3, <1>4 DEF CInv, DataInv, LockInv
<1>6. platter' \in [Blocks -> Bit]
  BY <1>0 DEF CInv, CacheType
<1>7. QED
  BY <1>0, <1>2, <1>3, <1>4, <1>5, <1>6, CacheFrame

\* rw_end(): what has been read is what the last holder left.
LEMMA EndCache ==
  ASSUME CInv, QueueType, ChainInv, RequestInv, NEW p \in Procs, rw_end(p)
  PROVE  CInv'
<1> DEFINE b == cur[p]
<1>0. /\ UNCHANGED <<lru, pinned, cur, platter, last, calls>> /\ pc[p] = "io_done"
      /\ buf' = [buf EXCEPT ![b].valid = TRUE] /\ WakeAllocators(p, "held")
  BY DEF rw_end, device
<1>1. b \in Bufs /\ buf[b].blockno \in Blocks /\ buf[b].data = last[buf[b].blockno]
  BY <1>0, Request DEF Active
<1>2. buf' \in [Bufs -> Buffer]
  <2>1. buf[b] \in Buffer
    BY <1>1 DEF CInv, CacheType
  <2>2. [buf[b] EXCEPT !.valid = TRUE] \in Buffer
    BY <2>1 DEF Buffer
  <2>3. QED
    BY <1>0, <2>2 DEF CInv, CacheType
<1>3. \A c \in Bufs : /\ buf'[c].blockno = buf[c].blockno
                      /\ buf'[c].valid = (c = b \/ buf[c].valid)
                      /\ buf'[c].data = buf[c].data /\ buf'[c].lock = buf[c].lock
                      /\ buf'[c].refcnt = buf[c].refcnt
  BY <1>0, <1>1 DEF CInv, CacheType, Buffer
<1>4. /\ pc' \in [Procs -> {"idle", "lock", "lock_asleep", "rw", "rw_asleep", "io", "io_done",
                            "held", "release", "panic"}]
      /\ \A q \in Procs : pc'[q] = pc[q] \/ (pc[q] \in Locked /\ pc'[q] \in Locked)
      /\ \A q \in Procs : pc'[q] = "held" => pc[q] = "held" \/ q = p
  BY <1>0 DEF CInv, CacheType, WakeAllocators, Locked
<1>5. DataInv'
  <2>1. ASSUME NEW c \in Bufs, buf'[c].valid
        PROVE  buf'[c].blockno \in Blocks /\ buf'[c].data = last'[buf'[c].blockno]
    BY <1>0, <1>1, <1>3, <2>1 DEF CInv, DataInv
  <2>2. ASSUME NEW j \in Blocks, platter'[j] # last'[j]
        PROVE  \E c \in Bufs : /\ buf'[c].blockno = j /\ buf'[c].valid
                               /\ buf'[c].lock # None \/ c \in pinned'
    BY <1>0, <1>3, <2>2 DEF CInv, DataInv
  <2>3. ASSUME NEW q \in Procs, pc'[q] = "held"
        PROVE  buf'[cur'[q]].valid
    <3>1. CASE q = p
      BY <1>0, <1>1, <1>3, <3>1
    <3>2. CASE pc[q] = "held"
      <4>1. cur[q] \in Bufs /\ buf[cur[q]].valid
        BY <3>2 DEF CInv, DataInv, LockInv
      <4>2. QED
        BY <1>0, <1>3, <4>1
    <3>3. QED
      BY <1>4, <2>3, <3>1, <3>2
  <2>4. QED
    BY <2>1, <2>2, <2>3 DEF DataInv
<1>6. platter' \in [Blocks -> Bit]
  BY <1>0 DEF CInv, CacheType
<1>7. QED
  BY <1>0, <1>2, <1>3, <1>4, <1>5, <1>6, CacheFrame

\* intr_used(): the buffer is no longer marked, whichever it is.
LEMMA UsedCache ==
  ASSUME CInv, intr_used
  PROVE  CInv'
<1> DEFINE b == info[used.ring[used_idx % NUM]].b
<1>0. /\ UNCHANGED <<lru, pinned, cur, platter, last, calls>>
      /\ buf' = [buf EXCEPT ![b].disk = FALSE]
      /\ pc' = [q \in Procs |-> IF pc[q] = "io" /\ cur[q] = b THEN "io_done" ELSE pc[q]]
  BY DEF intr_used, device
<1> HIDE DEF b
<1>2. buf' \in [Bufs -> Buffer]
  <2>1. \A c \in Bufs : [buf[c] EXCEPT !.disk = FALSE] \in Buffer
    BY DEF CInv, CacheType, Buffer
  <2>2. QED
    BY <1>0, <2>1 DEF CInv, CacheType
<1>3. \A c \in Bufs : /\ buf'[c].blockno = buf[c].blockno /\ buf'[c].valid = buf[c].valid
                      /\ buf'[c].data = buf[c].data /\ buf'[c].lock = buf[c].lock
                      /\ buf'[c].refcnt = buf[c].refcnt
  BY <1>0 DEF CInv, CacheType, Buffer
<1>4. /\ pc' \in [Procs -> {"idle", "lock", "lock_asleep", "rw", "rw_asleep", "io", "io_done",
                            "held", "release", "panic"}]
      /\ \A q \in Procs : pc'[q] = pc[q] \/ (pc[q] \in Locked /\ pc'[q] \in Locked)
      /\ \A q \in Procs : pc'[q] = "held" => pc[q] = "held"
  BY <1>0 DEF CInv, CacheType, Locked
<1>5. DataInv'
  BY <1>0, <1>3, <1>4 DEF CInv, DataInv, LockInv
<1>6. platter' \in [Blocks -> Bit]
  BY <1>0 DEF CInv, CacheType
<1>7. QED
  BY <1>0, <1>2, <1>3, <1>4, <1>5, <1>6, CacheFrame

\* What the device does to a request it has: it writes what the buffer holds, or reads
\* what the last holder left.
LEMMA Transferred ==
  ASSUME CInv, QueueType, ChainInv, RequestInv, NEW p \in Procs, Active(p),
         NEW h, h = idx[p][1], dev_complete(h)
  PROVE  LET b == cur[p]
             k == buf[b].blockno IN
         /\ info' = [info EXCEPT ![h].done = TRUE]
         /\ buf[b].valid => platter' = [platter EXCEPT ![k] = buf[b].data] /\ buf' = buf
         /\ ~buf[b].valid => buf' = [buf EXCEPT ![b].data = last[k]] /\ platter' = platter
         /\ buf'[b].data = last[k]
<1> DEFINE b == cur[p]
           k == buf[b].blockno
<1>1. /\ Chain(h)[2] = idx[p][2] /\ Chain(h)[3] = idx[p][3] /\ b \in Bufs /\ k \in Blocks
      /\ desc[h].addr = [write |-> buf[b].valid, sector |-> k]
      /\ desc[Chain(h)[2]].addr = b /\ desc[Chain(h)[3]].addr = h
  BY Request
<1>2. /\ IF desc[h].addr.write
         THEN platter' = [platter EXCEPT ![desc[h].addr.sector] = buf[desc[Chain(h)[2]].addr].data]
              /\ buf' = buf
         ELSE buf' = [buf EXCEPT ![desc[Chain(h)[2]].addr].data = platter[desc[h].addr.sector]]
              /\ platter' = platter
      /\ info' = [info EXCEPT ![desc[Chain(h)[3]].addr].done = TRUE]
  BY DEF dev_complete
<1>3. desc[h].addr.write = buf[b].valid /\ desc[h].addr.sector = k
  BY <1>1
<1>4. info' = [info EXCEPT ![h].done = TRUE]
  BY <1>1, <1>2
<1>5. CASE buf[b].valid
  <2>1. platter' = [platter EXCEPT ![k] = buf[b].data] /\ buf' = buf
    BY <1>1, <1>2, <1>3, <1>5
  <2>2. buf[b].data = last[k]
    BY <1>1, <1>5 DEF CInv, DataInv
  <2>3. QED
    BY <1>4, <1>5, <2>1, <2>2
<1>6. CASE ~buf[b].valid
  <2>1. buf' = [buf EXCEPT ![b].data = platter[k]] /\ platter' = platter
    BY <1>1, <1>2, <1>3, <1>6
  <2>2. platter[k] = last[k]
    BY <1>1, <1>6 DEF CInv, DataInv, CacheInv
  <2>3. buf'[b].data = last[k]
    BY <1>1, <2>1, <2>2 DEF CInv, CacheType, Buffer
  <2>4. QED
    BY <1>4, <1>6, <2>1, <2>2, <2>3
<1>7. QED
  BY <1>5, <1>6

\* dev_complete(): neither makes a block differ from what was left.
LEMMA CompleteCache ==
  ASSUME CInv, QueueType, ChainInv, RequestInv, NEW p \in Procs, Active(p),
         dev_complete(idx[p][1])
  PROVE  CInv'
<1> DEFINE b == cur[p]
           k == buf[b].blockno
<1>0. UNCHANGED <<lru, pinned, pc, cur, last, calls>>
  BY DEF dev_complete
<1>1. b \in Bufs /\ k \in Blocks /\ k = buf[b].blockno
  BY Request
<1> HIDE DEF k
<1>2. /\ buf[b].valid => platter' = [platter EXCEPT ![k] = buf[b].data] /\ buf' = buf
      /\ ~buf[b].valid => buf' = [buf EXCEPT ![b].data = last[k]] /\ platter' = platter
      /\ buf'[b].data = last[k]
  BY Transferred DEF k
<1>3. pc' \in [Procs -> {"idle", "lock", "lock_asleep", "rw", "rw_asleep", "io", "io_done",
                         "held", "release", "panic"}]
  BY <1>0 DEF CInv, CacheType
<1>4. CASE buf[b].valid
  <2>1. platter' \in [Blocks -> Bit] /\ buf' \in [Bufs -> Buffer]
    BY <1>1, <1>2, <1>4 DEF CInv, CacheType, Buffer
  <2>2. \A j \in Blocks : platter'[j] = IF j = k THEN last[k] ELSE platter[j]
    BY <1>1, <1>2, <1>4 DEF CInv, CacheType
  <2>3. DataInv'
    BY <1>0, <1>2, <1>4, <2>2 DEF CInv, DataInv
  <2>4. QED
    BY <1>0, <1>2, <1>3, <1>4, <2>1, <2>3, CacheFrame
<1>5. CASE ~buf[b].valid
  <2>1. buf' \in [Bufs -> Buffer]
    <3>1. buf[b] \in Buffer /\ last[k] \in Bit
      BY <1>1 DEF CInv, CacheType
    <3>2. [buf[b] EXCEPT !.data = last[k]] \in Buffer
      BY <3>1 DEF Buffer
    <3>3. QED
      BY <1>2, <1>5, <3>2 DEF CInv, CacheType
  <2>2. \A c \in Bufs : /\ buf'[c].blockno = buf[c].blockno /\ buf'[c].valid = buf[c].valid
                        /\ buf'[c].lock = buf[c].lock /\ buf'[c].refcnt = buf[c].refcnt
                        /\ c # b => buf'[c].data = buf[c].data
    BY <1>1, <1>2, <1>5 DEF CInv, CacheType, Buffer
  <2>3. DataInv'
    BY <1>0, <1>2, <1>5, <2>2 DEF CInv, DataInv, LockInv
  <2>4. platter' \in [Blocks -> Bit]
    BY <1>2, <1>5 DEF CInv, CacheType
  <2>5. QED
    BY <1>0, <1>3, <2>1, <2>2, <2>3, <2>4, CacheFrame
<1>6. QED
  BY <1>4, <1>5

-----------------------------------------------------------------------------
(* The requests.                                                           *)

\* The part of the invariant that is about the driver and the device.
QInv == QueueType /\ ChainInv /\ RequestInv /\ RingInv /\ WakeInv

\* A step that leaves the requests that are on their way alone, ...
LEMMA QueueKept ==
  ASSUME QInv, UNCHANGED <<idx, free, desc, info, avail, used, used_idx, taken, seen>>,
         intr' \in BOOLEAN, isr' \in BOOLEAN, used_idx # used.idx => isr' \/ intr',
         \A q \in Procs : pc[q] \in {"io", "io_done"} \/ pc'[q] \in {"io", "io_done"}
                            => pc'[q] = pc[q] /\ cur'[q] = cur[q],
         \A q \in Procs : Active(q) => /\ buf'[cur[q]].blockno = buf[cur[q]].blockno
                                       /\ buf'[cur[q]].valid = buf[cur[q]].valid
                                       /\ buf'[cur[q]].data = buf[cur[q]].data
                                       /\ last'[buf[cur[q]].blockno] = last[buf[cur[q]].blockno],
         (\E q \in Procs : pc'[q] = "rw_asleep") =>
           Cardinality(free) < 3 \/ \E q \in Procs : pc[q] = "rw_asleep"
  PROVE  QInv'
<1>0. UNCHANGED <<idx, free, desc, info, avail, used, used_idx, taken, seen>>
  OBVIOUS
<1>1. QueueType'
  BY <1>0 DEF QInv, QueueType
<1>2. \A q \in Procs : (Active(q)' <=> Active(q)) /\ Own(q)' = Own(q) /\ (pc'[q] = "io" <=> pc[q] = "io")
  BY <1>0 DEF Active, Own
<1>3. ChainInv'
  BY <1>0, <1>2 DEF QInv, ChainInv
<1>4. RequestInv'
  BY <1>0, <1>2 DEF QInv, RequestInv, Active
<1>5. /\ Heads(avail, seen)' = Heads(avail, seen) /\ Heads(used, used_idx)' = Heads(used, used_idx)
      /\ \A h \in Descs : (InAvail(h)' <=> InAvail(h)) /\ (InUsed(h)' <=> InUsed(h))
  BY <1>0 DEF Heads, In, InAvail, InUsed, Entry, Length
<1>6. RingInv'
  <2>1. Heads(avail, seen)' /\ Heads(used, used_idx)'
    BY <1>5 DEF QInv, RingInv
  <2>2. \A h \in Descs : (InAvail(h)' \/ h \in taken' \/ InUsed(h)')
                          <=> \E p \in Procs : pc'[p] = "io" /\ idx'[p][1] = h
    BY <1>0, <1>2, <1>5 DEF QInv, RingInv
  <2>3. \A h \in Descs : /\ ~(InAvail(h)' /\ h \in taken') /\ ~(InAvail(h)' /\ InUsed(h)')
                         /\ ~(h \in taken' /\ InUsed(h)')
                         /\ InUsed(h)' => info'[h].done
    BY <1>0, <1>5 DEF QInv, RingInv
  <2>4. QED
    BY <1>0, <2>1, <2>2, <2>3 DEF RingInv
<1>7. WakeInv'
  BY <1>0 DEF QInv, WakeInv
<1>8. QED
  BY <1>1, <1>3, <1>4, <1>6, <1>7 DEF QInv

\* ... and the driver, too.
LEMMA QueueFrame ==
  ASSUME QInv, UNCHANGED <<idx, queue, taken, seen, isr>>,
         \A q \in Procs : pc[q] \in {"io", "io_done"} \/ pc'[q] \in {"io", "io_done"}
                            => pc'[q] = pc[q] /\ cur'[q] = cur[q],
         \A q \in Procs : Active(q) => /\ buf'[cur[q]].blockno = buf[cur[q]].blockno
                                       /\ buf'[cur[q]].valid = buf[cur[q]].valid
                                       /\ buf'[cur[q]].data = buf[cur[q]].data
                                       /\ last'[buf[cur[q]].blockno] = last[buf[cur[q]].blockno],
         (\E q \in Procs : pc'[q] = "rw_asleep") =>
           Cardinality(free) < 3 \/ \E q \in Procs : pc[q] = "rw_asleep"
  PROVE  QInv'
<1>1. /\ UNCHANGED <<idx, free, desc, info, avail, used, used_idx, taken, seen>>
      /\ intr' \in BOOLEAN /\ isr' \in BOOLEAN /\ (used_idx # used.idx => isr' \/ intr')
  BY DEF queue, QInv, QueueType, WakeInv
<1>2. QED
  BY <1>1, QueueKept

\* The steps of the callers and the cache are such steps.
LEMMA BgetQueue ==
  ASSUME CInv, QInv, NEW p \in Procs, NEW k \in Blocks, bget(p, k)
  PROVE  QInv'
<1>0. UNCHANGED <<idx, queue, taken, seen, isr, last>> /\ pc[p] = "idle"
  BY DEF bget, device
<1>1. /\ pc'[p] \in {"lock", "panic"} /\ \A q \in Procs : q # p => pc'[q] = pc[q] /\ cur'[q] = cur[q]
  BY DEF bget, Goto, CInv, CacheType
<1>2. \A q \in Procs : pc[q] \in {"io", "io_done"} \/ pc'[q] \in {"io", "io_done"}
                         => pc'[q] = pc[q] /\ cur'[q] = cur[q]
  BY <1>0, <1>1
<1>3. ASSUME NEW q \in Procs, Active(q)
      PROVE  /\ buf'[cur[q]].blockno = buf[cur[q]].blockno /\ buf'[cur[q]].valid = buf[cur[q]].valid
             /\ buf'[cur[q]].data = buf[cur[q]].data
  <2>1. cur[q] \in Bufs
    BY <1>3 DEF CInv, LockInv, Active
  <2>2. CASE \E b \in Cached(k) : buf' = [buf EXCEPT ![b].refcnt = @ + 1]
    BY <2>1, <2>2 DEF CInv, CacheType, Buffer
  <2>3. CASE buf' = buf
    BY <2>3
  <2>4. CASE Unused # {} /\ buf' = [buf EXCEPT ![lru[Max(Unused)]] = Recycle(@, k)]
    <3>1. Unused \in SUBSET (1..NBUF) /\ NBUF \in Nat
      BY Constants DEF Unused
    <3>2. Max(Unused) \in Unused
      BY <2>4, <3>1, GreatestElement
    <3>3. lru[Max(Unused)] \in Bufs /\ buf[lru[Max(Unused)]].refcnt = 0
      BY <3>1, <3>2 DEF Unused, CInv, CacheType
    <3>4. cur[q] # lru[Max(Unused)]
      BY <3>3, Unreferenced
    <3>5. QED
      BY <2>1, <2>4, <3>3, <3>4 DEF CInv, CacheType
  <2>5. QED
    BY <2>2, <2>3, <2>4 DEF bget
<1>4. \A q \in Procs : pc'[q] = "rw_asleep" => pc[q] = "rw_asleep"
  BY <1>1
<1>5. QED
  BY <1>0, <1>2, <1>3, <1>4, QueueFrame

\* change(): no request is for the block, whose buffer is locked by another process.
LEMMA ChangeQueue ==
  ASSUME CInv, QInv, NEW p \in Procs, change(p)
  PROVE  QInv'
<1> DEFINE b == cur[p]
           k == buf[b].blockno
<1>0. /\ UNCHANGED <<pc, cur, idx, queue, taken, seen, isr>> /\ pc[p] = "held"
      /\ buf' = [buf EXCEPT ![b].data = 1 - buf[b].data] /\ last' = [last EXCEPT ![k] = 1 - buf[b].data]
  BY DEF change, device
<1>1. b \in Bufs /\ k \in Blocks /\ buf[b].lock = p
  BY <1>0 DEF CInv, LockInv, Locked
<1>2. ASSUME NEW q \in Procs, Active(q)
      PROVE  /\ buf'[cur[q]].blockno = buf[cur[q]].blockno /\ buf'[cur[q]].valid = buf[cur[q]].valid
             /\ buf'[cur[q]].data = buf[cur[q]].data
             /\ last'[buf[cur[q]].blockno] = last[buf[cur[q]].blockno]
  <2>1. q # p /\ pc[q] \in Locked /\ pc[q] \notin {"idle", "panic"}
    BY <1>0, <1>2 DEF Active, Locked
  <2>2. cur[q] \in Bufs /\ buf[cur[q]].blockno \in Blocks /\ buf[cur[q]].lock = q
    BY <2>1 DEF CInv, LockInv
  <2>3. cur[q] # b
    BY <1>1, <2>1, <2>2
  <2>4. buf[cur[q]].blockno # k
    BY <1>1, <2>2, <2>3 DEF CInv, CacheInv
  <2>5. QED
    BY <1>0, <1>1, <2>2, <2>3, <2>4 DEF CInv, CacheType
<1>3. QED
  BY <1>0, <1>2, QueueFrame

\* A step of a process that has no request and changes neither a block nor what is cached.
LEMMA QuietQueue ==
  ASSUME CInv, QInv, NEW p \in Procs, ~Active(p), UNCHANGED <<idx, queue, device, last>>,
         \A c \in Bufs : /\ buf'[c].blockno = buf[c].blockno /\ buf'[c].valid = buf[c].valid
                         /\ buf'[c].data = buf[c].data,
         \A q \in Procs : q # p => cur'[q] = cur[q],
         ~Active(p)',
         \A q \in Procs : q # p => \/ pc'[q] = pc[q]
                                   \/ pc[q] = "lock_asleep" /\ pc'[q] = "lock"
                                   \/ pc[q] = "rw_asleep" /\ pc'[q] = "rw",
         pc'[p] = "rw_asleep" => Cardinality(free) < 3
  PROVE  QInv'
<1>1. \A q \in Procs : pc[q] \in {"io", "io_done"} \/ pc'[q] \in {"io", "io_done"}
                         => pc'[q] = pc[q] /\ cur'[q] = cur[q]
  BY DEF Active
<1>2. \A q \in Procs : Active(q) => cur[q] \in Bufs
  BY DEF Active, CInv, LockInv
<1>3. (\E q \in Procs : pc'[q] = "rw_asleep") =>
        Cardinality(free) < 3 \/ \E q \in Procs : pc[q] = "rw_asleep"
  OBVIOUS
<1>4. QED
  BY <1>1, <1>2, <1>3, QueueFrame DEF device

\* bpin() and bunpin() only count.
LEMMA PinQueue ==
  ASSUME CInv, QInv, NEW p \in Procs, bpin(p) \/ bunpin(p)
  PROVE  QInv'
<1>1. UNCHANGED <<pc, cur, idx, queue, device, last>> /\ pc[p] = "held"
  BY DEF bpin, bunpin
<1>2. \A c \in Bufs : /\ buf'[c].blockno = buf[c].blockno /\ buf'[c].valid = buf[c].valid
                      /\ buf'[c].data = buf[c].data
  <2>1. PICK n : buf' = [buf EXCEPT ![cur[p]].refcnt = n]
    BY DEF bpin, bunpin
  <2>2. QED
    BY <2>1 DEF CInv, CacheType, Buffer
<1>3. ~Active(p) /\ ~Active(p)'
  BY <1>1 DEF Active
<1>4. QED
  BY <1>1, <1>2, <1>3, QuietQueue

\* acquiresleep() is before the request of its process.
LEMMA AcquireQueue ==
  ASSUME CInv, QInv, NEW p \in Procs, acquiresleep(p)
  PROVE  QInv'
<1>1. /\ UNCHANGED <<cur, idx, queue, device, last>> /\ pc[p] = "lock"
      /\ pc'[p] \in {"lock_asleep", "held", "rw"} /\ \A q \in Procs : q # p => pc'[q] = pc[q]
  BY DEF acquiresleep, bread, Goto, CInv, CacheType
<1>2. \A c \in Bufs : /\ buf'[c].blockno = buf[c].blockno /\ buf'[c].valid = buf[c].valid
                      /\ buf'[c].data = buf[c].data
  BY DEF acquiresleep, CInv, CacheType, Buffer
<1>3. ~Active(p) /\ ~Active(p)'
  BY <1>1 DEF Active
<1>4. QED
  BY <1>1, <1>2, <1>3, QuietQueue

\* So is bwrite(), ...
LEMMA WriteQueue ==
  ASSUME CInv, QInv, NEW p \in Procs, bwrite(p)
  PROVE  QInv'
<1>1. /\ UNCHANGED <<buf, cur, idx, queue, device, last>> /\ pc[p] = "held"
      /\ pc'[p] = "rw" /\ \A q \in Procs : q # p => pc'[q] = pc[q]
  BY DEF bwrite, cache, Goto, CInv, CacheType
<1>2. ~Active(p) /\ ~Active(p)'
  BY <1>1 DEF Active
<1>3. QED
  BY <1>1, <1>2, QuietQueue

\* ... and releasesleep() is after it, ...
LEMMA ReleaseQueue ==
  ASSUME CInv, QInv, NEW p \in Procs, releasesleep(p)
  PROVE  QInv'
<1>1. /\ UNCHANGED <<cur, idx, queue, device, last>> /\ pc[p] = "held" /\ pc'[p] = "release"
      /\ \A q \in Procs : q # p => pc'[q] = pc[q] \/ (pc[q] = "lock_asleep" /\ pc'[q] = "lock")
  BY DEF releasesleep, CInv, CacheType
<1>2. \A c \in Bufs : /\ buf'[c].blockno = buf[c].blockno /\ buf'[c].valid = buf[c].valid
                      /\ buf'[c].data = buf[c].data
  BY DEF releasesleep, CInv, CacheType, Buffer
<1>3. ~Active(p) /\ ~Active(p)'
  BY <1>1 DEF Active
<1>4. QED
  BY <1>1, <1>2, <1>3, QuietQueue

\* ... as is the end of brelse().
LEMMA BrelseQueue ==
  ASSUME CInv, QInv, NEW p \in Procs, brelse(p)
  PROVE  QInv'
<1>1. /\ UNCHANGED <<idx, queue, device, last>> /\ pc[p] = "release" /\ pc'[p] = "idle"
      /\ \A q \in Procs : q # p => pc'[q] = pc[q] /\ cur'[q] = cur[q]
  BY DEF brelse, Goto, CInv, CacheType
<1>2. \A c \in Bufs : /\ buf'[c].blockno = buf[c].blockno /\ buf'[c].valid = buf[c].valid
                      /\ buf'[c].data = buf[c].data
  BY DEF brelse, CInv, CacheType, Buffer
<1>3. ~Active(p) /\ ~Active(p)'
  BY <1>1 DEF Active
<1>4. QED
  BY <1>1, <1>2, <1>3, QuietQueue

\* alloc3_desc() finds fewer than three descriptors.
LEMMA AllocQueue ==
  ASSUME CInv, QInv, NEW p \in Procs, alloc3_fail(p)
  PROVE  QInv'
<1>1. /\ UNCHANGED <<buf, cur, idx, queue, device, last>> /\ pc[p] = "rw" /\ pc'[p] = "rw_asleep"
      /\ \A q \in Procs : q # p => pc'[q] = pc[q] \/ (pc[q] = "rw_asleep" /\ pc'[q] = "rw")
      /\ Cardinality(free) < 3
  BY DEF alloc3_fail, cache, Goto, WakeAllocators, CInv, CacheType
<1>2. ~Active(p) /\ ~Active(p)'
  BY <1>1 DEF Active
<1>3. QED
  BY <1>1, <1>2, QuietQueue

-----------------------------------------------------------------------------
(* The steps of the driver and of the device.                              *)

\* A request belongs to one process: its head, its descriptors and its buffer.
LEMMA Requesters ==
  ASSUME CInv, QInv, NEW p \in Procs, Active(p), NEW q \in Procs, Active(q), p # q
  PROVE  /\ Own(p) \cap Own(q) = {} /\ cur[p] # cur[q]
         /\ idx[p][1] # idx[q][1] /\ idx[p][1] # idx[q][2] /\ idx[p][1] # idx[q][3]
<1>1. Own(p) \cap Own(q) = {}
  BY DEF QInv, ChainInv
<1>2. buf[cur[p]].lock = p /\ buf[cur[q]].lock = q
  BY Request DEF QInv
<1>3. Own(p) = {idx[p][1], idx[p][2], idx[p][3]} /\ Own(q) = {idx[q][1], idx[q][2], idx[q][3]}
  BY DEF Own
<1>4. QED
  BY <1>1, <1>2, <1>3

\* What is in a ring or with the device is the head of a request.
LEMMA HeadOf ==
  ASSUME CInv, QInv, NEW h \in Descs, InAvail(h) \/ h \in taken \/ InUsed(h)
  PROVE  \E p \in Procs : /\ pc[p] = "io" /\ Active(p) /\ idx[p][1] = h /\ h \in Own(p) /\ h \notin free
<1>1. PICK p \in Procs : pc[p] = "io" /\ idx[p][1] = h
  BY DEF QInv, RingInv
<1>2. Active(p) /\ h \in Own(p)
  BY <1>1 DEF Active, Own
<1>3. h \notin free
  BY <1>2 DEF QInv, ChainInv
<1>4. QED
  BY <1>1, <1>2, <1>3

\* alloc3_desc(): three descriptors that were free.
LEMMA Allocated ==
  ASSUME QInv, Cardinality(free) >= 3, NEW d, d = alloc3_desc
  PROVE  /\ d \in Descs \X Descs \X Descs /\ d[1] \in free /\ d[2] \in free /\ d[3] \in free
         /\ d[1] # d[2] /\ d[1] # d[3] /\ d[2] # d[3]
<1> DEFINE x == Min(free)
           y == Min(free \ {x})
           z == Min(free \ {x, y})
<1>1. free \in SUBSET Descs /\ Descs \in SUBSET Nat /\ IsFiniteSet(free)
  <2>1. free \in SUBSET Descs /\ IsFiniteSet(Descs)
    BY Constants DEF QInv, QueueType
  <2>2. IsFiniteSet(free)
    BY <2>1, FS_Subset
  <2>3. QED
    BY <2>1, <2>2, Constants
<1>2. x \in free
  <2>1. free # {}
    BY FS_EmptySet
  <2>2. free \in SUBSET Nat
    BY <1>1
  <2>3. QED
    BY <1>1, <2>1, <2>2, LeastElement
<1> HIDE DEF x
<1>3. /\ IsFiniteSet(free \ {x}) /\ Cardinality(free \ {x}) = Cardinality(free) - 1
      /\ Cardinality(free) \in Nat
  BY <1>1, <1>2, FS_RemoveElement, FS_CardinalityType
<1>4. y \in free \ {x}
  <2>1. free \ {x} # {}
    BY <1>3, FS_EmptySet
  <2>2. free \ {x} \in SUBSET Nat
    BY <1>1
  <2>3. QED
    BY <1>3, <2>1, <2>2, LeastElement
<1> HIDE DEF y
<1>5. IsFiniteSet(free \ {x, y}) /\ Cardinality(free \ {x, y}) = Cardinality(free) - 2
  <2>1. /\ IsFiniteSet((free \ {x}) \ {y})
        /\ Cardinality((free \ {x}) \ {y}) = Cardinality(free \ {x}) - 1
    BY <1>3, <1>4, FS_RemoveElement
  <2>2. (free \ {x}) \ {y} = free \ {x, y}
    OBVIOUS
  <2>3. QED
    BY <1>3, <2>1, <2>2
<1>6. z \in free \ {x, y}
  <2>1. free \ {x, y} # {}
    BY <1>3, <1>5, FS_EmptySet
  <2>2. free \ {x, y} \in SUBSET Nat
    BY <1>1
  <2>3. QED
    BY <1>5, <2>1, <2>2, LeastElement
<1>7. d = <<x, y, z>>
  BY DEF alloc3_desc, alloc_desc, x, y, z
<1> HIDE DEF z
<1>8. QED
  BY <1>1, <1>2, <1>4, <1>6, <1>7

\* virtio_disk_rw(): the chain, ...
LEMMA SubmitChain ==
  ASSUME CInv, QInv, NEW p \in Procs, virtio_disk_rw(p), NEW d, d = alloc3_desc
  PROVE  /\ Active(p)' /\ idx'[p] = d /\ Own(p)' = {d[1], d[2], d[3]} /\ ~Active(p)
         /\ \A q \in Procs : q # p => /\ (Active(q)' <=> Active(q)) /\ Own(q)' = Own(q)
                                      /\ idx'[q] = idx[q] /\ pc'[q] = pc[q]
         /\ \A q \in Procs : Own(q) \cap {d[1], d[2], d[3]} = {}
         /\ ChainInv'
<1>0. /\ pc[p] = "rw" /\ Cardinality(free) >= 3 /\ free' = free \ {d[1], d[2], d[3]}
      /\ desc' = [desc EXCEPT
           ![d[1]] = [addr |-> [write |-> buf[cur[p]].valid, sector |-> buf[cur[p]].blockno], next |-> d[2]],
           ![d[2]] = [addr |-> cur[p], next |-> d[3]],
           ![d[3]] = [addr |-> d[1], next |-> None]]
      /\ idx' = [idx EXCEPT ![p] = d] /\ Goto(p, "io")
  BY DEF virtio_disk_rw
<1>1. /\ d \in Descs \X Descs \X Descs /\ d[1] \in free /\ d[2] \in free /\ d[3] \in free
      /\ d[1] # d[2] /\ d[1] # d[3] /\ d[2] # d[3]
  BY <1>0, Allocated
<1>2. pc'[p] = "io" /\ \A q \in Procs : q # p => pc'[q] = pc[q]
  BY <1>0 DEF CInv, CacheType, Goto
<1>3. idx'[p] = d /\ \A q \in Procs : q # p => idx'[q] = idx[q]
  BY <1>0 DEF QInv, QueueType
<1>4. Active(p)' /\ Own(p)' = {d[1], d[2], d[3]} /\ ~Active(p) /\ Own(p) = {}
  BY <1>0, <1>2, <1>3 DEF Active, Own
<1>5. \A q \in Procs : q # p => (Active(q)' <=> Active(q)) /\ Own(q)' = Own(q)
  BY <1>2, <1>3 DEF Active, Own
<1>6. \A q \in Procs : Own(q) \cap {d[1], d[2], d[3]} = {}
  BY <1>1 DEF QInv, ChainInv, QueueType
<1>7. DOMAIN desc = Descs
  BY DEF QInv, ChainInv
<1>8. /\ DOMAIN desc' = Descs /\ desc'[d[1]].next = d[2] /\ desc'[d[2]].next = d[3]
      /\ \A e \in Descs : e \notin {d[1], d[2], d[3]} => desc'[e] = desc[e]
  <2>1. d[1] \in Descs /\ d[2] \in Descs /\ d[3] \in Descs
    BY <1>1
  <2>2. QED
    BY <1>0, <1>1, <1>7, <2>1
<1>9. ASSUME NEW q \in Procs, Active(q)'
      PROVE  /\ idx'[q] \in Descs \X Descs \X Descs
             /\ idx'[q][1] # idx'[q][2] /\ idx'[q][1] # idx'[q][3] /\ idx'[q][2] # idx'[q][3]
             /\ desc'[idx'[q][1]].next = idx'[q][2] /\ desc'[idx'[q][2]].next = idx'[q][3]
  <2>1. CASE q = p
    BY <1>1, <1>3, <1>8, <2>1
  <2>2. CASE q # p
    <3>1. Active(q) /\ idx'[q] = idx[q]
      BY <1>3, <1>5, <1>9, <2>2
    <3>2. /\ idx[q] \in Descs \X Descs \X Descs
          /\ idx[q][1] # idx[q][2] /\ idx[q][1] # idx[q][3] /\ idx[q][2] # idx[q][3]
          /\ desc[idx[q][1]].next = idx[q][2] /\ desc[idx[q][2]].next = idx[q][3]
      BY <3>1 DEF QInv, ChainInv
    <3>3. Own(q) = {idx[q][1], idx[q][2], idx[q][3]} /\ idx[q][1] \in Descs /\ idx[q][2] \in Descs
      BY <3>1, <3>2 DEF Own
    <3>4. desc'[idx[q][1]] = desc[idx[q][1]] /\ desc'[idx[q][2]] = desc[idx[q][2]]
      BY <1>6, <1>8, <3>3
    <3>5. QED
      BY <3>1, <3>2, <3>4
  <2>3. QED
    BY <2>1, <2>2
<1>10. \A q \in Procs : ~Active(q)' => idx'[q] = <<>>
  BY <1>3, <1>4, <1>5 DEF QInv, ChainInv
<1>11. \A e \in Descs : e \in free' <=> \A q \in Procs : e \notin Own(q)'
  <2>1. \A e \in Descs : e \in free <=> \A q \in Procs : e \notin Own(q)
    BY DEF QInv, ChainInv
  <2>2. QED
    BY <1>0, <1>4, <1>5, <2>1
<1>12. \A q \in Procs, r \in Procs : Own(q)' \cap Own(r)' # {} => q = r
  <2>1. \A q \in Procs, r \in Procs : Own(q) \cap Own(r) # {} => q = r
    BY DEF QInv, ChainInv
  <2>2. QED
    BY <1>4, <1>5, <1>6, <2>1
<1>13. ChainInv'
  BY <1>8, <1>9, <1>10, <1>11, <1>12 DEF ChainInv
<1>14. QED
  BY <1>2, <1>3, <1>4, <1>5, <1>6, <1>13

\* ... and the rings: the head is in the avail ring, where there was room for it.
LEMMA SubmitRings ==
  ASSUME CInv, QInv, NEW p \in Procs, virtio_disk_rw(p), NEW d, d = alloc3_desc
  PROVE  /\ avail' \in Ring /\ Heads(avail, seen)'
         /\ \A h \in Descs : /\ InAvail(h)' <=> (h = d[1] \/ InAvail(h))
                             /\ InUsed(h)' <=> InUsed(h)
         /\ ~InAvail(d[1]) /\ d[1] \notin taken /\ ~InUsed(d[1])
         /\ d \in Descs \X Descs \X Descs
<1>1. /\ d \in Descs \X Descs \X Descs /\ d[1] \in free /\ d[2] \in free /\ d[1] # d[2]
      /\ d[1] \in Descs /\ d[2] \in Descs
  BY Allocated DEF virtio_disk_rw
<1>2. /\ ~InAvail(d[1]) /\ d[1] \notin taken /\ ~InUsed(d[1]) /\ ~InAvail(d[2])
  BY <1>1, HeadOf
<1>3. /\ avail' = [idx |-> Succ(avail.idx), ring |-> [avail.ring EXCEPT ![Pos(avail.idx)] = d[1]]]
      /\ UNCHANGED <<used, used_idx, seen>>
  BY DEF virtio_disk_rw, device, Submit, Succ, Pos
<1>4. avail \in Ring /\ seen \in 0..Counters - 1 /\ Heads(avail, seen)
  BY DEF QInv, QueueType, RingInv
<1>5. /\ avail' \in Ring /\ Heads(avail', seen)
      /\ \A x : In(avail', seen, x) <=> x = d[1] \/ In(avail, seen, x)
  BY <1>1, <1>2, <1>3, <1>4, EnqueueHeads DEF InAvail
<1>6. Heads(avail, seen)' /\ \A h \in Descs : InAvail(h)' <=> (h = d[1] \/ InAvail(h))
  BY <1>3, <1>5 DEF InAvail, In, Heads, Length, Entry
<1>7. \A h \in Descs : InUsed(h)' <=> InUsed(h)
  BY <1>3 DEF InUsed, In, Length, Entry
<1>8. QED
  BY <1>1, <1>2, <1>5, <1>6, <1>7

\* virtio_disk_rw() as a whole: one request more, which nobody else has.
LEMMA SubmitQueue ==
  ASSUME CInv, QInv, NEW p \in Procs, virtio_disk_rw(p)
  PROVE  QInv'
<1> DEFINE b == cur[p]
<1>d. PICK d : d = alloc3_desc
  OBVIOUS
<1>0. /\ UNCHANGED <<cur, used, used_idx, intr, taken, seen, isr, last>>
      /\ pc[p] = "rw" /\ Cardinality(free) >= 3 /\ free' = free \ {d[1], d[2], d[3]}
      /\ buf' = [buf EXCEPT ![b].disk = TRUE]
      /\ info' = [info EXCEPT ![d[1]] = [b |-> b, done |-> FALSE]]
      /\ idx' = [idx EXCEPT ![p] = d] /\ Goto(p, "io")
      /\ desc' = [desc EXCEPT
           ![d[1]] = [addr |-> [write |-> buf[b].valid, sector |-> buf[b].blockno], next |-> d[2]],
           ![d[2]] = [addr |-> b, next |-> d[3]],
           ![d[3]] = [addr |-> d[1], next |-> None]]
  BY <1>d DEF virtio_disk_rw, device
<1>1. /\ Active(p)' /\ idx'[p] = d /\ Own(p)' = {d[1], d[2], d[3]} /\ ~Active(p)
      /\ \A q \in Procs : q # p => /\ (Active(q)' <=> Active(q)) /\ Own(q)' = Own(q)
                                   /\ idx'[q] = idx[q] /\ pc'[q] = pc[q]
      /\ \A q \in Procs : Own(q) \cap {d[1], d[2], d[3]} = {}
      /\ ChainInv'
  BY <1>d, SubmitChain
<1>2. /\ avail' \in Ring /\ Heads(avail, seen)'
      /\ \A h \in Descs : /\ InAvail(h)' <=> (h = d[1] \/ InAvail(h))
                          /\ InUsed(h)' <=> InUsed(h)
      /\ ~InAvail(d[1]) /\ d[1] \notin taken /\ ~InUsed(d[1])
      /\ d \in Descs \X Descs \X Descs
  BY <1>d, SubmitRings
<1>3. d[1] # d[2] /\ d[1] # d[3] /\ d[2] # d[3]
  BY <1>0, <1>d, Allocated
<1>4. d[1] \in Descs /\ d[2] \in Descs /\ d[3] \in Descs /\ b \in Bufs
  BY <1>0, <1>2 DEF CInv, LockInv
<1>5. /\ info'[d[1]] = [b |-> b, done |-> FALSE]
      /\ \A h \in Descs : h # d[1] => info'[h] = info[h]
  BY <1>0, <1>4 DEF QInv, QueueType
<1>6. QueueType'
  <2>1. info' \in [Descs -> [b : Bufs \cup {None}, done : BOOLEAN]]
    BY <1>0, <1>4 DEF QInv, QueueType
  <2>2. idx' \in [Procs -> {<<>>} \cup (Descs \X Descs \X Descs)]
    BY <1>0, <1>2 DEF QInv, QueueType
  <2>3. QED
    BY <1>0, <1>2, <2>1, <2>2 DEF QInv, QueueType
<1>7. pc'[p] = "io"
  BY <1>0 DEF CInv, CacheType, Goto
<1>8. /\ desc'[d[1]].addr = [write |-> buf[b].valid, sector |-> buf[b].blockno]
      /\ desc'[d[2]].addr = b /\ desc'[d[3]].addr = d[1]
      /\ \A e \in Descs : e \notin {d[1], d[2], d[3]} => desc'[e] = desc[e]
  BY <1>0, <1>3, <1>4 DEF QInv, ChainInv
<1>9. \A c \in Bufs : /\ buf'[c].blockno = buf[c].blockno /\ buf'[c].valid = buf[c].valid
                      /\ buf'[c].data = buf[c].data
  BY <1>0 DEF CInv, CacheType, Buffer
<1>10. RequestInv'
  <2>1. ASSUME NEW q \in Procs, Active(q)'
        PROVE  /\ desc'[idx'[q][1]].addr = [write |-> buf'[cur'[q]].valid, sector |-> buf'[cur'[q]].blockno]
               /\ desc'[idx'[q][2]].addr = cur'[q] /\ desc'[idx'[q][3]].addr = idx'[q][1]
               /\ info'[idx'[q][1]].b = cur'[q]
               /\ info'[idx'[q][1]].done => buf'[cur'[q]].data = last'[buf'[cur'[q]].blockno]
               /\ pc'[q] = "io_done" => info'[idx'[q][1]].done
    <3>1. CASE q = p
      <4>1. idx'[q] = d /\ cur'[q] = b /\ pc'[q] = "io"
        BY <1>0, <1>1, <1>7, <3>1
      <4>2. info'[d[1]].b = b /\ info'[d[1]].done = FALSE
        BY <1>5
      <4>3. buf'[b].blockno = buf[b].blockno /\ buf'[b].valid = buf[b].valid
        BY <1>4, <1>9
      <4>4. QED
        BY <1>8, <4>1, <4>2, <4>3
    <3>2. CASE q # p
      <4>1. Active(q) /\ idx'[q] = idx[q] /\ pc'[q] = pc[q] /\ cur'[q] = cur[q]
        BY <1>0, <1>1, <2>1, <3>2
      <4>2. /\ idx[q][1] \in Descs /\ idx[q][2] \in Descs /\ idx[q][3] \in Descs
            /\ Own(q) = {idx[q][1], idx[q][2], idx[q][3]} /\ cur[q] \in Bufs
            /\ desc[idx[q][1]].addr = [write |-> buf[cur[q]].valid, sector |-> buf[cur[q]].blockno]
            /\ desc[idx[q][2]].addr = cur[q] /\ desc[idx[q][3]].addr = idx[q][1]
            /\ info[idx[q][1]].b = cur[q]
            /\ info[idx[q][1]].done => buf[cur[q]].data = last[buf[cur[q]].blockno]
            /\ pc[q] = "io_done" => info[idx[q][1]].done
        BY <4>1, Request DEF QInv
      <4>3. idx[q][1] \notin {d[1], d[2], d[3]} /\ idx[q][2] \notin {d[1], d[2], d[3]}
            /\ idx[q][3] \notin {d[1], d[2], d[3]}
        BY <1>1, <4>2
      <4>4. /\ desc'[idx[q][1]] = desc[idx[q][1]] /\ desc'[idx[q][2]] = desc[idx[q][2]]
            /\ desc'[idx[q][3]] = desc[idx[q][3]] /\ info'[idx[q][1]] = info[idx[q][1]]
        BY <1>5, <1>8, <4>2, <4>3
      <4>5. QED
        BY <1>0, <1>9, <4>1, <4>2, <4>4
    <3>3. QED
      BY <3>1, <3>2
  <2>2. QED
    BY <2>1 DEF RequestInv
<1>11. RingInv'
  <2>1. Heads(used, used_idx)'
    BY <1>0 DEF QInv, RingInv, Heads, Length, Entry
  <2>2. ASSUME NEW h \in Descs
        PROVE  (InAvail(h)' \/ h \in taken' \/ InUsed(h)')
                 <=> \E q \in Procs : pc'[q] = "io" /\ idx'[q][1] = h
    <3>1. (InAvail(h) \/ h \in taken \/ InUsed(h)) <=> \E q \in Procs : pc[q] = "io" /\ idx[q][1] = h
      BY DEF QInv, RingInv
    <3>2. pc[p] # "io" /\ pc'[p] = "io" /\ idx'[p][1] = d[1]
      BY <1>0, <1>1, <1>7
    <3>3. QED
      BY <1>0, <1>1, <1>2, <3>1, <3>2
  <2>3. \A h \in Descs : /\ ~(InAvail(h)' /\ h \in taken') /\ ~(InAvail(h)' /\ InUsed(h)')
                         /\ ~(h \in taken' /\ InUsed(h)')
                         /\ InUsed(h)' => info'[h].done
    BY <1>0, <1>2, <1>5 DEF QInv, RingInv
  <2>4. QED
    BY <1>2, <2>1, <2>2, <2>3 DEF RingInv
<1>12. WakeInv'
  <2>1. \A q \in Procs : pc[q] # "rw_asleep"
    <3>1. Cardinality(free) \in Nat
      <4>1. free \in SUBSET Descs /\ IsFiniteSet(Descs)
        BY Constants DEF QInv, QueueType
      <4>2. QED
        BY <4>1, FS_Subset, FS_CardinalityType
    <3>2. QED
      BY <1>0, <3>1 DEF QInv, WakeInv
  <2>2. \A q \in Procs : pc'[q] # "rw_asleep"
    BY <1>1, <1>7, <2>1
  <2>3. used_idx' # used'.idx => isr' \/ intr'
    BY <1>0 DEF QInv, WakeInv
  <2>4. QED
    BY <2>2, <2>3 DEF WakeInv
<1>13. QED
  BY <1>1, <1>6, <1>10, <1>11, <1>12 DEF QInv

\* rw_end(): the chain of the request is freed, and no other.
LEMMA EndQueue ==
  ASSUME CInv, QInv, NEW p \in Procs, rw_end(p)
  PROVE  QInv'
<1>h. PICK h : h = idx[p][1]
  OBVIOUS
<1>0. /\ UNCHANGED <<cur, avail, used, used_idx, intr, taken, seen, isr, last>> /\ pc[p] = "io_done"
      /\ info' = [info EXCEPT ![h].b = None] /\ free' = free \cup free_chain(h)
      /\ desc' = [e \in Descs |-> IF e \in free_chain(h) THEN FreeDesc ELSE desc[e]]
      /\ idx' = [idx EXCEPT ![p] = <<>>] /\ buf' = [buf EXCEPT ![cur[p]].valid = TRUE]
      /\ WakeAllocators(p, "held")
  BY <1>h DEF rw_end, device
<1>1. /\ Active(p) /\ h \in Descs /\ free_chain(h) = Own(p) /\ Own(p) \subseteq Descs /\ h \in Own(p)
      /\ cur[p] \in Bufs
  <2>1. Active(p)
    BY <1>0 DEF Active
  <2>2. /\ Chain(h) = <<idx[p][1], idx[p][2], idx[p][3]>> /\ Own(p) = {idx[p][1], idx[p][2], idx[p][3]}
        /\ idx[p][1] \in Descs /\ idx[p][2] \in Descs /\ idx[p][3] \in Descs /\ cur[p] \in Bufs
    BY <1>h, <2>1, Request DEF QInv
  <2>3. QED
    BY <1>h, <2>1, <2>2 DEF free_chain
<1>2. /\ pc'[p] = "held" /\ idx'[p] = <<>>
      /\ \A q \in Procs : q # p => /\ pc'[q] = (IF pc[q] = "rw_asleep" THEN "rw" ELSE pc[q])
                                   /\ idx'[q] = idx[q] /\ cur'[q] = cur[q]
  BY <1>0 DEF WakeAllocators, QInv, QueueType
<1>3. /\ ~Active(p)' /\ Own(p)' = {}
      /\ \A q \in Procs : q # p => (Active(q)' <=> Active(q)) /\ Own(q)' = Own(q)
  BY <1>2 DEF Active, Own
<1>4. QueueType'
  <2>1. info' \in [Descs -> [b : Bufs \cup {None}, done : BOOLEAN]]
    <3>1. [info[h] EXCEPT !.b = None] \in [b : Bufs \cup {None}, done : BOOLEAN]
      BY <1>1 DEF QInv, QueueType
    <3>2. QED
      BY <1>0, <3>1 DEF QInv, QueueType
  <2>2. idx' \in [Procs -> {<<>>} \cup (Descs \X Descs \X Descs)]
    BY <1>0 DEF QInv, QueueType
  <2>3. QED
    BY <1>0, <1>1, <2>1, <2>2 DEF QInv, QueueType
<1>5. ASSUME NEW q \in Procs, Active(q), q # p
      PROVE  /\ desc'[idx[q][1]] = desc[idx[q][1]] /\ desc'[idx[q][2]] = desc[idx[q][2]]
             /\ desc'[idx[q][3]] = desc[idx[q][3]] /\ info'[idx[q][1]] = info[idx[q][1]]
             /\ cur[q] # cur[p] /\ cur[q] \in Bufs
  <2>1. /\ idx[q][1] \in Descs /\ idx[q][2] \in Descs /\ idx[q][3] \in Descs
        /\ Own(q) = {idx[q][1], idx[q][2], idx[q][3]} /\ cur[q] \in Bufs
    BY <1>5, Request DEF QInv
  <2>2. Own(p) \cap Own(q) = {} /\ cur[p] # cur[q]
    BY <1>1, <1>5, Requesters
  <2>3. QED
    BY <1>0, <1>1, <2>1, <2>2 DEF QInv, QueueType
<1>6. ChainInv'
  <2>1. DOMAIN desc' = Descs
    BY <1>0
  <2>2. ASSUME NEW q \in Procs, Active(q)'
        PROVE  /\ idx'[q] \in Descs \X Descs \X Descs
               /\ idx'[q][1] # idx'[q][2] /\ idx'[q][1] # idx'[q][3] /\ idx'[q][2] # idx'[q][3]
               /\ desc'[idx'[q][1]].next = idx'[q][2] /\ desc'[idx'[q][2]].next = idx'[q][3]
    <3>1. q # p /\ Active(q) /\ idx'[q] = idx[q]
      BY <1>2, <1>3, <2>2
    <3>2. /\ idx[q] \in Descs \X Descs \X Descs
          /\ idx[q][1] # idx[q][2] /\ idx[q][1] # idx[q][3] /\ idx[q][2] # idx[q][3]
          /\ desc[idx[q][1]].next = idx[q][2] /\ desc[idx[q][2]].next = idx[q][3]
      BY <3>1 DEF QInv, ChainInv
    <3>3. QED
      BY <1>5, <3>1, <3>2
  <2>3. \A q \in Procs : ~Active(q)' => idx'[q] = <<>>
    BY <1>2, <1>3 DEF QInv, ChainInv
  <2>4. \A e \in Descs : e \in free' <=> \A q \in Procs : e \notin Own(q)'
    <3>1. \A e \in Descs : e \in free <=> \A q \in Procs : e \notin Own(q)
      BY DEF QInv, ChainInv
    <3>2. \A q \in Procs : q # p => Own(p) \cap Own(q) = {}
      BY DEF QInv, ChainInv
    <3>3. QED
      BY <1>0, <1>1, <1>3, <3>1, <3>2
  <2>5. \A q \in Procs, r \in Procs : Own(q)' \cap Own(r)' # {} => q = r
    <3>1. \A q \in Procs, r \in Procs : Own(q) \cap Own(r) # {} => q = r
      BY DEF QInv, ChainInv
    <3>2. QED
      BY <1>3, <3>1
  <2>6. QED
    BY <2>1, <2>2, <2>3, <2>4, <2>5 DEF ChainInv
<1>7. RequestInv'
  <2>1. ASSUME NEW q \in Procs, Active(q)'
        PROVE  /\ desc'[idx'[q][1]].addr = [write |-> buf'[cur'[q]].valid, sector |-> buf'[cur'[q]].blockno]
               /\ desc'[idx'[q][2]].addr = cur'[q] /\ desc'[idx'[q][3]].addr = idx'[q][1]
               /\ info'[idx'[q][1]].b = cur'[q]
               /\ info'[idx'[q][1]].done => buf'[cur'[q]].data = last'[buf'[cur'[q]].blockno]
               /\ pc'[q] = "io_done" => info'[idx'[q][1]].done
    <3>1. q # p /\ Active(q) /\ idx'[q] = idx[q] /\ cur'[q] = cur[q] /\ pc'[q] = pc[q]
      BY <1>2, <1>3, <2>1 DEF Active
    <3>2. /\ desc[idx[q][1]].addr = [write |-> buf[cur[q]].valid, sector |-> buf[cur[q]].blockno]
          /\ desc[idx[q][2]].addr = cur[q] /\ desc[idx[q][3]].addr = idx[q][1]
          /\ info[idx[q][1]].b = cur[q]
          /\ info[idx[q][1]].done => buf[cur[q]].data = last[buf[cur[q]].blockno]
          /\ pc[q] = "io_done" => info[idx[q][1]].done
      BY <3>1, Request DEF QInv
    <3>3. buf'[cur[q]] = buf[cur[q]]
      BY <1>0, <1>5, <3>1 DEF CInv, CacheType
    <3>4. /\ desc'[idx[q][1]] = desc[idx[q][1]] /\ desc'[idx[q][2]] = desc[idx[q][2]]
          /\ desc'[idx[q][3]] = desc[idx[q][3]] /\ info'[idx[q][1]] = info[idx[q][1]]
          /\ last' = last
      BY <1>0, <1>5, <3>1
    <3>5. QED
      BY <3>1, <3>2, <3>3, <3>4
  <2>2. QED
    BY <2>1 DEF RequestInv
<1>8. RingInv'
  <2>1. /\ Heads(avail, seen)' = Heads(avail, seen) /\ Heads(used, used_idx)' = Heads(used, used_idx)
        /\ \A x \in Descs : (InAvail(x)' <=> InAvail(x)) /\ (InUsed(x)' <=> InUsed(x))
    BY <1>0 DEF Heads, In, InAvail, InUsed, Entry, Length
  <2>2. \A q \in Procs : pc'[q] = "io" <=> pc[q] = "io"
    BY <1>0, <1>2
  <2>3. \A x \in Descs : (InAvail(x)' \/ x \in taken' \/ InUsed(x)')
                           <=> \E q \in Procs : pc'[q] = "io" /\ idx'[q][1] = x
    BY <1>0, <1>2, <2>1, <2>2 DEF QInv, RingInv
  <2>4. \A x \in Descs : info'[x].done = info[x].done
    BY <1>0, <1>1 DEF QInv, QueueType
  <2>5. \A x \in Descs : /\ ~(InAvail(x)' /\ x \in taken') /\ ~(InAvail(x)' /\ InUsed(x)')
                         /\ ~(x \in taken' /\ InUsed(x)')
                         /\ InUsed(x)' => info'[x].done
    BY <1>0, <2>1, <2>4 DEF QInv, RingInv
  <2>6. QED
    BY <2>1, <2>3, <2>5 DEF QInv, RingInv
<1>9. WakeInv'
  BY <1>0, <1>2 DEF QInv, WakeInv
<1>10. QED
  BY <1>4, <1>6, <1>7, <1>8, <1>9 DEF QInv

\* intr_ack() and intr_end(): there is a handler as long as there is a completion.
LEMMA IntrQueue ==
  ASSUME CInv, QInv, intr_ack \/ intr_end
  PROVE  QInv'
<1>1. /\ UNCHANGED <<idx, free, desc, info, avail, used, used_idx, taken, seen, buf, pc, cur, last>>
      /\ isr' \in BOOLEAN /\ intr' \in BOOLEAN /\ (used_idx # used.idx => isr' \/ intr')
  BY DEF intr_ack, intr_end, cache, device, QInv, QueueType
<1>2. QED
  BY <1>1, QueueKept

\* intr_used(): the first completion is that of a request, whose process wakes up.
LEMMA UsedQueue ==
  ASSUME CInv, QInv, intr_used
  PROVE  QInv'
<1>h. PICK h : h = used.ring[Pos(used_idx)]
  OBVIOUS
<1>0. /\ UNCHANGED <<cur, idx, free, desc, info, avail, taken, seen, intr, isr, last>>
      /\ intr /\ used_idx # used.idx /\ info[h].done
      /\ buf' = [buf EXCEPT ![info[h].b].disk = FALSE]
      /\ pc' = [q \in Procs |-> IF pc[q] = "io" /\ cur[q] = info[h].b THEN "io_done" ELSE pc[q]]
      /\ used_idx' = Succ(used_idx) /\ used' = [used EXCEPT !.ring[Pos(used_idx)] = None]
  BY <1>h DEF intr_used, device, Succ, Pos
<1>1. /\ used' \in Ring /\ used_idx' \in 0..Counters - 1 /\ Heads(used', used_idx')
      /\ h \in Descs /\ In(used, used_idx, h)
      /\ \A x : In(used', used_idx', x) <=> x # h /\ In(used, used_idx, x)
  <2>1. used \in Ring /\ used_idx \in 0..Counters - 1 /\ Heads(used, used_idx)
    BY DEF QInv, QueueType, RingInv
  <2>2. QED
    BY <1>h, <1>0, <2>1, DequeueHeads
<1>2. PICK p \in Procs : pc[p] = "io" /\ Active(p) /\ idx[p][1] = h
  BY <1>1, HeadOf DEF InUsed
<1>3. info[h].b = cur[p] /\ cur[p] \in Bufs /\ buf[cur[p]].lock = p
  BY <1>2, Request DEF QInv
<1>4. /\ pc'[p] = "io_done"
      /\ \A q \in Procs : q # p => pc'[q] = pc[q]
  <2>1. ASSUME NEW q \in Procs, q # p, pc[q] = "io", cur[q] = cur[p]
        PROVE  FALSE
    BY <1>2, <2>1, Requesters DEF Active
  <2>2. QED
    BY <1>0, <1>2, <1>3, <2>1
<1>5. \A q \in Procs : (Active(q)' <=> Active(q)) /\ Own(q)' = Own(q)
  BY <1>0, <1>2, <1>4 DEF Active, Own
<1>6. QueueType'
  BY <1>0, <1>1 DEF QInv, QueueType
<1>7. ChainInv'
  BY <1>0, <1>5 DEF QInv, ChainInv
<1>8. RequestInv'
  <2>1. \A c \in Bufs : /\ buf'[c].blockno = buf[c].blockno /\ buf'[c].valid = buf[c].valid
                        /\ buf'[c].data = buf[c].data
    BY <1>0 DEF CInv, CacheType, Buffer
  <2>2. \A q \in Procs : Active(q) => cur[q] \in Bufs
    BY Request DEF QInv
  <2>3. \A q \in Procs : pc'[q] = "io_done" => pc[q] = "io_done" \/ idx[q][1] = h
    BY <1>2, <1>4
  <2>4. QED
    BY <1>0, <1>5, <2>1, <2>2, <2>3 DEF QInv, RequestInv
<1>9. RingInv'
  <2>1. /\ Heads(avail, seen)' /\ \A x \in Descs : InAvail(x)' <=> InAvail(x)
    BY <1>0 DEF Heads, In, InAvail, Entry, Length, QInv, RingInv
  <2>2. /\ Heads(used, used_idx)' /\ \A x \in Descs : InUsed(x)' <=> (x # h /\ InUsed(x))
    BY <1>1 DEF Heads, In, InUsed, Entry, Length
  <2>3. ~InAvail(h) /\ h \notin taken /\ InUsed(h)
    BY <1>1 DEF QInv, RingInv, InUsed
  <2>4. \A q \in Procs : q # p /\ pc[q] = "io" => idx[q][1] # h
    BY <1>2, Requesters DEF Active
  <2>5. ASSUME NEW x \in Descs
        PROVE  (InAvail(x)' \/ x \in taken' \/ InUsed(x)')
                 <=> \E q \in Procs : pc'[q] = "io" /\ idx'[q][1] = x
    <3>1. (InAvail(x) \/ x \in taken \/ InUsed(x)) <=> \E q \in Procs : pc[q] = "io" /\ idx[q][1] = x
      BY DEF QInv, RingInv
    <3>2. (InAvail(x)' \/ x \in taken' \/ InUsed(x)') <=> x # h /\ (InAvail(x) \/ x \in taken \/ InUsed(x))
      BY <1>0, <2>1, <2>2, <2>3
    <3>3. (\E q \in Procs : pc'[q] = "io" /\ idx'[q][1] = x)
            <=> x # h /\ (\E q \in Procs : pc[q] = "io" /\ idx[q][1] = x)
      BY <1>0, <1>2, <1>4, <2>4
    <3>4. QED
      BY <3>1, <3>2, <3>3
  <2>6. \A x \in Descs : /\ ~(InAvail(x)' /\ x \in taken') /\ ~(InAvail(x)' /\ InUsed(x)')
                         /\ ~(x \in taken' /\ InUsed(x)')
                         /\ InUsed(x)' => info'[x].done
    BY <1>0, <2>1, <2>2 DEF QInv, RingInv
  <2>7. QED
    BY <2>1, <2>2, <2>5, <2>6 DEF RingInv
<1>10. WakeInv'
  BY <1>0, <1>4 DEF QInv, WakeInv
<1>11. QED
  BY <1>6, <1>7, <1>8, <1>9, <1>10 DEF QInv

\* dev_take(): the first request of the avail ring is with the device now.
LEMMA TakeQueue ==
  ASSUME CInv, QInv, dev_take
  PROVE  QInv'
<1>h. PICK h : h = avail.ring[Pos(seen)]
  OBVIOUS
<1>0. /\ UNCHANGED <<buf, pc, cur, idx, free, desc, info, used, used_idx, intr, isr, last>>
      /\ seen # avail.idx /\ taken' = taken \cup {h}
      /\ seen' = Succ(seen) /\ avail' = [avail EXCEPT !.ring[Pos(seen)] = None]
  BY <1>h DEF dev_take, cache, Succ, Pos
<1>1. /\ avail' \in Ring /\ seen' \in 0..Counters - 1 /\ Heads(avail', seen')
      /\ h \in Descs /\ In(avail, seen, h)
      /\ \A x : In(avail', seen', x) <=> x # h /\ In(avail, seen, x)
  <2>1. avail \in Ring /\ seen \in 0..Counters - 1 /\ Heads(avail, seen)
    BY DEF QInv, QueueType, RingInv
  <2>2. QED
    BY <1>h, <1>0, <2>1, DequeueHeads
<1>2. \A q \in Procs : (Active(q)' <=> Active(q)) /\ Own(q)' = Own(q)
  BY <1>0 DEF Active, Own
<1>3. QueueType'
  BY <1>0, <1>1 DEF QInv, QueueType
<1>4. ChainInv'
  BY <1>0, <1>2 DEF QInv, ChainInv
<1>5. RequestInv'
  BY <1>0, <1>2 DEF QInv, RequestInv
<1>6. RingInv'
  <2>1. /\ Heads(used, used_idx)' /\ \A x \in Descs : InUsed(x)' <=> InUsed(x)
    BY <1>0 DEF Heads, In, InUsed, Entry, Length, QInv, RingInv
  <2>2. /\ Heads(avail, seen)' /\ \A x \in Descs : InAvail(x)' <=> (x # h /\ InAvail(x))
    BY <1>1 DEF Heads, In, InAvail, Entry, Length
  <2>3. InAvail(h) /\ h \notin taken /\ ~InUsed(h)
    BY <1>1 DEF QInv, RingInv, InAvail
  <2>4. \A x \in Descs : (InAvail(x)' \/ x \in taken' \/ InUsed(x)')
                           <=> \E q \in Procs : pc'[q] = "io" /\ idx'[q][1] = x
    BY <1>0, <2>1, <2>2, <2>3 DEF QInv, RingInv
  <2>5. \A x \in Descs : /\ ~(InAvail(x)' /\ x \in taken') /\ ~(InAvail(x)' /\ InUsed(x)')
                         /\ ~(x \in taken' /\ InUsed(x)')
                         /\ InUsed(x)' => info'[x].done
    BY <1>0, <2>1, <2>2, <2>3 DEF QInv, RingInv
  <2>6. QED
    BY <2>1, <2>2, <2>4, <2>5 DEF RingInv
<1>7. WakeInv'
  BY <1>0 DEF QInv, WakeInv
<1>8. QED
  BY <1>3, <1>4, <1>5, <1>6, <1>7 DEF QInv

\* dev_complete(): the request moves on to the used ring, where there is room for it.
LEMMA CompleteQueue ==
  ASSUME CInv, QInv, NEW p \in Procs, pc[p] = "io", NEW h \in Descs, h = idx[p][1], dev_complete(h)
  PROVE  QInv'
<1> DEFINE b == cur[p]
           k == buf[b].blockno
<1>0. /\ UNCHANGED <<pc, cur, idx, free, desc, avail, used_idx, intr, seen, last>>
      /\ h \in taken /\ taken' = taken \ {h} /\ isr' = TRUE
      /\ used' = [idx |-> Succ(used.idx), ring |-> [used.ring EXCEPT ![Pos(used.idx)] = h]]
  BY DEF dev_complete, Succ, Pos
<1>1. /\ Active(p) /\ idx[p][2] \in Descs /\ h # idx[p][2] /\ b \in Bufs /\ k \in Blocks
  <2>1. Active(p)
    BY DEF Active
  <2>2. QED
    BY <2>1, Request DEF QInv
<1>2. /\ info' = [info EXCEPT ![h].done = TRUE]
      /\ buf[b].valid => buf' = buf
      /\ ~buf[b].valid => buf' = [buf EXCEPT ![b].data = last[k]]
      /\ buf'[b].data = last[k]
  BY <1>1, Transferred DEF QInv
<1>3. /\ used' \in Ring /\ Heads(used', used_idx)
      /\ \A x : In(used', used_idx, x) <=> x = h \/ In(used, used_idx, x)
  <2>1. used \in Ring /\ used_idx \in 0..Counters - 1 /\ Heads(used, used_idx)
    BY DEF QInv, QueueType, RingInv
  <2>2. ~InUsed(h)
    BY <1>0 DEF QInv, RingInv
  <2>3. ~InUsed(idx[p][2])
    <3>1. ASSUME InUsed(idx[p][2])
          PROVE  FALSE
      <4>1. PICK q \in Procs : Active(q) /\ idx[q][1] = idx[p][2]
        BY <1>1, <3>1, HeadOf
      <4>2. QED
        BY <1>1, <4>1, Requesters
    <3>2. QED
      BY <3>1
  <2>4. QED
    BY <1>0, <1>1, <2>1, <2>2, <2>3, EnqueueHeads DEF InUsed
<1>4. \A q \in Procs : (Active(q)' <=> Active(q)) /\ Own(q)' = Own(q)
  BY <1>0 DEF Active, Own
<1>5. info' \in [Descs -> [b : Bufs \cup {None}, done : BOOLEAN]]
  <2>1. [info[h] EXCEPT !.done = TRUE] \in [b : Bufs \cup {None}, done : BOOLEAN]
    BY DEF QInv, QueueType
  <2>2. QED
    BY <1>2, <2>1 DEF QInv, QueueType
<1>6. \A x \in Descs : /\ info'[x].b = info[x].b
                       /\ info'[x].done = (x = h \/ info[x].done)
  BY <1>2 DEF QInv, QueueType
<1>7. QueueType'
  BY <1>0, <1>3, <1>5 DEF QInv, QueueType
<1>8. ChainInv'
  BY <1>0, <1>4 DEF QInv, ChainInv
<1>9. RequestInv'
  <2>1. \A c \in Bufs : /\ buf'[c].blockno = buf[c].blockno /\ buf'[c].valid = buf[c].valid
                        /\ c # b => buf'[c].data = buf[c].data
    <3>1. CASE buf[b].valid
      BY <1>2, <3>1
    <3>2. CASE ~buf[b].valid
      <4>1. PICK v : buf' = [buf EXCEPT ![b].data = v]
        BY <1>2, <3>2
      <4>2. buf \in [Bufs -> Buffer]
        BY DEF CInv, CacheType
      <4> HIDE DEF b
      <4>3. QED
        BY <4>1, <4>2 DEF Buffer
    <3>3. QED
      BY <3>1, <3>2
  <2>2. ASSUME NEW q \in Procs, Active(q)'
        PROVE  /\ desc'[idx'[q][1]].addr = [write |-> buf'[cur'[q]].valid, sector |-> buf'[cur'[q]].blockno]
               /\ desc'[idx'[q][2]].addr = cur'[q] /\ desc'[idx'[q][3]].addr = idx'[q][1]
               /\ info'[idx'[q][1]].b = cur'[q]
               /\ info'[idx'[q][1]].done => buf'[cur'[q]].data = last'[buf'[cur'[q]].blockno]
               /\ pc'[q] = "io_done" => info'[idx'[q][1]].done
    <3>1. Active(q)
      BY <1>4, <2>2
    <3>2. /\ idx[q][1] \in Descs /\ cur[q] \in Bufs
          /\ desc[idx[q][1]].addr = [write |-> buf[cur[q]].valid, sector |-> buf[cur[q]].blockno]
          /\ desc[idx[q][2]].addr = cur[q] /\ desc[idx[q][3]].addr = idx[q][1]
          /\ info[idx[q][1]].b = cur[q]
          /\ info[idx[q][1]].done => buf[cur[q]].data = last[buf[cur[q]].blockno]
          /\ pc[q] = "io_done" => info[idx[q][1]].done
      BY <3>1, Request DEF QInv
    <3>3. q # p => cur[q] # b /\ idx[q][1] # h
      BY <1>1, <3>1, Requesters
    <3>4. /\ buf'[cur[q]].blockno = buf[cur[q]].blockno /\ buf'[cur[q]].valid = buf[cur[q]].valid
          /\ info'[idx[q][1]].b = info[idx[q][1]].b
          /\ info[idx[q][1]].done => info'[idx[q][1]].done
      BY <1>6, <2>1, <3>2
    <3>5. info'[idx[q][1]].done => buf'[cur[q]].data = last[buf[cur[q]].blockno]
      BY <1>2, <1>6, <2>1, <3>2, <3>3
    <3>6. cur'[q] = cur[q] /\ idx'[q] = idx[q] /\ pc'[q] = pc[q] /\ desc' = desc /\ last' = last
      BY <1>0
    <3>7. QED
      BY <3>2, <3>4, <3>5, <3>6
  <2>3. QED
    BY <2>2 DEF RequestInv
<1>10. RingInv'
  <2>1. /\ Heads(avail, seen)' /\ \A x \in Descs : InAvail(x)' <=> InAvail(x)
    BY <1>0 DEF Heads, In, InAvail, Entry, Length, QInv, RingInv
  <2>2. /\ Heads(used, used_idx)' /\ \A x \in Descs : InUsed(x)' <=> (x = h \/ InUsed(x))
    BY <1>0, <1>3 DEF Heads, In, InUsed, Entry, Length
  <2>3. ~InAvail(h) /\ h \in taken /\ ~InUsed(h)
    BY <1>0 DEF QInv, RingInv
  <2>4. \A x \in Descs : (InAvail(x)' \/ x \in taken' \/ InUsed(x)')
                           <=> \E q \in Procs : pc'[q] = "io" /\ idx'[q][1] = x
    BY <1>0, <2>1, <2>2, <2>3 DEF QInv, RingInv
  <2>5. \A x \in Descs : /\ ~(InAvail(x)' /\ x \in taken') /\ ~(InAvail(x)' /\ InUsed(x)')
                         /\ ~(x \in taken' /\ InUsed(x)')
                         /\ InUsed(x)' => info'[x].done
    <3>1. \A x \in Descs : /\ ~(InAvail(x) /\ x \in taken) /\ ~(InAvail(x) /\ InUsed(x))
                           /\ ~(x \in taken /\ InUsed(x))
                           /\ InUsed(x) => info[x].done
      BY DEF QInv, RingInv
    <3>2. QED
      BY <1>0, <1>6, <2>1, <2>2, <2>3, <3>1
  <2>6. QED
    BY <2>1, <2>2, <2>4, <2>5 DEF RingInv
<1>11. WakeInv'
  BY <1>0 DEF QInv, WakeInv
<1>12. QED
  BY <1>7, <1>8, <1>9, <1>10, <1>11 DEF QInv

-----------------------------------------------------------------------------
(* The invariant is one.                                                   *)

\* The two halves of the invariant.
LEMMA Parts == IInv <=> CInv /\ QInv
BY Types DEF IInv, CInv, QInv

\* After binit() and virtio_disk_init() there is nothing anywhere.
LEMMA InitInv == Init => IInv
<1> SUFFICES ASSUME Init PROVE CInv /\ QInv
  BY Parts
<1>0. /\ buf = [b \in Bufs |-> [blockno |-> None, valid |-> FALSE, disk |-> FALSE, refcnt |-> 0,
                                data |-> 0, lock |-> None]]
      /\ lru = [k \in 1..NBUF |-> NBUF + 1 - k] /\ pinned = {}
      /\ platter = [k \in Blocks |-> 0] /\ taken = {} /\ seen = First /\ isr = FALSE
      /\ pc = [p \in Procs |-> "idle"] /\ cur = [p \in Procs |-> None] /\ idx = [p \in Procs |-> <<>>]
      /\ last = [k \in Blocks |-> 0] /\ calls = 0
      /\ free = Descs /\ desc = [d \in Descs |-> FreeDesc]
      /\ info = [d \in Descs |-> [b |-> None, done |-> TRUE]]
      /\ avail = [idx |-> First, ring |-> [d \in Descs |-> None]] /\ used = avail
      /\ used_idx = First /\ intr = FALSE
  BY DEF Init, binit, virtio_disk_init, idle_device
<1>1. CacheType
  <2>1. buf \in [Bufs -> Buffer]
    BY <1>0 DEF Buffer, Bit
  <2>2. lru \in [1..NBUF -> Bufs]
    BY <1>0, Constants
  <2>3. calls \in 0..MaxCalls
    BY <1>0, Constants
  <2>4. QED
    BY <1>0, <2>1, <2>2, <2>3 DEF CacheType, Bit
<1>2. LockInv
  BY <1>0, Constants DEF LockInv, Locked
<1>3. RefInv
  <2>1. \A b \in Bufs : Users(b) = {} /\ Pins(b) = 0
    BY <1>0, Constants DEF Users, Pins
  <2>2. Cardinality({}) = 0
    BY FS_EmptySet
  <2>3. \A b \in Bufs : buf[b].refcnt = 0 /\ Cardinality(Users(b)) + Pins(b) = 0
    <3>1. \A b \in Bufs : buf[b].refcnt = 0
      BY <1>0
    <3>2. \A b \in Bufs : Cardinality(Users(b)) = 0 /\ Pins(b) = 0
      BY <2>1, <2>2
    <3>3. QED
      BY <3>1, <3>2
  <2>4. QED
    BY <2>3 DEF RefInv
<1>4. CacheInv /\ DataInv
  BY <1>0, Constants DEF CacheInv, DataInv
<1>5. QueueType
  BY <1>0, Constants DEF QueueType, Ring
<1>6. \A p \in Procs : ~Active(p) /\ Own(p) = {}
  BY <1>0 DEF Active, Own
<1>7. ChainInv
  BY <1>0, <1>6 DEF ChainInv
<1>8. RequestInv
  BY <1>6 DEF RequestInv
<1>9. RingInv
  <2>1. Length(avail, seen) = 0 /\ Length(used, used_idx) = 0
    BY <1>0, Advance, Constants DEF Length
  <2>2. Heads(avail, seen) /\ Heads(used, used_idx)
    BY <2>1, Constants DEF Heads
  <2>3. \A h \in Descs : ~InAvail(h) /\ ~InUsed(h)
    BY <2>1 DEF In, InAvail, InUsed
  <2>4. QED
    BY <1>0, <2>2, <2>3 DEF RingInv
<1>10. WakeInv
  BY <1>0 DEF WakeInv
<1>11. QED
  BY <1>1, <1>2, <1>3, <1>4, <1>5, <1>7, <1>8, <1>9, <1>10 DEF CInv, QInv

\* Every step keeps it.
LEMMA NextInv == IInv /\ [Next]_vars => IInv'
<1>p. IInv' <=> CInv' /\ QInv'
  BY Parts, PTL
<1> SUFFICES ASSUME CInv, QInv, [Next]_vars PROVE CInv' /\ QInv'
  BY <1>p, Parts
<1>0. QueueType /\ ChainInv /\ RequestInv
  BY DEF QInv
<1>1. ASSUME NEW p \in Procs, NEW k \in Blocks, bget(p, k)
      PROVE  CInv' /\ QInv'
  BY <1>1, BgetCache, BgetQueue
<1>2. ASSUME NEW p \in Procs, change(p)
      PROVE  CInv' /\ QInv'
  BY <1>2, ChangeCache, ChangeQueue
<1>3. ASSUME NEW p \in Procs, bpin(p)
      PROVE  CInv' /\ QInv'
  BY <1>3, PinCache, PinQueue
<1>4. ASSUME NEW p \in Procs, bunpin(p)
      PROVE  CInv' /\ QInv'
  BY <1>4, UnpinCache, PinQueue
<1>5. ASSUME NEW p \in Procs, acquiresleep(p)
      PROVE  CInv' /\ QInv'
  BY <1>5, AcquireCache, AcquireQueue
<1>6. ASSUME NEW p \in Procs, bwrite(p)
      PROVE  CInv' /\ QInv'
  BY <1>6, WriteCache, WriteQueue
<1>7. ASSUME NEW p \in Procs, releasesleep(p)
      PROVE  CInv' /\ QInv'
  BY <1>7, ReleaseCache, ReleaseQueue
<1>8. ASSUME NEW p \in Procs, brelse(p)
      PROVE  CInv' /\ QInv'
  BY <1>8, BrelseCache, BrelseQueue
<1>9. ASSUME NEW p \in Procs, alloc3_fail(p)
      PROVE  CInv' /\ QInv'
  BY <1>9, AllocCache, AllocQueue
<1>10. ASSUME NEW p \in Procs, virtio_disk_rw(p)
       PROVE  CInv' /\ QInv'
  BY <1>10, SubmitCache, SubmitQueue
<1>11. ASSUME NEW p \in Procs, rw_end(p)
       PROVE  CInv' /\ QInv'
  BY <1>0, <1>11, EndCache, EndQueue
<1>12. ASSUME intr_ack \/ intr_end
       PROVE  CInv' /\ QInv'
  <2>1. UNCHANGED <<buf, lru, pinned, platter, last, cur, calls, pc>>
    BY <1>12 DEF intr_ack, intr_end, cache, device
  <2>2. CInv'
    BY <2>1, PointCache DEF CInv, CacheType
  <2>3. QED
    BY <1>12, <2>2, IntrQueue
<1>13. ASSUME intr_used
       PROVE  CInv' /\ QInv'
  BY <1>13, UsedCache, UsedQueue
<1>14. ASSUME dev_take
       PROVE  CInv' /\ QInv'
  <2>1. UNCHANGED <<buf, lru, pinned, platter, last, cur, calls, pc>>
    BY <1>14 DEF dev_take, cache
  <2>2. CInv'
    BY <2>1, PointCache DEF CInv, CacheType
  <2>3. QED
    BY <1>14, <2>2, TakeQueue
<1>15. ASSUME NEW h \in Descs, dev_complete(h)
       PROVE  CInv' /\ QInv'
  <2>1. h \in taken
    BY <1>15 DEF dev_complete
  <2>2. PICK p \in Procs : pc[p] = "io" /\ Active(p) /\ idx[p][1] = h
    BY <2>1, HeadOf
  <2>3. QED
    BY <1>0, <1>15, <2>2, CompleteCache, CompleteQueue
<1>16. ASSUME UNCHANGED vars
       PROVE  CInv' /\ QInv'
  <2>1. /\ UNCHANGED <<buf, lru, pinned, platter, last, cur, calls, pc>>
        /\ UNCHANGED <<idx, queue, taken, seen, isr>>
    BY <1>16 DEF vars, cache, device
  <2>2. CInv'
    BY <2>1, PointCache DEF CInv, CacheType
  <2>3. QInv'
    BY <2>1, QueueFrame
  <2>4. QED
    BY <2>2, <2>3
<1>17. QED
  BY <1>1, <1>2, <1>3, <1>4, <1>5, <1>6, <1>7, <1>8, <1>9, <1>10, <1>11, <1>12, <1>13, <1>14,
     <1>15, <1>16 DEF Next, Caller, Driver, Interrupt

\* The invariant holds in every reachable state.
LEMMA Invariance == Spec => []IInv
BY InitInv, NextInv, PTL DEF Spec

-----------------------------------------------------------------------------
(* What follows.                                                           *)

\* The variables have their types: a reference count is never negative, and the indices
\* of the rings stay what 16 bits hold.
THEOREM TypeCorrect == Spec => []TypeOK
<1>1. IInv => TypeOK
  BY DEF IInv
<1>2. QED
  BY <1>1, Invariance, PTL

\* Who holds the locked buffer of a block sees what the last holder left, for any number
\* of processes, buffers and blocks, however often the block has been evicted.
THEOREM ReadersSeeTheLast == Spec => []ReadsLatest
<1>1. IInv => ReadsLatest
  <2>1. ASSUME IInv, NEW p \in Procs, pc[p] = "held"
        PROVE  buf[cur[p]].data = last[buf[cur[p]].blockno]
    <3>1. cur[p] \in Bufs /\ buf[cur[p]].valid
      BY <2>1 DEF IInv, LockInv, DataInv
    <3>2. QED
      BY <2>1, <3>1 DEF IInv, DataInv
  <2>2. QED
    BY <2>1 DEF ReadsLatest
<1>2. QED
  BY <1>1, Invariance, PTL

\* A descriptor is free or in one chain, with any number of descriptors and requests.
THEOREM NoDescriptorLost == Spec => []DescriptorsOwned
<1>1. ASSUME IInv, NEW d \in Descs
      PROVE  Cardinality({p \in Procs : d \in Range(idx[p])}) = IF d \in free THEN 0 ELSE 1
  <2>1. ASSUME NEW p \in Procs
        PROVE  Range(idx[p]) = Own(p)
    <3>1. CASE Active(p)
      <4>1. idx[p] \in Descs \X Descs \X Descs
        BY <1>1, <3>1 DEF IInv, ChainInv
      <4>2. PICK x \in Descs, y \in Descs, z \in Descs : idx[p] = <<x, y, z>>
        BY <4>1
      <4>3. DOMAIN <<x, y, z>> = {1, 2, 3}
        OBVIOUS
      <4>4. Range(<<x, y, z>>) = {x, y, z}
        BY <4>3 DEF Range
      <4>5. Own(p) = {x, y, z}
        BY <3>1, <4>2 DEF Own
      <4>6. QED
        BY <4>2, <4>4, <4>5
    <3>2. CASE ~Active(p)
      <4>1. idx[p] = <<>>
        BY <1>1, <3>2 DEF IInv, ChainInv
      <4>2. Range(<<>>) = {}
        BY DEF Range
      <4>3. QED
        BY <3>2, <4>1, <4>2 DEF Own
    <3>3. QED
      BY <3>1, <3>2
  <2>2. /\ d \in free <=> \A p \in Procs : d \notin Own(p)
        /\ \A p \in Procs, q \in Procs : Own(p) \cap Own(q) # {} => p = q
    BY <1>1 DEF IInv, ChainInv
  <2>3. {p \in Procs : d \in Range(idx[p])} = {p \in Procs : d \in Own(p)}
    BY <2>1
  <2>4. CASE d \in free
    <3>1. {p \in Procs : d \in Own(p)} = {}
      BY <2>2, <2>4
    <3>2. QED
      BY <2>3, <2>4, <3>1, FS_EmptySet
  <2>5. CASE d \notin free
    <3>1. PICK p \in Procs : d \in Own(p)
      BY <2>2, <2>5
    <3>2. {q \in Procs : d \in Own(q)} = {p}
      BY <2>2, <3>1
    <3>3. QED
      BY <2>3, <2>5, <3>2, FS_Singleton
  <2>6. QED
    BY <2>4, <2>5
<1>2. IInv => DescriptorsOwned
  BY <1>1 DEF DescriptorsOwned
<1>3. QED
  BY <1>2, Invariance, PTL

\* How often a head is in a ring.
LEMMA Occurrences ==
  ASSUME NEW r \in Ring, NEW from \in 0..Counters - 1, Heads(r, from), NEW h
  PROVE  Cardinality({k \in Entries(r, from) : r.ring[(from + k) % NUM] = h})
           = IF In(r, from, h) THEN 1 ELSE 0
<1> DEFINE n == Length(r, from)
<1>1. n \in Nat /\ n < NUM /\ (r.idx - from) % Counters = n
  BY Advance DEF Heads, Length, Ring, Dist
<1> DEFINE K == {k \in 0..n - 1 : Entry(r, from, k) = h}
<1>2. {k \in Entries(r, from) : r.ring[(from + k) % NUM] = h} = K
  <2>1. \A k : r.ring[(from + k) % NUM] = Entry(r, from, k)
    BY DEF Entry, Pos
  <2> HIDE DEF n
  <2>2. Entries(r, from) = 0..n - 1
    BY <1>1, Constants DEF Entries
  <2>3. QED
    BY <2>1, <2>2
<1>3. CASE In(r, from, h)
  <2>1. PICK k \in 0..n - 1 : Entry(r, from, k) = h
    BY <1>3 DEF In
  <2>2. K = {k}
    BY <2>1 DEF Heads
  <2>3. QED
    BY <1>2, <1>3, <2>2, FS_Singleton
<1>4. CASE ~In(r, from, h)
  <2>1. K = {}
    BY <1>4 DEF In
  <2>2. QED
    BY <1>2, <1>4, <2>1, FS_EmptySet
<1>5. QED
  BY <1>3, <1>4

\* No request is lost or done twice, with rings of any length and indices that wrap
\* around anywhere; no interrupt and no wakeup of those who wait for descriptors is.
THEOREM EveryRequestOnce == Spec => []NoLostCompletion
<1>1. ASSUME IInv, NEW p \in Procs, pc[p] = "io", NEW h, h = idx[p][1]
      PROVE  1 = Cardinality({k \in Entries(avail, seen) : avail.ring[(seen + k) % NUM] = h})
                 + Cardinality({h} \cap taken)
                 + Cardinality({k \in Entries(used, used_idx) : used.ring[(used_idx + k) % NUM] = h})
  <2>1. /\ avail \in Ring /\ seen \in 0..Counters - 1 /\ Heads(avail, seen)
        /\ used \in Ring /\ used_idx \in 0..Counters - 1 /\ Heads(used, used_idx)
    BY <1>1, Types DEF IInv, QueueType, RingInv
  <2>2. h \in Descs
    BY <1>1 DEF IInv, ChainInv, Active
  <2>3. /\ InAvail(h) \/ h \in taken \/ InUsed(h)
        /\ ~(InAvail(h) /\ h \in taken) /\ ~(InAvail(h) /\ InUsed(h)) /\ ~(h \in taken /\ InUsed(h))
    BY <1>1, <2>2 DEF IInv, RingInv
  <2>4. Cardinality({h} \cap taken) = IF h \in taken THEN 1 ELSE 0
    <3>1. CASE h \in taken
      <4>1. {h} \cap taken = {h}
        BY <3>1
      <4>2. QED
        BY <3>1, <4>1, FS_Singleton
    <3>2. CASE h \notin taken
      <4>1. {h} \cap taken = {}
        BY <3>2
      <4>2. QED
        BY <3>2, <4>1, FS_EmptySet
    <3>3. QED
      BY <3>1, <3>2
  <2>5. Cardinality({k \in Entries(avail, seen) : avail.ring[(seen + k) % NUM] = h})
          = IF InAvail(h) THEN 1 ELSE 0
    BY <2>1, Occurrences DEF InAvail
  <2>6. Cardinality({k \in Entries(used, used_idx) : used.ring[(used_idx + k) % NUM] = h})
          = IF InUsed(h) THEN 1 ELSE 0
    BY <2>1, Occurrences DEF InUsed
  <2>7. QED
    BY <2>3, <2>4, <2>5, <2>6
<1>2. IInv => NoLostCompletion
  <2>1. ASSUME IInv
        PROVE  /\ used_idx # used.idx => isr \/ intr
               /\ (\E p \in Procs : pc[p] = "rw_asleep") =>
                    Cardinality(free) < 3 \/ \E p \in Procs : pc[p] = "rw"
    BY <2>1 DEF IInv, WakeInv
  <2>2. QED
    BY <1>1, <2>1 DEF NoLostCompletion
<1>3. QED
  BY <1>2, Invariance, PTL
=============================================================================
