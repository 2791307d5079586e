-------------------------------- MODULE Disk --------------------------------
(***************************************************************************)
(* The buffer cache (kernel/bio.c), its sleep-locks (kernel/sleeplock.c)   *)
(* and the virtio disk driver under it (kernel/virtio_disk.c).             *)
(*                                                                         *)
(* bcache.lock and lk->lk are held for one action each.  vdisk_lock is     *)
(* held from virtio_disk_rw()'s start, or from where it is woken, to its   *)
(* next sleep() or its end, which is one action; only the interrupt        *)
(* handler, whose loop races with the device, holds it over several, so    *)
(* `intr' is that lock.  The callers keep the discipline of kernel/log.c:  *)
(* a block they changed is written or pinned before it is released, and    *)
(* unpinned after it has been written.                                     *)
(***************************************************************************)
EXTENDS Integers, Sequences, FiniteSets, FiniteSetsExt, Functions

CONSTANTS
  Procs,
  Blocks,
  NBUF,
  NUM,        \* descriptors, and the length of the rings
  Counters,   \* avail->idx, used->idx and used_idx count modulo this (2^16)
  MaxPins,    \* blocks pinned at a time
  First,      \* what they are after the requests of the boot
  MaxCalls,   \* calls of bread() and changes of a block in a behaviour
  None

ASSUME DiskAssumption ==
  /\ NBUF \in Nat \ {0} /\ NUM \in Nat /\ NUM >= 3 /\ MaxPins \in Nat /\ MaxCalls \in Nat
  /\ Counters \in Nat \ {0} /\ Counters % NUM = 0 /\ First \in 0..Counters - 1
  /\ IsFiniteSet(Procs) /\ None \notin Procs \cup Blocks \cup (1..NBUF) \cup (0..NUM - 1)

Bufs  == 1..NBUF
Descs == 0..NUM - 1

VARIABLES
  buf,        \* blockno, valid, disk, refcnt, data, and the holder of the sleep-lock
  lru,        \* bcache.head's list, the most recently used buffer first
  pinned,     \* buffers that bpin() has a reference to
  pc, cur,    \* per process: where it is, and its buffer
  idx,        \* per process: its three descriptors
  free, desc, info, avail, used, used_idx,  \* struct disk
  intr,       \* virtio_disk_intr() runs
  platter, taken, seen, isr,  \* the device: blocks, chains it works on, its place in avail, interrupt status
  last,       \* history: what the last holder of a block made of it
  calls       \* calls of bread() and changes so far

cache  == <<buf, lru, pinned>>
queue  == <<free, desc, info, avail, used, used_idx, intr>>
device == <<platter, taken, seen, isr>>
vars   == <<cache, pc, cur, idx, queue, device, last, calls>>

Bit == {0, 1}

\* A ring; an entry that has been taken out reads None, since it is not read again.
Ring == [idx : 0..Counters - 1, ring : [Descs -> Descs \cup {None}]]

TypeOK ==
  /\ buf \in [Bufs -> [blockno : Blocks \cup {None}, valid : BOOLEAN, disk : BOOLEAN,
                       refcnt : Nat, data : Bit, lock : Procs \cup {None}]]
  /\ lru \in [1..NBUF -> Bufs] /\ pinned \subseteq Bufs
  /\ pc \in [Procs -> {"idle", "lock", "lock_asleep", "rw", "rw_asleep", "io", "io_done",
                       "held", "release", "panic"}]
  /\ cur \in [Procs -> Bufs \cup {None}] /\ idx \in [Procs -> {<<>>} \cup (Descs \X Descs \X Descs)]
  /\ free \subseteq Descs
  /\ info \in [Descs -> [b : Bufs \cup {None}, done : BOOLEAN]]
  /\ avail \in Ring /\ used \in Ring
  /\ used_idx \in 0..Counters - 1 /\ seen \in 0..Counters - 1
  /\ intr \in BOOLEAN /\ isr \in BOOLEAN /\ taken \subseteq Descs
  /\ platter \in [Blocks -> Bit] /\ last \in [Blocks -> Bit] /\ calls \in 0..MaxCalls

FreeDesc == [addr |-> None, next |-> None]

\* binit(): no buffer is used, and the one added last is at the head of the list.
binit ==
  /\ buf = [b \in Bufs |-> [blockno |-> None, valid |-> FALSE, disk |-> FALSE, refcnt |-> 0,
                            data |-> 0, lock |-> None]]
  /\ lru = [k \in 1..NBUF |-> NBUF + 1 - k] /\ pinned = {}

\* virtio_disk_init(): all descriptors are free, and the rings are empty.
virtio_disk_init ==
  /\ free = Descs /\ desc = [d \in Descs |-> FreeDesc]
  /\ info = [d \in Descs |-> [b |-> None, done |-> TRUE]]
  /\ avail = [idx |-> First, ring |-> [d \in Descs |-> None]] /\ used = avail
  /\ used_idx = First /\ intr = FALSE

\* The disk as the driver has just set it up.
idle_device ==
  /\ platter = [k \in Blocks |-> 0] /\ taken = {} /\ seen = First /\ isr = FALSE

Init ==
  /\ binit /\ virtio_disk_init /\ idle_device
  /\ pc = [p \in Procs |-> "idle"] /\ cur = [p \in Procs |-> None] /\ idx = [p \in Procs |-> <<>>]
  /\ last = [k \in Blocks |-> 0] /\ calls = 0

Goto(p, point) == pc' = [pc EXCEPT ![p] = point]

-----------------------------------------------------------------------------
(* Buffers.                                                                *)

\* The buffer of a block; the places in the list of buffers that are not used.
Cached(k) == {b \in Bufs : buf[b].blockno = k}
Unused    == {n \in 1..NBUF : buf[lru[n]].refcnt = 0}

\* Mutant: the recycled buffer stays valid.
Recycle_valid(b, k) == [b EXCEPT !.blockno = k, !.refcnt = 1]

Recycle(b, k) == [b EXCEPT !.blockno = k, !.valid = FALSE, !.refcnt = 1]

\* bget(): the buffer of the block, or the one unused for longest, or panic().
bget(p, k) ==
  /\ pc[p] = "idle" /\ calls < MaxCalls /\ calls' = calls + 1
  /\ \/ \E b \in Cached(k) : /\ buf' = [buf EXCEPT ![b].refcnt = @ + 1]
                             /\ cur' = [cur EXCEPT ![p] = b]
                             /\ Goto(p, "lock")
     \/ /\ Cached(k) = {} /\ Unused # {}
        /\ buf' = [buf EXCEPT ![lru[Max(Unused)]] = Recycle(@, k)]
        /\ cur' = [cur EXCEPT ![p] = lru[Max(Unused)]]
        /\ Goto(p, "lock")
     \/ /\ Cached(k) = {} /\ Unused = {}
        /\ Goto(p, "panic")
        /\ UNCHANGED <<buf, cur>>
  /\ UNCHANGED <<lru, pinned, idx, queue, device, last>>

\* The rest of bread(), once the buffer is locked: one that is not valid is read.
bread(b) == IF buf[b].valid THEN "held" ELSE "rw"

\* acquiresleep(): sleep on the lock, or take it.
acquiresleep(p) ==
  LET b == cur[p] IN
  /\ pc[p] = "lock"
  /\ IF buf[b].lock # None
     THEN Goto(p, "lock_asleep") /\ UNCHANGED buf
     ELSE /\ Goto(p, bread(b))
          /\ buf' = [buf EXCEPT ![b].lock = p]
  /\ UNCHANGED <<lru, pinned, cur, idx, queue, device, last, calls>>

\* The caller has the locked buffer, and may change it.
change(p) ==
  LET b == cur[p] IN
  /\ pc[p] = "held"
  /\ buf[b].data = platter[buf[b].blockno] /\ calls < MaxCalls /\ calls' = calls + 1
  /\ buf' = [buf EXCEPT ![b].data = 1 - @]
  /\ last' = [last EXCEPT ![buf[b].blockno] = 1 - buf[b].data]
  /\ UNCHANGED <<lru, pinned, pc, cur, idx, queue, device>>

\* bwrite() of a changed buffer.
bwrite(p) ==
  /\ pc[p] = "held" /\ buf[cur[p]].data # platter[buf[cur[p]].blockno]
  /\ Goto(p, "rw")
  /\ UNCHANGED <<cache, cur, idx, queue, device, last, calls>>

\* bpin(), by log_write(): once for each block of a transaction.
bpin(p) ==
  LET b == cur[p] IN
  /\ pc[p] = "held" /\ b \notin pinned /\ buf[b].data # platter[buf[b].blockno]
  /\ Cardinality(pinned) < MaxPins
  /\ pinned' = pinned \cup {b}
  /\ buf' = [buf EXCEPT ![b].refcnt = @ + 1]
  /\ UNCHANGED <<lru, pc, cur, idx, queue, device, last, calls>>

\* bunpin(), by install_trans() after bwrite().
bunpin(p) ==
  LET b == cur[p] IN
  /\ pc[p] = "held" /\ b \in pinned /\ buf[b].data = platter[buf[b].blockno]
  /\ pinned' = pinned \ {b}
  /\ buf' = [buf EXCEPT ![b].refcnt = @ - 1]
  /\ UNCHANGED <<lru, pc, cur, idx, queue, device, last, calls>>

\* brelse(): releasesleep() wakes those who wait for the lock, ...
releasesleep(p) ==
  LET b == cur[p] IN
  /\ pc[p] = "held"
  /\ b \in pinned \/ buf[b].data = platter[buf[b].blockno]
  /\ buf' = [buf EXCEPT ![b].lock = None]
  /\ pc' = [q \in Procs |-> IF q = p THEN "release"
                            ELSE IF pc[q] = "lock_asleep" /\ cur[q] = b THEN "lock" ELSE pc[q]]
  /\ UNCHANGED <<lru, pinned, cur, idx, queue, device, last, calls>>

\* b moves to the head of the list, and those that were before it move down.
MoveToHead(b) ==
  [n \in 1..NBUF |-> IF n = 1 THEN b ELSE IF \E m \in n..NBUF : lru[m] = b THEN lru[n - 1] ELSE lru[n]]

\* ... and the reference goes; the last one makes the buffer the most recently used.
brelse(p) ==
  LET b == cur[p] IN
  /\ pc[p] = "release"
  /\ buf' = [buf EXCEPT ![b].refcnt = @ - 1]
  /\ lru' = IF buf[b].refcnt = 1 THEN MoveToHead(b) ELSE lru
  /\ Goto(p, "idle") /\ cur' = [cur EXCEPT ![p] = None]
  /\ UNCHANGED <<pinned, idx, queue, device, last, calls>>

-----------------------------------------------------------------------------
(* The driver.                                                             *)

\* wakeup(&disk.free[0]) by p, and what p's own step makes of pc.
WakeAllocators(p, point) ==
  pc' = [q \in Procs |-> IF q = p THEN point ELSE IF pc[q] = "rw_asleep" THEN "rw" ELSE pc[q]]

\* alloc3_desc() fails: the one or two descriptors it took are free again, and
\* free_desc() wakes the others that wait for descriptors.
alloc3_fail(p) ==
  /\ pc[p] = "rw" /\ ~intr /\ Cardinality(free) < 3
  /\ IF free = {} THEN Goto(p, "rw_asleep") ELSE WakeAllocators(p, "rw_asleep")
  /\ UNCHANGED <<cache, cur, idx, queue, device, last, calls>>

\* The first free descriptor; and three of them.
alloc_desc(f) == Min(f)

alloc3_desc ==
  LET a == alloc_desc(free)
      b == alloc_desc(free \ {a}) IN <<a, b, alloc_desc(free \ {a, b})>>

\* The head of the chain goes to the ring, then the index is advanced.
Submit(h) ==
  [idx |-> (avail.idx + 1) % Counters, ring |-> [avail.ring EXCEPT ![avail.idx % NUM] = h]]

\* virtio_disk_rw() up to its sleep(b): a chain of three descriptors for the command,
\* the data and the status, which the device is told of.  bread() reads a buffer that is
\* not valid, bwrite() writes one that is.
virtio_disk_rw(p) ==
  LET b == cur[p]
      d == alloc3_desc IN
  /\ pc[p] = "rw" /\ ~intr /\ Cardinality(free) >= 3
  /\ free' = free \ {d[1], d[2], d[3]}
  /\ desc' = [desc EXCEPT
       ![d[1]] = [addr |-> [write |-> buf[b].valid, sector |-> buf[b].blockno], next |-> d[2]],
       ![d[2]] = [addr |-> b, next |-> d[3]],
       ![d[3]] = [addr |-> d[1], next |-> None]]
  /\ info' = [info EXCEPT ![d[1]] = [b |-> b, done |-> FALSE]]
  /\ buf' = [buf EXCEPT ![b].disk = TRUE]
  /\ avail' = Submit(d[1])
  /\ idx' = [idx EXCEPT ![p] = d]
  /\ Goto(p, "io")
  /\ UNCHANGED <<lru, pinned, cur, used, used_idx, intr, device, last, calls>>

\* free_chain()'s way through the descriptors.
Chain(h) == <<h, desc[h].next, desc[desc[h].next].next>>

\* Mutant: the status descriptor is forgotten.
free_chain_two(h) == {h, desc[h].next}

free_chain(h) == {Chain(h)[1], Chain(h)[2], Chain(h)[3]}

\* The end of virtio_disk_rw(), woken with b->disk = 0.  A read makes the buffer valid,
\* which only the holder of its lock looks at.
rw_end(p) ==
  LET h == idx[p][1]
      f == free_chain(h) IN
  /\ pc[p] = "io_done" /\ ~intr /\ ~buf[cur[p]].disk
  /\ info' = [info EXCEPT ![h].b = None]
  /\ free' = free \cup f
  /\ desc' = [d \in Descs |-> IF d \in f THEN FreeDesc ELSE desc[d]]
  /\ idx' = [idx EXCEPT ![p] = <<>>]
  /\ buf' = [buf EXCEPT ![cur[p]].valid = TRUE]
  /\ WakeAllocators(p, "held")
  /\ UNCHANGED <<lru, pinned, cur, avail, used, used_idx, intr, device, last, calls>>

\* virtio_disk_intr() acknowledges the interrupt, ...
intr_ack ==
  /\ isr /\ ~intr
  /\ isr' = FALSE /\ intr' = TRUE
  /\ UNCHANGED <<cache, pc, cur, idx, free, desc, info, avail, used, used_idx, platter, taken,
                 seen, last, calls>>

\* Mutant: one completion for each interrupt.
intr_used_one ==
  LET id == used.ring[used_idx % NUM]
      b  == info[id].b IN
  /\ intr /\ used_idx # used.idx /\ info[id].done
  /\ buf' = [buf EXCEPT ![b].disk = FALSE]
  /\ pc' = [q \in Procs |-> IF pc[q] = "io" /\ cur[q] = b THEN "io_done" ELSE pc[q]]
  /\ used_idx' = (used_idx + 1) % Counters
  /\ used' = [used EXCEPT !.ring[used_idx % NUM] = None]
  /\ intr' = FALSE
  /\ UNCHANGED <<lru, pinned, cur, idx, free, desc, info, avail, device, last, calls>>

\* ... takes one completion after the other, also those that come in meanwhile (it panics
\* when the device reports an error, which this device does not), ...
intr_used ==
  LET id == used.ring[used_idx % NUM]
      b  == info[id].b IN
  /\ intr /\ used_idx # used.idx /\ info[id].done
  /\ buf' = [buf EXCEPT ![b].disk = FALSE]
  /\ pc' = [q \in Procs |-> IF pc[q] = "io" /\ cur[q] = b THEN "io_done" ELSE pc[q]]
  /\ used_idx' = (used_idx + 1) % Counters
  /\ used' = [used EXCEPT !.ring[used_idx % NUM] = None]
  /\ UNCHANGED <<lru, pinned, cur, idx, free, desc, info, avail, intr, device, last, calls>>

\* ... and ends when it has seen them all.
intr_end ==
  /\ intr /\ used_idx = used.idx
  /\ intr' = FALSE
  /\ UNCHANGED <<cache, pc, cur, idx, free, desc, info, avail, used, used_idx, device, last, calls>>

-----------------------------------------------------------------------------
(* The device.                                                             *)

\* It takes the chains in the order of the ring, ...
dev_take ==
  /\ seen # avail.idx
  /\ taken' = taken \cup {avail.ring[seen % NUM]}
  /\ avail' = [avail EXCEPT !.ring[seen % NUM] = None]
  /\ seen' = (seen + 1) % Counters
  /\ UNCHANGED <<cache, pc, cur, idx, free, desc, info, used, used_idx, intr, platter, isr, last, calls>>

\* ... and completes them in any order: the data, the status, the used ring, the interrupt.
dev_complete(h) ==
  LET op == desc[h].addr
      b  == desc[Chain(h)[2]].addr
      st == desc[Chain(h)[3]].addr IN
  /\ h \in taken
  /\ IF op.write
     THEN platter' = [platter EXCEPT ![op.sector] = buf[b].data] /\ UNCHANGED buf
     ELSE buf' = [buf EXCEPT ![b].data = platter[op.sector]] /\ UNCHANGED platter
  /\ info' = [info EXCEPT ![st].done = TRUE]
  /\ used' = [idx |-> (used.idx + 1) % Counters, ring |-> [used.ring EXCEPT ![used.idx % NUM] = h]]
  /\ taken' = taken \ {h} /\ isr' = TRUE
  /\ UNCHANGED <<lru, pinned, pc, cur, idx, free, desc, avail, used_idx, intr, seen, last, calls>>

-----------------------------------------------------------------------------
Caller(p) ==
  \/ \E k \in Blocks : bget(p, k)
  \/ change(p) \/ bpin(p) \/ bunpin(p)

Driver(p) ==
  \/ acquiresleep(p) \/ bwrite(p) \/ releasesleep(p) \/ brelse(p)
  \/ alloc3_fail(p) \/ virtio_disk_rw(p) \/ rw_end(p)

Interrupt == intr_ack \/ intr_used \/ intr_end

\* After a panic() the machine stands still; the bound is reached.
Panicked == \E p \in Procs : pc[p] = "panic"
Done     == Panicked \/ (calls = MaxCalls /\ \A p \in Procs : pc[p] = "idle")

Next ==
  \/ /\ ~Panicked
     /\ \/ \E p \in Procs : Caller(p) \/ Driver(p)
        \/ Interrupt
        \/ dev_take \/ \E h \in Descs : dev_complete(h)
  \/ Done /\ UNCHANGED vars

Spec == Init /\ [][Next]_vars

-----------------------------------------------------------------------------
(* Properties.                                                             *)

\* Who holds a block's buffer sees what the last holder left there, whether that is in
\* the cache, pinned, or was written and read again in the meantime.
ReadsLatest ==
  \A p \in Procs : pc[p] = "held" => buf[cur[p]].data = last[buf[cur[p]].blockno]

\* A descriptor is free, or in the chain of one process: none is lost or freed twice,
\* whatever the order of the completions.
DescriptorsOwned ==
  \A d \in Descs :
    Cardinality({p \in Procs : d \in Range(idx[p])}) = IF d \in free THEN 0 ELSE 1

\* No completion is overlooked and no wakeup lost: the request of a process that waits
\* for the disk is, once, in the ring, with the device or among the completions, and a
\* completion nobody has looked at has an interrupt coming or a handler that will see
\* it.  Who waits for descriptors has been given reason to.
Entries(r, from) == {k \in 0..NUM - 1 : k < (r.idx - from) % Counters}

NoLostCompletion ==
  /\ \A p \in Procs :
       LET h == idx[p][1] IN
       pc[p] = "io" =>
         1 = Cardinality({k \in Entries(avail, seen) : avail.ring[(seen + k) % NUM] = h})
             + Cardinality({h} \cap taken)
             + Cardinality({k \in Entries(used, used_idx) : used.ring[(used_idx + k) % NUM] = h})
  /\ used_idx # used.idx => isr \/ intr
  /\ (\E p \in Procs : pc[p] = "rw_asleep") =>
       Cardinality(free) < 3 \/ \E p \in Procs : pc[p] = "rw"
=============================================================================
