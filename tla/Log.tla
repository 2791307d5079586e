-------------------------------- MODULE Log ---------------------------------
(***************************************************************************)
(* kernel/log.c on top of the buffer cache of kernel/bio.c: begin_op(),    *)
(* log_write(), end_op(), commit() and, after a crash, recover_from_log(). *)
(*                                                                         *)
(* Each disk write is a step of its own (virtio_disk_rw waits for it), and *)
(* the machine may crash between any two steps, recovery's included.  A    *)
(* block write is atomic.  A system call changes a block and calls         *)
(* log_write() under the buffer's sleep lock: one step.                    *)
(***************************************************************************)
EXTENDS Integers, Sequences, FiniteSets

CONSTANTS
  Blocks,       \* the home blocks of the file system
  Val,          \* what a block can hold
  Ops,          \* the processes that make file system calls
  MAXOPBLOCKS,  \* the blocks begin_op() reserves for a call (param.h)
  LOGSIZE,      \* entries of struct logheader; also the superblock's nlog,
                \* which counts the header block
  OpBlocks,     \* bound: the distinct blocks a call really writes
  Absent        \* the block is not in the buffer cache

ASSUME LogAssumption ==
  /\ MAXOPBLOCKS \in Nat \ {0} /\ LOGSIZE \in Nat \ {0}
  /\ OpBlocks \in Nat /\ IsFiniteSet(Blocks) /\ IsFiniteSet(Ops) /\ Absent \notin Val

\* A call writes fewer blocks than it reserves (filewrite() keeps four of them
\* back), and the log has room for more than one call (LOGSIZE is 3 * MAXOPBLOCKS).
ASSUME ReservationAssumption == OpBlocks < MAXOPBLOCKS /\ MAXOPBLOCKS < LOGSIZE

Entries == 1..LOGSIZE

VARIABLES
  home, dlog, dhead,    \* the disk: home blocks, log blocks, header block
  cache, pinned,        \* buffer contents; blocks held by bpin()
  lh,                   \* log.lh: the blocks of the current transaction
  outstanding, committing,
  opc, written,         \* per process: where it is, and the blocks it has written
  step, tail            \* what commit() or recovery does next, and its index

disk == <<home, dlog, dhead>>
buf  == <<cache, pinned>>
log  == <<lh, outstanding, committing>>
ops  == <<opc, written>>
vars == <<disk, buf, log, ops, step, tail>>

Steps == {"idle", "write_log", "write_head", "install", "clear", "end",
          "read_head", "r_install", "r_clear", "panic"}

TypeOK ==
  /\ home \in [Blocks -> Val] /\ dlog \in [Entries -> Val] /\ dhead \in Seq(Blocks)
  /\ cache \in [Blocks -> Val \cup {Absent}] /\ pinned \subseteq Blocks
  /\ lh \in Seq(Blocks) /\ outstanding \in Nat /\ committing \in BOOLEAN
  /\ opc \in [Ops -> {"idle", "begin", "asleep", "in", "commit"}]
  /\ written \in [Ops -> SUBSET Blocks]
  /\ step \in Steps /\ tail \in Nat

\* The machine is switched on with a disk from mkfs.
Init ==
  /\ \E v \in Val : home = [b \in Blocks |-> v] /\ dlog = [i \in Entries |-> v]
  /\ dhead = <<>>
  /\ cache = [b \in Blocks |-> Absent] /\ pinned = {}
  /\ lh = <<>> /\ outstanding = 0 /\ committing = FALSE
  /\ opc = [o \in Ops |-> "idle"] /\ written = [o \in Ops |-> {}]
  /\ step = "read_head" /\ tail = 0

-----------------------------------------------------------------------------

\* Recovery is over: processes run.
Running == step \notin {"read_head", "r_install", "r_clear", "panic"}

(* The buffer cache.                                                       *)

\* What bread() finds.
Contents(b) == IF cache[b] = Absent THEN home[b] ELSE cache[b]

\* bread(): a block that is not cached is read from its home.
Bread(b) ==
  /\ Running /\ cache[b] = Absent
  /\ cache' = [cache EXCEPT ![b] = home[b]]
  /\ UNCHANGED <<disk, pinned, log, ops, step, tail>>

\* bget() recycles a buffer whose reference count is zero.
Recycle(b) ==
  /\ step # "panic"
  /\ cache[b] # Absent /\ b \notin pinned
  /\ cache' = [cache EXCEPT ![b] = Absent]
  /\ UNCHANGED <<disk, pinned, log, ops, step, tail>>

-----------------------------------------------------------------------------
(* The calls.                                                              *)

Call(o) ==
  /\ Running /\ opc[o] = "idle"
  /\ opc' = [opc EXCEPT ![o] = "begin"]
  /\ UNCHANGED <<disk, buf, log, written, step, tail>>

\* Mutant: the new call's own blocks are not counted.
RoomWithoutSelf == Len(lh) + outstanding * MAXOPBLOCKS <= LOGSIZE

\* Even if every call in progress, and the new one, writes all it may.
Room == Len(lh) + (outstanding + 1) * MAXOPBLOCKS <= LOGSIZE

begin_op(o) ==
  /\ Running /\ opc[o] = "begin"
  /\ IF committing \/ ~Room
     THEN /\ opc' = [opc EXCEPT ![o] = "asleep"]
          /\ UNCHANGED <<outstanding, written>>
     ELSE /\ outstanding' = outstanding + 1
          /\ opc' = [opc EXCEPT ![o] = "in"]
          /\ written' = [written EXCEPT ![o] = {}]
  /\ UNCHANGED <<disk, buf, lh, committing, step, tail>>

Logged(b) == \E i \in 1..Len(lh) : lh[i] = b

\* Mutant: the buffer is not pinned.
RecordUnpinned(b) ==
  /\ lh' = IF Logged(b) THEN lh ELSE Append(lh, b)
  /\ UNCHANGED pinned

\* log absorption: a block that is in the log already keeps its entry.
Record(b) ==
  IF Logged(b)
  THEN UNCHANGED <<lh, pinned>>
  ELSE lh' = Append(lh, b) /\ pinned' = pinned \cup {b}

\* Change a block and log_write() it.
log_write(o, b, v) ==
  /\ Running /\ opc[o] = "in"
  /\ b \in written[o] \/ Cardinality(written[o]) < OpBlocks
  /\ cache' = [cache EXCEPT ![b] = v]
  /\ IF Len(lh) >= LOGSIZE \/ Len(lh) >= LOGSIZE - 1 \/ outstanding < 1
     THEN step' = "panic" /\ UNCHANGED <<lh, pinned, written>>
     ELSE /\ Record(b)
          /\ written' = [written EXCEPT ![o] = @ \cup {b}]
          /\ UNCHANGED step
  /\ UNCHANGED <<disk, outstanding, committing, opc, tail>>

\* wakeup(&log), when process o leaves to `at'.
Wakeup(o, at) ==
  opc' = [p \in Ops |-> IF p = o THEN at ELSE IF opc[p] = "asleep" THEN "begin" ELSE opc[p]]

\* The last call commits, for all the calls of the transaction.
end_op(o) ==
  /\ Running /\ opc[o] = "in"
  /\ outstanding' = outstanding - 1
  /\ IF committing
     THEN step' = "panic" /\ UNCHANGED <<committing, opc, tail>>
     ELSE IF outstanding = 1
     THEN /\ committing' = TRUE
          /\ opc' = [opc EXCEPT ![o] = "commit"]
          /\ step' = IF lh = <<>> THEN "end" ELSE "write_log"
          /\ tail' = 1
     ELSE Wakeup(o, "idle") /\ UNCHANGED <<committing, step, tail>>
  /\ written' = [written EXCEPT ![o] = {}]
  /\ UNCHANGED <<disk, buf, lh>>

-----------------------------------------------------------------------------
(* commit(), in the process that ended the last call.                      *)

\* Go on to entry tail + 1, or to `next' when this was the last one.
Advance(this, next) ==
  IF tail = Len(lh) THEN step' = next /\ tail' = 1 ELSE step' = this /\ tail' = tail + 1

\* One block from the cache to the log.
write_log ==
  /\ step = "write_log"
  /\ dlog' = [dlog EXCEPT ![tail] = Contents(lh[tail])]
  /\ Advance("write_log", "write_head")
  /\ UNCHANGED <<home, dhead, buf, log, ops>>

\* The commit point.
write_head ==
  /\ step = "write_head"
  /\ dhead' = lh
  /\ step' = "install" /\ tail' = 1
  /\ UNCHANGED <<home, dlog, buf, log, ops>>

\* Mutant: the block is copied but not written to its home.
InstallCacheOnly(b) ==
  /\ cache' = [cache EXCEPT ![b] = dlog[tail]]
  /\ UNCHANGED home

\* install_trans(): one block from the log to its home.
Install(b) ==
  /\ home' = [home EXCEPT ![b] = dlog[tail]]
  /\ cache' = [cache EXCEPT ![b] = dlog[tail]]

install_trans ==
  /\ step = "install"
  /\ Install(lh[tail])
  /\ pinned' = pinned \ {lh[tail]}
  /\ Advance("install", "clear")
  /\ UNCHANGED <<dlog, dhead, log, ops>>

\* Erase the transaction from the log.
clear ==
  /\ step = "clear"
  /\ lh' = <<>> /\ dhead' = <<>>
  /\ step' = "end"
  /\ UNCHANGED <<home, dlog, buf, outstanding, committing, ops, tail>>

\* Mutant: those who wait in begin_op() are not woken.
EndCommitSilent(o) == opc' = [opc EXCEPT ![o] = "idle"]

EndCommit(o) == Wakeup(o, "idle")

\* The end of end_op() in the process that committed.
end_commit(o) ==
  /\ step = "end" /\ opc[o] = "commit"
  /\ committing' = FALSE
  /\ EndCommit(o)
  /\ step' = "idle"
  /\ UNCHANGED <<disk, buf, lh, outstanding, written, tail>>

-----------------------------------------------------------------------------
(* Crash and recovery.                                                     *)

\* Power fails, or the machine is reset: only the disk is left.
Crash ==
  /\ cache' = [b \in Blocks |-> Absent] /\ pinned' = {}
  /\ lh' = <<>> /\ outstanding' = 0 /\ committing' = FALSE
  /\ opc' = [o \in Ops |-> "idle"] /\ written' = [o \in Ops |-> {}]
  /\ step' = "read_head" /\ tail' = 0
  /\ UNCHANGED disk

\* recover_from_log(), before the first process returns to user space.
read_head ==
  /\ step = "read_head"
  /\ lh' = dhead
  /\ step' = IF dhead = <<>> THEN "r_clear" ELSE "r_install"
  /\ tail' = 1
  /\ UNCHANGED <<disk, buf, outstanding, committing, ops>>

r_install ==
  /\ step = "r_install"
  /\ Install(lh[tail])
  /\ Advance("r_install", "r_clear")
  /\ UNCHANGED <<dlog, dhead, pinned, log, ops>>

r_clear ==
  /\ step = "r_clear"
  /\ lh' = <<>> /\ dhead' = <<>>
  /\ step' = "idle"
  /\ UNCHANGED <<home, dlog, buf, outstanding, committing, ops, tail>>

-----------------------------------------------------------------------------

Commit  == write_log \/ write_head \/ install_trans \/ clear \/ \E o \in Ops : end_commit(o)
Recover == read_head \/ r_install \/ r_clear

Next ==
  \/ \E b \in Blocks : Bread(b) \/ Recycle(b)
  \/ \E o \in Ops :
       \/ Call(o) \/ begin_op(o) \/ end_op(o)
       \/ \E b \in Blocks : \E v \in Val : log_write(o, b, v)
  \/ Commit \/ Recover \/ Crash

Spec == Init /\ [][Next]_vars

\* Recovery and commit() go on, and calls come to their end_op().
FairSpec ==
  /\ Spec /\ WF_vars(Recover) /\ WF_vars(Commit)
  /\ \A o \in Ops : WF_vars(end_op(o))

-----------------------------------------------------------------------------
(* Properties.                                                             *)

\* log_write() never finds the log full, nor itself outside a transaction, and
\* end_op() never finds a commit under way: begin_op() reserves enough.
NoPanic == step # "panic"

\* What a reader would find on the disk after recovery.
AfterRecovery ==
  [b \in Blocks |->
     IF \E i \in 1..Len(dhead) : dhead[i] = b
     THEN dlog[CHOOSE i \in 1..Len(dhead) : dhead[i] = b] ELSE home[b]]

\* What the file system sees; before recovery is over it sees nothing yet.
Visible ==
  IF step \in {"read_head", "r_install", "r_clear"}
  THEN AfterRecovery ELSE [b \in Blocks |-> Contents(b)]

Transactions == INSTANCE Txn WITH current <- Visible, durable <- AfterRecovery,
                                  active <- outstanding

\* A crash at any point, in commit() and in recovery too, leaves the disk with
\* all the updates of a transaction or with none, and never with those of a
\* call that had not ended.
ImplementsTxn == Transactions!TxnSpec

\* Log appends are synchronous: when no call is active and no commit is under
\* way, everything the file system has written survives a crash.
DurableWhenIdle ==
  outstanding = 0 /\ ~committing /\ Running => Visible = AfterRecovery

\* Whoever sleeps in begin_op() is woken.
SleepersWoken == \A o \in Ops : opc[o] = "asleep" ~> opc[o] # "asleep"

=============================================================================
