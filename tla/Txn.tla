-------------------------------- MODULE Txn ---------------------------------
(***************************************************************************)
(* What the log promises to the file system: the updates of the calls      *)
(* between begin_op() and end_op() reach the disk together, when no call   *)
(* is active, and a crash loses only updates that have not reached it.     *)
(***************************************************************************)
EXTENDS Integers

CONSTANTS Blocks, Val

VARIABLES
  current,    \* what the file system reads: the newest contents of each block
  durable,    \* what it would read after a crash
  active      \* the number of file system calls in progress

txnvars == <<current, durable, active>>

TxnInit ==
  /\ current \in [Blocks -> Val] /\ durable = current
  /\ active = 0

Begin == active' = active + 1 /\ UNCHANGED <<current, durable>>

Write(b, v) ==
  /\ active > 0
  /\ current' = [current EXCEPT ![b] = v]
  /\ UNCHANGED <<durable, active>>

End == active > 0 /\ active' = active - 1 /\ UNCHANGED <<current, durable>>

\* All updates at once, and of completed calls only.
Commit == active = 0 /\ durable' = current /\ UNCHANGED <<current, active>>

Crash == current' = durable /\ active' = 0 /\ UNCHANGED durable

TxnNext ==
  \/ Begin \/ End \/ Commit \/ Crash
  \/ \E b \in Blocks : \E v \in Val : Write(b, v)

TxnSpec == TxnInit /\ [][TxnNext]_txnvars

=============================================================================
