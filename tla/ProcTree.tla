------------------------------ MODULE ProcTree ------------------------------
(***************************************************************************)
(* What fork, exit and wait promise to user programs: a tree of processes  *)
(* rooted at init, in which each call is a single step.                    *)
(***************************************************************************)
EXTENDS Integers

CONSTANTS Slots, initproc

VARIABLES
  status,     \* per slot: "free", "live" or "zombie"
  up          \* per slot: the process that may wait for it (0: none)

treevars == <<status, up>>

TreeInit ==
  /\ status = [s \in Slots |-> IF s = initproc THEN "live" ELSE "free"]
  /\ up = [s \in Slots |-> 0]

\* fork(): p gets a child.
Fork(p, q) ==
  /\ status[p] = "live" /\ status[q] = "free"
  /\ status' = [status EXCEPT ![q] = "live"]
  /\ up' = [up EXCEPT ![q] = p]

\* exit(): p dies, and all its children go to init at once.
Exit(p) ==
  /\ p # initproc /\ status[p] = "live"
  /\ status' = [status EXCEPT ![p] = "zombie"]
  /\ up' = [q \in Slots |-> IF up[q] = p THEN initproc ELSE up[q]]

\* wait(): p takes one of its own children that has exited.
Reap(p, q) ==
  /\ status[p] = "live" /\ status[q] = "zombie" /\ up[q] = p
  /\ status' = [status EXCEPT ![q] = "free"]
  /\ up' = [up EXCEPT ![q] = 0]

TreeNext ==
  \/ \E p, q \in Slots : Fork(p, q) \/ Reap(p, q)
  \/ \E p \in Slots : Exit(p)

TreeSpec == TreeInit /\ [][TreeNext]_treevars

=============================================================================
