------------------------------ MODULE Channel -------------------------------
(***************************************************************************)
(* What a pipe promises: a bounded queue of bytes with two ends.  Bytes    *)
(* are read in the order in which they were written, none is written when  *)
(* the read end is closed, and what is left is lost with the last end.     *)
(***************************************************************************)
EXTENDS Naturals, Sequences

CONSTANTS Pages, Byte, Size

VARIABLES q, open

Init == q = [c \in Pages |-> <<>>] /\ open = [c \in Pages |-> {}]

Create(c) == open[c] = {} /\ open' = [open EXCEPT ![c] = {"r", "w"}] /\ UNCHANGED q

Put(c) ==
  /\ open[c] = {"r", "w"} /\ Len(q[c]) < Size
  /\ \E b \in Byte : q' = [q EXCEPT ![c] = Append(@, b)]
  /\ UNCHANGED open

Get(c) ==
  /\ "r" \in open[c] /\ q[c] # <<>>
  /\ q' = [q EXCEPT ![c] = Tail(@)]
  /\ UNCHANGED open

Close(c) ==
  \E e \in open[c] :
    /\ open' = [open EXCEPT ![c] = @ \ {e}]
    /\ q' = [q EXCEPT ![c] = IF open[c] = {e} THEN <<>> ELSE @]

Next == \E c \in Pages : Create(c) \/ Put(c) \/ Get(c) \/ Close(c)

Spec == Init /\ [][Next]_<<q, open>>
=============================================================================
