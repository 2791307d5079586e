------------------------------- MODULE MCMem -------------------------------
\* The instance of Mem that TLC checks: two processes that cannot both have all the
\* memory they ask for.
EXTENDS Mem

\* A program of one segment, and one with a gap before its second.
MCImages == {<<[va |-> 0, memsz |-> 1]>>,
             <<[va |-> 0, memsz |-> 1], [va |-> 2 * PGSIZE, memsz |-> 0]>>}
=============================================================================
