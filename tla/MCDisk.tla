------------------------------- MODULE MCDisk -------------------------------
(* TLC: processes and blocks are interchangeable. *)
EXTENDS Disk, TLC

Symm == Permutations(Procs) \cup Permutations(Blocks)
=============================================================================
