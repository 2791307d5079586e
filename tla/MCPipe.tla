------------------------------ MODULE MCPipe -------------------------------
\* The instance of Pipe that TLC checks.
EXTENDS Pipe, TLC

Symmetry == Permutations(Procs)
=============================================================================
