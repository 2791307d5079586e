------------------------------ MODULE MCClock -------------------------------
(* TLC: sleep() is called with a negative number too, and the run is bounded. *)
EXTENDS Clock

SleepArgs == {-1, 2}

\* Two processes on two CPUs, with the clock and sleep(), ...
TwoProcesses ==
  state[3] = "UNUSED" /\ ctime[3] = 0 /\ \A s \in Slots : made[s]["open"] = 0

\* ... or up to three that take turns on CPU 0 while no time passes, of which the second
\* can wait for a child of its own.
Family == elapsed = 0 /\ cpu[1] = None /\ \A s \in Slots : made[s]["sleep"] = 0

Bound == TwoProcesses \/ Family
=============================================================================
