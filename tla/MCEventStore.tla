---------------------------- MODULE MCEventStore ----------------------------
(* Instances of EventStore for TLC. *)
EXTENDS EventStore, TLC

CONSTANTS p1, p2, k1, k2, main, alt, noProc

MCProc == {p1, p2}
OneKey == {k1}
TwoKeys == {k1, k2}
OneFork == {alt}
NoFork == {}

\* Processes are interchangeable, and so are the keys of ordinary events.
Symmetry == Permutations(MCProc) \cup Permutations(TwoKeys)
=============================================================================
