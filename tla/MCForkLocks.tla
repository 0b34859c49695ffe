---------------------------- MODULE MCForkLocks ----------------------------
(* Instances of ForkLocks for TLC.                                         *)
EXTENDS ForkLocks, TLC

\* Threads are interchangeable.
Symmetry == Permutations(Threads)
=============================================================================
