----------------------------- MODULE MCTrackers -----------------------------
(* Instances of Trackers for TLC.                                          *)
EXTENDS Trackers, TLC

\* Threads and blocks are interchangeable.
Symmetry == Permutations(Threads) \cup Permutations(Blocks)
=============================================================================
