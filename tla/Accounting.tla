----------------------------- MODULE Accounting -----------------------------
(***************************************************************************)
(* What MemHawk promises to a reader of its reports, without threads,      *)
(* trackers or locks.  Operations (allocations and deallocations) happen;  *)
(* from time to time the tool takes a cut of what has happened so far and  *)
(* then publishes a report.  A report never invents an operation, never    *)
(* withdraws one, and contains everything that was in the cut.  It may     *)
(* also contain some operations younger than the cut, in no particular     *)
(* order: a report is not a consistent snapshot of the heap.               *)
(***************************************************************************)
CONSTANT Op                 \* the operations the program can perform

VARIABLES
  happened,                 \* operations performed so far
  cut,                      \* what had happened when the last cut was taken
  reported                  \* operations contained in the last report

vars == <<happened, cut, reported>>

Init ==
  /\ happened = {}
  /\ cut = {}
  /\ reported = {}

\* Some operations are performed (a reallocation performs two at once).
Perform ==
  /\ happened' \subseteq Op
  /\ happened \subseteq happened'
  /\ UNCHANGED <<cut, reported>>

TakeCut ==
  /\ cut' = happened
  /\ UNCHANGED <<happened, reported>>

Publish ==
  /\ reported \cup cut \subseteq reported'
  /\ reported' \subseteq happened
  /\ UNCHANGED <<happened, cut>>

Next == Perform \/ TakeCut \/ Publish

Spec == Init /\ [][Next]_vars
=============================================================================
