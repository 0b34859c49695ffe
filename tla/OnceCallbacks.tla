--------------------------- MODULE OnceCallbacks ---------------------------
(***************************************************************************)
(* What a registry of guarded callbacks promises its users, whatever it    *)
(* does inside: a registered callback is called, it is called once, and    *)
(* nothing but its registration makes it callable.                         *)
(***************************************************************************)
CONSTANT Callbacks

VARIABLE phase    \* of each callback: "new", "registered", "running", "done"

Init == phase = [c \in Callbacks |-> "new"]

Advance(c, from, to) ==
  /\ phase[c] = from
  /\ phase' = [phase EXCEPT ![c] = to]

Next ==
  \E c \in Callbacks : \/ Advance(c, "new", "registered")
                       \/ Advance(c, "registered", "running")
                       \/ Advance(c, "running", "done")

Spec == Init /\ [][Next]_phase
=============================================================================
