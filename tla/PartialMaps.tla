----------------------------- MODULE PartialMaps -----------------------------
(***************************************************************************)
(* The maps of the writers and of their readers: functions on the keys     *)
(* that have an entry.                                                     *)
(***************************************************************************)

\* The map without entries.
Empty == [x \in {} |-> 0]

\* The entry of a key, or nothing.
Get(f, x) == IF x \in DOMAIN f THEN f[x] ELSE 0

\* A map with one entry inserted or replaced.
Put(f, x, y) == [z \in DOMAIN f \cup {x} |-> IF z = x THEN y ELSE f[z]]
=============================================================================
