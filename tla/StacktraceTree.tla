--------------------------- MODULE StacktraceTree ---------------------------
(***************************************************************************)
(* StacktraceTree (stacktrace_tree.h): traces as paths of a tree, from the *)
(* outermost frame inwards.  The tree tracker and the heaptrack writer     *)
(* have one each, and number the nodes themselves: each call of onNewNode  *)
(* must be for the node that gets the next number.  Node 0 is the root.    *)
(***************************************************************************)
EXTENDS Integers, Sequences, SequencesExt

CONSTANTS
  Addresses,   \* return addresses, and nullptr
  Null         \* nullptr

ASSUME AddressAssumption == Null \in Addresses

\* m_edges, m_nodesCounter, and the addresses in the order of their ids
\* (m_ptrMap, m_revPtrMap).   (mutant: the numbers start with the root's)
NewTree_FromZero == [edges |-> {}, counter |-> 0, ptrs |-> <<>>]
NewTree == [edges |-> {}, counter |-> 1, ptrs |-> <<>>]

\* GetPtrId: a new address gets the next id.
WithPtr(tree, ptr) ==
  IF ptr \in ToSet(tree.ptrs) THEN tree ELSE [tree EXCEPT !.ptrs = Append(@, ptr)]
GetPtrId(tree, ptr) == CHOOSE i \in DOMAIN tree.ptrs : tree.ptrs[i] = ptr

\* m_edges.find   (mutant: the node an address is reached from is not compared)
Edge_AnyParent(tree, node, ptrId) == {e \in tree.edges : e.ptrId = ptrId}
Edge(tree, node, ptrId) == {e \in tree.edges : e.from = node /\ e.ptrId = ptrId}

\* One frame of index; calls collects the arguments of onNewNode.
Descend(st, ptr) ==
  LET tree == WithPtr(st.tree, ptr)
      ptrId == GetPtrId(tree, ptr)
      found == Edge(tree, st.node, ptrId)
  IN  IF ptr = Null THEN st
      ELSE IF found # {}
        THEN [st EXCEPT !.tree = tree, !.node = (CHOOSE e \in found : TRUE).to]
        ELSE [tree  |-> [tree EXCEPT
                !.edges = @ \cup {[from |-> st.node, ptrId |-> ptrId, to |-> tree.counter]},
                !.counter = @ + 1],
              node  |-> tree.counter,
              calls |-> Append(st.calls, [ptr |-> ptr, ptrId |-> ptrId, parent |-> st.node])]

\* The frame that is n-th from the outermost one.
FromEnd(trace, n) == trace[Len(trace) - n + 1]

\* The loop of index: after its outermost n frames.
Indexing(tree, trace) ==
  LET after[n \in 0 .. Len(trace)] ==
        IF n = 0 THEN [tree |-> tree, node |-> 0, calls |-> <<>>]
        ELSE Descend(after[n - 1], FromEnd(trace, n))
  IN  after
index(tree, trace) == Indexing(tree, trace)[Len(trace)]

\* The outermost n frames of a trace that are not null.
NotNullOf(trace) ==
  LET kept[n \in 0 .. Len(trace)] ==
        IF n = 0 THEN <<>>
        ELSE IF FromEnd(trace, n) = Null THEN kept[n - 1]
        ELSE <<FromEnd(trace, n)>> \o kept[n - 1]
  IN  kept
NotNull(trace) == NotNullOf(trace)[Len(trace)]
=============================================================================
