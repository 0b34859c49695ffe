------------------------------ MODULE FlameTrie ------------------------------
(***************************************************************************)
(* The flamegraph tool (flamegraph/src/graph.h, main.cpp): lines with a    *)
(* path and a value are appended to a trie whose nodes hold whole stretches*)
(* of a path and are split where paths part; then the nodes with the       *)
(* greatest totals are selected with a priority queue and printed in the   *)
(* order of a depth-first walk.                                            *)
(*                                                                         *)
(* A stretch is a sequence of keys (a span of m_paths in the code).  Items *)
(* that compare equal leave the queue in any order.  Parsing of numbers is *)
(* left out: a line is well formed or not.                                 *)
(***************************************************************************)
EXTENDS PartialMaps, Integers, Sequences, SequencesExt, FiniteSetsExt

CONSTANTS
  Paths,      \* paths without the root
  Values,     \* values of lines
  MaxCount,   \* the tool is asked for 0 .. MaxCount nodes
  MaxLines    \* bound on the lines

VARIABLES
  pc,         \* "append", "select", "done", or "failed"
  lines,      \* the lines so far
  nodes,      \* m_nodes: node n is nodes[n + 1]
  count,      \* the argument
  queue,      \* items of the priority queue
  selected,   \* selectedNodes
  result      \* the retrieved nodes
vars == <<pc, lines, nodes, count, queue, selected, result>>

NoEdges == [k \in {} |-> 0]

-----------------------------------------------------------------------------
(* CompressedTrie::Append                                                  *)

Matched(path, nodePath) ==
  Max({k \in 0 .. Min({Len(path), Len(nodePath)}) : SubSeq(path, 1, k) = SubSeq(nodePath, 1, k)})

\* SplitPath: the node keeps the matched stretch; the rest, the edges and the
\* own value go to a new node.   (mutant: the own value stays)
SplitNode_KeepValue(node, k) ==
  [node EXCEPT !.path = SubSeq(@, 1, k), !.edges = NoEdges]
SplitNode(node, k) ==
  [node EXCEPT !.path = SubSeq(@, 1, k), !.edges = NoEdges, !.value = 0]
SplitPath(ns, root, k) ==
  LET node == ns[root + 1] IN
  IF k = Len(node.path) THEN ns
  ELSE LET rest == [node EXCEPT !.path = SubSeq(@, k + 1, Len(@))]
           kept == [SplitNode(node, k) EXCEPT !.edges = Put(@, node.path[k + 1], Len(ns))]
       IN  Append([ns EXCEPT ![root + 1] = kept], rest)

\* The loop of Append, from node root on.
RECURSIVE AppendFrom(_, _, _, _)
AppendFrom(ns, root, path, value) ==
  LET k == Matched(path, ns[root + 1].path)
      split == IF path = <<>> THEN ns ELSE SplitPath(ns, root, k)
      rest == SubSeq(path, k + 1, Len(path))
      node == [split[root + 1] EXCEPT !.total = @ + value]
      next == Len(split)
  IN  IF rest = <<>>
        THEN [split EXCEPT ![root + 1].total = @ + value, ![root + 1].value = @ + value]
      ELSE IF rest[1] \in DOMAIN node.edges
        THEN AppendFrom([split EXCEPT ![root + 1] = node], node.edges[rest[1]], rest, value)
      ELSE AppendFrom(
             Append([split EXCEPT ![root + 1] = [node EXCEPT !.edges = Put(@, rest[1], next)]],
                    [path |-> rest, edges |-> NoEdges, total |-> 0, value |-> 0]),
             next, rest, value)

-----------------------------------------------------------------------------
(* process and GetTop                                                      *)

Init ==
  /\ pc = "append"
  /\ lines = <<>>
  /\ nodes = <<[path |-> <<>>, edges |-> NoEdges, total |-> 0, value |-> 0]>>
  /\ count = 0 /\ queue = {} /\ selected = {} /\ result = <<>>

AppendLine ==
  /\ pc = "append" /\ Len(lines) < MaxLines
  /\ \E path \in Paths, value \in Values :
       /\ lines' = Append(lines, [path |-> path, value |-> value])
       /\ nodes' = AppendFrom(nodes, 0, path, value)
  /\ UNCHANGED <<pc, count, queue, selected, result>>

\* A line that does not parse, or whose path does not start with the root.
BadLine ==
  /\ pc = "append" /\ pc' = "failed"
  /\ UNCHANGED <<lines, nodes, count, queue, selected, result>>

Item(id, size, depth) == [id |-> id, size |-> size, depth |-> depth]
Total(item) == nodes[item.id + 1].total

EndOfInput ==
  /\ pc = "append" /\ pc' = "select"
  /\ count' \in 0 .. MaxCount
  /\ queue' = {Item(0, 0, 0)}
  /\ UNCHANGED <<lines, nodes, selected, result>>

\* QueueItem::operator>: the greatest total first, then the smallest depth.
\* (mutants: totals only; the depth before the total)
Before_TotalOnly(a, b) == Total(a) >= Total(b)
Before_DepthFirst(a, b) ==
  a.depth < b.depth \/ (a.depth = b.depth /\ Total(a) >= Total(b))
Before(a, b) == Total(a) > Total(b) \/ (Total(a) = Total(b) /\ a.depth <= b.depth)

\* The items of a child: one for each key of its stretch.
ItemsOf(child, depth) ==
  {Item(child, pos, depth + pos) : pos \in 1 .. Len(nodes[child + 1].path)}

\* One turn of the loop in GetTop.
Pop ==
  /\ pc = "select" /\ Cardinality(selected) < count
  /\ \E item \in queue :
       LET node == nodes[item.id + 1] IN
       /\ \A other \in queue : Before(item, other)
       /\ selected' = selected \cup {<<item.id, item.size>>}
       /\ queue' = (queue \ {item}) \cup
                     IF item.size # Len(node.path) THEN {}
                     ELSE UNION {ItemsOf(node.edges[k], item.depth) : k \in DOMAIN node.edges}
  /\ UNCHANGED <<pc, lines, nodes, count, result>>

\* RetrieveNodes: the selected keys of a stretch, then, if all of them are
\* selected, the children by total and key.
RECURSIVE RetrieveNodes(_, _)
RetrieveNodes(id, depth) ==
  LET node == nodes[id + 1]
      size == Len(node.path)
      taken == Max({k \in 0 .. size : \A pos \in 1 .. k : <<id, pos>> \in selected})
      own == [pos \in 1 .. taken |->
                [total |-> node.total, value |-> IF pos = size THEN node.value ELSE 0,
                 depth |-> depth + pos, key |-> node.path[pos]]]
      root == IF id = 0 THEN <<[total |-> node.total, value |-> 0, depth |-> depth, key |-> 0]>>
              ELSE <<>>
      child(k) == nodes[node.edges[k] + 1]
      order == SetToSortSeq(DOMAIN node.edges,
                 LAMBDA a, b : child(a).total > child(b).total
                               \/ (child(a).total = child(b).total /\ a > b))
  IN  IF taken < size THEN own
      ELSE own \o root \o FlattenSeq([i \in DOMAIN order |->
                                        RetrieveNodes(node.edges[order[i]], depth + size)])

Finish ==
  /\ pc = "select" /\ (Cardinality(selected) >= count \/ queue = {})
  /\ result' = RetrieveNodes(0, 0)
  /\ pc' = "done"
  /\ UNCHANGED <<lines, nodes, count, queue, selected>>

Next == AppendLine \/ BadLine \/ EndOfInput \/ Pop \/ Finish
Spec == Init /\ [][Next]_vars

-----------------------------------------------------------------------------
(* Properties of the printed nodes.                                        *)

\* The path of the i-th printed node: up to it, the last key at each depth.
PathTo(i) ==
  [d \in 1 .. result[i].depth |->
     result[Max({j \in 1 .. i : result[j].depth = d})].key]
Shown == {PathTo(i) : i \in DOMAIN result}

Sum(P(_)) ==
  FoldLeft(LAMBDA s, l : IF P(l.path) THEN s + l.value ELSE s, 0, lines)
AllNodes == {<<>>} \cup UNION {Prefixes(lines[i].path) : i \in DOMAIN lines}
TotalOf(p) == Sum(LAMBDA q : IsPrefix(p, q))

\* Every printed node follows its parent, no node is printed twice, and its
\* total and own value are the sums over the lines below and at its path: the
\* splits, in whatever order the lines came, changed neither.  (The root's own
\* value is printed as 0.)
NodesAreSums ==
  pc = "done" =>
    /\ Cardinality(Shown) = Len(result)
    /\ \A i \in DOMAIN result :
         /\ i > 1 => result[i].depth \in 1 .. result[i - 1].depth + 1
         /\ PathTo(i) \in AllNodes
         /\ result[i].total = TotalOf(PathTo(i))
         /\ i > 1 => result[i].value = Sum(LAMBDA q : q = PathTo(i))

\* As many nodes as asked for are printed, or all there are: none of the
\* selected nodes is lost because a key before it on its stretch is missing.
AllSelectedAreShown ==
  pc = "done" /\ count > 0 => Len(result) = Min({count, Cardinality(AllNodes)})

\* Without negative values the nodes left out are the ones with the smallest
\* totals.
TheGreatestAreShown ==
  pc = "done" /\ (\A i \in DOMAIN lines : lines[i].value >= 0) =>
    \A p \in Shown \ {<<>>}, q \in AllNodes \ Shown : TotalOf(p) >= TotalOf(q)
=============================================================================
