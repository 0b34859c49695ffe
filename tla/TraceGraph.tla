------------------------------ MODULE TraceGraph ------------------------------
(***************************************************************************)
(* The graph of localized frames (memhawk_core/src/graph.rs) and the names *)
(* of its frames (localizer.rs), as the Processor (symbolizer/src/         *)
(* processor.rs) drives them: in each snapshot new traces are localized    *)
(* and added as paths, differences of sizes are postponed to their leaves, *)
(* then carried level by level to the root, and only what was modified is  *)
(* published.  Between two snapshots the service may be stopped, and start *)
(* again from what it saved.                                               *)
(*                                                                         *)
(* A difference is one number: the fields of AllocDiff are added alike.    *)
(* What the tables hold is, for each key, the last row published for it.   *)
(***************************************************************************)
EXTENDS PartialMaps, Integers, Sequences, SequencesExt, FiniteSetsExt, Functions

CONSTANTS
  Addrs,          \* addresses
  Names,          \* names of symbols, with their libraries
  Traces,         \* the traces: sequences of addresses, from the root
  InnerTraces,    \* the traces of MemHawk's own allocations
  Symbolize(_),   \* names of an address: the symbol, or its inlined frames
  Unknown,        \* a trace id that is never announced
  Diffs,          \* differences of sizes
  MaxSteps        \* bound on announced traces and differences

Predefined == <<"root", "memhawk", "unknown">>   \* ids 0, 1, 2
MEMHAWK_ROOT_LOCALIZED_ID == 1
UNKNOWN_LOCALIZED_ID == 2

\* A predefined name has no location and no library, the name of a symbol has
\* both, so they are different entries of localized_names.
ASSUME TracesAssumption ==
  /\ \A trace \in Traces : trace \in Seq(Addrs)
  /\ \A addr \in Addrs : Symbolize(addr) \in Seq(Names)
  /\ \A i \in DOMAIN Predefined : Predefined[i] \notin Names
  /\ \A d \in Diffs : d \in Int

VARIABLES
  phase,       \* "traces" or "allocs" of the snapshot being processed
  steps,       \* traces and differences so far
  names,       \* localized_names, by id: id i is names[i + 1]
  ranges,      \* addr_to_localized_range, as the frame ids in it
  pending,     \* FramesSubscription::updated_names, as ids
  nodes,       \* nodes: node n is nodes[n + 1]
  edges,       \* edges: <<from, by>> and the node
  leafOf,      \* trace_id_to_leaf_id
  postponed,   \* postponed_updates: the difference of a node
  frameAgg,    \* localized_frame_agg
  newLeafs, modSelf, modFrames,   \* new_leaf_nodes, modified_self_nodes, modified_frame_agg
  tables,      \* published: names, paths of leafs, self values, frame totals
  unpublished  \* history: ids of names that were lost when the service stopped
localizerVars == <<names, ranges, pending>>
treeVars == <<nodes, edges, leafOf, postponed, frameAgg, newLeafs, modSelf, modFrames>>
graphVars == <<phase, steps, localizerVars, treeVars, tables, unpublished>>

Node(n) == nodes[n + 1]
NodeIds(ns) == 0 .. Len(ns) - 1

\* Differences by key: the sum of both.   (mutant: the second replaces the first)
Merge_Replaced(f, g) ==
  [x \in DOMAIN f \cup DOMAIN g |-> IF x \in DOMAIN g THEN g[x] ELSE f[x]]
Merge(f, g) == [x \in DOMAIN f \cup DOMAIN g |-> Get(f, x) + Get(g, x)]

SumOver(f, S) == SumFunctionOnSet(f, S)

-----------------------------------------------------------------------------
(* FrameLocalizer                                                          *)

\* What a new name reports to the subscription: its id.   (mutant: inlined
\* frames after the first are not reported)
Reported_First(l) == IF l.ids = <<>> THEN {Len(l.names)} ELSE {}
Reported(l) == {Len(l.names)}

\* add_new_localized_name: a new name gets the next id.
AddName(l, name) ==
  LET new == IF name \in ToSet(l.names) THEN l
             ELSE [l EXCEPT !.names = Append(@, name), !.pending = @ \cup Reported(l)]
      id == (CHOOSE i \in DOMAIN new.names : new.names[i] = name) - 1
  IN  [new EXCEPT !.ids = Append(@, id)]

AddNames(l, symbols) ==
  LET w[n \in 0 .. Len(symbols)] == IF n = 0 THEN l ELSE AddName(w[n - 1], symbols[n])
  IN  w[Len(symbols)]

\* process_symbolized_frame, for an address without a range.
LocalizeAddr(l, addr) ==
  IF addr \in DOMAIN l.ranges THEN l
  ELSE LET r == AddNames([l EXCEPT !.ids = <<>>], Symbolize(addr))
       IN  [r EXCEPT !.ranges = Put(@, addr, r.ids)]

LocalizeTrace(trace) ==
  LET w[n \in 0 .. Len(trace)] ==
        IF n = 0 THEN [names |-> names, ranges |-> ranges, pending |-> pending, ids |-> <<>>]
        ELSE LocalizeAddr(w[n - 1], trace[n])
  IN  w[Len(trace)]

\* localized_trace: the ranges of its addresses, below MemHawk's root for a
\* trace of MemHawk.
LocalizedTrace(l, trace) ==
  LET w[n \in 0 .. Len(trace)] ==
        IF n = 0 THEN IF trace \in InnerTraces THEN <<MEMHAWK_ROOT_LOCALIZED_ID>> ELSE <<>>
        ELSE w[n - 1] \o l.ranges[trace[n]]
  IN  w[Len(trace)]

-----------------------------------------------------------------------------
(* Graph                                                                   *)

\* is_first_on_path   (mutant: only a direct recursion is noticed)
FirstOnPath_Direct(path, frame) == path = <<>> \/ Last(path) # frame
FirstOnPath(path, frame) == frame \notin ToSet(path)

\* One frame of construct_path, with add_node.
Descend(g, frame) ==
  LET edge == {e \in g.edges : e.from = g.node /\ e.by = frame}
      new == Len(g.nodes)
  IN  [g EXCEPT
         !.path = Append(@, frame),
         !.node = IF edge # {} THEN (CHOOSE e \in edge : TRUE).to ELSE new,
         !.edges = IF edge # {} THEN @ ELSE @ \cup {[from |-> g.node, by |-> frame, to |-> new]},
         !.nodes = IF edge # {} THEN @
                   ELSE Append(@, [key |-> frame, parent |-> g.node,
                                   level |-> g.nodes[g.node + 1].level + 1, leaf |-> FALSE,
                                   first |-> FirstOnPath(g.path, frame), self |-> 0, total |-> 0])]

\* construct_path: the leaf, and the graph with it.
ConstructPath(frames) ==
  LET w[n \in 0 .. Len(frames)] ==
        IF n = 0 THEN [nodes |-> nodes, edges |-> edges, node |-> 0, path |-> <<>>]
        ELSE Descend(w[n - 1], frames[n])
      g == w[Len(frames)]
      leaf == g.node + 1
  IN  [node |-> g.node, edges |-> g.edges,
       nodes |-> [g.nodes EXCEPT ![leaf].leaf = TRUE],
       newLeafs |-> IF g.nodes[leaf].leaf THEN newLeafs ELSE newLeafs \cup {g.node}]

\* A node's difference goes to its parent.
Lift(f) ==
  [p \in {Node(n).parent : n \in DOMAIN f} |->
     SumOver(f, {n \in DOMAIN f : Node(n).parent = p})]

\* process_postponed_updates: cur_accumulated_diff of all levels.
Own(level) == [n \in {m \in DOMAIN postponed : Node(m).level = level} |-> postponed[n]]
Deepest == Max({0} \cup {Node(n).level : n \in DOMAIN postponed})
Accumulated ==
  LET turn[i \in 0 .. Deepest] ==
        IF i = 0 THEN Own(Deepest) ELSE Merge(Lift(turn[i - 1]), Own(Deepest - i))
  IN  [n \in UNION {DOMAIN turn[i] : i \in 0 .. Deepest} |-> turn[Deepest - Node(n).level][n]]

\* aggregate_on_frame: the differences of the nodes that are first on their path.
OnFrames(f) ==
  LET firsts == {n \in DOMAIN f : Node(n).first}
  IN  [k \in {Node(n).key : n \in firsts} |-> SumOver(f, {n \in firsts : Node(n).key = k})]

\* modified_frame_agg after the update.   (mutant: only frames with a self value)
Touched_Self(own, acc) == modFrames \cup DOMAIN own
Touched(own, acc) == modFrames \cup DOMAIN own \cup DOMAIN acc

-----------------------------------------------------------------------------
GraphInit ==
  /\ phase = "traces" /\ steps = 0
  /\ names = Predefined /\ ranges = Empty /\ pending = {0, 1, 2}
  /\ nodes = <<[key |-> 0, parent |-> 0, level |-> 0, leaf |-> FALSE, first |-> TRUE,
                self |-> 0, total |-> 0]>>
  /\ edges = {} /\ leafOf = Empty /\ postponed = Empty
  /\ frameAgg = [self |-> Empty, total |-> Empty]
  /\ newLeafs = {} /\ modSelf = {} /\ modFrames = {}
  /\ tables = [names |-> {}, paths |-> Empty, self |-> Empty, frames |-> Empty]
  /\ unpublished = {}

\* process_stacktraces: one trace.
ProcessStacktrace ==
  /\ phase = "traces" /\ steps < MaxSteps
  /\ steps' = steps + 1
  /\ \E trace \in Traces \ DOMAIN leafOf :
       LET l == LocalizeTrace(trace)
           g == ConstructPath(LocalizedTrace(l, trace)) IN
       /\ names' = l.names /\ ranges' = l.ranges /\ pending' = l.pending
       /\ nodes' = g.nodes /\ edges' = g.edges /\ newLeafs' = g.newLeafs
       /\ leafOf' = Put(leafOf, trace, g.node)
  /\ UNCHANGED <<phase, postponed, frameAgg, modSelf, modFrames, tables, unpublished>>

\* process_alloc_summary and postpone_diff_update.
ProcessAllocSummary ==
  /\ steps < MaxSteps
  /\ steps' = steps + 1
  /\ phase' = "allocs"
  /\ \E id \in DOMAIN leafOf \cup {Unknown}, d \in Diffs :
       LET g == IF id = Unknown THEN ConstructPath(<<UNKNOWN_LOCALIZED_ID>>)
                ELSE [node |-> leafOf[id], nodes |-> nodes, edges |-> edges, newLeafs |-> newLeafs] IN
       /\ nodes' = g.nodes /\ edges' = g.edges /\ newLeafs' = g.newLeafs
       /\ postponed' = Put(postponed, g.node, Get(postponed, g.node) + d)
       /\ modSelf' = modSelf \cup {g.node}
  /\ UNCHANGED <<localizerVars, leafOf, frameAgg, modFrames, tables, unpublished>>

\* backtrace: the nodes from the root to n; and their keys.
Backtrace(ns, n) ==
  LET path[m \in NodeIds(ns)] == IF m = 0 THEN <<0>> ELSE Append(path[ns[m + 1].parent], m)
  IN  path[n]
PathTo(ns, n) == [i \in DOMAIN Backtrace(ns, n) |-> ns[Backtrace(ns, n)[i] + 1].key]

\* process_modifications: process_postponed_updates, consume_modifications and
\* the rows made of them.
ProcessModifications ==
  /\ LET acc == Accumulated
         updated == [i \in DOMAIN nodes |->
                       [nodes[i] EXCEPT !.self = @ + Get(postponed, i - 1),
                                        !.total = @ + Get(acc, i - 1)]]
         agg == [self  |-> Merge(frameAgg.self, OnFrames(postponed)),
                 total |-> Merge(frameAgg.total, OnFrames(acc))]
         touched == Touched(OnFrames(postponed), OnFrames(acc)) IN
     /\ nodes' = updated
     /\ frameAgg' = agg
     /\ tables' =
          [names  |-> tables.names \cup pending,
           paths  |-> [n \in DOMAIN tables.paths \cup newLeafs |->
                         IF n \in newLeafs THEN PathTo(nodes, n) ELSE tables.paths[n]],
           self   |-> [n \in DOMAIN tables.self \cup modSelf |->
                         IF n \in modSelf THEN updated[n + 1].self ELSE tables.self[n]],
           frames |-> [k \in DOMAIN tables.frames \cup touched |->
                         IF k \in touched THEN [self |-> Get(agg.self, k), total |-> Get(agg.total, k)]
                         ELSE tables.frames[k]]]
  /\ phase' = "traces"
  /\ postponed' = Empty /\ newLeafs' = {} /\ modSelf' = {} /\ modFrames' = {} /\ pending' = {}
  /\ UNCHANGED <<steps, names, ranges, edges, leafOf, unpublished>>

\* The service stops after a snapshot and saves; the next run restores all but
\* the subscription, which starts empty.
Restart ==
  /\ phase = "traces" /\ newLeafs = {} /\ modSelf = {}
  /\ pending # {}
  /\ pending' = {}
  /\ unpublished' = unpublished \cup pending
  /\ UNCHANGED <<phase, steps, names, ranges, treeVars, tables>>

GraphNext == ProcessStacktrace \/ ProcessAllocSummary \/ ProcessModifications \/ Restart
GraphSpec == GraphInit /\ [][GraphNext]_graphVars

-----------------------------------------------------------------------------
(* Properties, of the state between two snapshots.                         *)

Between == phase = "traces"

\* The nodes below n, and those whose path has the key k.
Subtree(n) == {m \in NodeIds(nodes) : n \in ToSet(Backtrace(nodes, m))}
Below(k) == {m \in NodeIds(nodes) : k \in ToSet(PathTo(nodes, m))}
SelfValue == [n \in NodeIds(nodes) |-> Node(n).self]

\* The total of a node is the sum of the self values below it, although it is
\* only ever changed by differences that were merged level by level.
TotalsAreSubtrees ==
  Between => \A n \in NodeIds(nodes) : Node(n).total = SumOver(SelfValue, Subtree(n))

\* The total of a frame counts every leaf whose path contains it, once,
\* however often the frame occurs on the path (first_on_path).
FramesCountPathsOnce ==
  Between => \A k \in DOMAIN frameAgg.total : frameAgg.total[k] = SumOver(SelfValue, Below(k))

\* The tables show the graph: what consume_modifications leaves out is there
\* already with the value it has, and every self value has a path.
TablesShowTheGraph ==
  Between =>
    /\ \A n \in NodeIds(nodes) : Get(tables.self, n) = Node(n).self
    /\ \A n \in DOMAIN tables.self :
         n \in DOMAIN tables.paths /\ tables.paths[n] = PathTo(nodes, n)
    /\ \A k \in DOMAIN frameAgg.total :
         k \in DOMAIN tables.frames /\ tables.frames[k].total = frameAgg.total[k]

\* A frame on a published path has a published name; a name can be missing only
\* if the service was stopped before its first snapshot, when the names of the
\* predefined frames are saved and not published.
FramesHaveNames ==
  /\ \A n \in DOMAIN tables.paths : ToSet(tables.paths[n]) \subseteq tables.names \cup unpublished
  /\ unpublished \subseteq {0, 1, 2}

\* Totals of nodes and of frames are the sums of the self values they stand
\* for, each path counted once, although updates arrive merged and by level.
GraphCorrect == TotalsAreSubtrees /\ FramesCountPathsOnce

\* After a snapshot the tables show the graph, under published names.
TablesCorrect == TablesShowTheGraph /\ FramesHaveNames
=============================================================================
