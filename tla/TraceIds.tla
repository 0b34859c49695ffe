------------------------------ MODULE TraceIds ------------------------------
(***************************************************************************)
(* From stack traces to trace ids and back: the cache of each thread       *)
(* tracker (lru_cache.h), the tree of the external trackers                *)
(* (stacktrace_tree.h, trackers/stacktrace_tracker.cpp), the fixed storage *)
(* of the inner tracker (trackers/stacktrace_tracker_static.cpp), and the  *)
(* finder the writers ask for the trace of an id (memhawk.h).              *)
(*                                                                         *)
(* A trace is a sequence of addresses, innermost first.  Compressed traces *)
(* are compared only, and stand for the traces (module BitPacking); their  *)
(* size is the constant CompressedSize.  For the program's allocations     *)
(* SaveTraceId runs under the lock of its thread tracker; the stack-trace  *)
(* tracker has a lock of its own, taken between the two accesses to the    *)
(* cache.  For MemHawk's own allocations any thread hands the raw trace to *)
(* the fixed storage, under the lock of that storage alone: there is no    *)
(* cache and no recursion is collapsed.                                    *)
(***************************************************************************)
EXTENDS StacktraceTree, FiniteSetsExt

CONSTANTS
  External,             \* thread trackers that share the tree
  Inner,                \* the source of MemHawk's own allocations
  Traces,               \* raw traces, as unwound
  Collapse(_),          \* CollapseRecursion at the configured depth
  CompressedSize(_),    \* words of a compressed trace
  Capacity,             \* capacity of the caches
  ElementsCount,        \* of the fixed storage
  StorageSize,          \* words of the fixed storage
  MaxStacktraceLength,  \* longest trace in the fixed storage
  Flag,                 \* FixedTrackerIdFlag
  MaxNodes,             \* bound on the nodes of the tree
  MaxSaves              \* bound on the allocations

ASSUME CapacityAssumption == Capacity \in Nat \ {0}
ASSUME InnerAssumption == Inner \notin External
ASSUME TracesAssumption ==
  \A trace \in Traces : trace \in Seq(Addresses) /\ Collapse(trace) \in Seq(Addresses)
ASSUME LengthAssumption == MaxStacktraceLength \in Nat

\* Ids have 32 bits, and Flag is the highest one (FixedTrackerIdFlag): the ids
\* of the fixed storage have it, and a tree whose ids reach it would not fit
\* into memory.
ASSUME FlagAssumption ==
  /\ Flag \in Nat /\ ElementsCount \in Nat /\ MaxNodes \in Nat
  /\ ElementsCount + 1 < Flag /\ MaxNodes < Flag

VARIABLES
  storage,   \* StacktraceTracker::m_storage
  elements,  \* m_elements[0 .. m_size) of the static tracker
  lru,       \* lru[t]: key and value, least recently used first
  pc,        \* pc[t]: SaveTraceId of tracker t
  cur,       \* cur[t]: the trace it is called with
  got,       \* got[t]: the id InsertStacktrace returned
  saves,     \* number of allocations
  given,     \* history: <<tracker or Inner, raw trace, id>> that were returned
  used       \* history: used[t]: raw traces by their last use
traceVars == <<storage, elements>>
vars == <<storage, elements, lru, pc, cur, got, saves, given, used>>

UnknownTraceId == ElementsCount + 1 + Flag

-----------------------------------------------------------------------------
(* StacktraceTracker                                                       *)

\* PostponedConstruct: the root has the id of a null address.
NewStorage == [tree |-> WithPtr(NewTree, Null), nodes |-> <<>>, leafs |-> {}]

\* InsertStacktrace: the callback appends a node, numbered by its position.
TreeInsert(st, trace) ==
  LET r == index(st.tree, trace)
  IN  [storage |-> [tree |-> r.tree, nodes |-> st.nodes \o r.calls,
                    leafs |-> st.leafs \cup {r.node}],
       id |-> r.node]

\* GetStacktrace: from a node to the root.
NodePaths(ptrs, nodes) ==
  LET path[n \in 0 .. Len(nodes)] ==
        IF n = 0 THEN <<>> ELSE <<ptrs[nodes[n].ptrId]>> \o path[nodes[n].parent]
  IN  path

\* GetStacktraceFromId, as a set of at most one trace.
TreeFind(st, id) ==
  IF id <= Len(st.nodes) /\ id \in st.leafs THEN {NodePaths(st.tree.ptrs, st.nodes)[id]} ELSE {}

-----------------------------------------------------------------------------
(* StaticStacktraceTracker: element i (from 0) is elements[i + 1].         *)

Truncated(trace) == SubSeq(trace, 1, Min({Len(trace), MaxStacktraceLength}))

StorageUsed(els) == FoldLeft(LAMBDA n, e : n + CompressedSize(e), 0, els)

Fits(els, e) ==
  StorageUsed(els) + CompressedSize(e) < StorageSize /\ Len(els) + 1 < ElementsCount

\* InsertStacktrace and InsertStacktraceUnlocked.   (mutant: an equal element
\* is not looked for)
StaticInsert_NoFind(els, trace) ==
  LET e == Truncated(trace)
  IN  IF Fits(els, e) THEN [els |-> Append(els, e), id |-> Len(els) + Flag]
      ELSE [els |-> els, id |-> UnknownTraceId]
StaticInsert(els, trace) ==
  LET e == Truncated(trace)
      found == {i \in DOMAIN els : els[i] = e}
  IN  IF found # {} THEN [els |-> els, id |-> Min(found) - 1 + Flag]
      ELSE IF Fits(els, e) THEN [els |-> Append(els, e), id |-> Len(els) + Flag]
      ELSE [els |-> els, id |-> UnknownTraceId]

\* GetStacktraceFromId
StaticFind(els, id) ==
  {els[i + 1] : i \in {j \in 0 .. Len(els) - 1 : j + Flag = id}}

\* InnerStacktraceFinder: the tree is asked first.
Find(id) == IF TreeFind(storage, id) # {} THEN TreeFind(storage, id) ELSE StaticFind(elements, id)

-----------------------------------------------------------------------------
(* LruCache                                                                *)

\* Relocate: to the end of the order.   (mutant: a hit leaves the order)
Relocate_Not(cache, i) == cache
Relocate(cache, i) == Append(RemoveAt(cache, i), cache[i])

\* Insert: at capacity the first node takes the new key and value.
LruInsert(cache, node) ==
  IF Len(cache) >= Capacity THEN Relocate([cache EXCEPT ![1] = node], 1)
  ELSE Append(cache, node)

-----------------------------------------------------------------------------
(* ThreadTracker::LockedTracker::SaveTraceId                               *)

Init ==
  /\ storage = NewStorage
  /\ elements = <<>>
  /\ lru = [t \in External |-> <<>>]
  /\ pc = [t \in External |-> "idle"]
  /\ cur = [t \in External |-> <<>>]
  /\ got = [t \in External |-> 0]
  /\ saves = 0
  /\ given = {}
  /\ used = [t \in External |-> <<>>]

\* Compress and Touch.
Touch(t) ==
  /\ pc[t] = "idle" /\ saves < MaxSaves
  /\ saves' = saves + 1
  /\ \E trace \in Traces :
       LET hit == {i \in DOMAIN lru[t] : lru[t][i].key = trace} IN
       /\ used' = [used EXCEPT ![t] = Append(RemoveFirst(@, trace), trace)]
       /\ IF hit # {}
            THEN LET i == CHOOSE i \in hit : TRUE IN
                 /\ lru' = [lru EXCEPT ![t] = Relocate(@, i)]
                 /\ given' = given \cup {<<t, trace, lru[t][i].value>>}
                 /\ UNCHANGED <<pc, cur>>
            ELSE /\ pc' = [pc EXCEPT ![t] = "insert"]
                 /\ cur' = [cur EXCEPT ![t] = trace]
                 /\ UNCHANGED <<lru, given>>
  /\ UNCHANGED <<traceVars, got>>

\* CollapseRecursion and InsertStacktrace.
InsertStacktrace(t) ==
  /\ pc[t] = "insert"
  /\ Len(storage.nodes) + Len(Collapse(cur[t])) <= MaxNodes
  /\ LET r == TreeInsert(storage, Collapse(cur[t])) IN
     storage' = r.storage /\ got' = [got EXCEPT ![t] = r.id]
  /\ pc' = [pc EXCEPT ![t] = "cache"]
  /\ UNCHANGED <<elements, lru, cur, saves, given, used>>

CacheInsert(t) ==
  /\ pc[t] = "cache"
  /\ lru' = [lru EXCEPT ![t] = LruInsert(@, [key |-> cur[t], value |-> got[t]])]
  /\ given' = given \cup {<<t, cur[t], got[t]>>}
  /\ pc' = [pc EXCEPT ![t] = "idle"]
  /\ UNCHANGED <<traceVars, cur, got, saves, used>>

-----------------------------------------------------------------------------
(* MemHawk::TrackAlloc and TrackRealloc of an inner allocation             *)

\* m_innerBtTracker.InsertStacktrace(trace), in any thread, at any time: it
\* holds the lock of the fixed storage from the search to the append.
InsertInner ==
  /\ saves < MaxSaves
  /\ saves' = saves + 1
  /\ \E trace \in Traces :
       LET r == StaticInsert(elements, trace) IN
       /\ elements' = r.els
       /\ given' = given \cup {<<Inner, trace, r.id>>}
  /\ UNCHANGED <<storage, lru, pc, cur, got, used>>

-----------------------------------------------------------------------------
Next ==
  \/ \E t \in External : Touch(t) \/ InsertStacktrace(t) \/ CacheInsert(t)
  \/ InsertInner
Spec == Init /\ [][Next]_vars

-----------------------------------------------------------------------------
(* Properties.                                                             *)

\* The trace a report shows for what was allocated with a raw trace: MemHawk's
\* own traces are cut and keep their recursion, the program's are collapsed.
Kept(t, raw) == IF t = Inner THEN Truncated(raw) ELSE NotNull(Collapse(raw))

\* An id that was given resolves for ever to the trace it was given for, also
\* when it comes out of a cache, while the trees grow under other trackers;
\* the id of the traces that no longer fit never resolves to one of them.
Resolves ==
  \A g \in given : Find(g[3]) = IF g[3] = UnknownTraceId THEN {} ELSE {Kept(g[1], g[2])}

\* Threads that race to insert agree: two ids of one storage are equal exactly
\* if the kept traces are, and no id of the tree is one of the fixed storage.
SameTraceSameId ==
  \A g, h \in given :
    /\ (g[1] = Inner) # (h[1] = Inner) => g[3] # h[3]
    /\ (g[1] = Inner) = (h[1] = Inner) /\ UnknownTraceId \notin {g[3], h[3]} =>
         (g[3] = h[3] <=> Kept(g[1], g[2]) = Kept(h[1], h[2]))

\* An id resolves for ever to the trace it was given for, and threads that
\* race to insert agree on it (SaveTraceId, and InsertStacktrace of both
\* stack-trace trackers).
IdsResolve == Resolves /\ SameTraceSameId

\* The cache of a thread tracker holds the traces it used last, each once, in the order of
\* their last use; eviction never takes a younger one.
HoldsTheLatest ==
  \A t \in External :
    pc[t] = "idle" =>
      LET n == Len(used[t])
          first == IF n > Capacity THEN n - Capacity + 1 ELSE 1
      IN  [i \in DOMAIN lru[t] |-> lru[t][i].key] = SubSeq(used[t], first, n)
=============================================================================
