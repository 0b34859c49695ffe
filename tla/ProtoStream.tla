----------------------------- MODULE ProtoStream -----------------------------
(***************************************************************************)
(* The protobuf report and its reader: ProtobufWriter (proto_writer.cpp)   *)
(* accumulates what the worker accounts and appends snapshots of what      *)
(* changed, announcing each trace and each address once; the Processor     *)
(* (rust/symbolizer/src/processor.rs) rebuilds the traces and the size of  *)
(* every path, skipping snapshots that are not younger than the last one.  *)
(*                                                                         *)
(* Only the size of an AllocSummary is kept: its fields are added and      *)
(* subtracted alike.  Symbolizing an address is the constant Localize, a   *)
(* path is the sequence of localized frames from the root, and the graph   *)
(* is the size of each path (module TraceGraph has the rest of it).        *)
(* AccountSnapshot is split into calls with one trace each.                *)
(***************************************************************************)
EXTENDS PartialMaps, Integers, Sequences, SequencesExt, FiniteSetsExt, Functions

CONSTANTS
  Stack,           \* Stack[id]: addresses of a trace, innermost first
  Unfound,         \* ids no stack-trace tracker resolves
  InnerIds,        \* ids of the inner tracker
  Localize(_),     \* frames of an address, inlined ones included
  MemhawkRoot,     \* MEMHAWK_ROOT_LOCALIZED_ID
  UnknownFrame,    \* UNKNOWN_LOCALIZED_ID
  SizeDeltas,      \* sizes that are accounted
  StartTime,       \* timestamp of the first snapshot
  MaxTime,         \* bound on timestamps
  MaxSnapshots,    \* bound on Len(file)
  MaxCalls         \* bound on the calls of AccountSnapshot

StackId == DOMAIN Stack
Addr == UNION {ToSet(Stack[id]) : id \in StackId}

ASSUME StackAssumption == 0 \in StackId /\ \A id \in StackId : Stack[id] \in Seq(Addr)
ASSUME SizesAssumption == SizeDeltas \subseteq Int
ASSUME TimeAssumption == StartTime \in Nat \ {0} /\ MaxTime \in Nat

VARIABLES
  found,         \* ids the trackers have given out: the finder resolves them
  summaries,     \* m_localSummaries
  changedIds,       \* m_changedSummaries
  written,       \* m_writtenTraces
  ptrs,          \* addresses in the order of their ids (m_ptrMap)
  file,          \* the snapshots
  calls,         \* number of calls of AccountSnapshot
  pos,           \* snapshots the reader has passed
  last,          \* last_processed_timestamp
  addrs,         \* ptr_id_to_addr_map
  leaf,          \* trace_id_to_leaf_id, as paths
  lastSummary,   \* trace_id_to_last_summary
  size,          \* self value of each path of the graph
  skipped        \* history: the snapshots that were skipped
protoWriterVars == <<found, summaries, changedIds, written, ptrs, file, calls>>
protoReaderVars == <<pos, last, addrs, leaf, lastSummary, size, skipped>>
protoVars == <<protoWriterVars, protoReaderVars>>

-----------------------------------------------------------------------------
(* ProtobufWriter                                                          *)

Account(f, id, s) == Put(f, id, Get(f, id) + s)

\* Addresses with their ids: those of the trace that are new come last.
PtrKnown(known, p) == IF p \in ToSet(known) THEN known ELSE Append(known, p)
PtrsKnown(known, trace) ==
  LET w[n \in 0 .. Len(trace)] == IF n = 0 THEN known ELSE PtrKnown(w[n - 1], trace[n])
  IN  w[Len(trace)]

\* The trace in ids of addresses.
PtrIds(known, id) ==
  [i \in DOMAIN Stack[id] |-> CHOOSE j \in DOMAIN known : known[j] = Stack[id][i]]

\* AddStacktrace: the trace in ids of addresses, and the new addresses.
\* (mutant: a trace without new addresses is taken for a known one)
AddStacktrace_NewAddresses(st, id) ==
  LET known == PtrsKnown(st.ptrs, Stack[id])
  IN  IF id \notin found \/ known = st.ptrs THEN st
      ELSE [st EXCEPT
              !.ptrs = known,
              !.snap.ptrIds = @ \cup {<<i, known[i]>> : i \in Len(st.ptrs) + 1 .. Len(known)},
              !.snap.stacktraces = Append(@, [id |-> id, ptrs |-> PtrIds(known, id)])]
AddStacktrace(st, id) ==
  LET known == PtrsKnown(st.ptrs, Stack[id])
  IN  IF id \notin found THEN st
      ELSE [st EXCEPT
              !.ptrs = known,
              !.snap.ptrIds = @ \cup {<<i, known[i]>> : i \in Len(st.ptrs) + 1 .. Len(known)},
              !.snap.stacktraces = Append(@, [id |-> id, ptrs |-> PtrIds(known, id)])]

\* One trace of the loop in FlushData, and FillChangedSummary: what has been
\* accumulated is written.   (mutant: only with the trace itself)
FlushChanged_NewOnly(st, id) ==
  IF id \in st.written THEN st
  ELSE LET a == AddStacktrace(st, id)
       IN  [a EXCEPT !.written = @ \cup {id},
                     !.snap.changed = Append(@, [id |-> id, actual |-> summaries[id]])]
FlushChanged(st, id) ==
  LET a == IF id \in st.written THEN st
           ELSE [AddStacktrace(st, id) EXCEPT !.written = @ \cup {id}]
  IN  [a EXCEPT !.snap.changed = Append(@, [id |-> id, actual |-> summaries[id]])]

\* FlushData at the time now; the traces come in the order of a hash set.
FlushingAll(order, now) ==
  LET w[n \in 0 .. Len(order)] ==
        IF n = 0
          THEN [ptrs |-> ptrs, written |-> written,
                snap |-> [time |-> now, ptrIds |-> {}, stacktraces |-> <<>>, changed |-> <<>>]]
          ELSE FlushChanged(w[n - 1], order[n])
  IN  w

\* The constructor accounts an empty summary of trace 0, which no tracker has
\* given out yet, and flushes it.
ProtoInit ==
  /\ found = {}
  /\ summaries = Put(Empty, 0, 0)
  /\ changedIds = {}
  /\ written = {0}
  /\ ptrs = <<>>
  /\ file = <<[time |-> StartTime, ptrIds |-> {}, stacktraces |-> <<>>,
               changed |-> <<[id |-> 0, actual |-> 0]>>]>>
  /\ calls = 0
  /\ pos = 0 /\ last = 0
  /\ addrs = Empty /\ leaf = Empty /\ lastSummary = Empty /\ size = Empty
  /\ skipped = {}

ProtoAccount ==
  /\ calls < MaxCalls
  /\ \E id \in StackId, s \in SizeDeltas :
       /\ summaries' = Account(summaries, id, s)
       /\ changedIds' = changedIds \cup {id}
       /\ found' = found \cup ({id} \ Unfound)
  /\ calls' = calls + 1
  /\ UNCHANGED <<written, ptrs, file, protoReaderVars>>

ProtoFlush ==
  /\ Len(file) < MaxSnapshots
  /\ \E order \in SetToSeqs(changedIds), now \in 1 .. MaxTime :
       LET r == FlushingAll(order, now)[Len(order)] IN
       /\ ptrs' = r.ptrs
       /\ written' = r.written
       /\ file' = Append(file, r.snap)
  /\ changedIds' = {}
  /\ UNCHANGED <<found, summaries, calls, protoReaderVars>>

-----------------------------------------------------------------------------
(* Processor                                                               *)

\* The addresses that a sequence of keys stands for: unknown keys are left out.
FilterOne(known, s, key) == IF key \in DOMAIN known THEN Append(s, known[key]) ELSE s
FilterMap(known, keys) ==
  LET w[n \in 0 .. Len(keys)] == IF n = 0 THEN <<>> ELSE FilterOne(known, w[n - 1], keys[n])
  IN  w[Len(keys)]

\* The frames of a sequence of addresses from the root.
PathOf(id, addresses) ==
  (IF id \in InnerIds THEN <<MemhawkRoot>> ELSE <<>>)
    \o FlattenSeq([i \in DOMAIN addresses |-> Localize(Reverse(addresses)[i])])

\* ptr_id_to_addr_map with the addresses of a snapshot, which come before its
\* traces.   (mutant: after them)
WithPtrIds(snap) ==
  [i \in DOMAIN addrs \cup {p[1] : p \in snap.ptrIds} |->
     IF \E p \in snap.ptrIds : p[1] = i
       THEN (CHOOSE p \in snap.ptrIds : p[1] = i)[2] ELSE addrs[i]]
AddrsForTraces_Before(snap) == addrs
AddrsForTraces(snap) == WithPtrIds(snap)

\* One trace of process_stacktraces.
LocalizedTrace(known, st) == PathOf(st.id, FilterMap(known, st.ptrs))

\* process_stacktraces: trace_id_to_leaf_id after each trace of a snapshot.
ProcessStacktraces(known, traces) ==
  LET w[n \in 0 .. Len(traces)] ==
        IF n = 0 THEN leaf
        ELSE Put(w[n - 1], traces[n].id, LocalizedTrace(known, traces[n]))
  IN  w

\* The leaf a summary of a trace goes to.
LeafOf(leafs, id) == IF id \in DOMAIN leafs THEN leafs[id] ELSE <<UnknownFrame>>

\* process_alloc_summary: the difference to the last summary goes to the leaf.
\* (mutant: the whole summary does)
Diff_Whole(st, c) == c.actual
Diff(st, c) == c.actual - Get(st.lastSummary, c.id)
ProcessAllocSummary(leafs, st, c) ==
  [lastSummary |-> Put(st.lastSummary, c.id, c.actual),
   size |-> Account(st.size, LeafOf(leafs, c.id), Diff(st, c))]

\* process_allocations: the sizes after each summary of a snapshot.
ProcessAllocations(leafs, sums) ==
  LET w[n \in 0 .. Len(sums)] ==
        IF n = 0 THEN [lastSummary |-> lastSummary, size |-> size]
        ELSE ProcessAllocSummary(leafs, w[n - 1], sums[n])
  IN  w

\* process: the test on the timestamp.
IsOld(snap) == snap.time <= last

SkipSnapshot ==
  /\ pos < Len(file) /\ IsOld(file[pos + 1])
  /\ pos' = pos + 1
  /\ skipped' = skipped \cup {pos + 1}
  /\ UNCHANGED <<protoWriterVars, last, addrs, leaf, lastSummary, size>>

ProcessSnapshot ==
  /\ pos < Len(file) /\ ~IsOld(file[pos + 1])
  /\ LET snap == file[pos + 1]
         traces == snap.stacktraces
         leafs == ProcessStacktraces(AddrsForTraces(snap), traces)[Len(traces)]
         r == ProcessAllocations(leafs, snap.changed)[Len(snap.changed)]
     IN  /\ addrs' = WithPtrIds(snap)
         /\ leaf' = leafs
         /\ lastSummary' = r.lastSummary /\ size' = r.size
         /\ last' = snap.time
  /\ pos' = pos + 1
  /\ UNCHANGED <<protoWriterVars, skipped>>

ProtoNext == ProtoAccount \/ ProtoFlush \/ SkipSnapshot \/ ProcessSnapshot
ProtoSpec == ProtoInit /\ [][ProtoNext]_protoVars

-----------------------------------------------------------------------------
(* Properties.                                                             *)

Lists(snap, id) == \E i \in DOMAIN snap.changed : snap.changed[i].id = id
Announces(snap, id) == \E i \in DOMAIN snap.stacktraces : snap.stacktraces[i].id = id

\* The addresses that only a skipped snapshot announced.
Lost == {p \in Addr : \E k \in skipped : \E e \in file[k].ptrIds : e[2] = p}

\* The path the reader shows for a trace: the real one, but for lost addresses.
ShownPath(id) == PathOf(id, FilterMap([p \in Addr \ Lost |-> p], Stack[id]))

\* A trace keeps the leaf it has at its first summary, and its leaf is where
\* its frames say: the reader never attributes to another path, although the
\* writer names addresses by ids that only earlier snapshots explain.
LeafIsThePath == \A id \in DOMAIN leaf : leaf[id] = ShownPath(id)

\* Every trace the reader has a summary of is found in the size of exactly one
\* path, whatever was skipped: the sizes are the sums of the last summaries
\* (process_alloc_summary works with differences).
SizesAreSums ==
  /\ \A id \in DOMAIN lastSummary : LeafOf(leaf, id) \in DOMAIN size
  /\ \A p \in DOMAIN size :
       LET ids == {id \in DOMAIN lastSummary : LeafOf(leaf, id) = p}
       IN  size[p] = SumFunction([id \in ids |-> lastSummary[id]])

\* The processor attributes the sizes of the proto file to the paths of their
\* traces, whatever it skipped.
PathsAndSizes == LeafIsThePath /\ SizesAreSums

\* A reader that has caught up knows the accumulated size of every trace that
\* was in no skipped snapshot since it last changed.
CaughtUp ==
  pos = Len(file) =>
    \A id \in DOMAIN summaries \ changedIds :
      LET k == Max({j \in DOMAIN file : Lists(file[j], id)})
      IN  k \notin skipped => id \in DOMAIN lastSummary /\ lastSummary[id] = summaries[id]

\* Sizes are attributed to the unknown frame only for traces that no tracker
\* resolves, for trace 0 (written by the constructor before any tracker gave
\* it out), and for traces whose announcement was in a skipped snapshot.
UnknownIsExplained ==
  \A id \in DOMAIN lastSummary \ DOMAIN leaf :
    id \in Unfound \/ id = 0 \/ \E k \in skipped : Announces(file[k], id)

\* A processor that has caught up knows what the writer knows, but for what was
\* in the snapshots it skipped.
ReaderCatchesUp == CaughtUp /\ UnknownIsExplained
=============================================================================
