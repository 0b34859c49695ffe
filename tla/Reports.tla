------------------------------- MODULE Reports -------------------------------
(***************************************************************************)
(* The reports a person reads: TextWriter (text_writer.cpp) lists the      *)
(* biggest traces of the application and of MemHawk, HeaptrackWriter       *)
(* (heaptrack_writer.cpp) writes raw heaptrack records, in which a trace   *)
(* is one block that is freed and allocated again when its size changes.   *)
(* Both are fed by WritersAdaptor (adaptor.h).  How heaptrack reads the    *)
(* records is external: records "t" number the nodes of a tree from 1, "+" *)
(* allocates a block, "-" frees it and is ignored if there is none.        *)
(*                                                                         *)
(* AccountSnapshot is split into calls with one trace each.  The address   *)
(* of a "t" record stands for the call before it (--ip).  Layout, the      *)
(* headers, timestamps and RSS are left out; modules are in ModuleCache.   *)
(***************************************************************************)
EXTENDS PartialMaps, StacktraceTree, FiniteSetsExt

CONSTANTS
  Trace,           \* Trace[id]: addresses, innermost first
  Unresolved,      \* ids no stack-trace tracker resolves
  Internal,        \* ids with FixedTrackerIdFlag
  Deltas,          \* summaries a tracker hands over for a trace
  Enabled,         \* sections whose traces are listed
  BySizeCount,     \* BySizeCount[section]: by_size_count
  ByTotalCount,    \* ByTotalCount[section]: by_total_count
  MaxAccounts      \* bound on the calls of AccountSnapshot

TraceId == DOMAIN Trace

ASSUME TraceAssumption == \A id \in TraceId : Trace[id] \in Seq(Addresses)
ASSUME DeltasAssumption == Deltas \subseteq [size : Int, active : Int, count : Int]

VARIABLES
  accounts,       \* number of calls
  allocsIndex,    \* m_externalAllocsIndex and m_internalAllocsIndex, by trace
  totals,         \* m_externalAllocsSummary, m_internalAllocsSummary
  listed,         \* m_writtenStacktraces
  described,      \* traces in the file of stack traces
  report,         \* the last summary in the text report
  changed,        \* m_changedSummaries
  heaptrack       \* HeaptrackWriter and what heaptrack has read:
                  \*   sizes     m_summaries: current and prev of each trace
                  \*   node      m_writtenTraces: the node of a written trace
                  \*   tree      m_tree
                  \*   tRecords  the "t" records
                  \*   blocks    the blocks allocated for each trace
textVars == <<allocsIndex, totals, listed, described, report>>
reportVars == <<accounts, textVars, changed, heaptrack>>

Zero == [size |-> 0, active |-> 0, count |-> 0]
Plus(s, d) == [size |-> s.size + d.size, active |-> s.active + d.active,
               count |-> s.count + d.count]
IsFixedTrackerId(id) == id \in Internal
Sections == {"external", "internal"}
Section(id) == IF IsFixedTrackerId(id) THEN "internal" ELSE "external"
Finds(id) == id \notin Unresolved

ReportsInit ==
  /\ accounts = 0
  /\ allocsIndex = [id \in {} |-> Zero]
  /\ totals = [s \in Sections |-> Zero]
  /\ listed = {} /\ described = {}
  /\ report = [totals |-> totals, bySize |-> {}, byCount |-> {}]
  /\ changed = {}
  /\ heaptrack = [sizes |-> [id \in {} |-> 0], node |-> [id \in {} |-> 0], tree |-> NewTree,
                  tRecords |-> <<>>, blocks |-> [id \in TraceId |-> <<>>]]

-----------------------------------------------------------------------------
(* WritersAdaptor::AccountSnapshot                                         *)

\* HeaptrackWriter: the size of a known trace changes by the size handed over.
\* (mutant: it is replaced)
Current_Replaced(sizes, id, d) == d.size
Current(sizes, id, d) == IF id \in DOMAIN sizes THEN sizes[id].current + d.size ELSE d.size

AccountSnapshot ==
  /\ accounts < MaxAccounts
  /\ accounts' = accounts + 1
  /\ \E id \in TraceId, d \in Deltas :
       LET sizes == heaptrack.sizes
           prev == IF id \in DOMAIN sizes THEN sizes[id].prev ELSE 0
           old == IF id \in DOMAIN allocsIndex THEN allocsIndex[id] ELSE Zero IN
       /\ totals' = [totals EXCEPT ![Section(id)] = Plus(@, d)]
       /\ allocsIndex' = Put(allocsIndex, id, Plus(old, d))
       /\ heaptrack' = [heaptrack EXCEPT !.sizes =
                          Put(@, id, [current |-> Current(sizes, id, d), prev |-> prev])]
       /\ changed' = changed \cup {id}
  /\ UNCHANGED <<listed, described, report>>

-----------------------------------------------------------------------------
(* TextWriter::FlushData                                                   *)

\* The first n traces of a section in a descending order; traces with equal
\* keys come in any order.
Tops(section, n, Key(_)) ==
  LET ids == {id \in DOMAIN allocsIndex : Section(id) = section}
      k == Min({n, Cardinality(ids)})
  IN  {top \in kSubset(k, ids) : \A i \in top, j \in ids \ top : Key(i) >= Key(j)}

Size(id) == allocsIndex[id].size
Count(id) == allocsIndex[id].count

\* DumpIndex lists traces by size, without the inactive ones, and by count, if
\* the section is enabled.
DumpIndex(section) ==
  IF section \notin Enabled THEN {[bySize |-> {}, byCount |-> {}]}
  ELSE {[bySize |-> {id \in s : allocsIndex[id].active # 0}, byCount |-> c] :
          s \in Tops(section, BySizeCount[section], Size),
          c \in Tops(section, ByTotalCount[section], Count)}

\* Traces that are described after the summary.   (mutant: those of the list by
\* size only)
NewStacktraces_BySize(r) == r.bySize \ listed
NewStacktraces(r) == (r.bySize \cup r.byCount) \ listed

FlushText ==
  \E e \in DumpIndex("external"), i \in DumpIndex("internal") :
    LET r == [totals |-> totals, bySize |-> e.bySize \cup i.bySize,
              byCount |-> e.byCount \cup i.byCount] IN
    /\ report' = r
    /\ listed' = listed \cup r.bySize \cup r.byCount
    /\ described' = described \cup {id \in NewStacktraces(r) : Finds(id)}

-----------------------------------------------------------------------------
(* HeaptrackWriter::FlushData                                              *)

\* A block that was written before is freed.   (mutant: when nothing is left)
Frees_WhenEmpty(b) == b.current = 0
Frees(b) == b.prev # 0

\* A trace that was not written yet is written as a path of the tree.
WriteTrace(h, id) ==
  LET r == index(h.tree, Trace[id])
  IN  IF id \in DOMAIN h.node THEN h
      ELSE [h EXCEPT !.node = Put(@, id, r.node), !.tree = r.tree, !.tRecords = @ \o r.calls]

\* WriteDeallocation and WriteAllocation.
WriteBlock(h, id) ==
  LET b == h.sizes[id]
      old == h.blocks[id]
      kept == IF Frees(b) /\ old # <<>> THEN Tail(old) ELSE old
      new == IF b.current > 0 THEN <<[size |-> b.current, index |-> h.node[id]]>> ELSE <<>>
  IN  [h EXCEPT !.blocks[id] = kept \o new, !.sizes[id].prev = b.current]

\* One trace of the loop; a trace that does not resolve is left alone.
FlushTrace(h, id) ==
  IF id \notin DOMAIN h.node /\ ~Finds(id) THEN h ELSE WriteBlock(WriteTrace(h, id), id)

\* The loop: after the first n traces.
Flushing(h, order) ==
  LET after[n \in 0 .. Len(order)] ==
        IF n = 0 THEN h ELSE FlushTrace(after[n - 1], order[n])
  IN  after

\* The traces come in the order of a hash set.
FlushHeaptrack ==
  /\ \E order \in SetToSeqs(changed) : heaptrack' = Flushing(heaptrack, order)[Len(order)]
  /\ changed' = {}

FlushData == FlushText /\ FlushHeaptrack /\ UNCHANGED <<accounts, allocsIndex, totals>>

ReportsNext == AccountSnapshot \/ FlushData
ReportsSpec == ReportsInit /\ [][ReportsNext]_reportVars

-----------------------------------------------------------------------------
(* Properties.                                                             *)

\* The blocks of a trace: one of its size if that is positive, else none.
BlocksOfItsSize(id) ==
  LET s == allocsIndex[id].size
      blocks == heaptrack.blocks[id]
  IN  [i \in DOMAIN blocks |-> blocks[i].size] = IF s > 0 THEN <<s>> ELSE <<>>

\* After a flush heaptrack holds one block for each trace that resolves and
\* has a positive size, with that size, and none if it is not positive:
\* whatever the sizes went through, negative ones included (a free is consumed
\* before its allocation if another thread performed it), no block is left
\* over.
BlocksAreSizes ==
  \A id \in DOMAIN allocsIndex \ changed : Finds(id) => BlocksOfItsSize(id)

\* What src/README.md says of the heaptrack writer, "(sizes are accurate)":
\* after a flush the blocks have the sizes of all traces, those MemHawk cannot
\* resolve included.  FlushData passes over these.
SizesAreAccurate ==
  \A id \in DOMAIN allocsIndex \ changed : BlocksOfItsSize(id)

\* The paths heaptrack gives the nodes of the "t" records.
RecordPaths(records) ==
  LET path[n \in 0 .. Len(records)] ==
        IF n = 0 THEN <<>> ELSE <<records[n].ptr>> \o path[records[n].parent]
  IN  path

\* The node a block refers to is, by the numbers of the "t" records, the trace
\* the block was written for: the writer's tree and heaptrack's stay in step.
BlocksHaveTheirTrace ==
  \A id \in TraceId : \A i \in DOMAIN heaptrack.blocks[id] :
    LET n == heaptrack.blocks[id][i].index
    IN  /\ n \in 0 .. Len(heaptrack.tRecords)
        /\ RecordPaths(heaptrack.tRecords)[n] = NotNull(Trace[id])

\* Whoever finds a trace in a summary finds its frames in the file of stack
\* traces, unless no tracker resolves it (DumpIndex, FlushData).
ListedIsDescribed ==
  report.bySize \cup report.byCount \subseteq described \cup Unresolved

\* What the report calls the application's and MemHawk's heap is the sum of
\* the traces of the two indexes, and of the sizes the heaptrack writer keeps.
TotalsAreSums ==
  \A s \in Sections :
    LET ids == {id \in DOMAIN allocsIndex : Section(id) = s}
    IN  /\ totals[s].size = SumFunction([id \in ids |-> allocsIndex[id].size])
        /\ totals[s].active = SumFunction([id \in ids |-> allocsIndex[id].active])
        /\ totals[s].count = SumFunction([id \in ids |-> allocsIndex[id].count])
        /\ totals[s].size = SumFunction([id \in ids |-> heaptrack.sizes[id].current])

\* The heaptrack file holds one block per trace that resolves, of its size and
\* with its frames; the text report describes what it lists, and its totals are the
\* sums of the same sizes (TextWriter, HeaptrackWriter).
ReportsCorrect ==
  BlocksAreSizes /\ BlocksHaveTheirTrace /\ ListedIsDescribed /\ TotalsAreSums
=============================================================================
