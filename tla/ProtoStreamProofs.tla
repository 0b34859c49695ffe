-------------------------- MODULE ProtoStreamProofs --------------------------
(***************************************************************************)
(* Proofs about ProtoStream: whatever the snapshots hold and whichever of  *)
(* them the reader skips, the paths and sizes it shows are those of the    *)
(* traces, and a reader that has caught up knows what the writer knows.    *)
(***************************************************************************)
EXTENDS ProtoStream, LoopTheorems

-----------------------------------------------------------------------------
(* The addresses of the writer.                                            *)

Different(s) == \A i, j \in DOMAIN s : s[i] = s[j] => i = j
Begins(s, t) == Len(s) <= Len(t) /\ \A i \in 1 .. Len(s) : t[i] = s[i]

\* An address that is not known comes last.
LEMMA PtrKnownFacts ==
  ASSUME NEW s \in Seq(Addr), Different(s), NEW p \in Addr
  PROVE  /\ PtrKnown(s, p) \in Seq(Addr) /\ Different(PtrKnown(s, p)) /\ Begins(s, PtrKnown(s, p))
         /\ \E j \in DOMAIN PtrKnown(s, p) : PtrKnown(s, p)[j] = p
<1>1. CASE p \in ToSet(s)
  BY <1>1 DEF PtrKnown, ToSet, Begins
<1>2. CASE p \notin ToSet(s)
  <2> DEFINE t == Append(s, p)
  <2>1. PtrKnown(s, p) = t
    BY <1>2 DEF PtrKnown
  <2>2. t \in Seq(Addr) /\ Len(t) = Len(s) + 1 /\ t[Len(s) + 1] = p /\ \A i \in 1 .. Len(s) : t[i] = s[i]
    OBVIOUS
  <2>3. \A i \in 1 .. Len(s) : s[i] # p
    BY <1>2 DEF ToSet
  <2>4. Different(t)
    <3> HIDE DEF t
    <3> QED BY <2>2, <2>3 DEF Different
  <2>5. Begins(s, t) /\ \E j \in DOMAIN t : t[j] = p
    <3>1. Len(s) + 1 \in DOMAIN t
      BY <2>2
    <3> HIDE DEF t
    <3> QED BY <2>2, <3>1 DEF Begins
  <2> HIDE DEF t
  <2> QED BY <2>1, <2>2, <2>4, <2>5
<1> QED BY <1>1, <1>2

\* PtrsKnown keeps the ids of known addresses, and knows those of the trace.
LEMMA PtrsKnownFacts ==
  ASSUME NEW known \in Seq(Addr), Different(known), NEW trace \in Seq(Addr)
  PROVE  /\ PtrsKnown(known, trace) \in Seq(Addr) /\ Different(PtrsKnown(known, trace))
         /\ Begins(known, PtrsKnown(known, trace))
         /\ \A i \in 1 .. Len(trace) :
              \E j \in DOMAIN PtrsKnown(known, trace) : PtrsKnown(known, trace)[j] = trace[i]
<1> DEFINE N == Len(trace)
           S == {s \in Seq(Addr) : Different(s) /\ Begins(known, s)}
           step == [n \in 1 .. N |-> [s \in S |-> PtrKnown(s, trace[n])]]
           Eqn(w) == w = [n \in 0 .. N |-> IF n = 0 THEN known
                            ELSE PtrKnown(w[n - 1], trace[n])]
           g == CHOOSE w : Eqn(w)
<1>1. N \in Nat /\ \A n \in 1 .. N : trace[n] \in Addr
  OBVIOUS
<1>2. known \in S
  BY DEF Begins
<1>3. ASSUME NEW n \in 1 .. N, NEW s \in S
      PROVE  /\ PtrKnown(s, trace[n]) \in S /\ Begins(s, PtrKnown(s, trace[n]))
             /\ \E j \in DOMAIN PtrKnown(s, trace[n]) : PtrKnown(s, trace[n])[j] = trace[n]
  <2>1. s \in Seq(Addr) /\ Different(s) /\ Begins(known, s) /\ trace[n] \in Addr
    BY <1>1
  <2> DEFINE t == PtrKnown(s, trace[n])
  <2>2. /\ t \in Seq(Addr) /\ Different(t) /\ Begins(s, t) /\ \E j \in DOMAIN t : t[j] = trace[n]
    BY <2>1, PtrKnownFacts
  <2> HIDE DEF t
  <2>3. Begins(known, t)
    BY <2>1, <2>2 DEF Begins
  <2> QED BY <2>2, <2>3 DEF t
<1> HIDE DEF N, S
<1>4. Loop(S, N, known, step)
  BY <1>1, <1>2, <1>3 DEF Loop
<1> HIDE DEF step
<1>5. PICK f : Loops(f, S, N, known, step)
  BY <1>4, Iteration
<1>6. ASSUME NEW n \in 1 .. N PROVE f[n] = PtrKnown(f[n - 1], trace[n])
  <2>1. n - 1 \in 0 .. N
    BY <1>1
  <2> QED BY <1>5, <2>1 DEF step, Loops
<1>7. Eqn(f)
  BY <1>1, <1>5, <1>6 DEF Loops
<1>8. Eqn(g)
  BY <1>7
<1>9. ASSUME NEW w, Eqn(w) PROVE w[0] = known /\ \A n \in 1 .. N : w[n] = PtrKnown(w[n - 1], trace[n])
  BY <1>1, <1>9
<1>10. PtrsKnown(known, trace) = g[N]
  BY DEF PtrsKnown, N
<1> HIDE DEF g
<1>11. g[0] = known /\ \A n \in 1 .. N : g[n] = PtrKnown(g[n - 1], trace[n])
  BY <1>8, <1>9
<1>12. \A n \in 0 .. N : g[n] \in S
  <2>1. ASSUME NEW n \in 1 .. N, g[n - 1] \in S PROVE g[n] \in S
    BY <1>3, <1>11, <2>1
  <2> QED BY <1>1, <1>2, <1>11, <2>1, LoopInvariant
<1> DEFINE Has(n, m) == \E j \in DOMAIN g[n] : g[n][j] = trace[m]
           T == {n \in Nat : n <= N => \A m \in 1 .. n : Has(n, m)}
<1>13. \A n \in Nat : n \in T
  <2>1. 0 \in T
    OBVIOUS
  <2>2. ASSUME NEW n \in Nat, n \in T PROVE n + 1 \in T
    <3> SUFFICES ASSUME n + 1 <= N, NEW m \in 1 .. n + 1 PROVE Has(n + 1, m)
      OBVIOUS
    <3>1. n + 1 \in 1 .. N /\ (n + 1) - 1 = n /\ n \in 0 .. N
      BY <1>1
    <3>2. g[n + 1] = PtrKnown(g[n], trace[n + 1]) /\ g[n] \in S
      BY <1>11, <1>12, <3>1
    <3>3. Has(n + 1, n + 1) /\ Begins(g[n], g[n + 1]) /\ g[n + 1] \in S
      BY <1>3, <3>1, <3>2
    <3>4. CASE m # n + 1
      <4>1. m \in 1 .. n
        BY <3>4
      <4>2. Has(n, m)
        BY <2>2, <4>1, <3>1, <1>1
      <4>3. PICK j \in DOMAIN g[n] : g[n][j] = trace[m]
        BY <4>2
      <4>4. g[n] \in Seq(Addr) /\ g[n + 1] \in Seq(Addr)
        BY <3>2, <3>3 DEF S
      <4>5. j \in 1 .. Len(g[n]) /\ Len(g[n]) \in Nat /\ Len(g[n + 1]) \in Nat
            /\ DOMAIN g[n + 1] = 1 .. Len(g[n + 1])
        BY <4>3, <4>4
      <4>6. j \in DOMAIN g[n + 1] /\ g[n + 1][j] = trace[m]
        BY <3>3, <4>3, <4>5 DEF Begins
      <4> QED BY <4>6
    <3> QED BY <3>3, <3>4
  <2> HIDE DEF T
  <2> QED BY <2>1, <2>2, Induction
<1>14. \A m \in 1 .. N : Has(N, m)
  BY <1>1, <1>13
<1>15. g[N] \in S
  BY <1>1, <1>12
<1> QED BY <1>10, <1>14, <1>15 DEF N, S

-----------------------------------------------------------------------------
(* The addresses the reader finds.                                         *)

\* The loop of FilterMap.
Filters(g, known, keys) ==
  /\ g[0] = <<>>
  /\ \A n \in 1 .. Len(keys) : g[n] = FilterOne(known, g[n - 1], keys[n])
  /\ FilterMap(known, keys) = g[Len(keys)]

\* It exists.
LEMMA FilterExists ==
  ASSUME NEW known, NEW keys, Len(keys) \in Nat
  PROVE  \E g : Filters(g, known, keys)
<1> DEFINE N == Len(keys)
           V == {known[x] : x \in DOMAIN known}
           S == Seq(V)
           init == <<>>
           step == [n \in 1 .. N |-> [s \in S |-> FilterOne(known, s, keys[n])]]
           Eqn(w) == w = [n \in 0 .. N |-> IF n = 0 THEN <<>> ELSE FilterOne(known, w[n - 1], keys[n])]
           g == CHOOSE w : Eqn(w)
<1>1. N \in Nat /\ init \in S
  OBVIOUS
<1>2. ASSUME NEW n \in 1 .. N, NEW s \in S PROVE FilterOne(known, s, keys[n]) \in S
  <2>1. CASE keys[n] \in DOMAIN known
    <3>1. known[keys[n]] \in V
      BY <2>1
    <3> HIDE DEF V
    <3> QED BY <2>1, <3>1 DEF FilterOne
  <2>2. CASE keys[n] \notin DOMAIN known
    BY <2>2 DEF FilterOne
  <2> QED BY <2>1, <2>2
<1> HIDE DEF N, S
<1>3. Loop(S, N, init, step)
  BY <1>1, <1>2 DEF Loop
<1> HIDE DEF step
<1>4. PICK f : Loops(f, S, N, init, step)
  BY <1>3, Iteration
<1>5. ASSUME NEW n \in 1 .. N PROVE f[n] = FilterOne(known, f[n - 1], keys[n])
  <2>1. n - 1 \in 0 .. N
    BY <1>1
  <2> QED BY <1>4, <2>1 DEF step, Loops
<1>6. Eqn(f)
  BY <1>1, <1>4, <1>5 DEF Loops
<1>7. Eqn(g)
  BY <1>6
<1>8. ASSUME NEW w, Eqn(w) PROVE w[0] = <<>> /\ \A n \in 1 .. N : w[n] = FilterOne(known, w[n - 1], keys[n])
  BY <1>1, <1>8
<1>9. FilterMap(known, keys) = g[N]
  BY DEF FilterMap, N
<1> HIDE DEF g
<1>10. g[0] = <<>> /\ \A n \in 1 .. N : g[n] = FilterOne(known, g[n - 1], keys[n])
  BY <1>7, <1>8
<1>11. Filters(g, known, keys)
  BY <1>9, <1>10, Zenon DEF Filters, N
<1> QED BY <1>11, Zenon

\* The keys stand for the same addresses.
Agree(known, keys, known2, keys2) ==
  /\ Len(keys) \in Nat /\ Len(keys2) = Len(keys)
  /\ \A n \in 1 .. Len(keys) :
       /\ keys[n] \in DOMAIN known <=> keys2[n] \in DOMAIN known2
       /\ keys[n] \in DOMAIN known => known[keys[n]] = known2[keys2[n]]

\* Keys that stand for the same addresses give the same sequence.
LEMMA SameFilter ==
  ASSUME NEW known, NEW keys, NEW known2, NEW keys2, Agree(known, keys, known2, keys2)
  PROVE  FilterMap(known, keys) = FilterMap(known2, keys2)
<1> DEFINE N == Len(keys)
<1>1. N \in Nat /\ Len(keys2) = N
  BY DEF Agree
<1>2. PICK f : Filters(f, known, keys)
  BY <1>1, FilterExists
<1>3. PICK g : Filters(g, known2, keys2)
  BY <1>1, FilterExists
<1>4. ASSUME NEW n \in 1 .. N, f[n - 1] = g[n - 1] PROVE f[n] = g[n]
  <2>1. f[n] = FilterOne(known, f[n - 1], keys[n]) /\ g[n] = FilterOne(known2, g[n - 1], keys2[n])
    BY <1>1, <1>2, <1>3, Zenon DEF Filters
  <2>2. /\ keys[n] \in DOMAIN known <=> keys2[n] \in DOMAIN known2
        /\ keys[n] \in DOMAIN known => known[keys[n]] = known2[keys2[n]]
    BY DEF Agree
  <2> QED BY <1>4, <2>1, <2>2, Zenon DEF FilterOne
<1>5. f[0] = g[0]
  BY <1>2, <1>3 DEF Filters
<1>6. f[N] = g[N]
  <2> HIDE DEF N
  <2> QED BY <1>1, <1>4, <1>5, SameLoop
<1> QED BY <1>1, <1>2, <1>3, <1>6 DEF Filters

-----------------------------------------------------------------------------
(* The writer's loop.                                                      *)

Traced == [id : StackId, ptrs : Seq(Nat)]
Summed == [id : StackId, actual : Int]
Snapshots == [time : Int, ptrIds : SUBSET (Nat \X Addr), stacktraces : Seq(Traced),
              changed : Seq(Summed)]
Flushes == [ptrs : Seq(Addr), written : SUBSET StackId, snap : Snapshots]

\* The ids of a trace stand for its addresses.
Names(p, t) ==
  /\ Len(t.ptrs) = Len(Stack[t.id])
  /\ \A i \in 1 .. Len(t.ptrs) : t.ptrs[i] \in 1 .. Len(p) /\ p[t.ptrs[i]] = Stack[t.id][i]

\* The loop of FlushData: new addresses and new traces are in the snapshot.
FlushTypes(st) == st \in Flushes /\ Different(st.ptrs) /\ Begins(ptrs, st.ptrs)
FlushPtrs(st) ==
  /\ \A e \in st.snap.ptrIds : e[1] \in Len(ptrs) + 1 .. Len(st.ptrs) /\ e[2] = st.ptrs[e[1]]
  /\ \A i \in Len(ptrs) + 1 .. Len(st.ptrs) : <<i, st.ptrs[i]>> \in st.snap.ptrIds
FlushTraces(st) ==
  /\ \A n \in 1 .. Len(st.snap.stacktraces) :
       Names(st.ptrs, st.snap.stacktraces[n]) /\ st.snap.stacktraces[n].id \notin written
  /\ written \subseteq st.written
  /\ \A id \in st.written : id \in written \/ id \in Unfound \/ Announces(st.snap, id)
FlushSums(st) ==
  \A n \in 1 .. Len(st.snap.changed) :
    st.snap.changed[n].id \in st.written /\ st.snap.changed[n].actual = summaries[st.snap.changed[n].id]
FlushGood(st) == FlushTypes(st) /\ FlushPtrs(st) /\ FlushTraces(st) /\ FlushSums(st)

\* What a call of FlushData may be given.
CanFlush ==
  /\ changedIds \subseteq DOMAIN summaries /\ DOMAIN summaries \subseteq StackId
  /\ \A id \in DOMAIN summaries : summaries[id] \in Int
  /\ changedIds \subseteq found \cup Unfound
  /\ ptrs \in Seq(Addr) /\ Different(ptrs) /\ written \subseteq StackId
  /\ IsFiniteSet(changedIds)

\* The ids PtrIds chooses are those of the addresses.
LEMMA PtrIdsFacts ==
  ASSUME NEW known \in Seq(Addr), NEW id \in StackId,
         \A i \in 1 .. Len(Stack[id]) : \E j \in DOMAIN known : known[j] = Stack[id][i]
  PROVE  /\ [id |-> id, ptrs |-> PtrIds(known, id)] \in Traced
         /\ Names(known, [id |-> id, ptrs |-> PtrIds(known, id)])
<1> DEFINE s == Stack[id]
           q == PtrIds(known, id)
<1>1. s \in Seq(Addr) /\ Len(s) \in Nat /\ DOMAIN s = 1 .. Len(s)
  BY StackAssumption
<1>2. q = [i \in DOMAIN s |-> CHOOSE j \in DOMAIN known : known[j] = s[i]]
  BY DEF PtrIds
<1>3. ASSUME NEW i \in 1 .. Len(s) PROVE q[i] \in DOMAIN known /\ known[q[i]] = s[i]
  <2>1. \E j \in DOMAIN known : known[j] = s[i]
    OBVIOUS
  <2>2. q[i] = CHOOSE j \in DOMAIN known : known[j] = s[i]
    BY <1>1, <1>2
  <2> QED BY <2>1, <2>2
<1>4. DOMAIN q = 1 .. Len(s)
  BY <1>1, <1>2
<1>4a. q = [i \in 1 .. Len(s) |-> q[i]]
  BY <1>1, <1>2
<1> HIDE DEF q, s
<1>5. DOMAIN known = 1 .. Len(known) /\ Len(known) \in Nat
  OBVIOUS
<1>6. \A i \in 1 .. Len(s) : q[i] \in Nat
  BY <1>3, <1>5
<1>7. q \in Seq(Nat) /\ Len(q) = Len(s)
  BY <1>1, <1>4a, <1>6
<1>8. [id |-> id, ptrs |-> q] \in Traced
  BY <1>7 DEF Traced
<1>9. Names(known, [id |-> id, ptrs |-> q])
  BY <1>1, <1>3, <1>5, <1>7 DEF Names, s
<1> QED BY <1>8, <1>9 DEF q

\* More addresses do not change what ids stand for.
LEMMA NamesKept ==
  ASSUME NEW p \in Seq(Addr), NEW q \in Seq(Addr), Begins(p, q), NEW t, Names(p, t)
  PROVE  Names(q, t)
<1>1. Len(p) \in Nat /\ Len(q) \in Nat /\ Len(p) <= Len(q) /\ \A i \in 1 .. Len(p) : q[i] = p[i]
  BY DEF Begins
<1>2. ASSUME NEW i \in 1 .. Len(t.ptrs) PROVE t.ptrs[i] \in 1 .. Len(q) /\ q[t.ptrs[i]] = Stack[t.id][i]
  <2> DEFINE j == t.ptrs[i]
  <2>1. j \in 1 .. Len(p) /\ p[j] = Stack[t.id][i]
    BY DEF Names
  <2> HIDE DEF j
  <2>2. j \in 1 .. Len(q) /\ q[j] = Stack[t.id][i]
    BY <1>1, <2>1
  <2> QED BY <2>2 DEF j
<1> QED BY <1>2 DEF Names

\* AddStacktrace, field by field.
LEMMA AddedFields ==
  ASSUME NEW st \in Flushes, NEW id \in found, NEW known, known = PtrsKnown(st.ptrs, Stack[id]),
         NEW w, w = AddStacktrace(st, id)
  PROVE  /\ w.ptrs = known /\ w.written = st.written
         /\ w.snap.time = st.snap.time /\ w.snap.changed = st.snap.changed
         /\ w.snap.ptrIds = st.snap.ptrIds \cup {<<i, known[i]>> : i \in Len(st.ptrs) + 1 .. Len(known)}
         /\ w.snap.stacktraces = Append(st.snap.stacktraces, [id |-> id, ptrs |-> PtrIds(known, id)])
         /\ w = [ptrs |-> w.ptrs, written |-> w.written, snap |-> w.snap]
         /\ w.snap = [time |-> w.snap.time, ptrIds |-> w.snap.ptrIds,
                      stacktraces |-> w.snap.stacktraces, changed |-> w.snap.changed]
<1> DEFINE p == st.snap.ptrIds \cup {<<i, known[i]>> : i \in Len(st.ptrs) + 1 .. Len(known)}
           t == Append(st.snap.stacktraces, [id |-> id, ptrs |-> PtrIds(known, id)])
<1>1. w = [st EXCEPT !.ptrs = known, !.snap.ptrIds = p, !.snap.stacktraces = t]
  BY DEF AddStacktrace
<1> HIDE DEF p, t
<1>2. st = [ptrs |-> st.ptrs, written |-> st.written, snap |-> st.snap]
  BY DEF Flushes
<1>3. st.snap = [time |-> st.snap.time, ptrIds |-> st.snap.ptrIds,
                 stacktraces |-> st.snap.stacktraces, changed |-> st.snap.changed]
  BY DEF Flushes, Snapshots
<1>4. w = [ptrs |-> known, written |-> st.written,
           snap |-> [time |-> st.snap.time, ptrIds |-> p, stacktraces |-> t, changed |-> st.snap.changed]]
  BY <1>1, <1>2, <1>3
<1> QED BY <1>4 DEF p, t

\* A trace that is written for the first time is in the snapshot, and so are
\* its new addresses.
LEMMA AddStacktraceGood ==
  ASSUME CanFlush, NEW st, FlushGood(st), NEW id \in changedIds, id \notin st.written,
         NEW w, w = [AddStacktrace(st, id) EXCEPT !.written = @ \cup {id}]
  PROVE  FlushGood(w) /\ w.snap.changed = st.snap.changed /\ id \in w.written
<1>1. st \in Flushes /\ id \in StackId /\ st.ptrs \in Seq(Addr) /\ st.written \in SUBSET StackId
      /\ st.snap \in Snapshots
  BY DEF FlushGood, FlushTypes, CanFlush, Flushes
<1>2. CASE id \notin found
  <2>1. w = [st EXCEPT !.written = st.written \cup {id}]
    BY <1>2 DEF AddStacktrace
  <2>2. w.ptrs = st.ptrs /\ w.snap = st.snap /\ w.written = st.written \cup {id} /\ w \in Flushes
    BY <1>1, <2>1, ZenonT(30) DEF Flushes
  <2>3. id \in Unfound
    BY <1>2 DEF CanFlush
  <2>4. FlushTypes(w)
    BY <2>2 DEF FlushGood, FlushTypes
  <2>5. FlushPtrs(w)
    BY <2>2 DEF FlushGood, FlushPtrs
  <2>6. FlushTraces(w)
    BY <2>2, <2>3 DEF FlushGood, FlushTraces
  <2>7. FlushSums(w)
    BY <2>2 DEF FlushGood, FlushSums
  <2> QED BY <2>2, <2>4, <2>5, <2>6, <2>7 DEF FlushGood
<1>3. CASE id \in found
  <2> DEFINE known == PtrsKnown(st.ptrs, Stack[id])
             a == AddStacktrace(st, id)
             t == [id |-> id, ptrs |-> PtrIds(known, id)]
             K == Len(st.ptrs)
             M == Len(known)
  <2>1. Stack[id] \in Seq(Addr) /\ Different(st.ptrs) /\ Begins(ptrs, st.ptrs)
    BY <1>1, StackAssumption DEF FlushGood, FlushTypes
  <2>2. /\ known \in Seq(Addr) /\ Different(known) /\ Begins(st.ptrs, known)
        /\ \A i \in 1 .. Len(Stack[id]) : \E j \in DOMAIN known : known[j] = Stack[id][i]
    BY <1>1, <2>1, PtrsKnownFacts
  <2>3. /\ a.ptrs = known /\ a.written = st.written
        /\ a.snap.time = st.snap.time /\ a.snap.changed = st.snap.changed
        /\ a.snap.ptrIds = st.snap.ptrIds \cup {<<i, known[i]>> : i \in K + 1 .. M}
        /\ a.snap.stacktraces = Append(st.snap.stacktraces, t)
        /\ a = [ptrs |-> a.ptrs, written |-> a.written, snap |-> a.snap]
        /\ a.snap = [time |-> a.snap.time, ptrIds |-> a.snap.ptrIds,
                     stacktraces |-> a.snap.stacktraces, changed |-> a.snap.changed]
    <3> HIDE DEF known, a
    <3>1. known = PtrsKnown(st.ptrs, Stack[id]) /\ a = AddStacktrace(st, id)
      BY DEF known, a
    <3> QED BY <1>1, <1>3, <3>1, AddedFields
  <2>4. w = [a EXCEPT !.written = a.written \cup {id}]
    OBVIOUS
  <2> HIDE DEF known, a
  <2>5. w.ptrs = known /\ w.written = st.written \cup {id} /\ w.snap = a.snap
        /\ w = [ptrs |-> w.ptrs, written |-> w.written, snap |-> w.snap]
    BY <2>3, <2>4
  <2>6. t \in Traced /\ Names(known, t) /\ t.id = id
    <3>1. t \in Traced /\ Names(known, t)
      BY <1>1, <2>2, PtrIdsFacts
    <3> QED BY <3>1
  <2> HIDE DEF t
  <2>7. K \in Nat /\ M \in Nat /\ K <= M /\ Len(ptrs) \in Nat /\ Len(ptrs) <= K
        /\ \A i \in 1 .. K : known[i] = st.ptrs[i]
    BY <1>1, <2>1, <2>2 DEF Begins, CanFlush
  <2>7a. \A i \in 1 .. Len(ptrs) : st.ptrs[i] = ptrs[i]
    BY <2>1 DEF Begins
  <2>8. Begins(ptrs, known)
    BY <2>7, <2>7a DEF Begins
  <2>9. \A i \in K + 1 .. M : known[i] \in Addr /\ i \in Nat
    BY <2>2, <2>7
  <2>10. /\ st.snap.ptrIds \in SUBSET (Nat \X Addr) /\ st.snap.stacktraces \in Seq(Traced)
         /\ st.snap.changed \in Seq(Summed) /\ st.snap.time \in Int
    BY <1>1 DEF Snapshots
  <2>11. a.snap.ptrIds \in SUBSET (Nat \X Addr)
    BY <2>3, <2>9, <2>10
  <2>12. a.snap.stacktraces \in Seq(Traced)
    BY <2>3, <2>6, <2>10
  <2>13. a.snap \in Snapshots
    BY <2>3, <2>10, <2>11, <2>12 DEF Snapshots
  <2>14. w \in Flushes
    BY <1>1, <2>2, <2>5, <2>13 DEF Flushes
  <2>15. FlushTypes(w)
    BY <2>2, <2>5, <2>8, <2>14 DEF FlushTypes
  <2>16. FlushPtrs(w)
    <3>1. ASSUME NEW e \in a.snap.ptrIds PROVE e[1] \in Len(ptrs) + 1 .. M /\ e[2] = known[e[1]]
      <4>1. CASE e \in st.snap.ptrIds
        <5>1. e[1] \in Len(ptrs) + 1 .. K /\ e[2] = st.ptrs[e[1]]
          BY <4>1 DEF FlushGood, FlushPtrs
        <5> QED BY <2>7, <5>1
      <4>2. CASE e \notin st.snap.ptrIds
        <5>1. PICK i \in K + 1 .. M : e = <<i, known[i]>>
          BY <2>3, <4>2
        <5> QED BY <2>7, <5>1
      <4> QED BY <4>1, <4>2
    <3>2. ASSUME NEW i \in Len(ptrs) + 1 .. M PROVE <<i, known[i]>> \in a.snap.ptrIds
      <4>1. CASE i <= K
        <5>1. i \in Len(ptrs) + 1 .. K /\ known[i] = st.ptrs[i]
          BY <2>7, <4>1
        <5>2. <<i, st.ptrs[i]>> \in st.snap.ptrIds
          BY <5>1 DEF FlushGood, FlushPtrs
        <5> QED BY <2>3, <5>1, <5>2
      <4>2. CASE ~(i <= K)
        <5>1. i \in K + 1 .. M
          BY <2>7, <4>2
        <5> QED BY <2>3, <5>1
      <4> QED BY <4>1, <4>2
    <3> QED BY <2>5, <3>1, <3>2 DEF FlushPtrs
  <2>17. FlushTraces(w)
    <3> DEFINE old == st.snap.stacktraces
               new == a.snap.stacktraces
               L == Len(old)
    <3>1. L \in Nat /\ Len(new) = L + 1 /\ new[L + 1] = t /\ \A n \in 1 .. L : new[n] = old[n] /\ new[n] \in Traced
      BY <2>3, <2>6, <2>10
    <3>1a. DOMAIN new = 1 .. L + 1 /\ DOMAIN old = 1 .. L
      BY <2>10, <2>12, <3>1
    <3> HIDE DEF old, new, L
    <3>2. written \subseteq st.written /\ id \notin written
      BY DEF FlushGood, FlushTraces
    <3>3. ASSUME NEW n \in 1 .. L + 1 PROVE Names(known, new[n]) /\ new[n].id \notin written
      <4>1. CASE n = L + 1
        BY <2>6, <3>1, <3>2, <4>1
      <4>2. CASE n # L + 1
        <5>1. n \in 1 .. L
          BY <3>1, <4>2
        <5>2. Names(st.ptrs, new[n]) /\ new[n].id \notin written /\ new[n] \in Traced
          BY <3>1, <5>1 DEF FlushGood, FlushTraces, old, L
        <5>3. Names(known, new[n])
          BY <1>1, <2>2, <5>2, NamesKept
        <5> QED BY <5>2, <5>3
      <4> QED BY <4>1, <4>2
    <3>4. Announces(w.snap, id)
      <4>1. L + 1 \in DOMAIN new /\ new[L + 1].id = id
        BY <2>6, <3>1, <3>1a
      <4> QED BY <2>5, <4>1 DEF Announces, new
    <3>5. ASSUME NEW x \in st.written PROVE x \in written \/ x \in Unfound \/ Announces(w.snap, x)
      <4>1. CASE Announces(st.snap, x)
        <5>1. PICK n \in 1 .. L : old[n].id = x
          BY <3>1a, <4>1 DEF Announces, old
        <5>2. n \in 1 .. L + 1 /\ new[n].id = x
          BY <3>1, <5>1
        <5> QED BY <2>5, <3>1a, <5>2 DEF Announces, new
      <4> QED BY <4>1 DEF FlushGood, FlushTraces
    <3>6. \A n \in 1 .. Len(w.snap.stacktraces) :
            Names(w.ptrs, w.snap.stacktraces[n]) /\ w.snap.stacktraces[n].id \notin written
      BY <2>5, <3>1, <3>3 DEF new
    <3>7. written \subseteq w.written
      BY <2>5, <3>2
    <3>8. \A x \in w.written : x \in written \/ x \in Unfound \/ Announces(w.snap, x)
      BY <2>5, <3>4, <3>5
    <3> QED BY <3>6, <3>7, <3>8 DEF FlushTraces
  <2>18. FlushSums(w)
    BY <2>3, <2>5 DEF FlushGood, FlushSums
  <2> QED BY <2>3, <2>5, <2>15, <2>16, <2>17, <2>18 DEF FlushGood
<1> QED BY <1>2, <1>3

\* One trace of the loop: its summary is in the snapshot.
LEMMA FlushChangedGood ==
  ASSUME CanFlush, NEW st, FlushGood(st), NEW id \in changedIds, NEW w, w = FlushChanged(st, id)
  PROVE  FlushGood(w) /\ Lists(w.snap, id) /\ \A x : Lists(st.snap, x) => Lists(w.snap, x)
<1> DEFINE a == IF id \in st.written THEN st ELSE [AddStacktrace(st, id) EXCEPT !.written = @ \cup {id}]
           c == [id |-> id, actual |-> summaries[id]]
<1>1. FlushGood(a) /\ a.snap.changed = st.snap.changed /\ id \in a.written
  <2>1. CASE id \in st.written
    BY <2>1
  <2>2. CASE id \notin st.written
    <3>1. a = [AddStacktrace(st, id) EXCEPT !.written = @ \cup {id}]
      BY <2>2
    <3> HIDE DEF a
    <3> QED BY <2>2, <3>1, AddStacktraceGood
  <2> QED BY <2>1, <2>2
<1>2. w = [a EXCEPT !.snap.changed = Append(a.snap.changed, c)]
  BY DEF FlushChanged
<1>3. c \in Summed /\ c.id = id /\ c.actual = summaries[id]
  BY DEF CanFlush, Summed
<1> HIDE DEF a, c
<1>4. a \in Flushes /\ a.snap \in Snapshots /\ a.snap.changed \in Seq(Summed)
  BY <1>1 DEF FlushGood, FlushTypes, Flushes, Snapshots
<1> DEFINE old == a.snap.changed
           new == Append(old, c)
           L == Len(old)
<1>5. new \in Seq(Summed) /\ L \in Nat /\ Len(new) = L + 1 /\ new[L + 1] = c
      /\ \A n \in 1 .. L : new[n] = old[n]
  BY <1>3, <1>4
<1>6. DOMAIN new = 1 .. L + 1 /\ DOMAIN old = 1 .. L
  BY <1>4, <1>5
<1>7. w = [a EXCEPT !.snap.changed = new]
  BY <1>2
<1> HIDE DEF new
<1>8. w.ptrs = a.ptrs /\ w.written = a.written /\ w.snap.ptrIds = a.snap.ptrIds
      /\ w.snap.stacktraces = a.snap.stacktraces /\ w.snap.changed = new /\ w \in Flushes
  <2>1. a = [ptrs |-> a.ptrs, written |-> a.written, snap |-> a.snap]
    BY <1>4 DEF Flushes
  <2>2. a.snap = [time |-> a.snap.time, ptrIds |-> a.snap.ptrIds,
                  stacktraces |-> a.snap.stacktraces, changed |-> a.snap.changed]
    BY <1>4 DEF Snapshots
  <2>3. w = [ptrs |-> a.ptrs, written |-> a.written,
             snap |-> [time |-> a.snap.time, ptrIds |-> a.snap.ptrIds,
                       stacktraces |-> a.snap.stacktraces, changed |-> new]]
    BY <1>7, <2>1, <2>2
  <2>4. w.snap \in Snapshots
    BY <1>4, <1>5, <2>3 DEF Snapshots
  <2> QED BY <1>4, <2>3, <2>4 DEF Flushes
<1> HIDE DEF old, L
<1>9. FlushTypes(w)
  BY <1>1, <1>8 DEF FlushGood, FlushTypes
<1>10. FlushPtrs(w)
  BY <1>1, <1>8 DEF FlushGood, FlushPtrs
<1>11. FlushTraces(w)
  BY <1>1, <1>8 DEF FlushGood, FlushTraces, Announces
<1>12. FlushSums(w)
  <2>1. ASSUME NEW n \in 1 .. L + 1 PROVE new[n].id \in a.written /\ new[n].actual = summaries[new[n].id]
    <3>1. CASE n = L + 1
      BY <1>1, <1>3, <1>5, <3>1
    <3>2. CASE n # L + 1
      <4>1. n \in 1 .. L
        BY <1>5, <3>2
      <4>2. old[n].id \in a.written /\ old[n].actual = summaries[old[n].id]
        BY <1>1, <4>1 DEF FlushGood, FlushSums, old, L
      <4> QED BY <1>5, <4>1, <4>2
    <3> QED BY <3>1, <3>2
  <2> QED BY <1>5, <1>8, <2>1 DEF FlushSums
<1>13. Lists(w.snap, id)
  <2>1. L + 1 \in DOMAIN new /\ new[L + 1].id = id
    BY <1>3, <1>5, <1>6
  <2> QED BY <1>8, <2>1 DEF Lists
<1>14. ASSUME NEW x, Lists(st.snap, x) PROVE Lists(w.snap, x)
  <2>1. PICK n \in 1 .. L : old[n].id = x
    BY <1>1, <1>6, <1>14 DEF Lists, old
  <2>2. n \in DOMAIN new /\ new[n].id = x
    BY <1>5, <1>6, <2>1
  <2> QED BY <1>8, <2>2 DEF Lists
<1> QED BY <1>9, <1>10, <1>11, <1>12, <1>13, <1>14 DEF FlushGood

\* The loop of FlushData puts every changed trace into the snapshot.
LEMMA FlushingAllGood ==
  ASSUME CanFlush, NEW order \in SetToSeqs(changedIds), NEW now \in Int,
         NEW w, w = FlushingAll(order, now)[Len(order)]
  PROVE  FlushGood(w) /\ \A id \in changedIds : Lists(w.snap, id)
<1> DEFINE N == Len(order)
           init == [ptrs |-> ptrs, written |-> written,
                    snap |-> [time |-> now, ptrIds |-> {}, stacktraces |-> <<>>, changed |-> <<>>]]
           S == {st \in Flushes : FlushGood(st)}
           step == [n \in 1 .. N |-> [st \in S |-> FlushChanged(st, order[n])]]
           Eqn(f) == f = [n \in 0 .. N |-> IF n = 0 THEN init ELSE FlushChanged(f[n - 1], order[n])]
           g == CHOOSE f : Eqn(f)
<1>1. order \in Seq(changedIds) /\ \A x \in changedIds : \E n \in 1 .. N : order[n] = x
  BY OrderCovers DEF CanFlush
<1>2. N \in Nat /\ \A n \in 1 .. N : order[n] \in changedIds
  BY <1>1
<1>3. init \in S
  <2>1. init.snap \in Snapshots /\ init \in Flushes
    BY DEF CanFlush, Flushes, Snapshots
  <2>2. FlushTypes(init)
    BY <2>1 DEF FlushTypes, CanFlush, Begins
  <2>3. FlushPtrs(init)
    BY DEF FlushPtrs, CanFlush
  <2>4. FlushTraces(init) /\ FlushSums(init)
    BY DEF FlushTraces, FlushSums
  <2> QED BY <2>1, <2>2, <2>3, <2>4 DEF FlushGood
<1>4. ASSUME NEW n \in 1 .. N, NEW st \in S
      PROVE  /\ FlushChanged(st, order[n]) \in S
             /\ Lists(FlushChanged(st, order[n]).snap, order[n])
             /\ \A x : Lists(st.snap, x) => Lists(FlushChanged(st, order[n]).snap, x)
  <2> DEFINE v == FlushChanged(st, order[n])
  <2>1. FlushGood(v) /\ Lists(v.snap, order[n]) /\ \A x : Lists(st.snap, x) => Lists(v.snap, x)
    <3>1. v = FlushChanged(st, order[n]) /\ FlushGood(st) /\ order[n] \in changedIds
      BY <1>2
    <3> HIDE DEF v
    <3> QED BY <3>1, FlushChangedGood
  <2>2. v \in Flushes
    BY <2>1 DEF FlushGood, FlushTypes
  <2> HIDE DEF v
  <2>3. v \in S
    BY <2>1, <2>2
  <2> QED BY <2>1, <2>3 DEF v
<1> HIDE DEF N, S, init
<1>5. Loop(S, N, init, step)
  BY <1>2, <1>3, <1>4 DEF Loop
<1> HIDE DEF step
<1>6. PICK f : Loops(f, S, N, init, step)
  BY <1>5, Iteration
<1>7. ASSUME NEW n \in 1 .. N PROVE f[n] = FlushChanged(f[n - 1], order[n])
  <2>1. n - 1 \in 0 .. N
    BY <1>2
  <2> QED BY <1>6, <2>1 DEF step, Loops
<1>8. Eqn(f)
  BY <1>2, <1>6, <1>7 DEF Loops
<1>9. Eqn(g)
  BY <1>8
<1>10. ASSUME NEW h, Eqn(h) PROVE h[0] = init /\ \A n \in 1 .. N : h[n] = FlushChanged(h[n - 1], order[n])
  BY <1>2, <1>10
<1>11. FlushingAll(order, now) = g
  BY DEF FlushingAll, N, init
<1> HIDE DEF g
<1>12. g[0] = init /\ \A n \in 1 .. N : g[n] = FlushChanged(g[n - 1], order[n])
  BY <1>9, <1>10
<1>13. \A n \in 0 .. N : g[n] \in S
  <2>1. ASSUME NEW n \in 1 .. N, g[n - 1] \in S PROVE g[n] \in S
    BY <1>4, <1>12, <2>1
  <2> QED BY <1>2, <1>3, <1>12, <2>1, LoopInvariant
<1> DEFINE T == {n \in Nat : n <= N => \A m \in 1 .. n : Lists(g[n].snap, order[m])}
<1>14. \A n \in Nat : n \in T
  <2>1. 0 \in T
    OBVIOUS
  <2>2. ASSUME NEW n \in Nat, n \in T PROVE n + 1 \in T
    <3> SUFFICES ASSUME n + 1 <= N, NEW m \in 1 .. n + 1 PROVE Lists(g[n + 1].snap, order[m])
      OBVIOUS
    <3>1. n + 1 \in 1 .. N /\ (n + 1) - 1 = n /\ n \in 0 .. N
      BY <1>2
    <3>2. g[n + 1] = FlushChanged(g[n], order[n + 1]) /\ g[n] \in S
      BY <1>12, <1>13, <3>1
    <3>3. Lists(g[n + 1].snap, order[n + 1]) /\ \A x : Lists(g[n].snap, x) => Lists(g[n + 1].snap, x)
      BY <1>4, <3>1, <3>2
    <3>4. CASE m # n + 1
      <4>1. m \in 1 .. n
        BY <3>4
      <4>2. Lists(g[n].snap, order[m])
        BY <1>2, <2>2, <3>1, <4>1
      <4> QED BY <3>3, <4>2
    <3> QED BY <3>3, <3>4
  <2> HIDE DEF T
  <2> QED BY <2>1, <2>2, Induction
<1>15. \A n \in 1 .. N : Lists(g[N].snap, order[n])
  BY <1>2, <1>14
<1>16. FlushGood(g[N]) /\ w = g[N]
  BY <1>2, <1>11, <1>13 DEF S, N
<1> QED BY <1>1, <1>15, <1>16

-----------------------------------------------------------------------------
(* The inductive invariant.                                                *)

\* The values of the variables.
ProtoTypeOK ==
  /\ DOMAIN summaries \subseteq StackId /\ \A id \in DOMAIN summaries : summaries[id] \in Int
  /\ changedIds \subseteq DOMAIN summaries /\ IsFiniteSet(changedIds)
  /\ written \subseteq StackId
  /\ ptrs \in Seq(Addr)
  /\ file \in Seq(Snapshots)
  /\ pos \in 0 .. Len(file) /\ skipped \subseteq 1 .. pos
  /\ DOMAIN lastSummary \subseteq StackId /\ IsFiniteSet(DOMAIN lastSummary)
  /\ lastSummary \in [DOMAIN lastSummary -> Int]
  /\ size \in [DOMAIN size -> Int]

\* Every address has one id, and one snapshot announces it.
HasId(snap, i) == \E e \in snap.ptrIds : e[1] = i
PtrsInv ==
  /\ Different(ptrs)
  /\ \A k \in 1 .. Len(file) : \A e \in file[k].ptrIds : e[1] \in 1 .. Len(ptrs) /\ e[2] = ptrs[e[1]]
  /\ \A i \in 1 .. Len(ptrs) : \E k \in 1 .. Len(file) : HasId(file[k], i)
  /\ \A i \in 1 .. Len(ptrs) : \A j, k \in 1 .. Len(file) : HasId(file[j], i) /\ HasId(file[k], i) => j = k

\* A trace is announced by ids that stand for its addresses, which its snapshot
\* or an earlier one announces, and before its first summary.
Explained(f, k, t) == \A i \in 1 .. Len(t.ptrs) : \E j \in 1 .. k : HasId(f[j], t.ptrs[i])
TracesInv ==
  /\ \A k \in 1 .. Len(file) : \A n \in 1 .. Len(file[k].stacktraces) :
       Names(ptrs, file[k].stacktraces[n]) /\ Explained(file, k, file[k].stacktraces[n])
  /\ \A k \in 1 .. Len(file) : \A j \in 1 .. k - 1 : \A id \in StackId :
       Announces(file[k], id) => ~Lists(file[j], id)

\* What is not waiting for a flush is in the file: the last summary of a trace
\* is what was accumulated.
LastListing(f, k, id, v) ==
  /\ Lists(f[k], id)
  /\ \A j \in k + 1 .. Len(f) : ~Lists(f[j], id)
  /\ \A n \in 1 .. Len(f[k].changed) : f[k].changed[n].id = id => f[k].changed[n].actual = v
WrittenInv ==
  /\ \A k \in 1 .. Len(file) : \A id \in StackId : Lists(file[k], id) => id \in written
  /\ \A id \in written : id \in Unfound \/ id = 0 \/ \E k \in 1 .. Len(file) : Announces(file[k], id)
  /\ changedIds \subseteq found \cup Unfound
  /\ \A id \in DOMAIN summaries \ changedIds : \E k \in 1 .. Len(file) : LastListing(file, k, id, summaries[id])

\* The reader knows the addresses, leaves and last summaries of the snapshots
\* it has processed.
Passed == (1 .. pos) \ skipped
AddrsInv ==
  /\ \A i \in DOMAIN addrs : i \in 1 .. Len(ptrs) /\ addrs[i] = ptrs[i]
  /\ \A i \in 1 .. Len(ptrs) : i \in DOMAIN addrs <=> \E k \in Passed : HasId(file[k], i)
LeafInv ==
  /\ leaf = [id \in DOMAIN leaf |-> ShownPath(id)]
  /\ \A id \in DOMAIN leaf : id \in StackId /\ \E k \in Passed : Announces(file[k], id)
  /\ \A k \in Passed : \A id \in StackId : Announces(file[k], id) => id \in DOMAIN leaf
LastRead(f, passed, k, id, v) ==
  /\ \E n \in 1 .. Len(f[k].changed) : f[k].changed[n].id = id /\ f[k].changed[n].actual = v
  /\ \A j \in passed : j > k => ~Lists(f[j], id)
SummaryInv ==
  /\ \A k \in Passed : \A id \in StackId : Lists(file[k], id) => id \in DOMAIN lastSummary
  /\ \A id \in DOMAIN lastSummary : \E k \in Passed : LastRead(file, Passed, k, id, lastSummary[id])

WriterInv == PtrsInv /\ TracesInv /\ WrittenInv
ReaderInv == AddrsInv /\ LeafInv /\ SummaryInv /\ SizesAreSums
ProtoInv == ProtoTypeOK /\ WriterInv /\ ReaderInv

\* The first snapshot lists trace 0, and the reader has read nothing.
LEMMA InitProto == ProtoInit => ProtoInv
<1> SUFFICES ASSUME ProtoInit PROVE ProtoInv
  OBVIOUS
<1> DEFINE c == [id |-> 0, actual |-> 0]
           s == [time |-> StartTime, ptrIds |-> {}, stacktraces |-> <<>>, changed |-> <<c>>]
<1>1. c \in Summed /\ c.id = 0 /\ c.actual = 0
  BY StackAssumption DEF Summed
<1>2. s \in Snapshots /\ s.ptrIds = {} /\ s.stacktraces = <<>> /\ s.changed = <<c>>
  BY <1>1, TimeAssumption DEF Snapshots
<1>3. file = <<s>>
  BY DEF ProtoInit
<1> HIDE DEF c, s
<1>4. file \in Seq(Snapshots) /\ Len(file) = 1 /\ file[1] = s
  BY <1>2, <1>3
<1>5. /\ changedIds = {} /\ written = {0} /\ ptrs = <<>> /\ pos = 0 /\ skipped = {}
      /\ DOMAIN addrs = {} /\ DOMAIN leaf = {} /\ DOMAIN lastSummary = {} /\ DOMAIN size = {}
      /\ DOMAIN summaries = {0} /\ summaries[0] = 0
  BY DEF ProtoInit, Empty, Put
<1>5a. /\ lastSummary \in [{} -> Int] /\ size \in [{} -> Int]
       /\ leaf = [x \in {} |-> ShownPath(x)]
  BY DEF ProtoInit, Empty
<1>6. Len(ptrs) = 0 /\ Passed = {} /\ ptrs \in Seq(Addr) /\ DOMAIN ptrs = {}
  BY <1>5 DEF Passed
<1>7. ProtoTypeOK
  <2>1. IsFiniteSet(changedIds) /\ IsFiniteSet(DOMAIN lastSummary)
    BY <1>5, FS_EmptySet
  <2> QED BY <1>4, <1>5, <1>5a, <1>6, <2>1, StackAssumption DEF ProtoTypeOK
<1>8. PtrsInv
  BY <1>2, <1>4, <1>6 DEF PtrsInv, Different
<1>9. TracesInv
  <2>1. Len(s.stacktraces) = 0
    BY <1>2
  <2> QED BY <1>4, <2>1 DEF TracesInv
<1>10. WrittenInv
  <2>1. Len(s.changed) = 1 /\ DOMAIN s.changed = {1} /\ s.changed[1] = c
    BY <1>2
  <2>2. Lists(s, 0) /\ \A id : Lists(s, id) => id = 0
    BY <1>1, <2>1 DEF Lists
  <2>3. LastListing(file, 1, 0, summaries[0])
    BY <1>1, <1>4, <1>5, <2>1, <2>2 DEF LastListing
  <2> QED BY <1>4, <1>5, <2>2, <2>3 DEF WrittenInv
<1>11. AddrsInv /\ SummaryInv /\ SizesAreSums
  BY <1>5, <1>6 DEF AddrsInv, SummaryInv, SizesAreSums
<1>12. LeafInv
  BY <1>5, <1>5a, <1>6 DEF LeafInv
<1> QED BY <1>7, <1>8, <1>9, <1>10, <1>11, <1>12 DEF ProtoInv, WriterInv, ReaderInv

\* Accounting marks the trace as changed; it is found unless no tracker can.
LEMMA AccountProto == ProtoInv /\ ProtoAccount => ProtoInv'
<1> SUFFICES ASSUME ProtoInv, ProtoAccount PROVE ProtoInv'
  OBVIOUS
<1>1. PICK id \in StackId, s \in SizeDeltas :
        /\ summaries' = Account(summaries, id, s)
        /\ changedIds' = changedIds \cup {id}
        /\ found' = found \cup ({id} \ Unfound)
  BY DEF ProtoAccount
<1>2. UNCHANGED <<written, ptrs, file, pos, last, addrs, leaf, lastSummary, size, skipped>>
  BY DEF ProtoAccount, protoReaderVars
<1>3. ProtoTypeOK /\ WrittenInv
  BY DEF ProtoInv, WriterInv
<1>4. /\ DOMAIN summaries' = DOMAIN summaries \cup {id}
      /\ summaries'[id] = Get(summaries, id) + s
      /\ \A x \in DOMAIN summaries : x # id => summaries'[x] = summaries[x]
  BY <1>1, Zenon DEF Account, Put
<1>5. summaries'[id] \in Int
  <2>1. s \in Int /\ Get(summaries, id) \in Int
    BY <1>3, SizesAssumption DEF ProtoTypeOK, Get
  <2> HIDE DEF Get
  <2> QED BY <1>4, <2>1
<1>6. ProtoTypeOK'
  <2>1. IsFiniteSet(changedIds')
    BY <1>1, <1>3, FS_AddElement DEF ProtoTypeOK
  <2>2. /\ DOMAIN summaries' \subseteq StackId /\ \A x \in DOMAIN summaries' : summaries'[x] \in Int
        /\ changedIds' \subseteq DOMAIN summaries'
    BY <1>1, <1>3, <1>4, <1>5 DEF ProtoTypeOK
  <2> QED BY <1>2, <1>3, <2>1, <2>2 DEF ProtoTypeOK
<1>7. WrittenInv'
  <2>1. changedIds' \subseteq found' \cup Unfound
    BY <1>1, <1>3 DEF WrittenInv
  <2>2. ASSUME NEW x \in DOMAIN summaries' \ changedIds' PROVE \E k \in 1 .. Len(file) : LastListing(file', k, x, summaries'[x])
    <3>1. x \in DOMAIN summaries \ changedIds /\ x # id /\ summaries'[x] = summaries[x]
      BY <1>1, <1>4
    <3>2. PICK k \in 1 .. Len(file) : LastListing(file, k, x, summaries[x])
      BY <1>3, <3>1 DEF WrittenInv
    <3>3. LastListing(file', k, x, summaries'[x])
      BY <1>2, <3>1, <3>2 DEF LastListing
    <3> QED BY <3>3
  <2> QED BY <1>2, <1>3, <2>1, <2>2 DEF WrittenInv
<1>8. PtrsInv' /\ TracesInv'
  BY <1>2 DEF ProtoInv, WriterInv, PtrsInv, TracesInv, Explained
<1>9. AddrsInv' /\ SummaryInv'
  BY <1>2 DEF ProtoInv, ReaderInv, AddrsInv, SummaryInv, LastRead, Passed
<1>10. LeafInv'
  BY <1>2 DEF ProtoInv, ReaderInv, LeafInv, Passed, ShownPath, Lost
<1>11. SizesAreSums'
  BY <1>2 DEF ProtoInv, ReaderInv, SizesAreSums
<1> QED BY <1>6, <1>7, <1>8, <1>9, <1>10, <1>11 DEF ProtoInv, WriterInv, ReaderInv

\* Whatever the writer appends, the reader's state fits the snapshots it has
\* passed.
LEMMA AppendKeepsReader ==
  ASSUME ProtoInv, UNCHANGED protoReaderVars,
         \A k \in 1 .. Len(file) : file'[k] = file[k],
         Len(ptrs') \in Nat, Begins(ptrs, ptrs')
  PROVE  ReaderInv'
<1>1. UNCHANGED <<pos, last, addrs, leaf, lastSummary, size, skipped>>
  BY DEF protoReaderVars
<1>2. ProtoTypeOK /\ PtrsInv /\ AddrsInv /\ LeafInv /\ SummaryInv /\ SizesAreSums
  BY DEF ProtoInv, WriterInv, ReaderInv
<1>3. Len(file) \in Nat /\ pos \in 0 .. Len(file) /\ skipped \subseteq 1 .. pos /\ Len(ptrs) \in Nat
  BY <1>2 DEF ProtoTypeOK
<1>4. \A k \in 1 .. pos : k \in 1 .. Len(file) /\ file'[k] = file[k]
  BY <1>3
<1>5. Passed' = Passed /\ Passed \subseteq 1 .. pos
  BY <1>1 DEF Passed
<1>6. Len(ptrs) <= Len(ptrs') /\ \A i \in 1 .. Len(ptrs) : i \in 1 .. Len(ptrs') /\ ptrs'[i] = ptrs[i]
  BY <1>3 DEF Begins
<1>7. AddrsInv'
  <2>1. \A i \in DOMAIN addrs : i \in 1 .. Len(ptrs') /\ addrs[i] = ptrs'[i]
    BY <1>2, <1>6 DEF AddrsInv
  <2>2. ASSUME NEW i \in 1 .. Len(ptrs') PROVE i \in DOMAIN addrs <=> \E k \in Passed : HasId(file[k], i)
    <3>1. CASE i \in 1 .. Len(ptrs)
      BY <1>2, <3>1 DEF AddrsInv
    <3>2. CASE i \notin 1 .. Len(ptrs)
      <4>1. i \notin DOMAIN addrs
        BY <1>2, <3>2 DEF AddrsInv
      <4>2. \A k \in Passed : ~HasId(file[k], i)
        BY <1>2, <1>4, <1>5, <3>2 DEF PtrsInv, HasId
      <4> QED BY <4>1, <4>2
    <3> QED BY <3>1, <3>2
  <2> QED BY <1>1, <1>4, <1>5, <2>1, <2>2 DEF AddrsInv
<1>8. LeafInv'
  <2>1. Lost' = Lost
    BY <1>1, <1>3, <1>4 DEF Lost
  <2>2. leaf' = [id \in DOMAIN leaf' |-> ShownPath(id)']
    BY <1>1, <1>2, <2>1 DEF LeafInv, ShownPath
  <2> QED BY <1>1, <1>2, <1>4, <1>5, <2>2 DEF LeafInv
<1>9. SummaryInv'
  <2>1. \A k \in Passed : file'[k] = file[k]
    BY <1>4, <1>5
  <2>2. ASSUME NEW k \in Passed, NEW id, NEW v, LastRead(file, Passed, k, id, v)
        PROVE  LastRead(file', Passed', k, id, v)
    BY <1>5, <2>1, <2>2 DEF LastRead
  <2> QED BY <1>1, <1>2, <1>5, <2>1, <2>2 DEF SummaryInv
<1>10. SizesAreSums'
  BY <1>1, <1>2 DEF SizesAreSums
<1> QED BY <1>7, <1>8, <1>9, <1>10 DEF ReaderInv

\* A flush appends what changed, and nothing is waiting after it.
LEMMA FlushProto == ProtoInv /\ ProtoFlush => ProtoInv'
<1> SUFFICES ASSUME ProtoInv, ProtoFlush PROVE ProtoInv'
  OBVIOUS
<1>1. PICK order \in SetToSeqs(changedIds), now \in 1 .. MaxTime :
        LET r == FlushingAll(order, now)[Len(order)] IN
        ptrs' = r.ptrs /\ written' = r.written /\ file' = Append(file, r.snap)
  BY DEF ProtoFlush
<1> DEFINE r == FlushingAll(order, now)[Len(order)]
           snap == r.snap
           K == Len(file)
<1>2. ptrs' = r.ptrs /\ written' = r.written /\ file' = Append(file, snap)
  BY <1>1
<1>3. changedIds' = {} /\ UNCHANGED <<found, summaries, calls, protoReaderVars>>
  BY DEF ProtoFlush
<1>4. ProtoTypeOK /\ PtrsInv /\ TracesInv /\ WrittenInv
  BY DEF ProtoInv, WriterInv
<1>5. CanFlush
  BY <1>4 DEF CanFlush, ProtoTypeOK, PtrsInv, WrittenInv
<1>6. now \in Int
  BY TimeAssumption
<1>7. FlushGood(r) /\ \A id \in changedIds : Lists(snap, id)
  <2> HIDE DEF r
  <2>1. r = FlushingAll(order, now)[Len(order)]
    BY DEF r
  <2> QED BY <1>5, <1>6, <2>1, FlushingAllGood
<1> HIDE DEF r
<1>8. FlushTypes(r) /\ FlushPtrs(r) /\ FlushTraces(r) /\ FlushSums(r)
  BY <1>7 DEF FlushGood
<1>9. r \in Flushes /\ r.ptrs \in Seq(Addr) /\ r.written \in SUBSET StackId /\ snap \in Snapshots
      /\ Different(r.ptrs) /\ Begins(ptrs, r.ptrs)
  BY <1>8 DEF FlushTypes, Flushes
<1>9a. snap.stacktraces \in Seq(Traced) /\ snap.changed \in Seq(Summed)
  BY <1>9 DEF Snapshots
<1>9b. DOMAIN snap.stacktraces = 1 .. Len(snap.stacktraces) /\ DOMAIN snap.changed = 1 .. Len(snap.changed)
  BY <1>9a
<1> HIDE DEF snap
<1>10. K \in Nat /\ file' \in Seq(Snapshots) /\ Len(file') = K + 1 /\ file'[K + 1] = snap
       /\ \A k \in 1 .. K : file'[k] = file[k]
  BY <1>2, <1>4, <1>9 DEF ProtoTypeOK
<1>11. Len(ptrs) \in Nat /\ Len(ptrs') \in Nat /\ Len(ptrs) <= Len(ptrs')
       /\ \A i \in 1 .. Len(ptrs) : ptrs'[i] = ptrs[i]
  BY <1>2, <1>4, <1>9 DEF ProtoTypeOK, Begins
<1> HIDE DEF K
<1>12. \A k \in 1 .. K + 1 : k \in 1 .. K \/ k = K + 1
  BY <1>10
<1>13. ReaderInv'
  BY <1>2, <1>3, <1>9, <1>10, <1>11, AppendKeepsReader DEF K
<1>14. ProtoTypeOK'
  <2>1. pos' \in 0 .. Len(file') /\ skipped' \subseteq 1 .. pos'
    BY <1>3, <1>4, <1>10 DEF ProtoTypeOK, protoReaderVars, K
  <2>2. changedIds' \subseteq DOMAIN summaries' /\ IsFiniteSet(changedIds')
    BY <1>3, FS_EmptySet
  <2> QED BY <1>2, <1>3, <1>4, <1>9, <1>10, <2>1, <2>2 DEF ProtoTypeOK, protoReaderVars
<1>15. PtrsInv'
  <2>1. Different(ptrs')
    BY <1>2, <1>9
  <2>2. \A e \in snap.ptrIds : e[1] \in Len(ptrs) + 1 .. Len(ptrs') /\ e[2] = ptrs'[e[1]]
    BY <1>2, <1>8 DEF FlushPtrs, snap
  <2>3. ASSUME NEW k \in 1 .. K, NEW e \in file[k].ptrIds
        PROVE  e[1] \in 1 .. Len(ptrs) /\ e[2] = ptrs[e[1]]
    BY <1>4 DEF PtrsInv, K
  <2>4. \A k \in 1 .. K + 1 : \A e \in file'[k].ptrIds : e[1] \in 1 .. Len(ptrs') /\ e[2] = ptrs'[e[1]]
    BY <1>10, <1>11, <1>12, <2>2, <2>3
  <2>5. ASSUME NEW i \in 1 .. Len(ptrs') PROVE \E k \in 1 .. K + 1 : HasId(file'[k], i)
    <3>1. CASE i \in 1 .. Len(ptrs)
      <4>1. PICK k \in 1 .. K : HasId(file[k], i)
        BY <1>4, <3>1 DEF PtrsInv, K
      <4>2. k \in 1 .. K + 1 /\ HasId(file'[k], i)
        BY <1>10, <4>1
      <4> QED BY <4>2
    <3>2. CASE i \notin 1 .. Len(ptrs)
      <4>1. i \in Len(ptrs) + 1 .. Len(r.ptrs)
        BY <1>2, <1>11, <3>2
      <4>2. <<i, r.ptrs[i]>> \in snap.ptrIds
        BY <1>8, <4>1 DEF FlushPtrs, snap
      <4>3. HasId(file'[K + 1], i)
        BY <1>10, <4>2 DEF HasId
      <4>4. K + 1 \in 1 .. K + 1
        BY <1>10
      <4> QED BY <4>3, <4>4
    <3> QED BY <3>1, <3>2
  <2>6. ASSUME NEW i \in 1 .. Len(ptrs'), NEW j \in 1 .. K + 1, NEW k \in 1 .. K + 1,
               HasId(file'[j], i), HasId(file'[k], i)
        PROVE  j = k
    <3>1. ASSUME NEW l \in 1 .. K, HasId(file[l], i) PROVE i \in 1 .. Len(ptrs)
      BY <2>3, <3>1 DEF HasId
    <3>2. HasId(snap, i) => i \notin 1 .. Len(ptrs)
      BY <1>11, <2>2 DEF HasId
    <3>3. CASE j \in 1 .. K /\ k \in 1 .. K
      BY <1>4, <1>10, <2>6, <3>1, <3>3 DEF PtrsInv, K
    <3> QED BY <1>10, <1>12, <2>6, <3>1, <3>2, <3>3
  <2> QED BY <1>10, <2>1, <2>4, <2>5, <2>6 DEF PtrsInv
<1>16. TracesInv'
  <2>1. ASSUME NEW k \in 1 .. K + 1, NEW n \in 1 .. Len(file'[k].stacktraces)
        PROVE  Names(ptrs', file'[k].stacktraces[n]) /\ Explained(file', k, file'[k].stacktraces[n])
    <3> DEFINE t == file'[k].stacktraces[n]
    <3>1. CASE k \in 1 .. K
      <4>1. Names(ptrs, t) /\ Explained(file, k, t)
        BY <1>4, <1>10, <3>1 DEF TracesInv, K
      <4>2. ptrs \in Seq(Addr) /\ ptrs' \in Seq(Addr) /\ Begins(ptrs, ptrs')
        BY <1>2, <1>4, <1>9 DEF ProtoTypeOK
      <4>3. Names(ptrs', t)
        <5> HIDE DEF t
        <5> QED BY <4>1, <4>2, NamesKept
      <4>4. \A j \in 1 .. k : file'[j] = file[j]
        BY <1>10, <3>1
      <4>5. \A i \in 1 .. Len(t.ptrs) : \E j \in 1 .. k : HasId(file'[j], t.ptrs[i])
        <5> HIDE DEF t
        <5> QED BY <4>1, <4>4 DEF Explained
      <4> QED BY <4>3, <4>5 DEF Explained
    <3>2. CASE k = K + 1
      <4>1. Names(r.ptrs, t)
        BY <1>8, <1>10, <3>2 DEF FlushTraces, snap
      <4>2. ASSUME NEW i \in 1 .. Len(t.ptrs) PROVE \E j \in 1 .. k : HasId(file'[j], t.ptrs[i])
        <5>1. t.ptrs[i] \in 1 .. Len(ptrs')
          BY <1>2, <4>1 DEF Names
        <5> HIDE DEF t
        <5> QED BY <1>10, <1>15, <3>2, <5>1 DEF PtrsInv
      <4> QED BY <1>2, <4>1, <4>2 DEF Explained
    <3> QED BY <1>12, <3>1, <3>2
  <2>2. ASSUME NEW k \in 1 .. K + 1, NEW j \in 1 .. k - 1, NEW id \in StackId, Announces(file'[k], id)
        PROVE  ~Lists(file'[j], id)
    <3>1. j \in 1 .. K /\ file'[j] = file[j]
      BY <1>10
    <3>2. CASE k \in 1 .. K
      BY <1>4, <1>10, <2>2, <3>1, <3>2 DEF TracesInv, K
    <3>3. CASE k = K + 1
      <4>1. id \notin written
        BY <1>8, <1>9b, <1>10, <2>2, <3>3 DEF Announces, FlushTraces, snap
      <4> QED BY <1>4, <3>1, <4>1 DEF WrittenInv, K
    <3> QED BY <1>12, <3>2, <3>3
  <2> QED BY <1>10, <2>1, <2>2 DEF TracesInv
<1>17. WrittenInv'
  <2>0. written \subseteq written'
    BY <1>2, <1>8 DEF FlushTraces
  <2>1. ASSUME NEW k \in 1 .. K + 1, NEW id \in StackId, Lists(file'[k], id) PROVE id \in written'
    <3>1. CASE k \in 1 .. K
      BY <1>4, <1>10, <2>0, <2>1, <3>1 DEF WrittenInv, K
    <3>2. CASE k = K + 1
      BY <1>2, <1>8, <1>9b, <1>10, <2>1, <3>2, SMTT(20) DEF Lists, FlushSums, snap
    <3> QED BY <1>12, <3>1, <3>2
  <2>2. ASSUME NEW id \in written', id \notin Unfound, id # 0
        PROVE  \E k \in 1 .. K + 1 : Announces(file'[k], id)
    <3>1. CASE id \in written
      <4>1. PICK k \in 1 .. K : Announces(file[k], id)
        BY <1>4, <2>2, <3>1 DEF WrittenInv, K
      <4>2. k \in 1 .. K + 1 /\ Announces(file'[k], id)
        BY <1>10, <4>1
      <4> QED BY <4>2
    <3>2. CASE id \notin written
      <4>1. Announces(snap, id)
        BY <1>2, <1>8, <2>2, <3>2 DEF FlushTraces, snap
      <4>2. K + 1 \in 1 .. K + 1 /\ Announces(file'[K + 1], id)
        BY <1>10, <4>1
      <4> QED BY <4>2
    <3> QED BY <3>1, <3>2
  <2>3. ASSUME NEW id \in DOMAIN summaries PROVE \E k \in 1 .. K + 1 : LastListing(file', k, id, summaries'[id])
    <3>1. summaries' = summaries /\ id \in StackId
      BY <1>3, <1>4 DEF ProtoTypeOK
    <3>2. CASE Lists(snap, id)
      <4>1. \A n \in 1 .. Len(snap.changed) : snap.changed[n].id = id => snap.changed[n].actual = summaries[id]
        BY <1>8 DEF FlushSums, snap
      <4>2. LastListing(file', K + 1, id, summaries'[id])
        BY <1>10, <3>1, <3>2, <4>1 DEF LastListing
      <4>3. K + 1 \in 1 .. K + 1
        BY <1>10
      <4> QED BY <4>2, <4>3
    <3>3. CASE ~Lists(snap, id)
      <4>1. PICK k \in 1 .. K : LastListing(file, k, id, summaries[id])
        BY <1>4, <1>7, <3>3 DEF WrittenInv, K
      <4>2. ASSUME NEW j \in k + 1 .. K + 1 PROVE ~Lists(file'[j], id)
        <5>1. CASE j = K + 1
          BY <1>10, <3>3, <5>1
        <5>2. CASE j # K + 1
          <6>1. j \in k + 1 .. Len(file) /\ j \in 1 .. K
            BY <1>10, <5>2 DEF K
          <6> QED BY <1>10, <4>1, <6>1 DEF LastListing
        <5> QED BY <5>1, <5>2
      <4>3. file'[k] = file[k] /\ k \in 1 .. K + 1
        BY <1>10
      <4>4. LastListing(file', k, id, summaries'[id])
        BY <1>10, <3>1, <4>1, <4>2, <4>3 DEF LastListing
      <4> QED BY <4>3, <4>4
    <3> QED BY <3>2, <3>3
  <2>4. changedIds' \subseteq found' \cup Unfound /\ DOMAIN summaries' = DOMAIN summaries
    BY <1>3
  <2> QED BY <1>10, <2>1, <2>2, <2>3, <2>4 DEF WrittenInv
<1> QED BY <1>13, <1>14, <1>15, <1>16, <1>17 DEF ProtoInv, WriterInv

-----------------------------------------------------------------------------
(* The reader.                                                             *)

\* The i-th address p of a trace that snapshot k announces, and its id x.
AddressOf(k, n, i, x, p) ==
  /\ k \in 1 .. Len(file) /\ n \in 1 .. Len(file[k].stacktraces)
  /\ i \in 1 .. Len(file[k].stacktraces[n].ptrs)
  /\ x = file[k].stacktraces[n].ptrs[i] /\ p = Stack[file[k].stacktraces[n].id][i]

\* The j-th snapshot alone tells of the address p with the id x.
Origin(j, x, p) ==
  \A m \in 1 .. Len(file) :
    (HasId(file[m], x) <=> m = j) /\ ((\E e \in file[m].ptrIds : e[2] = p) <=> m = j)

\* Of each address of an announced trace, one snapshot up to the announcement
\* tells, and that one alone.
LEMMA AddressOrigin ==
  ASSUME ProtoInv, NEW k, NEW n, NEW i, NEW x, NEW p, AddressOf(k, n, i, x, p)
  PROVE  x \in 1 .. Len(ptrs) /\ ptrs[x] = p /\ \E j \in 1 .. k : Origin(j, x, p)
<1> USE DEF AddressOf
<1> DEFINE t == file[k].stacktraces[n]
<1>1. PtrsInv /\ TracesInv /\ ProtoTypeOK
  BY DEF ProtoInv, WriterInv
<1>2. Names(ptrs, t) /\ Explained(file, k, t)
  BY <1>1 DEF TracesInv
<1>3. x \in 1 .. Len(ptrs) /\ ptrs[x] = p
  BY <1>2 DEF Names
<1>4. PICK j \in 1 .. k : HasId(file[j], x)
  BY <1>2 DEF Explained
<1>5. j \in 1 .. Len(file) /\ DOMAIN ptrs = 1 .. Len(ptrs)
  BY <1>1 DEF ProtoTypeOK
<1> HIDE DEF t, AddressOf
<1>6. ASSUME NEW m \in 1 .. Len(file) PROVE HasId(file[m], x) <=> m = j
  BY <1>1, <1>3, <1>4, <1>5 DEF PtrsInv
<1>7. ASSUME NEW m \in 1 .. Len(file) PROVE (\E e \in file[m].ptrIds : e[2] = p) <=> HasId(file[m], x)
  <2>1. ASSUME NEW e \in file[m].ptrIds PROVE e[2] = p <=> e[1] = x
    <3>1. e[1] \in DOMAIN ptrs /\ e[2] = ptrs[e[1]]
      BY <1>1, <1>5 DEF PtrsInv
    <3>2. x \in DOMAIN ptrs
      BY <1>3, <1>5
    <3>3. ptrs[e[1]] = ptrs[x] => e[1] = x
      BY <1>1, <3>1, <3>2 DEF PtrsInv, Different
    <3> QED BY <1>3, <3>1, <3>3
  <2> QED BY <2>1 DEF HasId
<1>8. Origin(j, x, p)
  BY <1>6, <1>7 DEF Origin
<1> QED BY <1>3, <1>8

\* The path of an announced trace does not depend on later snapshots.
LEMMA ShownPathKept ==
  ASSUME ProtoInv, NEW id \in StackId, NEW k \in 1 .. pos, Announces(file[k], id),
         skipped' = skipped \cup {pos + 1}, file' = file, pos < Len(file)
  PROVE  ShownPath(id)' = ShownPath(id)
<1>1. ProtoTypeOK
  BY DEF ProtoInv
<1>2. k \in 1 .. Len(file) /\ Len(file) \in Nat /\ file[k] \in Snapshots /\ skipped \subseteq 1 .. pos /\ pos \in Nat
      /\ pos + 1 \in 1 .. Len(file)
  BY <1>1 DEF ProtoTypeOK
<1>3. file[k].stacktraces \in Seq(Traced)
  BY <1>2 DEF Snapshots
<1>4. PICK n \in 1 .. Len(file[k].stacktraces) : file[k].stacktraces[n].id = id
  BY <1>3 DEF Announces
<1> DEFINE t == file[k].stacktraces[n]
           A == [p \in Addr \ Lost |-> p]
           B == [p \in Addr \ Lost' |-> p]
           s == Stack[id]
<1>5. Names(ptrs, t)
  BY <1>2, <1>4 DEF ProtoInv, WriterInv, TracesInv
<1>6. s \in Seq(Addr) /\ Len(s) \in Nat /\ Len(s) = Len(t.ptrs)
  BY <1>4, <1>5, StackAssumption DEF Names
<1>7. ASSUME NEW i \in 1 .. Len(s) PROVE s[i] \in Addr /\ (s[i] \in Lost <=> s[i] \in Lost')
  <2>1. s[i] \in Addr
    BY <1>6
  <2>2. AddressOf(k, n, i, t.ptrs[i], s[i])
    BY <1>2, <1>4, <1>6 DEF AddressOf
  <2>3. PICK j \in 1 .. k : Origin(j, t.ptrs[i], s[i])
    BY <2>2, AddressOrigin
  <2>4. j # pos + 1 /\ j \in 1 .. Len(file)
    BY <1>2
  <2>5. s[i] \in Lost <=> j \in skipped
    <3>1. skipped \subseteq 1 .. Len(file)
      BY <1>2
    <3> DEFINE p == s[i]
    <3> HIDE DEF p
    <3>2. p \in Addr /\ \A m \in 1 .. Len(file) : (\E e \in file[m].ptrIds : e[2] = p) <=> m = j
      BY <2>1, <2>3 DEF p, Origin
    <3>3. p \in Lost <=> j \in skipped
      BY <2>4, <3>1, <3>2 DEF Lost
    <3> QED BY <3>3 DEF p
  <2>6. s[i] \in Lost' <=> j \in skipped'
    <3>1. Lost' = {p \in Addr : \E m \in skipped' : \E e \in file[m].ptrIds : e[2] = p}
      BY DEF Lost
    <3>2. skipped' \subseteq 1 .. Len(file)
      BY <1>2
    <3> DEFINE p == s[i]
    <3> HIDE DEF p
    <3>3. p \in Addr /\ \A m \in 1 .. Len(file) : (\E e \in file[m].ptrIds : e[2] = p) <=> m = j
      BY <2>1, <2>3 DEF p, Origin
    <3>4. p \in Lost' <=> j \in skipped'
      BY <2>4, <3>1, <3>2, <3>3
    <3> QED BY <3>4 DEF p
  <2> QED BY <2>1, <2>4, <2>5, <2>6
<1> HIDE DEF s
<1>8. Agree(B, s, A, s)
  BY <1>6, <1>7 DEF Agree
<1>9. FilterMap(B, s) = FilterMap(A, s)
  <2> HIDE DEF A, B
  <2> QED BY <1>8, SameFilter
<1>10. ShownPath(id)' = PathOf(id, FilterMap(B, s)) /\ ShownPath(id) = PathOf(id, FilterMap(A, s))
  BY DEF ShownPath, s
<1> QED BY <1>9, <1>10

\* A snapshot that is skipped changes no leaf and no sum.
LEMMA SkipProto == ProtoInv /\ SkipSnapshot => ProtoInv'
<1> SUFFICES ASSUME ProtoInv, SkipSnapshot PROVE ProtoInv'
  OBVIOUS
<1>1. pos < Len(file) /\ pos' = pos + 1 /\ skipped' = skipped \cup {pos + 1}
      /\ UNCHANGED <<found, summaries, changedIds, written, ptrs, file, calls, addrs, leaf, lastSummary, size>>
  BY DEF SkipSnapshot, protoWriterVars
<1>2. ProtoTypeOK /\ WriterInv /\ AddrsInv /\ LeafInv /\ SummaryInv /\ SizesAreSums
  BY DEF ProtoInv, ReaderInv
<1>3. pos \in Nat /\ Len(file) \in Nat /\ skipped \subseteq 1 .. pos
  BY <1>2 DEF ProtoTypeOK
<1>4. Passed' = Passed /\ Passed \subseteq 1 .. pos
  BY <1>1, <1>3 DEF Passed
<1>5. ProtoTypeOK'
  <2>1. pos' \in 0 .. Len(file') /\ skipped' \subseteq 1 .. pos'
    BY <1>1, <1>3
  <2> QED BY <1>1, <1>2, <2>1 DEF ProtoTypeOK
<1>6. WriterInv'
  BY <1>1, <1>2 DEF WriterInv, PtrsInv, TracesInv, WrittenInv
<1>7. AddrsInv' /\ SummaryInv'
  BY <1>1, <1>2, <1>4 DEF AddrsInv, SummaryInv
<1>8. LeafInv'
  <2>1. ASSUME NEW id \in DOMAIN leaf PROVE ShownPath(id)' = ShownPath(id)
    <3>1. PICK k \in Passed : Announces(file[k], id) /\ id \in StackId
      BY <1>2 DEF LeafInv
    <3>2. k \in 1 .. pos
      BY <1>4
    <3> QED BY <1>1, <3>1, <3>2, ShownPathKept
  <2>2. leaf' = [id \in DOMAIN leaf' |-> ShownPath(id)']
    BY <1>1, <1>2, <2>1 DEF LeafInv
  <2> QED BY <1>1, <1>2, <1>4, <2>2 DEF LeafInv
<1>9. SizesAreSums'
  BY <1>1, <1>2 DEF SizesAreSums
<1> QED BY <1>5, <1>6, <1>7, <1>8, <1>9 DEF ProtoInv, ReaderInv

\* The addresses after a snapshot that is processed.
LEMMA AddrsRead ==
  ASSUME ProtoInv, pos < Len(file), NEW w, w = WithPtrIds(file[pos + 1])
  PROVE  /\ \A i \in DOMAIN w : i \in 1 .. Len(ptrs) /\ w[i] = ptrs[i]
         /\ \A i \in 1 .. Len(ptrs) : i \in DOMAIN w <=> \E k \in Passed \cup {pos + 1} : HasId(file[k], i)
<1> DEFINE snap == file[pos + 1]
<1>1. ProtoTypeOK /\ PtrsInv /\ AddrsInv
  BY DEF ProtoInv, WriterInv, ReaderInv
<1>2. pos + 1 \in 1 .. Len(file)
  BY <1>1 DEF ProtoTypeOK
<1>3. \A e \in snap.ptrIds : e[1] \in 1 .. Len(ptrs) /\ e[2] = ptrs[e[1]]
  BY <1>1, <1>2 DEF PtrsInv
<1> HIDE DEF snap
<1>4. w = [i \in DOMAIN addrs \cup {p[1] : p \in snap.ptrIds} |->
             IF \E p \in snap.ptrIds : p[1] = i
               THEN (CHOOSE p \in snap.ptrIds : p[1] = i)[2] ELSE addrs[i]]
  BY DEF WithPtrIds, snap
<1>5. DOMAIN w = DOMAIN addrs \cup {p[1] : p \in snap.ptrIds}
  BY <1>4
<1>6. ASSUME NEW i \in DOMAIN w PROVE i \in 1 .. Len(ptrs) /\ w[i] = ptrs[i]
  <2>1. CASE \E p \in snap.ptrIds : p[1] = i
    <3> DEFINE p == CHOOSE p \in snap.ptrIds : p[1] = i
    <3>1. p \in snap.ptrIds /\ p[1] = i
      BY <2>1
    <3>2. w[i] = p[2]
      BY <1>4, <1>5, <2>1
    <3> HIDE DEF p
    <3> QED BY <1>3, <3>1, <3>2
  <2>2. CASE ~ \E p \in snap.ptrIds : p[1] = i
    <3>1. i \in DOMAIN addrs /\ w[i] = addrs[i]
      BY <1>4, <1>5, <2>2
    <3> QED BY <1>1, <3>1 DEF AddrsInv
  <2> QED BY <2>1, <2>2
<1>7. ASSUME NEW i \in 1 .. Len(ptrs)
      PROVE  i \in DOMAIN w <=> \E k \in Passed \cup {pos + 1} : HasId(file[k], i)
  <2>1. i \in DOMAIN w <=> i \in DOMAIN addrs \/ HasId(snap, i)
    BY <1>5 DEF HasId
  <2>2. i \in DOMAIN addrs <=> \E k \in Passed : HasId(file[k], i)
    BY <1>1 DEF AddrsInv
  <2> QED BY <2>1, <2>2 DEF snap
<1> QED BY <1>6, <1>7

\* A trace that is processed gets the path that is shown for it.
LEMMA LocalizedIsShown ==
  ASSUME ProtoInv, pos < Len(file), NEW n \in 1 .. Len(file[pos + 1].stacktraces),
         NEW t, t = file[pos + 1].stacktraces[n], NEW w, w = WithPtrIds(file[pos + 1])
  PROVE  t.id \in StackId /\ LocalizedTrace(w, t) = ShownPath(t.id)
<1> DEFINE k == pos + 1
           s == Stack[t.id]
           A == [p \in Addr \ Lost |-> p]
<1>1. ProtoTypeOK
  BY DEF ProtoInv
<1>2. k \in 1 .. Len(file) /\ file[k] \in Snapshots /\ skipped \subseteq 1 .. pos /\ pos \in Nat /\ Len(file) \in Nat
  BY <1>1 DEF ProtoTypeOK
<1>3. file[k].stacktraces \in Seq(Traced)
  BY <1>2 DEF Snapshots
<1>4. t \in Traced /\ t = file[k].stacktraces[n] /\ n \in 1 .. Len(file[k].stacktraces)
  BY <1>3
<1> HIDE DEF k
<1>5. Names(ptrs, t)
  BY <1>2, <1>4 DEF ProtoInv, WriterInv, TracesInv
<1>6. t.id \in StackId /\ s \in Seq(Addr) /\ Len(s) \in Nat /\ Len(s) = Len(t.ptrs)
  BY <1>4, <1>5, StackAssumption DEF Names, Traced
<1>7. ASSUME NEW i \in 1 .. Len(s)
      PROVE  /\ t.ptrs[i] \in DOMAIN w <=> s[i] \in DOMAIN A
             /\ t.ptrs[i] \in DOMAIN w => w[t.ptrs[i]] = A[s[i]]
  <2> DEFINE x == t.ptrs[i]
             p == s[i]
  <2>1. AddressOf(k, n, i, x, p)
    BY <1>2, <1>4, <1>6 DEF AddressOf
  <2>2. p \in Addr
    BY <1>6
  <2> HIDE DEF x, p
  <2>3. x \in 1 .. Len(ptrs) /\ ptrs[x] = p
    BY <2>1, AddressOrigin
  <2>4. PICK j \in 1 .. k : Origin(j, x, p)
    BY <2>1, AddressOrigin
  <2>5. j \in 1 .. Len(file) /\ j \in 1 .. pos + 1
    BY <1>2 DEF k
  <2>6. /\ \A m \in DOMAIN w : m \in 1 .. Len(ptrs) /\ w[m] = ptrs[m]
        /\ \A m \in 1 .. Len(ptrs) : m \in DOMAIN w <=> \E q \in Passed \cup {pos + 1} : HasId(file[q], m)
    BY AddrsRead
  <2>7. \A m \in 1 .. Len(file) : (HasId(file[m], x) <=> m = j) /\ ((\E e \in file[m].ptrIds : e[2] = p) <=> m = j)
    BY <2>4 DEF Origin
  <2>8. x \in DOMAIN w <=> j \notin skipped
    <3>1. Passed \cup {pos + 1} = (1 .. pos + 1) \ skipped /\ Passed \cup {pos + 1} \subseteq 1 .. Len(file)
      BY <1>2 DEF Passed, k
    <3>2. x \in DOMAIN w <=> \E q \in Passed \cup {pos + 1} : HasId(file[q], x)
      BY <2>3, <2>6
    <3> QED BY <2>5, <2>7, <3>1, <3>2
  <2>9. p \in Lost <=> j \in skipped
    <3>1. skipped \subseteq 1 .. Len(file)
      BY <1>2 DEF k
    <3> QED BY <2>2, <2>5, <2>7, <3>1 DEF Lost
  <2>10. x \in DOMAIN w <=> p \in DOMAIN A
    BY <2>2, <2>8, <2>9
  <2>11. x \in DOMAIN w => w[x] = A[p]
    BY <2>3, <2>6, <2>10
  <2> QED BY <2>10, <2>11 DEF x, p
<1>8. Agree(w, t.ptrs, A, s)
  <2>1. Len(t.ptrs) \in Nat /\ Len(s) = Len(t.ptrs)
    BY <1>6
  <2> HIDE DEF A, s
  <2> QED BY <1>7, <2>1 DEF Agree
<1>9. FilterMap(w, t.ptrs) = FilterMap(A, s)
  <2> DEFINE q == t.ptrs
  <2>1. Agree(w, q, A, s)
    BY <1>8
  <2> HIDE DEF A, s, q
  <2>2. FilterMap(w, q) = FilterMap(A, s)
    BY <2>1, SameFilter
  <2> QED BY <2>2 DEF q
<1> QED BY <1>6, <1>9 DEF LocalizedTrace, ShownPath

\* The leaves with the traces of a snapshot.
WithLeafs(traces) == [id \in DOMAIN leaf \cup {traces[n].id : n \in 1 .. Len(traces)} |-> ShownPath(id)]

\* The leaves after a snapshot that is processed.
LEMMA LeafsRead ==
  ASSUME ProtoInv, pos < Len(file), NEW traces, traces = file[pos + 1].stacktraces,
         NEW w, w = WithPtrIds(file[pos + 1]),
         NEW l, l = ProcessStacktraces(w, traces)[Len(traces)]
  PROVE  l = WithLeafs(traces)
<1> DEFINE N == Len(traces)
           B(n) == DOMAIN leaf \cup {traces[m].id : m \in 1 .. n}
           f == [n \in 0 .. N |-> [id \in B(n) |-> ShownPath(id)]]
           Body(h, n) == Put(h, traces[n].id, LocalizedTrace(w, traces[n]))
           Eqn(h) == h = [n \in 0 .. N |-> IF n = 0 THEN leaf ELSE Body(h[n - 1], n)]
           g == CHOOSE h : Eqn(h)
<1>1. N \in Nat
  <2>1. file[pos + 1] \in Snapshots
    BY DEF ProtoInv, ProtoTypeOK
  <2> QED BY <2>1 DEF Snapshots
<1>2. \A n \in 1 .. N : LocalizedTrace(w, traces[n]) = ShownPath(traces[n].id)
  <2> SUFFICES ASSUME NEW n \in 1 .. N PROVE LocalizedTrace(w, traces[n]) = ShownPath(traces[n].id)
    OBVIOUS
  <2> DEFINE t == traces[n]
  <2>1. n \in 1 .. Len(file[pos + 1].stacktraces) /\ t = file[pos + 1].stacktraces[n]
    OBVIOUS
  <2> HIDE DEF t
  <2>2. LocalizedTrace(w, t) = ShownPath(t.id)
    BY <2>1, LocalizedIsShown
  <2> QED BY <2>2 DEF t
<1>3. f[0] = leaf
  <2>1. 1 .. 0 = {} /\ 0 \in 0 .. N
    BY <1>1
  <2>2. {traces[m].id : m \in 1 .. 0} = {}
    BY <2>1, Zenon
  <2>3. B(0) = DOMAIN leaf
    BY <2>2, Zenon
  <2> HIDE DEF B
  <2>4. f[0] = [id \in B(0) |-> ShownPath(id)]
    BY <2>1, Zenon
  <2>5. leaf = [id \in DOMAIN leaf |-> ShownPath(id)]
    BY Zenon DEF ProtoInv, ReaderInv, LeafInv
  <2> QED BY <2>3, <2>4, <2>5
<1>4. ASSUME NEW n \in 1 .. N PROVE f[n] = Body(f[n - 1], n)
  <2>1. n \in 0 .. N /\ n - 1 \in 0 .. N
    BY <1>1
  <2>2. B(n) = B(n - 1) \cup {traces[n].id}
    <3>1. \A m \in 1 .. n : m \in 1 .. n - 1 \/ m = n
      BY <1>1
    <3>2. n \in 1 .. n /\ \A m \in 1 .. n - 1 : m \in 1 .. n
      BY <1>1
    <3> QED BY <3>1, <3>2
  <2> HIDE DEF B
  <2>3. f[n] = [id \in B(n) |-> ShownPath(id)] /\ f[n - 1] = [id \in B(n - 1) |-> ShownPath(id)]
    BY <2>1
  <2> HIDE DEF f
  <2> DEFINE k == traces[n].id
             v == LocalizedTrace(w, traces[n])
             h0 == f[n - 1]
             h1 == f[n]
  <2>4. v = ShownPath(k)
    BY <1>2
  <2>5. h1 = [id \in B(n - 1) \cup {k} |-> ShownPath(id)] /\ h0 = [id \in B(n - 1) |-> ShownPath(id)]
    BY <2>2, <2>3
  <2>6. Body(h0, n) = Put(h0, k, v)
    BY Zenon
  <2> HIDE DEF k, v, h0, h1, Body
  <2>7. h1 = Put(h0, k, v)
    BY <2>4, <2>5 DEF Put
  <2> QED BY <2>6, <2>7 DEF h0, h1
<1> HIDE DEF Body
<1>5. Eqn(f)
  <2>1. f = [n \in 0 .. N |-> f[n]]
    OBVIOUS
  <2> DEFINE r == [n \in 0 .. N |-> IF n = 0 THEN leaf ELSE Body(f[n - 1], n)]
  <2> HIDE DEF f
  <2>2. ASSUME NEW n \in 0 .. N PROVE f[n] = r[n]
    <3>1. CASE n = 0
      BY <3>1, <1>3
    <3>2. CASE n # 0
      <4>1. n \in 1 .. N
        BY <1>1, <3>2
      <4>2. r[n] = Body(f[n - 1], n)
        BY <3>2, Zenon
      <4> QED BY <1>4, <4>1, <4>2, Zenon
    <3> QED BY <3>1, <3>2
  <2>3. r = [n \in 0 .. N |-> r[n]]
    OBVIOUS
  <2> HIDE DEF r
  <2>4. f = r
    BY <2>1, <2>2, <2>3
  <2> QED BY <2>4, Zenon DEF r
<1> HIDE DEF f
<1>6. Eqn(g)
  BY <1>5
<1>7. ASSUME NEW h, Eqn(h) PROVE h[0] = leaf /\ \A n \in 1 .. N : h[n] = Body(h[n - 1], n)
  BY <1>1, <1>7
<1>8. ProcessStacktraces(w, traces) = g
  BY DEF ProcessStacktraces, Body, N
<1> HIDE DEF g
<1>9. g[0] = leaf /\ \A n \in 1 .. N : g[n] = Body(g[n - 1], n)
  BY <1>6, <1>7
<1>10. g[N] = f[N]
  <2>1. \A n \in 1 .. N : g[n - 1] = f[n - 1] => g[n] = f[n]
    BY <1>4, <1>9
  <2> HIDE DEF N
  <2> QED BY <1>1, <1>3, <1>9, <2>1, SameLoop
<1>11. f[N] = [id \in B(N) |-> ShownPath(id)]
  BY <1>1 DEF f
<1> QED BY <1>8, <1>10, <1>11 DEF WithLeafs

-----------------------------------------------------------------------------
(* The sizes.                                                              *)

\* SizesAreSums of given leaves, summaries and sizes.
IdsAt(leafs, l, p) == {id \in DOMAIN l : LeafOf(leafs, id) = p}
SumsOf(leafs, l, z) ==
  /\ \A id \in DOMAIN l : LeafOf(leafs, id) \in DOMAIN z
  /\ \A p \in DOMAIN z : z[p] = SumFunction([id \in IdsAt(leafs, l, p) |-> l[id]])

\* The states of the loop of process_allocations.
ReadStates(leafs) ==
  {st \in [lastSummary : UNION {[A -> Int] : A \in SUBSET StackId},
           size : UNION {[E -> Int] : E \in SUBSET (DOMAIN size \cup {LeafOf(leafs, id) : id \in StackId})}] :
     IsFiniteSet(DOMAIN st.lastSummary) /\ SumsOf(leafs, st.lastSummary, st.size)}

\* The summary v of a trace, whose leaf is q, after the summaries l and sizes z.
NextSums(leafs, A, l, E, z, id, v, q, l2, z2) ==
  /\ l \in [A -> Int] /\ IsFiniteSet(A) /\ z \in [E -> Int] /\ SumsOf(leafs, l, z)
  /\ id \in StackId /\ v \in Int /\ q = LeafOf(leafs, id)
  /\ l2 = Put(l, id, v) /\ z2 = Account(z, q, v - Get(l, id))

\* A size that grows by the difference to the last summary is a sum again.
LEMMA SummaryKeepsSums ==
  ASSUME NEW leafs, NEW A, NEW l, NEW E, NEW z, NEW id, NEW v, NEW q, NEW l2, NEW z2,
         NextSums(leafs, A, l, E, z, id, v, q, l2, z2)
  PROVE  SumsOf(leafs, l2, z2) /\ z2 \in [E \cup {q} -> Int] /\ l2 \in [A \cup {id} -> Int]
<1> USE DEF NextSums
<1> DEFINE d == v - Get(l, id)
<1>1. DOMAIN l = A /\ DOMAIN z = E
  OBVIOUS
<1>2. l2 \in [A \cup {id} -> Int] /\ l2[id] = v /\ \A x \in A : x # id => l2[x] = l[x]
  BY DEF Put
<1>3. d \in Int /\ (id \in A => d = v - l[id]) /\ (id \notin A => d = v)
  BY DEF Get
<1>4. Get(z, q) \in Int
  BY DEF Get
<1> HIDE DEF d
<1>5. z2 \in [E \cup {q} -> Int] /\ z2[q] = Get(z, q) + d /\ \A p \in E : p # q => z2[p] = z[p]
  BY <1>3, <1>4 DEF Put, Account, d
<1>6. DOMAIN l2 = A \cup {id} /\ DOMAIN z2 = E \cup {q}
  BY <1>2, <1>5
<1>7. \A x \in DOMAIN l2 : LeafOf(leafs, x) \in DOMAIN z2
  BY <1>1, <1>6 DEF SumsOf
<1>8. ASSUME NEW p \in DOMAIN z2 PROVE z2[p] = SumFunction([x \in IdsAt(leafs, l2, p) |-> l2[x]])
  <2> DEFINE f == [x \in IdsAt(leafs, l, p) |-> l[x]]
             g == [x \in IdsAt(leafs, l2, p) |-> l2[x]]
  <2>1. CASE p # q
    <3>1. IdsAt(leafs, l2, p) = IdsAt(leafs, l, p) /\ id \notin IdsAt(leafs, l, p)
      BY <1>1, <1>6, <2>1 DEF IdsAt
    <3>2. \A x \in IdsAt(leafs, l, p) : l2[x] = l[x]
      BY <1>1, <1>2, <3>1 DEF IdsAt
    <3>3. f = g
      BY <3>1, <3>2
    <3>4. p \in DOMAIN z /\ z2[p] = z[p]
      BY <1>1, <1>5, <1>6, <2>1
    <3>5. z[p] = SumFunction(f)
      BY <3>4 DEF SumsOf
    <3> HIDE DEF f, g
    <3>6. z2[p] = SumFunction(g)
      BY <3>3, <3>4, <3>5
    <3> QED BY <3>6 DEF g
  <2>2. CASE p = q
    <3> DEFINE S == IdsAt(leafs, l, p)
    <3>1. S \subseteq A /\ IdsAt(leafs, l2, p) = S \cup {id}
      BY <1>1, <1>6, <2>2 DEF IdsAt
    <3>2. id \in S <=> id \in A
      BY <1>1, <2>2 DEF IdsAt
    <3>3. IsFiniteSet(S)
      BY <3>1, FS_Subset
    <3> HIDE DEF S
    <3>4. f \in [S -> Int] /\ \A x \in S : f[x] = l[x]
      BY <3>1 DEF S
    <3>5. g \in [S \cup {id} -> Int] /\ g[id] = v /\ \A x \in S : x # id => g[x] = l[x]
      BY <1>2, <3>1
    <3> HIDE DEF f, g
    <3>6. Grows(f, g, S, id, d)
      BY <1>3, <3>2, <3>3, <3>4, <3>5 DEF Grows
    <3>7. SumFunction(g) = SumFunction(f) + d
      BY <3>6, SumGrows
    <3>8. SumFunction(f) = Get(z, q)
      <4>1. CASE q \in E
        BY <1>1, <2>2, <4>1 DEF SumsOf, Get, f
      <4>2. CASE q \notin E
        <5>1. S = {}
          BY <1>1, <2>2, <4>2 DEF SumsOf, IdsAt, S
        <5>2. PICK h : IsSum(h, f, S) /\ SumFunction(f) = h[S]
          BY <3>3, <3>4, SumExists
        <5> QED BY <1>1, <4>2, <5>1, <5>2 DEF IsSum, Get
      <4> QED BY <4>1, <4>2
    <3>9. z2[p] = SumFunction(g)
      BY <1>5, <2>2, <3>7, <3>8
    <3> QED BY <3>9 DEF g
  <2> QED BY <2>1, <2>2
<1> QED BY <1>2, <1>5, <1>7, <1>8 DEF SumsOf

\* process_alloc_summary keeps the sizes sums, and remembers the summary.
LEMMA SummaryRead ==
  ASSUME NEW leafs, NEW st \in ReadStates(leafs), NEW c \in Summed,
         NEW r, r = ProcessAllocSummary(leafs, st, c)
  PROVE  r \in ReadStates(leafs) /\ r.lastSummary = Put(st.lastSummary, c.id, c.actual)
<1> DEFINE l == st.lastSummary
           z == st.size
           id == c.id
           v == c.actual
           d == v - Get(l, id)
           l2 == Put(l, id, v)
           q == LeafOf(leafs, id)
           z2 == Account(z, q, d)
           P == DOMAIN size \cup {LeafOf(leafs, x) : x \in StackId}
<1>1. l \in UNION {[A -> Int] : A \in SUBSET StackId} /\ z \in UNION {[E -> Int] : E \in SUBSET P}
      /\ IsFiniteSet(DOMAIN l) /\ SumsOf(leafs, l, z)
  BY DEF ReadStates
<1>2. PICK A \in SUBSET StackId : l \in [A -> Int]
  BY <1>1
<1>3. PICK E \in SUBSET P : z \in [E -> Int]
  BY <1>1
<1>4. id \in StackId /\ v \in Int /\ IsFiniteSet(A)
  BY <1>1, <1>2 DEF Summed
<1>5. r = [lastSummary |-> l2, size |-> z2]
  BY DEF ProcessAllocSummary, Diff
<1>6. q \in P
  BY <1>4
<1> HIDE DEF l, z, id, v, P
<1>7. SumsOf(leafs, l2, z2) /\ z2 \in [E \cup {q} -> Int] /\ l2 \in [A \cup {id} -> Int]
  <2>1. NextSums(leafs, A, l, E, z, id, v, q, l2, z2)
    BY <1>1, <1>2, <1>3, <1>4 DEF NextSums
  <2> HIDE DEF d, l2, q, z2
  <2> QED BY <2>1, SummaryKeepsSums
<1> HIDE DEF l2, z2, q
<1>8. IsFiniteSet(DOMAIN l2)
  <2>1. DOMAIN l2 = A \cup {id}
    BY <1>7
  <2> QED BY <1>4, <2>1, FS_AddElement
<1>9. A \cup {id} \in SUBSET StackId /\ E \cup {q} \in SUBSET P
  BY <1>4, <1>6
<1>10. l2 \in UNION {[B -> Int] : B \in SUBSET StackId} /\ z2 \in UNION {[F -> Int] : F \in SUBSET P}
  BY <1>7, <1>9
<1>11. r \in ReadStates(leafs)
  <2>1. r \in [lastSummary : UNION {[B -> Int] : B \in SUBSET StackId}, size : UNION {[F -> Int] : F \in SUBSET P}]
    BY <1>5, <1>10
  <2>2. IsFiniteSet(DOMAIN r.lastSummary) /\ SumsOf(leafs, r.lastSummary, r.size)
    BY <1>5, <1>7, <1>8
  <2> QED BY <2>1, <2>2 DEF ReadStates, P
<1> QED BY <1>5, <1>11 DEF l2, l, id, v

\* After n summaries of a snapshot: those, and what was known before.
ReadUpTo(sums, n, l) ==
  /\ DOMAIN l = DOMAIN lastSummary \cup {sums[m].id : m \in 1 .. n}
  /\ \A id \in DOMAIN l :
       \/ \E m \in 1 .. n : sums[m].id = id /\ sums[m].actual = l[id]
       \/ (\A m \in 1 .. n : sums[m].id # id) /\ id \in DOMAIN lastSummary /\ l[id] = lastSummary[id]

\* One more of them.
LEMMA ReadOneMore ==
  ASSUME NEW sums, NEW n \in Nat, NEW l, ReadUpTo(sums, n, l), NEW c, c = sums[n + 1],
         NEW l2, l2 = Put(l, c.id, c.actual)
  PROVE  ReadUpTo(sums, n + 1, l2)
<1>1. \A m : m \in 1 .. n + 1 <=> m \in 1 .. n \/ m = n + 1
  OBVIOUS
<1>2. DOMAIN l2 = DOMAIN l \cup {c.id} /\ l2[c.id] = c.actual /\ \A x \in DOMAIN l : x # c.id => l2[x] = l[x]
  BY DEF Put
<1>3. {sums[m].id : m \in 1 .. n + 1} = {sums[m].id : m \in 1 .. n} \cup {c.id}
  BY <1>1, Zenon
<1>4. DOMAIN l2 = DOMAIN lastSummary \cup {sums[m].id : m \in 1 .. n + 1}
  BY <1>2, <1>3 DEF ReadUpTo
<1>5. ASSUME NEW id \in DOMAIN l2
      PROVE  \/ \E m \in 1 .. n + 1 : sums[m].id = id /\ sums[m].actual = l2[id]
             \/ (\A m \in 1 .. n + 1 : sums[m].id # id) /\ id \in DOMAIN lastSummary /\ l2[id] = lastSummary[id]
  <2>1. CASE id = c.id
    BY <1>1, <1>2, <2>1, Zenon
  <2>2. CASE id # c.id
    <3>1. id \in DOMAIN l /\ l2[id] = l[id]
      BY <1>2, <2>2
    <3>2. CASE \E m \in 1 .. n : sums[m].id = id /\ sums[m].actual = l[id]
      BY <1>1, <3>1, <3>2, Zenon
    <3>3. CASE (\A m \in 1 .. n : sums[m].id # id) /\ id \in DOMAIN lastSummary /\ l[id] = lastSummary[id]
      <4>1. \A m \in 1 .. n + 1 : sums[m].id # id
        BY <1>1, <2>2, <3>3, Zenon
      <4> QED BY <3>1, <3>3, <4>1
    <3> QED BY <3>1, <3>2, <3>3 DEF ReadUpTo
  <2> QED BY <2>1, <2>2
<1> QED BY <1>4, <1>5 DEF ReadUpTo

\* The loop of process_allocations.
LEMMA SummariesRead ==
  ASSUME NEW leafs, NEW sums \in Seq(Summed), NEW init, init = [lastSummary |-> lastSummary, size |-> size],
         init \in ReadStates(leafs), NEW r, r = ProcessAllocations(leafs, sums)[Len(sums)]
  PROVE  r \in ReadStates(leafs) /\ ReadUpTo(sums, Len(sums), r.lastSummary)
<1> DEFINE N == Len(sums)
           S == ReadStates(leafs)
           step == [n \in 1 .. N |-> [st \in S |-> ProcessAllocSummary(leafs, st, sums[n])]]
           Eqn(f) == f = [n \in 0 .. N |-> IF n = 0 THEN init ELSE ProcessAllocSummary(leafs, f[n - 1], sums[n])]
           g == CHOOSE f : Eqn(f)
<1>1. N \in Nat /\ \A n \in 1 .. N : sums[n] \in Summed
  OBVIOUS
<1>2. ASSUME NEW n \in 1 .. N, NEW st \in S
      PROVE  /\ ProcessAllocSummary(leafs, st, sums[n]) \in S
             /\ ProcessAllocSummary(leafs, st, sums[n]).lastSummary = Put(st.lastSummary, sums[n].id, sums[n].actual)
  <2> DEFINE c == sums[n]
             v == ProcessAllocSummary(leafs, st, c)
  <2>1. c \in Summed /\ v = ProcessAllocSummary(leafs, st, c)
    BY <1>1
  <2> HIDE DEF c, v
  <2>2. v \in S /\ v.lastSummary = Put(st.lastSummary, c.id, c.actual)
    BY <2>1, SummaryRead
  <2> QED BY <2>2 DEF c, v
<1> HIDE DEF N, S
<1>3. Loop(S, N, init, step)
  BY <1>1, <1>2 DEF Loop, S
<1> HIDE DEF step
<1>4. PICK f : Loops(f, S, N, init, step)
  BY <1>3, Iteration
<1>5. ASSUME NEW n \in 1 .. N PROVE f[n] = ProcessAllocSummary(leafs, f[n - 1], sums[n])
  <2>1. n - 1 \in 0 .. N
    BY <1>1
  <2> QED BY <1>4, <2>1 DEF step, Loops
<1>6. Eqn(f)
  BY <1>1, <1>4, <1>5 DEF Loops
<1>7. Eqn(g)
  BY <1>6
<1>8. ASSUME NEW h, Eqn(h)
      PROVE  h[0] = init /\ \A n \in 1 .. N : h[n] = ProcessAllocSummary(leafs, h[n - 1], sums[n])
  BY <1>1, <1>8
<1>9. ProcessAllocations(leafs, sums) = g
  BY DEF ProcessAllocations, N
<1> HIDE DEF g
<1>10. g[0] = init /\ \A n \in 1 .. N : g[n] = ProcessAllocSummary(leafs, g[n - 1], sums[n])
  BY <1>7, <1>8
<1>11. \A n \in 0 .. N : g[n] \in S
  <2>1. ASSUME NEW n \in 1 .. N, g[n - 1] \in S PROVE g[n] \in S
    BY <1>2, <1>10, <2>1
  <2>2. g[0] \in S
    BY <1>10 DEF S
  <2> QED BY <1>1, <2>1, <2>2, LoopInvariant
<1> DEFINE T == {n \in Nat : n <= N => ReadUpTo(sums, n, g[n].lastSummary)}
<1>12. \A n \in Nat : n \in T
  <2>1. 0 \in T
    <3>1. 1 .. 0 = {} /\ g[0].lastSummary = lastSummary
      BY <1>10
    <3>2. {sums[m].id : m \in 1 .. 0} = {}
      BY <3>1, Zenon
    <3>3. ReadUpTo(sums, 0, lastSummary)
      BY <3>1, <3>2, Zenon DEF ReadUpTo
    <3> QED BY <3>1, <3>3
  <2>2. ASSUME NEW n \in Nat, n \in T PROVE n + 1 \in T
    <3> SUFFICES ASSUME n + 1 <= N PROVE ReadUpTo(sums, n + 1, g[n + 1].lastSummary)
      OBVIOUS
    <3> DEFINE c == sums[n + 1]
               l == g[n].lastSummary
               l2 == g[n + 1].lastSummary
    <3>1. n + 1 \in 1 .. N /\ (n + 1) - 1 = n /\ n \in 0 .. N
      BY <1>1
    <3>2. g[n + 1] = ProcessAllocSummary(leafs, g[n], c) /\ g[n] \in S
      BY <1>10, <1>11, <3>1
    <3>3. l2 = Put(l, c.id, c.actual)
      BY <1>2, <3>1, <3>2
    <3>4. ReadUpTo(sums, n, l)
      BY <1>1, <2>2, <3>1
    <3>5. c = sums[n + 1]
      OBVIOUS
    <3> HIDE DEF c, l, l2
    <3>6. ReadUpTo(sums, n + 1, l2)
      BY <3>3, <3>4, <3>5, ReadOneMore
    <3> QED BY <3>6 DEF l2
  <2> HIDE DEF T
  <2> QED BY <2>1, <2>2, Induction
<1>13. ReadUpTo(sums, N, g[N].lastSummary) /\ g[N] \in S
  BY <1>1, <1>11, <1>12
<1> QED BY <1>9, <1>13 DEF N, S

\* A summary that is known has the leaf it had: what announces a trace comes
\* before its first summary.
LEMMA LeafKept ==
  ASSUME ProtoInv, pos < Len(file), NEW traces, traces = file[pos + 1].stacktraces,
         NEW lf, lf = WithLeafs(traces), NEW id \in DOMAIN lastSummary
  PROVE  LeafOf(lf, id) = LeafOf(leaf, id)
<1> USE DEF WithLeafs
<1>1. ProtoTypeOK /\ TracesInv /\ LeafInv /\ SummaryInv
  BY DEF ProtoInv, WriterInv, ReaderInv
<1>2. pos + 1 \in 1 .. Len(file) /\ file[pos + 1] \in Snapshots /\ id \in StackId
  BY <1>1 DEF ProtoTypeOK
<1>3. PICK k \in Passed : LastRead(file, Passed, k, id, lastSummary[id])
  BY <1>1 DEF SummaryInv
<1>4. k \in 1 .. (pos + 1) - 1 /\ k \in 1 .. Len(file)
  BY <1>1, <1>3 DEF Passed, ProtoTypeOK
<1>5. Lists(file[k], id)
  <2>1. file[k].changed \in Seq(Summed)
    <3>1. file[k] \in Snapshots
      BY <1>1, <1>4 DEF ProtoTypeOK
    <3> QED BY <3>1 DEF Snapshots
  <2>2. DOMAIN file[k].changed = 1 .. Len(file[k].changed)
    BY <2>1
  <2> QED BY <1>3, <2>2 DEF LastRead, Lists
<1>6. ~Announces(file[pos + 1], id)
  BY <1>1, <1>2, <1>4, <1>5 DEF TracesInv
<1>7. DOMAIN traces = 1 .. Len(traces)
  <2>1. traces \in Seq(Traced)
    BY <1>2 DEF Snapshots
  <2> QED BY <2>1
<1>8. id \notin {traces[n].id : n \in 1 .. Len(traces)}
  BY <1>6, <1>7 DEF Announces
<1>9. id \in DOMAIN lf <=> id \in DOMAIN leaf
  BY <1>8
<1>10. id \in DOMAIN leaf => lf[id] = ShownPath(id) /\ leaf[id] = ShownPath(id)
  <2>1. leaf = [x \in DOMAIN leaf |-> ShownPath(x)]
    BY <1>1, Zenon DEF LeafInv
  <2> DEFINE D == DOMAIN leaf
  <2>2. leaf = [x \in D |-> ShownPath(x)]
    BY <2>1
  <2> HIDE DEF D
  <2>3. id \in D => leaf[id] = ShownPath(id)
    BY <2>2, Zenon
  <2> QED BY <2>3, Zenon DEF D
<1> QED BY <1>9, <1>10 DEF LeafOf

\* The states of the reader stay sums when the leaves of a snapshot are added.
LEMMA SumsBefore ==
  ASSUME ProtoInv, NEW lf, \A id \in DOMAIN lastSummary : LeafOf(lf, id) = LeafOf(leaf, id),
         NEW init, init = [lastSummary |-> lastSummary, size |-> size]
  PROVE  init \in ReadStates(lf)
<1>1. ProtoTypeOK /\ SizesAreSums
  BY DEF ProtoInv, ReaderInv
<1>2. ASSUME NEW p PROVE IdsAt(lf, lastSummary, p) = {id \in DOMAIN lastSummary : LeafOf(leaf, id) = p}
  BY DEF IdsAt
<1>3. SumsOf(lf, lastSummary, size)
  <2>1. \A id \in DOMAIN lastSummary : LeafOf(lf, id) \in DOMAIN size
    BY <1>1 DEF SizesAreSums
  <2>2. ASSUME NEW p \in DOMAIN size
        PROVE  size[p] = SumFunction([id \in IdsAt(lf, lastSummary, p) |-> lastSummary[id]])
    BY <1>1, <1>2 DEF SizesAreSums
  <2> QED BY <2>1, <2>2 DEF SumsOf
<1> DEFINE P == DOMAIN size \cup {LeafOf(lf, id) : id \in StackId}
<1>4. lastSummary \in UNION {[A -> Int] : A \in SUBSET StackId}
  BY <1>1 DEF ProtoTypeOK
<1>5. size \in UNION {[E -> Int] : E \in SUBSET P}
  <2>1. DOMAIN size \in SUBSET P /\ size \in [DOMAIN size -> Int]
    BY <1>1 DEF ProtoTypeOK
  <2> HIDE DEF P
  <2> QED BY <2>1
<1>6. init.lastSummary = lastSummary /\ init.size = size
  OBVIOUS
<1>7. IsFiniteSet(DOMAIN lastSummary)
  BY <1>1 DEF ProtoTypeOK
<1> HIDE DEF P
<1>8. init \in [lastSummary : UNION {[A -> Int] : A \in SUBSET StackId}, size : UNION {[E -> Int] : E \in SUBSET P}]
  BY <1>4, <1>5
<1> QED BY <1>3, <1>6, <1>7, <1>8 DEF ReadStates, P

\* Processing a snapshot keeps the invariant.
LEMMA ProcessProto == ProtoInv /\ ProcessSnapshot => ProtoInv'
<1> SUFFICES ASSUME ProtoInv, ProcessSnapshot PROVE ProtoInv'
  OBVIOUS
<1> DEFINE k == pos + 1
           traces == file[k].stacktraces
           sums == file[k].changed
           w == WithPtrIds(file[k])
           lf == ProcessStacktraces(w, traces)[Len(traces)]
           r == ProcessAllocations(lf, sums)[Len(sums)]
           init == [lastSummary |-> lastSummary, size |-> size]
<1>1. pos < Len(file) /\ pos' = pos + 1
      /\ UNCHANGED <<found, summaries, changedIds, written, ptrs, file, calls, skipped>>
  BY DEF ProcessSnapshot, protoWriterVars
<1>2. addrs' = w /\ leaf' = lf /\ lastSummary' = r.lastSummary /\ size' = r.size
  BY DEF ProcessSnapshot, AddrsForTraces
<1>3. ProtoTypeOK /\ WriterInv /\ AddrsInv /\ LeafInv /\ SummaryInv /\ SizesAreSums
  BY DEF ProtoInv, ReaderInv
<1>4. pos \in Nat /\ Len(file) \in Nat /\ skipped \subseteq 1 .. pos /\ k \in 1 .. Len(file) /\ file[k] \in Snapshots
  BY <1>1, <1>3 DEF ProtoTypeOK
<1>5. Passed' = Passed \cup {k} /\ Passed \subseteq 1 .. pos
  BY <1>1, <1>4 DEF Passed
<1>6. traces \in Seq(Traced) /\ sums \in Seq(Summed) /\ DOMAIN traces = 1 .. Len(traces) /\ DOMAIN sums = 1 .. Len(sums)
  <2>1. traces \in Seq(Traced) /\ sums \in Seq(Summed)
    BY <1>4 DEF Snapshots
  <2> QED BY <2>1
<1>7. ASSUME NEW id PROVE ShownPath(id)' = ShownPath(id)
  <2>1. Lost' = Lost
    BY <1>1 DEF Lost
  <2> QED BY <2>1 DEF ShownPath
<1>8. lf = WithLeafs(traces)
  <2>1. traces = file[pos + 1].stacktraces /\ w = WithPtrIds(file[pos + 1]) /\ lf = ProcessStacktraces(w, traces)[Len(traces)]
    OBVIOUS
  <2> HIDE DEF traces, w, lf, k
  <2> QED BY <1>1, <2>1, LeafsRead
<1>9. init \in ReadStates(lf)
  <2>1. traces = file[pos + 1].stacktraces
    OBVIOUS
  <2> HIDE DEF traces, lf, k
  <2>2. \A id \in DOMAIN lastSummary : LeafOf(lf, id) = LeafOf(leaf, id)
    BY <1>1, <1>8, <2>1, LeafKept
  <2> QED BY <2>2, SumsBefore
<1>10. r \in ReadStates(lf) /\ ReadUpTo(sums, Len(sums), r.lastSummary)
  <2> HIDE DEF lf, sums
  <2>1. init = [lastSummary |-> lastSummary, size |-> size] /\ r = ProcessAllocations(lf, sums)[Len(sums)]
    OBVIOUS
  <2>2. sums \in Seq(Summed)
    BY <1>6
  <2> HIDE DEF init, r
  <2> QED BY <1>9, <2>1, <2>2, SummariesRead
<1> HIDE DEF w, lf, r, init
<1>11. WriterInv'
  BY <1>1, <1>3 DEF WriterInv, PtrsInv, TracesInv, WrittenInv
<1>12. AddrsInv'
  <2>1. /\ \A i \in DOMAIN w : i \in 1 .. Len(ptrs) /\ w[i] = ptrs[i]
        /\ \A i \in 1 .. Len(ptrs) : i \in DOMAIN w <=> \E q \in Passed \cup {pos + 1} : HasId(file[q], i)
    BY <1>1, AddrsRead DEF w
  <2> QED BY <1>1, <1>2, <1>5, <2>1 DEF AddrsInv
<1>13. LeafInv'
  <2>1. DOMAIN leaf' = DOMAIN leaf \cup {traces[n].id : n \in 1 .. Len(traces)}
    BY <1>2, <1>8 DEF WithLeafs
  <2>2. leaf' = [id \in DOMAIN leaf' |-> ShownPath(id)']
    BY <1>2, <1>7, <1>8, <2>1 DEF WithLeafs
  <2>3. ASSUME NEW id \in DOMAIN leaf' PROVE id \in StackId /\ \E q \in Passed \cup {k} : Announces(file[q], id)
    <3>1. CASE id \in DOMAIN leaf
      BY <1>3, <3>1 DEF LeafInv
    <3>2. CASE id \notin DOMAIN leaf
      <4>1. PICK n \in 1 .. Len(traces) : traces[n].id = id
        BY <2>1, <3>2
      <4>2. traces[n] \in Traced
        BY <1>6
      <4>3. id \in StackId
        BY <4>1, <4>2 DEF Traced
      <4> QED BY <1>6, <4>1, <4>3 DEF Announces
    <3> QED BY <3>1, <3>2
  <2>4. ASSUME NEW q \in Passed \cup {k}, NEW id \in StackId, Announces(file[q], id) PROVE id \in DOMAIN leaf'
    <3>1. CASE q = k
      BY <1>6, <2>1, <2>4, <3>1 DEF Announces
    <3>2. CASE q \in Passed
      BY <1>3, <2>1, <2>4, <3>2 DEF LeafInv
    <3> QED BY <3>1, <3>2
  <2> HIDE DEF k
  <2>6. \A id \in DOMAIN leaf' : id \in StackId /\ \E q \in Passed' : Announces(file'[q], id)
    BY <1>1, <1>5, <2>3
  <2>7. \A q \in Passed' : \A id \in StackId : Announces(file'[q], id) => id \in DOMAIN leaf'
    BY <1>1, <1>5, <2>4
  <2> QED BY <2>2, <2>6, <2>7 DEF LeafInv
<1>14. ProtoTypeOK'
  <2>1. pos' \in 0 .. Len(file') /\ skipped' \subseteq 1 .. pos'
    BY <1>1, <1>4
  <2>2. /\ r.lastSummary \in UNION {[A -> Int] : A \in SUBSET StackId}
        /\ r.size \in UNION {[E -> Int] : E \in SUBSET (DOMAIN size \cup {LeafOf(lf, id) : id \in StackId})}
        /\ IsFiniteSet(DOMAIN r.lastSummary)
    BY <1>10 DEF ReadStates
  <2>3. DOMAIN lastSummary' \subseteq StackId /\ IsFiniteSet(DOMAIN lastSummary') /\ lastSummary' \in [DOMAIN lastSummary' -> Int]
    BY <1>2, <2>2
  <2>4. size' \in [DOMAIN size' -> Int]
    BY <1>2, <2>2
  <2> QED BY <1>1, <1>3, <2>1, <2>3, <2>4 DEF ProtoTypeOK
<1>15. SizesAreSums'
  <2>1. SumsOf(lf, r.lastSummary, r.size)
    BY <1>10 DEF ReadStates
  <2>2. SumsOf(leaf', lastSummary', size')
    BY <1>2, <2>1
  <2>3. \A id \in DOMAIN lastSummary' : LeafOf(leaf', id) \in DOMAIN size'
    BY <2>2 DEF SumsOf
  <2>4. ASSUME NEW p \in DOMAIN size'
        PROVE  size'[p] = SumFunction([id \in {id \in DOMAIN lastSummary' : LeafOf(leaf', id) = p} |-> lastSummary'[id]])
    BY <2>2 DEF SumsOf, IdsAt
  <2> QED BY <2>3, <2>4 DEF SizesAreSums
<1>16. SummaryInv'
  <2>1. DOMAIN lastSummary' = DOMAIN lastSummary \cup {sums[m].id : m \in 1 .. Len(sums)}
    BY <1>2, <1>10 DEF ReadUpTo
  <2>2. ASSUME NEW q \in Passed \cup {k}, NEW id \in StackId, Lists(file[q], id) PROVE id \in DOMAIN lastSummary'
    <3>1. CASE q = k
      BY <1>6, <2>1, <2>2, <3>1 DEF Lists
    <3>2. CASE q \in Passed
      BY <1>3, <2>1, <2>2, <3>2 DEF SummaryInv
    <3> QED BY <3>1, <3>2
  <2>3. ASSUME NEW id \in DOMAIN lastSummary'
        PROVE  \E q \in Passed \cup {k} : LastRead(file, Passed \cup {k}, q, id, lastSummary'[id])
    <3>1. CASE \E m \in 1 .. Len(sums) : sums[m].id = id /\ sums[m].actual = lastSummary'[id]
      <4>1. \A j \in Passed \cup {k} : ~(j > k)
        BY <1>4, <1>5
      <4>2. LastRead(file, Passed \cup {k}, k, id, lastSummary'[id])
        BY <3>1, <4>1 DEF LastRead
      <4> QED BY <4>2
    <3>2. CASE /\ \A m \in 1 .. Len(sums) : sums[m].id # id
               /\ id \in DOMAIN lastSummary /\ lastSummary'[id] = lastSummary[id]
      <4>1. PICK q \in Passed : LastRead(file, Passed, q, id, lastSummary[id])
        BY <1>3, <3>2 DEF SummaryInv
      <4>2. ~Lists(file[k], id)
        BY <1>6, <3>2 DEF Lists
      <4>3. LastRead(file, Passed \cup {k}, q, id, lastSummary'[id])
        BY <3>2, <4>1, <4>2 DEF LastRead
      <4> QED BY <4>3
    <3> QED BY <1>2, <1>10, <3>1, <3>2 DEF ReadUpTo
  <2> HIDE DEF k
  <2>4. \A q \in Passed' : \A id \in StackId : Lists(file'[q], id) => id \in DOMAIN lastSummary'
    BY <1>1, <1>5, <2>2
  <2>5. \A id \in DOMAIN lastSummary' : \E q \in Passed' : LastRead(file', Passed', q, id, lastSummary'[id])
    BY <1>1, <1>5, <2>3
  <2> QED BY <2>4, <2>5 DEF SummaryInv
<1> QED BY <1>11, <1>12, <1>13, <1>14, <1>15, <1>16 DEF ProtoInv, ReaderInv

-----------------------------------------------------------------------------
(* The theorems.                                                           *)

\* The invariant holds in every behaviour of writer and reader.
LEMMA ProtoInvariance == ProtoSpec => []ProtoInv
<1>1. ProtoInv /\ UNCHANGED protoVars => ProtoInv'
  <2> SUFFICES ASSUME ProtoInv, UNCHANGED protoVars PROVE ProtoInv'
    OBVIOUS
  <2>1. UNCHANGED <<found, summaries, changedIds, written, ptrs, file, calls,
                    pos, last, addrs, leaf, lastSummary, size, skipped>>
    BY DEF protoVars, protoWriterVars, protoReaderVars
  <2>2. ProtoTypeOK' /\ PtrsInv' /\ TracesInv' /\ WrittenInv'
    BY <2>1 DEF ProtoInv, WriterInv, ProtoTypeOK, PtrsInv, TracesInv, WrittenInv
  <2>3. Passed' = Passed /\ Lost' = Lost
    BY <2>1 DEF Passed, Lost
  <2>4. ASSUME NEW id PROVE ShownPath(id)' = ShownPath(id)
    BY <2>3 DEF ShownPath
  <2>5. LeafInv'
    BY <2>1, <2>3, <2>4 DEF ProtoInv, ReaderInv, LeafInv
  <2>6. AddrsInv' /\ SummaryInv'
    BY <2>1, <2>3 DEF ProtoInv, ReaderInv, AddrsInv, SummaryInv
  <2>7. SizesAreSums'
    BY <2>1 DEF ProtoInv, ReaderInv, SizesAreSums
  <2> QED BY <2>2, <2>5, <2>6, <2>7 DEF ProtoInv, WriterInv, ReaderInv
<1>2. ProtoInv /\ ProtoNext => ProtoInv'
  BY AccountProto, FlushProto, SkipProto, ProcessProto DEF ProtoNext
<1> QED BY InitProto, <1>1, <1>2, PTL DEF ProtoSpec

\* The processor attributes the sizes of the proto file to the paths of their
\* traces, whatever snapshots it skipped.
THEOREM PathsAreRight == ProtoSpec => []PathsAndSizes
<1>1. ProtoInv => PathsAndSizes
  <2> SUFFICES ASSUME ProtoInv PROVE PathsAndSizes
    OBVIOUS
  <2>1. LeafInv /\ SizesAreSums
    BY DEF ProtoInv, ReaderInv
  <2>2. ASSUME NEW id \in DOMAIN leaf PROVE leaf[id] = ShownPath(id)
    <3> DEFINE D == DOMAIN leaf
    <3>1. leaf = [x \in D |-> ShownPath(x)] /\ id \in D
      BY <2>1, Zenon DEF LeafInv
    <3> HIDE DEF D
    <3> QED BY <3>1, Zenon
  <2> QED BY <2>1, <2>2 DEF PathsAndSizes, LeafIsThePath
<1> QED BY <1>1, ProtoInvariance, PTL

\* The largest of the snapshots that list a trace is the one the writer put its
\* last summary in.
LEMMA LastIsMax ==
  ASSUME ProtoInv, NEW id, NEW v, NEW k \in 1 .. Len(file), LastListing(file, k, id, v)
  PROVE  Max({j \in DOMAIN file : Lists(file[j], id)}) = k
<1> DEFINE J == {j \in DOMAIN file : Lists(file[j], id)}
<1>1. DOMAIN file = 1 .. Len(file) /\ Len(file) \in Nat
  BY DEF ProtoInv, ProtoTypeOK
<1>2. k \in J
  BY <1>1 DEF LastListing
<1>3. ASSUME NEW j \in J PROVE j \in Nat /\ k >= j
  <2>1. j \in 1 .. Len(file) /\ Lists(file[j], id)
    BY <1>1
  <2>2. j \notin k + 1 .. Len(file)
    BY <2>1 DEF LastListing
  <2> QED BY <1>1, <2>1, <2>2
<1> HIDE DEF J
<1> DEFINE m == CHOOSE x \in J : \A y \in J : x >= y
<1>4. m \in J /\ \A y \in J : m >= y
  BY <1>2, <1>3
<1>5. Max(J) = m
  BY DEF Max
<1> HIDE DEF m
<1>6. m = k
  BY <1>2, <1>3, <1>4
<1> QED BY <1>5, <1>6 DEF J

\* The last listing of a trace is the last that was read, unless it was skipped;
\* its announcement is not later than its first listing.
LEMMA InvKnows == ProtoInv => ReaderCatchesUp
<1> SUFFICES ASSUME ProtoInv PROVE ReaderCatchesUp
  OBVIOUS
<1>1. ProtoTypeOK /\ TracesInv /\ WrittenInv /\ LeafInv /\ SummaryInv
  BY DEF ProtoInv, WriterInv, ReaderInv
<1>2. pos \in 0 .. Len(file) /\ Len(file) \in Nat /\ DOMAIN lastSummary \subseteq StackId /\ DOMAIN summaries \subseteq StackId
  BY <1>1 DEF ProtoTypeOK
<1>3. ASSUME NEW k \in 1 .. Len(file), NEW id PROVE Lists(file[k], id) <=> \E n \in 1 .. Len(file[k].changed) : file[k].changed[n].id = id
  <2>1. file[k] \in Snapshots
    BY <1>1 DEF ProtoTypeOK
  <2>2. file[k].changed \in Seq(Summed)
    BY <2>1 DEF Snapshots
  <2>3. DOMAIN file[k].changed = 1 .. Len(file[k].changed)
    BY <2>2
  <2> QED BY <2>3 DEF Lists
<1>4. ASSUME NEW id \in DOMAIN lastSummary
      PROVE  \E q \in Passed : q \in 1 .. Len(file) /\ Lists(file[q], id) /\ LastRead(file, Passed, q, id, lastSummary[id])
  <2>1. PICK q \in Passed : LastRead(file, Passed, q, id, lastSummary[id])
    BY <1>1 DEF SummaryInv
  <2>2. q \in 1 .. Len(file)
    BY <1>2 DEF Passed
  <2> QED BY <1>3, <2>1, <2>2 DEF LastRead
<1>5. CaughtUp
  <2> SUFFICES ASSUME pos = Len(file), NEW id \in DOMAIN summaries \ changedIds,
                      Max({j \in DOMAIN file : Lists(file[j], id)}) \notin skipped
               PROVE  id \in DOMAIN lastSummary /\ lastSummary[id] = summaries[id]
    BY DEF CaughtUp
  <2>1. PICK k \in 1 .. Len(file) : LastListing(file, k, id, summaries[id])
    BY <1>1 DEF WrittenInv
  <2>2. k \in Passed
    BY <2>1, LastIsMax DEF Passed
  <2>3. Lists(file[k], id) /\ id \in StackId
    BY <1>2, <2>1 DEF LastListing
  <2>4. id \in DOMAIN lastSummary
    BY <1>1, <2>2, <2>3 DEF SummaryInv
  <2>5. PICK q \in Passed : q \in 1 .. Len(file) /\ Lists(file[q], id) /\ LastRead(file, Passed, q, id, lastSummary[id])
    BY <1>4, <2>4
  <2>6. ~(k > q)
    BY <2>2, <2>3, <2>5 DEF LastRead
  <2>7. q \notin k + 1 .. Len(file)
    BY <2>1, <2>5 DEF LastListing
  <2>8. q = k
    BY <1>2, <2>5, <2>6, <2>7
  <2>9. lastSummary[id] = summaries[id]
    BY <2>1, <2>5, <2>8 DEF LastRead, LastListing
  <2> QED BY <2>4, <2>9
<1>6. UnknownIsExplained
  <2> SUFFICES ASSUME NEW id \in DOMAIN lastSummary \ DOMAIN leaf, id \notin Unfound, id # 0
               PROVE  \E k \in skipped : Announces(file[k], id)
    BY DEF UnknownIsExplained
  <2>1. id \in StackId
    BY <1>2
  <2>2. PICK q \in Passed : q \in 1 .. Len(file) /\ Lists(file[q], id)
    BY <1>4
  <2>3. PICK k \in 1 .. Len(file) : Announces(file[k], id)
    BY <1>1, <2>1, <2>2 DEF WrittenInv
  <2>4. q \notin 1 .. k - 1
    BY <1>1, <2>1, <2>2, <2>3 DEF TracesInv
  <2>5. k \in 1 .. pos
    BY <1>2, <2>2, <2>4 DEF Passed
  <2>6. k \notin Passed
    BY <1>1, <2>1, <2>3 DEF LeafInv
  <2> QED BY <2>3, <2>5, <2>6 DEF Passed
<1> QED BY <1>5, <1>6 DEF ReaderCatchesUp

\* A processor that has caught up knows what the writer knows, but for what was
\* in the snapshots it skipped.
THEOREM ReaderKnows == ProtoSpec => []ReaderCatchesUp
BY ProtoInvariance, InvKnows, PTL
=============================================================================
