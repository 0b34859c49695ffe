-------------------------- MODULE SymbolizerProofs --------------------------
(***************************************************************************)
(* Proofs about the symbolizer service.  First SymbolizerRuns, for any     *)
(* number of tables, runs and snapshots and any capacity of the channels;  *)
(* then SnapshotFile, for tags of any size and any number of messages of   *)
(* any size, cut into any pieces by writer and reader; then TraceGraph,    *)
(* for traces of any number and length over any addresses and names.       *)
(***************************************************************************)
EXTENDS SymbolizerRuns, SnapshotFile, TraceGraph, LoopTheorems, SequenceTheorems, TLAPS

Processing == {"read", "send", "save", "wait"}
Starting == {"drop", "load", "clear"}

\* What the stage of a run says about the workers, the processor and the saved
\* state.
StageInv ==
  /\ \A t \in Table :
       (pc = "idle" \/ pc \in Starting \/ t \in ended) => chan[t] = <<>> /\ inserter[t] = {}
  /\ pc \in Starting => proc = EmptyState /\ pos = 1 /\ ~restored
  /\ pc \notin {"idle", "wait"} => ended = {}
  /\ pc \in {"drop", "load"} => ti = 1
  /\ pc \in {"clear", "send"} => ti \in Table
  /\ pos <= Len(file) + 1
  /\ pc = "send" => pos <= Len(file) /\ pos \in proc.done
  /\ pc = "clear" => saved = NoState
  /\ (~restored /\ pc \in {"read", "send", "save"}) => saved = NoState
  /\ pc = "wait" => saved = proc

\* The snapshots a state contains explain its timestamp, and those before them
\* that it does not contain were skipped for a reason.
Older(k) == \E j \in 1 .. k - 1 : file[j] >= file[k]
Coherent(s) ==
  /\ s.done \subseteq 1 .. Len(file)
  /\ s.last > 0 => \E j \in s.done : file[j] = s.last
  /\ \A j \in s.done : file[j] <= s.last
  /\ \A j \in s.done : \A k \in 1 .. j : k \in s.done \/ Older(k)
CoherentInv == Coherent(proc) /\ (saved # NoState => Coherent(saved))

\* Until a restored run is cut short, what a table holds or is about to hold is
\* what the processor contains, once.
Distinct(t) ==
  /\ \A i, j \in DOMAIN chan[t] : i # j => chan[t][i] # chan[t][j]
  /\ \A i \in DOMAIN chan[t] : chan[t][i] \notin inserter[t]
OnceAt(t) ==
  /\ Distinct(t)
  /\ \A k \in Snap : rows[t][k] <= 1
  /\ \A k \in Inflight(t) : rows[t][k] = 0
  /\ pc \in Processing =>
       \A k \in Snap \ proc.done : rows[t][k] = 0 /\ k \notin Inflight(t)
  /\ (pc = "send" /\ t >= ti) => rows[t][pos] = 0 /\ pos \notin Inflight(t)
  /\ (pc \in {"idle", "drop", "load"} /\ saved # NoState) =>
       \A k \in Snap \ saved.done : rows[t][k] = 0
OnceInv == ~cut => \A t \in Table : OnceAt(t)

\* ClickhouseClient::clear has emptied the tables before ti.
ClearedInv == pc = "clear" => \A t \in Table, k \in Snap : t < ti => rows[t][k] = 0

IInv ==
  /\ TypeOK /\ StageInv
  /\ ProcessorAccounted /\ SavedIsStored
  /\ CoherentInv /\ SkippedOnlyIfOlder
  /\ ClearedInv /\ OnceInv

-----------------------------------------------------------------------------
(* Types.                                                                  *)

USE TablesAssumption, CapacityAssumption, BoundsAssumption

\* A processor that has done nothing is in a state.
LEMMA EmptyStateIsState == EmptyState \in State
  BY DEF EmptyState, State

\* Rows that are stored or cleared are still counts.
LEMMA StoredType ==
  ASSUME TypeOK, NEW t \in Table, NEW ks \in SUBSET Snap
  PROVE  /\ Stored(t, ks) \in [Table -> [Snap -> Nat]]
         /\ \A u \in Table, k \in Snap :
              Stored(t, ks)[u][k] = IF u = t /\ k \in ks THEN rows[u][k] + 1 ELSE rows[u][k]
<1>1. rows \in [Table -> [Snap -> Nat]]
  BY DEF TypeOK
<1>2. [k \in Snap |-> IF k \in ks THEN rows[t][k] + 1 ELSE rows[t][k]] \in [Snap -> Nat]
  BY <1>1
<1> QED
  BY <1>1, <1>2 DEF Stored

\* Rows that could not be inserted join the dropped ones.
LEMMA FailedType ==
  ASSUME TypeOK, NEW t \in Table, NEW ks \in SUBSET Snap
  PROVE  /\ Failed(t, ks) \in SUBSET (Table \X Snap)
         /\ dropped \subseteq Failed(t, ks)
         /\ \A k \in ks : <<t, k>> \in Failed(t, ks)
  BY DEF TypeOK, Failed

\* A worker takes one snapshot off its channel and keeps it, stores it or loses
\* it together with what its inserter holds.
LEMMA RecvEffect ==
  ASSUME TypeOK, NEW t \in Table, WorkerRecv(t)
  PROVE  LET h == chan[t][1]
             ks == inserter[t] \cup {h}
         IN  /\ h \in Snap /\ ks \in SUBSET Snap
             /\ 1 \in DOMAIN chan[t]
             /\ chan[t]' \in Seq(Snap) /\ Len(chan[t]') = Len(chan[t]) - 1
             /\ Len(chan[t]) \in Nat \ {0}
             /\ \A i \in 1 .. Len(chan[t]') : chan[t]'[i] = chan[t][i + 1]
             /\ chan' \in [Table -> Seq(Snap)]
             /\ \A u \in Table \ {t} : chan[u]' = chan[u] /\ inserter[u]' = inserter[u]
             /\ inserter' \in [Table -> SUBSET Snap]
             /\ \/ inserter[t]' = ks /\ UNCHANGED <<rows, dropped>>
                \/ inserter[t]' = {} /\ rows' = Stored(t, ks) /\ UNCHANGED dropped
                \/ inserter[t]' = {} /\ dropped' = Failed(t, ks) /\ UNCHANGED rows
<1>1. /\ chan \in [Table -> Seq(Snap)] /\ inserter \in [Table -> SUBSET Snap]
      /\ chan[t] \in Seq(Snap) /\ chan[t] # <<>>
      /\ chan' = [chan EXCEPT ![t] = Tail(@)]
  BY DEF TypeOK, WorkerRecv
<1>2. /\ Head(chan[t]) = chan[t][1] /\ chan[t][1] \in Snap
      /\ Tail(chan[t]) \in Seq(Snap) /\ Len(Tail(chan[t])) = Len(chan[t]) - 1
      /\ Len(chan[t]) \in Nat \ {0}
      /\ \A i \in 1 .. Len(Tail(chan[t])) : Tail(chan[t])[i] = chan[t][i + 1]
      /\ 1 \in DOMAIN chan[t]
  BY <1>1, EmptySeq, HeadTailProperties, LenProperties
<1>3. /\ chan[t]' = Tail(chan[t])
      /\ \A u \in Table \ {t} : chan[u]' = chan[u]
      /\ chan' \in [Table -> Seq(Snap)]
  BY <1>1, <1>2
<1> DEFINE ks == inserter[t] \cup {chan[t][1]}
<1>4. ks \in SUBSET Snap
  BY <1>1, <1>2
<1>5. \/ inserter' = [inserter EXCEPT ![t] = ks] /\ UNCHANGED <<rows, dropped>>
      \/ inserter' = [inserter EXCEPT ![t] = {}] /\ rows' = Stored(t, ks) /\ UNCHANGED dropped
      \/ inserter' = [inserter EXCEPT ![t] = {}] /\ dropped' = Failed(t, ks) /\ UNCHANGED rows
  BY <1>2 DEF WorkerRecv
<1> QED
  BY <1>1, <1>2, <1>3, <1>4, <1>5

\* What is on its way after a worker took a snapshot off its channel.
LEMMA RecvInflight ==
  ASSUME TypeOK, NEW t \in Table, WorkerRecv(t)
  PROVE  /\ \A u \in Table \ {t} : Inflight(u)' = Inflight(u)
         /\ \A k \in Inflight(t) :
              \/ k \in Inflight(t)'
              \/ rows' = Stored(t, inserter[t] \cup {chan[t][1]}) /\ k \in inserter[t] \cup {chan[t][1]}
              \/ dropped' = Failed(t, inserter[t] \cup {chan[t][1]}) /\ k \in inserter[t] \cup {chan[t][1]}
         /\ Inflight(t)' \subseteq Inflight(t)
<1> DEFINE ks == inserter[t] \cup {chan[t][1]}
<1>1. /\ chan[t] \in Seq(Snap) /\ chan'[t] \in Seq(Snap) /\ Len(chan'[t]) = Len(chan[t]) - 1
      /\ DOMAIN chan[t] = 1 .. Len(chan[t]) /\ DOMAIN chan'[t] = 1 .. Len(chan'[t])
      /\ Len(chan[t]) \in Nat \ {0}
      /\ \A i \in 1 .. Len(chan'[t]) : chan'[t][i] = chan[t][i + 1]
  BY RecvEffect, LenProperties DEF TypeOK
<1>2. /\ \A u \in Table \ {t} : chan'[u] = chan[u] /\ inserter'[u] = inserter[u]
      /\ \/ inserter'[t] = ks
         \/ inserter'[t] = {} /\ rows' = Stored(t, ks)
         \/ inserter'[t] = {} /\ dropped' = Failed(t, ks)
  BY RecvEffect
<1> HIDE DEF ks
<1>3. \A u \in Table \ {t} : Inflight(u)' = Inflight(u)
  BY <1>2 DEF Inflight
<1>4. ASSUME NEW k \in Inflight(t), k \notin ks
      PROVE  k \in Inflight(t)'
  <2>1. PICK i \in 1 .. Len(chan[t]) : chan[t][i] = k
    BY <1>1, <1>4 DEF Inflight, ks
  <2>2. i - 1 \in 1 .. Len(chan'[t]) /\ chan'[t][i - 1] = k
    BY <1>1, <1>4, <2>1 DEF ks
  <2> QED
    BY <1>1, <2>2 DEF Inflight
<1>5. ASSUME NEW k \in Inflight(t)'
      PROVE  k \in Inflight(t)
  <2>1. ks \subseteq Inflight(t)
    BY <1>1 DEF Inflight, ks
  <2>2. ASSUME NEW i \in 1 .. Len(chan'[t]), chan'[t][i] = k
        PROVE  k \in Inflight(t)
    <3>1. i + 1 \in 1 .. Len(chan[t]) /\ chan[t][i + 1] = k
      BY <1>1, <2>2
    <3> QED
      BY <1>1, <3>1 DEF Inflight
  <2>3. k \in inserter'[t] \/ \E i \in 1 .. Len(chan'[t]) : chan'[t][i] = k
    BY <1>1 DEF Inflight
  <2> QED
    BY <1>2, <2>1, <2>2, <2>3
<1>6. ASSUME inserter'[t] = ks, NEW k \in ks
      PROVE  k \in Inflight(t)'
  BY <1>6 DEF Inflight
<1> QED
  BY <1>2, <1>3, <1>4, <1>5, <1>6 DEF ks

\* process sends the snapshot at its position to one channel.
LEMMA SendEffect ==
  ASSUME TypeOK, StageInv, SendRows
  PROVE  /\ ti \in Table /\ pos \in Snap
         /\ chan' \in [Table -> Seq(Snap)]
         /\ \A u \in Table \ {ti} : chan'[u] = chan[u]
         /\ Len(chan'[ti]) = Len(chan[ti]) + 1
         /\ Len(chan[ti]) \in Nat
         /\ \A i \in 1 .. Len(chan[ti]) : chan'[ti][i] = chan[ti][i]
         /\ chan'[ti][Len(chan[ti]) + 1] = pos
         /\ \A u \in Table :
              Inflight(u)' = IF u = ti THEN Inflight(u) \cup {pos} ELSE Inflight(u)
<1>1. ti \in Table /\ pos \in Snap /\ chan[ti] \in Seq(Snap) /\ chan \in [Table -> Seq(Snap)]
  <2>1. ti \in Table /\ pos \in 1 .. MaxSnapshots + 1 /\ pos <= Len(file) /\ Len(file) <= MaxSnapshots
        /\ Len(file) \in Nat
    BY DEF TypeOK, StageInv, SendRows
  <2> QED
    BY <2>1 DEF TypeOK, Snap
<1>2. /\ chan' = [chan EXCEPT ![ti] = Append(chan[ti], pos)] /\ inserter' = inserter
  BY DEF SendRows
<1>3. /\ chan'[ti] = Append(chan[ti], pos) /\ chan'[ti] \in Seq(Snap)
      /\ chan' \in [Table -> Seq(Snap)]
      /\ \A u \in Table \ {ti} : chan'[u] = chan[u]
  BY <1>1, <1>2
<1>4. /\ Len(chan'[ti]) = Len(chan[ti]) + 1
      /\ Len(chan[ti]) \in Nat
      /\ \A i \in 1 .. Len(chan[ti]) : chan'[ti][i] = chan[ti][i]
      /\ chan'[ti][Len(chan[ti]) + 1] = pos
      /\ DOMAIN chan'[ti] = 1 .. Len(chan[ti]) + 1 /\ DOMAIN chan[ti] = 1 .. Len(chan[ti])
  BY <1>1, <1>3
<1>6. {chan'[ti][i] : i \in DOMAIN chan'[ti]} = {chan[ti][i] : i \in DOMAIN chan[ti]} \cup {pos}
  <2> DEFINE n == Len(chan[ti])
  <2>1. n \in Nat /\ \A i \in 1 .. n + 1 : chan'[ti][i] = IF i \in 1 .. n THEN chan[ti][i] ELSE pos
    BY <1>4
  <2>2. DOMAIN chan'[ti] = 1 .. n + 1 /\ DOMAIN chan[ti] = 1 .. n
    BY <1>4
  <2>3. {chan'[ti][i] : i \in 1 .. n + 1} = {chan[ti][i] : i \in 1 .. n} \cup {pos}
    <3> HIDE DEF n
    <3> QED
      BY <2>1
  <2> QED
    BY <2>2, <2>3
<1>7. \A u \in Table :
        Inflight(u)' = IF u = ti THEN Inflight(u) \cup {pos} ELSE Inflight(u)
  <2> SUFFICES ASSUME NEW u \in Table
               PROVE  Inflight(u)' = IF u = ti THEN Inflight(u) \cup {pos} ELSE Inflight(u)
    OBVIOUS
  <2>1. CASE u = ti
    <3> DEFINE A == {chan[u][i] : i \in DOMAIN chan[u]}
               B == {chan'[u][i] : i \in DOMAIN chan'[u]}
    <3>1. B = A \cup {pos}
      BY <1>6, <2>1, Zenon
    <3>2. Inflight(u)' = B \cup inserter[u] /\ Inflight(u) = A \cup inserter[u]
      BY <1>2 DEF Inflight
    <3> HIDE DEF A, B
    <3> QED
      BY <2>1, <3>1, <3>2
  <2>2. CASE u # ti
    <3>1. chan'[u] = chan[u] /\ inserter'[u] = inserter[u]
      BY <1>2, <1>3, <2>2
    <3> QED
      BY <2>2, <3>1 DEF Inflight
  <2> QED
    BY <2>1, <2>2
<1> QED
  BY <1>1, <1>3, <1>4, <1>7

\* The service starts with the invariant: nothing read, saved or stored.
LEMMA InitInv == Init => IInv
<1> SUFFICES ASSUME Init PROVE IInv
  OBVIOUS
<1>1. TypeOK
  <2>1. /\ file \in Seq(Time) /\ Len(file) <= MaxSnapshots
        /\ chan \in [Table -> Seq(Snap)] /\ \A t \in Table : Len(chan[t]) <= Capacity
    BY DEF Init
  <2>2. /\ runs \in 0 .. MaxRuns /\ pos \in 1 .. MaxSnapshots + 1 /\ ti \in 1 .. Tables + 1
        /\ rows \in [Table -> [Snap -> Nat]] /\ inserter \in [Table -> SUBSET Snap]
    BY DEF Init
  <2>3. restored \in BOOLEAN /\ cut \in BOOLEAN
    BY Zenon DEF Init
  <2> QED
    BY <2>1, <2>2, <2>3, EmptyStateIsState DEF Init, TypeOK
<1>2. StageInv
  BY DEF Init, StageInv, Starting
<1>3. ProcessorAccounted /\ SavedIsStored /\ SkippedOnlyIfOlder /\ ClearedInv
  BY DEF Init, ProcessorAccounted, SavedIsStored, SkippedOnlyIfOlder, ClearedInv
<1>4. CoherentInv
  BY DEF Init, CoherentInv, Coherent, EmptyState
<1>5. OnceInv
  BY DEF Init, OnceInv, OnceAt, Distinct, Inflight, Processing
<1> QED
  BY <1>1, <1>2, <1>3, <1>4, <1>5 DEF IInv

\* Every step of the service keeps the types.
LEMMA TypeStep == TypeOK /\ StageInv /\ [Next]_vars => TypeOK'
<1> SUFFICES ASSUME TypeOK, StageInv, [Next]_vars PROVE TypeOK'
  OBVIOUS
<1> USE EmptyStateIsState
<1>1. CASE AppendSnapshot
  <2>1. PICK now \in Time : file' = Append(file, now)
    BY <1>1 DEF AppendSnapshot
  <2>2. file' \in Seq(Time) /\ Len(file') = Len(file) + 1 /\ Len(file) < MaxSnapshots /\ Len(file) \in Nat
    BY <1>1, <2>1 DEF AppendSnapshot, TypeOK
  <2>3. Len(file') <= MaxSnapshots
    BY <2>2
  <2> QED
    BY <1>1, <2>2, <2>3 DEF AppendSnapshot, TypeOK, runVars, workerVars, historyVars
<1>2. CASE Start
  <2>1. pc' \in {"drop", "load"}
    BY <1>2 DEF Start, FirstStep
  <2>2. chan' \in [Table -> Seq(Snap)] /\ \A t \in Table : Len(chan'[t]) <= Capacity
    BY <1>2 DEF Start
  <2>3. runs' \in 0 .. MaxRuns /\ pos' \in 1 .. MaxSnapshots + 1 /\ ti' \in 1 .. Tables + 1
    BY <1>2 DEF Start, TypeOK
  <2>4. inserter' \in [Table -> SUBSET Snap] /\ ended' \in SUBSET Table /\ proc' \in State
    BY <1>2 DEF Start
  <2>5. restored' \in BOOLEAN
    BY <1>2, Zenon DEF Start
  <2> QED
    BY <1>2, <2>1, <2>2, <2>3, <2>4, <2>5 DEF Start, TypeOK, historyVars
<1>3. CASE DropState
  BY <1>3 DEF DropState, TypeOK, workerVars, historyVars
<1>4. CASE LoadState
  BY <1>4 DEF LoadState, TypeOK, workerVars, historyVars
<1>5. CASE ClearTable
  <2>1. ti \in Table
    BY <1>5 DEF ClearTable, StageInv
  <2>2. rows' \in [Table -> [Snap -> Nat]]
    BY <1>5, <2>1 DEF ClearTable, TypeOK
  <2>3. dropped' \in SUBSET (Table \X Snap)
    BY <1>5 DEF ClearTable, TypeOK
  <2>4. ti' \in 1 .. Tables + 1 /\ pc' \in {"clear", "read"}
    BY <1>5, <2>1 DEF ClearTable, Table
  <2>5. cut' \in BOOLEAN
    BY <1>5, Zenon DEF ClearTable, TypeOK
  <2> QED
    BY <1>5, <2>2, <2>3, <2>4, <2>5 DEF ClearTable, TypeOK, workerVars
<1>6. CASE ReadSnapshot
  <2>1. pos \in Snap /\ file[pos] \in Time
    BY <1>6 DEF ReadSnapshot, TypeOK, Snap
  <2>2. proc \in State => [last |-> file[pos], done |-> proc.done \cup {pos}] \in State
    BY <2>1 DEF State, Time
  <2>3. pos' \in 1 .. MaxSnapshots + 1
    BY <1>6, <2>1 DEF ReadSnapshot, Snap
  <2>5. proc' \in State
    BY <1>6, <2>2, Zenon DEF ReadSnapshot, TypeOK
  <2>4. ti' \in 1 .. Tables + 1 /\ pc' \in {"read", "send"}
    BY <1>6 DEF ReadSnapshot, TypeOK
  <2> QED
    BY <1>6, <2>3, <2>4, <2>5 DEF ReadSnapshot, TypeOK, workerVars, historyVars
<1>7. CASE SendRows
  <2>1. /\ chan' \in [Table -> Seq(Snap)] /\ ti \in Table /\ pos \in Snap
        /\ \A u \in Table \ {ti} : chan'[u] = chan[u]
        /\ Len(chan'[ti]) = Len(chan[ti]) + 1 /\ Len(chan[ti]) \in Nat
    BY <1>7, SendEffect
  <2>2. \A u \in Table : Len(chan'[u]) <= Capacity
    BY <1>7, <2>1 DEF SendRows, HasRoom, TypeOK
  <2>3. ti' \in 1 .. Tables + 1 /\ pc' \in {"read", "send"} /\ pos' \in 1 .. MaxSnapshots + 1
    BY <1>7, <2>1 DEF SendRows, Table, Snap
  <2> QED
    BY <1>7, <2>1, <2>2, <2>3 DEF SendRows, TypeOK, historyVars
<1>8. CASE StopReading
  BY <1>8 DEF StopReading, TypeOK, workerVars, historyVars
<1>9. CASE SaveState
  BY <1>9 DEF SaveState, TypeOK, workerVars, historyVars
<1>10. CASE Exit
  BY <1>10 DEF Exit, TypeOK, workerVars, historyVars
<1>11. CASE Crash
  <2>1. chan' \in [Table -> Seq(Snap)] /\ \A u \in Table : Len(chan'[u]) <= Capacity
    BY <1>11 DEF Crash
  <2>2. dropped' \in SUBSET (Table \X Snap) /\ cut' \in BOOLEAN /\ inserter' \in [Table -> SUBSET Snap]
    BY <1>11 DEF Crash, TypeOK
  <2> QED
    BY <1>11, <2>1, <2>2 DEF Crash, TypeOK
<1>12. ASSUME NEW t \in Table, WorkerRecv(t) PROVE TypeOK'
  <2> DEFINE ks == inserter[t] \cup {chan[t][1]}
  <2>1. /\ ks \in SUBSET Snap
        /\ chan' \in [Table -> Seq(Snap)] /\ inserter' \in [Table -> SUBSET Snap]
        /\ Len(chan'[t]) = Len(chan[t]) - 1 /\ Len(chan[t]) \in Nat
        /\ \A u \in Table \ {t} : chan'[u] = chan[u]
        /\ \A u \in Table : Len(chan[u]) <= Capacity
    BY <1>12, RecvEffect DEF TypeOK
  <2>2. \/ UNCHANGED <<rows, dropped>>
        \/ rows' = Stored(t, ks) /\ UNCHANGED dropped
        \/ dropped' = Failed(t, ks) /\ UNCHANGED rows
    BY <1>12, RecvEffect
  <2>3. ASSUME NEW u \in Table PROVE Len(chan'[u]) <= Capacity
    <3>1. CASE u = t
      <4>1. Len(chan[t]) <= Capacity
        BY <2>1
      <4> QED
        BY <2>1, <3>1, <4>1
    <3> QED
      BY <2>1, <3>1
  <2>4. rows' \in [Table -> [Snap -> Nat]] /\ dropped' \in SUBSET (Table \X Snap)
    <3> HIDE DEF ks
    <3>1. /\ rows \in [Table -> [Snap -> Nat]] /\ dropped \in SUBSET (Table \X Snap)
          /\ Stored(t, ks) \in [Table -> [Snap -> Nat]] /\ Failed(t, ks) \in SUBSET (Table \X Snap)
      BY <2>1, StoredType, FailedType DEF TypeOK
    <3> QED
      BY <2>2, <3>1
  <2> QED
    BY <1>12, <2>1, <2>3, <2>4 DEF WorkerRecv, TypeOK, runVars
<1>13. ASSUME NEW t \in Table, WorkerEnd(t) PROVE TypeOK'
  <2>1. LastRows(t) \in SUBSET Snap
    BY DEF LastRows, TypeOK
  <2>2. rows' \in [Table -> [Snap -> Nat]] /\ dropped' \in SUBSET (Table \X Snap)
    <3>1. /\ rows \in [Table -> [Snap -> Nat]] /\ dropped \in SUBSET (Table \X Snap)
          /\ Stored(t, LastRows(t)) \in [Table -> [Snap -> Nat]]
          /\ Failed(t, LastRows(t)) \in SUBSET (Table \X Snap)
      BY <2>1, StoredType, FailedType DEF TypeOK
    <3> QED
      BY <1>13, <3>1 DEF WorkerEnd
  <2> QED
    BY <1>13, <2>2 DEF WorkerEnd, TypeOK, runVars
<1>14. CASE UNCHANGED vars
  BY <1>14 DEF TypeOK, vars, runVars, workerVars, historyVars
<1> QED
  BY <1>1, <1>2, <1>3, <1>4, <1>5, <1>6, <1>7, <1>8, <1>9, <1>10, <1>11, <1>12, <1>13, <1>14
  DEF Next, MainStep, WorkerStep

\* The stages of a run follow one another as StageInv says.
LEMMA StageStep == TypeOK /\ StageInv /\ [Next]_vars => StageInv'
<1> SUFFICES ASSUME TypeOK, StageInv, [Next]_vars PROVE StageInv'
  OBVIOUS
<1> USE DEF Starting
<1>1. CASE AppendSnapshot
  <2>1. Len(file') = Len(file) + 1 /\ Len(file) \in Nat
    BY <1>1 DEF AppendSnapshot, TypeOK
  <2>2. pos' <= Len(file') + 1 /\ (pc' = "send" => pos' <= Len(file'))
    BY <1>1, <2>1 DEF AppendSnapshot, StageInv, TypeOK, runVars
  <2> QED
    BY <1>1, <2>2 DEF AppendSnapshot, StageInv, runVars, workerVars
<1>2. CASE Start
  <2>1. pc' \in {"drop", "load"}
    BY <1>2 DEF Start, FirstStep
  <2>2. pos' <= Len(file') + 1
    BY <1>2 DEF Start, TypeOK
  <2> QED
    BY <1>2, <2>1, <2>2 DEF Start, StageInv, Table
<1>3. CASE DropState
  BY <1>3 DEF DropState, StageInv, workerVars, Table
<1>4. CASE LoadState
  BY <1>4 DEF LoadState, StageInv, workerVars, Table
<1>5. CASE ClearTable
  <2>1. pc' \in {"clear", "read"} /\ (pc' = "clear" => ti' \in Table)
    BY <1>5 DEF ClearTable, StageInv, Table
  <2> QED
    BY <1>5, <2>1 DEF ClearTable, StageInv, workerVars
<1>6. CASE ReadSnapshot
  <2>1. pc' \in {"read", "send"} /\ (pc' = "send" => ti' \in Table /\ pos' <= Len(file') /\ pos' \in proc'.done)
        /\ pos' <= Len(file') + 1
    BY <1>6 DEF ReadSnapshot, StageInv, Table, TypeOK
  <2> QED
    BY <1>6, <2>1 DEF ReadSnapshot, StageInv, workerVars
<1>7. CASE SendRows
  <2>1. pc' \in {"read", "send"} /\ (pc' = "send" => ti' \in Table /\ pos' <= Len(file') /\ pos' \in proc'.done)
        /\ pos' <= Len(file') + 1
    <3>1. ti \in 1 .. Tables /\ pos <= Len(file) /\ pos \in proc.done /\ pos \in Nat /\ Len(file) \in Nat
      BY <1>7 DEF SendRows, StageInv, Table, TypeOK
    <3> QED
      BY <1>7, <3>1 DEF SendRows, Table
  <2> QED
    BY <1>7, <2>1 DEF SendRows, StageInv
<1>8. CASE StopReading
  BY <1>8 DEF StopReading, StageInv, workerVars
<1>9. CASE SaveState
  BY <1>9 DEF SaveState, StageInv, workerVars
<1>10. CASE Exit
  BY <1>10 DEF Exit, StageInv, workerVars, WorkersEnded
<1>11. CASE Crash
  BY <1>11 DEF Crash, StageInv
<1>12. ASSUME NEW t \in Table, WorkerRecv(t) PROVE StageInv'
  <2>1. pc \notin {"idle"} \cup Starting /\ t \notin ended
    BY <1>12 DEF WorkerRecv, StageInv, Running
  <2>2. \A u \in Table \ {t} : chan'[u] = chan[u] /\ inserter'[u] = inserter[u]
    BY <1>12, RecvEffect
  <2> QED
    BY <1>12, <2>1, <2>2 DEF WorkerRecv, StageInv, runVars
<1>13. ASSUME NEW t \in Table, WorkerEnd(t) PROVE StageInv'
  <2>1. \A u \in Table : inserter'[u] = IF u = t THEN {} ELSE inserter[u]
    BY <1>13 DEF WorkerEnd, TypeOK
  <2> QED
    BY <1>13, <2>1 DEF WorkerEnd, StageInv, runVars, Closed
<1>14. CASE UNCHANGED vars
  BY <1>14 DEF StageInv, vars, runVars, workerVars, historyVars
<1> QED
  BY <1>1, <1>2, <1>3, <1>4, <1>5, <1>6, <1>7, <1>8, <1>9, <1>10, <1>11, <1>12, <1>13, <1>14
  DEF Next, MainStep, WorkerStep

-----------------------------------------------------------------------------
(* Rows and the state that claims them.                                    *)

\* Where the rows of snapshot k for table t may be without being lost.
Safe(t, k) == rows[t][k] > 0 \/ <<t, k>> \in dropped

\* ProcessorAccounted and SavedIsStored, said with Safe.
LEMMA AccountedDef ==
  /\ ProcessorAccounted <=>
       (pc \in Processing =>
          \A t \in Table, k \in proc.done :
            Safe(t, k) \/ k \in Inflight(t) \/ (pc = "send" /\ k = pos /\ t >= ti))
  /\ SavedIsStored <=>
       (saved # NoState =>
          \A t \in Table, k \in saved.done :
            Safe(t, k) \/ (pc = "wait" /\ k \in Inflight(t)))
  BY DEF ProcessorAccounted, SavedIsStored, Safe, Processing

\* Steps of the workers never make rows disappear: what was on its way is
\* stored or recorded as lost.
LEMMA WorkerKeeps ==
  ASSUME TypeOK, StageInv, NEW t \in Table, WorkerStep(t), NEW u \in Table, NEW k \in Snap
  PROVE  /\ Safe(u, k) => Safe(u, k)'
         /\ k \in Inflight(u) => Safe(u, k)' \/ k \in Inflight(u)'
<1>1. rows[u][k] \in Nat
  BY DEF TypeOK
<1>2. CASE WorkerRecv(t)
  <2> DEFINE ks == inserter[t] \cup {chan[t][1]}
  <2>1. /\ ks \in SUBSET Snap
        /\ \/ UNCHANGED <<rows, dropped>>
           \/ rows' = Stored(t, ks) /\ UNCHANGED dropped
           \/ dropped' = Failed(t, ks) /\ UNCHANGED rows
    BY <1>2, RecvEffect
  <2>2. u # t => Inflight(u)' = Inflight(u)
    BY <1>2, RecvInflight
  <2>3. k \in Inflight(t) =>
          \/ k \in Inflight(t)'
          \/ rows' = Stored(t, ks) /\ k \in ks
          \/ dropped' = Failed(t, ks) /\ k \in ks
    BY <1>2, RecvInflight
  <2> HIDE DEF ks
  <2>4. /\ Stored(t, ks)[u][k] = IF u = t /\ k \in ks THEN rows[u][k] + 1 ELSE rows[u][k]
        /\ dropped \subseteq Failed(t, ks) /\ \A j \in ks : <<t, j>> \in Failed(t, ks)
    BY <2>1, StoredType, FailedType
  <2> QED
    BY <1>1, <2>1, <2>2, <2>3, <2>4 DEF Safe
<1>3. CASE WorkerEnd(t)
  <2> DEFINE ks == inserter[t]
  <2>1. LastRows(t) = ks /\ ks \in SUBSET Snap /\ chan[t] = <<>>
    BY <1>3 DEF LastRows, TypeOK, WorkerEnd
  <2>2. /\ inserter' = [inserter EXCEPT ![t] = {}] /\ chan' = chan
        /\ \/ rows' = Stored(t, ks) /\ UNCHANGED dropped
           \/ dropped' = Failed(t, ks) /\ UNCHANGED rows
    BY <1>3, <2>1 DEF WorkerEnd
  <2>3. u # t => Inflight(u)' = Inflight(u)
    <3>1. u # t => inserter'[u] = inserter[u] /\ chan'[u] = chan[u]
      BY <2>2 DEF TypeOK
    <3> QED
      BY <3>1 DEF Inflight
  <2>4. k \in Inflight(t) => k \in ks
    BY <2>1 DEF Inflight
  <2> HIDE DEF ks
  <2>5. /\ Stored(t, ks)[u][k] = IF u = t /\ k \in ks THEN rows[u][k] + 1 ELSE rows[u][k]
        /\ dropped \subseteq Failed(t, ks) /\ \A j \in ks : <<t, j>> \in Failed(t, ks)
    BY <2>1, StoredType, FailedType
  <2> QED
    BY <1>1, <2>2, <2>3, <2>4, <2>5 DEF Safe
<1> QED
  BY <1>2, <1>3 DEF WorkerStep

\* No step loses rows the processor has done, and a state is saved only when
\* its rows are stored or reported as dropped.
LEMMA AccountedStep ==
  ASSUME TypeOK, StageInv, ProcessorAccounted, SavedIsStored, [Next]_vars
  PROVE  ProcessorAccounted' /\ SavedIsStored'
<1> USE DEF Processing
<1>a. pc \in Processing =>
        \A t \in Table, k \in proc.done :
          Safe(t, k) \/ k \in Inflight(t) \/ (pc = "send" /\ k = pos /\ t >= ti)
  BY AccountedDef
<1>b. saved # NoState =>
        \A t \in Table, k \in saved.done :
          Safe(t, k) \/ (pc = "wait" /\ k \in Inflight(t))
  BY AccountedDef
<1>c. proc \in State /\ (saved # NoState => saved \in State)
  BY DEF TypeOK
<1>d. proc.done \in SUBSET Snap /\ (saved # NoState => saved.done \in SUBSET Snap)
  BY <1>c DEF State
<1> SUFFICES
      /\ pc' \in Processing =>
           \A t \in Table, k \in proc'.done :
             Safe(t, k)' \/ k \in Inflight(t)' \/ (pc' = "send" /\ k = pos' /\ t >= ti')
      /\ saved' # NoState =>
           \A t \in Table, k \in saved'.done :
             Safe(t, k)' \/ (pc' = "wait" /\ k \in Inflight(t)')
  BY DEF ProcessorAccounted, SavedIsStored, Safe
<1>1. CASE AppendSnapshot \/ UNCHANGED vars
  <2>1. UNCHANGED <<rows, dropped, chan, inserter, pc, proc, pos, ti, saved>>
    BY <1>1 DEF AppendSnapshot, vars, runVars, workerVars, historyVars
  <2> QED
    BY <1>a, <1>b, <2>1 DEF Safe, Inflight
<1>2. CASE Start
  BY <1>2, <1>b DEF Start, FirstStep, Safe, historyVars
<1>3. CASE DropState
  BY <1>3 DEF DropState
<1>4. CASE LoadState
  BY <1>4, <1>b DEF LoadState, Safe, historyVars
<1>5. CASE ClearTable
  <2>1. saved' = NoState /\ proc' = EmptyState
    BY <1>5 DEF ClearTable, StageInv, Starting
  <2> QED
    BY <2>1 DEF EmptyState
<1>6. CASE ReadSnapshot
  <2>1. UNCHANGED <<rows, dropped, chan, inserter, saved>> /\ pc' # "wait" /\ pc = "read"
    BY <1>6 DEF ReadSnapshot, workerVars, historyVars
  <2>2. \A t \in Table, k \in proc.done : Safe(t, k)' \/ k \in Inflight(t)'
    BY <1>a, <2>1 DEF Safe, Inflight
  <2>3. \/ proc' = proc
        \/ proc'.done = proc.done \cup {pos} /\ pc' = "send" /\ pos' = pos /\ ti' = 1
    BY <1>6 DEF ReadSnapshot
  <2>4. \A t \in Table : t >= 1
    BY DEF Table
  <2>5. saved' # NoState => \A t \in Table, k \in saved'.done : Safe(t, k)'
    BY <1>b, <2>1 DEF Safe
  <2> QED
    BY <2>2, <2>3, <2>4, <2>5
<1>7. CASE SendRows
  <2>1. UNCHANGED <<rows, dropped, saved, proc>> /\ pc = "send" /\ pc' # "wait"
    BY <1>7 DEF SendRows, historyVars
  <2>2. \A t \in Table : Inflight(t)' = IF t = ti THEN Inflight(t) \cup {pos} ELSE Inflight(t)
    BY <1>7, SendEffect
  <2>3. ti \in Table /\ \/ ti = Tables
                        \/ pc' = "send" /\ pos' = pos /\ ti' = ti + 1
    BY <1>7, SendEffect DEF SendRows
  <2>4. ASSUME NEW t \in Table, t >= ti, t # ti
        PROVE  pc' = "send" /\ pos' = pos /\ t >= ti'
    BY <2>3, <2>4 DEF Table
  <2>5. \A t \in Table, k \in proc'.done :
          Safe(t, k)' \/ k \in Inflight(t)' \/ (pc' = "send" /\ k = pos' /\ t >= ti')
    BY <1>a, <2>1, <2>2, <2>4 DEF Safe
  <2>6. saved' # NoState => \A t \in Table, k \in saved'.done : Safe(t, k)'
    BY <1>b, <2>1 DEF Safe
  <2> QED
    BY <2>5, <2>6
<1>8. CASE StopReading
  <2>1. UNCHANGED <<rows, dropped, chan, inserter, saved, proc>> /\ pc = "read" /\ pc' = "save"
    BY <1>8 DEF StopReading, workerVars, historyVars
  <2> QED
    BY <1>a, <1>b, <2>1 DEF Safe, Inflight
<1>9. CASE SaveState
  <2>1. UNCHANGED <<rows, dropped, chan, inserter, proc>> /\ pc = "save" /\ pc' = "wait" /\ saved' = proc
    BY <1>9 DEF SaveState, workerVars, historyVars
  <2> QED
    BY <1>a, <2>1 DEF Safe, Inflight
<1>10. CASE Exit
  <2>1. UNCHANGED <<rows, dropped, saved>> /\ ended = Table /\ pc' = "idle"
    BY <1>10 DEF Exit, WorkersEnded, workerVars, historyVars
  <2>2. \A t \in Table : Inflight(t) = {}
    BY <2>1 DEF Inflight, StageInv
  <2> QED
    BY <1>b, <2>1, <2>2 DEF Safe
<1>11. CASE Crash
  <2>1. UNCHANGED <<rows, saved>> /\ pc' = "idle"
        /\ dropped' = dropped \cup {d \in Table \X Snap : pc = "wait" /\ d[2] \in Inflight(d[1])}
    BY <1>11 DEF Crash
  <2>2. ASSUME saved # NoState, NEW t \in Table, NEW k \in saved.done
        PROVE  Safe(t, k)'
    <3>1. CASE Safe(t, k)
      BY <2>1, <3>1 DEF Safe
    <3>2. CASE pc = "wait" /\ k \in Inflight(t)
      <4>1. <<t, k>> \in Table \X Snap
        BY <1>d, <2>2
      <4> QED
        BY <2>1, <3>2, <4>1 DEF Safe
    <3> QED
      BY <1>b, <2>2, <3>1, <3>2
  <2> QED
    BY <2>1, <2>2
<1>12. ASSUME NEW t \in Table, WorkerStep(t)
       PROVE  /\ pc' \in Processing =>
                   \A u \in Table, k \in proc'.done :
                     Safe(u, k)' \/ k \in Inflight(u)' \/ (pc' = "send" /\ k = pos' /\ u >= ti')
              /\ saved' # NoState =>
                   \A u \in Table, k \in saved'.done :
                     Safe(u, k)' \/ (pc' = "wait" /\ k \in Inflight(u)')
  <2>1. UNCHANGED <<pc, proc, pos, ti, saved>>
    BY <1>12 DEF WorkerStep, WorkerRecv, WorkerEnd, runVars
  <2>2. \A u \in Table, k \in Snap :
          /\ Safe(u, k) => Safe(u, k)'
          /\ k \in Inflight(u) => Safe(u, k)' \/ k \in Inflight(u)'
    BY <1>12, WorkerKeeps
  <2> QED
    BY <1>a, <1>b, <1>d, <2>1, <2>2
<1> QED
  BY <1>1, <1>2, <1>3, <1>4, <1>5, <1>6, <1>7, <1>8, <1>9, <1>10, <1>11, <1>12 DEF Next, MainStep

-----------------------------------------------------------------------------
(* Snapshots that are skipped.                                             *)

\* A snapshot that is skipped is contained already or older than one before.
LEMMA SkipExplained ==
  ASSUME TypeOK, Coherent(proc), pos \in 1 .. Len(file), SkipSnapshot(file[pos])
  PROVE  pos \in proc.done \/ Older(pos)
<1>1. file[pos] \in Nat \ {0} /\ file[pos] <= proc.last /\ proc.last \in Nat
  <2>1. file[pos] \in Time
    BY DEF TypeOK
  <2>2. proc.last \in 0 .. MaxTime
    BY DEF TypeOK, State
  <2> QED
    BY <2>1, <2>2 DEF SkipSnapshot, Time
<1>2. PICK j \in proc.done : file[j] = proc.last
  BY <1>1 DEF Coherent
<1>3. j \in 1 .. Len(file) /\ Len(file) \in Nat
  BY DEF Coherent, TypeOK
<1>4. CASE j < pos
  BY <1>1, <1>2, <1>3, <1>4 DEF Older
<1>5. CASE pos <= j
  BY <1>3, <1>5 DEF Coherent
<1> QED
  BY <1>3, <1>4, <1>5

\* What is appended to the file changes nothing about the snapshots in it.
LEMMA AppendKeeps ==
  ASSUME TypeOK, AppendSnapshot
  PROVE  /\ Len(file') = Len(file) + 1 /\ Len(file) \in Nat
         /\ \A k \in 1 .. Len(file) : file'[k] = file[k] /\ (Older(k) => Older(k)')
         /\ \A s \in State : Coherent(s) => Coherent(s)'
<1>1. PICK now \in Time : file' = Append(file, now)
  BY DEF AppendSnapshot
<1>2. /\ Len(file') = Len(file) + 1 /\ Len(file) \in Nat
      /\ \A k \in 1 .. Len(file) : file'[k] = file[k]
  BY <1>1 DEF TypeOK
<1>3. ASSUME NEW k \in 1 .. Len(file), Older(k)
      PROVE  Older(k)'
  <2>1. PICK j \in 1 .. k - 1 : file[j] >= file[k]
    BY <1>3 DEF Older
  <2>2. j \in 1 .. Len(file)
    BY <1>2
  <2> QED
    BY <1>2, <2>1, <2>2 DEF Older
<1>4. ASSUME NEW s \in State, Coherent(s)
      PROVE  Coherent(s)'
  <2>1. s.done \subseteq 1 .. Len(file)
    BY <1>4 DEF Coherent
  <2>2. \A j \in s.done : file'[j] = file[j]
    BY <1>2, <2>1
  <2>3. ASSUME NEW j \in s.done, NEW k \in 1 .. j
        PROVE  k \in s.done \/ Older(k)'
    <3>1. j \in 1 .. Len(file)
      BY <2>1
    <3>2. k \in 1 .. Len(file)
      BY <1>2, <3>1
    <3>3. k \in s.done \/ Older(k)
      BY <1>4 DEF Coherent
    <3> QED
      BY <1>3, <3>2, <3>3
  <2>4. s.done \subseteq 1 .. Len(file')
    BY <1>2, <2>1
  <2>5. /\ s.last > 0 => \E j \in s.done : file'[j] = s.last
        /\ \A j \in s.done : file'[j] <= s.last
    BY <1>4, <2>2 DEF Coherent
  <2> QED
    BY <2>3, <2>4, <2>5 DEF Coherent
<1> QED
  BY <1>2, <1>3, <1>4

\* The processor's and the saved timestamps stay those of their snapshots, and a
\* snapshot is skipped only if one at least as new came before it.
LEMMA CoherentStep ==
  ASSUME TypeOK, StageInv, CoherentInv, SkippedOnlyIfOlder, [Next]_vars
  PROVE  CoherentInv' /\ SkippedOnlyIfOlder'
<1> USE DEF Processing
<1>a. pc \in Processing => \A k \in 1 .. pos - 1 : k \in proc.done \/ Older(k)
  BY DEF SkippedOnlyIfOlder, Older
<1>b. proc \in State /\ (saved # NoState => saved \in State)
  BY DEF TypeOK
<1>c. pos \in Nat \ {0} /\ pos <= Len(file) + 1 /\ Len(file) \in Nat
  BY DEF TypeOK, StageInv
<1> SUFFICES /\ CoherentInv'
             /\ pc' \in Processing => \A k \in 1 .. pos' - 1 : k \in proc'.done \/ Older(k)'
  BY DEF SkippedOnlyIfOlder, Older
<1>1. CASE AppendSnapshot
  <2>1. UNCHANGED <<pc, pos, proc, saved>>
    BY <1>1 DEF AppendSnapshot, runVars
  <2>2. /\ \A k \in 1 .. Len(file) : Older(k) => Older(k)'
        /\ \A s \in State : Coherent(s) => Coherent(s)'
    BY <1>1, AppendKeeps
  <2>3. \A k \in 1 .. pos - 1 : k \in 1 .. Len(file)
    BY <1>c
  <2>4. Coherent(proc)'
    BY <1>b, <2>1, <2>2 DEF CoherentInv, Coherent, Older
  <2>5. saved' # NoState => Coherent(saved)'
    BY <1>b, <2>1, <2>2 DEF CoherentInv, Coherent, Older
  <2> QED
    BY <1>a, <2>1, <2>2, <2>3, <2>4, <2>5 DEF CoherentInv
<1>2. ASSUME file' = file, saved' \in {saved, proc, NoState},
             proc' \in {proc, EmptyState} \/ (saved # NoState /\ proc' = saved)
      PROVE  CoherentInv'
  <2>1. Coherent(EmptyState)
    BY DEF EmptyState, Coherent
  <2>2. \A s : Coherent(s)' <=> Coherent(s)
    BY <1>2 DEF Coherent, Older
  <2>3. Coherent(proc') /\ (saved' # NoState => Coherent(saved'))
    BY <1>2, <2>1 DEF CoherentInv
  <2> QED
    BY <1>2, <2>3 DEF CoherentInv, Coherent, Older
<1>3. CASE Start
  <2>1. pc' \notin Processing
    BY <1>3 DEF Start, FirstStep
  <2> QED
    BY <1>2, <1>3, <2>1 DEF Start
<1>4. CASE DropState
  BY <1>2, <1>4 DEF DropState
<1>5. CASE LoadState
  <2>1. pos' = 1
    BY <1>5 DEF LoadState, StageInv, Starting
  <2> QED
    BY <1>2, <1>5, <2>1 DEF LoadState
<1>6. CASE ClearTable
  <2>1. pos' = 1
    BY <1>6 DEF ClearTable, StageInv, Starting
  <2> QED
    BY <1>2, <1>6, <2>1 DEF ClearTable

<1>7. CASE ReadSnapshot
  <2>1. file' = file /\ saved' = saved /\ pos \in 1 .. Len(file) /\ pc = "read" /\ Len(file) \in Nat
    BY <1>7, <1>c DEF ReadSnapshot
  <2>2. \A k : Older(k)' <=> Older(k)
    BY <2>1 DEF Older
  <2>3. CASE SkipSnapshot(file[pos])
    <3>1. pos' = pos + 1 /\ proc' = proc
      BY <1>7, <2>3 DEF ReadSnapshot
    <3>2. pos \in proc.done \/ Older(pos)
      BY <2>1, <2>3, SkipExplained DEF CoherentInv
    <3>3. \A k \in 1 .. pos : k = pos \/ k \in 1 .. pos - 1
      BY <2>1
    <3>4. \A k \in 1 .. pos : k \in proc.done \/ Older(k)
      BY <1>a, <2>1, <3>2, <3>3
    <3>5. pos' - 1 = pos
      BY <2>1, <3>1
    <3> QED
      BY <1>2, <2>1, <2>2, <3>1, <3>4, <3>5
  <2>4. CASE ~SkipSnapshot(file[pos])
    <3>1. proc' = [last |-> file[pos], done |-> proc.done \cup {pos}] /\ pos' = pos
      BY <1>7, <2>4 DEF ReadSnapshot
    <3>2. proc'.last = file[pos] /\ proc'.done = proc.done \cup {pos}
      BY <3>1
    <3>3. proc.done \subseteq 1 .. Len(file) /\ \A j \in proc.done : file[j] <= proc.last
      BY DEF CoherentInv, Coherent
    <3>4. \A j \in proc'.done : file[j] <= proc'.last
      <4>1. \A j \in 1 .. Len(file) : file[j] \in Nat
        BY DEF TypeOK, Time
      <4>2. proc.last \in Nat
        BY <1>b DEF State
      <4>3. proc.last < file[pos]
        BY <2>1, <2>4, <4>1, <4>2 DEF SkipSnapshot
      <4>4. ASSUME NEW j \in proc.done PROVE file[j] <= file[pos]
        BY <2>1, <3>3, <4>1, <4>2, <4>3
      <4>5. file[pos] <= file[pos]
        BY <2>1, <4>1
      <4> QED
        BY <3>2, <4>4, <4>5
    <3>5. ASSUME NEW j \in proc'.done, NEW k \in 1 .. j
          PROVE  k \in proc'.done \/ Older(k)
      <4>1. CASE j \in proc.done
        BY <3>2, <4>1 DEF CoherentInv, Coherent
      <4>2. CASE j = pos
        <5>1. k = pos \/ k \in 1 .. pos - 1
          BY <2>1, <4>2
        <5> QED
          BY <1>a, <2>1, <3>2, <5>1
      <4> QED
        BY <3>2, <4>1, <4>2
    <3>6. Coherent(proc')
      <4>1. proc'.done \subseteq 1 .. Len(file) /\ \E j \in proc'.done : file[j] = proc'.last
        BY <2>1, <3>2, <3>3
      <4> QED
        BY <3>4, <3>5, <4>1 DEF Coherent
    <3>7. Coherent(proc)' /\ (saved' # NoState => Coherent(saved)')
      BY <2>1, <3>6 DEF CoherentInv, Coherent, Older
    <3> QED
      BY <1>a, <2>1, <2>2, <3>1, <3>2, <3>7 DEF CoherentInv
  <2> QED
    BY <2>3, <2>4
<1>8. CASE SendRows
  <2>1. file' = file /\ saved' = saved /\ proc' = proc
        /\ pc = "send" /\ (pos' = pos \/ pos' = pos + 1)
    BY <1>8 DEF SendRows
  <2>2. \A k : Older(k)' <=> Older(k)
    BY <2>1 DEF Older
  <2>3. pos \in proc.done
    BY <1>8 DEF SendRows, StageInv
  <2>4. \A k \in 1 .. pos' - 1 : k = pos \/ k \in 1 .. pos - 1
    BY <1>c, <2>1
  <2> QED
    BY <1>2, <1>a, <2>1, <2>2, <2>3, <2>4
<1>9. CASE StopReading \/ SaveState \/ Exit \/ Crash
  <2>1. file' = file /\ proc' = proc /\ pos' = pos /\ saved' \in {saved, proc}
        /\ (pc' \in Processing => pc \in Processing)
    BY <1>9 DEF StopReading, SaveState, Exit, Crash
  <2>2. \A k : Older(k)' <=> Older(k)
    BY <2>1 DEF Older
  <2> QED
    BY <1>2, <1>a, <2>1, <2>2
<1>10. CASE UNCHANGED vars \/ \E t \in Table : WorkerStep(t)
  <2>1. file' = file /\ proc' = proc /\ pos' = pos /\ saved' = saved /\ pc' = pc
    BY <1>10 DEF WorkerStep, WorkerRecv, WorkerEnd, vars, runVars
  <2>2. \A k : Older(k)' <=> Older(k)
    BY <2>1 DEF Older
  <2> QED
    BY <1>2, <1>a, <2>1, <2>2
<1> QED
  BY <1>1, <1>3, <1>4, <1>5, <1>6, <1>7, <1>8, <1>9, <1>10 DEF Next, MainStep

-----------------------------------------------------------------------------
(* Rows that are stored once.                                              *)

\* A table is empty when the loop of ClickhouseClient::clear has passed it.
LEMMA ClearedStep ==
  ASSUME TypeOK, StageInv, ClearedInv, [Next]_vars
  PROVE  ClearedInv'
<1> SUFFICES ASSUME pc' = "clear" PROVE \A t \in Table, k \in Snap : t < ti' => rows'[t][k] = 0
  BY DEF ClearedInv
<1>1. CASE ClearTable
  <2>1. ti' = ti + 1 /\ ti \in Table /\ pc = "clear"
    BY <1>1 DEF ClearTable, StageInv
  <2>2. \A t \in Table, k \in Snap : rows'[t][k] = IF t = ti THEN 0 ELSE rows[t][k]
    BY <1>1 DEF ClearTable, TypeOK
  <2>3. \A t \in Table : t < ti' => t = ti \/ t < ti
    BY <2>1 DEF Table
  <2> QED
    BY <2>1, <2>2, <2>3 DEF ClearedInv
<1>2. CASE DropState \/ LoadState
  <2>1. ti' = 1
    BY <1>2 DEF DropState, LoadState, StageInv
  <2> QED
    BY <2>1 DEF Table
<1>3. CASE AppendSnapshot \/ UNCHANGED vars
  BY <1>3 DEF AppendSnapshot, vars, runVars, ClearedInv
<1>4. ~Start /\ ~ReadSnapshot /\ ~SendRows /\ ~StopReading /\ ~SaveState /\ ~Exit /\ ~Crash
  BY DEF Start, FirstStep, ReadSnapshot, SendRows, StopReading, SaveState, Exit, Crash
<1>5. \A t \in Table : ~WorkerStep(t)
  <2> SUFFICES ASSUME NEW t \in Table, WorkerStep(t) PROVE FALSE
    OBVIOUS
  <2>1. pc = "clear"
    BY DEF WorkerStep, WorkerRecv, WorkerEnd, runVars
  <2>2. chan[t] = <<>>
    BY <2>1 DEF StageInv, Starting
  <2> QED
    BY <2>1, <2>2 DEF WorkerStep, WorkerRecv, WorkerEnd, Closed
<1> QED
  BY <1>1, <1>2, <1>3, <1>4, <1>5 DEF Next, MainStep

\* A worker stores what was on its way and takes it off its way.
LEMMA WorkerMoves ==
  ASSUME TypeOK, NEW t \in Table, WorkerStep(t), Distinct(t)
  PROVE  /\ \E ks \in SUBSET Snap :
              /\ ks \subseteq Inflight(t)
              /\ \/ rows' = rows
                 \/ rows' = Stored(t, ks) /\ Inflight(t)' \cap ks = {}
         /\ Inflight(t)' \subseteq Inflight(t)
         /\ Distinct(t)'
         /\ \A u \in Table \ {t} : Inflight(u)' = Inflight(u) /\ (Distinct(u) => Distinct(u)')
<1>1. CASE WorkerRecv(t)
  <2> DEFINE ks == inserter[t] \cup {chan[t][1]}
  <2>1. /\ ks \in SUBSET Snap /\ 1 \in DOMAIN chan[t]
        /\ DOMAIN chan[t] = 1 .. Len(chan[t]) /\ DOMAIN chan'[t] = 1 .. Len(chan'[t])
        /\ Len(chan'[t]) = Len(chan[t]) - 1 /\ Len(chan[t]) \in Nat \ {0}
        /\ \A i \in 1 .. Len(chan'[t]) : chan'[t][i] = chan[t][i + 1]
        /\ \A u \in Table \ {t} : chan'[u] = chan[u] /\ inserter'[u] = inserter[u]
    BY <1>1, RecvEffect, LenProperties DEF TypeOK
  <2>2. \/ inserter'[t] = ks /\ rows' = rows
        \/ inserter'[t] = {} /\ (rows' = Stored(t, ks) \/ rows' = rows)
    BY <1>1, RecvEffect
  <2>3. /\ Inflight(t)' \subseteq Inflight(t)
        /\ \A u \in Table \ {t} : Inflight(u)' = Inflight(u)
    BY <1>1, RecvInflight
  <2>4. ks \subseteq Inflight(t)
    BY <2>1 DEF Inflight
  <2>5. \A i \in DOMAIN chan'[t] : chan'[t][i] \notin ks
    <3> SUFFICES ASSUME NEW i \in 1 .. Len(chan'[t]) PROVE chan'[t][i] \notin ks
      BY <2>1
    <3>1. i + 1 \in 1 .. Len(chan[t]) /\ i + 1 # 1 /\ chan'[t][i] = chan[t][i + 1]
      BY <2>1
    <3> QED
      BY <2>1, <3>1 DEF Distinct
  <2>6. \A i, j \in DOMAIN chan'[t] : i # j => chan'[t][i] # chan'[t][j]
    <3> SUFFICES ASSUME NEW i \in 1 .. Len(chan'[t]), NEW j \in 1 .. Len(chan'[t]), i # j
                 PROVE  chan'[t][i] # chan'[t][j]
      BY <2>1
    <3>1. i + 1 \in 1 .. Len(chan[t]) /\ j + 1 \in 1 .. Len(chan[t]) /\ i + 1 # j + 1
          /\ chan'[t][i] = chan[t][i + 1] /\ chan'[t][j] = chan[t][j + 1]
      BY <2>1
    <3> QED
      BY <2>1, <3>1, ZenonT(30) DEF Distinct
  <2>7. \A u \in Table \ {t} : Distinct(u) => Distinct(u)'
    BY <2>1 DEF Distinct
  <2> HIDE DEF ks
  <2>8. Distinct(t)'
    BY <2>2, <2>5, <2>6 DEF Distinct
  <2>9. inserter'[t] = {} => Inflight(t)' \cap ks = {}
    BY <2>5 DEF Inflight
  <2> QED
    BY <2>1, <2>2, <2>3, <2>4, <2>7, <2>8, <2>9
<1>2. CASE WorkerEnd(t)
  <2> DEFINE ks == inserter[t]
  <2>1. /\ ks \in SUBSET Snap /\ chan[t] = <<>> /\ chan' = chan
        /\ \A u \in Table : inserter'[u] = IF u = t THEN {} ELSE inserter[u]
        /\ rows' = Stored(t, ks) \/ rows' = rows
    BY <1>2 DEF WorkerEnd, TypeOK, LastRows
  <2>2. Inflight(t)' = {} /\ ks \subseteq Inflight(t) /\ Distinct(t)'
    BY <2>1 DEF Inflight, Distinct
  <2>3. \A u \in Table \ {t} : Inflight(u)' = Inflight(u) /\ (Distinct(u) => Distinct(u)')
    BY <2>1 DEF Inflight, Distinct
  <2> HIDE DEF ks
  <2> QED
    BY <2>1, <2>2, <2>3
<1> QED
  BY <1>1, <1>2 DEF WorkerStep

\* While no run has been cut short, every step keeps the count of a snapshot's
\* rows in a table at one at most.
LEMMA OnceStep ==
  ASSUME TypeOK, StageInv, CoherentInv, ClearedInv, OnceInv, [Next]_vars
  PROVE  OnceInv'
<1> SUFFICES ASSUME ~cut', NEW t \in Table PROVE OnceAt(t)'
  BY DEF OnceInv
<1> USE DEF Processing
<1>a. ~cut => OnceAt(t)
  BY DEF OnceInv
<1>b. \A u \in Table, k \in Snap : rows[u][k] \in Nat
  BY DEF TypeOK
<1>1. CASE AppendSnapshot \/ UNCHANGED vars
  BY <1>a, <1>1 DEF AppendSnapshot, vars, runVars, workerVars, historyVars, OnceAt, Distinct, Inflight
<1>2. CASE Start
  <2>1. /\ UNCHANGED <<rows, saved, cut>> /\ pc = "idle" /\ pc' \in {"drop", "load"}
        /\ chan'[t] = <<>> /\ inserter'[t] = {}
    BY <1>2 DEF Start, FirstStep, historyVars
  <2> QED
    BY <1>a, <2>1 DEF OnceAt, Distinct, Inflight
<1>3. CASE DropState
  <2>1. /\ UNCHANGED <<rows, cut, chan, inserter>> /\ pc' = "clear"
    BY <1>3 DEF DropState, workerVars, historyVars
  <2> QED
    BY <1>a, <2>1 DEF OnceAt, Distinct, Inflight
<1>4. CASE LoadState
  <2>1. /\ UNCHANGED <<rows, saved, cut, chan, inserter>> /\ pc = "load"
        /\ pc' = "clear" \/ (pc' = "read" /\ proc' = saved /\ saved # NoState)
        /\ chan[t] = <<>> /\ inserter[t] = {}
    BY <1>4 DEF LoadState, workerVars, historyVars, StageInv, Starting
  <2> QED
    BY <1>a, <2>1 DEF OnceAt, Distinct, Inflight
<1>5. CASE ClearTable
  <2>1. /\ UNCHANGED <<chan, inserter>> /\ pc = "clear" /\ pc' \in {"clear", "read"} /\ ti \in Table
        /\ chan[t] = <<>> /\ inserter[t] = {}
        /\ pc' = "clear" => cut' = cut
        /\ pc' = "read" => ti = Tables
    BY <1>5 DEF ClearTable, workerVars, StageInv, Starting
  <2>2. \A k \in Snap : rows'[t][k] = IF t = ti THEN 0 ELSE rows[t][k]
    BY <1>5, <2>1 DEF ClearTable, TypeOK
  <2>3. CASE pc' = "clear"
    <3>1. \A k \in Snap : rows'[t][k] <= 1
      BY <1>a, <2>1, <2>2, <2>3 DEF OnceAt
    <3> QED
      BY <2>1, <2>3, <3>1 DEF OnceAt, Distinct, Inflight
  <2>4. CASE pc' = "read"
    <3>1. t = ti \/ t < ti
      BY <2>1, <2>4 DEF Table
    <3>2. \A k \in Snap : rows'[t][k] = 0
      BY <2>1, <2>2, <3>1 DEF ClearedInv
    <3> QED
      BY <2>1, <2>4, <3>2 DEF OnceAt, Distinct, Inflight
  <2> QED
    BY <2>1, <2>3, <2>4
<1>6. CASE ReadSnapshot
  <2>1. /\ UNCHANGED <<rows, saved, cut, chan, inserter>> /\ pc = "read"
        /\ pos \in 1 .. Len(file) /\ pos \in Snap
    BY <1>6 DEF ReadSnapshot, workerVars, historyVars, TypeOK, Snap
  <2>2. OnceAt(t) /\ Inflight(t)' = Inflight(t) /\ Distinct(t)'
    BY <1>a, <2>1 DEF OnceAt, Distinct, Inflight
  <2>3. CASE pc' = "read" /\ proc' = proc
    BY <2>1, <2>2, <2>3 DEF OnceAt
  <2>4. CASE ~SkipSnapshot(file[pos])
    <3>1. pc' = "send" /\ proc'.done = proc.done \cup {pos} /\ pos' = pos
      BY <1>6, <2>4 DEF ReadSnapshot
    <3>2. pos \notin proc.done
      <4>1. file[pos] \in Nat /\ proc.last \in Nat
        BY <2>1 DEF TypeOK, State, Time
      <4> QED
        BY <2>4, <4>1 DEF SkipSnapshot, CoherentInv, Coherent
    <3>3. rows[t][pos] = 0 /\ pos \notin Inflight(t)
      BY <2>1, <2>2, <3>2 DEF OnceAt
    <3> QED
      BY <2>1, <2>2, <3>1, <3>3 DEF OnceAt
  <2> QED
    BY <1>6, <2>1, <2>3, <2>4 DEF ReadSnapshot
<1>7. CASE SendRows
  <2>1. /\ UNCHANGED <<rows, saved, cut, proc, inserter>> /\ pc = "send" /\ pos \in proc.done
        /\ \/ pc' = "read" /\ ti = Tables
           \/ pc' = "send" /\ ti' = ti + 1 /\ pos' = pos
    BY <1>7 DEF SendRows, historyVars, StageInv
  <2>2. /\ ti \in Table /\ pos \in Snap
        /\ Inflight(t)' = IF t = ti THEN Inflight(t) \cup {pos} ELSE Inflight(t)
    BY <1>7, SendEffect
  <2>3. OnceAt(t)
    BY <1>a, <2>1
  <2>4. Distinct(t)'
    <3>1. CASE t # ti
      <4>1. chan'[t] = chan[t]
        BY <1>7, <3>1, SendEffect
      <4> QED
        BY <2>1, <2>3, <4>1 DEF OnceAt, Distinct
    <3>2. CASE t = ti
      <4> DEFINE n == Len(chan[t])
      <4>1. /\ n \in Nat /\ chan[t] \in Seq(Snap) /\ chan'[t] \in Seq(Snap)
            /\ Len(chan'[t]) = n + 1
            /\ \A i \in 1 .. n : chan'[t][i] = chan[t][i]
            /\ chan'[t][n + 1] = pos
        BY <1>7, <3>2, SendEffect DEF TypeOK
      <4>2. DOMAIN chan[t] = 1 .. n /\ DOMAIN chan'[t] = 1 .. n + 1
        BY <4>1, LenProperties
      <4>3. pos \notin inserter[t] /\ \A i \in 1 .. n : chan[t][i] # pos
        <5>1. pos \notin Inflight(t)
          BY <2>1, <2>2, <2>3, <3>2 DEF OnceAt, Table
        <5> QED
          BY <4>2, <5>1 DEF Inflight
      <4>4. \A i \in 1 .. n + 1 : i \in 1 .. n \/ i = n + 1
        BY <4>1
      <4> HIDE DEF n
      <4>a. /\ \A i, j \in 1 .. n : i # j => chan[t][i] # chan[t][j]
            /\ \A i \in 1 .. n : chan[t][i] \notin inserter[t]
        BY <2>3, <4>2 DEF OnceAt, Distinct
      <4>5. ASSUME NEW i \in 1 .. n + 1, NEW j \in 1 .. n + 1, i # j
            PROVE  chan'[t][i] # chan'[t][j]
        <5>1. CASE i \in 1 .. n /\ j \in 1 .. n
          BY <4>1, <4>5, <4>a, <5>1
        <5>2. CASE i \in 1 .. n /\ j = n + 1
          BY <4>1, <4>3, <5>2
        <5>3. CASE i = n + 1 /\ j \in 1 .. n
          BY <4>1, <4>3, <5>3
        <5> QED
          BY <4>4, <4>5, <5>1, <5>2, <5>3
      <4>6. ASSUME NEW i \in 1 .. n + 1
            PROVE  chan'[t][i] \notin inserter'[t]
        BY <2>1, <4>1, <4>3, <4>4, <4>a
      <4> QED
        BY <4>2, <4>5, <4>6 DEF Distinct
    <3> QED
      BY <3>1, <3>2
  <2>5. \A k \in Inflight(t)' : rows'[t][k] = 0
    BY <2>1, <2>2, <2>3 DEF OnceAt, Table
  <2>6. \A k \in Snap \ proc.done : rows[t][k] = 0 /\ k \notin Inflight(t)'
    BY <2>1, <2>2, <2>3 DEF OnceAt
  <2>7. (pc' = "send" /\ t >= ti') => t >= ti /\ t # ti
    BY <2>1, <2>2 DEF Table
  <2>8. (pc' = "send" /\ t >= ti') => rows'[t][pos'] = 0 /\ pos' \notin Inflight(t)'
    BY <2>1, <2>2, <2>3, <2>7 DEF OnceAt
  <2> QED
    BY <2>1, <2>3, <2>4, <2>5, <2>6, <2>8 DEF OnceAt
<1>8. CASE StopReading \/ SaveState
  <2>1. /\ UNCHANGED <<rows, cut, proc, chan, inserter>> /\ pc \in Processing /\ pc' \in {"save", "wait"}
    BY <1>8 DEF StopReading, SaveState, workerVars, historyVars
  <2> QED
    BY <1>a, <2>1 DEF OnceAt, Distinct, Inflight
<1>9. CASE Exit
  <2>1. /\ UNCHANGED <<rows, cut, saved, chan, inserter>> /\ pc = "wait" /\ pc' = "idle" /\ saved = proc
    BY <1>9 DEF Exit, workerVars, historyVars, StageInv
  <2> QED
    BY <1>a, <2>1 DEF OnceAt, Distinct, Inflight
<1>10. CASE Crash
  <2>1. /\ UNCHANGED <<rows, saved>> /\ pc' = "idle" /\ chan'[t] = <<>> /\ inserter'[t] = {}
    BY <1>10 DEF Crash
  <2>2. ~cut /\ ~(restored /\ pc \in {"read", "send", "save"})
    BY <1>10 DEF Crash
  <2>3. saved # NoState => \A k \in Snap \ saved.done : rows[t][k] = 0
    <3>1. pc \in {"idle", "drop", "load", "wait"} \/ saved = NoState
      BY <2>2 DEF StageInv, TypeOK
    <3>2. pc = "wait" => saved = proc
      BY DEF StageInv
    <3> QED
      BY <1>a, <2>2, <3>1, <3>2 DEF OnceAt
  <2> QED
    BY <1>a, <2>1, <2>2, <2>3 DEF OnceAt, Distinct, Inflight
<1>11. ASSUME NEW u \in Table, WorkerStep(u) PROVE OnceAt(t)'
  <2>1. UNCHANGED <<pc, proc, pos, ti, saved, cut>> /\ ~cut
    BY <1>11 DEF WorkerStep, WorkerRecv, WorkerEnd, runVars
  <2>2. OnceAt(t) /\ Distinct(u)
    BY <2>1 DEF OnceInv, OnceAt
  <2>3. PICK ks \in SUBSET Snap :
          /\ ks \subseteq Inflight(u)
          /\ rows' = rows \/ (rows' = Stored(u, ks) /\ Inflight(u)' \cap ks = {})
    BY <1>11, <2>2, WorkerMoves
  <2>4. Distinct(t)' /\ Inflight(t)' \subseteq Inflight(t)
    BY <1>11, <2>2, WorkerMoves DEF OnceAt
  <2>5. \A k \in Snap :
          Stored(u, ks)[t][k] = IF t = u /\ k \in ks THEN rows[t][k] + 1 ELSE rows[t][k]
    BY StoredType
  <2>6. ASSUME NEW k \in Snap, rows'[t][k] # rows[t][k]
        PROVE  rows'[t][k] = 1 /\ k \in Inflight(t) /\ k \notin Inflight(t)'
    <3>1. rows' = Stored(u, ks) /\ Inflight(u)' \cap ks = {} /\ t = u /\ k \in ks
      BY <2>3, <2>5, <2>6
    <3>2. k \in Inflight(t) /\ rows[t][k] = 0
      BY <2>2, <2>3, <3>1 DEF OnceAt
    <3> QED
      BY <2>5, <3>1, <3>2
  <2>7. Inflight(t) \subseteq Snap
    <3>1. chan[t] \in Seq(Snap) /\ inserter[t] \in SUBSET Snap
      BY DEF TypeOK
    <3> QED
      BY <3>1, LenProperties DEF Inflight
  <2>8. pc \in Processing
    BY <1>11 DEF WorkerStep, WorkerRecv, WorkerEnd, StageInv, Starting, Running, Closed, TypeOK
  <2>9. /\ \A k \in Snap : rows'[t][k] <= 1
        /\ \A k \in Inflight(t)' : rows'[t][k] = 0
        /\ \A k \in Snap \ proc.done : rows'[t][k] = 0 /\ k \notin Inflight(t)'
    BY <2>2, <2>4, <2>6, <2>7, <2>8 DEF OnceAt
  <2>10. (pc = "send" /\ t >= ti) => rows'[t][pos] = 0 /\ pos \notin Inflight(t)'
    <3>1. pc = "send" => pos \in Snap
      BY DEF StageInv, TypeOK, Snap
    <3> QED
      BY <2>2, <2>4, <2>6, <3>1 DEF OnceAt
  <2> QED
    BY <2>1, <2>4, <2>8, <2>9, <2>10 DEF OnceAt
<1> QED
  BY <1>1, <1>2, <1>3, <1>4, <1>5, <1>6, <1>7, <1>8, <1>9, <1>10, <1>11 DEF Next, MainStep

-----------------------------------------------------------------------------
(* The theorems.                                                           *)

\* Every step keeps the inductive invariant of the service.
LEMMA NextInv == IInv /\ [Next]_vars => IInv'
  BY TypeStep, StageStep, AccountedStep, CoherentStep, ClearedStep, OnceStep DEF IInv

\* The inductive invariant holds in every run of the service.
LEMMA Invariance == Spec => []IInv
  BY InitInv, NextInv, PTL DEF Spec

\* The state keeps its types: no channel exceeds its capacity, and neither the
\* loop over the tables nor the reader leaves its range.
THEOREM TypeCorrect == Spec => []TypeOK
  BY Invariance, PTL DEF IInv

\* In every run, whatever tables it has stored rows in when it fails, the rows
\* of a snapshot the processor contains are stored, on their way or recorded
\* as lost (Processor::process, MsgsSender::start).
THEOREM NothingUnaccounted == Spec => []ProcessorAccounted
  BY Invariance, PTL DEF IInv

\* The state in Postgres never claims rows that ClickHouse lacks, but for
\* failed inserts and runs killed after save_process_state (main.rs).
THEOREM SavedStateIsStored == Spec => []SavedIsStored
  BY Invariance, PTL DEF IInv

\* Restarts store the rows of a snapshot once, until a restored run is cut
\* short (create_processor, Processor::process).
THEOREM StoredOnce == Spec => []AtMostOnce
<1>1. IInv => AtMostOnce
  BY DEF IInv, OnceInv, OnceAt, AtMostOnce
<1> QED
  BY <1>1, Invariance, PTL

\* A snapshot is only skipped for a timestamp as large before it, over any
\* number of restarts (Processor::process, Processor::restore).
THEOREM SkippedForAReason == Spec => []SkippedOnlyIfOlder
  BY Invariance, PTL DEF IInv

-----------------------------------------------------------------------------
(* SnapshotFile                                                            *)

USE SizesAssumption

\* Messages follow one another in the stream, and none is empty.
StreamInv ==
  /\ \A k \in DOMAIN ends : ends[k] - (Begin(k) + TagSize) \in 1 .. MaxSize
  /\ \A j, k \in DOMAIN ends : j < k => ends[j] < ends[k]

\* Where the bytes of the tag or message begin that is being read.
From == Begin(Len(out) + 1) + (IF field = "tag" THEN 0 ELSE TagSize)

\* The buffer holds the bytes from there to the position of the reader, and has
\* the size of what the writer put there.
ReaderInv ==
  /\ stop # "garbled"
  /\ Len(out) <= Len(ends)
  /\ \A i \in DOMAIN out : out[i] = i
  /\ offset = From + Len(got)
  /\ got = Piece(From, offset)
  /\ field = "tag" => size = TagSize
  /\ field = "message" =>
       Len(out) + 1 \in DOMAIN ends /\ size = ends[Len(out) + 1] - From

FileIInv == FileTypeOK /\ StreamInv /\ ReaderInv

-----------------------------------------------------------------------------
(* Pieces of the stream.                                                   *)

\* A piece of the stream is a sequence of its bytes.
LEMMA PieceType ==
  ASSUME NEW a \in Nat, NEW b \in Nat, a <= b
  PROVE  /\ Piece(a, b) \in Seq(Nat)
         /\ \A v \in Nat : b <= v => Piece(a, b) \in Seq(1 .. v)
<1>1. b - a \in Nat /\ Piece(a, b) = [i \in 1 .. b - a |-> a + i]
  BY DEF Piece
<1>2. ASSUME NEW v \in Nat, b <= v PROVE Piece(a, b) \in [1 .. b - a -> 1 .. v]
  BY <1>1, <1>2
<1>3. Piece(a, b) \in [1 .. b - a -> Nat]
  BY <1>1
<1> QED
  BY <1>1, <1>2, <1>3

\* A piece is as long as the distance between its ends.
LEMMA PieceLen ==
  ASSUME NEW a \in Nat, NEW b \in Nat, a <= b
  PROVE  Len(Piece(a, b)) = b - a
<1>1. b - a \in Nat /\ DOMAIN Piece(a, b) = 1 .. b - a
  BY DEF Piece
<1>2. DOMAIN Piece(a, b) = 1 .. Len(Piece(a, b)) /\ Len(Piece(a, b)) \in Nat
  BY PieceType, LenProperties
<1> QED
  BY <1>1, <1>2

\* The bytes of a piece are numbered from its beginning.
LEMMA PieceAt ==
  ASSUME NEW a \in Nat, NEW b \in Nat, NEW i \in 1 .. b - a
  PROVE  Piece(a, b)[i] = a + i
  BY DEF Piece

\* Two neighbouring pieces make one.
LEMMA PieceConcat ==
  ASSUME NEW a \in Nat, NEW b \in Nat, NEW c \in Nat, a <= b, b <= c
  PROVE  Piece(a, b) \o Piece(b, c) = Piece(a, c)
<1> DEFINE s == Piece(a, b)
           t == Piece(b, c)
           u == Piece(a, c)
<1>1. /\ s \in Seq(Nat) /\ Len(s) = b - a /\ \A i \in 1 .. b - a : s[i] = a + i
      /\ t \in Seq(Nat) /\ Len(t) = c - b /\ \A i \in 1 .. c - b : t[i] = b + i
      /\ u \in Seq(Nat) /\ Len(u) = c - a /\ \A i \in 1 .. c - a : u[i] = a + i
  <2>1. a <= c
    OBVIOUS
  <2>2. s \in Seq(Nat) /\ t \in Seq(Nat) /\ u \in Seq(Nat)
    BY <2>1, PieceType
  <2>3. Len(s) = b - a /\ Len(t) = c - b /\ Len(u) = c - a
    BY <2>1, PieceLen
  <2> QED
    BY <2>2, <2>3, PieceAt
<1> HIDE DEF s, t, u
<1>2. s \o t \in Seq(Nat) /\ Len(s \o t) = c - a
  BY <1>1, ConcatProperties
<1>3. ASSUME NEW i \in 1 .. c - a PROVE (s \o t)[i] = u[i]
  <2>1. (s \o t)[i] = IF i <= b - a THEN s[i] ELSE t[i - (b - a)]
    <3>1. i \in 1 .. Len(s) + Len(t)
      BY <1>1
    <3>2. (s \o t)[i] = IF i <= Len(s) THEN s[i] ELSE t[i - Len(s)]
      BY <1>1, <3>1, ConcatProperties
    <3> QED
      BY <1>1, <3>2
  <2>2. CASE i <= b - a
    <3>1. i \in 1 .. b - a
      BY <2>2
    <3> QED
      BY <1>1, <2>1, <2>2, <3>1
  <2>3. CASE ~(i <= b - a)
    <3>1. i - (b - a) \in 1 .. c - b
      BY <2>3
    <3>2. (s \o t)[i] = b + (i - (b - a)) /\ u[i] = a + i
      BY <1>1, <2>1, <2>3, <3>1
    <3> QED
      BY <3>2
  <2> QED
    BY <2>2, <2>3
<1>4. s \o t = u
  BY <1>1, <1>2, <1>3, SeqEqual
<1> QED
  BY <1>4 DEF s, t, u

\* Pieces that hold a byte begin and end at the same places only if equal.
LEMMA PieceEqual ==
  ASSUME NEW a \in Nat, NEW b \in Nat, NEW c \in Nat, NEW d \in Nat,
         a < b, c <= d, Piece(a, b) = Piece(c, d)
  PROVE  a = c /\ b = d
<1>1. Len(Piece(a, b)) = b - a /\ Len(Piece(c, d)) = d - c
  <2>1. a <= b
    OBVIOUS
  <2> QED
    BY <2>1, PieceLen
<1>2. b - a = d - c
  BY <1>1
<1>3. Piece(a, b)[1] = a + 1 /\ Piece(c, d)[1] = c + 1
  <2>1. 1 \in 1 .. b - a /\ 1 \in 1 .. d - c
    BY <1>2
  <2> QED
    BY <2>1, PieceAt
<1> QED
  BY <1>2, <1>3

-----------------------------------------------------------------------------
(* The stream.                                                             *)

\* A message begins at a position of the stream.
LEMMA BeginType ==
  ASSUME FileTypeOK, NEW k \in 1 .. Len(ends) + 1
  PROVE  Begin(k) \in Nat /\ Len(ends) \in Nat
<1>1. Len(ends) \in Nat /\ \A j \in 1 .. Len(ends) : ends[j] \in Nat
  BY DEF FileTypeOK
<1>2. k # 1 => k - 1 \in 1 .. Len(ends)
  BY <1>1
<1> QED
  BY <1>1, <1>2 DEF Begin

\* A message begins after its tag and before its end, and at a place of its own.
LEMMA Layout ==
  ASSUME FileTypeOK, StreamInv, NEW k \in DOMAIN ends
  PROVE  /\ k \in 1 .. Len(ends) /\ Len(ends) \in Nat
         /\ Begin(k) \in Nat /\ ends[k] \in Nat
         /\ Begin(k) + TagSize < ends[k] /\ ends[k] - (Begin(k) + TagSize) <= MaxSize
         /\ \A j \in DOMAIN ends : Begin(j) = Begin(k) => j = k
<1>1. DOMAIN ends = 1 .. Len(ends) /\ Len(ends) \in Nat /\ \A j \in DOMAIN ends : ends[j] \in Nat
  BY LenProperties DEF FileTypeOK
<1>2. \A j \in DOMAIN ends : Begin(j) \in Nat
  BY <1>1, BeginType
<1>3. ends[k] - (Begin(k) + TagSize) \in 1 .. MaxSize
  BY DEF StreamInv
<1>4. ASSUME NEW i \in DOMAIN ends, NEW j \in DOMAIN ends, i < j PROVE Begin(i) # Begin(j)
  <2>1. j # 1 /\ j - 1 \in DOMAIN ends /\ Begin(j) = ends[j - 1]
    BY <1>1, <1>4 DEF Begin
  <2>2. CASE i = 1
    <3>1. Begin(i) = 0 /\ ends[1] - TagSize \in 1 .. MaxSize /\ ends[1] \in Nat
      BY <1>1, <2>2 DEF Begin, StreamInv
    <3>2. ends[1] <= ends[j - 1]
      <4>1. 1 \in DOMAIN ends /\ (j - 1 = 1 \/ 1 < j - 1)
        BY <1>1, <2>1
      <4>2. CASE j - 1 = 1
        BY <3>1, <4>2
      <4>3. CASE 1 < j - 1
        <5>1. ends[1] < ends[j - 1]
          BY <2>1, <4>1, <4>3 DEF StreamInv
        <5> QED
          BY <1>1, <2>1, <4>1, <5>1
      <4> QED
        BY <4>1, <4>2, <4>3
    <3> QED
      BY <1>1, <2>1, <3>1, <3>2
  <2>3. CASE i # 1
    <3>1. i - 1 \in DOMAIN ends /\ Begin(i) = ends[i - 1] /\ i - 1 < j - 1
      BY <1>1, <1>4, <2>3 DEF Begin
    <3>2. ends[i - 1] < ends[j - 1]
      BY <2>1, <3>1 DEF StreamInv
    <3> QED
      BY <1>1, <2>1, <3>1, <3>2
  <2> QED
    BY <2>2, <2>3
<1>5. \A j \in DOMAIN ends : j = k \/ j < k \/ k < j
  BY <1>1
<1>6. Begin(k) + TagSize < ends[k] /\ ends[k] - (Begin(k) + TagSize) <= MaxSize
  BY <1>1, <1>2, <1>3
<1> QED
  BY <1>1, <1>2, <1>4, <1>5, <1>6

\* Nothing of the stream lies behind the last message.
LEMMA WrittenIsLast ==
  ASSUME FileTypeOK
  PROVE  Written \in Nat /\ Begin(Len(ends) + 1) = Written
<1>1. Len(ends) \in Nat /\ \A j \in 1 .. Len(ends) : ends[j] \in Nat
  BY DEF FileTypeOK
<1>2. ends = <<>> <=> Len(ends) = 0
  BY EmptySeq DEF FileTypeOK
<1>3. CASE Len(ends) = 0
  BY <1>2, <1>3 DEF Written, Begin
<1>4. CASE Len(ends) # 0
  <2>1. Len(ends) + 1 # 1 /\ Len(ends) + 1 - 1 = Len(ends) /\ Len(ends) \in 1 .. Len(ends)
    BY <1>1, <1>4
  <2> QED
    BY <1>1, <1>2, <1>4, <2>1 DEF Written, Begin
<1> QED
  BY <1>3, <1>4

-----------------------------------------------------------------------------
(* The reader.                                                             *)

\* The reader's position, and the lengths it compares, are naturals in order.
LEMMA ReaderFacts ==
  ASSUME FileIInv
  PROVE  /\ Len(out) \in Nat /\ Len(ends) \in Nat /\ DOMAIN ends = 1 .. Len(ends)
         /\ Len(out) + 1 \in 1 .. Len(ends) + 1
         /\ Begin(Len(out) + 1) \in Nat /\ From \in Nat /\ Len(got) \in Nat
         /\ offset \in Nat /\ visible \in Nat /\ Written \in Nat /\ offset <= visible /\ visible <= Written
         /\ offset = From + Len(got) /\ size \in Nat
         /\ field = "tag" => From = Begin(Len(out) + 1)
         /\ field = "message" => From = Begin(Len(out) + 1) + TagSize
<1>1. FileTypeOK /\ ReaderInv
  BY DEF FileIInv
<1>2. Len(out) \in Nat /\ Len(ends) \in Nat /\ DOMAIN ends = 1 .. Len(ends) /\ Len(got) \in Nat
  BY <1>1, LenProperties DEF FileTypeOK
<1>3. Len(out) + 1 \in 1 .. Len(ends) + 1
  BY <1>1, <1>2 DEF ReaderInv
<1>4. Begin(Len(out) + 1) \in Nat /\ Written \in Nat
  BY <1>1, <1>3, BeginType, WrittenIsLast
<1>5. From \in Nat
      /\ (field = "tag" => From = Begin(Len(out) + 1))
      /\ (field = "message" => From = Begin(Len(out) + 1) + TagSize)
  BY <1>4 DEF From
<1>6. offset \in Nat /\ visible \in Nat /\ offset <= visible /\ visible <= Written /\ size \in Nat
  BY <1>1, <1>4 DEF FileTypeOK
<1> QED
  BY <1>1, <1>2, <1>3, <1>4, <1>5, <1>6 DEF ReaderInv

\* A byte can only be read of a message that was written.
LEMMA OnlyWritten ==
  ASSUME FileIInv, offset > Begin(Len(out) + 1)
  PROVE  Len(out) + 1 \in DOMAIN ends
<1>1. Len(out) # Len(ends)
  <2>1. Begin(Len(ends) + 1) = Written
    BY WrittenIsLast DEF FileIInv
  <2> QED
    BY <2>1, ReaderFacts
<1> QED
  BY <1>1, ReaderFacts

\* The reader starts with the invariant: it expects the first tag.
LEMMA FileInitInv == FileInit => FileIInv
<1> SUFFICES ASSUME FileInit PROVE FileIInv
  OBVIOUS
<1>1. Written = 0 /\ Begin(1) = 0 /\ Len(out) = 0 /\ Len(ends) = 0 /\ Len(got) = 0
  BY DEF FileInit, Written, Begin
<1>2. FileTypeOK
  BY <1>1 DEF FileInit, FileTypeOK
<1>3. StreamInv
  BY DEF FileInit, StreamInv
<1>4. From = 0 /\ Piece(0, 0) = <<>>
  <2>1. From = 0
    BY <1>1 DEF FileInit, From
  <2>2. Piece(0, 0) \in Seq(Nat) /\ Len(Piece(0, 0)) = 0
    BY PieceType, PieceLen
  <2> QED
    BY <2>1, <2>2, EmptySeq
<1>5. ReaderInv
  BY <1>1, <1>4 DEF FileInit, ReaderInv
<1> QED
  BY <1>2, <1>3, <1>5 DEF FileIInv

\* A message that is appended leaves the stream before it alone.
LEMMA WriteStep ==
  ASSUME FileIInv, WriteMessage
  PROVE  FileIInv'
<1>1. PICK n \in 1 .. MaxSize : ends' = Append(ends, Written + TagSize + n)
  BY DEF WriteMessage
<1>a. /\ UNCHANGED <<visible, watch, offset, field, size, got, out, stop>>
      /\ visible = Written /\ Len(ends) < MaxMessages
  BY DEF WriteMessage, readerVars
<1>b. FileTypeOK /\ StreamInv /\ ReaderInv
  BY DEF FileIInv
<1>2. /\ Written \in Nat /\ Len(ends) \in Nat /\ Begin(Len(ends) + 1) = Written
      /\ DOMAIN ends = 1 .. Len(ends) /\ \A k \in 1 .. Len(ends) : ends[k] \in Nat
  BY <1>b, WrittenIsLast, LenProperties DEF FileTypeOK
<1>3. /\ ends' \in Seq(Nat) /\ Len(ends') = Len(ends) + 1 /\ DOMAIN ends' = 1 .. Len(ends) + 1
      /\ \A k \in 1 .. Len(ends) : ends'[k] = ends[k]
      /\ ends'[Len(ends) + 1] = Written + TagSize + n
  <2>1. ends \in Seq(Nat) /\ Written + TagSize + n \in Nat
    BY <1>2, <1>b DEF FileTypeOK
  <2> QED
    BY <1>1, <2>1
<1>4. \A k \in 1 .. Len(ends) + 1 : Begin(k)' = Begin(k)
  <2> SUFFICES ASSUME NEW k \in 1 .. Len(ends) + 1, k # 1 PROVE ends'[k - 1] = ends[k - 1]
    BY DEF Begin
  <2>1. k - 1 \in 1 .. Len(ends)
    BY <1>2
  <2> QED
    BY <1>3, <2>1
<1>5. Written' = Written + TagSize + n
  BY <1>2, <1>3, EmptySeq DEF Written
<1>6. FileTypeOK'
  <2>1. Len(ends') <= MaxMessages /\ visible' \in 0 .. Written'
    BY <1>2, <1>3, <1>5, <1>a
  <2>2. out' \in Seq(DOMAIN ends')
    <3>1. DOMAIN ends \subseteq DOMAIN ends'
      BY <1>2, <1>3
    <3> QED
      BY <1>a, <1>b, <3>1, SeqMonotonic DEF FileTypeOK
  <2> QED
    BY <1>3, <1>a, <1>b, <2>1, <2>2 DEF FileTypeOK
<1>7. StreamInv'
  <2>1. \A k \in DOMAIN ends' : k \in 1 .. Len(ends) \/ k = Len(ends) + 1
    BY <1>2, <1>3
  <2>2. ASSUME NEW k \in DOMAIN ends' PROVE ends'[k] - (Begin(k)' + TagSize) \in 1 .. MaxSize
    <3>1. CASE k \in 1 .. Len(ends)
      <4>1. ends'[k] = ends[k] /\ Begin(k)' = Begin(k)
        BY <1>2, <1>3, <1>4, <3>1
      <4> QED
        BY <1>2, <1>b, <3>1, <4>1 DEF StreamInv
    <3>2. CASE k = Len(ends) + 1
      <4>1. k \in 1 .. Len(ends) + 1
        BY <1>3
      <4>2. Begin(k)' = Written /\ ends'[k] = Written + TagSize + n
        BY <1>2, <1>3, <1>4, <3>2, <4>1
      <4> QED
        BY <1>2, <4>2
    <3> QED
      BY <2>1, <3>1, <3>2
  <2>3. ASSUME NEW j \in DOMAIN ends', NEW k \in DOMAIN ends', j < k PROVE ends'[j] < ends'[k]
    <3>1. j \in 1 .. Len(ends) /\ ends'[j] = ends[j]
      BY <1>2, <1>3, <2>3
    <3>2. CASE k \in 1 .. Len(ends)
      BY <1>2, <1>3, <1>b, <2>3, <3>1, <3>2 DEF StreamInv
    <3>3. CASE k = Len(ends) + 1
      <4>1. Len(ends) \in DOMAIN ends /\ ends[Len(ends)] = Written
        <5>1. Len(ends) + 1 # 1 /\ Len(ends) + 1 - 1 = Len(ends) /\ Len(ends) \in 1 .. Len(ends)
          BY <1>2, <3>1
        <5> QED
          BY <1>2, <5>1 DEF Begin
      <4>2. ends[j] <= Written
        <5>1. CASE j = Len(ends)
          BY <1>2, <4>1, <5>1
        <5>2. CASE j < Len(ends)
          <6>1. ends[j] < ends[Len(ends)]
            BY <1>2, <1>b, <3>1, <4>1, <5>2 DEF StreamInv
          <6> QED
            BY <1>2, <3>1, <4>1, <6>1
        <5> QED
          BY <1>2, <3>1, <5>1, <5>2
      <4>3. ends'[k] = Written + TagSize + n /\ ends[j] \in Nat
        BY <1>2, <1>3, <3>1, <3>3
      <4> QED
        BY <1>2, <3>1, <4>2, <4>3
    <3> QED
      BY <2>1, <3>2, <3>3
  <2> QED
    BY <2>2, <2>3 DEF StreamInv
<1>8. ReaderInv'
  <2>1. Len(out) + 1 \in 1 .. Len(ends) + 1 /\ Len(out) \in Nat
    BY ReaderFacts
  <2>2. From' = From
    BY <1>4, <1>a, <2>1 DEF From
  <2>3. field = "message" => Len(out) + 1 \in 1 .. Len(ends)
    BY <1>2, <1>b DEF ReaderInv
  <2>4. field' = "message" => Len(out') + 1 \in DOMAIN ends' /\ size' = ends'[Len(out') + 1] - From'
    BY <1>2, <1>3, <1>a, <1>b, <2>2, <2>3 DEF ReaderInv
  <2>5. Len(out') <= Len(ends')
    BY <1>2, <1>3, <1>a, <1>b, <2>1 DEF ReaderInv
  <2>6. Piece(From, offset)' = Piece(From, offset)
    BY <1>a, <2>2 DEF Piece
  <2> QED
    BY <1>a, <1>b, <2>2, <2>4, <2>5, <2>6 DEF ReaderInv
<1> QED
  BY <1>6, <1>7, <1>8 DEF FileIInv

\* A read extends the buffer by the bytes that follow in the stream.
LEMMA ReadStep ==
  ASSUME FileIInv, Read
  PROVE  FileIInv'
<1>1. PICK n \in 1 .. Rest : offset + n <= visible /\ got' = Filled(Piece(offset, offset + n)) /\ offset' = offset + n
  BY DEF Read
<1>a. UNCHANGED <<ends, visible, watch, field, size, out, stop>>
  BY DEF Read
<1>b. FileTypeOK /\ StreamInv /\ ReaderInv
  BY DEF FileIInv
<1>2. /\ From \in Nat /\ offset \in Nat /\ visible \in Nat /\ Len(got) \in Nat /\ size \in Nat
      /\ offset = From + Len(got) /\ visible <= Written /\ Written \in Nat
  BY ReaderFacts
<1>3. n \in Nat /\ Len(got) + n <= size
  BY <1>1, <1>2 DEF Rest
<1>4. got = Piece(From, offset)
  BY <1>b DEF ReaderInv
<1> DEFINE e == offset + n
<1>c. From <= offset /\ offset <= e /\ From <= e /\ e \in Nat /\ e <= visible /\ e - From = Len(got) + n
  BY <1>1, <1>2, <1>3
<1>d. got' = got \o Piece(offset, e) /\ offset' = e
  BY <1>1 DEF Filled
<1> HIDE DEF e
<1>5. got' = Piece(From, e)
  <2>1. Piece(From, offset) \o Piece(offset, e) = Piece(From, e)
    BY <1>2, <1>c, PieceConcat
  <2> QED
    BY <1>4, <1>d, <2>1, Zenon
<1>6. got' \in Seq(1 .. visible) /\ Len(got') = Len(got) + n
  <2>1. Len(got') = e - From
    BY <1>2, <1>5, <1>c, PieceLen
  <2> QED
    BY <1>2, <1>5, <1>c, <2>1, PieceType
<1>7. offset' \in 0 .. visible
  BY <1>2, <1>c, <1>d
<1>8. Begin(Len(out) + 1)' = Begin(Len(out) + 1) /\ Written' = Written /\ From' = From
  BY <1>a DEF Begin, Written, From
<1>9. FileTypeOK'
  <2>1. Len(got') <= size
    BY <1>3, <1>6
  <2> QED
    BY <1>6, <1>7, <1>8, <1>a, <1>b, <2>1 DEF FileTypeOK
<1>10. StreamInv'
  BY <1>a, <1>b DEF StreamInv, Begin
<1>11. ReaderInv'
  <2>1. offset' = From' + Len(got')
    BY <1>2, <1>3, <1>6, <1>8, <1>c, <1>d
  <2>2. got' = Piece(From, offset)'
    BY <1>5, <1>8, <1>d DEF Piece
  <2> QED
    BY <1>8, <1>a, <1>b, <2>1, <2>2 DEF ReaderInv
<1> QED
  BY <1>9, <1>10, <1>11 DEF FileIInv

\* A tag that is complete is the one of the next message.
LEMMA TagRead ==
  ASSUME FileIInv, field = "tag", Len(got) = size
  PROVE  /\ Len(out) + 1 \in DOMAIN ends
         /\ offset = Begin(Len(out) + 1) + TagSize
         /\ {k \in DOMAIN ends : got = Tag(k)} = {Len(out) + 1}
<1> DEFINE n == Len(out) + 1
<1>1. /\ From = Begin(n) /\ Begin(n) \in Nat /\ offset = Begin(n) + TagSize /\ got = Piece(From, offset)
  BY ReaderFacts DEF FileIInv, ReaderInv
<1>2. n \in DOMAIN ends
  BY <1>1, OnlyWritten
<1>3. got = Tag(n)
  BY <1>1 DEF Tag
<1>4. ASSUME NEW k \in DOMAIN ends, got = Tag(k) PROVE k = n
  <2>1. Begin(k) \in Nat /\ \A j \in DOMAIN ends : Begin(j) = Begin(k) => j = k
    BY Layout DEF FileIInv
  <2>2. Piece(Begin(n), Begin(n) + TagSize) = Piece(Begin(k), Begin(k) + TagSize)
    BY <1>3, <1>4 DEF Tag
  <2>3. Begin(n) = Begin(k)
    <3>1. /\ Begin(n) + TagSize \in Nat /\ Begin(k) + TagSize \in Nat
          /\ Begin(n) < Begin(n) + TagSize /\ Begin(k) <= Begin(k) + TagSize
      BY <1>1, <2>1
    <3> QED
      BY <1>1, <2>1, <2>2, <3>1, PieceEqual
  <2> QED
    BY <1>2, <2>1, <2>3
<1> QED
  BY <1>1, <1>2, <1>3, <1>4

\* So is a message.
LEMMA MessageRead ==
  ASSUME FileIInv, field = "message", Len(got) = size
  PROVE  /\ Len(out) + 1 \in DOMAIN ends
         /\ offset = ends[Len(out) + 1]
         /\ {k \in DOMAIN ends : got = Message(k)} = {Len(out) + 1}
<1> DEFINE n == Len(out) + 1
<1>1. /\ From = Begin(n) + TagSize /\ Begin(n) \in Nat /\ offset = From + Len(got) /\ got = Piece(From, offset)
      /\ n \in DOMAIN ends /\ size = ends[n] - From /\ From \in Nat
  BY ReaderFacts DEF FileIInv, ReaderInv
<1>2. ends[n] \in Nat /\ From < ends[n]
  BY <1>1, Layout DEF FileIInv
<1>3. offset = ends[n] /\ got = Message(n)
  <2> HIDE DEF n
  <2>1. offset = ends[n]
    BY <1>1, <1>2
  <2> QED BY <1>1, <2>1 DEF Message
<1>4. ASSUME NEW k \in DOMAIN ends, got = Message(k) PROVE k = n
  <2>1. /\ Begin(k) \in Nat /\ ends[k] \in Nat /\ Begin(k) + TagSize < ends[k]
        /\ \A j \in DOMAIN ends : Begin(j) = Begin(k) => j = k
    BY Layout DEF FileIInv
  <2>2. Piece(From, ends[n]) = Piece(Begin(k) + TagSize, ends[k])
    BY <1>1, <1>3, <1>4 DEF Message
  <2>3. From = Begin(k) + TagSize
    <3>1. Begin(k) + TagSize \in Nat /\ Begin(k) + TagSize <= ends[k]
      BY <2>1
    <3> QED
      BY <1>1, <1>2, <2>1, <2>2, <3>1, PieceEqual
  <2>4. Begin(n) = Begin(k)
    <3> HIDE DEF n
    <3>1. Begin(n) + TagSize = Begin(k) + TagSize /\ Begin(n) \in Nat /\ Begin(k) \in Nat /\ TagSize \in Nat
      BY <1>1, <2>1, <2>3
    <3> QED BY <3>1
  <2> QED
    BY <1>1, <2>1, <2>4
<1> QED
  BY <1>1, <1>3, <1>4

\* A complete tag is replaced by the message it announces (read_to_buf returns
\* and the buffer is resized).
LEMMA ReadTagStep ==
  ASSUME FileIInv, ReadTag
  PROVE  FileIInv'
<1> DEFINE n == Len(out) + 1
<1>a. /\ UNCHANGED <<ends, visible, watch, offset, out, stop>>
      /\ field' = "message" /\ got' = <<>> /\ field = "tag" /\ Len(got) = size
  BY DEF ReadTag
<1>b. FileTypeOK /\ StreamInv /\ ReaderInv
  BY DEF FileIInv
<1>1. n \in DOMAIN ends /\ offset = Begin(n) + TagSize
  BY <1>a, TagRead
<1>2. size' = Len(Message(n))
  <2>1. {k \in DOMAIN ends : got = Tag(k)} = {n}
    BY <1>a, TagRead
  <2> HIDE DEF n
  <2> QED
    BY <2>1 DEF ReadTag
<1>3. /\ Begin(n) \in Nat /\ ends[n] \in Nat
      /\ Begin(n) + TagSize < ends[n] /\ ends[n] - (Begin(n) + TagSize) <= MaxSize
  BY <1>1, Layout DEF FileIInv
<1>4. size' = ends[n] - (Begin(n) + TagSize) /\ size' \in 0 .. TagSize + MaxSize
  <2>1. Begin(n) + TagSize \in Nat /\ Begin(n) + TagSize <= ends[n]
    BY <1>3
  <2>2. size' = ends[n] - (Begin(n) + TagSize)
    BY <1>2, <1>3, <2>1, PieceLen DEF Message
  <2> QED
    BY <1>3, <2>2
<1>5. Begin(n)' = Begin(n) /\ Written' = Written
  BY <1>a DEF Begin, Written
<1>6. FileTypeOK'
  <2>1. got' \in Seq(1 .. visible') /\ Len(got') <= size'
    BY <1>4, <1>a
  <2> QED
    BY <1>4, <1>5, <1>a, <1>b, <2>1 DEF FileTypeOK
<1>7. StreamInv'
  BY <1>a, <1>b DEF StreamInv, Begin
<1>8. From' = Begin(n) + TagSize
  BY <1>5, <1>a DEF From
<1>9. got' = Piece(From, offset)' /\ offset' = From' + Len(got')
  <2>1. From' = offset /\ offset' = offset /\ offset \in Nat
    BY <1>1, <1>3, <1>8, <1>a
  <2>2. Piece(offset, offset) = <<>>
    <3>1. Piece(offset, offset) \in Seq(Nat) /\ Len(Piece(offset, offset)) = 0
      BY <2>1, PieceType, PieceLen
    <3> QED
      BY <3>1, EmptySeq
  <2>3. Piece(From, offset)' = Piece(offset, offset)
    BY <2>1 DEF Piece
  <2>4. Len(got') = 0
    BY <1>a
  <2> QED
    BY <1>a, <2>1, <2>2, <2>3, <2>4
<1>10. ReaderInv'
  BY <1>1, <1>4, <1>8, <1>9, <1>a, <1>b DEF ReaderInv
<1> QED
  BY <1>6, <1>7, <1>10 DEF FileIInv

\* A complete message is delivered whole, and the next tag is expected.
LEMMA ReadMessageStep ==
  ASSUME FileIInv, ReadMessage
  PROVE  FileIInv'
<1> DEFINE n == Len(out) + 1
<1>a. /\ UNCHANGED <<ends, visible, watch, offset>>
      /\ field' = "tag" /\ size' = TagSize /\ got' = <<>> /\ field = "message" /\ Len(got) = size
  BY DEF ReadMessage
<1>b. FileTypeOK /\ StreamInv /\ ReaderInv
  BY DEF FileIInv
<1>c. Len(out) \in Nat /\ Len(ends) \in Nat /\ DOMAIN ends = 1 .. Len(ends)
      /\ out \in Seq(DOMAIN ends) /\ DOMAIN out = 1 .. Len(out)
  BY <1>b, ReaderFacts, LenProperties DEF FileTypeOK
<1>1. n \in DOMAIN ends /\ offset = ends[n]
  BY <1>a, MessageRead
<1>2. out' = Append(out, n) /\ stop' = stop
  <2>1. {k \in DOMAIN ends : got = Message(k)} = {n}
    BY <1>a, MessageRead
  <2> HIDE DEF n
  <2> QED
    BY <2>1 DEF ReadMessage
<1>3. /\ out' \in Seq(DOMAIN ends) /\ Len(out') = n /\ DOMAIN out' = 1 .. n
      /\ \A i \in 1 .. Len(out) : out'[i] = out[i]
      /\ out'[n] = n
  BY <1>1, <1>2, <1>c
<1>4. Written' = Written /\ ends[n] \in Nat
  BY <1>1, <1>a, Layout DEF Written, FileIInv
<1>5. FileTypeOK'
  <2>1. got' \in Seq(1 .. visible') /\ Len(got') <= size' /\ size' \in 0 .. TagSize + MaxSize
    BY <1>a
  <2> QED
    BY <1>2, <1>3, <1>4, <1>a, <1>b, <2>1 DEF FileTypeOK
<1>6. StreamInv'
  BY <1>a, <1>b DEF StreamInv, Begin
<1>7. From' = ends[n]
  <2>1. Begin(Len(out) + 1)' = ends[n]
    <3>1. n + 1 # 1 /\ n + 1 - 1 = n
      BY <1>c
    <3> QED
      BY <1>3, <1>a, <3>1 DEF Begin
  <2> QED
    BY <1>4, <1>a, <2>1 DEF From
<1>8. got' = Piece(From, offset)' /\ offset' = From' + Len(got')
  <2>1. From' = offset /\ offset' = offset /\ offset \in Nat
    BY <1>1, <1>4, <1>7, <1>a
  <2>2. Piece(offset, offset) = <<>>
    <3>1. Piece(offset, offset) \in Seq(Nat) /\ Len(Piece(offset, offset)) = 0
      BY <2>1, PieceType, PieceLen
    <3> QED
      BY <3>1, EmptySeq
  <2>3. Piece(From, offset)' = Piece(offset, offset)
    BY <2>1 DEF Piece
  <2>4. Len(got') = 0
    BY <1>a
  <2> QED
    BY <1>a, <2>1, <2>2, <2>3, <2>4
<1>9. Len(out') <= Len(ends') /\ \A i \in DOMAIN out' : out'[i] = i
  <2>1. \A i \in 1 .. n : i \in 1 .. Len(out) \/ i = n
    BY <1>c
  <2>2. \A i \in 1 .. Len(out) : out[i] = i
    BY <1>b, <1>c DEF ReaderInv
  <2>3. n <= Len(ends)
    BY <1>1, <1>c
  <2> QED
    BY <1>3, <1>a, <2>1, <2>2, <2>3
<1>10. ReaderInv'
  BY <1>2, <1>8, <1>9, <1>a, <1>b DEF ReaderInv
<1> QED
  BY <1>5, <1>6, <1>10 DEF FileIInv

\* Every step of writer and reader keeps the invariant.
LEMMA FileNextInv == FileIInv /\ [FileNext]_fileVars => FileIInv'
<1> SUFFICES ASSUME FileIInv, [FileNext]_fileVars PROVE FileIInv'
  OBVIOUS
<1>1. CASE Appear
  <2>1. PICK v \in visible + 1 .. Written : visible' = v
    BY <1>1 DEF Appear
  <2>2. UNCHANGED <<ends, watch, offset, field, size, got, out, stop>>
    BY <1>1 DEF Appear, readerVars
  <2>3. visible \in Nat /\ Written \in Nat /\ offset \in Nat /\ offset <= visible
    BY ReaderFacts
  <2>4. Written' = Written /\ From' = From /\ StreamInv'
    BY <2>2 DEF Written, From, Begin, StreamInv, FileIInv
  <2>5. visible' \in 0 .. Written' /\ offset' \in 0 .. visible' /\ 1 .. visible \subseteq 1 .. visible'
    BY <2>1, <2>2, <2>3, <2>4
  <2>6. got' \in Seq(1 .. visible')
    BY <2>2, <2>5, SeqMonotonic DEF FileIInv, FileTypeOK
  <2>7. FileTypeOK'
    BY <2>2, <2>4, <2>5, <2>6 DEF FileIInv, FileTypeOK
  <2>8. ReaderInv'
    BY <2>2, <2>4 DEF FileIInv, ReaderInv, Piece
  <2> QED
    BY <2>4, <2>7, <2>8 DEF FileIInv
<1>2. CASE Eof \/ Timeout \/ UNCHANGED fileVars
  <2>1. UNCHANGED <<ends, visible, watch, offset, field, size, got, out>> /\ stop' \in {stop, "eof", "timeout"}
    BY <1>2 DEF Eof, Timeout, fileVars, readerVars
  <2>2. Written' = Written /\ From' = From /\ StreamInv'
    BY <2>1 DEF Written, From, Begin, StreamInv, FileIInv
  <2>3. FileTypeOK'
    BY <2>1, <2>2 DEF FileIInv, FileTypeOK
  <2>4. ReaderInv'
    BY <2>1, <2>2 DEF FileIInv, ReaderInv, Piece
  <2> QED
    BY <2>2, <2>3, <2>4 DEF FileIInv
<1> QED
  BY <1>1, <1>2, WriteStep, ReadStep, ReadTagStep, ReadMessageStep DEF FileNext

-----------------------------------------------------------------------------
(* The theorems.                                                           *)

\* The invariant of the reader holds whatever pieces the file arrives in.
LEMMA FileInvariance == FileSpec => []FileIInv
  BY FileInitInv, FileNextInv, PTL DEF FileSpec

\* The state keeps its types: the buffer never takes more than its size.
THEOREM FileTypeCorrect == FileSpec => []FileTypeOK
  BY FileInvariance, PTL DEF FileIInv

\* However the bytes are cut into pieces, the reader yields the messages that
\* were written, in order, and never loses its place (WriteMessage, read_retry,
\* read_message).
THEOREM PrefixRead == FileSpec => []YieldsThePrefix
<1>1. FileIInv => YieldsThePrefix
  <2> SUFFICES ASSUME FileIInv PROVE YieldsThePrefix
    OBVIOUS
  <2>1. (field = "tag" /\ got = <<>>) => offset = Begin(Len(out) + 1)
    BY ReaderFacts
  <2> QED
    BY <2>1 DEF FileIInv, ReaderInv, YieldsThePrefix
<1> QED
  BY <1>1, FileInvariance, PTL

\* Without --watch nothing that is complete in the file is left when the loop
\* ends (read_exact, main.rs: process).
THEOREM AllRead == FileSpec => PlainReadsAll
<1>1. FileIInv /\ [FileNext]_fileVars =>
        [(stop = "no" /\ stop' = "eof") => \A k \in DOMAIN ends : k > Len(out) => ends[k] > visible]_fileVars
  <2> SUFFICES ASSUME FileIInv, FileNext, stop = "no", stop' = "eof", NEW k \in DOMAIN ends, k > Len(out)
               PROVE  ends[k] > visible
    BY DEF fileVars
  <2>1. Len(got) < size /\ offset = visible
    BY DEF FileNext, WriteMessage, Appear, Read, Eof, Timeout, ReadTag, ReadMessage, readerVars, AtEof
  <2> DEFINE n == Len(out) + 1
  <2>2. /\ Len(out) \in Nat /\ Len(ends) \in Nat /\ DOMAIN ends = 1 .. Len(ends) /\ Len(got) \in Nat
        /\ Begin(n) \in Nat /\ offset = From + Len(got) /\ size \in Nat
        /\ field = "tag" => From = Begin(n)
        /\ field = "message" => From = Begin(n) + TagSize
    BY ReaderFacts
  <2>3. n \in DOMAIN ends /\ (n = k \/ n < k)
    BY <2>2
  <2>4. /\ ends[n] \in Nat /\ Begin(n) + TagSize < ends[n] /\ ends[k] \in Nat
    BY <2>3, Layout DEF FileIInv
  <2>5. offset < ends[n]
    <3>1. CASE field = "tag"
      <4>1. size = TagSize
        BY <3>1 DEF FileIInv, ReaderInv
      <4> QED
        BY <2>1, <2>2, <2>4, <3>1, <4>1
    <3>2. CASE field = "message"
      <4>1. size = ends[n] - From
        BY <3>2 DEF FileIInv, ReaderInv
      <4> QED
        BY <2>1, <2>2, <2>4, <3>2, <4>1
    <3> QED
      BY <3>1, <3>2 DEF FileIInv, FileTypeOK
  <2>6. n < k => ends[n] < ends[k]
    BY <2>3 DEF FileIInv, StreamInv
  <2>7. visible \in Nat
    BY ReaderFacts
  <2> QED
    BY <2>1, <2>3, <2>4, <2>5, <2>6, <2>7
<1> QED
  BY <1>1, FileInvariance, PTL DEF FileSpec, PlainReadsAll

-----------------------------------------------------------------------------
(***************************************************************************)
(* TraceGraph.  First trees in general: par is the parent of a node, which *)
(* is smaller, and up the nodes from the root to it.                       *)
(***************************************************************************)

\* The bounds of the other two parts play no role here.
HIDE SizesAssumption
HIDE BoundsAssumption
HIDE CapacityAssumption
HIDE TablesAssumption

Rooted(N, par, up) ==
  /\ N \in Nat
  /\ par \in [0 .. N -> 0 .. N] /\ up \in [0 .. N -> SUBSET (0 .. N)]
  /\ \A m \in 1 .. N : par[m] < m
  /\ up[0] = {0}
  /\ \A m \in 1 .. N : up[m] = up[par[m]] \cup {m}

\* What it says about a node other than the root.
LEMMA RootedNode ==
  ASSUME NEW N, NEW par, NEW up, Rooted(N, par, up)
  PROVE  \A m \in 1 .. N : par[m] \in 0 .. m - 1 /\ up[m] = up[par[m]] \cup {m}
<1>1. ASSUME NEW m \in 1 .. N PROVE par[m] \in 0 .. m - 1 /\ up[m] = up[par[m]] \cup {m}
  <2>1. N \in Nat /\ m \in 0 .. N
    BY DEF Rooted
  <2>2. par[m] \in 0 .. N /\ par[m] < m /\ up[m] = up[par[m]] \cup {m}
    BY <2>1 DEF Rooted
  <2> QED BY <2>1, <2>2
<1> QED BY <1>1

\* A node is above itself, and what is above it is smaller.
LEMMA UpBounds ==
  ASSUME NEW N, NEW par, NEW up, Rooted(N, par, up)
  PROVE  \A m \in 0 .. N : m \in up[m] /\ \A a \in up[m] : a \in 0 .. m
<1> USE DEF Rooted
<1> DEFINE T == {m \in Nat : m <= N => m \in up[m] /\ \A a \in up[m] : a \in 0 .. m}
<1>1. ASSUME NEW m \in Nat, \A i \in 0 .. m - 1 : i \in T PROVE m \in T
  <2> SUFFICES ASSUME m <= N PROVE m \in up[m] /\ \A a \in up[m] : a \in 0 .. m
    OBVIOUS
  <2>1. CASE m = 0
    BY <2>1
  <2>2. CASE m # 0
    <3>1. m \in 1 .. N /\ par[m] \in 0 .. m - 1 /\ up[m] = up[par[m]] \cup {m}
      BY <2>2
    <3>2. \A a \in up[par[m]] : a \in 0 .. par[m]
      BY <1>1, <3>1
    <3>3. m \in up[m] /\ \A a \in up[m] : a = m \/ a \in up[par[m]]
      <4> HIDE DEF Rooted, T
      <4> QED BY <3>1
    <3>4. m \in 0 .. m /\ \A a \in 0 .. par[m] : a \in 0 .. m
      <4> HIDE DEF Rooted, T
      <4> QED BY <3>1
    <3> HIDE DEF Rooted, T
    <3> QED BY <3>2, <3>3, <3>4
  <2> QED BY <2>1, <2>2
<1>2. \A m \in Nat : m \in T
  <2> HIDE DEF T
  <2> QED BY <1>1, StrongInduction
<1> QED BY <1>2

\* What is above a node above m is above m.
LEMMA UpTransitive ==
  ASSUME NEW N, NEW par, NEW up, Rooted(N, par, up)
  PROVE  \A m \in 0 .. N : \A a \in up[m] : up[a] \subseteq up[m]
<1> DEFINE T == {m \in Nat : m <= N => \A a \in up[m] : up[a] \subseteq up[m]}
<1>0. N \in Nat
  BY DEF Rooted
<1>1. ASSUME NEW m \in Nat, \A i \in 0 .. m - 1 : i \in T PROVE m \in T
  <2> SUFFICES ASSUME m <= N, NEW a \in up[m] PROVE up[a] \subseteq up[m]
    OBVIOUS
  <2>1. CASE a = m
    BY <2>1
  <2>2. CASE a # m /\ m = 0
    BY <2>2 DEF Rooted
  <2>3. CASE a # m /\ m # 0
    <3>1. m \in 1 .. N /\ par[m] \in 0 .. m - 1 /\ up[m] = up[par[m]] \cup {m}
      <4>1. m \in 1 .. N
        BY <1>0, <2>3
      <4> HIDE DEF T
      <4> QED BY <4>1, RootedNode
    <3>2. a \in up[par[m]] /\ par[m] \in T /\ par[m] <= N
      <4>1. par[m] \in T
        <5> HIDE DEF T
        <5> QED BY <1>1, <3>1
      <4> QED BY <1>0, <2>3, <3>1, <4>1
    <3> QED BY <3>1, <3>2
  <2> QED BY <2>1, <2>2, <2>3
<1>2. \A m \in Nat : m \in T
  <2> HIDE DEF T
  <2> QED BY <1>1, StrongInduction
<1> QED BY <1>0, <1>2

\* Of two nodes above m, the smaller one is above the other.
LEMMA UpLinear ==
  ASSUME NEW N, NEW par, NEW up, Rooted(N, par, up)
  PROVE  \A m \in 0 .. N : \A a \in up[m], b \in up[m] : a <= b => a \in up[b]
<1> DEFINE T == {m \in Nat : m <= N => \A a \in up[m], b \in up[m] : a <= b => a \in up[b]}
<1>0. N \in Nat
  BY DEF Rooted
<1>3. \A m \in 1 .. N : par[m] \in 0 .. m - 1 /\ up[m] = up[par[m]] \cup {m}
  BY DEF Rooted
<1>1. ASSUME NEW m \in Nat, \A i \in 0 .. m - 1 : i \in T PROVE m \in T
  <2> SUFFICES ASSUME m <= N, NEW a \in up[m], NEW b \in up[m], a <= b PROVE a \in up[b]
    OBVIOUS
  <2>1. CASE b = m
    BY <2>1
  <2>2. CASE b # m /\ m = 0
    BY <2>2 DEF Rooted
  <2>3. CASE b # m /\ m # 0
    <3>1. m \in 1 .. N /\ par[m] \in 0 .. m - 1 /\ up[m] = up[par[m]] \cup {m}
      <4>1. m \in 1 .. N
        BY <1>0, <2>3
      <4> QED BY <1>3, <4>1, Zenon
    <3>2. b \in 0 .. m /\ a \in 0 .. m
      <4>1. m \in 0 .. N
        BY <1>0
      <4> QED BY <4>1, UpBounds
    <3>3. a \in up[par[m]] /\ b \in up[par[m]] /\ par[m] \in T /\ par[m] <= N
      <4>1. par[m] \in T
        <5> HIDE DEF T
        <5> QED BY <1>1, <3>1
      <4> QED BY <1>0, <2>3, <3>1, <3>2, <4>1
    <3> QED BY <3>3
  <2> QED BY <2>1, <2>2, <2>3
<1>2. \A m \in Nat : m \in T
  <2> HIDE DEF T
  <2> QED BY <1>1, StrongInduction
<1> QED BY <1>0, <1>2

\* A node above m, other than m, has one child above m.
LEMMA UpChild ==
  ASSUME NEW N, NEW par, NEW up, Rooted(N, par, up)
  PROVE  \A m \in 0 .. N : \A a \in up[m] :
           a # m => \E c \in 1 .. N : par[c] = a /\ c \in up[m]
<1> DEFINE T == {m \in Nat : m <= N => \A a \in up[m] :
                                a # m => \E c \in 1 .. N : par[c] = a /\ c \in up[m]}
<1>0. N \in Nat
  BY DEF Rooted
<1>1. ASSUME NEW m \in Nat, \A i \in 0 .. m - 1 : i \in T PROVE m \in T
  <2> SUFFICES ASSUME m <= N, NEW a \in up[m], a # m
               PROVE  \E c \in 1 .. N : par[c] = a /\ c \in up[m]
    OBVIOUS
  <2>1. m # 0
    BY DEF Rooted
  <2>2. m \in 1 .. N /\ par[m] \in 0 .. m - 1 /\ up[m] = up[par[m]] \cup {m}
    <3> HIDE DEF T
    <3>1. m \in 1 .. N
      BY <1>0, <2>1
    <3> QED BY <3>1, RootedNode
  <2>3. CASE a = par[m]
    BY <2>2, <2>3
  <2>4. CASE a # par[m]
    <3>1. a \in up[par[m]] /\ par[m] \in T /\ par[m] <= N
      <4>1. par[m] \in T
        <5> HIDE DEF T
        <5> QED BY <1>1, <2>2
      <4> QED BY <1>0, <2>2, <4>1
    <3>2. PICK c \in 1 .. N : par[c] = a /\ c \in up[par[m]]
      BY <2>4, <3>1
    <3> QED BY <2>2, <3>2
  <2> QED BY <2>3, <2>4
<1>2. \A m \in Nat : m \in T
  <2> HIDE DEF T
  <2> QED BY <1>1, StrongInduction
<1> QED BY <1>0, <1>2

\* A path goes through one child of a node at most.
LEMMA UpOneChild ==
  ASSUME NEW N, NEW par, NEW up, Rooted(N, par, up),
         NEW m \in 0 .. N, NEW c \in 1 .. N, NEW d \in 1 .. N, par[c] = par[d], c \in up[m], d \in up[m]
  PROVE  ~ (c < d)
<1> SUFFICES ASSUME c < d PROVE FALSE
  OBVIOUS
<1>1. c \in up[d]
  <2>1. c <= d
    OBVIOUS
  <2> QED BY <2>1, UpLinear
<1>2. up[d] = up[par[d]] \cup {d} /\ par[c] < c /\ par[c] \in 0 .. N /\ N \in Nat
  BY DEF Rooted
<1>3. c \in up[par[c]]
  BY <1>1, <1>2
<1>4. c \in 0 .. par[c]
  BY <1>2, <1>3, UpBounds
<1> QED BY <1>2, <1>4

-----------------------------------------------------------------------------
(* The trees of the graph.                                                 *)

NodeRecord == [key : Nat, parent : Nat, level : Nat, leaf : BOOLEAN, first : BOOLEAN,
               self : Int, total : Int]
Chain(ns) ==
  /\ ns \in Seq(NodeRecord) /\ Len(ns) > 0
  /\ ns[1].parent = 0
  /\ \A m \in 1 .. Len(ns) - 1 : ns[m + 1].parent \in 0 .. m - 1

ParentOf(ns) == [m \in 0 .. Len(ns) - 1 |-> ns[m + 1].parent]
AboveOf(ns) == [m \in 0 .. Len(ns) - 1 |-> ToSet(Backtrace(ns, m))]

\* Backtrace walks from a node to the root.
LEMMA BacktraceFacts ==
  ASSUME NEW ns, Chain(ns)
  PROVE  /\ Backtrace(ns, 0) = <<0>>
         /\ \A m \in 1 .. Len(ns) - 1 : Backtrace(ns, m) = Append(Backtrace(ns, ns[m + 1].parent), m)
         /\ \A m \in 0 .. Len(ns) - 1 : Backtrace(ns, m) \in Seq(0 .. Len(ns) - 1)
<1> DEFINE N == Len(ns) - 1
           D == 0 .. N
           S == Seq(D)
           rank == [m \in D |-> m]
           base == [m \in D |-> <<0>>]
           next == [m \in D |-> ns[m + 1].parent]
           step == [m \in D |-> [s \in S |-> Append(s, m)]]
           Eqn(f) == f = [m \in D |-> IF m = 0 THEN <<0>> ELSE Append(f[ns[m + 1].parent], m)]
<1>1. N \in Nat /\ 0 \in D
  BY DEF Chain
<1>2. \A m \in D : ns[m + 1].parent \in D /\ (m # 0 => ns[m + 1].parent < m)
  <2>1. ASSUME NEW m \in D PROVE ns[m + 1].parent \in D /\ (m # 0 => ns[m + 1].parent < m)
    <3>1. CASE m = 0
      BY <1>1, <3>1 DEF Chain
    <3>2. CASE m # 0
      <4>1. m \in 1 .. Len(ns) - 1
        BY <1>1, <3>2
      <4> QED BY <1>1, <4>1 DEF Chain
    <3> QED BY <3>1, <3>2
  <2> QED BY <2>1
<1>3. Recursion(D, S, N, rank, base, next, step)
  <2>1. rank \in [D -> 0 .. N] /\ next \in [D -> D]
    <3> HIDE DEF N
    <3> QED BY <1>2
  <2>2. base \in [D -> S]
    <3>1. <<0>> \in S
      BY <1>1
    <3> HIDE DEF S, D
    <3> QED BY <3>1
  <2>3. step \in [D -> [S -> S]]
    <3>1. \A m \in D, s \in S : Append(s, m) \in S
      <4> HIDE DEF D
      <4> QED OBVIOUS
    <3> HIDE DEF S, D
    <3> QED BY <3>1
  <2>4. \A m \in D : rank[m] > 0 => rank[next[m]] < rank[m]
    <3> HIDE DEF N
    <3> QED BY <1>2
  <2> HIDE DEF D, S, rank, base, next, step, N
  <2> QED BY <1>1, <2>1, <2>2, <2>3, <2>4 DEF Recursion, N
<1>4. \E f : Eqn(f) /\ f \in [D -> S]
  <2> HIDE DEF rank, base, next, step, N, S
  <2>1. PICK f : Solves(f, D, S, rank, base, next, step)
    BY <1>3, RecursiveFunction
  <2>2. f \in [D -> S]
    BY <2>1 DEF Solves
  <2>3. ASSUME NEW m \in D PROVE f[m] = IF m = 0 THEN <<0>> ELSE Append(f[ns[m + 1].parent], m)
    <3> HIDE DEF D
    <3>1. f[m] = IF rank[m] = 0 THEN base[m] ELSE step[m][f[next[m]]]
      BY <2>1 DEF Solves
    <3>2. rank[m] = m /\ base[m] = <<0>> /\ next[m] = ns[m + 1].parent
      BY DEF rank, base, next
    <3>3. f[next[m]] \in S
      BY <1>2, <2>2, <3>2
    <3>4. step[m][f[next[m]]] = Append(f[next[m]], m)
      BY <3>3 DEF step
    <3> QED BY <3>1, <3>2, <3>4
  <2>4. Eqn(f)
    <3> HIDE DEF D
    <3> QED BY <2>2, <2>3
  <2> QED BY <2>2, <2>4
<1> DEFINE g == CHOOSE f : Eqn(f)
<1>5. Eqn(g)
  <2> HIDE DEF Eqn
  <2> QED BY <1>4
<1>6. ASSUME NEW n PROVE Backtrace(ns, n) = g[n]
  BY DEF Backtrace, NodeIds
<1> HIDE DEF g
<1>7. g[0] = <<0>> /\ \A m \in D : m # 0 => g[m] = Append(g[ns[m + 1].parent], m)
  <2>1. ASSUME NEW f, Eqn(f)
        PROVE  f[0] = <<0>> /\ \A m \in D : m # 0 => f[m] = Append(f[ns[m + 1].parent], m)
    <3> HIDE DEF D
    <3> QED BY <1>1, <2>1
  <2> HIDE DEF Eqn
  <2> QED BY <1>5, <2>1
<1>8. \A m \in D : g[m] \in S
  <2> DEFINE T == {m \in Nat : m <= N => g[m] \in S}
  <2>1. ASSUME NEW m \in Nat, \A i \in 0 .. m - 1 : i \in T PROVE m \in T
    <3> SUFFICES ASSUME m <= N PROVE g[m] \in S
      OBVIOUS
    <3>1. m \in D
      <4> HIDE DEF N
      <4> QED BY <1>1
    <3>2. CASE m = 0
      <4>1. <<0>> \in S
        BY <1>1
      <4> QED BY <1>7, <3>2, <4>1
    <3>3. CASE m # 0
      <4> DEFINE p == ns[m + 1].parent
      <4>1. p \in D /\ p < m
        BY <1>2, <3>1, <3>3
      <4> HIDE DEF p
      <4>2. p \in 0 .. m - 1 /\ p <= N
        <5> HIDE DEF N
        <5> QED BY <4>1, <1>1
      <4>3. p \in T
        <5> HIDE DEF T
        <5> QED BY <2>1, <4>2
      <4>4. g[p] \in S
        BY <4>2, <4>3
      <4>5. g[m] = Append(g[p], m)
        BY <1>7, <3>1, <3>3 DEF p
      <4> HIDE DEF D
      <4> QED BY <3>1, <4>4, <4>5
    <3> QED BY <3>2, <3>3
  <2>2. \A m \in Nat : m \in T
    <3> HIDE DEF T
    <3> QED BY <2>1, StrongInduction
  <2>3. ASSUME NEW m \in D PROVE g[m] \in S
    <3>1. m \in Nat /\ m <= N
      <4> HIDE DEF N
      <4> QED BY <1>1
    <3> QED BY <2>2, <3>1
  <2> QED BY <2>3
<1>9. ASSUME NEW m \in 1 .. Len(ns) - 1
      PROVE  Backtrace(ns, m) = Append(Backtrace(ns, ns[m + 1].parent), m)
  <2>1. m \in D /\ m # 0
    BY <1>1
  <2>2. g[m] = Append(g[ns[m + 1].parent], m)
    BY <1>7, <2>1
  <2> QED BY <1>6, <2>2
<1>10. ASSUME NEW m \in 0 .. Len(ns) - 1 PROVE Backtrace(ns, m) \in Seq(0 .. Len(ns) - 1)
  <2>1. m \in D
    OBVIOUS
  <2>2. g[m] \in S
    BY <1>8, <2>1
  <2>3. Backtrace(ns, m) = g[m]
    BY <1>6
  <2> QED BY <2>2, <2>3
<1> QED BY <1>6, <1>7, <1>9, <1>10

\* The elements of a sequence with one more.
LEMMA ToSetAppend ==
  ASSUME NEW S, NEW s \in Seq(S), NEW x
  PROVE  ToSet(Append(s, x)) = ToSet(s) \cup {x}
<1> DEFINE t == Append(s, x)
<1>1. /\ DOMAIN s = 1 .. Len(s) /\ DOMAIN t = 1 .. Len(s) + 1 /\ Len(s) \in Nat
      /\ t[Len(s) + 1] = x /\ \A i \in 1 .. Len(s) : t[i] = s[i]
  OBVIOUS
<1> HIDE DEF t
<1>2. ToSet(t) \subseteq ToSet(s) \cup {x}
  BY <1>1 DEF ToSet
<1>3. ToSet(s) \cup {x} \subseteq ToSet(t)
  BY <1>1 DEF ToSet
<1>4. ToSet(t) = ToSet(s) \cup {x}
  BY <1>2, <1>3
<1> QED BY <1>4 DEF t

\* So the nodes of the graph are a tree.
LEMMA ChainRooted ==
  ASSUME NEW ns, Chain(ns)
  PROVE  Rooted(Len(ns) - 1, ParentOf(ns), AboveOf(ns))
<1> DEFINE N == Len(ns) - 1
           D == 0 .. N
<1>1. N \in Nat /\ 0 \in D
  BY DEF Chain
<1>2. \A m \in 1 .. N : ns[m + 1].parent \in 0 .. m - 1
  BY DEF Chain
<1>3. ParentOf(ns) \in [D -> D]
  <2>1. \A m \in D : ns[m + 1].parent \in D
    <3>1. ns[0 + 1].parent = 0
      BY DEF Chain
    <3> HIDE DEF N
    <3> QED BY <1>1, <1>2, <3>1
  <2> HIDE DEF D
  <2>2. ParentOf(ns) = [m \in D |-> ns[m + 1].parent]
    BY DEF ParentOf, D
  <2> QED BY <2>1, <2>2
<1>4. AboveOf(ns) \in [D -> SUBSET D]
  <2>1. \A m \in D : ToSet(Backtrace(ns, m)) \in SUBSET D
    <3>1. \A m \in D : Backtrace(ns, m) \in Seq(D)
      BY BacktraceFacts
    <3> HIDE DEF D
    <3> QED BY <3>1 DEF ToSet
  <2>2. AboveOf(ns) = [m \in D |-> ToSet(Backtrace(ns, m))]
    BY DEF AboveOf
  <2> HIDE DEF D
  <2> QED BY <2>1, <2>2
<1>5. AboveOf(ns)[0] = {0}
  <2>1. AboveOf(ns)[0] = ToSet(<<0>>)
    BY <1>1, BacktraceFacts DEF AboveOf
  <2> QED BY <2>1 DEF ToSet
<1>6. ASSUME NEW m \in 1 .. N
      PROVE  /\ ParentOf(ns)[m] < m
             /\ AboveOf(ns)[m] = AboveOf(ns)[ParentOf(ns)[m]] \cup {m}
  <2> DEFINE p == ns[m + 1].parent
             b == Backtrace(ns, p)
  <2>1. m \in D /\ p \in 0 .. m - 1 /\ p \in D
    BY <1>1, <1>2
  <2>2. ParentOf(ns)[m] = p
    BY <2>1 DEF ParentOf
  <2>3. Backtrace(ns, m) = Append(b, m)
    BY BacktraceFacts
  <2>4. AboveOf(ns)[m] = ToSet(Append(b, m)) /\ AboveOf(ns)[p] = ToSet(b)
    <3> HIDE DEF p
    <3> QED BY <2>1, <2>3 DEF AboveOf
  <2>5. b \in Seq(D)
    <3> HIDE DEF p
    <3> QED BY <2>1, BacktraceFacts
  <2>6. ToSet(Append(b, m)) = ToSet(b) \cup {m}
    <3> HIDE DEF b, D
    <3> QED BY <2>1, <2>5, ToSetAppend
  <2> HIDE DEF p, b
  <2> QED BY <2>1, <2>2, <2>4, <2>6
<1> QED BY <1>1, <1>3, <1>4, <1>5, <1>6 DEF Rooted

\* A tree that has grown has the paths it had.
Grown(ns, n2) ==
  /\ Len(ns) <= Len(n2)
  /\ \A m \in 0 .. Len(ns) - 1 : n2[m + 1].parent = ns[m + 1].parent /\ n2[m + 1].key = ns[m + 1].key

\* Growing the graph leaves the paths to the nodes it had as they were.
LEMMA SamePaths ==
  ASSUME NEW ns, Chain(ns), NEW n2, Chain(n2), Grown(ns, n2)
  PROVE  \A m \in 0 .. Len(ns) - 1 : Backtrace(n2, m) = Backtrace(ns, m) /\ PathTo(n2, m) = PathTo(ns, m)
<1> DEFINE N == Len(ns) - 1
           T == {m \in Nat : m <= N => Backtrace(n2, m) = Backtrace(ns, m)}
<1>1. N \in Nat /\ Len(n2) \in Nat /\ N <= Len(n2) - 1
  BY DEF Chain, Grown
<1>2. ASSUME NEW m \in Nat, \A i \in 0 .. m - 1 : i \in T PROVE m \in T
  <2> SUFFICES ASSUME m <= N PROVE Backtrace(n2, m) = Backtrace(ns, m)
    OBVIOUS
  <2>1. CASE m = 0
    BY <2>1, BacktraceFacts
  <2>2. CASE m # 0
    <3> DEFINE p == ns[m + 1].parent
    <3>1. m \in 1 .. N /\ m \in 0 .. N /\ m \in 1 .. Len(n2) - 1
      <4> HIDE DEF N
      <4> QED BY <1>1, <2>2
    <3>2. p \in 0 .. m - 1 /\ n2[m + 1].parent = p
      BY <3>1 DEF Chain, Grown
    <3>3. Backtrace(ns, m) = Append(Backtrace(ns, p), m) /\ Backtrace(n2, m) = Append(Backtrace(n2, p), m)
      BY <3>1, <3>2, BacktraceFacts
    <3> HIDE DEF p
    <3>4. p \in T /\ p <= N
      <4>1. p \in T
        <5> HIDE DEF T
        <5> QED BY <1>2, <3>2
      <4> HIDE DEF N
      <4> QED BY <1>1, <3>1, <3>2, <4>1
    <3>5. Backtrace(n2, p) = Backtrace(ns, p)
      BY <3>4
    <3> QED BY <3>3, <3>5
  <2> QED BY <2>1, <2>2
<1>3. \A m \in Nat : m \in T
  <2> HIDE DEF T
  <2> QED BY <1>2, StrongInduction
<1>4. ASSUME NEW m \in 0 .. Len(ns) - 1
      PROVE  Backtrace(n2, m) = Backtrace(ns, m) /\ PathTo(n2, m) = PathTo(ns, m)
  <2>1. m \in Nat /\ m <= N
    BY <1>1
  <2>2. Backtrace(n2, m) = Backtrace(ns, m)
    BY <1>3, <2>1
  <2> DEFINE b == Backtrace(ns, m)
  <2>3. b \in Seq(0 .. Len(ns) - 1)
    BY BacktraceFacts
  <2>4. PathTo(n2, m) = [i \in DOMAIN b |-> n2[b[i] + 1].key] /\ PathTo(ns, m) = [i \in DOMAIN b |-> ns[b[i] + 1].key]
    BY <2>2 DEF PathTo
  <2> HIDE DEF b
  <2>5. \A i \in DOMAIN b : n2[b[i] + 1].key = ns[b[i] + 1].key
    <3>1. ASSUME NEW i \in DOMAIN b PROVE b[i] \in 0 .. Len(ns) - 1
      <4> DEFINE D == 0 .. Len(ns) - 1
      <4>1. b \in Seq(D)
        BY <2>3
      <4>2. b[i] \in D
        <5> HIDE DEF D
        <5> QED BY <4>1
      <4> QED BY <4>2
    <3> QED BY <3>1 DEF Grown
  <2>6. PathTo(n2, m) = PathTo(ns, m)
    BY <2>4, <2>5
  <2> QED BY <2>2, <2>6
<1> QED BY <1>4

-----------------------------------------------------------------------------
(* The nodes below a node, in parts.                                       *)

Down(N, up, c) == {m \in 0 .. N : c \in up[m]}
Downs(N, up, C) == [c \in C |-> Down(N, up, c)]
AllDown(N, up, C) == AllParts(Downs(N, up, C), C)
Children(N, par, p) == {c \in 1 .. N : par[c] = p}

\* A subtree is its root and the subtrees of its children.
LEMMA ChildParts ==
  ASSUME NEW N, NEW par, NEW up, Rooted(N, par, up), NEW p \in 0 .. N,
         NEW C, C = Children(N, par, p)
  PROVE  /\ Parts(Downs(N, up, C), C, 0 .. N)
         /\ Down(N, up, p) = {p} \cup AllDown(N, up, C)
         /\ p \notin AllDown(N, up, C)
<1> USE DEF Children
<1>0. N \in Nat
  BY DEF Rooted
<1>1. \A c \in C : Downs(N, up, C)[c] = Down(N, up, c)
  BY DEF Downs
<1>2. Parts(Downs(N, up, C), C, 0 .. N)
  <2>1. Downs(N, up, C) \in [C -> SUBSET (0 .. N)]
    BY DEF Downs, Down
  <2>2. ASSUME NEW c \in C, NEW d \in C, c # d, NEW m \in Down(N, up, c), m \in Down(N, up, d) PROVE FALSE
    <3>1. c \in 1 .. N /\ d \in 1 .. N /\ par[c] = par[d] /\ m \in 0 .. N /\ c \in up[m] /\ d \in up[m]
      BY <2>2 DEF Down
    <3>2. ~(c < d) /\ ~(d < c)
      BY <3>1, UpOneChild
    <3> QED BY <1>0, <2>2, <3>1, <3>2
  <2> QED BY <1>1, <2>1, <2>2 DEF Parts
<1>3. ASSUME NEW m \in Down(N, up, p), m # p PROVE \E c \in C : m \in Down(N, up, c)
  <2>1. m \in 0 .. N /\ p \in up[m]
    BY DEF Down
  <2>2. PICK c \in 1 .. N : par[c] = p /\ c \in up[m]
    BY <1>3, <2>1, UpChild
  <2> QED BY <2>1, <2>2 DEF Down
<1>4. ASSUME NEW c \in C, NEW m \in Down(N, up, c) PROVE m \in Down(N, up, p) /\ m # p
  <2>1. c \in 1 .. N /\ par[c] = p /\ m \in 0 .. N /\ c \in up[m]
    BY DEF Down
  <2>2. up[c] = up[p] \cup {c} /\ p < c /\ p \in up[p]
    <3>1. p \in up[p]
      BY UpBounds
    <3>2. up[c] = up[par[c]] \cup {c} /\ par[c] < c
      BY <2>1 DEF Rooted
    <3> QED BY <2>1, <3>1, <3>2
  <2>3. p \in up[m]
    <3>1. up[c] \subseteq up[m]
      BY <2>1, UpTransitive
    <3> QED BY <2>2, <3>1
  <2>4. c \in 0 .. m
    BY <2>1, UpBounds
  <2> QED BY <1>0, <2>1, <2>2, <2>3, <2>4 DEF Down
<1>5. p \in Down(N, up, p)
  BY UpBounds DEF Down
<1> HIDE DEF Downs
<1>6. Down(N, up, p) = {p} \cup AllDown(N, up, C)
  BY <1>1, <1>3, <1>4, <1>5 DEF AllDown, AllParts
<1>7. p \notin AllDown(N, up, C)
  BY <1>1, <1>4 DEF AllDown, AllParts
<1> QED BY <1>2, <1>6, <1>7

\* The nodes with a key on their path are the subtrees of the nodes that are
\* the first with it.
Firsts(N, up, key, F) ==
  \A m \in 0 .. N : m \in F <=> \A a \in up[m] : a # m => key[a] # key[m]

WithKey(N, up, key, k) == {m \in 0 .. N : \E a \in up[m] : key[a] = k}
FirstWith(N, key, F, k) == {c \in 0 .. N : c \in F /\ key[c] = k}

\* The nodes with frame k on their path are the disjoint union of the subtrees
\* of the first nodes with k: this is why counting at the first ones is enough.
LEMMA FirstParts ==
  ASSUME NEW N, NEW par, NEW up, Rooted(N, par, up), NEW key, NEW F, Firsts(N, up, key, F),
         NEW k, NEW C, C = FirstWith(N, key, F, k)
  PROVE  /\ Parts(Downs(N, up, C), C, 0 .. N)
         /\ AllDown(N, up, C) = WithKey(N, up, key, k)
<1> USE DEF FirstWith, WithKey
<1>0. N \in Nat
  BY DEF Rooted
<1>1. \A c \in C : Downs(N, up, C)[c] = Down(N, up, c)
  BY DEF Downs
<1>2. ASSUME NEW c \in C, NEW d \in C, NEW m \in 0 .. N, c \in up[m], d \in up[m] PROVE ~(c < d)
  <2> SUFFICES ASSUME c < d PROVE FALSE
    OBVIOUS
  <2>1. c \in 0 .. N /\ d \in 0 .. N /\ c <= d
    BY <1>0
  <2>2. c \in up[d]
    BY <1>2, <2>1, UpLinear
  <2>3. key[c] = key[d] /\ c # d /\ d \in F
    BY <2>1
  <2> QED BY <2>1, <2>2, <2>3 DEF Firsts
<1>3. Parts(Downs(N, up, C), C, 0 .. N)
  <2>1. Downs(N, up, C) \in [C -> SUBSET (0 .. N)]
    BY DEF Downs, Down
  <2>2. ASSUME NEW c \in C, NEW d \in C, c # d, NEW m \in Down(N, up, c), m \in Down(N, up, d) PROVE FALSE
    <3>1. c \in 0 .. N /\ d \in 0 .. N /\ m \in 0 .. N /\ c \in up[m] /\ d \in up[m]
      BY <2>2 DEF Down
    <3>2. ~(c < d) /\ ~(d < c)
      BY <1>2, <3>1
    <3> QED BY <1>0, <2>2, <3>1, <3>2
  <2> QED BY <1>1, <2>1, <2>2 DEF Parts
<1>4. ASSUME NEW m \in 0 .. N, NEW a \in up[m], key[a] = k PROVE \E c \in C : m \in Down(N, up, c)
  <2> DEFINE B == {b \in up[m] : key[b] = k}
  <2>1. B \subseteq Nat /\ B # {} /\ \A b \in B : b \in 0 .. m
    BY <1>4, UpBounds
  <2>2. PICK c \in B : \A b \in B : c <= b
    BY <2>1, LeastElement
  <2>3. c \in 0 .. N /\ c \in up[m] /\ key[c] = k
    BY <1>0, <2>1, <2>2
  <2>4. ASSUME NEW b \in up[c], b # c, key[b] = key[c] PROVE FALSE
    <3>1. b \in up[m]
      BY <2>3, UpTransitive
    <3>2. c <= b /\ b \in 0 .. c
      BY <2>2, <2>3, <2>4, <3>1, UpBounds
    <3> QED BY <2>3, <2>4, <3>2
  <2>5. c \in F
    BY <2>3, <2>4 DEF Firsts
  <2> QED BY <2>3, <2>5 DEF Down
<1>5. ASSUME NEW c \in C, NEW m \in Down(N, up, c) PROVE m \in 0 .. N /\ \E a \in up[m] : key[a] = k
  BY DEF Down
<1> HIDE DEF Downs
<1>6. AllDown(N, up, C) = {m \in 0 .. N : \E a \in up[m] : key[a] = k}
  BY <1>1, <1>4, <1>5 DEF AllDown, AllParts
<1> QED BY <1>3, <1>6

-----------------------------------------------------------------------------
(* process_postponed_updates                                               *)

\* The root and the other nodes: their keys, levels, and whether they are the
\* first on their path.
Tree(ns) ==
  /\ Chain(ns)
  /\ ns[1].level = 0 /\ ns[1].key = 0 /\ ns[1].first
  /\ \A m \in 1 .. Len(ns) - 1 : ns[m + 1].level = ns[ns[m + 1].parent + 1].level + 1
  /\ \A m \in 1 .. Len(ns) - 1 : ns[m + 1].key # 0
  /\ \A m \in 1 .. Len(ns) - 1 :
       ns[m + 1].first <=> \A a \in AboveOf(ns)[ns[m + 1].parent] : ns[a + 1].key # ns[m + 1].key

PostponedInv ==
  /\ DOMAIN postponed \subseteq 0 .. Len(nodes) - 1
  /\ \A n \in DOMAIN postponed : postponed[n] \in Int

TopNode == Len(nodes) - 1
Above == AboveOf(nodes)
DownFrom(n) == Down(TopNode, Above, n)
Postponed == [n \in 0 .. TopNode |-> Get(postponed, n)]
Hit(n) == \E m \in DOMAIN postponed : n \in Above[m]

\* The nodes of a level below which something is postponed, with the sum of it.
HitsAt(l) == {n \in 0 .. TopNode : Node(n).level = l /\ Hit(n)}
SumsAt(G, l) == [n \in HitsAt(l) |-> G[DownFrom(n)]]

\* The facts about the tree that the sums need.
LEMMA TreeFacts ==
  ASSUME Tree(nodes)
  PROVE  /\ TopNode \in Nat
         /\ Rooted(TopNode, ParentOf(nodes), Above)
         /\ \A n \in 0 .. TopNode : Node(n) \in NodeRecord /\ ParentOf(nodes)[n] = Node(n).parent
         /\ \A n \in 1 .. TopNode :
              Node(n).parent \in 0 .. TopNode /\ Node(n).level = Node(Node(n).parent).level + 1
         /\ Node(0).level = 0
<1>1. nodes \in Seq(NodeRecord) /\ Len(nodes) \in Nat /\ Len(nodes) > 0 /\ Chain(nodes)
  BY DEF Tree, Chain
<1>2. TopNode \in Nat
  BY <1>1 DEF TopNode
<1>3. Rooted(TopNode, ParentOf(nodes), Above)
  BY <1>1, ChainRooted DEF TopNode, Above
<1>4. \A n \in 0 .. TopNode : Node(n) \in NodeRecord /\ ParentOf(nodes)[n] = Node(n).parent
  BY <1>1 DEF TopNode, Node, ParentOf
<1>5. ASSUME NEW n \in 1 .. TopNode
      PROVE  Node(n).parent \in 0 .. TopNode /\ Node(n).level = Node(Node(n).parent).level + 1
  <2>1. n \in 1 .. Len(nodes) - 1
    BY DEF TopNode
  <2>2. nodes[n + 1].parent \in 0 .. n - 1
    BY <1>1, <2>1 DEF Chain
  <2> QED BY <1>1, <2>1, <2>2 DEF Tree, Node, TopNode
<1>6. Node(0).level = 0
  BY DEF Tree, Node
<1> QED BY <1>2, <1>3, <1>4, <1>5, <1>6

\* The levels grow downwards.
LEMMA LevelsGrow ==
  ASSUME Tree(nodes)
  PROVE  \A m \in 0 .. TopNode : \A a \in Above[m] : a \in 0 .. TopNode /\ Node(a).level <= Node(m).level
<1> DEFINE N == TopNode
           par == ParentOf(nodes)
           T == {m \in Nat : m <= N => \A a \in Above[m] : a \in 0 .. N /\ Node(a).level <= Node(m).level}
<1>1. N \in Nat /\ Rooted(N, par, Above)
  BY TreeFacts
<1>2. \A m \in 0 .. N : Node(m).level \in Nat
  BY TreeFacts DEF NodeRecord
<1>3. ASSUME NEW m \in Nat, \A i \in 0 .. m - 1 : i \in T PROVE m \in T
  <2> SUFFICES ASSUME m <= N, NEW a \in Above[m] PROVE a \in 0 .. N /\ Node(a).level <= Node(m).level
    OBVIOUS
  <2>0. m \in 0 .. N
    <3> HIDE DEF N
    <3> QED BY <1>1
  <2>1. CASE a = m
    BY <1>2, <2>0, <2>1
  <2>2. CASE a # m
    <3> DEFINE p == Node(m).parent
    <3>1. m \in 1 .. N
      <4>1. m # 0
        <5> HIDE DEF N, par
        <5> QED BY <1>1, <2>2 DEF Rooted
      <4> HIDE DEF N
      <4> QED BY <2>0, <4>1
    <3>2. par[m] = p /\ Node(m).level = Node(p).level + 1 /\ p \in 0 .. N
      BY <2>0, <3>1, TreeFacts
    <3> HIDE DEF p, N, par
    <3>3. p \in 0 .. m - 1 /\ a \in Above[p]
      BY <1>1, <2>2, <3>1, <3>2 DEF Rooted
    <3>4. p \in T
      <4> HIDE DEF T
      <4> QED BY <1>3, <3>3
    <3>5. a \in 0 .. N /\ Node(a).level <= Node(p).level
      BY <1>1, <3>2, <3>3, <3>4
    <3>6. Node(a).level \in Nat /\ Node(p).level \in Nat
      BY <1>2, <3>2, <3>5
    <3> QED BY <3>2, <3>5, <3>6
  <2> QED BY <2>1, <2>2
<1>4. \A m \in Nat : m \in T
  <2> HIDE DEF T
  <2> QED BY <1>3, StrongInduction
<1>5. ASSUME NEW m \in 0 .. TopNode
      PROVE  \A a \in Above[m] : a \in 0 .. TopNode /\ Node(a).level <= Node(m).level
  <2>1. m \in Nat /\ m <= N
    <3> HIDE DEF T
    <3> QED BY <1>1
  <2> QED BY <1>4, <2>1
<1> QED BY <1>5

\* One turn of the loop: what is postponed below the nodes of a level is what
\* is postponed at them and below the next level.
LEMMA LevelStep ==
  ASSUME Tree(nodes), PostponedInv, NEW G, Sums(G, Postponed, 0 .. TopNode), NEW l \in Nat
  PROVE  Merge(Lift(SumsAt(G, l + 1)), Own(l)) = SumsAt(G, l)
<1> DEFINE N == TopNode
           par == ParentOf(nodes)
           f == SumsAt(G, l + 1)
           lifted == Lift(f)
           own == Own(l)
<1>1. N \in Nat /\ Rooted(N, par, Above)
  BY TreeFacts
<1>2. \A m \in 0 .. N : Node(m).level \in Nat /\ par[m] = Node(m).parent
  BY TreeFacts DEF NodeRecord
<1>3. \A m \in 1 .. N : Node(m).parent \in 0 .. N /\ Node(m).level = Node(Node(m).parent).level + 1
  BY TreeFacts
<1>4. DOMAIN f = HitsAt(l + 1) /\ \A n \in HitsAt(l + 1) : f[n] = G[DownFrom(n)]
  BY DEF SumsAt
<1>5. DOMAIN postponed \subseteq 0 .. N /\ \A n \in DOMAIN postponed : postponed[n] \in Int
  BY DEF PostponedInv, TopNode
<1>6. \A n \in 0 .. N : DownFrom(n) \in SUBSET (0 .. N)
  BY DEF DownFrom, Down
<1>7. \A n \in 0 .. N : G[DownFrom(n)] \in Int
  BY <1>6 DEF Sums
<1>8. ASSUME NEW n \in HitsAt(l + 1) PROVE n \in 1 .. N /\ Node(n).parent \in HitsAt(l)
  <2> DEFINE p == Node(n).parent
  <2>1. n \in 0 .. N /\ Node(n).level = l + 1 /\ Hit(n)
    BY DEF HitsAt
  <2>2. n # 0
    <3>1. Node(0).level = 0
      BY TreeFacts
    <3> QED BY <2>1, <3>1
  <2>3. n \in 1 .. N
    <3> HIDE DEF N
    <3> QED BY <1>1, <2>1, <2>2
  <2>4. p \in 0 .. N /\ Node(p).level = l
    <3>1. p \in 0 .. N /\ l + 1 = Node(p).level + 1 /\ Node(p).level \in Nat
      BY <1>2, <1>3, <2>1, <2>3
    <3> HIDE DEF p, N
    <3> QED BY <3>1
  <2>5. Hit(p)
    <3>1. PICK m \in DOMAIN postponed : n \in Above[m]
      BY <2>1 DEF Hit
    <3>2. Above[n] = Above[par[n]] \cup {n} /\ par[n] = p
      BY <1>1, <1>2, <2>1, <2>3 DEF Rooted
    <3>3. p \in Above[p]
      BY <1>1, <2>4, UpBounds
    <3>4. Above[n] \subseteq Above[m]
      BY <1>1, <1>5, <3>1, UpTransitive
    <3> QED BY <3>1, <3>2, <3>3, <3>4 DEF Hit
  <2> QED BY <2>3, <2>4, <2>5 DEF HitsAt
<1>9. DOMAIN lifted = {Node(n).parent : n \in HitsAt(l + 1)} /\ DOMAIN own = {m \in DOMAIN postponed : Node(m).level = l}
  BY <1>4 DEF Lift, Own
<1>10. DOMAIN lifted \cup DOMAIN own = HitsAt(l)
  <2>1. ASSUME NEW n \in DOMAIN lifted PROVE n \in HitsAt(l)
    BY <1>8, <1>9
  <2>2. ASSUME NEW n \in DOMAIN own PROVE n \in HitsAt(l)
    <3>1. n \in 0 .. N /\ Node(n).level = l /\ n \in DOMAIN postponed
      BY <1>5, <1>9
    <3>2. n \in Above[n]
      BY <1>1, <3>1, UpBounds
    <3> QED BY <3>1, <3>2 DEF HitsAt, Hit
  <2>3. ASSUME NEW n \in HitsAt(l) PROVE n \in DOMAIN lifted \cup DOMAIN own
    <3>1. n \in 0 .. N /\ Node(n).level = l
      BY DEF HitsAt
    <3>2. PICK m \in DOMAIN postponed : n \in Above[m]
      BY DEF HitsAt, Hit
    <3>3. CASE n = m
      BY <1>9, <3>1, <3>2, <3>3
    <3>4. CASE n # m
      <4>1. PICK c \in 1 .. N : par[c] = n /\ c \in Above[m]
        BY <1>1, <1>5, <3>2, <3>4, UpChild
      <4>2. c \in 0 .. N /\ Node(c).parent = n /\ Node(c).level = l + 1
        <5>1. c \in 0 .. N
          <6> HIDE DEF N
          <6> QED BY <1>1
        <5> QED BY <1>2, <1>3, <3>1, <4>1, <5>1
      <4>3. c \in HitsAt(l + 1)
        BY <3>2, <4>1, <4>2 DEF HitsAt, Hit
      <4> QED BY <1>9, <4>2, <4>3
    <3> QED BY <3>3, <3>4
  <2> QED BY <2>1, <2>2, <2>3
<1>11. ASSUME NEW p \in HitsAt(l) PROVE Get(lifted, p) + Get(own, p) = G[DownFrom(p)]
  <2> DEFINE C == {c \in 1 .. N : par[c] = p}
             K == {n \in HitsAt(l + 1) : Node(n).parent = p}
             e == [c \in C |-> G[DownFrom(c)]]
             U == AllDown(N, Above, C)
  <2>1. p \in 0 .. N /\ Node(p).level = l
    BY DEF HitsAt
  <2>2. K \in SUBSET C
    <3>1. ASSUME NEW n \in K PROVE n \in 1 .. N /\ par[n] = p
      <4>1. n \in 1 .. N
        BY <1>8
      <4>2. n \in 0 .. N
        BY <4>1
      <4> QED BY <1>2, <4>1, <4>2
    <3> QED BY <3>1
  <2>3. IsFiniteSet(C)
    <3>1. IsFiniteSet(1 .. N)
      <4>1. 1 \in Int /\ N \in Int
        BY <1>1
      <4> QED BY <4>1, FS_Interval
    <3> QED BY <3>1, FS_Subset
  <2>4. \A c \in C : e[c] = G[DownFrom(c)] /\ e[c] \in Int /\ c \in 0 .. N
    <3>1. \A c \in C : c \in 0 .. N
      OBVIOUS
    <3> HIDE DEF C, N
    <3> QED BY <1>7, <3>1
  <2>5. PICK h : Sums(h, e, C)
    <3> HIDE DEF C, e
    <3> QED BY <2>3, <2>4, SumsExist
  <2>6. /\ Parts(Downs(N, Above, C), C, 0 .. N)
        /\ DownFrom(p) = {p} \cup U
        /\ p \notin U
    <3>1. C = Children(N, par, p)
      BY DEF Children
    <3>2. DownFrom(p) = Down(N, Above, p)
      BY DEF DownFrom
    <3> HIDE DEF C, par, N
    <3> QED BY <1>1, <2>1, <3>1, <3>2, ChildParts
  <2>7. h[C] = G[U]
    <3>1. \A c \in C : e[c] = G[Downs(N, Above, C)[c]]
      BY DEF DownFrom, Downs
    <3> HIDE DEF C, e, N
    <3> QED BY <2>5, <2>6, <3>1, SumsByParts DEF AllDown, N
  <2>8. G[DownFrom(p)] = Get(postponed, p) + G[U] /\ G[U] \in Int
    <3>1. U \in SUBSET (0 .. N) /\ {p} \in SUBSET (0 .. N) /\ {p} \cap U = {}
      <4>1. U \in SUBSET (0 .. N)
        <5> HIDE DEF C
        <5> QED BY <2>6 DEF Parts, AllDown, AllParts
      <4> HIDE DEF U
      <4> QED BY <2>1, <2>6, <4>1
    <3>2. G[DownFrom(p)] = G[{p}] + G[U]
      <4> DEFINE D == 0 .. N
                 P == {p}
                 W == DownFrom(p)
      <4>1. Sums(G, Postponed, D) /\ U \in SUBSET D /\ P \in SUBSET D
        BY <3>1
      <4>2. P \cap U = {}
        BY <3>1
      <4>3. W = P \cup U
        <5> HIDE DEF U
        <5> QED BY <2>6
      <4> HIDE DEF D, U, P, W
      <4>4. G[W] = G[P] + G[U]
        BY <4>1, <4>2, <4>3, SumsUnion
      <4> QED BY <4>4 DEF P, W
    <3> HIDE DEF U
    <3>3. G[{p}] = Postponed[p] + G[{p} \ {p}] /\ G[{}] = 0 /\ G[U] \in Int /\ Postponed[p] \in Int
      BY <2>1, <3>1 DEF Sums
    <3>4. {p} \ {p} = {} /\ Postponed[p] = Get(postponed, p)
      BY <2>1 DEF Postponed
    <3>5. G[{p} \ {p}] = 0
      BY <3>3, <3>4, Zenon
    <3> QED BY <3>2, <3>3, <3>4, <3>5
  <2>9. h[C] = h[K]
    <3> DEFINE R == C \ K
    <3>1. R \in SUBSET C /\ K \cap R = {} /\ K \cup R = C
      BY <2>2
    <3>2. h[C] = h[K] + h[R]
      <4> HIDE DEF R, K, C, e
      <4> QED BY <2>2, <2>5, <3>1, SumsUnion
    <3>3. ASSUME NEW c \in R PROVE e[c] = 0
      <4>1. c \in 1 .. N /\ c \in 0 .. N /\ Node(c).parent = p /\ Node(c).level = l + 1
        <5>1. c \in 1 .. N /\ c \in 0 .. N /\ par[c] = p
          BY <2>4
        <5> QED BY <1>2, <1>3, <2>1, <5>1
      <4>2. ~Hit(c)
        BY <3>3, <4>1 DEF HitsAt
      <4>3. ASSUME NEW m \in DownFrom(c) PROVE Postponed[m] = 0
        <5>1. m \in 0 .. N /\ c \in Above[m]
          BY DEF DownFrom, Down
        <5>2. m \notin DOMAIN postponed
          BY <4>2, <5>1 DEF Hit
        <5> QED BY <5>1, <5>2 DEF Postponed, Get
      <4>4. G[DownFrom(c)] = 0
        <5> DEFINE V == DownFrom(c)
                   D == 0 .. N
        <5>1. Sums(G, Postponed, D) /\ V \in SUBSET D /\ \A m \in V : Postponed[m] = 0
          BY <1>6, <4>1, <4>3
        <5> HIDE DEF V, D
        <5>2. G[V] = 0
          BY <5>1, SumsZero
        <5> QED BY <5>2 DEF V
      <4> QED BY <2>4, <4>4
    <3>4. h[R] = 0
      <4> HIDE DEF R, C, e
      <4> QED BY <2>5, <3>1, <3>3, SumsZero
    <3>5. h[K] \in Int
      <4> HIDE DEF K, C
      <4> QED BY <2>2, <2>5 DEF Sums
    <3> HIDE DEF R, K, C
    <3> QED BY <3>2, <3>4, <3>5
  <2>10. Get(lifted, p) = h[K]
    <3>1. CASE p \in DOMAIN lifted
      <4>1. lifted[p] = SumFunctionOnSet(f, K)
        <5>1. {n \in DOMAIN f : Node(n).parent = p} = K
          BY <1>4
        <5>2. lifted[p] = SumOver(f, {n \in DOMAIN f : Node(n).parent = p})
          BY <3>1 DEF Lift
        <5> QED BY <5>1, <5>2 DEF SumOver
      <4>2. IsFiniteSet(K) /\ \A n \in K : f[n] = e[n] /\ f[n] \in Int
        <5>1. IsFiniteSet(K)
          <6> HIDE DEF K, C
          <6> QED BY <2>2, <2>3, FS_Subset
        <5>2. ASSUME NEW n \in K PROVE f[n] = e[n] /\ f[n] \in Int
          <6>1. n \in C /\ n \in HitsAt(l + 1)
            BY <2>2
          <6>2. f[n] = G[DownFrom(n)]
            BY <1>4, <6>1
          <6> QED BY <2>4, <6>1, <6>2
        <5> QED BY <5>1, <5>2
      <4> HIDE DEF K, e, C, f, lifted
      <4>3. PICK q : Sums(q, f, K) /\ \A V \in SUBSET K : SumFunctionOnSet(f, V) = q[V]
        BY <4>2, SumsExist
      <4>4. K \in SUBSET K
        OBVIOUS
      <4>5. q[K] = h[K]
        BY <2>2, <2>5, <4>2, <4>3, <4>4, SumsEqual
      <4> QED BY <3>1, <4>1, <4>3, <4>4, <4>5 DEF Get
    <3>2. CASE p \notin DOMAIN lifted
      <4>1. K = {}
        BY <1>9, <3>2
      <4>2. h[{}] = 0
        BY <2>5 DEF Sums
      <4> QED BY <3>2, <4>1, <4>2 DEF Get
    <3> QED BY <3>1, <3>2
  <2>11. Get(own, p) = Get(postponed, p) /\ Get(postponed, p) \in Int
    <3>1. p \in DOMAIN own <=> p \in DOMAIN postponed
      BY <1>9, <2>1
    <3>2. p \in DOMAIN own => own[p] = postponed[p]
      BY DEF Own
    <3> QED BY <1>5, <3>1, <3>2 DEF Get
  <2> HIDE DEF C, K, e, U, lifted, own
  <2> QED BY <2>7, <2>8, <2>9, <2>10, <2>11
<1>12. Merge(lifted, own) = [x \in HitsAt(l) |-> Get(lifted, x) + Get(own, x)]
  <2> HIDE DEF lifted, own
  <2> QED BY <1>10 DEF Merge
<1>13. [x \in HitsAt(l) |-> Get(lifted, x) + Get(own, x)] = [x \in HitsAt(l) |-> G[DownFrom(x)]]
  <2> HIDE DEF lifted, own
  <2> QED BY <1>11
<1> QED BY <1>12, <1>13 DEF SumsAt

\* No node is deeper than its number.
LEMMA LevelBound ==
  ASSUME Tree(nodes)
  PROVE  \A m \in 0 .. TopNode : Node(m).level \in 0 .. m
<1> DEFINE N == TopNode
           T == {m \in Nat : m <= N => Node(m).level \in 0 .. m}
<1>1. N \in Nat
  BY TreeFacts
<1>2. \A m \in 1 .. N : Node(m).parent \in 0 .. m - 1 /\ Node(m).level = Node(Node(m).parent).level + 1
  <2>1. \A m \in 1 .. N : Node(m).parent \in 0 .. m - 1
    BY DEF Tree, Chain, TopNode, Node
  <2> QED BY <2>1, TreeFacts
<1>3. ASSUME NEW m \in Nat, \A i \in 0 .. m - 1 : i \in T PROVE m \in T
  <2> SUFFICES ASSUME m <= N PROVE Node(m).level \in 0 .. m
    OBVIOUS
  <2>1. CASE m = 0
    BY <2>1, TreeFacts
  <2>2. CASE m # 0
    <3> DEFINE p == Node(m).parent
    <3>1. p \in 0 .. m - 1 /\ Node(m).level = Node(p).level + 1
      BY <1>2, <1>1, <2>2
    <3> HIDE DEF p, N
    <3>2. p \in T
      <4> HIDE DEF T
      <4> QED BY <1>3, <3>1
    <3>3. Node(p).level \in 0 .. p
      BY <1>1, <3>1, <3>2
    <3> QED BY <3>1, <3>3
  <2> QED BY <2>1, <2>2
<1>4. \A m \in Nat : m \in T
  <2> HIDE DEF T
  <2> QED BY <1>3, StrongInduction
<1>5. ASSUME NEW m \in 0 .. TopNode PROVE Node(m).level \in 0 .. m
  <2>1. m \in Nat /\ m <= N
    <3> HIDE DEF T
    <3> QED BY <1>1
  <2> QED BY <1>4, <2>1
<1> QED BY <1>5

\* No postponed value is deeper than Deepest, where the pass by levels starts.
LEMMA DeepestFacts ==
  ASSUME Tree(nodes), PostponedInv
  PROVE  Deepest \in Nat /\ \A n \in DOMAIN postponed : Node(n).level <= Deepest
<1> DEFINE L == {0} \cup {Node(n).level : n \in DOMAIN postponed}
<1>1. TopNode \in Nat /\ \A n \in DOMAIN postponed : n \in 0 .. TopNode
  BY TreeFacts DEF PostponedInv, TopNode
<1>2. \A n \in DOMAIN postponed : Node(n).level \in 0 .. TopNode
  <2>1. ASSUME NEW n \in DOMAIN postponed PROVE Node(n).level \in 0 .. TopNode
    <3>1. n \in 0 .. TopNode /\ Node(n).level \in 0 .. n
      BY <1>1, LevelBound
    <3> QED BY <1>1, <3>1
  <2> QED BY <2>1
<1>3. L \subseteq 0 .. TopNode /\ L # {}
  BY <1>1, <1>2
<1>4. Max(L) \in L /\ \A y \in L : Max(L) >= y
  <2> HIDE DEF L
  <2> QED BY <1>1, <1>3, GreatestElement
<1>5. Deepest = Max(L)
  BY DEF Deepest
<1> DEFINE d == Max(L)
<1> HIDE DEF d
<1>6. d \in 0 .. TopNode /\ \A n \in DOMAIN postponed : d >= Node(n).level
  BY <1>3, <1>4 DEF d
<1>7. d \in Nat /\ \A n \in DOMAIN postponed : Node(n).level <= d
  BY <1>1, <1>2, <1>6
<1> QED BY <1>5, <1>7 DEF d

\* cur_accumulated_diff: every node below which something is postponed gets
\* the sum of it.
AllHits == {n \in 0 .. TopNode : Hit(n)}

\* The pass from the deepest level to the root brings to each node the sum of the
\* values postponed for the nodes below it, whatever order the nodes were added in.
LEMMA AccumulatedIs ==
  ASSUME Tree(nodes), PostponedInv, NEW G, Sums(G, Postponed, 0 .. TopNode)
  PROVE  /\ DOMAIN Accumulated = AllHits
         /\ \A n \in AllHits : Accumulated[n] = G[DownFrom(n)]
<1> DEFINE N == TopNode
           d == Deepest
           I == 0 .. d
           f == [i \in I |-> SumsAt(G, d - i)]
           Eqn(g) == g = [i \in I |-> IF i = 0 THEN Own(d) ELSE Merge(Lift(g[i - 1]), Own(d - i))]
<1>1. d \in Nat /\ \A n \in DOMAIN postponed : Node(n).level <= d
  BY DeepestFacts
<1>2. N \in Nat /\ Rooted(N, ParentOf(nodes), Above)
  BY TreeFacts
<1>3. DOMAIN postponed \subseteq 0 .. N
  BY DEF PostponedInv, TopNode
<1>4. \A n \in 0 .. N : Node(n).level \in Nat
  BY TreeFacts DEF NodeRecord
<1>5. ASSUME NEW n \in 0 .. N, Hit(n) PROVE Node(n).level \in I
  <2>1. PICK m \in DOMAIN postponed : n \in Above[m]
    BY <1>5 DEF Hit
  <2>2. Node(n).level <= Node(m).level /\ Node(m).level <= d
    BY <1>1, <1>3, <2>1, LevelsGrow
  <2>3. Node(n).level \in Nat /\ Node(m).level \in Nat
    BY <1>3, <1>4, <2>1
  <2> HIDE DEF d
  <2> QED BY <1>1, <2>2, <2>3
<1>6. Own(d) = SumsAt(G, d)
  <2>1. HitsAt(d + 1) = {}
    <3>1. ASSUME NEW n \in HitsAt(d + 1) PROVE FALSE
      <4>1. n \in 0 .. N /\ Hit(n) /\ Node(n).level = d + 1
        BY DEF HitsAt
      <4>2. Node(n).level \in 0 .. d
        BY <1>5, <4>1
      <4> HIDE DEF d
      <4> QED BY <1>1, <4>1, <4>2
    <3> QED BY <3>1
  <2>2. DOMAIN SumsAt(G, d + 1) = {}
    BY <2>1 DEF SumsAt
  <2>3. DOMAIN Lift(SumsAt(G, d + 1)) = {}
    BY <2>2 DEF Lift
  <2> DEFINE e == Lift(SumsAt(G, d + 1))
             o == Own(d)
  <2>4. Merge(e, o) = SumsAt(G, d)
    BY <1>1, LevelStep
  <2>5. o = [n \in DOMAIN o |-> o[n]] /\ \A n \in DOMAIN o : o[n] \in Int
    BY DEF Own, PostponedInv
  <2>6. DOMAIN e = {}
    BY <2>3
  <2> HIDE DEF e, o
  <2>7. Merge(e, o) = [n \in DOMAIN o |-> o[n]]
    BY <2>5, <2>6 DEF Merge, Get
  <2>8. o = SumsAt(G, d)
    BY <2>4, <2>5, <2>7
  <2> QED BY <2>8 DEF o
<1>7. f[0] = Own(d) /\ \A i \in I : i # 0 => f[i] = Merge(Lift(f[i - 1]), Own(d - i))
  <2>1. f[0] = SumsAt(G, d)
    <3>1. 0 \in I /\ d - 0 = d
      <4> HIDE DEF d
      <4> QED BY <1>1
    <3> QED BY <3>1
  <2>2. ASSUME NEW i \in I, i # 0 PROVE f[i] = Merge(Lift(f[i - 1]), Own(d - i))
    <3>1. i - 1 \in I /\ d - i \in Nat /\ (d - i) + 1 = d - (i - 1)
      <4> HIDE DEF d
      <4> QED BY <1>1, <2>2
    <3>2. Merge(Lift(SumsAt(G, (d - i) + 1)), Own(d - i)) = SumsAt(G, d - i)
      BY <3>1, LevelStep
    <3>3. f[i] = SumsAt(G, d - i) /\ f[i - 1] = SumsAt(G, d - (i - 1))
      <4> HIDE DEF d, I
      <4> QED BY <3>1
    <3>4. f[i - 1] = SumsAt(G, (d - i) + 1)
      BY <3>1, <3>3
    <3> QED BY <3>2, <3>3, <3>4
  <2> QED BY <1>6, <2>1, <2>2
<1>8. Eqn(f)
  <2>1. \A i \in I : f[i] = IF i = 0 THEN Own(d) ELSE Merge(Lift(f[i - 1]), Own(d - i))
    BY <1>7
  <2>2. f = [i \in I |-> f[i]]
    OBVIOUS
  <2> HIDE DEF f, I, d
  <2> QED BY <2>1, <2>2
<1> DEFINE g == CHOOSE x : Eqn(x)
<1>9. Eqn(g)
  <2> HIDE DEF Eqn
  <2> QED BY <1>8
<1>10. Accumulated = [n \in UNION {DOMAIN g[i] : i \in I} |-> g[d - Node(n).level][n]]
  BY DEF Accumulated
<1> HIDE DEF g
<1>11. g[0] = Own(d) /\ \A i \in I : i # 0 => g[i] = Merge(Lift(g[i - 1]), Own(d - i))
  <2>1. ASSUME NEW x, Eqn(x)
        PROVE  x[0] = Own(d) /\ \A i \in I : i # 0 => x[i] = Merge(Lift(x[i - 1]), Own(d - i))
    <3>1. 0 \in I
      <4> HIDE DEF d
      <4> QED BY <1>1
    <3> HIDE DEF I, d
    <3> QED BY <2>1, <3>1
  <2> HIDE DEF Eqn
  <2> QED BY <1>9, <2>1
<1>12. ASSUME NEW i \in I PROVE g[i] = SumsAt(G, d - i)
  <2> DEFINE T == {k \in Nat : k <= d => g[k] = f[k]}
  <2> HIDE DEF f
  <2>1. 0 \in T
    BY <1>7, <1>11
  <2>2. ASSUME NEW k \in Nat, k \in T PROVE k + 1 \in T
    <3> SUFFICES ASSUME k + 1 <= d PROVE g[k + 1] = f[k + 1]
      OBVIOUS
    <3>1. k + 1 \in I /\ k + 1 # 0 /\ (k + 1) - 1 = k /\ k <= d
      <4> HIDE DEF d
      <4> QED BY <1>1
    <3>2. g[k] = f[k]
      BY <2>2, <3>1
    <3>3. g[k + 1] = Merge(Lift(g[k]), Own(d - (k + 1))) /\ f[k + 1] = Merge(Lift(f[k]), Own(d - (k + 1)))
      <4>1. g[k + 1] = Merge(Lift(g[(k + 1) - 1]), Own(d - (k + 1)))
        <5> HIDE DEF I, d
        <5> QED BY <1>11, <3>1
      <4>2. f[k + 1] = Merge(Lift(f[(k + 1) - 1]), Own(d - (k + 1)))
        <5> HIDE DEF I, d
        <5> QED BY <1>7, <3>1
      <4> QED BY <3>1, <4>1, <4>2
    <3> QED BY <3>2, <3>3
  <2>3. \A k \in Nat : k \in T
    <3> HIDE DEF T
    <3> QED BY <2>1, <2>2, Induction
  <2>4. i \in Nat /\ i <= d
    <3> HIDE DEF d, T
    <3> QED BY <1>1
  <2>5. g[i] = f[i]
    BY <2>3, <2>4
  <2> QED BY <2>5 DEF f
<1>13. \A i \in I : DOMAIN g[i] = HitsAt(d - i) /\ \A n \in HitsAt(d - i) : g[i][n] = G[DownFrom(n)]
  BY <1>12 DEF SumsAt
<1>14. ASSUME NEW n \in AllHits PROVE d - Node(n).level \in I /\ n \in HitsAt(d - (d - Node(n).level))
  <2>1. n \in 0 .. N /\ Hit(n)
    BY DEF AllHits
  <2>2. Node(n).level \in 0 .. d
    BY <1>5, <2>1
  <2>3. d - Node(n).level \in 0 .. d /\ d - (d - Node(n).level) = Node(n).level
    <3> HIDE DEF d
    <3> QED BY <1>1, <2>2
  <2> QED BY <2>1, <2>3 DEF HitsAt
<1>15. UNION {DOMAIN g[i] : i \in I} = AllHits
  <2>1. ASSUME NEW i \in I, NEW n \in DOMAIN g[i] PROVE n \in AllHits
    BY <1>13 DEF HitsAt, AllHits
  <2>2. ASSUME NEW n \in AllHits PROVE \E i \in I : n \in DOMAIN g[i]
    BY <1>13, <1>14
  <2> QED BY <2>1, <2>2
<1>16. ASSUME NEW n \in AllHits PROVE Accumulated[n] = G[DownFrom(n)]
  <2>1. Accumulated[n] = g[d - Node(n).level][n]
    BY <1>10, <1>15
  <2> QED BY <1>13, <1>14, <2>1
<1> QED BY <1>10, <1>15, <1>16

\* aggregate_on_frame: a frame gets what is postponed below the nodes on whose
\* path it is.
Holders(k) == {m \in 0 .. TopNode : \E a \in Above[m] : Node(a).key = k}

\* The flag first, set when a node is added, is what FirstParts needs.
LEMMA FirstsOfTree ==
  ASSUME Tree(nodes), NEW key, key = [n \in 0 .. TopNode |-> Node(n).key],
         NEW F, F = {n \in 0 .. TopNode : Node(n).first}
  PROVE  Firsts(TopNode, Above, key, F)
<1> DEFINE N == TopNode
<1>1. N \in Nat /\ Rooted(N, ParentOf(nodes), Above)
  BY TreeFacts
<1>2. ASSUME NEW m \in 0 .. N PROVE m \in F <=> \A a \in Above[m] : a # m => key[a] # key[m]
  <2>1. CASE m = 0
    <3>1. Above[0] = {0}
      BY <1>1 DEF Rooted
    <3>2. Node(0).first
      BY DEF Tree, Node
    <3> QED BY <2>1, <3>1, <3>2
  <2>2. CASE m # 0
    <3> DEFINE p == Node(m).parent
    <3>1. m \in 1 .. N
      <4> HIDE DEF N
      <4> QED BY <1>1, <2>2
    <3>2. p \in 0 .. N /\ ParentOf(nodes)[m] = p
      BY <3>1, TreeFacts
    <3>3. Above[m] = Above[p] \cup {m} /\ p < m
      <4> HIDE DEF N, p
      <4> QED BY <1>1, <3>1, <3>2 DEF Rooted
    <3>4. Node(m).first <=> \A a \in Above[p] : Node(a).key # Node(m).key
      BY <3>1 DEF Tree, Node, Above, TopNode
    <3> HIDE DEF p
    <3>5. \A a \in Above[p] : a \in 0 .. p
      BY <1>1, <3>2, UpBounds
    <3>6. \A a \in Above[p] : a # m /\ a \in 0 .. N
      <4> HIDE DEF N
      <4> QED BY <1>1, <3>2, <3>3, <3>5
    <3>7. m \in F <=> Node(m).first
      OBVIOUS
    <3>8. \A a \in 0 .. N : key[a] = Node(a).key
      OBVIOUS
    <3> HIDE DEF N
    <3> QED BY <3>3, <3>4, <3>6, <3>7, <3>8
  <2> QED BY <2>1, <2>2
<1> QED BY <1>2 DEF Firsts

\* Adding what the first nodes of a frame accumulate is adding the values
\* postponed for every node with that frame on its path, each once.
LEMMA OnFramesIs ==
  ASSUME Tree(nodes), PostponedInv, NEW G, Sums(G, Postponed, 0 .. TopNode), NEW k
  PROVE  Get(OnFrames(Accumulated), k) = G[Holders(k)]
<1> DEFINE N == TopNode
           key == [n \in 0 .. N |-> Node(n).key]
           F == {n \in 0 .. N : Node(n).first}
           C == {c \in 0 .. N : c \in F /\ key[c] = k}
           f == Accumulated
           K == {n \in AllHits : Node(n).first /\ Node(n).key = k}
           e == [c \in C |-> G[DownFrom(c)]]
           onf == OnFrames(f)
<1>1. N \in Nat /\ Rooted(N, ParentOf(nodes), Above)
  BY TreeFacts
<1>2. DOMAIN f = AllHits /\ \A n \in AllHits : f[n] = G[DownFrom(n)]
  BY AccumulatedIs
<1> HIDE DEF f
<1>3. Firsts(N, Above, key, F)
  BY FirstsOfTree
<1>4. /\ Parts(Downs(N, Above, C), C, 0 .. N)
      /\ AllDown(N, Above, C) = WithKey(N, Above, key, k)
  <2>1. C = FirstWith(N, key, F, k)
    BY DEF FirstWith
  <2> HIDE DEF key, F, N, C
  <2> QED BY <1>1, <1>3, <2>1, FirstParts
<1>5. AllDown(N, Above, C) = Holders(k)
  <2>1. \A m \in 0 .. N : \A a \in Above[m] : key[a] = Node(a).key
    <3>1. \A m \in 0 .. N : Above[m] \in SUBSET (0 .. N)
      <4> HIDE DEF N
      <4> QED BY <1>1 DEF Rooted
    <3>2. \A a \in 0 .. N : key[a] = Node(a).key
      OBVIOUS
    <3> HIDE DEF key, N
    <3> QED BY <3>1, <3>2
  <2> HIDE DEF key
  <2> QED BY <1>4, <2>1 DEF Holders, WithKey
<1>6. K \in SUBSET C
  BY DEF AllHits
<1>7. IsFiniteSet(C)
  <2>1. IsFiniteSet(0 .. N)
    <3>1. 0 \in Int /\ N \in Int
      BY <1>1
    <3> QED BY <3>1, FS_Interval
  <2> QED BY <2>1, FS_Subset
<1>8. \A c \in C : e[c] = G[DownFrom(c)] /\ e[c] \in Int /\ c \in 0 .. N
  <2>1. \A c \in C : c \in 0 .. N
    OBVIOUS
  <2>2. \A n \in 0 .. N : G[DownFrom(n)] \in Int
    BY DEF DownFrom, Down, Sums
  <2> HIDE DEF C, N
  <2> QED BY <2>1, <2>2
<1>9. PICK h : Sums(h, e, C)
  <2> HIDE DEF C, e
  <2> QED BY <1>7, <1>8, SumsExist
<1>10. h[C] = G[Holders(k)]
  <2>1. \A c \in C : e[c] = G[Downs(N, Above, C)[c]]
    BY DEF DownFrom, Downs
  <2> HIDE DEF C, e, N
  <2>2. h[C] = G[AllDown(N, Above, C)]
    <3>1. Sums(G, Postponed, 0 .. N)
      BY DEF N
    <3>2. h[C] = G[AllParts(Downs(N, Above, C), C)]
      BY <1>4, <1>9, <2>1, <3>1, SumsByParts
    <3> QED BY <3>2 DEF AllDown
  <2> QED BY <1>5, <2>2
<1>11. h[C] = h[K]
  <2> DEFINE R == C \ K
  <2>1. R \in SUBSET C /\ K \cap R = {} /\ K \cup R = C
    BY <1>6
  <2>2. h[C] = h[K] + h[R]
    <3> HIDE DEF R, K, C, e
    <3> QED BY <1>6, <1>9, <2>1, SumsUnion
  <2>3. ASSUME NEW c \in R PROVE e[c] = 0
    <3>1. c \in 0 .. N /\ ~Hit(c)
      <4>1. c \in 0 .. N /\ Node(c).first /\ Node(c).key = k /\ c \notin K
        OBVIOUS
      <4> QED BY <4>1 DEF AllHits
    <3>2. ASSUME NEW m \in DownFrom(c) PROVE Postponed[m] = 0
      <4>1. m \in 0 .. N /\ c \in Above[m]
        BY DEF DownFrom, Down
      <4>2. m \notin DOMAIN postponed
        BY <3>1, <4>1 DEF Hit
      <4> QED BY <4>1, <4>2 DEF Postponed, Get
    <3>3. G[DownFrom(c)] = 0
      <4> DEFINE V == DownFrom(c)
                 D == 0 .. N
      <4>1. Sums(G, Postponed, D) /\ V \in SUBSET D /\ \A m \in V : Postponed[m] = 0
        <5>1. V \in SUBSET D
          BY DEF DownFrom, Down
        <5> QED BY <3>2, <5>1
      <4> HIDE DEF V, D
      <4>2. G[V] = 0
        BY <4>1, SumsZero
      <4> QED BY <4>2 DEF V
    <3> QED BY <1>8, <3>3
  <2>4. h[R] = 0
    <3> HIDE DEF R, C, e
    <3> QED BY <1>9, <2>1, <2>3, SumsZero
  <2>5. h[K] \in Int
    <3> HIDE DEF K, C
    <3> QED BY <1>6, <1>9 DEF Sums
  <2> HIDE DEF R, K, C
  <2> QED BY <2>2, <2>4, <2>5
<1>12. Get(onf, k) = h[K]
  <2> DEFINE firsts == {n \in DOMAIN f : Node(n).first}
  <2>0. firsts = {n \in AllHits : Node(n).first} /\ {n \in firsts : Node(n).key = k} = K
    BY <1>2
  <2>1. onf = [x \in {Node(n).key : n \in firsts} |-> SumOver(f, {n \in firsts : Node(n).key = x})]
    BY DEF OnFrames
  <2>2. CASE k \in DOMAIN onf
    <3>1. onf[k] = SumFunctionOnSet(f, K)
      <4>1. onf[k] = SumOver(f, {n \in firsts : Node(n).key = k})
        <5> HIDE DEF firsts
        <5> QED BY <2>1, <2>2
      <4> QED BY <2>0, <4>1 DEF SumOver
    <3>2. IsFiniteSet(K) /\ \A n \in K : f[n] = e[n] /\ f[n] \in Int
      <4>1. IsFiniteSet(K)
        <5> HIDE DEF K, C
        <5> QED BY <1>6, <1>7, FS_Subset
      <4>2. \A n \in K : n \in C /\ n \in AllHits
        BY <1>6
      <4> HIDE DEF K, C, e
      <4> QED BY <1>2, <1>8, <4>1, <4>2
    <3> HIDE DEF K, e, C, f, onf
    <3>3. PICK q : Sums(q, f, K) /\ \A V \in SUBSET K : SumFunctionOnSet(f, V) = q[V]
      BY <3>2, SumsExist
    <3>4. K \in SUBSET K
      OBVIOUS
    <3>5. q[K] = h[K]
      BY <1>6, <1>9, <3>2, <3>3, <3>4, SumsEqual
    <3> QED BY <2>2, <3>1, <3>3, <3>4, <3>5 DEF Get
  <2>3. CASE k \notin DOMAIN onf
    <3>1. K = {}
      BY <2>0, <2>1, <2>3
    <3>2. h[{}] = 0
      BY <1>9 DEF Sums
    <3> QED BY <2>3, <3>1, <3>2 DEF Get
  <2> QED BY <2>2, <2>3
<1> QED BY <1>10, <1>11, <1>12 DEF f

-----------------------------------------------------------------------------
(* The totals.                                                             *)

SelfOf(ns) == [n \in 0 .. Len(ns) - 1 |-> ns[n + 1].self]
DownIn(ns, n) == Down(Len(ns) - 1, AboveOf(ns), n)
HoldersIn(ns, k) == {m \in 0 .. Len(ns) - 1 : \E a \in AboveOf(ns)[m] : ns[a + 1].key = k}

\* Totals of nodes and of frames are sums of self values.
Totals(ns, agg) ==
  /\ \A n \in 0 .. Len(ns) - 1 : ns[n + 1].total = SumOver(SelfOf(ns), DownIn(ns, n))
  /\ \A k \in Nat : Get(agg, k) = SumOver(SelfOf(ns), HoldersIn(ns, k))

\* A tree to which only nodes without values were added.
Extended(ns, n2) ==
  /\ Grown(ns, n2)
  /\ \A m \in 0 .. Len(ns) - 1 : n2[m + 1].self = ns[m + 1].self /\ n2[m + 1].total = ns[m + 1].total
  /\ \A m \in Len(ns) .. Len(n2) - 1 : n2[m + 1].self = 0 /\ n2[m + 1].total = 0

\* The self values of any set of nodes have a sum.
LEMMA SelfSums ==
  ASSUME NEW ns, Chain(ns)
  PROVE  \E S : /\ Sums(S, SelfOf(ns), 0 .. Len(ns) - 1)
                /\ \A U \in SUBSET (0 .. Len(ns) - 1) : SumOver(SelfOf(ns), U) = S[U]
<1> DEFINE D == 0 .. Len(ns) - 1
           f == SelfOf(ns)
<1>1. IsFiniteSet(D)
  <2>1. 0 \in Int /\ Len(ns) - 1 \in Int
    BY DEF Chain
  <2> QED BY <2>1, FS_Interval
<1>2. \A x \in D : f[x] \in Int
  <2>1. ASSUME NEW x \in D PROVE f[x] \in Int
    <3>1. x + 1 \in 1 .. Len(ns) /\ Len(ns) \in Nat
      BY DEF Chain
    <3>2. ns[x + 1] \in NodeRecord
      BY <3>1 DEF Chain
    <3> QED BY <3>2 DEF SelfOf, NodeRecord
  <2> QED BY <2>1
<1>3. \E S : Sums(S, f, D) /\ \A U \in SUBSET D : SumFunctionOnSet(f, U) = S[U]
  <2> HIDE DEF D, f
  <2> QED BY <1>1, <1>2, SumsExist
<1> QED BY <1>3 DEF SumOver

\* Nodes added by construct_path have no value yet, so sums of self values
\* stay as they were.
LEMMA SumsGrow ==
  ASSUME NEW ns, Chain(ns), NEW n2, Chain(n2), Extended(ns, n2),
         NEW V2 \in SUBSET (0 .. Len(n2) - 1), NEW V, V = V2 \cap (0 .. Len(ns) - 1)
  PROVE  SumOver(SelfOf(n2), V2) = SumOver(SelfOf(ns), V)
<1> DEFINE D == 0 .. Len(ns) - 1
           D2 == 0 .. Len(n2) - 1
           f == SelfOf(ns)
           f2 == SelfOf(n2)
           W == V2 \ D
<1>1. Len(ns) \in Nat /\ Len(n2) \in Nat /\ Len(ns) <= Len(n2)
  BY DEF Chain, Extended, Grown
<1>2. PICK S : Sums(S, f, D) /\ \A U \in SUBSET D : SumOver(f, U) = S[U]
  BY SelfSums
<1>3. PICK S2 : Sums(S2, f2, D2) /\ \A U \in SUBSET D2 : SumOver(f2, U) = S2[U]
  BY SelfSums
<1>4. V \in SUBSET D /\ V \in SUBSET D2 /\ W \in SUBSET D2 /\ V \cap W = {} /\ V2 = V \cup W
  OBVIOUS
<1>5. \A x \in V : f[x] = f2[x]
  <2>1. ASSUME NEW x \in V PROVE f[x] = f2[x]
    <3>1. x \in 0 .. Len(ns) - 1 /\ x \in 0 .. Len(n2) - 1
      OBVIOUS
    <3> QED BY <3>1 DEF Extended, SelfOf
  <2> QED BY <2>1
<1>6. \A x \in W : f2[x] = 0
  <2>1. ASSUME NEW x \in W PROVE f2[x] = 0
    <3>1. x \in 0 .. Len(n2) - 1 /\ x \in Len(ns) .. Len(n2) - 1
      BY <1>1
    <3> QED BY <3>1 DEF Extended, SelfOf
  <2> QED BY <2>1
<1>7. V2 \in SUBSET D2
  OBVIOUS
<1> HIDE DEF D, D2, f, f2, W
<1>8. S2[V2] = S2[V] + S2[W]
  BY <1>3, <1>4, SumsUnion
<1>9. S2[W] = 0
  BY <1>3, <1>4, <1>6, SumsZero
<1>10. S[V] = S2[V]
  BY <1>2, <1>3, <1>4, <1>5, SumsEqual
<1>11. S2[V] \in Int
  BY <1>3, <1>4 DEF Sums
<1>12. SumOver(f2, V2) = SumOver(f, V)
  BY <1>2, <1>3, <1>4, <1>7, <1>8, <1>9, <1>10, <1>11
<1> QED BY <1>12 DEF f, f2

\* New nodes have no values, so that the totals stay what they were.
LEMMA TotalsGrow ==
  ASSUME NEW ns, Chain(ns), NEW n2, Chain(n2), Extended(ns, n2), NEW agg, Totals(ns, agg)
  PROVE  Totals(n2, agg)
<1> DEFINE D == 0 .. Len(ns) - 1
           D2 == 0 .. Len(n2) - 1
           up == AboveOf(ns)
           up2 == AboveOf(n2)
<1>1. Len(ns) \in Nat /\ Len(n2) \in Nat /\ Len(ns) <= Len(n2) /\ Grown(ns, n2)
  BY DEF Chain, Extended, Grown
<1>2. \A m \in D : m \in D2 /\ up2[m] = up[m]
  <2>1. ASSUME NEW m \in D PROVE m \in D2 /\ up2[m] = up[m]
    <3>1. m \in D2
      BY <1>1
    <3>2. Backtrace(n2, m) = Backtrace(ns, m)
      BY <1>1, SamePaths
    <3> QED BY <3>1, <3>2 DEF AboveOf
  <2> QED BY <2>1
<1>3. Rooted(Len(ns) - 1, ParentOf(ns), up) /\ Rooted(Len(n2) - 1, ParentOf(n2), up2)
  BY ChainRooted
<1>4. ASSUME NEW n \in D2 PROVE n2[n + 1].total = SumOver(SelfOf(n2), DownIn(n2, n))
  <2> DEFINE V2 == DownIn(n2, n)
             V == V2 \cap D
  <2>1. V2 \in SUBSET D2
    BY DEF DownIn, Down
  <2>2. SumOver(SelfOf(n2), V2) = SumOver(SelfOf(ns), V)
    <3> HIDE DEF V2
    <3> QED BY <2>1, SumsGrow
  <2>3. CASE n \in D
    <3>1. V = DownIn(ns, n)
      <4> HIDE DEF up, up2
      <4> QED BY <1>2 DEF DownIn, Down, up, up2
    <3>2. ns[n + 1].total = SumOver(SelfOf(ns), DownIn(ns, n)) /\ n2[n + 1].total = ns[n + 1].total
      BY <2>3 DEF Totals, Extended
    <3> QED BY <2>2, <3>1, <3>2
  <2>4. CASE n \notin D
    <3>1. n \in Len(ns) .. Len(n2) - 1
      BY <1>1, <2>4
    <3>2. V = {}
      <4>1. ASSUME NEW m \in V PROVE FALSE
        <5>1. m \in D /\ m \in D2 /\ n \in up2[m]
          BY DEF DownIn, Down
        <5>2. n \in 0 .. m
          BY <1>3, <5>1, UpBounds
        <5> QED BY <1>1, <3>1, <5>1, <5>2
      <4> QED BY <4>1
    <3>3. SumOver(SelfOf(ns), {}) = 0
      <4>1. PICK S : /\ Sums(S, SelfOf(ns), 0 .. Len(ns) - 1)
                     /\ \A U \in SUBSET (0 .. Len(ns) - 1) : SumOver(SelfOf(ns), U) = S[U]
        BY SelfSums
      <4>2. {} \in SUBSET (0 .. Len(ns) - 1)
        OBVIOUS
      <4> QED BY <4>1, <4>2 DEF Sums
    <3>4. n2[n + 1].total = 0
      BY <3>1 DEF Extended
    <3> QED BY <2>2, <3>2, <3>3, <3>4
  <2> QED BY <2>3, <2>4
<1>5. ASSUME NEW k \in Nat PROVE Get(agg, k) = SumOver(SelfOf(n2), HoldersIn(n2, k))
  <2> DEFINE V2 == HoldersIn(n2, k)
             V == V2 \cap D
  <2>1. V2 \in SUBSET D2
    BY DEF HoldersIn
  <2>2. SumOver(SelfOf(n2), V2) = SumOver(SelfOf(ns), V)
    <3> HIDE DEF V2
    <3> QED BY <2>1, SumsGrow
  <2>3. \A m \in D : \A a \in up[m] : n2[a + 1].key = ns[a + 1].key
    <3>1. \A m \in D : up[m] \in SUBSET D
      BY <1>3 DEF Rooted
    <3> HIDE DEF up
    <3> QED BY <1>1, <3>1 DEF Grown
  <2>4. V = HoldersIn(ns, k)
    <3>1. V = {m \in D : \E a \in up2[m] : n2[a + 1].key = k}
      <4> HIDE DEF up2, up
      <4> QED BY <1>2 DEF HoldersIn, up2
    <3>2. HoldersIn(ns, k) = {m \in D : \E a \in up[m] : ns[a + 1].key = k}
      BY DEF HoldersIn
    <3> HIDE DEF V, up, up2, D
    <3> QED BY <1>2, <2>3, <3>1, <3>2
  <2>5. Get(agg, k) = SumOver(SelfOf(ns), HoldersIn(ns, k))
    BY DEF Totals
  <2> QED BY <2>2, <2>4, <2>5
<1> QED BY <1>4, <1>5 DEF Totals

\* The values and the marks of leafs do not matter for the tree.
SameShape(ns, n2) ==
  /\ n2 \in Seq(NodeRecord) /\ Len(n2) = Len(ns)
  /\ \A i \in 1 .. Len(ns) : /\ n2[i].key = ns[i].key /\ n2[i].parent = ns[i].parent
                             /\ n2[i].level = ns[i].level /\ n2[i].first = ns[i].first

\* Changing self, total and leaf leaves the tree the same.
LEMMA SameTree ==
  ASSUME NEW ns, Tree(ns), NEW n2, SameShape(ns, n2)
  PROVE  Chain(n2) /\ Grown(ns, n2) /\ AboveOf(n2) = AboveOf(ns) /\ Tree(n2)
<1>1. Len(ns) \in Nat /\ Len(n2) = Len(ns) /\ Len(ns) > 0 /\ Chain(ns)
  BY DEF Tree, Chain, SameShape
<1>2. \A m \in 0 .. Len(ns) - 1 :
        /\ n2[m + 1].key = ns[m + 1].key /\ n2[m + 1].parent = ns[m + 1].parent
        /\ n2[m + 1].level = ns[m + 1].level /\ n2[m + 1].first = ns[m + 1].first
  BY <1>1 DEF SameShape
<1>3. Grown(ns, n2)
  BY <1>1, <1>2 DEF Grown
<1>4. \A m \in 1 .. Len(ns) - 1 : m \in 0 .. Len(ns) - 1 /\ ns[m + 1].parent \in 0 .. m - 1
  BY <1>1 DEF Chain
<1>5. Chain(n2)
  <2>1. n2[1].parent = 0
    <3>1. 0 \in 0 .. Len(ns) - 1 /\ 0 + 1 = 1
      BY <1>1
    <3> QED BY <1>1, <1>2, <3>1 DEF Chain
  <2> QED BY <1>1, <1>2, <1>4, <2>1 DEF Chain, SameShape
<1>6. AboveOf(n2) = AboveOf(ns)
  <2>1. \A m \in 0 .. Len(ns) - 1 : Backtrace(n2, m) = Backtrace(ns, m)
    BY <1>1, <1>3, <1>5, SamePaths
  <2> QED BY <1>1, <2>1 DEF AboveOf
<1>7. Tree(n2)
  <2>1. n2[1].level = 0 /\ n2[1].key = 0 /\ n2[1].first
    <3>1. 1 \in 1 .. Len(ns)
      BY <1>1
    <3> QED BY <3>1 DEF Tree, SameShape
  <2>2. ASSUME NEW m \in 1 .. Len(n2) - 1
        PROVE  /\ n2[m + 1].level = n2[n2[m + 1].parent + 1].level + 1 /\ n2[m + 1].key # 0
               /\ n2[m + 1].first <=> \A a \in AboveOf(n2)[n2[m + 1].parent] : n2[a + 1].key # n2[m + 1].key
    <3> DEFINE p == ns[m + 1].parent
    <3>1. m \in 1 .. Len(ns) - 1 /\ m \in 0 .. Len(ns) - 1 /\ p \in 0 .. Len(ns) - 1 /\ n2[m + 1].parent = p
      BY <1>1, <1>2, <1>4
    <3>2. AboveOf(ns)[p] \in SUBSET (0 .. Len(ns) - 1)
      <4>1. Rooted(Len(ns) - 1, ParentOf(ns), AboveOf(ns))
        BY <1>1, ChainRooted
      <4> HIDE DEF p
      <4> QED BY <3>1, <4>1 DEF Rooted
    <3>3. /\ ns[m + 1].level = ns[p + 1].level + 1 /\ ns[m + 1].key # 0
          /\ ns[m + 1].first <=> \A a \in AboveOf(ns)[p] : ns[a + 1].key # ns[m + 1].key
      BY <3>1 DEF Tree
    <3>4. /\ n2[m + 1].key = ns[m + 1].key /\ n2[m + 1].level = ns[m + 1].level
          /\ n2[m + 1].first = ns[m + 1].first
      BY <1>2, <3>1
    <3>5. n2[p + 1].level = ns[p + 1].level
      <4> HIDE DEF p
      <4> QED BY <1>2, <3>1
    <3>6. \A a \in AboveOf(ns)[p] : n2[a + 1].key = ns[a + 1].key
      <4> HIDE DEF p
      <4> QED BY <1>2, <3>2
    <3>7. n2[m + 1].level = n2[n2[m + 1].parent + 1].level + 1 /\ n2[m + 1].key # 0
      BY <3>1, <3>3, <3>4, <3>5
    <3>8. n2[m + 1].first <=> \A a \in AboveOf(n2)[n2[m + 1].parent] : n2[a + 1].key # n2[m + 1].key
      <4> HIDE DEF p
      <4> QED BY <1>6, <3>1, <3>3, <3>4, <3>6
    <3> QED BY <3>7, <3>8
  <2> QED BY <1>5, <2>1, <2>2 DEF Tree
<1> QED BY <1>3, <1>5, <1>6, <1>7

\* process_postponed_updates adds the differences to the self values and the
\* sums of them to the totals.
Updated ==
  [i \in DOMAIN nodes |-> [nodes[i] EXCEPT !.self = @ + Get(postponed, i - 1),
                                           !.total = @ + Get(Accumulated, i - 1)]]

\* The postponed values of any set of nodes have a sum.
LEMMA PostponedSums ==
  ASSUME Tree(nodes), PostponedInv
  PROVE  \E G : Sums(G, Postponed, 0 .. TopNode)
<1> DEFINE D == 0 .. TopNode
<1>1. IsFiniteSet(D)
  <2>1. 0 \in Int /\ TopNode \in Int
    BY TreeFacts
  <2> QED BY <2>1, FS_Interval
<1>2. \A x \in D : Postponed[x] \in Int
  BY DEF Postponed, PostponedInv, Get
<1> HIDE DEF D
<1>3. \E G : Sums(G, Postponed, D)
  BY <1>1, <1>2, SumsExist
<1> QED BY <1>3 DEF D

\* What a node gets, whether the pass reaches it or not.
LEMMA AccumulatedAt ==
  ASSUME Tree(nodes), PostponedInv, NEW G, Sums(G, Postponed, 0 .. TopNode), NEW n \in 0 .. TopNode
  PROVE  Get(Accumulated, n) = G[DownFrom(n)] /\ G[DownFrom(n)] \in Int
<1>1. DOMAIN Accumulated = AllHits /\ \A m \in AllHits : Accumulated[m] = G[DownFrom(m)]
  BY AccumulatedIs
<1>2. DownFrom(n) \in SUBSET (0 .. TopNode)
  BY DEF DownFrom, Down
<1>3. G[DownFrom(n)] \in Int
  BY <1>2 DEF Sums
<1>4. CASE n \in AllHits
  BY <1>1, <1>3, <1>4 DEF Get
<1>5. CASE n \notin AllHits
  <2>1. ~Hit(n)
    BY <1>5 DEF AllHits
  <2>2. ASSUME NEW m \in DownFrom(n) PROVE Postponed[m] = 0
    <3>1. m \in 0 .. TopNode /\ n \in Above[m]
      BY DEF DownFrom, Down
    <3>2. m \notin DOMAIN postponed
      BY <2>1, <3>1 DEF Hit
    <3> QED BY <3>1, <3>2 DEF Postponed, Get
  <2>3. G[DownFrom(n)] = 0
    <3> DEFINE V == DownFrom(n)
               D == 0 .. TopNode
    <3>1. Sums(G, Postponed, D) /\ V \in SUBSET D /\ \A m \in V : Postponed[m] = 0
      BY <1>2, <2>2
    <3> HIDE DEF V, D
    <3>2. G[V] = 0
      BY <3>1, SumsZero
    <3> QED BY <3>2 DEF V
  <2> QED BY <1>1, <1>3, <1>5, <2>3 DEF Get
<1> QED BY <1>4, <1>5

\* The update adds to each node its postponed value and what it accumulated.
LEMMA UpdatedFacts ==
  ASSUME Tree(nodes), PostponedInv
  PROVE  /\ SameShape(nodes, Updated)
         /\ \A i \in 1 .. Len(nodes) :
              /\ Updated[i].self = nodes[i].self + Get(postponed, i - 1)
              /\ Updated[i].total = nodes[i].total + Get(Accumulated, i - 1)
              /\ Updated[i].leaf = nodes[i].leaf
<1>1. nodes \in Seq(NodeRecord) /\ DOMAIN nodes = 1 .. Len(nodes) /\ Len(nodes) \in Nat
  BY DEF Tree, Chain
<1>2. PICK G : Sums(G, Postponed, 0 .. TopNode)
  BY PostponedSums
<1>3. ASSUME NEW i \in 1 .. Len(nodes)
      PROVE  Get(postponed, i - 1) \in Int /\ Get(Accumulated, i - 1) \in Int
  <2>1. i - 1 \in 0 .. TopNode
    BY <1>1 DEF TopNode
  <2>2. Get(Accumulated, i - 1) \in Int
    BY <1>2, <2>1, AccumulatedAt
  <2> QED BY <2>2 DEF PostponedInv, Get
<1>4. \A i \in 1 .. Len(nodes) :
        Updated[i] = [nodes[i] EXCEPT !.self = @ + Get(postponed, i - 1),
                                      !.total = @ + Get(Accumulated, i - 1)]
  BY <1>1 DEF Updated
<1>5. ASSUME NEW i \in 1 .. Len(nodes)
      PROVE  /\ Updated[i] \in NodeRecord
             /\ Updated[i].key = nodes[i].key /\ Updated[i].parent = nodes[i].parent
             /\ Updated[i].level = nodes[i].level /\ Updated[i].first = nodes[i].first
             /\ Updated[i].self = nodes[i].self + Get(postponed, i - 1)
             /\ Updated[i].total = nodes[i].total + Get(Accumulated, i - 1)
             /\ Updated[i].leaf = nodes[i].leaf
  <2> DEFINE a == Get(postponed, i - 1)
             b == Get(Accumulated, i - 1)
             r == nodes[i]
             u == Updated[i]
  <2>1. a \in Int /\ b \in Int /\ r \in NodeRecord
    BY <1>1, <1>3
  <2>2. u = [r EXCEPT !.self = @ + a, !.total = @ + b]
    BY <1>4
  <2> HIDE DEF a, b, r, u
  <2>3. /\ u \in NodeRecord
        /\ u.key = r.key /\ u.parent = r.parent /\ u.level = r.level /\ u.first = r.first
        /\ u.self = r.self + a /\ u.total = r.total + b /\ u.leaf = r.leaf
    <3>1. r \in [key : Nat, parent : Nat, level : Nat, leaf : BOOLEAN, first : BOOLEAN, self : Int, total : Int]
      BY <2>1 DEF NodeRecord
    <3>2. u.self = r.self + a /\ u.total = r.total + b /\ u.self \in Int /\ u.total \in Int
      BY <2>1, <2>2, <3>1
    <3>3. u.key = r.key /\ u.parent = r.parent /\ u.level = r.level /\ u.first = r.first /\ u.leaf = r.leaf
      BY <2>2, <3>1
    <3>4. u \in NodeRecord
      BY <2>1, <2>2, <3>1, <3>2 DEF NodeRecord
    <3> QED BY <3>2, <3>3, <3>4
  <2> QED BY <2>3 DEF a, b, r, u
<1>6. Updated \in Seq(NodeRecord) /\ Len(Updated) = Len(nodes)
  <2>1. DOMAIN Updated = 1 .. Len(nodes)
    BY <1>1 DEF Updated
  <2>2. Updated \in [1 .. Len(nodes) -> NodeRecord]
    <3>1. Updated = [i \in 1 .. Len(nodes) |-> Updated[i]]
      BY <1>1 DEF Updated
    <3> DEFINE D == 1 .. Len(nodes)
    <3>2. \A i \in D : Updated[i] \in NodeRecord
      BY <1>5
    <3> HIDE DEF D
    <3>3. Updated = [i \in D |-> Updated[i]]
      BY <3>1 DEF D
    <3>4. Updated \in [D -> NodeRecord]
      BY <3>2, <3>3
    <3> QED BY <3>4 DEF D
  <2> QED BY <1>1, <2>1, <2>2
<1> QED BY <1>5, <1>6 DEF SameShape

\* The update keeps the totals of nodes and of frames equal to the sums they stand
\* for (aggregate_postponed and what ProcessModifications does with its result).
LEMMA TotalsUpdate ==
  ASSUME Tree(nodes), PostponedInv, NEW agg, Totals(nodes, agg)
  PROVE  Totals(Updated, Merge(agg, OnFrames(Accumulated)))
<1> DEFINE N == TopNode
           D == 0 .. N
           n2 == Updated
           f == SelfOf(nodes)
           f2 == SelfOf(n2)
<1>1. SameShape(nodes, n2)
  BY UpdatedFacts
<1>2. Len(n2) = Len(nodes) /\ Len(nodes) \in Nat /\ Len(n2) - 1 = N /\ Len(nodes) - 1 = N /\ Chain(nodes) /\ N \in Nat
  BY <1>1, TreeFacts DEF SameShape, Tree, Chain, TopNode
<1>3. \A m \in D : /\ n2[m + 1].self = nodes[m + 1].self + Get(postponed, m)
                   /\ n2[m + 1].total = nodes[m + 1].total + Get(Accumulated, m)
                   /\ n2[m + 1].key = nodes[m + 1].key
  <2>1. ASSUME NEW m \in D
        PROVE  /\ n2[m + 1].self = nodes[m + 1].self + Get(postponed, m)
               /\ n2[m + 1].total = nodes[m + 1].total + Get(Accumulated, m)
               /\ n2[m + 1].key = nodes[m + 1].key
    <3>1. m + 1 \in 1 .. Len(nodes) /\ (m + 1) - 1 = m
      BY <1>2
    <3> QED BY <1>1, <3>1, UpdatedFacts DEF SameShape
  <2> QED BY <2>1
<1>4. Chain(n2) /\ AboveOf(n2) = Above
  BY <1>1, SameTree DEF Above
<1> HIDE DEF n2
<1>5. PICK S : Sums(S, f, D) /\ \A U \in SUBSET D : SumOver(f, U) = S[U]
  BY SelfSums, <1>2
<1>6. PICK S2 : Sums(S2, f2, D) /\ \A U \in SUBSET D : SumOver(f2, U) = S2[U]
  BY SelfSums, <1>2, <1>4
<1>7. PICK G : Sums(G, Postponed, D)
  BY PostponedSums
<1>8. \A x \in D : f2[x] = f[x] + Postponed[x]
  BY <1>2, <1>3 DEF SelfOf, Postponed
<1>9. \A V \in SUBSET D : S2[V] = S[V] + G[V]
  <2> HIDE DEF D, f, f2
  <2> QED BY <1>5, <1>6, <1>7, <1>8, SumsPlus
<1>10. \A V \in SUBSET D : SumOver(f2, V) = SumOver(f, V) + G[V]
  BY <1>5, <1>6, <1>9
<1>11. ASSUME NEW n \in D PROVE n2[n + 1].total = SumOver(f2, DownIn(n2, n))
  <2>1. DownIn(n2, n) = DownFrom(n) /\ DownIn(nodes, n) = DownFrom(n) /\ DownFrom(n) \in SUBSET D
    BY <1>2, <1>4 DEF DownIn, DownFrom, Down, Above
  <2>2. nodes[n + 1].total = SumOver(f, DownFrom(n))
    BY <1>2, <2>1 DEF Totals
  <2>3. Get(Accumulated, n) = G[DownFrom(n)]
    BY <1>7, AccumulatedAt
  <2>4. SumOver(f2, DownFrom(n)) = SumOver(f, DownFrom(n)) + G[DownFrom(n)]
    BY <1>10, <2>1
  <2>5. n2[n + 1].total = nodes[n + 1].total + Get(Accumulated, n)
    BY <1>3
  <2> HIDE DEF f, f2
  <2> QED BY <2>1, <2>2, <2>3, <2>4, <2>5
<1>12. ASSUME NEW k \in Nat PROVE Get(Merge(agg, OnFrames(Accumulated)), k) = SumOver(f2, HoldersIn(n2, k))
  <2> DEFINE b == OnFrames(Accumulated)
  <2>1. HoldersIn(n2, k) = Holders(k) /\ HoldersIn(nodes, k) = Holders(k) /\ Holders(k) \in SUBSET D
    <3>1. \A m \in D : \A a \in Above[m] : n2[a + 1].key = nodes[a + 1].key
      <4>1. \A m \in D : Above[m] \in SUBSET D
        BY TreeFacts DEF Rooted
      <4> QED BY <1>3, <4>1
    <3> QED BY <1>2, <1>4, <3>1 DEF HoldersIn, Holders, Above, Node
  <2>2. Get(agg, k) = SumOver(f, Holders(k))
    BY <2>1 DEF Totals
  <2>3. Get(b, k) = G[Holders(k)]
    BY <1>7, OnFramesIs
  <2> HIDE DEF b
  <2>4. Get(Merge(agg, b), k) = Get(agg, k) + Get(b, k)
    BY DEF Merge, Get
  <2>5. SumOver(f2, Holders(k)) = SumOver(f, Holders(k)) + G[Holders(k)]
    BY <1>10, <2>1
  <2> HIDE DEF f, f2
  <2> QED BY <2>1, <2>2, <2>3, <2>4, <2>5 DEF b
<1>13. Totals(n2, Merge(agg, OnFrames(Accumulated)))
  BY <1>2, <1>11, <1>12 DEF Totals
<1> QED BY <1>13 DEF n2

\* Subtree and Below, as the model states them.
LEMMA SubtreeIs ==
  ASSUME Tree(nodes)
  PROVE  /\ \A n \in NodeIds(nodes) : Subtree(n) = DownIn(nodes, n)
         /\ \A k : Below(k) = HoldersIn(nodes, k)
         /\ SelfValue = SelfOf(nodes)
<1> DEFINE D == 0 .. Len(nodes) - 1
<1>1. NodeIds(nodes) = D /\ \A m \in D : AboveOf(nodes)[m] = ToSet(Backtrace(nodes, m))
  BY DEF NodeIds, AboveOf
<1>2. ASSUME NEW n \in D PROVE Subtree(n) = DownIn(nodes, n)
  BY <1>1 DEF Subtree, DownIn, Down
<1>3. ASSUME NEW k PROVE Below(k) = HoldersIn(nodes, k)
  <2>1. ASSUME NEW m \in D
        PROVE  k \in ToSet(PathTo(nodes, m)) <=> \E a \in ToSet(Backtrace(nodes, m)) : nodes[a + 1].key = k
    <3> DEFINE b == Backtrace(nodes, m)
               q == PathTo(nodes, m)
    <3>1. q = [i \in DOMAIN b |-> nodes[b[i] + 1].key]
      BY DEF PathTo
    <3>2. b \in Seq(D)
      BY BacktraceFacts DEF Tree
    <3> HIDE DEF b, q, D
    <3>3. DOMAIN b = 1 .. Len(b) /\ Len(b) \in Nat
      BY <3>2
    <3>4. ToSet(b) = {b[i] : i \in DOMAIN b} /\ ToSet(q) = {q[i] : i \in DOMAIN q}
      <4>1. DOMAIN q = DOMAIN b
        BY <3>1
      <4> QED BY <3>3, <4>1 DEF ToSet
    <3>5. k \in ToSet(q) <=> \E a \in ToSet(b) : nodes[a + 1].key = k
      BY <3>1, <3>4
    <3> QED BY <3>5 DEF b, q
  <2> QED BY <1>1, <2>1 DEF Below, HoldersIn
<1>4. SelfValue = SelfOf(nodes)
  BY DEF SelfValue, SelfOf, NodeIds, Node
<1> QED BY <1>1, <1>2, <1>3, <1>4

\* Totals are what GraphCorrect asks for.
LEMMA TotalsCorrect ==
  ASSUME Tree(nodes), Totals(nodes, frameAgg.total), DOMAIN frameAgg.total \subseteq Nat
  PROVE  GraphCorrect
<1>1. TotalsAreSubtrees
  <2> SUFFICES ASSUME NEW n \in NodeIds(nodes) PROVE Node(n).total = SumOver(SelfValue, Subtree(n))
    BY DEF TotalsAreSubtrees
  <2>1. nodes[n + 1].total = SumOver(SelfOf(nodes), DownIn(nodes, n))
    BY DEF Totals, NodeIds
  <2> QED BY <2>1, SubtreeIs DEF Node
<1>2. FramesCountPathsOnce
  <2> SUFFICES ASSUME NEW k \in DOMAIN frameAgg.total PROVE frameAgg.total[k] = SumOver(SelfValue, Below(k))
    BY DEF FramesCountPathsOnce
  <2>1. Get(frameAgg.total, k) = SumOver(SelfOf(nodes), HoldersIn(nodes, k))
    BY DEF Totals
  <2>2. Get(frameAgg.total, k) = frameAgg.total[k]
    BY DEF Get
  <2> QED BY <2>1, <2>2, SubtreeIs
<1> QED BY <1>1, <1>2 DEF GraphCorrect

-----------------------------------------------------------------------------
(* construct_path and add_node                                             *)

\* A node can be added below node p.
AddNode(ns, r) ==
  /\ r \in NodeRecord /\ r.parent \in 0 .. Len(ns) - 1 /\ r.key # 0
  /\ r.level = ns[r.parent + 1].level + 1
  /\ r.first <=> \A a \in AboveOf(ns)[r.parent] : ns[a + 1].key # r.key

\* A node added under an existing one, with the level and the flag first that
\* construct_path computes, makes a tree again.
LEMMA TreeGrows ==
  ASSUME NEW ns, Tree(ns), NEW r, AddNode(ns, r), NEW n2, n2 = Append(ns, r)
  PROVE  /\ Tree(n2) /\ Grown(ns, n2)
         /\ \A m \in 0 .. Len(ns) - 1 : AboveOf(n2)[m] = AboveOf(ns)[m]
         /\ AboveOf(n2)[Len(ns)] = AboveOf(ns)[r.parent] \cup {Len(ns)}
<1> DEFINE N == Len(ns)
           p == r.parent
<1>1. N \in Nat /\ N > 0 /\ Chain(ns) /\ ns \in Seq(NodeRecord) /\ r \in NodeRecord /\ p \in 0 .. N - 1
  BY DEF Tree, Chain, AddNode
<1>2. n2 \in Seq(NodeRecord) /\ Len(n2) = N + 1 /\ n2[N + 1] = r /\ \A i \in 1 .. N : n2[i] = ns[i]
  BY <1>1
<1>3. \A m \in 0 .. N - 1 : n2[m + 1] = ns[m + 1]
  <2> HIDE DEF N
  <2> QED BY <1>1, <1>2
<1>4. Grown(ns, n2)
  BY <1>1, <1>2, <1>3 DEF Grown
<1>5. \A m \in 1 .. N : m # N => m \in 1 .. N - 1
  <2> HIDE DEF N
  <2> QED BY <1>1
<1>6. Chain(n2)
  <2>1. n2[1].parent = 0
    <3>1. n2[1] = ns[1]
      BY <1>1, <1>2
    <3> QED BY <1>1, <3>1 DEF Chain
  <2>2. ASSUME NEW m \in 1 .. N PROVE n2[m + 1].parent \in 0 .. m - 1
    <3>1. CASE m = N
      BY <1>1, <1>2, <3>1
    <3>2. CASE m # N
      <4>1. m \in 1 .. N - 1 /\ m \in 0 .. N - 1
        BY <1>5, <3>2
      <4> QED BY <1>1, <1>3, <4>1 DEF Chain
    <3> QED BY <3>1, <3>2
  <2>3. Len(n2) > 0 /\ Len(n2) - 1 = N
    <3> HIDE DEF N
    <3> QED BY <1>1, <1>2
  <2> QED BY <1>2, <2>1, <2>2, <2>3 DEF Chain
<1>7. \A m \in 0 .. N - 1 : AboveOf(n2)[m] = AboveOf(ns)[m]
  <2>1. ASSUME NEW m \in 0 .. N - 1 PROVE AboveOf(n2)[m] = AboveOf(ns)[m]
    <3>1. Backtrace(n2, m) = Backtrace(ns, m)
      BY <1>1, <1>4, <1>6, SamePaths
    <3>2. m \in 0 .. Len(n2) - 1
      <4> HIDE DEF N
      <4> QED BY <1>1, <1>2
    <3> QED BY <3>1, <3>2 DEF AboveOf
  <2> QED BY <2>1
<1>8. AboveOf(n2)[N] = AboveOf(ns)[p] \cup {N}
  <2>1. Rooted(Len(n2) - 1, ParentOf(n2), AboveOf(n2))
    BY <1>6, ChainRooted
  <2>2. N \in 1 .. Len(n2) - 1 /\ N \in 0 .. Len(n2) - 1
    <3> HIDE DEF N
    <3> QED BY <1>1, <1>2
  <2>3. ParentOf(n2)[N] = p
    BY <1>2, <2>2 DEF ParentOf
  <2>4. AboveOf(n2)[N] = AboveOf(n2)[p] \cup {N}
    <3> HIDE DEF N, p
    <3> QED BY <2>1, <2>2, <2>3 DEF Rooted
  <2> QED BY <1>1, <1>7, <2>4
<1>9. Rooted(N - 1, ParentOf(ns), AboveOf(ns))
  BY <1>1, ChainRooted
<1>10. \A q \in 0 .. N - 1 : AboveOf(ns)[q] \in SUBSET (0 .. N - 1)
  BY <1>9 DEF Rooted
<1>11. \A q \in 0 .. N - 1 : \A a \in AboveOf(n2)[q] : n2[a + 1].key = ns[a + 1].key
  BY <1>3, <1>7, <1>10
<1>12. Tree(n2)
  <2>1. n2[1].level = 0 /\ n2[1].key = 0 /\ n2[1].first
    <3>1. n2[1] = ns[1]
      BY <1>1, <1>2
    <3> QED BY <3>1 DEF Tree
  <2>2. ASSUME NEW m \in 1 .. N
        PROVE  /\ n2[m + 1].level = n2[n2[m + 1].parent + 1].level + 1 /\ n2[m + 1].key # 0
               /\ n2[m + 1].first <=> \A a \in AboveOf(n2)[n2[m + 1].parent] : n2[a + 1].key # n2[m + 1].key
    <3>1. CASE m = N
      <4>1. n2[m + 1] = r /\ n2[p + 1] = ns[p + 1] /\ AboveOf(n2)[p] = AboveOf(ns)[p]
        BY <1>1, <1>2, <1>3, <1>7, <3>1
      <4>2. r.level = ns[p + 1].level + 1 /\ r.key # 0 /\ (r.first <=> \A a \in AboveOf(ns)[p] : ns[a + 1].key # r.key)
        BY DEF AddNode
      <4>3. \A a \in AboveOf(n2)[p] : n2[a + 1].key = ns[a + 1].key
        BY <1>1, <1>11
      <4>4. n2[m + 1].parent = p /\ n2[m + 1].level = n2[p + 1].level + 1 /\ n2[m + 1].key = r.key /\ r.key # 0
            /\ n2[m + 1].first = r.first
        BY <4>1, <4>2
      <4> HIDE DEF p
      <4>5. n2[m + 1].first <=> \A a \in AboveOf(n2)[p] : n2[a + 1].key # n2[m + 1].key
        <5>1. ASSUME NEW a \in AboveOf(n2)[p] PROVE n2[a + 1].key = n2[m + 1].key <=> ns[a + 1].key = r.key
          BY <4>3, <4>4, Zenon
        <5>2. AboveOf(n2)[p] = AboveOf(ns)[p]
          BY <4>1, Zenon
        <5>3. (\A a \in AboveOf(n2)[p] : n2[a + 1].key # n2[m + 1].key)
              <=> (\A a \in AboveOf(ns)[p] : ns[a + 1].key # r.key)
          BY <5>1, <5>2, Zenon
        <5> QED BY <4>2, <4>4, <5>3, Zenon
      <4> QED BY <4>4, <4>5
    <3>2. CASE m # N
      <4> DEFINE q == ns[m + 1].parent
      <4>1. m \in 1 .. N - 1 /\ m \in 0 .. N - 1 /\ q \in 0 .. m - 1 /\ q \in 0 .. N - 1
        <5>1. m \in 1 .. N - 1 /\ m \in 0 .. N - 1
          BY <1>5, <3>2
        <5>2. q \in 0 .. m - 1
          BY <1>1, <5>1 DEF Chain
        <5> HIDE DEF q, N
        <5> QED BY <1>1, <5>1, <5>2
      <4>2. n2[m + 1] = ns[m + 1] /\ n2[q + 1] = ns[q + 1] /\ AboveOf(n2)[q] = AboveOf(ns)[q]
        <5> HIDE DEF q
        <5> QED BY <1>3, <1>7, <4>1
      <4>3. /\ ns[m + 1].level = ns[q + 1].level + 1 /\ ns[m + 1].key # 0
            /\ ns[m + 1].first <=> \A a \in AboveOf(ns)[q] : ns[a + 1].key # ns[m + 1].key
        BY <4>1 DEF Tree
      <4>4. \A a \in AboveOf(n2)[q] : n2[a + 1].key = ns[a + 1].key
        <5> HIDE DEF q
        <5> QED BY <1>11, <4>1
      <4>5. n2[m + 1].parent = q /\ n2[m + 1].level = ns[m + 1].level /\ n2[m + 1].key = ns[m + 1].key
            /\ n2[m + 1].first = ns[m + 1].first /\ n2[q + 1].level = ns[q + 1].level
        BY <4>2
      <4> HIDE DEF q
      <4>6. n2[m + 1].first <=> \A a \in AboveOf(n2)[q] : n2[a + 1].key # n2[m + 1].key
        <5>1. ASSUME NEW a \in AboveOf(n2)[q] PROVE n2[a + 1].key = n2[m + 1].key <=> ns[a + 1].key = ns[m + 1].key
          BY <4>4, <4>5, Zenon
        <5>2. AboveOf(n2)[q] = AboveOf(ns)[q]
          BY <4>2, Zenon
        <5>3. (\A a \in AboveOf(n2)[q] : n2[a + 1].key # n2[m + 1].key)
              <=> (\A a \in AboveOf(ns)[q] : ns[a + 1].key # ns[m + 1].key)
          BY <5>1, <5>2, Zenon
        <5> QED BY <4>3, <4>5, <5>3, Zenon
      <4> QED BY <4>3, <4>5, <4>6
    <3> QED BY <3>1, <3>2
  <2>3. Len(n2) - 1 = N
    <3> HIDE DEF N
    <3> QED BY <1>1, <1>2
  <2> QED BY <1>6, <2>1, <2>2, <2>3 DEF Tree
<1> QED BY <1>4, <1>7, <1>8, <1>12

\* The keys on the path to a node.
KeysTo(ns, n) == {ns[a + 1].key : a \in AboveOf(ns)[n]}

EdgeRecord == [from : Nat, by : Nat, to : Nat]
EdgesFit(ns, es) ==
  \A e \in es : /\ e.from \in 0 .. Len(ns) - 1 /\ e.to \in 1 .. Len(ns) - 1
                /\ ns[e.to + 1].parent = e.from /\ ns[e.to + 1].key = e.by

\* Old nodes stay; new ones are no leafs, without values, of the frames F.
NewNodes(ns, n2, F) ==
  /\ Len(ns) <= Len(n2)
  /\ \A i \in 1 .. Len(ns) : n2[i] = ns[i]
  /\ \A i \in Len(ns) + 1 .. Len(n2) :
       ~n2[i].leaf /\ n2[i].self = 0 /\ n2[i].total = 0 /\ n2[i].key \in F

Descent(ns, F) ==
  {g \in [nodes : Seq(NodeRecord), edges : SUBSET EdgeRecord, node : Nat, path : Seq(Nat)] :
     /\ Tree(g.nodes) /\ NewNodes(ns, g.nodes, F) /\ EdgesFit(g.nodes, g.edges)
     /\ g.node \in 0 .. Len(g.nodes) - 1
     /\ ToSet(g.path) \cup {0} = KeysTo(g.nodes, g.node)}

\* The frames on the path to a node are those of its parent and its own.
LEMMA KeysBelow ==
  ASSUME NEW ns, Tree(ns), NEW c \in 1 .. Len(ns) - 1, NEW p, NEW k, ns[c + 1].parent = p, ns[c + 1].key = k
  PROVE  KeysTo(ns, c) = KeysTo(ns, p) \cup {k}
<1>1. Rooted(Len(ns) - 1, ParentOf(ns), AboveOf(ns))
  BY ChainRooted DEF Tree
<1>2. c \in 0 .. Len(ns) - 1
  OBVIOUS
<1>3. AboveOf(ns)[c] = AboveOf(ns)[ParentOf(ns)[c]] \cup {c} /\ ParentOf(ns)[c] = ns[c + 1].parent
  BY <1>1, <1>2 DEF Rooted, ParentOf
<1>4. AboveOf(ns)[c] = AboveOf(ns)[p] \cup {c}
  BY <1>3
<1> QED BY <1>4 DEF KeysTo

FrameIds(F) == F \subseteq Nat \ {0}

\* One frame.
LEMMA DescendKeeps ==
  ASSUME NEW ns, ns \in Seq(NodeRecord), NEW F, FrameIds(F), NEW g \in Descent(ns, F), NEW frame \in F
  PROVE  Descend(g, frame) \in Descent(ns, F) /\ Descend(g, frame).path = Append(g.path, frame)
<1> DEFINE edge == {e \in g.edges : e.from = g.node /\ e.by = frame}
           new == Len(g.nodes)
           r == [key |-> frame, parent |-> g.node, level |-> g.nodes[g.node + 1].level + 1, leaf |-> FALSE,
                 first |-> FirstOnPath(g.path, frame), self |-> 0, total |-> 0]
           h == Descend(g, frame)
           path == Append(g.path, frame)
<1>1. /\ g \in [nodes : Seq(NodeRecord), edges : SUBSET EdgeRecord, node : Nat, path : Seq(Nat)]
      /\ Tree(g.nodes) /\ NewNodes(ns, g.nodes, F) /\ EdgesFit(g.nodes, g.edges)
      /\ g.node \in 0 .. Len(g.nodes) - 1 /\ ToSet(g.path) \cup {0} = KeysTo(g.nodes, g.node)
  BY DEF Descent
<1>2. frame \in Nat /\ frame # 0 /\ path \in Seq(Nat) /\ g.path \in Seq(Nat)
  BY <1>1 DEF FrameIds
<1>3. ToSet(path) = ToSet(g.path) \cup {frame}
  BY <1>2, ToSetAppend
<1>4. CASE edge # {}
  <2> DEFINE e == CHOOSE x \in edge : TRUE
  <2>1. e \in edge
    BY <1>4
  <2>2. h = [nodes |-> g.nodes, edges |-> g.edges, node |-> e.to, path |-> path]
    <3> DEFINE c == e.to
    <3>1. h = [g EXCEPT !.path = path, !.node = c, !.edges = g.edges, !.nodes = g.nodes]
      BY <1>4 DEF Descend
    <3> HIDE DEF path, c
    <3> QED BY <1>1, <3>1 DEF c
  <2> HIDE DEF e, h, path
  <2>3. e.from = g.node /\ e.by = frame /\ e.to \in 1 .. Len(g.nodes) - 1 /\ g.nodes[e.to + 1].parent = g.node /\ g.nodes[e.to + 1].key = frame
    BY <1>1, <2>1 DEF EdgesFit
  <2>4. KeysTo(g.nodes, e.to) = KeysTo(g.nodes, g.node) \cup {frame}
    <3> DEFINE gn == g.nodes
               c == e.to
               p == g.node
    <3>1. Tree(gn) /\ c \in 1 .. Len(gn) - 1 /\ gn[c + 1].parent = p /\ gn[c + 1].key = frame
      BY <1>1, <2>3
    <3> HIDE DEF gn, c, p
    <3>2. KeysTo(gn, c) = KeysTo(gn, p) \cup {frame}
      BY <3>1, KeysBelow
    <3> QED BY <3>2 DEF gn, c, p
  <2>5. e.to \in Nat /\ e.to \in 0 .. Len(g.nodes) - 1
    BY <2>3
  <2>6. ToSet(path) \cup {0} = KeysTo(g.nodes, e.to)
    BY <1>1, <1>3, <2>4
  <2>7. /\ h.nodes = g.nodes /\ h.edges = g.edges /\ h.node = e.to /\ h.path = path
        /\ h \in [nodes : Seq(NodeRecord), edges : SUBSET EdgeRecord, node : Nat, path : Seq(Nat)]
    BY <1>1, <1>2, <2>2, <2>5
  <2>8. h \in Descent(ns, F)
    BY <1>1, <2>5, <2>6, <2>7 DEF Descent
  <2> QED BY <2>7, <2>8 DEF h, path
<1>5. CASE edge = {}
  <2> DEFINE n2 == Append(g.nodes, r)
             e2 == g.edges \cup {[from |-> g.node, by |-> frame, to |-> new]}
  <2>1. h = [nodes |-> n2, edges |-> e2, node |-> new, path |-> path]
    <3>1. h = [g EXCEPT !.path = path, !.node = new, !.edges = e2, !.nodes = n2]
      BY <1>5 DEF Descend
    <3> HIDE DEF path, new, e2, n2
    <3> QED BY <1>1, <3>1
  <2>2. new \in Nat /\ new > 0
    BY <1>1 DEF Tree, Chain
  <2>3. g.nodes[g.node + 1].level \in Nat
    <3>1. g.node + 1 \in 1 .. Len(g.nodes) /\ g.nodes \in Seq(NodeRecord)
      BY <1>1
    <3>2. g.nodes[g.node + 1] \in NodeRecord
      BY <3>1
    <3> QED BY <3>2 DEF NodeRecord
  <2>4. r \in NodeRecord
    <3> DEFINE b == FirstOnPath(g.path, frame)
               l == g.nodes[g.node + 1].level + 1
    <3>1. b \in BOOLEAN
      BY Zenon DEF FirstOnPath
    <3>2. l \in Nat /\ frame \in Nat /\ g.node \in Nat /\ 0 \in Int
      BY <1>1, <1>2, <2>3
    <3>3. r = [key |-> frame, parent |-> g.node, level |-> l, leaf |-> FALSE, first |-> b, self |-> 0, total |-> 0]
      OBVIOUS
    <3> HIDE DEF b, l, r
    <3> QED BY <3>1, <3>2, <3>3 DEF NodeRecord
  <2>5. r.key = frame /\ r.parent = g.node /\ ~r.leaf /\ r.self = 0 /\ r.total = 0 /\ r.level = g.nodes[g.node + 1].level + 1
    OBVIOUS
  <2>6. r.first <=> \A a \in AboveOf(g.nodes)[g.node] : g.nodes[a + 1].key # frame
    <3>1. r.first <=> frame \notin ToSet(g.path)
      BY DEF FirstOnPath
    <3>2. frame \in ToSet(g.path) <=> frame \in KeysTo(g.nodes, g.node)
      BY <1>1, <1>2
    <3> HIDE DEF r
    <3> QED BY <3>1, <3>2 DEF KeysTo
  <2> HIDE DEF r, h, path
  <2>7. AddNode(g.nodes, r)
    BY <1>1, <1>2, <2>4, <2>5, <2>6 DEF AddNode
  <2>8. /\ Tree(n2) /\ Grown(g.nodes, n2)
        /\ \A m \in 0 .. Len(g.nodes) - 1 : AboveOf(n2)[m] = AboveOf(g.nodes)[m]
        /\ AboveOf(n2)[Len(g.nodes)] = AboveOf(g.nodes)[r.parent] \cup {Len(g.nodes)}
    <3> HIDE DEF n2
    <3> QED BY <1>1, <2>7, TreeGrows DEF n2
  <2>9. /\ n2 \in Seq(NodeRecord) /\ Len(n2) = new + 1 /\ n2[new + 1] = r
        /\ \A i \in 1 .. new : n2[i] = g.nodes[i]
    BY <1>1, <2>4
  <2> HIDE DEF n2
  <2>10. NewNodes(ns, n2, F)
    <3>1. Len(ns) \in Nat /\ Len(ns) <= new
      BY <1>1 DEF NewNodes
    <3>2. \A i \in 1 .. Len(ns) : n2[i] = ns[i]
      <4>1. \A i \in 1 .. Len(ns) : i \in 1 .. new
        <5> HIDE DEF new
        <5> QED BY <2>2, <3>1
      <4> QED BY <1>1, <2>9, <4>1 DEF NewNodes
    <3>3. ASSUME NEW i \in Len(ns) + 1 .. Len(n2)
          PROVE  ~n2[i].leaf /\ n2[i].self = 0 /\ n2[i].total = 0 /\ n2[i].key \in F
      <4>1. CASE i = new + 1
        BY <2>5, <2>9, <4>1
      <4>2. CASE i # new + 1
        <5>1. i \in Len(ns) + 1 .. new /\ i \in 1 .. new
          <6> HIDE DEF new
          <6> QED BY <2>2, <2>9, <3>1, <4>2
        <5> QED BY <1>1, <2>9, <5>1 DEF NewNodes
      <4> QED BY <4>1, <4>2
    <3>4. Len(ns) <= Len(n2)
      <4> HIDE DEF new
      <4> QED BY <2>2, <2>9, <3>1
    <3> QED BY <3>2, <3>3, <3>4 DEF NewNodes
  <2>11. EdgesFit(n2, e2)
    <3>1. ASSUME NEW x \in e2
          PROVE  /\ x.from \in 0 .. Len(n2) - 1 /\ x.to \in 1 .. Len(n2) - 1
                 /\ n2[x.to + 1].parent = x.from /\ n2[x.to + 1].key = x.by
      <4>1. CASE x \in g.edges
        <5>1. /\ x.from \in 0 .. new - 1 /\ x.to \in 1 .. new - 1
              /\ g.nodes[x.to + 1].parent = x.from /\ g.nodes[x.to + 1].key = x.by
          BY <1>1, <4>1 DEF EdgesFit
        <5>2. x.to + 1 \in 1 .. new /\ x.from \in 0 .. Len(n2) - 1 /\ x.to \in 1 .. Len(n2) - 1
          <6> HIDE DEF new
          <6> QED BY <2>2, <2>9, <5>1
        <5> QED BY <2>9, <5>1, <5>2
      <4>2. CASE x = [from |-> g.node, by |-> frame, to |-> new]
        <5>1. x.from = g.node /\ x.by = frame /\ x.to = new
          BY <4>2
        <5>2. g.node \in 0 .. Len(n2) - 1 /\ new \in 1 .. Len(n2) - 1
          <6>1. g.node \in 0 .. new - 1
            BY <1>1
          <6> HIDE DEF new
          <6> QED BY <2>2, <2>9, <6>1
        <5> QED BY <2>5, <2>9, <5>1, <5>2
      <4> QED BY <4>1, <4>2
    <3> QED BY <3>1 DEF EdgesFit
  <2>12. ToSet(path) \cup {0} = KeysTo(n2, new)
    <3>1. new \in 1 .. Len(n2) - 1 /\ n2[new + 1].parent = g.node /\ n2[new + 1].key = frame
      <4>1. new \in 1 .. Len(n2) - 1
        <5> HIDE DEF new
        <5> QED BY <2>2, <2>9
      <4> QED BY <2>5, <2>9, <4>1
    <3>2. KeysTo(n2, new) = KeysTo(n2, g.node) \cup {frame}
      <4> DEFINE p == g.node
      <4>1. Tree(n2) /\ n2[new + 1].parent = p /\ n2[new + 1].key = frame
        BY <2>8, <3>1
      <4> HIDE DEF new, p
      <4>2. KeysTo(n2, new) = KeysTo(n2, p) \cup {frame}
        BY <3>1, <4>1, KeysBelow
      <4> QED BY <4>2 DEF p
    <3>3. KeysTo(n2, g.node) = KeysTo(g.nodes, g.node)
      <4>1. AboveOf(n2)[g.node] = AboveOf(g.nodes)[g.node]
        BY <1>1, <2>8
      <4>2. AboveOf(g.nodes)[g.node] \in SUBSET (0 .. Len(g.nodes) - 1)
        <5>1. Rooted(Len(g.nodes) - 1, ParentOf(g.nodes), AboveOf(g.nodes))
          BY <1>1, ChainRooted DEF Tree
        <5> QED BY <1>1, <5>1 DEF Rooted
      <4>3. \A a \in AboveOf(g.nodes)[g.node] : n2[a + 1].key = g.nodes[a + 1].key
        BY <2>8, <4>2 DEF Grown
      <4> QED BY <4>1, <4>3 DEF KeysTo
    <3> QED BY <1>1, <1>3, <3>2, <3>3
  <2>13. e2 \in SUBSET EdgeRecord
    BY <1>1, <1>2, <2>2 DEF EdgeRecord
  <2>14. new \in 0 .. Len(n2) - 1
    <3> HIDE DEF new
    <3> QED BY <2>2, <2>9
  <2> HIDE DEF e2, new
  <2>15. /\ h.nodes = n2 /\ h.edges = e2 /\ h.node = new /\ h.path = path
         /\ h \in [nodes : Seq(NodeRecord), edges : SUBSET EdgeRecord, node : Nat, path : Seq(Nat)]
    BY <1>2, <2>1, <2>2, <2>9, <2>13 DEF path
  <2>16. h \in Descent(ns, F)
    BY <2>8, <2>10, <2>11, <2>12, <2>14, <2>15 DEF Descent
  <2> QED BY <2>15, <2>16 DEF h, path
<1> QED BY <1>4, <1>5

\* The frames of a trace, one after the other.
LEMMA DescentLoop ==
  ASSUME NEW F, FrameIds(F), NEW frames \in Seq(F), NEW init \in Descent(nodes, F),
         nodes \in Seq(NodeRecord), NEW g,
         g = (CHOOSE f : f = [n \in 0 .. Len(frames) |-> IF n = 0 THEN init ELSE Descend(f[n - 1], frames[n])])
  PROVE  /\ g[Len(frames)] \in Descent(nodes, F)
         /\ ToSet(frames) \subseteq ToSet(g[Len(frames)].path)
<1> DEFINE L == Len(frames)
           D == 0 .. L
           S == Descent(nodes, F)
           step == [n \in 1 .. L |-> [x \in S |-> Descend(x, frames[n])]]
           Eqn(f) == f = [n \in D |-> IF n = 0 THEN init ELSE Descend(f[n - 1], frames[n])]
<1>1. L \in Nat /\ \A n \in 1 .. L : frames[n] \in F
  OBVIOUS
<1>2. \A n \in 1 .. L, x \in S : Descend(x, frames[n]) \in S /\ Descend(x, frames[n]).path = Append(x.path, frames[n])
  <2>1. ASSUME NEW n \in 1 .. L, NEW x \in S
        PROVE  Descend(x, frames[n]) \in S /\ Descend(x, frames[n]).path = Append(x.path, frames[n])
    <3> DEFINE frame == frames[n]
    <3>1. frame \in F
      BY <1>1
    <3> HIDE DEF frame
    <3>2. Descend(x, frame) \in S /\ Descend(x, frame).path = Append(x.path, frame)
      BY <3>1, DescendKeeps
    <3> QED BY <3>2 DEF frame
  <2> QED BY <2>1
<1>3. Loop(S, L, init, step)
  <2>1. step \in [1 .. L -> [S -> S]]
    <3> HIDE DEF L, S
    <3> QED BY <1>2
  <2> HIDE DEF L, S, step
  <2> QED BY <1>1, <2>1 DEF Loop, S
<1>4. \E f : Eqn(f)
  <2> HIDE DEF step, S, L
  <2>1. PICK f : Loops(f, S, L, init, step)
    BY <1>3, Iteration
  <2>2. f \in [D -> S] /\ f[0] = init /\ \A n \in 1 .. L : f[n] = step[n][f[n - 1]]
    BY <2>1 DEF Loops
  <2>3. ASSUME NEW n \in D PROVE f[n] = IF n = 0 THEN init ELSE Descend(f[n - 1], frames[n])
    <3>1. CASE n = 0
      BY <2>2, <3>1
    <3>2. CASE n # 0
      <4>1. n \in 1 .. L /\ n - 1 \in D
        BY <1>1, <3>2
      <4>2. f[n - 1] \in S
        <5> HIDE DEF D
        <5> QED BY <2>2, <4>1
      <4>3. step[n][f[n - 1]] = Descend(f[n - 1], frames[n])
        BY <4>1, <4>2 DEF step
      <4> QED BY <2>2, <3>2, <4>1, <4>3
    <3> QED BY <3>1, <3>2
  <2>4. Eqn(f)
    <3> HIDE DEF D
    <3> QED BY <2>2, <2>3
  <2> QED BY <2>4
<1>5. Eqn(g)
  <2>1. g = CHOOSE f : Eqn(f)
    OBVIOUS
  <2> HIDE DEF Eqn
  <2> QED BY <1>4, <2>1
<1>6. g[0] = init /\ \A n \in 1 .. L : g[n] = Descend(g[n - 1], frames[n])
  <2>1. 0 \in D /\ \A n \in 1 .. L : n \in D /\ n # 0
    <3> HIDE DEF L
    <3> QED BY <1>1
  <2>2. ASSUME NEW f, Eqn(f) PROVE f[0] = init /\ \A n \in 1 .. L : f[n] = Descend(f[n - 1], frames[n])
    <3> HIDE DEF D
    <3> QED BY <2>1, <2>2
  <2> HIDE DEF Eqn
  <2> QED BY <1>5, <2>2
<1> DEFINE T == {n \in Nat : n <= L => g[n] \in S /\ \A i \in 1 .. n : frames[i] \in ToSet(g[n].path)}
<1>7. 0 \in T
  <2> HIDE DEF L, S
  <2> QED BY <1>6 DEF S
<1>8. ASSUME NEW n \in Nat, n \in T PROVE n + 1 \in T
  <2> SUFFICES ASSUME n + 1 <= L
               PROVE  g[n + 1] \in S /\ \A i \in 1 .. n + 1 : frames[i] \in ToSet(g[n + 1].path)
    OBVIOUS
  <2> HIDE DEF L, S
  <2>1. n + 1 \in 1 .. L /\ (n + 1) - 1 = n /\ n <= L
    BY <1>1
  <2>2. g[n] \in S /\ \A i \in 1 .. n : frames[i] \in ToSet(g[n].path)
    BY <1>8, <2>1
  <2> HIDE DEF T
  <2>3. g[n + 1] = Descend(g[n], frames[n + 1])
    BY <1>6, <2>1
  <2>4. g[n + 1] \in S /\ g[n + 1].path = Append(g[n].path, frames[n + 1])
    BY <1>2, <2>1, <2>2, <2>3
  <2>5. g[n].path \in Seq(Nat)
    BY <2>2 DEF S, Descent
  <2>6. ToSet(g[n + 1].path) = ToSet(g[n].path) \cup {frames[n + 1]}
    BY <2>4, <2>5, ToSetAppend
  <2>7. \A i \in 1 .. n + 1 : frames[i] \in ToSet(g[n + 1].path)
    <3>1. ASSUME NEW i \in 1 .. n + 1 PROVE frames[i] \in ToSet(g[n + 1].path)
      <4>1. CASE i = n + 1
        BY <2>6, <4>1
      <4>2. CASE i # n + 1
        <5>1. i \in 1 .. n
          BY <4>2
        <5> QED BY <2>2, <2>6, <5>1
      <4> QED BY <4>1, <4>2
    <3> QED BY <3>1
  <2> QED BY <2>4, <2>7
<1>9. \A n \in Nat : n \in T
  <2> HIDE DEF T
  <2> QED BY <1>7, <1>8, Induction
<1>10. g[L] \in S /\ \A i \in 1 .. L : frames[i] \in ToSet(g[L].path)
  <2>1. L \in T
    <3> HIDE DEF T, L
    <3> QED BY <1>1, <1>9
  <2> HIDE DEF L, S
  <2> QED BY <1>1, <2>1
<1>11. \A x \in ToSet(frames) : \E i \in 1 .. L : frames[i] = x
  <2>1. DOMAIN frames = 1 .. L
    OBVIOUS
  <2> QED BY <2>1 DEF ToSet
<1> HIDE DEF L, S
<1>12. ToSet(frames) \subseteq ToSet(g[L].path)
  BY <1>10, <1>11
<1> QED BY <1>10, <1>12 DEF L, S

Marked(ns) == {m \in 0 .. Len(ns) - 1 : ns[m + 1].leaf}
KeysOf(ns) == {ns[m + 1].key : m \in 0 .. Len(ns) - 1}

\* What construct_path does: the tree grows by nodes without values and one
\* node is marked as a leaf; frames that no node had make it a new node.
Constructed(c, F, frames) ==
  /\ Tree(c.nodes) /\ Extended(nodes, c.nodes)
  /\ c.edges \in SUBSET EdgeRecord /\ EdgesFit(c.nodes, c.edges)
  /\ c.node \in 0 .. Len(c.nodes) - 1
  /\ Marked(c.nodes) = Marked(nodes) \cup {c.node}
  /\ c.newLeafs = IF c.node \in Marked(nodes) THEN newLeafs ELSE newLeafs \cup {c.node}
  /\ KeysOf(c.nodes) \subseteq KeysOf(nodes) \cup F
  /\ c.node \in Marked(nodes) => ToSet(frames) \subseteq KeysOf(nodes)

\* construct_path keeps the tree and ends in a node whose path has the frames of
\* the trace; only nodes without values are added.
LEMMA ConstructPathIs ==
  ASSUME NEW F, FrameIds(F), NEW frames \in Seq(F),
         Tree(nodes), edges \in SUBSET EdgeRecord, EdgesFit(nodes, edges)
  PROVE  Constructed(ConstructPath(frames), F, frames)
<1> DEFINE init == [nodes |-> nodes, edges |-> edges, node |-> 0, path |-> <<>>]
           L == Len(frames)
           g == CHOOSE f : f = [n \in 0 .. Len(frames) |-> IF n = 0 THEN init ELSE Descend(f[n - 1], frames[n])]
           h == g[L]
           leaf == h.node + 1
           c == ConstructPath(frames)
           n2 == [h.nodes EXCEPT ![leaf].leaf = TRUE]
<1>1. nodes \in Seq(NodeRecord) /\ Len(nodes) \in Nat /\ Len(nodes) > 0 /\ Chain(nodes)
  BY DEF Tree, Chain
<1>2. init \in Descent(nodes, F)
  <2>1. /\ init \in [nodes : Seq(NodeRecord), edges : SUBSET EdgeRecord, node : Nat, path : Seq(Nat)]
        /\ init.nodes = nodes /\ init.edges = edges /\ init.node = 0 /\ init.path = <<>>
    BY <1>1
  <2>2. NewNodes(nodes, nodes, F)
    BY <1>1 DEF NewNodes
  <2>3. 0 \in 0 .. Len(nodes) - 1
    BY <1>1
  <2>4. ToSet(<<>>) \cup {0} = KeysTo(nodes, 0)
    <3>1. AboveOf(nodes)[0] = {0}
      BY <1>1, ChainRooted DEF Rooted
    <3>2. nodes[0 + 1].key = 0
      BY DEF Tree
    <3>3. ToSet(<<>>) = {}
      BY DEF ToSet
    <3> QED BY <3>1, <3>2, <3>3 DEF KeysTo
  <2> HIDE DEF init
  <2> QED BY <2>1, <2>2, <2>3, <2>4 DEF Descent
<1>3. c = [node |-> h.node, edges |-> h.edges, nodes |-> n2,
           newLeafs |-> IF h.nodes[leaf].leaf THEN newLeafs ELSE newLeafs \cup {h.node}]
  BY DEF ConstructPath
<1> HIDE DEF init, c
<1>4. h \in Descent(nodes, F) /\ ToSet(frames) \subseteq ToSet(h.path)
  <2> HIDE DEF g
  <2> QED BY <1>1, <1>2, DescentLoop DEF g
<1> HIDE DEF h
<1>5. /\ h.nodes \in Seq(NodeRecord) /\ h.edges \in SUBSET EdgeRecord /\ h.path \in Seq(Nat)
      /\ Tree(h.nodes) /\ NewNodes(nodes, h.nodes, F) /\ EdgesFit(h.nodes, h.edges)
      /\ h.node \in 0 .. Len(h.nodes) - 1
      /\ ToSet(h.path) \cup {0} = KeysTo(h.nodes, h.node)
  BY <1>4 DEF Descent
<1>6. leaf \in 1 .. Len(h.nodes) /\ Len(h.nodes) \in Nat
  BY <1>5
<1>7. /\ Len(n2) = Len(h.nodes) /\ n2 \in Seq(NodeRecord)
      /\ \A i \in 1 .. Len(h.nodes) :
           /\ n2[i].key = h.nodes[i].key /\ n2[i].parent = h.nodes[i].parent
           /\ n2[i].level = h.nodes[i].level /\ n2[i].first = h.nodes[i].first
           /\ n2[i].self = h.nodes[i].self /\ n2[i].total = h.nodes[i].total
           /\ n2[i].leaf <=> h.nodes[i].leaf \/ i = leaf
  <2> DEFINE hn == h.nodes
             K == 1 .. Len(hn)
             r == [hn[leaf] EXCEPT !.leaf = TRUE]
  <2>1. hn \in Seq(NodeRecord) /\ DOMAIN hn = K /\ leaf \in K /\ Len(hn) \in Nat
    BY <1>5, <1>6
  <2>2. n2 = [i \in K |-> IF i = leaf THEN r ELSE hn[i]]
    <3> HIDE DEF K, leaf
    <3> QED BY <2>1
  <2>3. \A i \in K : hn[i] \in NodeRecord
    BY <2>1
  <2>4. /\ r \in NodeRecord /\ r.key = hn[leaf].key /\ r.parent = hn[leaf].parent /\ r.level = hn[leaf].level
        /\ r.first = hn[leaf].first /\ r.self = hn[leaf].self /\ r.total = hn[leaf].total /\ r.leaf
    <3> DEFINE x == hn[leaf]
    <3>1. x \in NodeRecord
      <4> HIDE DEF hn, leaf, K
      <4> QED BY <2>1, <2>3
    <3> HIDE DEF x
    <3>2. r = [x EXCEPT !.leaf = TRUE]
      BY DEF x
    <3> HIDE DEF r
    <3>3. /\ r \in NodeRecord /\ r.key = x.key /\ r.parent = x.parent /\ r.level = x.level
          /\ r.first = x.first /\ r.self = x.self /\ r.total = x.total /\ r.leaf
      BY <3>1, <3>2 DEF NodeRecord
    <3> QED BY <3>3 DEF x
  <2> HIDE DEF n2, r, hn, leaf
  <2>5. n2 \in [K -> NodeRecord]
    <3> HIDE DEF K
    <3> QED BY <2>2, <2>3, <2>4
  <2>6. Len(n2) = Len(hn) /\ n2 \in Seq(NodeRecord)
    BY <2>1, <2>5
  <2>7. ASSUME NEW i \in K
        PROVE  /\ n2[i].key = hn[i].key /\ n2[i].parent = hn[i].parent
               /\ n2[i].level = hn[i].level /\ n2[i].first = hn[i].first
               /\ n2[i].self = hn[i].self /\ n2[i].total = hn[i].total
               /\ n2[i].leaf <=> hn[i].leaf \/ i = leaf
    <3> HIDE DEF K
    <3>1. CASE i = leaf
      BY <2>2, <2>4, <3>1
    <3>2. CASE i # leaf
      <4>1. n2[i] = hn[i]
        BY <2>2, <3>2
      <4> QED BY <3>2, <4>1, Zenon
    <3> QED BY <3>1, <3>2
  <2> QED BY <2>6, <2>7 DEF hn
<1> HIDE DEF n2
<1>8. Chain(n2) /\ Tree(n2)
  <2>1. SameShape(h.nodes, n2)
    BY <1>7 DEF SameShape
  <2> QED BY <1>5, <2>1, SameTree
<1>9. Len(nodes) <= Len(h.nodes) /\ (\A i \in 1 .. Len(nodes) : h.nodes[i] = nodes[i] /\ i \in 1 .. Len(h.nodes))
      /\ \A i \in Len(nodes) + 1 .. Len(h.nodes) :
           /\ ~h.nodes[i].leaf /\ h.nodes[i].self = 0 /\ h.nodes[i].total = 0 /\ h.nodes[i].key \in F
           /\ i \in 1 .. Len(h.nodes)
  <2>1. Len(nodes) <= Len(h.nodes)
    BY <1>5 DEF NewNodes
  <2> QED BY <1>1, <1>5, <1>6, <2>1 DEF NewNodes
<1>10. \A m \in 0 .. Len(nodes) - 1 : m + 1 \in 1 .. Len(nodes)
  BY <1>1
<1>11. \A m \in Len(nodes) .. Len(n2) - 1 : m + 1 \in Len(nodes) + 1 .. Len(h.nodes)
  BY <1>1, <1>6, <1>7
<1>12. Extended(nodes, n2)
  <2>1. \A m \in 0 .. Len(nodes) - 1 :
          /\ n2[m + 1].parent = nodes[m + 1].parent /\ n2[m + 1].key = nodes[m + 1].key
          /\ n2[m + 1].self = nodes[m + 1].self /\ n2[m + 1].total = nodes[m + 1].total
    <3> SUFFICES ASSUME NEW i \in 1 .. Len(nodes)
                 PROVE  /\ n2[i].parent = nodes[i].parent /\ n2[i].key = nodes[i].key
                        /\ n2[i].self = nodes[i].self /\ n2[i].total = nodes[i].total
      BY <1>10
    <3>1. h.nodes[i] = nodes[i] /\ i \in 1 .. Len(h.nodes)
      BY <1>9
    <3> QED BY <1>7, <3>1
  <2>2. \A m \in Len(nodes) .. Len(n2) - 1 : n2[m + 1].self = 0 /\ n2[m + 1].total = 0
    BY <1>7, <1>9, <1>11
  <2> QED BY <1>7, <1>9, <2>1, <2>2 DEF Extended, Grown
<1>13. EdgesFit(n2, h.edges)
  <2>1. ASSUME NEW e \in h.edges
        PROVE  /\ e.from \in 0 .. Len(n2) - 1 /\ e.to \in 1 .. Len(n2) - 1
               /\ n2[e.to + 1].parent = e.from /\ n2[e.to + 1].key = e.by
    <3>1. /\ e.from \in 0 .. Len(h.nodes) - 1 /\ e.to \in 1 .. Len(h.nodes) - 1
          /\ h.nodes[e.to + 1].parent = e.from /\ h.nodes[e.to + 1].key = e.by
      BY <1>5 DEF EdgesFit
    <3>2. e.to + 1 \in 1 .. Len(h.nodes)
      BY <1>6, <3>1
    <3> QED BY <1>7, <3>1, <3>2
  <2> QED BY <2>1 DEF EdgesFit
<1>14. ASSUME NEW m \in 0 .. Len(n2) - 1 PROVE m \in Marked(n2) <=> m \in Marked(nodes) \/ m = h.node
  <2>1. m + 1 \in 1 .. Len(h.nodes) /\ (m + 1 = leaf <=> m = h.node)
    BY <1>5, <1>6, <1>7
  <2>2. n2[m + 1].leaf <=> h.nodes[m + 1].leaf \/ m = h.node
    BY <1>7, <2>1
  <2>3. h.nodes[m + 1].leaf <=> m \in Marked(nodes)
    <3>1. CASE m \in 0 .. Len(nodes) - 1
      BY <1>9, <1>10, <3>1 DEF Marked
    <3>2. CASE m \notin 0 .. Len(nodes) - 1
      <4>1. m \in Len(nodes) .. Len(n2) - 1
        BY <1>1, <3>2
      <4> QED BY <1>9, <1>11, <3>2, <4>1 DEF Marked
    <3> QED BY <3>1, <3>2
  <2> QED BY <2>2, <2>3 DEF Marked
<1>15. Marked(n2) = Marked(nodes) \cup {h.node}
  <2>1. Marked(n2) \subseteq 0 .. Len(n2) - 1
    BY DEF Marked
  <2>2. Marked(nodes) \subseteq 0 .. Len(n2) - 1 /\ h.node \in 0 .. Len(n2) - 1
    BY <1>1, <1>5, <1>6, <1>7, <1>9 DEF Marked
  <2> QED BY <1>14, <2>1, <2>2
<1>16. h.nodes[leaf].leaf <=> h.node \in Marked(nodes)
  <2>1. CASE h.node \in 0 .. Len(nodes) - 1
    BY <1>9, <1>10, <2>1 DEF Marked
  <2>2. CASE h.node \notin 0 .. Len(nodes) - 1
    <3>1. h.node \in Len(nodes) .. Len(n2) - 1
      BY <1>1, <1>5, <1>7, <2>2
    <3> QED BY <1>9, <1>11, <2>2, <3>1 DEF Marked
  <2> QED BY <2>1, <2>2
<1>17. KeysOf(n2) \subseteq KeysOf(nodes) \cup F
  <2>1. ASSUME NEW m \in 0 .. Len(n2) - 1 PROVE n2[m + 1].key \in KeysOf(nodes) \cup F
    <3>1. CASE m \in 0 .. Len(nodes) - 1
      BY <1>7, <1>9, <1>10, <3>1 DEF KeysOf
    <3>2. CASE m \notin 0 .. Len(nodes) - 1
      <4>1. m \in Len(nodes) .. Len(n2) - 1
        BY <1>1, <3>2
      <4> QED BY <1>7, <1>9, <1>11, <4>1
    <3> QED BY <3>1, <3>2
  <2> QED BY <2>1 DEF KeysOf
<1>18. ASSUME h.node \in Marked(nodes) PROVE ToSet(frames) \subseteq KeysOf(nodes)
  <2>1. h.node \in 0 .. Len(nodes) - 1
    BY <1>18 DEF Marked
  <2>2. \A m \in 0 .. Len(nodes) - 1 : h.nodes[m + 1] = nodes[m + 1]
    BY <1>9, <1>10
  <2>3. AboveOf(h.nodes)[h.node] \in SUBSET (0 .. h.node)
    <3>1. Rooted(Len(h.nodes) - 1, ParentOf(h.nodes), AboveOf(h.nodes))
      BY <1>5, ChainRooted DEF Tree
    <3> QED BY <1>5, <3>1, UpBounds
  <2>4. \A a \in AboveOf(h.nodes)[h.node] : a \in 0 .. Len(nodes) - 1 /\ h.nodes[a + 1].key \in KeysOf(nodes)
    <3>1. \A a \in AboveOf(h.nodes)[h.node] : a \in 0 .. Len(nodes) - 1
      BY <1>1, <2>1, <2>3
    <3> QED BY <2>2, <3>1 DEF KeysOf
  <2>5. KeysTo(h.nodes, h.node) \subseteq KeysOf(nodes)
    BY <2>4 DEF KeysTo
  <2> QED BY <1>4, <1>5, <2>5
<1>19. /\ c.nodes = n2 /\ c.edges = h.edges /\ c.node = h.node
       /\ c.newLeafs = IF h.nodes[leaf].leaf THEN newLeafs ELSE newLeafs \cup {h.node}
  BY <1>3
<1>20. h.node \in 0 .. Len(n2) - 1
  BY <1>5, <1>7
<1>21. Constructed(c, F, frames)
  <2>1. c.newLeafs = IF c.node \in Marked(nodes) THEN newLeafs ELSE newLeafs \cup {c.node}
    <3> HIDE DEF leaf
    <3> QED BY <1>16, <1>19
  <2> QED BY <1>5, <1>8, <1>12, <1>13, <1>15, <1>17, <1>18, <1>19, <1>20, <2>1 DEF Constructed
<1> QED BY <1>21 DEF c

-----------------------------------------------------------------------------
(* FrameLocalizer                                                          *)

AllNames == Names \cup {Predefined[i] : i \in DOMAIN Predefined}
NamesOk(ns) == ns \in Seq(AllNames) /\ Len(ns) >= 3 /\ \A i \in 1 .. 3 : ns[i] \notin Names
Ranges == UNION {[A -> Seq(Nat)] : A \in SUBSET Addrs}
LocalizerState == [names : Seq(AllNames), ranges : Ranges, pending : SUBSET Nat, ids : Seq(Nat)]

\* The ids that names got since l0 are reported, and are the ids of an address.
Added(l0, l) ==
  /\ l \in LocalizerState /\ NamesOk(l.names)
  /\ l.ranges = l0.ranges
  /\ Len(l0.names) <= Len(l.names)
  /\ l.pending = l0.pending \cup (Len(l0.names) .. Len(l.names) - 1)
  /\ Len(l0.names) .. Len(l.names) - 1 \subseteq ToSet(l.ids)
  /\ ToSet(l.ids) \subseteq 1 .. Len(l.names) - 1

\* Looking up or adding one name keeps the names distinct, and the id is one of a
\* name that is there.
LEMMA AddNameKeeps ==
  ASSUME NEW l0, l0 \in LocalizerState, NEW l, Added(l0, l), NEW name \in Names
  PROVE  Added(l0, AddName(l, name))
<1> DEFINE N == Len(l.names)
           new == IF name \in ToSet(l.names) THEN l
                  ELSE [l EXCEPT !.names = Append(@, name), !.pending = @ \cup {N}]
           i == CHOOSE j \in DOMAIN new.names : new.names[j] = name
           M == Len(new.names)
           r == AddName(l, name)
<1>1. /\ l \in LocalizerState /\ NamesOk(l.names) /\ l.names \in Seq(AllNames) /\ N \in Nat /\ N >= 3
      /\ l.ids \in Seq(Nat) /\ l.pending \in SUBSET Nat /\ l.ranges \in Ranges
      /\ Len(l0.names) \in Nat /\ Len(l0.names) <= N
  BY DEF Added, LocalizerState, NamesOk
<1>2. r = [new EXCEPT !.ids = Append(@, i - 1)]
  BY DEF AddName, Reported
<1>3. /\ new \in LocalizerState /\ NamesOk(new.names) /\ new.ids = l.ids /\ new.ranges = l.ranges
      /\ M \in Nat /\ N <= M /\ new.pending = l.pending \cup (N .. M - 1)
      /\ \E j \in 1 .. M : new.names[j] = name
      /\ \A j \in 1 .. M : new.names[j] = name => \A k \in N .. M - 1 : k = j - 1
  <2>1. CASE name \in ToSet(l.names)
    <3>1. new = l
      BY <2>1
    <3>2. \E j \in 1 .. N : l.names[j] = name
      <4>1. DOMAIN l.names = 1 .. N
        BY <1>1
      <4> QED BY <2>1, <4>1 DEF ToSet
    <3>3. N .. N - 1 = {}
      <4> HIDE DEF N
      <4> QED BY <1>1
    <3> HIDE DEF new
    <3> QED BY <1>1, <3>1, <3>2, <3>3
  <2>2. CASE name \notin ToSet(l.names)
    <3> DEFINE ns == Append(l.names, name)
               ps == l.pending \cup {N}
    <3>1. name \in AllNames
      BY DEF AllNames
    <3>2. ns \in Seq(AllNames) /\ Len(ns) = N + 1 /\ ns[N + 1] = name /\ \A j \in 1 .. N : ns[j] = l.names[j]
      BY <1>1, <3>1
    <3>3. new = [l EXCEPT !.names = ns, !.pending = ps]
      BY <2>2
    <3>4. ps \in SUBSET Nat
      BY <1>1
    <3> HIDE DEF new, ns, ps
    <3>5. new \in LocalizerState /\ new.names = ns /\ new.ids = l.ids /\ new.ranges = l.ranges /\ new.pending = ps
      BY <1>1, <3>2, <3>3, <3>4 DEF LocalizerState
    <3>6. NamesOk(ns)
      <4>1. \A j \in 1 .. 3 : j \in 1 .. N /\ l.names[j] \notin Names
        BY <1>1 DEF NamesOk
      <4>2. \A j \in 1 .. 3 : ns[j] \notin Names
        BY <3>2, <4>1
      <4> QED BY <1>1, <3>2, <4>2 DEF NamesOk
    <3>7. N .. (N + 1) - 1 = {N}
      <4> HIDE DEF N
      <4> QED BY <1>1
    <3>8. \A j \in 1 .. N : ns[j] # name
      <4>1. DOMAIN l.names = 1 .. N
        BY <1>1
      <4>2. \A j \in 1 .. N : l.names[j] # name
        BY <2>2, <4>1 DEF ToSet
      <4> QED BY <3>2, <4>2
    <3>9. \A j \in 1 .. N + 1 : ns[j] = name => j = N + 1
      <4> HIDE DEF N
      <4> QED BY <1>1, <3>8
    <3>10. \A j \in 1 .. M : new.names[j] = name => \A k \in N .. M - 1 : k = j - 1
      BY <1>1, <3>2, <3>5, <3>7, <3>9
    <3>11. \E j \in 1 .. M : new.names[j] = name
      <4>1. N + 1 \in 1 .. M
        BY <1>1, <3>2, <3>5
      <4> QED BY <3>2, <3>5, <4>1
    <3>12. M \in Nat /\ N <= M /\ M = N + 1
      BY <1>1, <3>2, <3>5
    <3> QED BY <3>5, <3>6, <3>7, <3>10, <3>11, <3>12 DEF ps
  <2> QED BY <2>1, <2>2
<1> HIDE DEF new
<1>4. new.names \in Seq(AllNames) /\ DOMAIN new.names = 1 .. M /\ new.ids \in Seq(Nat) /\ new.pending \in SUBSET Nat /\ M >= 3
  BY <1>3 DEF LocalizerState, NamesOk
<1>5. i \in 1 .. M /\ new.names[i] = name
  <2>1. \E j \in DOMAIN new.names : new.names[j] = name
    BY <1>3, <1>4
  <2> QED BY <1>4, <2>1
<1> HIDE DEF i
<1>6. i # 1 /\ i - 1 \in 1 .. M - 1 /\ i - 1 \in Nat
  <2>1. new.names[1] # name
    BY <1>3 DEF NamesOk
  <2>2. i # 1
    BY <1>5, <2>1
  <2> HIDE DEF M
  <2> QED BY <1>3, <1>5, <2>2
<1> DEFINE ids == Append(new.ids, i - 1)
<1>7. ids \in Seq(Nat) /\ ToSet(ids) = ToSet(new.ids) \cup {i - 1}
  <2>1. ids \in Seq(Nat)
    BY <1>4, <1>6
  <2> QED BY <1>4, <2>1, ToSetAppend
<1>8. /\ r \in LocalizerState /\ r.names = new.names /\ r.ranges = new.ranges /\ r.pending = new.pending /\ r.ids = ids
  <2>1. r = [new EXCEPT !.ids = ids]
    BY <1>2
  <2> HIDE DEF ids, r
  <2> QED BY <1>3, <1>7, <2>1 DEF LocalizerState
<1> HIDE DEF r, ids
<1> DEFINE N0 == Len(l0.names)
<1>9. N0 .. N - 1 \subseteq ToSet(l.ids) /\ ToSet(l.ids) \subseteq 1 .. N - 1 /\ l.pending = l0.pending \cup (N0 .. N - 1)
      /\ l.ranges = l0.ranges
  BY DEF Added
<1>10. \A k \in N0 .. M - 1 : k \in N0 .. N - 1 \/ k = i - 1
  <2>1. \A k \in N .. M - 1 : k = i - 1
    BY <1>3, <1>5
  <2>2. N0 \in Nat /\ N \in Nat /\ M \in Nat /\ N0 <= N
    BY <1>1, <1>3
  <2> HIDE DEF N0, N, M
  <2> QED BY <2>1, <2>2
<1>11. (N0 .. N - 1) \cup (N .. M - 1) = N0 .. M - 1 /\ 1 .. N - 1 \subseteq 1 .. M - 1
  <2>1. N0 \in Nat /\ N \in Nat /\ M \in Nat /\ N0 <= N /\ N <= M
    BY <1>1, <1>3
  <2> HIDE DEF N0, N, M
  <2> QED BY <2>1
<1>12. N0 <= M
  <2>1. N0 \in Nat /\ N \in Nat /\ M \in Nat /\ N0 <= N /\ N <= M
    BY <1>1, <1>3
  <2> HIDE DEF N0, N, M
  <2> QED BY <2>1
<1>13. r.pending = l0.pending \cup (N0 .. M - 1)
  <2> HIDE DEF N0, N, M
  <2> QED BY <1>3, <1>8, <1>9, <1>11
<1>14. N0 .. M - 1 \subseteq ToSet(ids)
  <2> HIDE DEF N0, N, M
  <2> QED BY <1>3, <1>7, <1>9, <1>10
<1>15. ToSet(ids) \subseteq 1 .. M - 1
  <2> HIDE DEF N0, N, M
  <2> QED BY <1>3, <1>6, <1>7, <1>9, <1>11
<1>16. Len(r.names) = M /\ NamesOk(r.names) /\ r.ranges = l0.ranges
  BY <1>3, <1>8, <1>9
<1>17. Added(l0, r)
  <2> HIDE DEF M
  <2> QED BY <1>8, <1>12, <1>13, <1>14, <1>15, <1>16 DEF Added
<1> QED BY <1>17 DEF r

\* The same for all the names of an address.
LEMMA AddNamesIs ==
  ASSUME NEW l0, Added(l0, l0), NEW symbols \in Seq(Names)
  PROVE  Added(l0, AddNames(l0, symbols))
<1> DEFINE L == Len(symbols)
           D == 0 .. L
           S == {l \in LocalizerState : Added(l0, l)}
           step == [n \in 1 .. L |-> [l \in S |-> AddName(l, symbols[n])]]
           Eqn(f) == f = [n \in D |-> IF n = 0 THEN l0 ELSE AddName(f[n - 1], symbols[n])]
<1>1. L \in Nat /\ \A n \in 1 .. L : symbols[n] \in Names
  OBVIOUS
<1>2. \A n \in 1 .. L, l \in S : AddName(l, symbols[n]) \in S
  <2>1. ASSUME NEW n \in 1 .. L, NEW l \in S PROVE AddName(l, symbols[n]) \in S
    <3> DEFINE name == symbols[n]
    <3>1. name \in Names /\ Added(l0, l) /\ l0 \in LocalizerState
      BY <1>1 DEF Added
    <3> HIDE DEF name
    <3>2. Added(l0, AddName(l, name))
      BY <3>1, AddNameKeeps
    <3>3. Added(l0, AddName(l, symbols[n]))
      BY <3>2 DEF name
    <3> QED BY <3>3 DEF Added
  <2> QED BY <2>1
<1>3. l0 \in S
  BY DEF Added
<1>4. Loop(S, L, l0, step)
  <2>1. step \in [1 .. L -> [S -> S]]
    <3> HIDE DEF L, S
    <3> QED BY <1>2
  <2> HIDE DEF L, S, step
  <2> QED BY <1>1, <1>3, <2>1 DEF Loop
<1>5. \E f : Eqn(f)
  <2> HIDE DEF step, S, L
  <2>1. PICK f : Loops(f, S, L, l0, step)
    BY <1>4, Iteration
  <2>2. f \in [D -> S] /\ f[0] = l0 /\ \A n \in 1 .. L : f[n] = step[n][f[n - 1]]
    BY <2>1 DEF Loops
  <2>3. ASSUME NEW n \in D PROVE f[n] = IF n = 0 THEN l0 ELSE AddName(f[n - 1], symbols[n])
    <3>1. CASE n = 0
      BY <2>2, <3>1
    <3>2. CASE n # 0
      <4>1. n \in 1 .. L /\ n - 1 \in D
        BY <1>1, <3>2
      <4>2. f[n - 1] \in S
        <5> HIDE DEF D
        <5> QED BY <2>2, <4>1
      <4>3. step[n][f[n - 1]] = AddName(f[n - 1], symbols[n])
        BY <4>1, <4>2 DEF step
      <4> QED BY <2>2, <3>2, <4>1, <4>3
    <3> QED BY <3>1, <3>2
  <2>4. Eqn(f)
    <3> HIDE DEF D
    <3> QED BY <2>2, <2>3
  <2> QED BY <2>4
<1> DEFINE g == CHOOSE f : Eqn(f)
<1>6. Eqn(g)
  <2> HIDE DEF Eqn
  <2> QED BY <1>5
<1>7. AddNames(l0, symbols) = g[L]
  BY DEF AddNames
<1> HIDE DEF g
<1>8. g[0] = l0 /\ \A n \in 1 .. L : g[n] = AddName(g[n - 1], symbols[n])
  <2>1. 0 \in D /\ \A n \in 1 .. L : n \in D /\ n # 0
    <3> HIDE DEF L
    <3> QED BY <1>1
  <2>2. ASSUME NEW f, Eqn(f) PROVE f[0] = l0 /\ \A n \in 1 .. L : f[n] = AddName(f[n - 1], symbols[n])
    <3> HIDE DEF D
    <3> QED BY <2>1, <2>2
  <2> HIDE DEF Eqn
  <2> QED BY <1>6, <2>2
<1>9. \A n \in 0 .. L : g[n] \in S
  <2> HIDE DEF S, L
  <2>1. g[0] \in S /\ \A n \in 1 .. L : g[n - 1] \in S => g[n] \in S
    BY <1>2, <1>3, <1>8
  <2> QED BY <1>1, <2>1, LoopInvariant
<1>10. g[L] \in S
  <2> HIDE DEF S, L
  <2> QED BY <1>1, <1>9
<1> QED BY <1>7, <1>10

\* Storing the ids of one address leaves those of the others.
LEMMA PutRange ==
  ASSUME NEW rs \in Ranges, NEW addr \in Addrs, NEW s \in Seq(Nat)
  PROVE  /\ Put(rs, addr, s) \in Ranges
         /\ DOMAIN Put(rs, addr, s) = DOMAIN rs \cup {addr}
         /\ Put(rs, addr, s)[addr] = s
         /\ \A a \in DOMAIN rs : a # addr => Put(rs, addr, s)[a] = rs[a]
<1> DEFINE p == Put(rs, addr, s)
<1>1. PICK A \in SUBSET Addrs : rs \in [A -> Seq(Nat)]
  BY DEF Ranges
<1>2. DOMAIN rs = A /\ \A a \in A : rs[a] \in Seq(Nat)
  BY <1>1
<1>3. p = [z \in A \cup {addr} |-> IF z = addr THEN s ELSE rs[z]]
  BY <1>2 DEF Put
<1> HIDE DEF p
<1>4. p \in [A \cup {addr} -> Seq(Nat)]
  BY <1>2, <1>3
<1>5. p \in Ranges
  <2>1. A \cup {addr} \in SUBSET Addrs
    OBVIOUS
  <2> QED BY <1>4, <2>1 DEF Ranges
<1>6. DOMAIN p = DOMAIN rs \cup {addr} /\ p[addr] = s /\ \A a \in DOMAIN rs : a # addr => p[a] = rs[a]
  BY <1>2, <1>3
<1> QED BY <1>5, <1>6 DEF p

RangesFit(ns, rs) == \A a \in DOMAIN rs : ToSet(rs[a]) \subseteq 1 .. Len(ns) - 1

\* New names are reported, and their ids are in the ranges of the trace.
Localized(trace, l) ==
  /\ l \in LocalizerState /\ NamesOk(l.names) /\ RangesFit(l.names, l.ranges)
  /\ Len(names) <= Len(l.names)
  /\ l.pending = pending \cup (Len(names) .. Len(l.names) - 1)
  /\ \A k \in Len(names) .. Len(l.names) - 1 :
       \E a \in DOMAIN l.ranges : a \in ToSet(trace) /\ k \in ToSet(l.ranges[a])

\* localize_addr, whether the address is known or not, ends with its ids stored.
LEMMA LocalizeAddrKeeps ==
  ASSUME NEW trace, NEW l, Localized(trace, l), Len(names) \in Nat,
         NEW addr \in Addrs, addr \in ToSet(trace)
  PROVE  LET r == LocalizeAddr(l, addr) IN
         Localized(trace, r) /\ addr \in DOMAIN r.ranges /\ DOMAIN l.ranges \subseteq DOMAIN r.ranges
<1> DEFINE r == LocalizeAddr(l, addr)
<1>1. CASE addr \in DOMAIN l.ranges
  BY <1>1 DEF LocalizeAddr
<1>2. CASE addr \notin DOMAIN l.ranges
  <2> DEFINE l0 == [l EXCEPT !.ids = <<>>]
             x == AddNames(l0, Symbolize(addr))
             rs == Put(x.ranges, addr, x.ids)
             N == Len(names)
             N1 == Len(l.names)
             N2 == Len(x.names)
  <2>1. r = [x EXCEPT !.ranges = rs]
    BY <1>2 DEF LocalizeAddr
  <2>2. /\ l \in LocalizerState /\ NamesOk(l.names) /\ RangesFit(l.names, l.ranges)
        /\ N <= N1 /\ l.pending = pending \cup (N .. N1 - 1)
        /\ \A k \in N .. N1 - 1 : \E a \in DOMAIN l.ranges : a \in ToSet(trace) /\ k \in ToSet(l.ranges[a])
    BY DEF Localized
  <2>3. l0 \in LocalizerState /\ l0.names = l.names /\ l0.ranges = l.ranges /\ l0.pending = l.pending /\ l0.ids = <<>>
    <3> DEFINE s == <<>>
    <3>1. s \in Seq(Nat) /\ l \in LocalizerState
      BY <2>2
    <3>2. l0 = [l EXCEPT !.ids = s]
      OBVIOUS
    <3> HIDE DEF s, l0
    <3>3. l0 \in LocalizerState /\ l0.names = l.names /\ l0.ranges = l.ranges /\ l0.pending = l.pending /\ l0.ids = s
      BY <3>1, <3>2 DEF LocalizerState
    <3> QED BY <3>3 DEF s
  <2>4. N1 \in Nat
    BY <2>2 DEF LocalizerState
  <2>5. Added(l0, l0)
    <3>1. N1 .. N1 - 1 = {}
      <4> HIDE DEF N1
      <4> QED BY <2>4
    <3>2. ToSet(<<>>) = {}
      BY DEF ToSet
    <3> HIDE DEF l0
    <3> QED BY <2>2, <2>3, <2>4, <3>1, <3>2 DEF Added
  <2>6. Added(l0, x)
    <3>1. Symbolize(addr) \in Seq(Names)
      BY TracesAssumption
    <3> HIDE DEF l0
    <3> QED BY <2>5, <3>1, AddNamesIs
  <2> HIDE DEF l0, x
  <2>7. /\ x \in LocalizerState /\ NamesOk(x.names) /\ x.ranges = l.ranges /\ N1 <= N2 /\ N2 \in Nat
        /\ x.pending = l.pending \cup (N1 .. N2 - 1) /\ N1 .. N2 - 1 \subseteq ToSet(x.ids)
        /\ ToSet(x.ids) \subseteq 1 .. N2 - 1 /\ x.ids \in Seq(Nat) /\ x.ranges \in Ranges
    BY <2>3, <2>6 DEF Added, LocalizerState
  <2>8. /\ rs \in Ranges /\ DOMAIN rs = DOMAIN l.ranges \cup {addr} /\ rs[addr] = x.ids
        /\ \A a \in DOMAIN l.ranges : a # addr => rs[a] = l.ranges[a]
    <3> DEFINE q == x.ranges
               s == x.ids
    <3>1. q \in Ranges /\ s \in Seq(Nat) /\ q = l.ranges
      BY <2>7
    <3> HIDE DEF q, s
    <3>2. /\ Put(q, addr, s) \in Ranges /\ DOMAIN Put(q, addr, s) = DOMAIN q \cup {addr}
          /\ Put(q, addr, s)[addr] = s /\ \A a \in DOMAIN q : a # addr => Put(q, addr, s)[a] = q[a]
      BY <3>1, PutRange
    <3> QED BY <3>1, <3>2 DEF q, s
  <2> HIDE DEF rs
  <2>9. r \in LocalizerState /\ r.names = x.names /\ r.ranges = rs /\ r.pending = x.pending
    BY <2>1, <2>7, <2>8 DEF LocalizerState
  <2> HIDE DEF r
  <2>10. \A a \in DOMAIN l.ranges : rs[a] = l.ranges[a]
    BY <1>2, <2>8
  <2>11. (N .. N1 - 1) \cup (N1 .. N2 - 1) = N .. N2 - 1 /\ 1 .. N1 - 1 \subseteq 1 .. N2 - 1 /\ N <= N2
    <3>1. N \in Nat /\ N1 \in Nat /\ N2 \in Nat /\ N <= N1 /\ N1 <= N2
      BY <2>2, <2>4, <2>7
    <3> HIDE DEF N, N1, N2
    <3> QED BY <3>1
  <2>12. RangesFit(r.names, r.ranges)
    <3>1. \A a \in DOMAIN l.ranges : ToSet(l.ranges[a]) \subseteq 1 .. N1 - 1
      BY <2>2 DEF RangesFit
    <3>2. ASSUME NEW a \in DOMAIN rs PROVE ToSet(rs[a]) \subseteq 1 .. N2 - 1
      <4>1. CASE a = addr
        BY <2>7, <2>8, <4>1
      <4>2. CASE a # addr
        <5>1. a \in DOMAIN l.ranges /\ rs[a] = l.ranges[a]
          BY <2>8, <4>2
        <5> HIDE DEF N1, N2
        <5> QED BY <2>11, <3>1, <5>1
      <4> QED BY <4>1, <4>2
    <3> QED BY <2>9, <3>2 DEF RangesFit
  <2>13. r.pending = pending \cup (N .. N2 - 1)
    <3> HIDE DEF N, N1, N2
    <3> QED BY <2>2, <2>7, <2>9, <2>11
  <2>14. ASSUME NEW k \in N .. N2 - 1 PROVE \E a \in DOMAIN rs : a \in ToSet(trace) /\ k \in ToSet(rs[a])
    <3> HIDE DEF N, N1, N2
    <3>1. CASE k \in N .. N1 - 1
      <4>1. PICK a \in DOMAIN l.ranges : a \in ToSet(trace) /\ k \in ToSet(l.ranges[a])
        BY <2>2, <3>1
      <4> QED BY <2>8, <2>10, <4>1
    <3>2. CASE k \in N1 .. N2 - 1
      BY <2>7, <2>8, <3>2
    <3> QED BY <2>11, <3>1, <3>2
  <2>15. Localized(trace, r)
    BY <2>7, <2>9, <2>11, <2>12, <2>13, <2>14 DEF Localized
  <2>16. addr \in DOMAIN r.ranges /\ DOMAIN l.ranges \subseteq DOMAIN r.ranges
    BY <2>8, <2>9
  <2> QED BY <2>15, <2>16 DEF r
<1> QED BY <1>1, <1>2

\* localize_trace ends with the ids of every address of the trace stored, each
\* with a name, and every new name pending for the table of names.
LEMMA LocalizeTraceIs ==
  ASSUME NEW trace \in Seq(Addrs), NamesOk(names), ranges \in Ranges, RangesFit(names, ranges), pending \in SUBSET Nat
  PROVE  /\ Localized(trace, LocalizeTrace(trace))
         /\ ToSet(trace) \subseteq DOMAIN LocalizeTrace(trace).ranges
<1> DEFINE L == Len(trace)
           D == 0 .. L
           l0 == [names |-> names, ranges |-> ranges, pending |-> pending, ids |-> <<>>]
           S == {l \in LocalizerState : Localized(trace, l)}
           step == [n \in 1 .. L |-> [l \in S |-> LocalizeAddr(l, trace[n])]]
           Eqn(f) == f = [n \in D |-> IF n = 0 THEN l0 ELSE LocalizeAddr(f[n - 1], trace[n])]
<1>1. L \in Nat /\ DOMAIN trace = 1 .. L /\ \A n \in 1 .. L : trace[n] \in Addrs /\ trace[n] \in ToSet(trace)
  BY DEF ToSet
<1>2. Len(names) \in Nat /\ names \in Seq(AllNames)
  BY DEF NamesOk
<1>3. \A n \in 1 .. L, l \in S :
        /\ LocalizeAddr(l, trace[n]) \in S
        /\ trace[n] \in DOMAIN LocalizeAddr(l, trace[n]).ranges
        /\ DOMAIN l.ranges \subseteq DOMAIN LocalizeAddr(l, trace[n]).ranges
  <2>1. ASSUME NEW n \in 1 .. L, NEW l \in S
        PROVE  /\ LocalizeAddr(l, trace[n]) \in S
               /\ trace[n] \in DOMAIN LocalizeAddr(l, trace[n]).ranges
               /\ DOMAIN l.ranges \subseteq DOMAIN LocalizeAddr(l, trace[n]).ranges
    <3> DEFINE addr == trace[n]
    <3>1. addr \in Addrs /\ addr \in ToSet(trace) /\ Localized(trace, l)
      BY <1>1
    <3> HIDE DEF addr
    <3>2. /\ Localized(trace, LocalizeAddr(l, addr)) /\ addr \in DOMAIN LocalizeAddr(l, addr).ranges
          /\ DOMAIN l.ranges \subseteq DOMAIN LocalizeAddr(l, addr).ranges
      BY <1>2, <3>1, LocalizeAddrKeeps
    <3>3. LocalizeAddr(l, addr) \in LocalizerState
      BY <3>2 DEF Localized
    <3> QED BY <3>2, <3>3 DEF addr
  <2> QED BY <2>1
<1>4. l0 \in S
  <2>1. l0 \in LocalizerState /\ l0.names = names /\ l0.ranges = ranges /\ l0.pending = pending
    BY <1>2 DEF LocalizerState
  <2>2. Len(names) .. Len(names) - 1 = {}
    BY <1>2
  <2> HIDE DEF l0
  <2>3. Localized(trace, l0)
    BY <1>2, <2>1, <2>2 DEF Localized
  <2> QED BY <2>1, <2>3
<1> HIDE DEF l0
<1>5. Loop(S, L, l0, step)
  <2>1. step \in [1 .. L -> [S -> S]]
    <3> HIDE DEF L, S
    <3> QED BY <1>3
  <2> HIDE DEF L, S, step
  <2> QED BY <1>1, <1>4, <2>1 DEF Loop
<1>6. \E f : Eqn(f)
  <2> HIDE DEF step, S, L
  <2>1. PICK f : Loops(f, S, L, l0, step)
    BY <1>5, Iteration
  <2>2. f \in [D -> S] /\ f[0] = l0 /\ \A n \in 1 .. L : f[n] = step[n][f[n - 1]]
    BY <2>1 DEF Loops
  <2>3. ASSUME NEW n \in D PROVE f[n] = IF n = 0 THEN l0 ELSE LocalizeAddr(f[n - 1], trace[n])
    <3>1. CASE n = 0
      BY <2>2, <3>1
    <3>2. CASE n # 0
      <4>1. n \in 1 .. L /\ n - 1 \in D
        BY <1>1, <3>2
      <4>2. f[n - 1] \in S
        <5> HIDE DEF D
        <5> QED BY <2>2, <4>1
      <4>3. step[n][f[n - 1]] = LocalizeAddr(f[n - 1], trace[n])
        BY <4>1, <4>2 DEF step
      <4> QED BY <2>2, <3>2, <4>1, <4>3
    <3> QED BY <3>1, <3>2
  <2>4. Eqn(f)
    <3> HIDE DEF D
    <3> QED BY <2>2, <2>3
  <2> QED BY <2>4
<1> DEFINE g == CHOOSE f : Eqn(f)
<1>7. Eqn(g)
  <2> HIDE DEF Eqn
  <2> QED BY <1>6
<1>8. LocalizeTrace(trace) = g[L]
  BY DEF LocalizeTrace, l0
<1> HIDE DEF g
<1>9. g[0] = l0 /\ \A n \in 1 .. L : g[n] = LocalizeAddr(g[n - 1], trace[n])
  <2>1. 0 \in D /\ \A n \in 1 .. L : n \in D /\ n # 0
    <3> HIDE DEF L
    <3> QED BY <1>1
  <2>2. ASSUME NEW f, Eqn(f) PROVE f[0] = l0 /\ \A n \in 1 .. L : f[n] = LocalizeAddr(f[n - 1], trace[n])
    <3> HIDE DEF D
    <3> QED BY <2>1, <2>2
  <2> HIDE DEF Eqn
  <2> QED BY <1>7, <2>2
<1> HIDE DEF Eqn, step
<1> DEFINE T == {n \in Nat : n <= L => g[n] \in S /\ \A i \in 1 .. n : trace[i] \in DOMAIN g[n].ranges}
<1>10. 0 \in T
  <2> HIDE DEF L, S
  <2> QED BY <1>4, <1>9
<1>11. ASSUME NEW n \in Nat, n \in T PROVE n + 1 \in T
  <2> SUFFICES ASSUME n + 1 <= L
               PROVE  g[n + 1] \in S /\ \A i \in 1 .. n + 1 : trace[i] \in DOMAIN g[n + 1].ranges
    OBVIOUS
  <2> HIDE DEF L, S
  <2>1. n + 1 \in 1 .. L /\ (n + 1) - 1 = n /\ n <= L
    BY <1>1
  <2>2. g[n] \in S /\ \A i \in 1 .. n : trace[i] \in DOMAIN g[n].ranges
    BY <1>11, <2>1
  <2> HIDE DEF T
  <2>3. g[n + 1] = LocalizeAddr(g[n], trace[n + 1])
    BY <1>9, <2>1
  <2>4. /\ g[n + 1] \in S /\ trace[n + 1] \in DOMAIN g[n + 1].ranges
        /\ DOMAIN g[n].ranges \subseteq DOMAIN g[n + 1].ranges
    BY <1>3, <2>1, <2>2, <2>3
  <2>5. ASSUME NEW i \in 1 .. n + 1 PROVE trace[i] \in DOMAIN g[n + 1].ranges
    <3>1. CASE i = n + 1
      BY <2>4, <3>1
    <3>2. CASE i # n + 1
      <4>1. i \in 1 .. n
        BY <3>2
      <4> QED BY <2>2, <2>4, <4>1
    <3> QED BY <3>1, <3>2
  <2> QED BY <2>4, <2>5
<1>12. \A n \in Nat : n \in T
  <2> HIDE DEF T
  <2> QED BY <1>10, <1>11, Induction
<1>13. g[L] \in S /\ \A i \in 1 .. L : trace[i] \in DOMAIN g[L].ranges
  <2>1. L \in T
    <3> HIDE DEF T, L
    <3> QED BY <1>1, <1>12
  <2> HIDE DEF L, S
  <2> QED BY <1>1, <2>1
<1>14. ToSet(trace) \subseteq DOMAIN g[L].ranges
  <2>1. \A a \in ToSet(trace) : \E i \in 1 .. L : trace[i] = a
    BY <1>1 DEF ToSet
  <2> HIDE DEF L, S
  <2> QED BY <1>13, <2>1
<1> HIDE DEF L
<1> QED BY <1>8, <1>13, <1>14

\* The elements of a concatenation include those of its parts.
LEMMA ToSetConcat ==
  ASSUME NEW S, NEW s \in Seq(S), NEW t \in Seq(S)
  PROVE  s \o t \in Seq(S) /\ ToSet(s) \subseteq ToSet(s \o t) /\ ToSet(t) \subseteq ToSet(s \o t)
<1> DEFINE u == s \o t
           A == Len(s)
           B == Len(t)
<1>1. /\ DOMAIN s = 1 .. A /\ DOMAIN t = 1 .. B /\ DOMAIN u = 1 .. A + B /\ A \in Nat /\ B \in Nat
      /\ (\A i \in 1 .. A : u[i] = s[i]) /\ \A i \in 1 .. B : u[i + A] = t[i]
  OBVIOUS
<1>2. u \in Seq(S)
  OBVIOUS
<1> HIDE DEF u, A, B
<1>3. ASSUME NEW i \in 1 .. A PROVE s[i] \in ToSet(u)
  <2>1. i \in 1 .. A + B /\ u[i] = s[i]
    BY <1>1
  <2> QED BY <1>1, <2>1 DEF ToSet
<1>4. ASSUME NEW i \in 1 .. B PROVE t[i] \in ToSet(u)
  <2>1. i + A \in 1 .. A + B /\ u[i + A] = t[i]
    BY <1>1
  <2> QED BY <1>1, <2>1 DEF ToSet
<1>5. ToSet(s) \subseteq ToSet(u)
  <2>1. \A x \in ToSet(s) : \E i \in 1 .. A : s[i] = x
    BY <1>1 DEF ToSet
  <2> QED BY <1>3, <2>1
<1>6. ToSet(t) \subseteq ToSet(u)
  <2>1. \A x \in ToSet(t) : \E i \in 1 .. B : t[i] = x
    BY <1>1 DEF ToSet
  <2> QED BY <1>4, <2>1
<1> QED BY <1>2, <1>5, <1>6 DEF u

\* A sequence is one over any set that has its elements.
LEMMA SeqOfItsSet ==
  ASSUME NEW S, NEW s \in Seq(S), NEW F, ToSet(s) \subseteq F
  PROVE  s \in Seq(F)
<1>1. DOMAIN s = 1 .. Len(s) /\ Len(s) \in Nat /\ s = [i \in 1 .. Len(s) |-> s[i]]
  OBVIOUS
<1>2. \A i \in 1 .. Len(s) : s[i] \in F
  BY <1>1 DEF ToSet
<1>3. s \in [1 .. Len(s) -> F]
  <2> DEFINE D == 1 .. Len(s)
  <2>1. s = [i \in D |-> s[i]] /\ \A i \in D : s[i] \in F
    BY <1>1, <1>2
  <2> HIDE DEF D
  <2>2. s \in [D -> F]
    BY <2>1
  <2> QED BY <2>2 DEF D
<1> QED BY <1>1, <1>3

\* The localized trace has the ids of the names of all its addresses and no other.
LEMMA LocalizedTraceIs ==
  ASSUME NEW trace \in Seq(Addrs), NEW l, l \in LocalizerState, NamesOk(l.names), RangesFit(l.names, l.ranges),
         ToSet(trace) \subseteq DOMAIN l.ranges, NEW F, F = 1 .. Len(l.names) - 1
  PROVE  /\ LocalizedTrace(l, trace) \in Seq(F)
         /\ \A a \in ToSet(trace) : ToSet(l.ranges[a]) \subseteq ToSet(LocalizedTrace(l, trace))
<1> DEFINE L == Len(trace)
           D == 0 .. L
           S == Seq(F)
           w0 == IF trace \in InnerTraces THEN <<MEMHAWK_ROOT_LOCALIZED_ID>> ELSE <<>>
           add(n) == l.ranges[trace[n]]
           step == [n \in 1 .. L |-> [s \in S |-> s \o add(n)]]
           Eqn(f) == f = [n \in D |-> IF n = 0 THEN w0 ELSE f[n - 1] \o l.ranges[trace[n]]]
<1>1. L \in Nat /\ DOMAIN trace = 1 .. L /\ \A n \in 1 .. L : trace[n] \in ToSet(trace)
  BY DEF ToSet
<1>2. ASSUME NEW n \in 1 .. L PROVE add(n) \in S
  <2> DEFINE a == trace[n]
             rs == l.ranges
  <2>1. a \in DOMAIN rs
    BY <1>1
  <2>2. rs \in Ranges
    BY DEF LocalizerState
  <2>3. ToSet(rs[a]) \subseteq F
    BY <2>1 DEF RangesFit
  <2> HIDE DEF a, rs
  <2>4. PICK A \in SUBSET Addrs : rs \in [A -> Seq(Nat)]
    BY <2>2 DEF Ranges
  <2>5. rs[a] \in Seq(Nat)
    BY <2>1, <2>4
  <2>6. rs[a] \in Seq(F)
    BY <2>3, <2>5, SeqOfItsSet
  <2> QED BY <2>6 DEF rs, a
<1>3. w0 \in S
  <2>1. 1 \in F
    BY DEF NamesOk, LocalizerState
  <2>2. <<1>> \in Seq(F) /\ <<>> \in Seq(F)
    BY <2>1
  <2> QED BY <2>2 DEF MEMHAWK_ROOT_LOCALIZED_ID
<1>4. \A n \in 1 .. L, s \in S : s \o add(n) \in S
  <2>1. ASSUME NEW n \in 1 .. L, NEW s \in S PROVE s \o add(n) \in S
    <3> DEFINE t == add(n)
    <3>1. t \in Seq(F) /\ s \in Seq(F)
      BY <1>2
    <3> HIDE DEF t
    <3>2. s \o t \in Seq(F)
      BY <3>1
    <3> QED BY <3>2 DEF t
  <2> QED BY <2>1
<1> HIDE DEF w0
<1>5. Loop(S, L, w0, step)
  <2>1. step \in [1 .. L -> [S -> S]]
    <3> HIDE DEF L, S, add
    <3> QED BY <1>4
  <2> HIDE DEF L, S, step
  <2> QED BY <1>1, <1>3, <2>1 DEF Loop
<1>6. \E f : Eqn(f)
  <2> HIDE DEF step, S, L
  <2>1. PICK f : Loops(f, S, L, w0, step)
    BY <1>5, Iteration
  <2>2. f \in [D -> S] /\ f[0] = w0 /\ \A n \in 1 .. L : f[n] = step[n][f[n - 1]]
    BY <2>1 DEF Loops
  <2>3. ASSUME NEW n \in D PROVE f[n] = IF n = 0 THEN w0 ELSE f[n - 1] \o l.ranges[trace[n]]
    <3>1. CASE n = 0
      BY <2>2, <3>1
    <3>2. CASE n # 0
      <4>1. n \in 1 .. L /\ n - 1 \in D
        BY <1>1, <3>2
      <4>2. f[n - 1] \in S
        <5> HIDE DEF D
        <5> QED BY <2>2, <4>1
      <4>3. step[n][f[n - 1]] = f[n - 1] \o l.ranges[trace[n]]
        BY <4>1, <4>2 DEF step
      <4> QED BY <2>2, <3>2, <4>1, <4>3
    <3> QED BY <3>1, <3>2
  <2>4. Eqn(f)
    <3> HIDE DEF D
    <3> QED BY <2>2, <2>3
  <2> QED BY <2>4
<1> DEFINE g == CHOOSE f : Eqn(f)
<1>7. Eqn(g)
  <2> HIDE DEF Eqn
  <2> QED BY <1>6
<1>8. LocalizedTrace(l, trace) = g[L]
  BY DEF LocalizedTrace, w0
<1> HIDE DEF g
<1>9. g[0] = w0 /\ \A n \in 1 .. L : g[n] = g[n - 1] \o add(n)
  <2>1. 0 \in D /\ \A n \in 1 .. L : n \in D /\ n # 0
    <3> HIDE DEF L
    <3> QED BY <1>1
  <2>2. ASSUME NEW f, Eqn(f) PROVE f[0] = w0 /\ \A n \in 1 .. L : f[n] = f[n - 1] \o add(n)
    <3> HIDE DEF D
    <3> QED BY <2>1, <2>2
  <2> HIDE DEF Eqn
  <2> QED BY <1>7, <2>2
<1> HIDE DEF Eqn, step, add
<1> DEFINE T == {n \in Nat : n <= L => g[n] \in S /\ \A i \in 1 .. n : ToSet(add(i)) \subseteq ToSet(g[n])}
<1>10. 0 \in T
  <2> HIDE DEF L, S
  <2> QED BY <1>3, <1>9
<1>11. ASSUME NEW n \in Nat, n \in T PROVE n + 1 \in T
  <2> SUFFICES ASSUME n + 1 <= L
               PROVE  g[n + 1] \in S /\ \A i \in 1 .. n + 1 : ToSet(add(i)) \subseteq ToSet(g[n + 1])
    OBVIOUS
  <2>1. n + 1 \in 1 .. L /\ (n + 1) - 1 = n /\ n <= L
    <3> HIDE DEF L, T
    <3> QED BY <1>1
  <2>2. g[n] \in S /\ \A i \in 1 .. n : ToSet(add(i)) \subseteq ToSet(g[n])
    BY <1>11, <2>1
  <2> HIDE DEF T, L
  <2>3. g[n + 1] = g[n] \o add(n + 1)
    BY <1>9, <2>1
  <2> DEFINE s == g[n]
             t == add(n + 1)
  <2>4. s \in Seq(F) /\ t \in Seq(F)
    BY <1>2, <2>1, <2>2
  <2> HIDE DEF s, t
  <2>5. s \o t \in Seq(F) /\ ToSet(s) \subseteq ToSet(s \o t) /\ ToSet(t) \subseteq ToSet(s \o t)
    BY <2>4, ToSetConcat
  <2>6. g[n + 1] = s \o t
    BY <2>3 DEF s, t
  <2>7. ASSUME NEW i \in 1 .. n + 1 PROVE ToSet(add(i)) \subseteq ToSet(g[n + 1])
    <3>1. CASE i = n + 1
      BY <2>5, <2>6, <3>1 DEF t
    <3>2. CASE i # n + 1
      <4>1. i \in 1 .. n
        BY <3>2
      <4>2. ToSet(add(i)) \subseteq ToSet(s)
        BY <2>2, <4>1 DEF s
      <4> QED BY <2>5, <2>6, <4>2
    <3> QED BY <3>1, <3>2
  <2> QED BY <2>5, <2>6, <2>7
<1>12. \A n \in Nat : n \in T
  <2> HIDE DEF T
  <2> QED BY <1>10, <1>11, Induction
<1>13. g[L] \in S /\ \A i \in 1 .. L : ToSet(add(i)) \subseteq ToSet(g[L])
  <2>1. L \in T
    <3> HIDE DEF T, L
    <3> QED BY <1>1, <1>12
  <2> HIDE DEF L, S
  <2> QED BY <1>1, <2>1
<1>14. ASSUME NEW a \in ToSet(trace) PROVE ToSet(l.ranges[a]) \subseteq ToSet(g[L])
  <2>1. PICK i \in 1 .. L : trace[i] = a
    BY <1>1 DEF ToSet
  <2>2. ToSet(add(i)) \subseteq ToSet(g[L])
    BY <1>13
  <2> QED BY <2>1, <2>2 DEF add
<1> HIDE DEF L
<1> QED BY <1>8, <1>13, <1>14

-----------------------------------------------------------------------------
(* The inductive invariant.                                                *)

\* The tree, its values and its leafs.
TreeInv ==
  /\ Tree(nodes) /\ edges \in SUBSET EdgeRecord /\ EdgesFit(nodes, edges)
  /\ PostponedInv
  /\ DOMAIN frameAgg.total \subseteq Nat /\ Totals(nodes, frameAgg.total)
  /\ \A t \in DOMAIN leafOf : leafOf[t] \in Marked(nodes)

\* Names: every frame of the graph has one, which is published, or will be
\* with a new leaf, or was lost.
NamesInv ==
  /\ NamesOk(names) /\ ranges \in Ranges /\ RangesFit(names, ranges) /\ pending \in SUBSET Nat
  /\ KeysOf(nodes) \subseteq 0 .. Len(names) - 1
  /\ 0 .. Len(names) - 1 \subseteq tables.names \cup pending \cup unpublished
  /\ pending \subseteq {0, 1, 2} \/ newLeafs # {}
  /\ FramesHaveNames

\* Leafs: what has a self value is a leaf whose path is published or new.
LeafsInv ==
  /\ newLeafs \subseteq Marked(nodes)
  /\ Marked(nodes) \subseteq newLeafs \cup DOMAIN tables.paths
  /\ modSelf \subseteq Marked(nodes) /\ DOMAIN postponed \subseteq modSelf
  /\ DOMAIN tables.self \subseteq DOMAIN tables.paths

\* The rows of the tables.
RowsInv ==
  /\ \A n \in DOMAIN tables.paths : n \in 0 .. Len(nodes) - 1 /\ tables.paths[n] = PathTo(nodes, n)
  /\ \A n \in 0 .. Len(nodes) - 1 : Get(tables.self, n) = nodes[n + 1].self
  /\ \A k \in DOMAIN frameAgg.total :
       k \in DOMAIN tables.frames /\ tables.frames[k].total = frameAgg.total[k]

GraphInv == TreeInv /\ NamesInv /\ LeafsInv /\ RowsInv

\* A path was added, or nothing: the graph that construct_path makes.
Grew(c) ==
  /\ nodes' = c.nodes /\ edges' = c.edges /\ newLeafs' = c.newLeafs
  /\ UNCHANGED <<frameAgg, tables, unpublished>>

\* What construct_path did to the graph keeps its part of the invariant.
LEMMA GrewKeeps ==
  ASSUME GraphInv, NEW F, FrameIds(F), NEW frames, NEW c, Constructed(c, F, frames), Grew(c)
  PROVE  /\ Tree(nodes') /\ edges' \in SUBSET EdgeRecord /\ EdgesFit(nodes', edges')
         /\ DOMAIN frameAgg'.total \subseteq Nat /\ Totals(nodes', frameAgg'.total)
         /\ Marked(nodes) \subseteq Marked(nodes') /\ c.node \in Marked(nodes')
         /\ Marked(nodes) \subseteq 0 .. Len(nodes') - 1 /\ c.node \in 0 .. Len(nodes') - 1
         /\ Len(nodes) <= Len(nodes') /\ Len(nodes) \in Nat /\ Len(nodes') \in Nat
         /\ newLeafs \subseteq newLeafs' /\ newLeafs' \subseteq Marked(nodes')
         /\ Marked(nodes') \subseteq newLeafs' \cup DOMAIN tables'.paths
         /\ RowsInv'
<1>1. Tree(nodes) /\ Chain(nodes) /\ Totals(nodes, frameAgg.total)
  BY DEF GraphInv, TreeInv, Tree
<1>2. /\ Tree(nodes') /\ Extended(nodes, nodes') /\ edges' \in SUBSET EdgeRecord /\ EdgesFit(nodes', edges')
      /\ c.node \in 0 .. Len(nodes') - 1 /\ Marked(nodes') = Marked(nodes) \cup {c.node}
      /\ newLeafs' = IF c.node \in Marked(nodes) THEN newLeafs ELSE newLeafs \cup {c.node}
  BY DEF Constructed, Grew
<1>3. Chain(nodes') /\ Grown(nodes, nodes')
  BY <1>2 DEF Tree, Extended
<1>4. frameAgg' = frameAgg /\ tables' = tables
  BY DEF Grew
<1>5. Totals(nodes', frameAgg'.total)
  BY <1>1, <1>2, <1>3, <1>4, TotalsGrow
<1>6. DOMAIN frameAgg'.total \subseteq Nat
  BY <1>4 DEF GraphInv, TreeInv
<1>7. Len(nodes) <= Len(nodes') /\ Len(nodes) \in Nat /\ Len(nodes') \in Nat
  BY <1>1, <1>3 DEF Grown, Chain
<1>8. Marked(nodes) \subseteq 0 .. Len(nodes') - 1
  BY <1>7 DEF Marked
<1>9. newLeafs \subseteq newLeafs' /\ newLeafs' \subseteq Marked(nodes') /\ Marked(nodes') \subseteq newLeafs' \cup DOMAIN tables'.paths
  BY <1>2, <1>4 DEF GraphInv, LeafsInv
<1>10. RowsInv'
  <2>1. ASSUME NEW n \in DOMAIN tables.paths PROVE n \in 0 .. Len(nodes') - 1 /\ tables.paths[n] = PathTo(nodes', n)
    <3>1. n \in 0 .. Len(nodes) - 1 /\ tables.paths[n] = PathTo(nodes, n)
      BY DEF GraphInv, RowsInv
    <3>2. PathTo(nodes', n) = PathTo(nodes, n)
      BY <1>1, <1>3, <3>1, SamePaths
    <3> QED BY <1>7, <3>1, <3>2
  <2>2. ASSUME NEW n \in 0 .. Len(nodes') - 1 PROVE Get(tables.self, n) = nodes'[n + 1].self
    <3>1. CASE n \in 0 .. Len(nodes) - 1
      BY <1>2, <3>1 DEF GraphInv, RowsInv, Extended
    <3>2. CASE n \notin 0 .. Len(nodes) - 1
      <4>1. n \in Len(nodes) .. Len(nodes') - 1
        BY <1>7, <3>2
      <4>2. n \notin DOMAIN tables.self
        BY <3>2 DEF GraphInv, RowsInv, LeafsInv
      <4>3. nodes'[n + 1].self = 0
        BY <1>2, <4>1 DEF Extended
      <4> QED BY <4>2, <4>3 DEF Get
    <3> QED BY <3>1, <3>2
  <2>3. \A k \in DOMAIN frameAgg.total : k \in DOMAIN tables.frames /\ tables.frames[k].total = frameAgg.total[k]
    BY DEF GraphInv, RowsInv
  <2> QED BY <1>4, <2>1, <2>2, <2>3 DEF RowsInv
<1> QED BY <1>2, <1>5, <1>6, <1>7, <1>8, <1>9, <1>10

\* The graph starts with the root alone, and with the invariant.
LEMMA InitGraph == ASSUME GraphInit PROVE GraphInv
<1> DEFINE root == [key |-> 0, parent |-> 0, level |-> 0, leaf |-> FALSE, first |-> TRUE, self |-> 0, total |-> 0]
<1>1. nodes = <<root>>
  BY DEF GraphInit
<1>2. root \in NodeRecord /\ root.key = 0 /\ root.parent = 0 /\ root.level = 0 /\ ~root.leaf /\ root.first /\ root.self = 0 /\ root.total = 0
  BY DEF NodeRecord
<1> HIDE DEF root
<1>3. nodes \in Seq(NodeRecord) /\ Len(nodes) = 1 /\ nodes[1] = root /\ 0 .. Len(nodes) - 1 = {0} /\ 1 .. Len(nodes) - 1 = {}
  BY <1>1, <1>2
<1>4. Chain(nodes) /\ Tree(nodes)
  BY <1>2, <1>3 DEF Chain, Tree
<1>5. PICK S : Sums(S, SelfOf(nodes), 0 .. Len(nodes) - 1) /\ \A U \in SUBSET (0 .. Len(nodes) - 1) : SumOver(SelfOf(nodes), U) = S[U]
  BY <1>4, SelfSums
<1>6. ASSUME NEW U \in SUBSET (0 .. Len(nodes) - 1) PROVE SumOver(SelfOf(nodes), U) = 0
  <2> DEFINE D == 0 .. Len(nodes) - 1
             f == SelfOf(nodes)
             V == U
  <2>1. \A x \in V : f[x] = 0
    <3>1. \A x \in V : x = 0 /\ x \in 0 .. Len(nodes) - 1
      BY <1>3
    <3> QED BY <1>2, <1>3, <3>1 DEF SelfOf
  <2>2. Sums(S, f, D) /\ V \in SUBSET D
    BY <1>5
  <2> HIDE DEF D, f, V
  <2>3. S[V] = 0
    BY <2>1, <2>2, SumsZero
  <2> QED BY <1>5, <2>3 DEF V
<1>7. frameAgg.total = Empty /\ DOMAIN Empty = {}
  BY DEF GraphInit, Empty
<1>8. Totals(nodes, frameAgg.total)
  <2>1. \A n \in 0 .. Len(nodes) - 1 : DownIn(nodes, n) \in SUBSET (0 .. Len(nodes) - 1) /\ nodes[n + 1].total = 0
    BY <1>2, <1>3 DEF DownIn, Down
  <2>2. \A k \in Nat : HoldersIn(nodes, k) \in SUBSET (0 .. Len(nodes) - 1) /\ Get(frameAgg.total, k) = 0
    BY <1>7 DEF HoldersIn, Get
  <2> QED BY <1>6, <2>1, <2>2 DEF Totals
<1>9. Marked(nodes) = {}
  BY <1>2, <1>3 DEF Marked
<1>10. TreeInv
  <2>1. PostponedInv
    BY DEF GraphInit, PostponedInv, Empty
  <2>2. edges \in SUBSET EdgeRecord /\ EdgesFit(nodes, edges) /\ DOMAIN leafOf = {}
    BY DEF GraphInit, EdgesFit, Empty
  <2> QED BY <1>4, <1>7, <1>8, <2>1, <2>2 DEF TreeInv
<1>11. NamesInv
  <2>1. names = Predefined /\ pending = {0, 1, 2} /\ ranges = Empty /\ tables.paths = Empty /\ unpublished = {}
    BY DEF GraphInit
  <2>2. NamesOk(names)
    <3>1. Predefined \in Seq(AllNames)
      <4>1. \A i \in 1 .. 3 : Predefined[i] \in AllNames
        BY DEF AllNames, Predefined
      <4> QED BY <4>1 DEF Predefined
    <3>2. Len(Predefined) = 3 /\ DOMAIN Predefined = 1 .. 3
      BY DEF Predefined
    <3> QED BY <2>1, <3>1, <3>2, TracesAssumption DEF NamesOk
  <2>3. ranges \in Ranges
    <3>1. Empty \in [{} -> Seq(Nat)]
      BY DEF Empty
    <3>2. {} \in SUBSET Addrs
      OBVIOUS
    <3> QED BY <2>1, <3>1, <3>2 DEF Ranges
  <2>4. Len(names) = 3 /\ 0 .. Len(names) - 1 = {0, 1, 2}
    <3>1. Len(names) = 3
      BY <2>1 DEF Predefined
    <3> QED BY <3>1
  <2>5. KeysOf(nodes) \subseteq {0, 1, 2}
    BY <1>2, <1>3 DEF KeysOf
  <2>6. RangesFit(names, ranges) /\ FramesHaveNames
    <3>1. DOMAIN ranges = {} /\ DOMAIN tables.paths = {} /\ unpublished = {}
      BY <1>7, <2>1
    <3>2. RangesFit(names, ranges)
      BY <3>1 DEF RangesFit
    <3>3. FramesHaveNames
      BY <3>1 DEF FramesHaveNames
    <3> QED BY <3>2, <3>3
  <2> QED BY <2>1, <2>2, <2>3, <2>4, <2>5, <2>6 DEF NamesInv
<1>12. LeafsInv /\ RowsInv
  <2>1. tables.paths = Empty /\ tables.self = Empty /\ newLeafs = {} /\ modSelf = {} /\ postponed = Empty
    BY DEF GraphInit
  <2>2. LeafsInv
    BY <1>7, <1>9, <2>1 DEF LeafsInv
  <2>3. RowsInv
    BY <1>2, <1>3, <1>7, <2>1 DEF RowsInv, Get
  <2> QED BY <2>2, <2>3
<1> QED BY <1>10, <1>11, <1>12 DEF GraphInv

\* process_stacktrace keeps the invariant: a path is found or made, and its leaf is
\* to be published.
LEMMA StacktraceKeeps == ASSUME GraphInv, ProcessStacktrace PROVE GraphInv'
<1>1. PICK trace \in Traces :
        LET l == LocalizeTrace(trace)
            g == ConstructPath(LocalizedTrace(l, trace)) IN
        /\ names' = l.names /\ ranges' = l.ranges /\ pending' = l.pending
        /\ nodes' = g.nodes /\ edges' = g.edges /\ newLeafs' = g.newLeafs
        /\ leafOf' = Put(leafOf, trace, g.node)
  BY DEF ProcessStacktrace
<1> DEFINE l == LocalizeTrace(trace)
           frames == LocalizedTrace(l, trace)
           c == ConstructPath(frames)
           N == Len(names)
           M == Len(l.names)
           F == 1 .. M - 1
<1>2. UNCHANGED <<postponed, frameAgg, modSelf, tables, unpublished>>
  BY DEF ProcessStacktrace
<1>3. trace \in Seq(Addrs)
  BY TracesAssumption
<1>4. /\ NamesOk(names) /\ ranges \in Ranges /\ RangesFit(names, ranges) /\ pending \in SUBSET Nat
      /\ Tree(nodes) /\ edges \in SUBSET EdgeRecord /\ EdgesFit(nodes, edges)
  BY DEF GraphInv, NamesInv, TreeInv
<1>5. Localized(trace, l) /\ ToSet(trace) \subseteq DOMAIN l.ranges
  BY <1>3, <1>4, LocalizeTraceIs
<1>6. /\ names' = l.names /\ ranges' = l.ranges /\ pending' = l.pending
      /\ nodes' = c.nodes /\ edges' = c.edges /\ newLeafs' = c.newLeafs /\ leafOf' = Put(leafOf, trace, c.node)
  BY <1>1
<1> HIDE DEF l
<1>7. /\ l \in LocalizerState /\ NamesOk(l.names) /\ RangesFit(l.names, l.ranges) /\ N <= M
      /\ l.pending = pending \cup (N .. M - 1)
      /\ \A k \in N .. M - 1 : \E a \in DOMAIN l.ranges : a \in ToSet(trace) /\ k \in ToSet(l.ranges[a])
  BY <1>5 DEF Localized
<1>8. N \in Nat /\ M \in Nat /\ N >= 3 /\ l.ranges \in Ranges /\ l.pending \in SUBSET Nat
  BY <1>4, <1>7 DEF NamesOk, LocalizerState
<1>9. frames \in Seq(F) /\ \A a \in ToSet(trace) : ToSet(l.ranges[a]) \subseteq ToSet(frames)
  <2>1. F = 1 .. Len(l.names) - 1
    OBVIOUS
  <2> HIDE DEF F
  <2> QED BY <1>3, <1>5, <1>7, <2>1, LocalizedTraceIs
<1> HIDE DEF frames
<1>10. FrameIds(F)
  BY DEF FrameIds
<1>11. Constructed(c, F, frames)
  <2> HIDE DEF F
  <2> QED BY <1>4, <1>9, <1>10, ConstructPathIs
<1> HIDE DEF c
<1>12. Grew(c)
  BY <1>2, <1>6 DEF Grew
<1>13. /\ Tree(nodes') /\ edges' \in SUBSET EdgeRecord /\ EdgesFit(nodes', edges')
       /\ DOMAIN frameAgg'.total \subseteq Nat /\ Totals(nodes', frameAgg'.total)
       /\ Marked(nodes) \subseteq Marked(nodes') /\ c.node \in Marked(nodes')
       /\ Marked(nodes) \subseteq 0 .. Len(nodes') - 1 /\ c.node \in 0 .. Len(nodes') - 1
       /\ Len(nodes) <= Len(nodes') /\ Len(nodes) \in Nat /\ Len(nodes') \in Nat
       /\ newLeafs \subseteq newLeafs' /\ newLeafs' \subseteq Marked(nodes')
       /\ Marked(nodes') \subseteq newLeafs' \cup DOMAIN tables'.paths
       /\ RowsInv'
  <2> HIDE DEF F
  <2> QED BY <1>10, <1>11, <1>12, GrewKeeps
<1>14. TreeInv'
  <2>1. PostponedInv'
    BY <1>2, <1>13 DEF GraphInv, TreeInv, PostponedInv
  <2>2. \A t \in DOMAIN leafOf' : leafOf'[t] \in Marked(nodes')
    <3>1. \A t \in DOMAIN leafOf : leafOf[t] \in Marked(nodes')
      BY <1>13 DEF GraphInv, TreeInv
    <3> QED BY <1>6, <1>13, <3>1 DEF Put
  <2> QED BY <1>13, <2>1, <2>2 DEF TreeInv
<1>15. NamesInv'
  <2>1. KeysOf(nodes') \subseteq 0 .. M - 1
    <3>1. KeysOf(nodes) \subseteq 0 .. N - 1
      BY DEF GraphInv, NamesInv
    <3>2. KeysOf(nodes') \subseteq KeysOf(nodes) \cup F
      BY <1>6, <1>11 DEF Constructed
    <3>3. 0 .. N - 1 \subseteq 0 .. M - 1 /\ F \subseteq 0 .. M - 1
      <4> HIDE DEF N, M
      <4> QED BY <1>7, <1>8
    <3> HIDE DEF N, M, F
    <3> QED BY <3>1, <3>2, <3>3
  <2>2. 0 .. M - 1 \subseteq tables'.names \cup pending' \cup unpublished'
    <3>1. 0 .. N - 1 \subseteq tables.names \cup pending \cup unpublished
      BY DEF GraphInv, NamesInv
    <3>2. \A k \in 0 .. M - 1 : k \in 0 .. N - 1 \/ k \in N .. M - 1
      <4> HIDE DEF N, M
      <4> QED BY <1>8
    <3> HIDE DEF N, M
    <3> QED BY <1>2, <1>6, <1>7, <3>1, <3>2
  <2>3. pending' \subseteq {0, 1, 2} \/ newLeafs' # {}
    <3>1. CASE N = M
      <4>1. N .. M - 1 = {}
        <5> HIDE DEF N, M
        <5> QED BY <1>8, <3>1
      <4>2. pending' = pending
        BY <1>6, <1>7, <4>1
      <4>3. pending \subseteq {0, 1, 2} \/ newLeafs # {}
        BY DEF GraphInv, NamesInv
      <4> QED BY <1>13, <4>2, <4>3
    <3>2. CASE N # M
      <4>1. N \in N .. M - 1 /\ N \notin 0 .. N - 1
        <5> HIDE DEF N, M
        <5> QED BY <1>7, <1>8, <3>2
      <4>2. PICK a \in DOMAIN l.ranges : a \in ToSet(trace) /\ N \in ToSet(l.ranges[a])
        <5> HIDE DEF N, M
        <5> QED BY <1>7, <4>1
      <4>3. N \in ToSet(frames)
        BY <1>9, <4>2
      <4>4. N \notin KeysOf(nodes)
        <5>1. KeysOf(nodes) \subseteq 0 .. N - 1
          BY DEF GraphInv, NamesInv
        <5> QED BY <4>1, <5>1
      <4>5. c.node \notin Marked(nodes)
        <5> HIDE DEF N, F
        <5> QED BY <1>11, <4>3, <4>4 DEF Constructed
      <4>6. newLeafs' = newLeafs \cup {c.node}
        BY <1>6, <1>11, <4>5 DEF Constructed
      <4> QED BY <4>6
    <3> QED BY <3>1, <3>2
  <2>4. FramesHaveNames'
    BY <1>2 DEF GraphInv, NamesInv, FramesHaveNames
  <2> QED BY <1>6, <1>7, <1>8, <2>1, <2>2, <2>3, <2>4 DEF NamesInv
<1>16. LeafsInv'
  BY <1>2, <1>13 DEF GraphInv, LeafsInv
<1> QED BY <1>13, <1>14, <1>15, <1>16 DEF GraphInv

\* process_alloc_summary keeps it: the value waits at the leaf of its trace.
LEMMA AllocSummaryKeeps == ASSUME GraphInv, ProcessAllocSummary PROVE GraphInv'
<1>1. PICK id \in DOMAIN leafOf \cup {Unknown}, d \in Diffs :
        LET g == IF id = Unknown THEN ConstructPath(<<UNKNOWN_LOCALIZED_ID>>)
                 ELSE [node |-> leafOf[id], nodes |-> nodes, edges |-> edges, newLeafs |-> newLeafs] IN
        /\ nodes' = g.nodes /\ edges' = g.edges /\ newLeafs' = g.newLeafs
        /\ postponed' = Put(postponed, g.node, Get(postponed, g.node) + d)
        /\ modSelf' = modSelf \cup {g.node}
  BY DEF ProcessAllocSummary
<1> DEFINE c == IF id = Unknown THEN ConstructPath(<<UNKNOWN_LOCALIZED_ID>>)
                ELSE [node |-> leafOf[id], nodes |-> nodes, edges |-> edges, newLeafs |-> newLeafs]
           F == {UNKNOWN_LOCALIZED_ID}
           frames == IF id = Unknown THEN <<UNKNOWN_LOCALIZED_ID>> ELSE <<>>
<1>2. names' = names /\ ranges' = ranges /\ pending' = pending /\ UNCHANGED <<leafOf, frameAgg, tables, unpublished>>
  BY DEF ProcessAllocSummary, localizerVars
<1>3. Tree(nodes) /\ edges \in SUBSET EdgeRecord /\ EdgesFit(nodes, edges) /\ d \in Int
  BY TracesAssumption DEF GraphInv, TreeInv
<1>4. /\ nodes' = c.nodes /\ edges' = c.edges /\ newLeafs' = c.newLeafs
      /\ postponed' = Put(postponed, c.node, Get(postponed, c.node) + d) /\ modSelf' = modSelf \cup {c.node}
  BY <1>1
<1>5. FrameIds(F)
  BY DEF FrameIds, UNKNOWN_LOCALIZED_ID
<1>6. Constructed(c, F, frames)
  <2>1. CASE id = Unknown
    <3> DEFINE s == <<UNKNOWN_LOCALIZED_ID>>
    <3>1. s \in Seq(F)
      BY DEF UNKNOWN_LOCALIZED_ID
    <3>2. c = ConstructPath(s) /\ frames = s
      BY <2>1
    <3> HIDE DEF s, F, c, frames
    <3>3. Constructed(ConstructPath(s), F, s)
      BY <1>3, <1>5, <3>1, ConstructPathIs
    <3> QED BY <3>2, <3>3
  <2>2. CASE id # Unknown
    <3>1. id \in DOMAIN leafOf /\ c = [node |-> leafOf[id], nodes |-> nodes, edges |-> edges, newLeafs |-> newLeafs] /\ frames = <<>>
      BY <2>2
    <3> HIDE DEF c, F, frames
    <3>2. c.node = leafOf[id] /\ c.nodes = nodes /\ c.edges = edges /\ c.newLeafs = newLeafs
      BY <3>1
    <3>3. c.node \in Marked(nodes)
      BY <3>1, <3>2 DEF GraphInv, TreeInv
    <3>4. c.node \in 0 .. Len(nodes) - 1 /\ Len(nodes) \in Nat
      BY <1>3, <3>3 DEF Marked, Tree, Chain
    <3>5. Extended(nodes, nodes)
      BY <3>4 DEF Extended, Grown
    <3>6. ToSet(frames) = {}
      BY <3>1 DEF ToSet
    <3> QED BY <1>3, <3>2, <3>3, <3>4, <3>5, <3>6 DEF Constructed
  <2> QED BY <2>1, <2>2
<1> HIDE DEF c, frames
<1>7. Grew(c)
  BY <1>2, <1>4 DEF Grew
<1>8. /\ Tree(nodes') /\ edges' \in SUBSET EdgeRecord /\ EdgesFit(nodes', edges')
      /\ DOMAIN frameAgg'.total \subseteq Nat /\ Totals(nodes', frameAgg'.total)
      /\ Marked(nodes) \subseteq Marked(nodes') /\ c.node \in Marked(nodes')
      /\ Marked(nodes) \subseteq 0 .. Len(nodes') - 1 /\ c.node \in 0 .. Len(nodes') - 1
      /\ Len(nodes) <= Len(nodes') /\ Len(nodes) \in Nat /\ Len(nodes') \in Nat
      /\ newLeafs \subseteq newLeafs' /\ newLeafs' \subseteq Marked(nodes')
      /\ Marked(nodes') \subseteq newLeafs' \cup DOMAIN tables'.paths
      /\ RowsInv'
  <2> HIDE DEF F
  <2> QED BY <1>5, <1>6, <1>7, GrewKeeps
<1>9. DOMAIN postponed' = DOMAIN postponed \cup {c.node}
  BY <1>4 DEF Put
<1>10. TreeInv'
  <2>1. PostponedInv'
    <3>1. DOMAIN postponed \subseteq 0 .. Len(nodes) - 1 /\ \A n \in DOMAIN postponed : postponed[n] \in Int
      BY DEF GraphInv, TreeInv, PostponedInv
    <3>2. DOMAIN postponed' \subseteq 0 .. Len(nodes') - 1
      BY <1>8, <1>9, <3>1
    <3> DEFINE v == Get(postponed, c.node) + d
    <3>3. v \in Int
      BY <1>3, <3>1 DEF Get
    <3>4. postponed' = Put(postponed, c.node, v)
      BY <1>4
    <3> HIDE DEF v
    <3>5. \A n \in DOMAIN postponed' : postponed'[n] \in Int
      BY <3>1, <3>3, <3>4 DEF Put
    <3> QED BY <3>2, <3>5 DEF PostponedInv
  <2>2. \A t \in DOMAIN leafOf' : leafOf'[t] \in Marked(nodes')
    BY <1>2, <1>8 DEF GraphInv, TreeInv
  <2> QED BY <1>8, <2>1, <2>2 DEF TreeInv
<1>11. NamesInv'
  <2>1. NamesOk(names) /\ Len(names) \in Nat /\ Len(names) >= 3
    BY DEF GraphInv, NamesInv, NamesOk
  <2>2. KeysOf(nodes') \subseteq 0 .. Len(names) - 1
    <3>1. KeysOf(nodes') \subseteq KeysOf(nodes) \cup F
      BY <1>4, <1>6 DEF Constructed
    <3>2. F \subseteq 0 .. Len(names) - 1
      BY <2>1 DEF UNKNOWN_LOCALIZED_ID
    <3>3. KeysOf(nodes) \subseteq 0 .. Len(names) - 1
      BY DEF GraphInv, NamesInv
    <3> HIDE DEF F
    <3> QED BY <3>1, <3>2, <3>3
  <2>3. FramesHaveNames'
    BY <1>2 DEF GraphInv, NamesInv, FramesHaveNames
  <2>4. pending' \subseteq {0, 1, 2} \/ newLeafs' # {}
    <3>1. pending \subseteq {0, 1, 2} \/ newLeafs # {}
      BY DEF GraphInv, NamesInv
    <3> QED BY <1>2, <1>8, <3>1
  <2>5. /\ NamesOk(names') /\ ranges' \in Ranges /\ RangesFit(names', ranges') /\ pending' \in SUBSET Nat
        /\ KeysOf(nodes') \subseteq 0 .. Len(names') - 1
        /\ 0 .. Len(names') - 1 \subseteq tables'.names \cup pending' \cup unpublished'
    BY <1>2, <2>2 DEF GraphInv, NamesInv
  <2> QED BY <2>3, <2>4, <2>5 DEF NamesInv
<1>12. LeafsInv'
  BY <1>2, <1>4, <1>8, <1>9 DEF GraphInv, LeafsInv
<1> QED BY <1>8, <1>10, <1>11, <1>12 DEF GraphInv

\* The frames on a path are frames of nodes.
LEMMA PathKeys ==
  ASSUME NEW ns, Chain(ns), NEW n \in 0 .. Len(ns) - 1
  PROVE  ToSet(PathTo(ns, n)) \subseteq KeysOf(ns)
<1> DEFINE D == 0 .. Len(ns) - 1
           b == Backtrace(ns, n)
           q == PathTo(ns, n)
<1>1. b \in Seq(D)
  BY BacktraceFacts
<1>2. q = [i \in DOMAIN b |-> ns[b[i] + 1].key]
  BY DEF PathTo
<1> HIDE DEF b, q
<1>3. \A i \in DOMAIN b : b[i] \in D
  <2> HIDE DEF D
  <2> QED BY <1>1
<1>4. \A i \in DOMAIN q : q[i] \in KeysOf(ns)
  BY <1>2, <1>3 DEF KeysOf
<1>5. ToSet(q) \subseteq KeysOf(ns)
  BY <1>4 DEF ToSet
<1> QED BY <1>5 DEF q

\* process_modifications keeps it: the graph is updated, and every row that it
\* makes stale is published again.
LEMMA ModificationsKeep == ASSUME GraphInv, ProcessModifications PROVE GraphInv'
<1> DEFINE acc == Accumulated
           own == OnFrames(postponed)
           onf == OnFrames(acc)
           total == Merge(frameAgg.total, onf)
           self == Merge(frameAgg.self, own)
           touched == Touched(own, onf)
<1>1. /\ nodes' = Updated
      /\ frameAgg' = [self |-> self, total |-> total]
      /\ tables' =
           [names  |-> tables.names \cup pending,
            paths  |-> [n \in DOMAIN tables.paths \cup newLeafs |->
                          IF n \in newLeafs THEN PathTo(nodes, n) ELSE tables.paths[n]],
            self   |-> [n \in DOMAIN tables.self \cup modSelf |->
                          IF n \in modSelf THEN Updated[n + 1].self ELSE tables.self[n]],
            frames |-> [k \in DOMAIN tables.frames \cup touched |->
                          IF k \in touched THEN [self |-> Get(self, k), total |-> Get(total, k)]
                          ELSE tables.frames[k]]]
      /\ postponed' = Empty /\ newLeafs' = {} /\ modSelf' = {} /\ pending' = {}
      /\ UNCHANGED <<names, ranges, edges, leafOf, unpublished>>
  BY DEF ProcessModifications, Updated
<1> HIDE DEF acc, own, onf, total, self
<1>2. /\ frameAgg'.total = total
      /\ tables'.names = tables.names \cup pending
      /\ tables'.paths = [n \in DOMAIN tables.paths \cup newLeafs |->
                            IF n \in newLeafs THEN PathTo(nodes, n) ELSE tables.paths[n]]
      /\ tables'.self = [n \in DOMAIN tables.self \cup modSelf |->
                            IF n \in modSelf THEN Updated[n + 1].self ELSE tables.self[n]]
      /\ tables'.frames = [k \in DOMAIN tables.frames \cup touched |->
                            IF k \in touched THEN [self |-> Get(self, k), total |-> Get(total, k)]
                            ELSE tables.frames[k]]
  BY <1>1
<1>3. Tree(nodes) /\ Chain(nodes) /\ PostponedInv /\ Totals(nodes, frameAgg.total) /\ DOMAIN frameAgg.total \subseteq Nat
  BY DEF GraphInv, TreeInv, Tree
<1>4. /\ SameShape(nodes, Updated)
      /\ \A i \in 1 .. Len(nodes) : /\ Updated[i].self = nodes[i].self + Get(postponed, i - 1)
                                    /\ Updated[i].leaf = nodes[i].leaf
  BY <1>3, UpdatedFacts
<1>5. Tree(nodes') /\ Chain(nodes') /\ Grown(nodes, nodes') /\ Len(nodes') = Len(nodes) /\ Len(nodes) \in Nat
  <2>1. Tree(nodes) /\ SameShape(nodes, Updated)
    BY <1>3, <1>4
  <2>2. Chain(Updated) /\ Grown(nodes, Updated) /\ Tree(Updated)
    BY <2>1, SameTree
  <2>3. nodes' = Updated
    BY <1>1
  <2>4. Len(Updated) = Len(nodes)
    BY <2>1 DEF SameShape
  <2>5. Len(nodes) \in Nat
    BY <1>3 DEF Chain
  <2> QED BY <2>2, <2>3, <2>4, <2>5
<1>6. \A m \in 0 .. Len(nodes) - 1 :
        /\ nodes'[m + 1].self = nodes[m + 1].self + Get(postponed, m)
        /\ nodes'[m + 1].leaf = nodes[m + 1].leaf
        /\ nodes'[m + 1].key = nodes[m + 1].key /\ nodes'[m + 1].parent = nodes[m + 1].parent
  <2>1. ASSUME NEW m \in 0 .. Len(nodes) - 1
        PROVE  /\ nodes'[m + 1].self = nodes[m + 1].self + Get(postponed, m)
               /\ nodes'[m + 1].leaf = nodes[m + 1].leaf
               /\ nodes'[m + 1].key = nodes[m + 1].key /\ nodes'[m + 1].parent = nodes[m + 1].parent
    <3>1. m + 1 \in 1 .. Len(nodes) /\ (m + 1) - 1 = m
      BY <1>5
    <3> QED BY <1>1, <1>4, <3>1 DEF SameShape
  <2> QED BY <2>1
<1>7. Marked(nodes') = Marked(nodes) /\ KeysOf(nodes') = KeysOf(nodes)
  <2>1. Marked(nodes') = Marked(nodes)
    BY <1>5, <1>6 DEF Marked
  <2>2. KeysOf(nodes') = KeysOf(nodes)
    BY <1>5, <1>6 DEF KeysOf
  <2> QED BY <2>1, <2>2
<1>8. Totals(nodes', total)
  BY <1>1, <1>3, TotalsUpdate DEF total, onf, acc
<1>9. DOMAIN total = DOMAIN frameAgg.total \cup DOMAIN onf
  BY DEF total, Merge
<1>10. DOMAIN onf \subseteq Nat
  <2>1. PICK G : Sums(G, Postponed, 0 .. TopNode)
    BY <1>3, PostponedSums
  <2>2. DOMAIN acc = AllHits
    BY <1>3, <2>1, AccumulatedIs DEF acc
  <2>3. \A n \in AllHits : Node(n).key \in Nat
    <3>1. \A n \in 0 .. TopNode : Node(n) \in NodeRecord
      BY <1>3, TreeFacts
    <3> QED BY <3>1 DEF AllHits, NodeRecord
  <2> QED BY <2>2, <2>3 DEF onf, OnFrames
<1>11. TreeInv'
  <2>1. EdgesFit(nodes', edges') /\ edges' \in SUBSET EdgeRecord
    <3>1. ASSUME NEW e \in edges
          PROVE  /\ e.from \in 0 .. Len(nodes') - 1 /\ e.to \in 1 .. Len(nodes') - 1
                 /\ nodes'[e.to + 1].parent = e.from /\ nodes'[e.to + 1].key = e.by
      <4>1. /\ e.from \in 0 .. Len(nodes) - 1 /\ e.to \in 1 .. Len(nodes) - 1
            /\ nodes[e.to + 1].parent = e.from /\ nodes[e.to + 1].key = e.by
        BY DEF GraphInv, TreeInv, EdgesFit
      <4>2. e.to \in 0 .. Len(nodes) - 1
        BY <4>1
      <4> QED BY <1>5, <1>6, <4>1, <4>2
    <3>2. edges' = edges /\ edges \in SUBSET EdgeRecord
      BY <1>1 DEF GraphInv, TreeInv
    <3> QED BY <3>1, <3>2 DEF EdgesFit
  <2>2. PostponedInv'
    BY <1>1 DEF PostponedInv, Empty
  <2>3. \A t \in DOMAIN leafOf' : leafOf'[t] \in Marked(nodes')
    BY <1>1, <1>7 DEF GraphInv, TreeInv
  <2> QED BY <1>2, <1>3, <1>5, <1>8, <1>9, <1>10, <2>1, <2>2, <2>3 DEF TreeInv
<1>12. newLeafs \subseteq 0 .. Len(nodes) - 1
  BY DEF GraphInv, LeafsInv, Marked
<1>13. NamesInv'
  <2>1. 0 .. Len(names) - 1 \subseteq tables'.names \cup unpublished
    BY <1>2 DEF GraphInv, NamesInv
  <2>2. \A n \in DOMAIN tables'.paths : ToSet(tables'.paths[n]) \subseteq tables'.names \cup unpublished
    <3>1. ASSUME NEW n \in DOMAIN tables'.paths PROVE ToSet(tables'.paths[n]) \subseteq tables'.names \cup unpublished
      <4>1. CASE n \in newLeafs
        <5>1. tables'.paths[n] = PathTo(nodes, n)
          BY <1>2, <4>1
        <5>2. ToSet(PathTo(nodes, n)) \subseteq KeysOf(nodes)
          BY <1>3, <1>12, <4>1, PathKeys
        <5>3. KeysOf(nodes) \subseteq 0 .. Len(names) - 1
          BY DEF GraphInv, NamesInv
        <5> QED BY <2>1, <5>1, <5>2, <5>3
      <4>2. CASE n \notin newLeafs
        <5>1. n \in DOMAIN tables.paths /\ tables'.paths[n] = tables.paths[n]
          BY <1>2, <4>2
        <5>2. ToSet(tables.paths[n]) \subseteq tables.names \cup unpublished
          BY <5>1 DEF GraphInv, NamesInv, FramesHaveNames
        <5> QED BY <1>2, <5>1, <5>2
      <4> QED BY <4>1, <4>2
    <3> QED BY <3>1
  <2>3. FramesHaveNames'
    BY <1>1, <2>2 DEF GraphInv, NamesInv, FramesHaveNames
  <2>4. /\ NamesOk(names') /\ ranges' \in Ranges /\ RangesFit(names', ranges')
        /\ KeysOf(nodes') \subseteq 0 .. Len(names') - 1
    BY <1>1, <1>7 DEF GraphInv, NamesInv
  <2> QED BY <1>1, <2>1, <2>3, <2>4 DEF NamesInv
<1>14. DOMAIN tables'.paths = DOMAIN tables.paths \cup newLeafs /\ DOMAIN tables'.self = DOMAIN tables.self \cup modSelf
  BY <1>2
<1>15. LeafsInv'
  <2>1. Marked(nodes) \subseteq DOMAIN tables'.paths /\ modSelf \subseteq Marked(nodes) /\ DOMAIN tables.self \subseteq DOMAIN tables.paths
    BY <1>14 DEF GraphInv, LeafsInv
  <2>2. DOMAIN postponed' = {}
    BY <1>1 DEF Empty
  <2> QED BY <1>1, <1>7, <1>14, <2>1, <2>2 DEF LeafsInv
<1>16. RowsInv'
  <2>1. ASSUME NEW n \in DOMAIN tables'.paths
        PROVE  n \in 0 .. Len(nodes') - 1 /\ tables'.paths[n] = PathTo(nodes', n)
    <3>1. n \in 0 .. Len(nodes) - 1 /\ tables'.paths[n] = PathTo(nodes, n)
      <4>1. CASE n \in newLeafs
        BY <1>2, <1>12, <4>1
      <4>2. CASE n \notin newLeafs
        <5>1. n \in DOMAIN tables.paths /\ tables'.paths[n] = tables.paths[n]
          BY <1>2, <4>2
        <5> QED BY <5>1 DEF GraphInv, RowsInv
      <4> QED BY <4>1, <4>2
    <3>2. PathTo(nodes', n) = PathTo(nodes, n)
      BY <1>3, <1>5, <3>1, SamePaths
    <3> QED BY <1>5, <3>1, <3>2
  <2>2. ASSUME NEW n \in 0 .. Len(nodes') - 1 PROVE Get(tables'.self, n) = nodes'[n + 1].self
    <3>1. n \in 0 .. Len(nodes) - 1
      BY <1>5
    <3>2. CASE n \in modSelf
      <4>1. n \in DOMAIN tables'.self /\ tables'.self[n] = Updated[n + 1].self
        BY <1>2, <3>2
      <4> QED BY <1>1, <4>1 DEF Get
    <3>3. CASE n \notin modSelf
      <4>1. Get(tables'.self, n) = Get(tables.self, n)
        BY <1>2, <3>3 DEF Get
      <4>2. Get(tables.self, n) = nodes[n + 1].self
        BY <3>1 DEF GraphInv, RowsInv
      <4>3. Get(postponed, n) = 0
        BY <3>3 DEF GraphInv, LeafsInv, Get
      <4>4. nodes[n + 1].self \in Int
        <5>1. n + 1 \in 1 .. Len(nodes) /\ nodes \in Seq(NodeRecord)
          BY <1>3, <1>5, <3>1 DEF Chain
        <5>2. nodes[n + 1] \in NodeRecord
          BY <5>1
        <5> QED BY <5>2 DEF NodeRecord
      <4> QED BY <1>6, <3>1, <4>1, <4>2, <4>3, <4>4
    <3> QED BY <3>2, <3>3
  <2>3. ASSUME NEW k \in DOMAIN total PROVE k \in DOMAIN tables'.frames /\ tables'.frames[k].total = total[k]
    <3>1. CASE k \in touched
      <4>1. k \in DOMAIN tables'.frames /\ tables'.frames[k] = [self |-> Get(self, k), total |-> Get(total, k)]
        <5> HIDE DEF touched
        <5> QED BY <1>2, <3>1
      <4>2. tables'.frames[k].total = Get(total, k)
        BY <4>1
      <4> QED BY <4>1, <4>2 DEF Get
    <3>2. CASE k \notin touched
      <4>1. k \notin DOMAIN onf
        BY <3>2 DEF Touched
      <4>2. k \in DOMAIN frameAgg.total
        BY <1>9, <4>1
      <4>3. k \in DOMAIN tables.frames /\ tables.frames[k].total = frameAgg.total[k]
        BY <4>2 DEF GraphInv, RowsInv
      <4>4. k \in DOMAIN tables'.frames /\ tables'.frames[k] = tables.frames[k]
        <5> HIDE DEF touched
        <5> QED BY <1>2, <3>2, <4>3
      <4>5. frameAgg.total[k] \in Int
        <5>1. frameAgg.total[k] = SumOver(SelfOf(nodes), HoldersIn(nodes, k))
          BY <1>3, <4>2 DEF Totals, Get
        <5>2. HoldersIn(nodes, k) \in SUBSET (0 .. Len(nodes) - 1)
          BY DEF HoldersIn
        <5>3. PICK S : Sums(S, SelfOf(nodes), 0 .. Len(nodes) - 1) /\ \A U \in SUBSET (0 .. Len(nodes) - 1) : SumOver(SelfOf(nodes), U) = S[U]
          BY <1>3, SelfSums
        <5> QED BY <5>1, <5>2, <5>3 DEF Sums
      <4>6. total[k] = frameAgg.total[k] + 0
        BY <4>1, <4>2 DEF total, Merge, Get
      <4> QED BY <4>3, <4>4, <4>5, <4>6
    <3> QED BY <3>1, <3>2
  <2> QED BY <1>2, <2>1, <2>2, <2>3 DEF RowsInv
<1> QED BY <1>11, <1>13, <1>15, <1>16 DEF GraphInv

\* A restart, which restores the graph and the localizer, keeps the invariant.
LEMMA RestartKeeps == ASSUME GraphInv, Restart PROVE GraphInv'
<1>1. /\ newLeafs = {} /\ pending' = {} /\ unpublished' = unpublished \cup pending
      /\ UNCHANGED <<names, ranges, nodes, edges, leafOf, postponed, frameAgg, newLeafs, modSelf, tables>>
  BY DEF Restart, treeVars
<1>2. TreeInv'
  BY <1>1 DEF GraphInv, TreeInv, PostponedInv
<1>3. NamesInv'
  <2>1. pending \subseteq {0, 1, 2}
    BY <1>1 DEF GraphInv, NamesInv
  <2>2. FramesHaveNames'
    BY <1>1, <2>1 DEF GraphInv, NamesInv, FramesHaveNames
  <2>3. /\ NamesOk(names') /\ ranges' \in Ranges /\ RangesFit(names', ranges')
        /\ KeysOf(nodes') \subseteq 0 .. Len(names') - 1
        /\ 0 .. Len(names') - 1 \subseteq tables'.names \cup pending' \cup unpublished'
    BY <1>1 DEF GraphInv, NamesInv
  <2> QED BY <1>1, <2>2, <2>3 DEF NamesInv
<1>4. LeafsInv' /\ RowsInv'
  BY <1>1 DEF GraphInv, LeafsInv, RowsInv
<1> QED BY <1>2, <1>3, <1>4 DEF GraphInv

\* So does a step that leaves the graph alone.
LEMMA GraphStutters == ASSUME GraphInv, UNCHANGED graphVars PROVE GraphInv'
<1>1. UNCHANGED <<names, ranges, pending, nodes, edges, leafOf, postponed, frameAgg, newLeafs, modSelf, tables, unpublished>>
  BY DEF graphVars, treeVars, localizerVars
<1>2. TreeInv'
  BY <1>1 DEF GraphInv, TreeInv, PostponedInv
<1>3. NamesInv'
  BY <1>1 DEF GraphInv, NamesInv, FramesHaveNames
<1>4. LeafsInv' /\ RowsInv'
  BY <1>1 DEF GraphInv, LeafsInv, RowsInv
<1> QED BY <1>2, <1>3, <1>4 DEF GraphInv

\* The invariant of the graph holds in every run.
LEMMA GraphInvariant == GraphSpec => []GraphInv
<1>1. GraphInit => GraphInv
  BY InitGraph
<1>2. GraphInv /\ [GraphNext]_graphVars => GraphInv'
  <2> SUFFICES ASSUME GraphInv, [GraphNext]_graphVars PROVE GraphInv'
    OBVIOUS
  <2> QED BY StacktraceKeeps, AllocSummaryKeeps, ModificationsKeep, RestartKeeps, GraphStutters DEF GraphNext
<1> QED BY <1>1, <1>2, PTL DEF GraphSpec

\* However the differences of a snapshot arrive, merged by node and carried to
\* the root level by level: the total of a node is the sum of the self values
\* below it, and the total of a frame counts each path that has it once, also
\* where it recurs.
THEOREM GraphTotals == GraphSpec => []GraphCorrect
<1>1. GraphInv => GraphCorrect
  BY TotalsCorrect DEF GraphInv, TreeInv
<1> QED BY <1>1, GraphInvariant, PTL

\* What consume_modifications publishes, snapshot by snapshot and over
\* restarts, adds up to the graph: paths, self values and totals of frames are
\* in the tables with their present values, and every frame of a published
\* path has a published name, but for predefined names lost at a stop.
THEOREM PublishedTables == GraphSpec => []TablesCorrect
<1>1. GraphInv => TablesCorrect
  <2> SUFFICES ASSUME GraphInv PROVE TablesCorrect
    OBVIOUS
  <2>1. FramesHaveNames
    BY DEF GraphInv, NamesInv
  <2>2. TablesShowTheGraph
    BY DEF GraphInv, RowsInv, LeafsInv, TablesShowTheGraph, NodeIds, Node
  <2> QED BY <2>1, <2>2 DEF TablesCorrect
<1> QED BY <1>1, GraphInvariant, PTL

=============================================================================
