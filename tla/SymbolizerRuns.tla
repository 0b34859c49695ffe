--------------------------- MODULE SymbolizerRuns ---------------------------
(***************************************************************************)
(* The symbolizer service over several runs (rust/symbolizer: main.rs,     *)
(* processor.rs, clickhouse/, postgres/): it reads the snapshots of a file *)
(* that the profiled program still appends to, uploads rows through one    *)
(* worker per ClickHouse table, saves its state in Postgres when it stops  *)
(* and restores it when it is started again.  A run may be cut short at    *)
(* any step: by a crash, or by an error that `?` carries out of main.      *)
(*                                                                         *)
(* Abstraction.  A snapshot is its position in the file and its timestamp; *)
(* the rows a snapshot yields for a table are counted as a whole.  The     *)
(* state of the processor (graph, localizer, last summaries) is the set of *)
(* snapshots it contains.  A message the program has written only in part  *)
(* is not in `file` yet: the reader retries or stops, and never yields it. *)
(***************************************************************************)
EXTENDS Integers, Sequences

CONSTANTS
  Tables,         \* number of tables: they are filled in the order 1 .. Tables
  Capacity,       \* capacity of a table's channel
  MaxSnapshots,   \* bound on Len(file)
  MaxTime,        \* bound on timestamps
  MaxRuns,        \* bound on the number of runs
  NoState         \* no row in profiling.saved_states

ASSUME TablesAssumption == Tables \in Nat \ {0}
ASSUME CapacityAssumption == Capacity \in Nat \ {0}
ASSUME BoundsAssumption == MaxSnapshots \in Nat /\ MaxTime \in Nat /\ MaxRuns \in Nat

VARIABLES
  file,       \* timestamps of the snapshots in the file
  saved,      \* the state saved in Postgres, or NoState
  rows,       \* rows[t][k]: how many times table t holds the rows of snapshot k
  runs,       \* number of runs started
  pc,         \* main, create_processor and process
  restored,   \* this run restored a saved state
  pos,        \* position of the reader
  proc,       \* the processor: last_processed_timestamp and its contents
  ti,         \* the table being cleared or sent to
  chan,       \* the channel of each TableWorker
  inserter,   \* rows written to each Inserter and not committed
  ended,      \* table workers whose task has ended
  cut,        \* history: a restored run was cut since the tables were cleared
  dropped     \* history: <<t, k>> whose rows were logged as failed, or lost in
              \* a crash after the state was saved

runVars == <<runs, pc, restored, pos, proc, ti>>
workerVars == <<chan, inserter, ended>>
historyVars == <<cut, dropped>>
vars == <<file, saved, rows, runVars, workerVars, historyVars>>

-----------------------------------------------------------------------------
Table == 1 .. Tables
Snap == 1 .. MaxSnapshots
Time == 1 .. MaxTime

\* RestorableState, as far as the properties tell states apart.
State == [last : 0 .. MaxTime, done : SUBSET Snap]
EmptyState == [last |-> 0, done |-> {}]

Running == pc # "idle"

\* Snapshots on their way to table t.
Inflight(t) == {chan[t][i] : i \in DOMAIN chan[t]} \cup inserter[t]

TypeOK ==
  /\ file \in Seq(Time) /\ Len(file) <= MaxSnapshots
  /\ saved \in State \cup {NoState}
  /\ rows \in [Table -> [Snap -> Nat]]
  /\ runs \in 0 .. MaxRuns
  /\ pc \in {"idle", "drop", "load", "clear", "read", "send", "save", "wait"}
  /\ restored \in BOOLEAN
  /\ pos \in 1 .. MaxSnapshots + 1
  /\ proc \in State
  /\ ti \in 1 .. Tables + 1
  /\ chan \in [Table -> Seq(Snap)] /\ \A t \in Table : Len(chan[t]) <= Capacity
  /\ inserter \in [Table -> SUBSET Snap]
  /\ ended \in SUBSET Table
  /\ cut \in BOOLEAN
  /\ dropped \in SUBSET (Table \X Snap)

Init ==
  /\ file = <<>>
  /\ saved = NoState
  /\ rows = [t \in Table |-> [k \in Snap |-> 0]]
  /\ runs = 0
  /\ pc = "idle"
  /\ restored = FALSE
  /\ pos = 1
  /\ proc = EmptyState
  /\ ti = 1
  /\ chan = [t \in Table |-> <<>>]
  /\ inserter = [t \in Table |-> {}]
  /\ ended = {}
  /\ cut = FALSE
  /\ dropped = {}

-----------------------------------------------------------------------------
(* The profiled program.                                                   *)

\* ProtobufWriter::FlushData appends a snapshot stamped with system_clock,
\* which may have been set back since the snapshot before.
AppendSnapshot ==
  /\ Len(file) < MaxSnapshots
  /\ \E now \in Time : file' = Append(file, now)
  /\ UNCHANGED <<saved, rows, runVars, workerVars, historyVars>>

-----------------------------------------------------------------------------
(* create_processor                                                        *)

\* Where create_processor begins: with --force it drops the saved state, and
\* only then clears the tables.     (mutant: the tables are cleared first)
FirstStep_ClearFirst(force) == IF force THEN "clear" ELSE "load"
FirstStep(force) == IF force THEN "drop" ELSE "load"

Start ==
  /\ pc = "idle" /\ runs < MaxRuns
  /\ runs' = runs + 1
  /\ \E force \in BOOLEAN : pc' = FirstStep(force)
  /\ restored' = FALSE
  /\ pos' = 1 /\ ti' = 1
  /\ proc' = EmptyState
  /\ chan' = [t \in Table |-> <<>>]
  /\ inserter' = [t \in Table |-> {}]
  /\ ended' = {}
  /\ UNCHANGED <<file, saved, rows, historyVars>>

\* postgres_client.drop_process_state; then Processor::new.
DropState ==
  /\ pc = "drop"
  /\ saved' = NoState
  /\ pc' = "clear"
  /\ UNCHANGED <<file, rows, runs, restored, pos, proc, ti, workerVars, historyVars>>

\* postgres_client.read_process_state: Processor::restore or Processor::new.
LoadState ==
  /\ pc = "load"
  /\ IF saved = NoState
       THEN pc' = "clear" /\ UNCHANGED <<restored, proc>>
       ELSE pc' = "read" /\ restored' = TRUE /\ proc' = saved
  /\ UNCHANGED <<file, saved, rows, runs, pos, ti, workerVars, historyVars>>

\* ClickhouseClient::clear deletes the rows of one table after the other.
ClearTable ==
  /\ pc = "clear"
  /\ rows' = [rows EXCEPT ![ti] = [k \in Snap |-> 0]]
  /\ dropped' = {d \in dropped : d[1] # ti}
  /\ IF ti = Tables
       THEN pc' = "read" /\ ti' = 1 /\ cut' = FALSE
       ELSE ti' = ti + 1 /\ UNCHANGED <<pc, cut>>
  /\ UNCHANGED <<file, saved, runs, restored, pos, proc, workerVars>>

-----------------------------------------------------------------------------
(* process: the loop over the snapshots of the file                        *)

\* Processor::process skips a snapshot that is not newer than the last one.
\* Mutants: the last one itself is not skipped; the next one is.
SkipSnapshot_NotTheLast(timestamp) == timestamp < proc.last
SkipSnapshot_TheNext(timestamp) == timestamp <= proc.last + 1
SkipSnapshot(timestamp) == timestamp <= proc.last

ReadSnapshot ==
  /\ pc = "read" /\ pos <= Len(file)
  /\ IF SkipSnapshot(file[pos])
       THEN pos' = pos + 1 /\ UNCHANGED <<proc, pc, ti>>
       ELSE /\ proc' = [last |-> file[pos], done |-> proc.done \cup {pos}]
            /\ pc' = "send" /\ ti' = 1
            /\ UNCHANGED pos
  /\ UNCHANGED <<file, saved, rows, runs, restored, workerVars, historyVars>>

\* mpsc::channel(capacity): send blocks while it is full.
HasRoom(t) == Len(chan[t]) < Capacity

\* ClickhouseClient::send: the channels of the tables one after the other.
SendRows ==
  /\ pc = "send" /\ HasRoom(ti)
  /\ chan' = [chan EXCEPT ![ti] = Append(@, pos)]
  /\ IF ti = Tables
       THEN pc' = "read" /\ ti' = 1 /\ pos' = pos + 1
       ELSE ti' = ti + 1 /\ UNCHANGED <<pc, pos>>
  /\ UNCHANGED <<file, saved, rows, runs, restored, proc, inserter, ended, historyVars>>

\* Without --watch: the first read that fails.  With --watch: a read that fails,
\* or no complete message arrived for two seconds.  It happens at the end of
\* the file, or before, on an I/O error or a slow disk; the state is saved.
StopReading ==
  /\ pc = "read"
  /\ pc' = "save"
  /\ UNCHANGED <<file, saved, rows, runs, restored, pos, proc, ti, workerVars, historyVars>>

\* processor.save and save_process_state; process returns, which drops the
\* processor and with it the senders of the channels.
SaveState ==
  /\ pc = "save"
  /\ saved' = proc
  /\ pc' = "wait"
  /\ UNCHANGED <<file, rows, runs, restored, pos, proc, ti, workerVars, historyVars>>

\* main: tracker.wait() before the runtime is dropped.
WorkersEnded == ended = Table

Exit ==
  /\ pc = "wait" /\ WorkersEnded
  /\ pc' = "idle"
  /\ UNCHANGED <<file, saved, rows, runs, restored, pos, proc, ti, workerVars, historyVars>>

\* The run is killed, or an error leaves main: the tasks of the table workers
\* die with the runtime, and an INSERT that is not committed is aborted.
Crash ==
  /\ Running
  /\ pc' = "idle"
  /\ chan' = [t \in Table |-> <<>>]
  /\ inserter' = [t \in Table |-> {}]
  /\ cut' = (cut \/ (restored /\ pc \in {"read", "send", "save"}))
  /\ dropped' = dropped \cup
       {d \in Table \X Snap : pc = "wait" /\ d[2] \in Inflight(d[1])}
  /\ UNCHANGED <<file, saved, rows, runs, restored, pos, proc, ti, ended>>

-----------------------------------------------------------------------------
(* TableWorker: MsgsSender::start                                          *)

Stored(t, ks) ==
  [rows EXCEPT ![t] = [k \in Snap |-> IF k \in ks THEN @[k] + 1 ELSE @[k]]]

\* An error is logged and the rows of the open INSERT are gone.
Failed(t, ks) == dropped \cup ({t} \X ks)

\* recv and send_msg: the rows stay in the inserter until its limits are
\* reached, are committed, or the INSERT fails; the loop goes on.
WorkerRecv(t) ==
  /\ Running /\ t \notin ended /\ chan[t] # <<>>
  /\ chan' = [chan EXCEPT ![t] = Tail(@)]
  /\ LET ks == inserter[t] \cup {Head(chan[t])} IN
       \/ /\ inserter' = [inserter EXCEPT ![t] = ks]
          /\ UNCHANGED <<rows, dropped>>
       \/ /\ inserter' = [inserter EXCEPT ![t] = {}]
          /\ rows' = Stored(t, ks)
          /\ UNCHANGED dropped
       \/ /\ inserter' = [inserter EXCEPT ![t] = {}]
          /\ dropped' = Failed(t, ks)
          /\ UNCHANGED rows
  /\ UNCHANGED <<file, saved, runVars, ended, cut>>

\* All senders are dropped once process has returned.
\* (mutant: main keeps the client while it waits)
Closed_ClientKept == FALSE
Closed == pc = "wait"

\* recv returns None, and what is left is committed.    (mutant: it is not)
LastRows_NotCommitted(t) == {}
LastRows(t) == inserter[t]

WorkerEnd(t) ==
  /\ Closed /\ t \notin ended /\ chan[t] = <<>>
  /\ ended' = ended \cup {t}
  /\ inserter' = [inserter EXCEPT ![t] = {}]
  /\ \/ rows' = Stored(t, LastRows(t)) /\ UNCHANGED dropped
     \/ dropped' = Failed(t, LastRows(t)) /\ UNCHANGED rows
  /\ UNCHANGED <<file, saved, runVars, chan, cut>>

-----------------------------------------------------------------------------
MainStep ==
  \/ DropState \/ LoadState \/ ClearTable \/ ReadSnapshot \/ SendRows
  \/ StopReading \/ SaveState \/ Exit
WorkerStep(t) == WorkerRecv(t) \/ WorkerEnd(t)

Next ==
  \/ AppendSnapshot \/ Start \/ MainStep \/ Crash
  \/ \E t \in Table : WorkerStep(t)

Spec == Init /\ [][Next]_vars

\* The tokio runtime polls main's future and every task of the tracker that
\* can make progress; nothing obliges a run to be started, or the program to
\* write.
FairSpec ==
  /\ Spec
  /\ WF_vars(MainStep)
  /\ \A t \in Table : WF_vars(WorkerStep(t))

-----------------------------------------------------------------------------
(* Properties.                                                             *)

\* A snapshot the processor contains is accounted for in every table: its
\* rows are stored, still on their way, or were lost in a failure.
ProcessorAccounted ==
  (pc \in {"read", "send", "save", "wait"}) =>
    \A t \in Table, k \in proc.done :
      \/ rows[t][k] > 0 \/ k \in Inflight(t) \/ <<t, k>> \in dropped
      \/ pc = "send" /\ k = pos /\ t >= ti

\* The saved state never claims a snapshot whose rows are missing, unless an
\* INSERT failed or the run was killed between save_process_state and the end
\* of tracker.wait(): then they are lost for ever, since the next run restores
\* the state and skips the snapshot (main.rs: create_processor drops the state
\* before it clears the tables, and waits for the workers).
SavedIsStored ==
  (saved # NoState) =>
    \A t \in Table, k \in saved.done :
      \/ rows[t][k] > 0 \/ <<t, k>> \in dropped
      \/ pc = "wait" /\ k \in Inflight(t)

\* The rows of a snapshot are stored at most once in a table, until a run that
\* restored a state is cut short before it saves: the next one restores the
\* same state, and the tables have no key that would merge the rows
\* (processor.rs: process and new, main.rs: create_processor).
AtMostOnce ==
  ~cut => \A t \in Table, k \in Snap : rows[t][k] <= 1

\* Across runs and restarts, a snapshot that was read is in the processor
\* unless an earlier snapshot of the file carries a timestamp as large
\* (Processor::process).
SkippedOnlyIfOlder ==
  (pc \in {"read", "send", "save", "wait"}) =>
    \A k \in 1 .. pos - 1 :
      k \in proc.done \/ \E j \in 1 .. k - 1 : file[j] >= file[k]

\* A run ends: the channels are bounded and process blocks on a full one, the
\* workers end only when the senders are dropped, and main waits for them.
\* As long as the program stops writing (file is bounded) there is no deadlock
\* between them.
RunsEnd == Running ~> ~Running
=============================================================================
