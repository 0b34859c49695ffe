------------------------------ MODULE Trackers ------------------------------
(***************************************************************************)
(* The core of MemHawk (impl/memhawk.cpp): the registry of per-thread      *)
(* trackers, the tracking of the program's own ("external") allocations    *)
(* and deallocations, thread exit, the tracking worker and shutdown.       *)
(*                                                                         *)
(* Abstraction.  An AllocSummary is a sum over tracked operations, and the *)
(* sums are commutative, so a map of summaries is represented by the SET   *)
(* of the operations summed in it.  A block is one allocation: malloc      *)
(* returns a fresh one, realloc gives one up for another, free gives one   *)
(* up.  Trace ids and sizes are functions of the block and are left out.   *)
(*                                                                         *)
(* Granularity.  An operation on one tracker runs under that tracker's     *)
(* spin lock and is one action.  m_mt is held across steps by the worker   *)
(* only, m_thTrackersMt by the worker and by a thread whose finalizer puts *)
(* its tracker back; every other holder takes and releases them within one *)
(* action, so "the lock is free" is a predicate on program counters.       *)
(* Operations of MemHawk itself (the inner tracker and the postponed       *)
(* queue) are the subject of module InnerTracking: they touch none of the  *)
(* state below.                                                            *)
(***************************************************************************)
EXTENDS Integers, Sequences

CONSTANTS
  Threads,                  \* application threads
  Blocks,                   \* allocations that can happen; bounds the model
  MaxTrackers,              \* bound on Len(m_thTrackers)
  ExitingThreadsTracker,    \* m_exitingThreadsTracker (id 1 << 30 in the code)
  NoTracker                 \* nullptr

ASSUME MaxTrackersAssumption == MaxTrackers \in Nat
ASSUME SpecialTrackersAssumption ==
  /\ ExitingThreadsTracker \notin Int
  /\ NoTracker \notin Int
  /\ NoTracker # ExitingThreadsTracker

VARIABLES
  ready,       \* gl_memhawkReady
  blk,         \* state of each block, see BlockState
  call,        \* request a thread is making to MemHawk, or NoRequest
  gtl_tracker, \* thread_local gtl_tracker
  finalizer,   \* tracker captured by the thread's gtl_trackerFinalizer
  life,        \* life cycle of a thread, see LifeState
  thTrackers,  \* m_thTrackers.size(): the trackers are 0 .. thTrackers-1
  finished,    \* m_finishedTrackers
  diff,        \* m_allocSummaries and m_total of each tracker
  stopped,     \* m_stopped
  dpc,         \* deinit_memhawk and Stop, on the exiting main thread
  wpc,         \* TrackingWorker
  wi,          \* the worker's position in its walk over the trackers
  local,       \* m_workerStorage: localSummaries and summary
  accounted,   \* operations accounted by the writer, not yet flushed
  flushed,     \* operations contained in the last flushed report
  prevFlushed, \* history: flushed before the last flush
  passStart,   \* history: what was tracked when the last walk began
  exitStart    \* history: what was tracked when deinit_memhawk began

threadVars == <<blk, call, gtl_tracker, finalizer, life>>
registryVars == <<thTrackers, finished>>
workerVars == <<wpc, wi, local, accounted, flushed, prevFlushed, passStart>>
stopVars == <<ready, stopped, dpc, exitStart>>
vars == <<threadVars, registryVars, workerVars, stopVars, diff>>

-----------------------------------------------------------------------------
(* State spaces.                                                           *)

\* The two operations MemHawk tracks on a block.
Alloc(b) == <<"Alloc", b>>
Free(b)  == <<"Free", b>>
Op == {"Alloc", "Free"} \X Blocks

\* "fresh": not allocated yet; "allocating": inside malloc or realloc, not
\* tracked yet; "live": tracked and owned by the program; "freeing": given
\* back by the program, deallocation not tracked yet; "freed".
BlockState == {"fresh", "allocating", "live", "freeing", "freed"}

\* A request frees a set of blocks and allocates a set of blocks.
Request == [free : SUBSET Blocks, alloc : SUBSET Blocks]
NoRequest == [free |-> {}, alloc |-> {}]

\* "run": the thread's function runs; "reclaim": its finalizer has run the
\* first statement of ReclaimTracker; "locked": it holds m_thTrackersMt;
\* "exiting": the finalizer is done but other thread-local destructors still
\* run; "dead".
LifeState == {"run", "reclaim", "locked", "exiting", "dead"}

TrackerId == 0 .. MaxTrackers - 1
Tracker == TrackerId \cup {ExitingThreadsTracker}

\* Operations that some tracker has recorded.
Tracked ==
  {o \in Op : \/ o[1] = "Alloc" /\ blk[o[2]] \in {"live", "freeing", "freed"}
              \/ o[1] = "Free"  /\ blk[o[2]] = "freed"}

TypeOK ==
  /\ ready \in BOOLEAN
  /\ blk \in [Blocks -> BlockState]
  /\ call \in [Threads -> Request]
  /\ gtl_tracker \in [Threads -> Tracker \cup {NoTracker}]
  /\ finalizer \in [Threads -> TrackerId \cup {NoTracker}]
  /\ life \in [Threads -> LifeState]
  /\ thTrackers \in 0 .. MaxTrackers
  /\ finished \in Seq(TrackerId)
  /\ diff \in [Tracker -> SUBSET Op]
  /\ stopped \in BOOLEAN
  /\ dpc \in {"run", "stop", "join", "end"}
  /\ wpc \in {"check", "lock", "wait", "update", "consume", "account",
              "print", "done"}
  /\ wi \in 0 .. MaxTrackers
  /\ local \in SUBSET Op
  /\ accounted \in SUBSET Op
  /\ flushed \in SUBSET Op
  /\ prevFlushed \in SUBSET Op
  /\ passStart \in SUBSET Op
  /\ exitStart \in SUBSET Op

Init ==
  /\ ready = TRUE
  /\ blk = [b \in Blocks |-> "fresh"]
  /\ call = [t \in Threads |-> NoRequest]
  /\ gtl_tracker = [t \in Threads |-> NoTracker]
  /\ finalizer = [t \in Threads |-> NoTracker]
  /\ life = [t \in Threads |-> "run"]
  /\ thTrackers = 0
  /\ finished = <<>>
  /\ diff = [k \in Tracker |-> {}]
  /\ stopped = FALSE
  /\ dpc = "run"
  /\ wpc = "check"
  /\ wi = 0
  /\ local = {}
  /\ accounted = {}
  /\ flushed = {}
  /\ prevFlushed = {}
  /\ passStart = {}
  /\ exitStart = {}

-----------------------------------------------------------------------------
(* Locks held across steps.                                                *)

MtFree == wpc \notin {"update", "consume", "account", "print"}
ThTrackersMtFree ==
  /\ wpc \notin {"consume", "account"}
  /\ \A t \in Threads : life[t] # "locked"

-----------------------------------------------------------------------------
(* Parts of the actions below, each after the mutant that a plausible slip *)
(* of the code would make of it.                                           *)

\* m_finishedTrackers.pop_back()                    (mutant: forgotten)
MutantPopFinished == finished
PopFinished == SubSeq(finished, 1, Len(finished) - 1)

\* m_finishedTrackers.push_back(id)                 (mutant: forgotten)
MutantPushFinished(k) == finished
PushFinished(k) == Append(finished, k)

\* the tracker ReclaimTracker gives to the thread   (mutant: nullptr)
MutantRedirectedTo == NoTracker
RedirectedTo == ExitingThreadsTracker

\* while (!m_stopped)                               (mutant: while (true))
MutantLoopCondition == TRUE
LoopCondition == ~stopped

\* wait_until may return                            (mutant: wait, no timeout)
MutantWaitOver == stopped
WaitOver == TRUE

\* The walk: the thread trackers in order of creation, then the tracker of
\* the exiting threads (the inner tracker comes between the two).
\*                                  (mutant: the last tracker left out)
MutantShortWalk == IF thTrackers = 0 THEN 0 ELSE thTrackers - 1
LastPosition == thTrackers
WalkTracker(i) == IF i < thTrackers THEN i ELSE ExitingThreadsTracker

\* the tracker after swap and erase                 (mutant: not erased)
MutantDiffAfterConsume(k) == diff[k]
DiffAfterConsume(k) == {}

\* FlushData writes running totals                  (mutant: the last period)
MutantReport == accounted
Report == flushed \cup accounted

-----------------------------------------------------------------------------
(* Application threads.                                                    *)

\* A hook (hawk_malloc, hawk_free, hawk_realloc, ...) reads GetMemHawk() and
\* gets the tool.  Once gl_memhawkReady is false the hooks bypass it, which
\* changes nothing here.  The program frees a block at most once and only
\* after the hook that allocated it returned.
BeginCall(t, req) ==
  /\ ready
  /\ life[t] \in {"run", "locked", "exiting"}
  /\ call[t] = NoRequest
  /\ \A b \in req.free : blk[b] = "live"
  /\ \A b \in req.alloc : blk[b] = "fresh"
  /\ call' = [call EXCEPT ![t] = req]
  /\ blk' = [b \in Blocks |-> IF b \in req.free THEN "freeing"
                              ELSE IF b \in req.alloc THEN "allocating"
                              ELSE blk[b]]
  /\ UNCHANGED <<gtl_tracker, finalizer, life, registryVars, workerVars,
                 stopVars, diff>>

\* malloc and its relatives, free, and realloc
Malloc(t, b) == BeginCall(t, [free |-> {}, alloc |-> {b}])
Dealloc(t, b) == BeginCall(t, [free |-> {b}, alloc |-> {}])
Realloc(t, b, c) == BeginCall(t, [free |-> {b}, alloc |-> {c}])

\* SetUpThreadTracker: the tracker becomes the thread's, and a finalizer
\* that will reclaim it is registered.
SetUpThreadTracker(t, k) ==
  /\ gtl_tracker' = [gtl_tracker EXCEPT ![t] = k]
  /\ finalizer' = [finalizer EXCEPT ![t] = k]

\* RegisterThread, called by the first tracked operation of a thread: reuse
\* the tracker that was finished last, or create a new one.
RegisterThread(t) ==
  /\ call[t] # NoRequest
  /\ gtl_tracker[t] = NoTracker
  /\ ThTrackersMtFree
  /\ \/ /\ finished # <<>>
        /\ SetUpThreadTracker(t, finished[Len(finished)])
        /\ finished' = PopFinished
        /\ UNCHANGED thTrackers
     \/ /\ finished = <<>>
        /\ thTrackers < MaxTrackers
        /\ SetUpThreadTracker(t, thTrackers)
        /\ thTrackers' = thTrackers + 1
        /\ UNCHANGED finished
  /\ UNCHANGED <<blk, call, life, workerVars, stopVars, diff>>

\* The operations a request performs.
OpsOf(req) ==
  {o \in Op : \/ o[1] = "Alloc" /\ o[2] \in req.alloc
              \/ o[1] = "Free"  /\ o[2] \in req.free}

\* TrackAlloc, TrackDealloc, TrackRealloc of an external operation, from
\* LockTracker() to the release of the tracker's lock: a reallocation takes
\* the lock once for both of its halves.
Track(t) ==
  /\ call[t] # NoRequest
  /\ gtl_tracker[t] # NoTracker
  /\ diff' = [diff EXCEPT ![gtl_tracker[t]] = @ \cup OpsOf(call[t])]
  /\ blk' = [b \in Blocks |-> IF b \in call[t].free THEN "freed"
                              ELSE IF b \in call[t].alloc THEN "live"
                              ELSE blk[b]]
  /\ call' = [call EXCEPT ![t] = NoRequest]
  /\ UNCHANGED <<gtl_tracker, finalizer, life, registryVars, workerVars,
                 stopVars>>

\* A thread returns from its function and its thread-local destructors run.
\* A thread without a tracker has no finalizer.  Otherwise ~CallbackGuard
\* runs ReclaimTracker, whose first statement redirects the thread to the
\* exiting-threads tracker.
ThreadExit(t) ==
  /\ life[t] = "run"
  /\ call[t] = NoRequest
  /\ IF finalizer[t] = NoTracker
       THEN /\ life' = [life EXCEPT ![t] = "dead"]
            /\ UNCHANGED gtl_tracker
       ELSE /\ life' = [life EXCEPT ![t] = "reclaim"]
            /\ gtl_tracker' = [gtl_tracker EXCEPT ![t] = RedirectedTo]
  /\ UNCHANGED <<blk, call, finalizer, registryVars, workerVars, stopVars,
                 diff>>

\* The rest of ReclaimTracker: m_thTrackersMt is taken and the tracker goes
\* to the pool.  push_back may allocate and free, through the hooks, while
\* the lock is held: a "locked" thread makes calls.
ReclaimLock(t) ==
  /\ life[t] = "reclaim"
  /\ ThTrackersMtFree
  /\ life' = [life EXCEPT ![t] = "locked"]
  /\ UNCHANGED <<blk, call, gtl_tracker, finalizer, registryVars, workerVars,
                 stopVars, diff>>

ReclaimTracker(t) ==
  /\ life[t] = "locked"
  /\ call[t] = NoRequest
  /\ finished' = PushFinished(finalizer[t])
  /\ finalizer' = [finalizer EXCEPT ![t] = NoTracker]
  /\ life' = [life EXCEPT ![t] = "exiting"]
  /\ UNCHANGED <<blk, call, gtl_tracker, thTrackers, workerVars, stopVars,
                 diff>>

ThreadEnd(t) ==
  /\ life[t] = "exiting"
  /\ call[t] = NoRequest
  /\ life' = [life EXCEPT ![t] = "dead"]
  /\ UNCHANGED <<blk, call, gtl_tracker, finalizer, registryVars, workerVars,
                 stopVars, diff>>

ThreadStep(t) ==
  \/ \E b \in Blocks : Malloc(t, b) \/ Dealloc(t, b)
  \/ \E b, c \in Blocks : Realloc(t, b, c)
  \/ RegisterThread(t)
  \/ Track(t)
  \/ ThreadExit(t)
  \/ ReclaimLock(t)
  \/ ReclaimTracker(t)
  \/ ThreadEnd(t)

-----------------------------------------------------------------------------
(* The tracking worker.                                                    *)

\* while (!m_stopped)
WorkerCheck ==
  /\ wpc = "check"
  /\ wpc' = IF LoopCondition THEN "lock" ELSE "done"
  /\ UNCHANGED <<threadVars, registryVars, stopVars, diff, wi, local,
                 accounted, flushed, prevFlushed, passStart>>

\* unique_lock lock(m_mt) and the first test of wait_until's predicate: a
\* worker that finds m_stopped set does not wait but still does its walk.
WorkerLock ==
  /\ wpc = "lock"
  /\ wpc' = IF stopped THEN "update" ELSE "wait"
  /\ UNCHANGED <<threadVars, registryVars, stopVars, diff, wi, local,
                 accounted, flushed, prevFlushed, passStart>>

\* wait_until returns, by timeout or because Stop notified it, holding m_mt
WorkerWake ==
  /\ wpc = "wait"
  /\ WaitOver
  /\ wpc' = "update"
  /\ UNCHANGED <<threadVars, registryVars, stopVars, diff, wi, local,
                 accounted, flushed, prevFlushed, passStart>>

\* WorkerUpdateData takes m_thTrackersMt and starts its walk.
WorkerUpdateData ==
  /\ wpc = "update"
  /\ ThTrackersMtFree
  /\ wpc' = "consume"
  /\ wi' = 0
  /\ passStart' = Tracked
  /\ UNCHANGED <<threadVars, registryVars, stopVars, diff, local, accounted,
                 flushed, prevFlushed>>

\* ConsumeDiff, under the tracker's lock: the summaries are swapped with the
\* worker's local map and what came back is erased.
ConsumeDiff ==
  /\ wpc = "consume"
  /\ local' = diff[WalkTracker(wi)]
  /\ diff' = [diff EXCEPT ![WalkTracker(wi)] = DiffAfterConsume(WalkTracker(wi))]
  /\ wpc' = "account"
  /\ UNCHANGED <<threadVars, registryVars, stopVars, wi, accounted, flushed,
                 prevFlushed, passStart>>

\* The rest of WorkerAccountThreadTracker: AccountSnapshot, and the local
\* storage is cleared.  After the last tracker m_thTrackersMt is released.
WorkerAccountThreadTracker ==
  /\ wpc = "account"
  /\ accounted' = accounted \cup local
  /\ local' = {}
  /\ IF wi < LastPosition
       THEN wi' = wi + 1 /\ wpc' = "consume"
       ELSE wi' = 0 /\ wpc' = "print"
  /\ UNCHANGED <<threadVars, registryVars, stopVars, diff, flushed,
                 prevFlushed, passStart>>

\* FlushData; the end of the loop body releases m_mt.
WorkerPrintData ==
  /\ wpc = "print"
  /\ flushed' = Report
  /\ accounted' = {}
  /\ prevFlushed' = flushed
  /\ wpc' = "check"
  /\ UNCHANGED <<threadVars, registryVars, stopVars, diff, wi, local,
                 passStart>>

WorkerStep ==
  \/ WorkerCheck
  \/ WorkerLock
  \/ WorkerWake
  \/ WorkerUpdateData
  \/ ConsumeDiff
  \/ WorkerAccountThreadTracker
  \/ WorkerPrintData

-----------------------------------------------------------------------------
(* Shutdown: the library's destructor on the main thread.                  *)

DeinitMemhawk ==
  /\ dpc = "run"
  /\ ready' = FALSE
  /\ exitStart' = Tracked
  /\ dpc' = "stop"
  /\ UNCHANGED <<threadVars, registryVars, workerVars, diff, stopped>>

\* Stop sets m_stopped under m_mt and notifies the worker.
Stop ==
  /\ dpc = "stop"
  /\ MtFree
  /\ stopped' = TRUE
  /\ dpc' = "join"
  /\ UNCHANGED <<threadVars, registryVars, workerVars, diff, ready, exitStart>>

\* m_worker.join(); then m_thTrackersMt is taken, and the totals are printed.
Join ==
  /\ dpc = "join"
  /\ wpc = "done"
  /\ ThTrackersMtFree
  /\ dpc' = "end"
  /\ UNCHANGED <<threadVars, registryVars, workerVars, diff, ready, stopped,
                 exitStart>>

-----------------------------------------------------------------------------
Next ==
  \/ \E t \in Threads : ThreadStep(t)
  \/ WorkerStep
  \/ DeinitMemhawk
  \/ Stop
  \/ Join

Spec == Init /\ [][Next]_vars

(***************************************************************************)
(* Fairness.  The worker runs: its waits end by timeout, and the locks it  *)
(* needs are released by their holders, which run.  A thread inside a hook *)
(* or inside its finalizer goes on; for m_mt and m_thTrackersMt, which the *)
(* worker takes again and again, this is strong fairness, justified by the *)
(* dumping period in which the worker holds neither.  Nothing forces a     *)
(* thread to call a hook, to exit, or the process to end.                  *)
(***************************************************************************)
Fairness ==
  /\ WF_vars(WorkerStep)
  /\ \A t \in Threads : /\ WF_vars(Track(t))
                        /\ SF_vars(RegisterThread(t))
                        /\ SF_vars(ReclaimLock(t))
                        /\ WF_vars(ReclaimTracker(t))
  /\ SF_vars(Stop)
  /\ WF_vars(Join)

FairSpec == Spec /\ Fairness

-----------------------------------------------------------------------------
(* Properties.                                                             *)

\* Every tracked operation is in exactly one place: in the summaries of one
\* tracker, in the worker's local storage, accounted by the writer but not
\* flushed, or flushed.  Nothing is lost when a tracker changes hands between
\* threads, when a thread operates on a tracker the worker has just emptied,
\* or at shutdown, and nothing is reported twice.
ExactlyOnce ==
  /\ Tracked = (UNION {diff[k] : k \in Tracker})
                 \cup local \cup accounted \cup flushed
  /\ \A j, k \in Tracker : j # k => diff[j] \cap diff[k] = {}
  /\ \A k \in Tracker : diff[k] \cap (local \cup accounted \cup flushed) = {}
  /\ local \cap (accounted \cup flushed) = {}
  /\ accounted \cap flushed = {}

\* A per-thread tracker belongs to one thread at a time: threads that have not
\* put their tracker back own different ones, a tracker in the pool is owned
\* by nobody and is there once, and no thread goes on using a tracker that it
\* has put back (RegisterThread, SetUpThreadTracker, ReclaimTracker).
OneOwner ==
  /\ \A t, u \in Threads :
       t # u /\ finalizer[t] # NoTracker => finalizer[t] # finalizer[u]
  /\ \A t \in Threads : \A i \in 1 .. Len(finished) :
       finished[i] # finalizer[t]
  /\ \A i, j \in 1 .. Len(finished) : i # j => finished[i] # finished[j]
  /\ \A t \in Threads :
       gtl_tracker[t] \in TrackerId => gtl_tracker[t] = finalizer[t]

\* No tracker is forgotten: each one that was created is owned by a thread
\* or waits in the pool, so threads that come and go do not make m_thTrackers
\* grow (RegisterThread creates one only when the pool is empty).
NoTrackerForgotten ==
  \A k \in 0 .. thTrackers - 1 :
    \/ \E t \in Threads : finalizer[t] = k
    \/ \E i \in 1 .. Len(finished) : finished[i] = k

\* The registry of trackers stays in order while threads come and go.
RegistryInOrder == OneOwner /\ NoTrackerForgotten

\* A report is not a consistent snapshot: the walk may see a deallocation and
\* miss the allocation that another thread tracked before it.  But it is
\* inconsistent for one period only: when a deallocation was in the previous
\* report, the allocation is in the current one, because WorkerUpdateData
\* visits every tracker, the one of the exiting threads included.
TornForOneReport ==
  \A b \in Blocks : Free(b) \in prevFlushed => Alloc(b) \in flushed

\* What happened, the cut taken when a walk begins and the flushed reports
\* implement the abstract specification: a flush publishes everything that
\* was tracked when WorkerUpdateData began, and nothing that was not tracked.
Abstract == INSTANCE Accounting WITH
  happened <- Tracked, cut <- passStart, reported <- flushed
ImplementsAccounting == Abstract!Spec

\* Every tracked operation is reported, unless the process is ending.
EventuallyReported ==
  \A o \in Op : o \in Tracked ~> o \in flushed \/ ~ready

\* A hook that entered MemHawk returns, whatever the worker and the exiting
\* threads do with the locks.  In particular a thread that calls a hook while
\* it holds m_thTrackersMt in its finalizer does not need RegisterThread,
\* which would wait for that lock forever: ReclaimTracker redirects
\* gtl_tracker before it takes the lock.
CallsReturn == \A t \in Threads : call[t] # NoRequest ~> call[t] = NoRequest

\* Shutdown terminates: Stop gets m_mt and the worker can be joined.
StopTerminates == dpc # "run" ~> dpc = "end"

\* README: "Tracks every malloc/free -- no sampling, no missed events".  Every
\* operation tracked before the process began to end is in the last report.
NoMissedEvents == dpc = "end" => exitStart \subseteq flushed
=============================================================================
