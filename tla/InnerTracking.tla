--------------------------- MODULE InnerTracking ---------------------------
(***************************************************************************)
(* Operations of MemHawk itself (impl/memhawk.cpp, the branches that are   *)
(* not external).  What MemHawk allocates comes back through the hooks and *)
(* is tracked by one shared tracker, m_innerTracker.  Inserting into that  *)
(* tracker's map may allocate again, under the tracker's lock; these       *)
(* nested operations are put into a queue of bounded capacity and applied  *)
(* by whoever tracks the next inner operation.                             *)
(*                                                                         *)
(* An operation is Alloc(b) or Free(b) of a block b, as in Trackers, and a *)
(* map of summaries is the set of the operations summed in it.  The        *)
(* critical sections of m_postponedMt, and InsertStacktrace of the static  *)
(* tracker, take no other lock and are parts of actions; the lock of       *)
(* m_innerTracker is held across actions.  A nested realloc does not       *)
(* occur: only a hash map runs under that lock, and it allocates a new     *)
(* array and frees the old one.                                            *)
(***************************************************************************)
EXTENDS Integers, Sequences

CONSTANTS
  Threads,     \* application threads
  Worker,      \* the tracking worker, which also allocates and frees
  Blocks,      \* allocations that can happen; bounds the model
  Capacity,    \* m_postponedCapacity
  NoProc       \* the lock of m_innerTracker is free

ASSUME CapacityAssumption == Capacity \in Nat \ {0}
ASSUME ProcAssumption == NoProc \notin Threads \cup {Worker}

Procs == Threads \cup {Worker}

VARIABLES
  built,             \* m_innerTracker exists
  blk,               \* state of each block, see BlockState
  pc,                \* where an inner operation of a process is
  mine,              \* the operations its hook was called for, not applied yet
  todo,              \* the operations it applies when it has the lock
  lock,              \* holder of the lock of m_innerTracker, or NoProc
  postponed,         \* m_postponed
  maxPostponedSize,  \* m_maxPostponedSize
  inner,             \* m_allocSummaries and m_total of m_innerTracker
  consumed,          \* operations the worker has taken from it
  dropped            \* operations skipped because the queue was full

vars == <<built, blk, pc, mine, todo, lock, postponed, maxPostponedSize,
          inner, consumed, dropped>>

-----------------------------------------------------------------------------
(* State spaces.                                                           *)

Alloc(b) == <<"Alloc", b>>
Free(b)  == <<"Free", b>>
Op == {"Alloc", "Free"} \X Blocks

\* "allocating": its hook has not returned; "live": used by MemHawk; "table":
\* the array of the map in m_innerTracker; "spare": the array of the worker's
\* local map, with which ConsumeDiff swaps it.
BlockState == {"fresh", "allocating", "live", "table", "spare", "freed"}

\* Operations that have been performed, and so are to be tracked.
Performed ==
  {o \in Op : \/ o[1] = "Alloc" /\ blk[o[2]] # "fresh"
              \/ o[1] = "Free"  /\ blk[o[2]] = "freed"}

Queued == {o \in Op : \E i \in 1 .. Len(postponed) : postponed[i] = o}

TypeOK ==
  /\ built \in BOOLEAN
  /\ blk \in [Blocks -> BlockState]
  /\ pc \in [Procs -> {"idle", "process", "lock", "track"}]
  /\ mine \in [Procs -> SUBSET Op]
  /\ todo \in [Procs -> SUBSET Op]
  /\ lock \in Procs \cup {NoProc}
  /\ postponed \in Seq(Op) /\ Len(postponed) <= Capacity
  /\ maxPostponedSize \in Len(postponed) .. Capacity
  /\ inner \in SUBSET Op
  /\ consumed \in SUBSET Op
  /\ dropped \in SUBSET Op

Init ==
  /\ built = FALSE
  /\ blk = [b \in Blocks |-> "fresh"]
  /\ pc = [p \in Procs |-> "idle"]
  /\ mine = [p \in Procs |-> {}]
  /\ todo = [p \in Procs |-> {}]
  /\ lock = NoProc
  /\ postponed = <<>>
  /\ maxPostponedSize = 0
  /\ inner = {}
  /\ consumed = {}
  /\ dropped = {}

-----------------------------------------------------------------------------
(* Parts of the actions below, each after the mutant that a plausible slip *)
(* of the code would make of it.                                           *)

\* if (m_postponed.size() >= m_postponedCapacity)
QueueFull == Len(postponed) >= Capacity

\* if (innerGuard): the level of RecursionGuard<InnerAllocTag> is one
\*                                                  (mutant: not tested)
MutantFirstLevel(p) == TRUE
FirstLevel(p) == pc[p] = "idle"

\* m_postponed.pop_front()                          (mutant: forgotten)
MutantPopFront == postponed
PopFront == Tail(postponed)

\* ProcessPostponed returns when the queue is empty (mutant: not called)
MutantNothingPostponed == TRUE
NothingPostponed == postponed = <<>>

\* m_maxPostponedSize = std::max(m_maxPostponedSize, m_postponed.size()),
\* after the element was added
Peak(q) == IF Len(q) > maxPostponedSize THEN Len(q) ELSE maxPostponedSize

-----------------------------------------------------------------------------
(* Postponed operations.                                                   *)

\* PostponeAlloc, PostponeDealloc: push_back, or skip when the queue is full
Postpone(o) ==
  IF QueueFull
    THEN /\ dropped' = dropped \cup {o}
         /\ UNCHANGED <<postponed, maxPostponedSize>>
    ELSE /\ postponed' = Append(postponed, o)
         /\ maxPostponedSize' = Peak(Append(postponed, o))
         /\ UNCHANGED dropped

\* PostponedConstruct: m_innerTracker and its map are allocated under both
\* guards, so these operations are postponed before there is a tracker.
Construct(b) ==
  /\ ~built
  /\ blk[b] = "fresh"
  /\ built' = TRUE
  /\ blk' = [blk EXCEPT ![b] = "table"]
  /\ Postpone(Alloc(b))
  /\ UNCHANGED <<pc, mine, todo, lock, inner, consumed>>

-----------------------------------------------------------------------------
(* Tracking one inner operation.                                           *)

\* A hook calls TrackAlloc, TrackDealloc or TrackRealloc with isExternal
\* false: at the first level of the inner guard the process goes on to
\* ProcessPostponed, at a deeper level it postpones the operation.
EnterFirstLevel(p, ops) ==
  /\ pc' = [pc EXCEPT ![p] = "process"]
  /\ mine' = [mine EXCEPT ![p] = ops]
  /\ UNCHANGED <<postponed, maxPostponedSize, dropped>>

TrackOp(p, o) ==
  IF FirstLevel(p) THEN EnterFirstLevel(p, {o})
                   ELSE Postpone(o) /\ UNCHANGED <<pc, mine>>

TrackAlloc(p, b) ==
  /\ built
  /\ pc[p] = "idle" \/ lock = p
  /\ blk[b] = "fresh"
  /\ TrackOp(p, Alloc(b))
  /\ blk' = [blk EXCEPT ![b] = IF pc[p] = "idle" THEN "allocating" ELSE "table"]
  /\ UNCHANGED <<built, todo, lock, inner, consumed>>

\* An array is freed by the map that grows, or outside the lock by the worker
\* that clears the map it swapped out.
TrackDealloc(p, b) ==
  /\ built
  /\ \/ pc[p] = "idle" /\ blk[b] = "live"
     \/ pc[p] = "idle" /\ blk[b] = "spare" /\ p = Worker
     \/ lock = p /\ blk[b] = "table"
  /\ TrackOp(p, Free(b))
  /\ blk' = [blk EXCEPT ![b] = "freed"]
  /\ UNCHANGED <<built, todo, lock, inner, consumed>>

TrackRealloc(p, b, c) ==
  /\ built
  /\ pc[p] = "idle"
  /\ blk[b] = "live" /\ blk[c] = "fresh"
  /\ EnterFirstLevel(p, {Free(b), Alloc(c)})
  /\ blk' = [blk EXCEPT ![b] = "freed", ![c] = "allocating"]
  /\ UNCHANGED <<built, todo, lock, inner, consumed>>

\* ProcessPostponed, the critical section of m_postponedMt: take the oldest
\* operation, or return and go on to the operation of the hook.
ProcessPostponed(p) ==
  /\ pc[p] = "process"
  /\ pc' = [pc EXCEPT ![p] = "lock"]
  /\ IF NothingPostponed
       THEN /\ todo' = [todo EXCEPT ![p] = mine[p]]
            /\ mine' = [mine EXCEPT ![p] = {}]
            /\ UNCHANGED postponed
       ELSE /\ todo' = [todo EXCEPT ![p] = {postponed[1]}]
            /\ postponed' = PopFront
            /\ UNCHANGED mine
  /\ UNCHANGED <<built, blk, lock, maxPostponedSize, inner, consumed, dropped>>

\* m_innerTracker->LockTracker()
LockTracker(p) ==
  /\ pc[p] = "lock"
  /\ lock = NoProc
  /\ lock' = p
  /\ pc' = [pc EXCEPT ![p] = "track"]
  /\ UNCHANGED <<built, blk, mine, todo, postponed, maxPostponedSize, inner,
                 consumed, dropped>>

\* The operations are added to the summaries and the lock is released: of a
\* postponed operation, on which ProcessPostponed loops, or of the hook's
\* own operations, after which the hook returns.
Apply(p) ==
  /\ pc[p] = "track"
  /\ inner' = inner \cup todo[p]
  /\ todo' = [todo EXCEPT ![p] = {}]
  /\ lock' = NoProc
  /\ pc' = [pc EXCEPT ![p] = IF mine[p] = {} THEN "idle" ELSE "process"]
  /\ blk' = IF mine[p] = {}
              THEN [b \in Blocks |->
                      IF Alloc(b) \in todo[p] /\ blk[b] = "allocating"
                        THEN "live" ELSE blk[b]]
              ELSE blk
  /\ UNCHANGED <<built, mine, postponed, maxPostponedSize, consumed, dropped>>

\* WorkerAccountThreadTracker(m_innerTracker.get()): ConsumeDiff swaps the
\* maps, and with them their arrays, under the tracker's lock.
WorkerConsume ==
  /\ built
  /\ pc[Worker] = "idle"
  /\ lock = NoProc
  /\ consumed' = consumed \cup inner
  /\ inner' = {}
  /\ blk' = [b \in Blocks |-> IF blk[b] = "table" THEN "spare"
                              ELSE IF blk[b] = "spare" THEN "table"
                              ELSE blk[b]]
  /\ UNCHANGED <<built, pc, mine, todo, lock, postponed,
                 maxPostponedSize, dropped>>

-----------------------------------------------------------------------------
Progress(p) == ProcessPostponed(p) \/ LockTracker(p) \/ Apply(p)

Next ==
  \/ \E b \in Blocks : Construct(b)
  \/ \E p \in Procs : \/ \E b \in Blocks : TrackAlloc(p, b) \/ TrackDealloc(p, b)
                      \/ \E b, c \in Blocks : TrackRealloc(p, b, c)
                      \/ Progress(p)
  \/ WorkerConsume

Spec == Init /\ [][Next]_vars

(***************************************************************************)
(* Fairness: a process inside a hook goes on, and a spinning one gets the  *)
(* lock of m_innerTracker if it is released again and again (its holders   *)
(* leave it within a bounded number of steps).  Nothing forces a process   *)
(* to allocate or to free, nor the worker to come by.                      *)
(***************************************************************************)
Fairness ==
  \A p \in Procs : /\ WF_vars(ProcessPostponed(p))
                   /\ SF_vars(LockTracker(p))
                   /\ WF_vars(Apply(p))

FairSpec == Spec /\ Fairness

-----------------------------------------------------------------------------
(* Properties.                                                             *)

\* Where an operation can be on its way from the hook to the worker.
Applied == inner \cup consumed
InFlight == {o \in Op : \E p \in Procs : o \in todo[p]}
Waiting == {o \in Op : \E p \in Procs : o \in mine[p]}

\* Every operation MemHawk performed is in exactly one place: with the hook
\* that was called for it, in the queue, popped by ProcessPostponed and not
\* applied, in the inner tracker, consumed by the worker, or skipped because
\* the queue was full.
OnceOrDropped ==
  /\ Performed = Waiting \cup Queued \cup InFlight \cup inner \cup consumed
                   \cup dropped
  /\ \A p, q \in Procs : p # q => mine[p] \cap mine[q] = {}
                                  /\ todo[p] \cap todo[q] = {}
  /\ \A i, j \in 1 .. Len(postponed) : i # j => postponed[i] # postponed[j]
  /\ Waiting \cap (Queued \cup InFlight \cup Applied \cup dropped) = {}
  /\ Queued \cap (InFlight \cup Applied \cup dropped) = {}
  /\ InFlight \cap (Applied \cup dropped) = {}
  /\ dropped \cap Applied = {}
  /\ inner \cap consumed = {}

\* A deallocation may be counted before the allocation it belongs to, because
\* ProcessPostponed releases m_postponedMt before it takes the tracker's lock.
\* But then another process is about to apply the allocation, or it was
\* skipped: it is never left behind in the queue, since TrackDealloc empties
\* the queue before it applies its own operation.
NotLeftBehind ==
  \A b \in Blocks : Free(b) \in Applied => Alloc(b) \in Applied \cup InFlight \cup dropped

\* When an operation was skipped, the peak that Stop logs is the capacity.
DropsAreVisible == dropped # {} => maxPostponedSize = Capacity

\* A hook called by MemHawk itself returns, whoever holds the tracker's lock:
\* a nested operation does not ask for the lock, which its own thread holds.
\* (That the queue runs dry follows from the bound on the blocks.)
CallsReturn == \A p \in Procs : pc[p] # "idle" ~> pc[p] = "idle"

\* A queued operation does not stay in the queue when a hook has reached
\* ProcessPostponed.
QueueDrained ==
  \A o \in Op : o \in Queued /\ (\E p \in Procs : pc[p] = "process")
                  ~> o \notin Queued
=============================================================================
