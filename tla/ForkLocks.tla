----------------------------- MODULE ForkLocks -----------------------------
(***************************************************************************)
(* The locks of MemHawk and fork (impl/memhawk.cpp: PreFork,               *)
(* ParentPostFork, ChildPostFork).  After fork the child has only the      *)
(* thread that called it, but every lock that another thread held.         *)
(*                                                                         *)
(* What the code does between two lock operations is left out.  The code   *)
(* nests its critical sections, so a process is a stack of the locks it    *)
(* holds; Nested lists, for the lock on top of the stack, the locks the    *)
(* code takes next.                                                        *)
(***************************************************************************)
EXTENDS Integers, Sequences

CONSTANTS
  Threads,     \* application threads
  Worker,      \* the tracking worker
  None         \* no process, no lock

Procs == Threads \cup {Worker}

ASSUME NoneAssumption == None \notin Procs
ASSUME WorkerAssumption == Worker \notin Threads
ASSUME LockNamesAssumption ==
  (Threads \cup {None}) \cap {"inner", "exiting", "bt", "innerBt", "mt",
                              "thTrackersMt", "guards", "postponedMt"} = {}

VARIABLES
  holder,   \* who holds each lock, or None
  held,     \* the stack of locks of each process
  want,     \* the lock a process spins on, or None
  forking,  \* 0, or one more than the number of locks PreFork has taken
  alive,    \* the processes of the process that is followed
  child,    \* the child of the first fork is followed, not the parent
  torn      \* child only: locks somebody else held at the fork

vars == <<holder, held, want, forking, alive, child, torn>>

-----------------------------------------------------------------------------
(* The locks.                                                              *)

\* The spin lock of the tracker of thread t is named t.
ThreadTrackers == Threads
\* The spin locks of all thread trackers
TrackerLocks == ThreadTrackers \cup {"inner", "exiting"}
\* The spin locks of the two stack-trace trackers
TraceLocks == {"bt", "innerBt"}
Lock == TrackerLocks \cup TraceLocks
          \cup {"mt", "thTrackersMt", "guards", "postponedMt"}

\* PreFork, in order        (mutants: the postponed queue first; the locks of
\* the worker forgotten)
MutantNoWorkerLocks == <<"guards", "postponedMt">>
MutantPreForkOrder == <<"postponedMt", "mt", "thTrackersMt", "guards">>
PreForkOrder == <<"mt", "thTrackersMt", "guards", "postponedMt">>
PreForkLocks == {PreForkOrder[i] : i \in 1 .. Len(PreForkOrder)}

\* What ChildPostFork unlocks   (mutant: the inner tracker forgotten)
MutantUnlockedInChild == ThreadTrackers \cup {"exiting"} \cup PreForkLocks
UnlockedInChild == TrackerLocks \cup PreForkLocks

\* An inner operation: InsertStacktrace, ProcessPostponed or Postpone..., and
\* the inner tracker.
InnerOp == {"innerBt", "postponedMt", "inner"}

\* The locks an application thread takes when the top of its stack is l.
NestedInThread(t, l, depth) ==
  CASE l = None -> {t, "exiting", "thTrackersMt", "guards"}
    [] l \in TrackerLocks \ {"inner"} -> {"bt"} \cup InnerOp
    \* RegisterThread; ReclaimTracker, whose push_back is not guarded
    [] l = "thTrackersMt" -> {"guards", "exiting"} \cup InnerOp
    \* Register, inside RegisterThread; list::remove in ~CallbackGuard, which
    \* frees as the program does
    [] l = "guards" -> IF depth > 1 THEN InnerOp ELSE {t}
    [] l = "bt" -> InnerOp
    [] l = "inner" -> {"innerBt", "postponedMt"}
    [] OTHER -> {}

\* ... and those the worker takes.
NestedInWorker(l) ==
  CASE l = None -> {"mt"}
    [] l = "mt" -> {"thTrackersMt", "bt"} \cup InnerOp
    [] l = "thTrackersMt" -> TrackerLocks \cup InnerOp
    [] l = "bt" -> InnerOp
    [] l = "inner" -> {"innerBt", "postponedMt"}
    [] OTHER -> {}

Top(p) == IF held[p] = <<>> THEN None ELSE held[p][Len(held[p])]
Nested(p) == IF p = Worker THEN NestedInWorker(Top(p))
             ELSE NestedInThread(p, Top(p), Len(held[p]))

\* What Stop takes, in the child too: m_mt, m_thTrackersMt, the counts of both
\* stack-trace trackers, and every thread tracker.
StopLocks == {"mt", "thTrackersMt"} \cup TraceLocks \cup TrackerLocks

\* The lock operation: a single atomic exchange
LockFree(l) == holder[l] = None

\* Types; and mutual exclusion: a lock on the stack of a process is held by it.
TypeOK ==
  /\ holder \in [Lock -> Procs \cup {None}]
  /\ held \in [Procs -> Seq(Lock)]
  /\ want \in [Procs -> Lock \cup {None}]
  /\ forking \in [Threads -> 0 .. Len(PreForkOrder) + 1]
  /\ alive \in SUBSET Procs
  /\ child \in BOOLEAN
  /\ torn \in SUBSET Lock
  /\ \A p \in alive : \A i \in 1 .. Len(held[p]) : holder[held[p][i]] = p

Init ==
  /\ holder = [l \in Lock |-> None]
  /\ held = [p \in Procs |-> <<>>]
  /\ want = [p \in Procs |-> None]
  /\ forking = [t \in Threads |-> 0]
  /\ alive = Procs
  /\ child = FALSE
  /\ torn = {}

-----------------------------------------------------------------------------
(* Critical sections.                                                      *)

Running(p) == p \in alive /\ want[p] = None /\ (p # Worker => forking[p] = 0)

Want(p, l) ==
  /\ Running(p)
  /\ l \in Nested(p)
  /\ want' = [want EXCEPT ![p] = l]
  /\ UNCHANGED <<holder, held, forking, alive, child, torn>>

Acquire(p) ==
  /\ want[p] # None
  /\ LockFree(want[p])
  /\ holder' = [holder EXCEPT ![want[p]] = p]
  /\ held' = [held EXCEPT ![p] = Append(@, want[p])]
  /\ want' = [want EXCEPT ![p] = None]
  /\ UNCHANGED <<forking, alive, child, torn>>

Release(p) ==
  /\ Running(p)
  /\ held[p] # <<>>
  /\ holder' = [holder EXCEPT ![Top(p)] = None]
  /\ held' = [held EXCEPT ![p] = SubSeq(@, 1, Len(@) - 1)]
  /\ UNCHANGED <<want, forking, alive, child, torn>>

-----------------------------------------------------------------------------
(* Fork.  The child that is followed does not fork again.                  *)

BeginFork(t) ==
  /\ ~child
  /\ Running(t)
  /\ held[t] = <<>>
  /\ forking' = [forking EXCEPT ![t] = 1]
  /\ UNCHANGED <<holder, held, want, alive, child, torn>>

\* PreFork takes one lock after the other.
PreFork(t) ==
  /\ t \in alive
  /\ forking[t] \in 1 .. Len(PreForkOrder)
  /\ LockFree(PreForkOrder[forking[t]])
  /\ holder' = [holder EXCEPT ![PreForkOrder[forking[t]]] = t]
  /\ forking' = [forking EXCEPT ![t] = @ + 1]
  /\ UNCHANGED <<held, want, alive, child, torn>>

\* fork() returns in the parent, and ParentPostFork releases the locks.
ParentPostFork(t) ==
  /\ forking[t] = Len(PreForkOrder) + 1
  /\ holder' = [l \in Lock |-> IF l \in PreForkLocks THEN None ELSE holder[l]]
  /\ forking' = [forking EXCEPT ![t] = 0]
  /\ UNCHANGED <<held, want, alive, child, torn>>

\* fork() returns in the child, where only the caller lives, and ChildPostFork
\* unlocks the trackers, whoever held them, and the locks of PreFork.
ChildPostFork(t) ==
  /\ forking[t] = Len(PreForkOrder) + 1
  /\ child' = TRUE
  /\ alive' = {t}
  /\ torn' = {l \in Lock : holder[l] \notin {None, t}}
  /\ holder' = [l \in Lock |-> IF l \in UnlockedInChild THEN None ELSE holder[l]]
  /\ held' = [p \in Procs |-> <<>>]
  /\ want' = [p \in Procs |-> None]
  /\ forking' = [u \in Threads |-> 0]

-----------------------------------------------------------------------------
Next ==
  \/ \E p \in Procs : \/ \E l \in Lock : Want(p, l)
                      \/ Acquire(p)
                      \/ Release(p)
  \/ \E t \in Threads : \/ BeginFork(t)
                        \/ PreFork(t)
                        \/ ParentPostFork(t)
                        \/ ChildPostFork(t)

Spec == Init /\ [][Next]_vars

-----------------------------------------------------------------------------
(* Properties.                                                             *)

\* In the child, what m_mt, m_thTrackersMt, the guards' lock and the lock of
\* the queue protect was not being modified when fork copied it, and the only
\* locks that can be held by a thread that does not exist are those of the
\* two stack-trace trackers, which PreFork does not take.
ChildInheritsTraceLocksOnly ==
  child => /\ torn \cap PreForkLocks = {}
           /\ \A l \in Lock : holder[l] \notin alive \cup {None} => l \in TraceLocks

\* The tracker of the thread that forked is whole in the child, although the
\* worker shares it: PreFork kept the worker out of its walk.
OwnTrackerIntact == child => torn \cap alive = {}

\* What a child gets by fork is whole, and it lacks no lock but two.
ChildIsIntact == ChildInheritsTraceLocksOnly /\ OwnTrackerIntact

\* The process that holds the lock p spins on (p itself if it asked twice).
WaitsFor(p) ==
  IF want[p] # None THEN holder[want[p]]
  ELSE IF p # Worker /\ forking[p] \in 1 .. Len(PreForkOrder)
       THEN holder[PreForkOrder[forking[p]]]
       ELSE None

\* Nobody waits in a circle: hooks, finalizers, the worker and PreFork, which
\* nest their locks in different orders, cannot all wait for each other, and
\* no thread asks for a spin lock it holds.
NoCircularWait ==
  \A S \in (SUBSET alive) \ {{}} : \E p \in S : WaitsFor(p) \notin S

\* ChildPostFork: "it's necessary to reinitialize them, otherwise there will
\* be a deadlock during MemHawk destruction".  In the child, Stop finds no
\* lock that is held by a thread that does not exist.
ChildCanStop == child => \A l \in StopLocks : holder[l] \in alive \cup {None}
=============================================================================
