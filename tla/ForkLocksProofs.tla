------------------------- MODULE ForkLocksProofs -------------------------
(***************************************************************************)
(* Theorems about ForkLocks, for any set of threads.  The argument: while  *)
(* a thread is in PreFork it is the holder of every lock it has taken so   *)
(* far, because critical sections release only what they hold (IInv); and  *)
(* the locks have ranks along which every process nests them (OrderInv).   *)
(***************************************************************************)
EXTENDS ForkLocks, TLAPS

USE NoneAssumption, WorkerAssumption, LockNamesAssumption

\* The order of PreFork, as a function.
LEMMA OrderFacts ==
  /\ Len(PreForkOrder) = 4
  /\ \A i \in 1 .. 4 : PreForkOrder[i] \in Lock /\ PreForkOrder[i] \in PreForkLocks
  /\ \A l \in PreForkLocks : \E i \in 1 .. 4 : l = PreForkOrder[i]
  /\ PreForkLocks = {"mt", "thTrackersMt", "guards", "postponedMt"}
BY DEF PreForkOrder, PreForkLocks, Lock

\* The locks ChildPostFork leaves as they are.
LEMMA LeftInChild == \A l \in Lock : l \notin UnlockedInChild => l \in TraceLocks
BY OrderFacts DEF Lock, UnlockedInChild

\* Empty stacks hold nothing.
LEMMA EmptyStacks ==
  ASSUME NEW h, h = [p \in Procs |-> <<>>]
  PROVE  /\ h \in [Procs -> Seq(Lock)]
         /\ \A p \in Procs : ~ \E i \in 1 .. Len(h[p]) : TRUE
<1>1. <<>> \in Seq(Lock) /\ Len(<<>>) = 0
  OBVIOUS
<1>2. 1 .. 0 = {}
  OBVIOUS
<1> QED BY <1>1, <1>2

\* No stack holds a lock twice.
NoLockTwice ==
  \A p \in alive : \A i, j \in 1 .. Len(held[p]) :
    held[p][i] = held[p][j] => i = j

\* A forking thread is in no critical section, waits for no other lock, and
\* holds the locks PreFork has taken.
ForkerHolds ==
  \A t \in Threads :
    forking[t] # 0 =>
      /\ t \in alive
      /\ held[t] = <<>>
      /\ want[t] = None
      /\ \A i \in 1 .. 4 : i < forking[t] => holder[PreForkOrder[i]] = t

\* Before the fork every process lives; dead ones wait for nothing.
AliveInv ==
  /\ ~child => alive = Procs
  /\ child => \A t \in Threads : forking[t] = 0
  /\ \A p \in Procs : want[p] # None => p \in alive

IInv == TypeOK /\ NoLockTwice /\ ForkerHolds /\ AliveInv
          /\ ChildInheritsTraceLocksOnly

LEMMA InitIInv == Init => IInv
<1> SUFFICES ASSUME Init PROVE IInv
  OBVIOUS
<1>1. TypeOK
  <2>1. held \in [Procs -> Seq(Lock)] /\ \A p \in Procs : ~ \E i \in 1 .. Len(held[p]) : TRUE
    BY EmptyStacks DEF Init
  <2>2. holder \in [Lock -> Procs \cup {None}] /\ want \in [Procs -> Lock \cup {None}]
    BY DEF Init
  <2>3. alive \in SUBSET Procs /\ child \in BOOLEAN /\ torn \in SUBSET Lock
    BY DEF Init
  <2>4. forking \in [Threads -> 0 .. Len(PreForkOrder) + 1]
    BY OrderFacts DEF Init
  <2> QED BY <2>1, <2>2, <2>3, <2>4 DEF TypeOK
<1>2. NoLockTwice /\ ForkerHolds
  BY DEF Init, NoLockTwice, ForkerHolds
<1>3. AliveInv
  BY DEF Init, AliveInv
<1>4. ChildInheritsTraceLocksOnly
  BY DEF Init, ChildInheritsTraceLocksOnly
<1> QED BY <1>1, <1>2, <1>3, <1>4 DEF IInv

\* Asking for a lock changes no holder.
LEMMA WantIInv == IInv /\ (\E p \in Procs, l \in Lock : Want(p, l)) => IInv'
<1> SUFFICES ASSUME IInv, NEW p \in Procs, NEW l \in Lock, Want(p, l) PROVE IInv'
  OBVIOUS
<1>1. TypeOK'
  BY DEF IInv, TypeOK, Want, Running
<1>2. (NoLockTwice /\ ChildInheritsTraceLocksOnly)'
  BY DEF IInv, TypeOK, Want, NoLockTwice, ChildInheritsTraceLocksOnly
<1>3. ForkerHolds'
  BY DEF IInv, TypeOK, Want, Running, ForkerHolds, Procs
<1>4. AliveInv'
  BY DEF IInv, TypeOK, Want, Running, AliveInv
<1> QED BY <1>1, <1>2, <1>3, <1>4 DEF IInv

\* A free lock is on no stack, so taking it duplicates none.
LEMMA AcquireIInv == IInv /\ (\E p \in Procs : Acquire(p)) => IInv'
<1> SUFFICES ASSUME IInv, NEW p \in Procs, Acquire(p) PROVE IInv'
  OBVIOUS
<1> DEFINE l == want[p]
<1>0. /\ l \in Lock /\ p \in alive /\ holder[l] = None
      /\ holder' = [holder EXCEPT ![l] = p]
      /\ held' = [held EXCEPT ![p] = Append(held[p], l)]
      /\ want' = [want EXCEPT ![p] = None]
      /\ UNCHANGED <<forking, alive, child, torn>>
  BY DEF IInv, TypeOK, AliveInv, Acquire, LockFree
<1> HIDE DEF l
<1>1. \A q \in alive : \A i \in 1 .. Len(held[q]) : held[q][i] # l /\ held[q][i] \in Lock
  BY <1>0 DEF IInv, TypeOK, Procs
<1>2. /\ held[p] \in Seq(Lock)
      /\ \A q \in Procs : q # p => held'[q] = held[q]
      /\ held'[p] = Append(held[p], l)
      /\ alive \subseteq Procs
  BY <1>0 DEF IInv, TypeOK
<1>3. TypeOK'
  <2>1. (holder \in [Lock -> Procs \cup {None}])'
    BY <1>0 DEF IInv, TypeOK
  <2>2. (held \in [Procs -> Seq(Lock)])'
    BY <1>0, <1>2 DEF IInv, TypeOK
  <2>3. (\A q \in alive : \A i \in 1 .. Len(held[q]) : holder[held[q][i]] = q)'
    <3> SUFFICES ASSUME NEW q \in alive, NEW i \in 1 .. Len(held'[q])
                 PROVE  holder'[held'[q][i]] = q
      BY <1>0
    <3>1. CASE q # p
      BY <3>1, <1>0, <1>1, <1>2 DEF IInv, TypeOK
    <3>2. CASE q = p
      BY <3>2, <1>0, <1>1, <1>2 DEF IInv, TypeOK
    <3> QED BY <3>1, <3>2
  <2> QED BY <1>0, <2>1, <2>2, <2>3 DEF IInv, TypeOK
<1>4. NoLockTwice'
  <2> SUFFICES ASSUME NEW q \in alive, NEW i \in 1 .. Len(held'[q]), NEW j \in 1 .. Len(held'[q]),
                      held'[q][i] = held'[q][j]
               PROVE  i = j
    BY <1>0 DEF NoLockTwice
  <2>1. CASE q # p
    BY <2>1, <1>2 DEF IInv, NoLockTwice
  <2>2. CASE q = p
    BY <2>2, <1>1, <1>2 DEF IInv, NoLockTwice
  <2> QED BY <2>1, <2>2
<1>5. ForkerHolds'
  BY <1>0, OrderFacts DEF IInv, TypeOK, ForkerHolds, Procs, Acquire
<1>6. (AliveInv /\ ChildInheritsTraceLocksOnly)'
  BY <1>0 DEF IInv, TypeOK, AliveInv, ChildInheritsTraceLocksOnly
<1> QED BY <1>3, <1>4, <1>5, <1>6 DEF IInv

\* What a critical section releases was held by its process, so PreFork loses
\* nothing.
LEMMA ReleaseIInv == IInv /\ (\E p \in Procs : Release(p)) => IInv'
<1> SUFFICES ASSUME IInv, NEW p \in Procs, Release(p) PROVE IInv'
  OBVIOUS
<1> DEFINE n == Len(held[p])
           l == held[p][n]
<1>0. /\ p \in alive /\ held[p] \in Seq(Lock) /\ held[p] # <<>>
      /\ n \in Nat \ {0} /\ l \in Lock /\ holder[l] = p
      /\ holder' = [holder EXCEPT ![l] = None]
      /\ held' = [held EXCEPT ![p] = SubSeq(held[p], 1, n - 1)]
      /\ UNCHANGED <<want, forking, alive, child, torn>>
  BY DEF IInv, TypeOK, Release, Running, Top
<1> HIDE DEF l, n
<1>1. /\ alive \subseteq Procs
      /\ \A q \in Procs : q # p => held'[q] = held[q]
      /\ held'[p] = SubSeq(held[p], 1, n - 1)
      /\ held'[p] \in Seq(Lock)
      /\ Len(held'[p]) = n - 1
      /\ \A i \in 1 .. n - 1 : held'[p][i] = held[p][i] /\ held[p][i] # l
  <2>1. held'[p] = SubSeq(held[p], 1, n - 1)
    BY <1>0 DEF IInv, TypeOK
  <2>2. \A i \in 1 .. n - 1 : held[p][i] # l
    BY <1>0 DEF l, n, IInv, NoLockTwice
  <2>3. Len(held[p]) = n
    BY DEF n
  <2> QED BY <1>0, <2>1, <2>2, <2>3 DEF IInv, TypeOK
<1>2. TypeOK'
  <2>1. (holder \in [Lock -> Procs \cup {None}])'
    BY <1>0 DEF IInv, TypeOK
  <2>2. (held \in [Procs -> Seq(Lock)])'
    BY <1>0, <1>1 DEF IInv, TypeOK
  <2>3. (\A q \in alive : \A i \in 1 .. Len(held[q]) : holder[held[q][i]] = q)'
    <3> SUFFICES ASSUME NEW q \in alive, NEW i \in 1 .. Len(held'[q])
                 PROVE  holder'[held'[q][i]] = q
      BY <1>0
    <3>1. CASE q # p
      BY <3>1, <1>0, <1>1 DEF IInv, TypeOK
    <3>2. CASE q = p
      <4>1. i \in 1 .. n - 1 /\ i \in 1 .. Len(held[p])
        BY <3>2, <1>0, <1>1 DEF n
      <4>2. held[p][i] \in Lock /\ holder[held[p][i]] = p
        BY <4>1, <1>0 DEF IInv, TypeOK
      <4> QED BY <3>2, <4>1, <4>2, <1>0, <1>1 DEF IInv, TypeOK
    <3> QED BY <3>1, <3>2
  <2> QED BY <1>0, <2>1, <2>2, <2>3 DEF IInv, TypeOK
<1>3. NoLockTwice'
  <2> SUFFICES ASSUME NEW q \in alive, NEW i \in 1 .. Len(held'[q]), NEW j \in 1 .. Len(held'[q]),
                      held'[q][i] = held'[q][j]
               PROVE  i = j
    BY <1>0 DEF NoLockTwice
  <2>1. CASE q # p
    BY <2>1, <1>1 DEF IInv, NoLockTwice
  <2>2. CASE q = p
    <3>1. i \in 1 .. n - 1 /\ j \in 1 .. n - 1 /\ i \in 1 .. Len(held[p]) /\ j \in 1 .. Len(held[p])
      BY <2>2, <1>0, <1>1 DEF n
    <3> QED BY <2>2, <3>1, <1>1 DEF IInv, NoLockTwice
  <2> QED BY <2>1, <2>2
<1>4. ForkerHolds'
  BY <1>0, <1>1, OrderFacts DEF IInv, TypeOK, ForkerHolds, Procs
<1>5. (AliveInv /\ ChildInheritsTraceLocksOnly)'
  BY <1>0 DEF IInv, TypeOK, AliveInv, ChildInheritsTraceLocksOnly
<1> QED BY <1>2, <1>3, <1>4, <1>5 DEF IInv

\* PreFork takes a free lock, which is on no stack.
LEMMA PreForkIInv ==
  IInv /\ (\E t \in Threads : BeginFork(t) \/ PreFork(t)) => IInv'
<1> SUFFICES ASSUME IInv, NEW t \in Threads, BeginFork(t) \/ PreFork(t) PROVE IInv'
  OBVIOUS
<1>1. CASE BeginFork(t)
  <2>1. TypeOK' /\ NoLockTwice'
    BY <1>1, OrderFacts DEF IInv, TypeOK, BeginFork, Running, NoLockTwice
  <2>2. ForkerHolds'
    BY <1>1, OrderFacts DEF IInv, TypeOK, BeginFork, Running, ForkerHolds
  <2>3. (AliveInv /\ ChildInheritsTraceLocksOnly)'
    BY <1>1 DEF IInv, TypeOK, BeginFork, Running, AliveInv, ChildInheritsTraceLocksOnly
  <2> QED BY <2>1, <2>2, <2>3 DEF IInv
<1>2. CASE PreFork(t)
  <2> DEFINE k == forking[t]
             l == PreForkOrder[k]
  <2>0. /\ t \in alive /\ t \in Procs /\ k \in 1 .. 4 /\ l \in Lock /\ holder[l] = None
        /\ holder' = [holder EXCEPT ![l] = t]
        /\ forking' = [forking EXCEPT ![t] = k + 1]
        /\ UNCHANGED <<held, want, alive, child, torn>>
    BY <1>2, OrderFacts DEF PreFork, LockFree, Procs
  <2>k. forking[t] = k /\ PreForkOrder[k] = l
    OBVIOUS
  <2> HIDE DEF k, l
  <2>1. TypeOK'
    BY <2>0, OrderFacts DEF IInv, TypeOK, Procs
  <2>2. NoLockTwice'
    BY <2>0 DEF IInv, NoLockTwice
  <2>3. ForkerHolds'
    <3> SUFFICES ASSUME NEW u \in Threads, forking'[u] # 0, NEW i \in 1 .. 4
                 PROVE  /\ u \in alive /\ held[u] = <<>> /\ want[u] = None
                        /\ i < forking'[u] => holder'[PreForkOrder[i]] = u
      BY <2>0 DEF ForkerHolds
    <3>1. CASE u = t
      BY <3>1, <2>0, <2>k, OrderFacts DEF IInv, TypeOK, ForkerHolds
    <3>2. CASE u # t
      BY <3>2, <2>0, <2>k, OrderFacts DEF IInv, TypeOK, ForkerHolds, Procs
    <3> QED BY <3>1, <3>2
  <2>4. (AliveInv /\ ChildInheritsTraceLocksOnly)'
    BY <2>0, <2>k DEF IInv, TypeOK, AliveInv, ChildInheritsTraceLocksOnly
  <2> QED BY <2>1, <2>2, <2>3, <2>4 DEF IInv
<1> QED BY <1>1, <1>2

\* The parent releases what the forking thread held: no stack and no other
\* forking thread loses a lock.
LEMMA ParentIInv == IInv /\ (\E t \in Threads : ParentPostFork(t)) => IInv'
<1> SUFFICES ASSUME IInv, NEW t \in Threads, ParentPostFork(t) PROVE IInv'
  OBVIOUS
<1>1. /\ held[t] = <<>> /\ t \in Procs /\ ~child
      /\ \A l \in PreForkLocks : holder[l] = t
  BY OrderFacts DEF IInv, TypeOK, ForkerHolds, AliveInv, ParentPostFork, Procs
<1>2. TypeOK'
  BY <1>1, OrderFacts DEF IInv, TypeOK, ParentPostFork
<1>3. NoLockTwice'
  BY DEF IInv, NoLockTwice, ParentPostFork
<1>4. ForkerHolds'
  <2> SUFFICES ASSUME NEW u \in Threads, forking'[u] # 0, NEW i \in 1 .. 4
               PROVE  /\ u \in alive /\ held[u] = <<>> /\ want[u] = None
                      /\ i < forking'[u] => holder'[PreForkOrder[i]] = u
    BY DEF ForkerHolds, ParentPostFork
  <2>1. u # t /\ forking'[u] = forking[u]
    BY DEF IInv, TypeOK, ParentPostFork
  <2> QED BY <1>1, <2>1, OrderFacts DEF IInv, TypeOK, ForkerHolds
<1>5. (AliveInv /\ ChildInheritsTraceLocksOnly)'
  BY <1>1 DEF IInv, TypeOK, AliveInv, ChildInheritsTraceLocksOnly, ParentPostFork
<1> QED BY <1>2, <1>3, <1>4, <1>5 DEF IInv

\* The child: PreFork's locks were held by the caller, all trackers are
\* unlocked, and only the stack-trace trackers are left.
LEMMA ChildIInv == IInv /\ (\E t \in Threads : ChildPostFork(t)) => IInv'
<1> SUFFICES ASSUME IInv, NEW t \in Threads, ChildPostFork(t) PROVE IInv'
  OBVIOUS
<1>1. \A l \in PreForkLocks : l \in Lock /\ holder[l] = t
  <2>1. forking[t] = 5
    BY OrderFacts DEF ChildPostFork
  <2>2. \A i \in 1 .. 4 : holder[PreForkOrder[i]] = t
    BY <2>1 DEF IInv, ForkerHolds
  <2> QED BY <2>2, OrderFacts
<1>2. TypeOK'
  <2>1. held' \in [Procs -> Seq(Lock)] /\ \A p \in Procs : ~ \E i \in 1 .. Len(held'[p]) : TRUE
    BY EmptyStacks DEF ChildPostFork
  <2>2. holder' \in [Lock -> Procs \cup {None}] /\ want' \in [Procs -> Lock \cup {None}]
    BY DEF IInv, TypeOK, ChildPostFork
  <2>3. alive' \in SUBSET Procs /\ child' \in BOOLEAN /\ torn' \in SUBSET Lock
    BY DEF ChildPostFork, Procs
  <2>4. forking' \in [Threads -> 0 .. Len(PreForkOrder) + 1]
    BY OrderFacts DEF ChildPostFork
  <2> QED BY <2>1, <2>2, <2>3, <2>4 DEF TypeOK
<1>a. NoLockTwice'
  <2>1. \A p \in Procs : ~ \E i \in 1 .. Len(held'[p]) : TRUE
    BY EmptyStacks DEF ChildPostFork
  <2>2. alive' \subseteq Procs
    BY DEF ChildPostFork, Procs
  <2> QED BY <2>1, <2>2 DEF NoLockTwice
<1>b. ForkerHolds'
  BY DEF ForkerHolds, ChildPostFork
<1>3. AliveInv'
  BY DEF AliveInv, ChildPostFork
<1>4. ChildInheritsTraceLocksOnly'
  BY <1>1, LeftInChild DEF ChildInheritsTraceLocksOnly, ChildPostFork
<1> QED BY <1>2, <1>a, <1>b, <1>3, <1>4 DEF IInv

LEMMA NextIInv == IInv /\ [Next]_vars => IInv'
<1> SUFFICES ASSUME IInv, [Next]_vars PROVE IInv'
  OBVIOUS
<1>1. CASE UNCHANGED vars
  BY <1>1 DEF vars, IInv, TypeOK, NoLockTwice, ForkerHolds, AliveInv, ChildInheritsTraceLocksOnly
<1>2. CASE Next
  BY <1>2, WantIInv, AcquireIInv, ReleaseIInv, PreForkIInv, ParentIInv, ChildIInv DEF Next
<1> QED BY <1>1, <1>2

\* Types and mutual exclusion of the locks, for any number of threads that
\* register, exit, allocate and fork.
THEOREM TypeCorrect == Spec => []TypeOK
<1>1. IInv => TypeOK
  BY DEF IInv
<1> QED BY <1>1, InitIInv, NextIInv, PTL DEF Spec

\* In the child only locks of the stack-trace trackers can be held by threads
\* that do not exist; what PreFork's locks protect is whole.
THEOREM ChildLocks == Spec => []ChildInheritsTraceLocksOnly
<1>1. IInv => ChildInheritsTraceLocksOnly
  BY DEF IInv
<1> QED BY <1>1, InitIInv, NextIInv, PTL DEF Spec

-----------------------------------------------------------------------------
(* Circular waits, and the worker in the tracker of a forking thread.  The *)
(* code takes its locks in an order: every nested lock has a higher rank   *)
(* than the ones around it, and PreFork takes its four in the same order.  *)

Rank(l) ==
  CASE l = "mt" -> 1
    [] l = "thTrackersMt" -> 2
    [] l = "guards" -> 3
    [] l = "bt" -> 5
    [] l = "inner" -> 6
    [] l \in {"innerBt", "postponedMt"} -> 7
    [] OTHER -> 4

\* Who holds a lock has it on its stack or took it in PreFork.
HolderInv ==
  \A l \in Lock :
    holder[l] \in alive =>
      \/ \E i \in 1 .. Len(held[holder[l]]) : held[holder[l]][i] = l
      \/ /\ holder[l] \in Threads
         /\ \E i \in 1 .. 4 : i < forking[holder[l]] /\ PreForkOrder[i] = l

\* Stacks are sorted by rank, and a process waits for a lock above its stack.
SortedInv ==
  \A p \in alive :
    /\ \A i, j \in 1 .. Len(held[p]) : i < j => Rank(held[p][i]) < Rank(held[p][j])
    /\ want[p] # None =>
         \A i \in 1 .. Len(held[p]) : Rank(held[p][i]) < Rank(want[p])

\* The tracker of a thread is locked by the thread, or by the worker inside
\* its walk.
WalkInv ==
  /\ \A t \in Threads, u \in Threads :
       /\ want[u] = t => u = t
       /\ \A i \in 1 .. Len(held[u]) : held[u][i] = t => u = t
  /\ want[Worker] \in Threads =>
       \E j \in 1 .. Len(held[Worker]) : held[Worker][j] = "thTrackersMt"
  /\ \A i \in 1 .. Len(held[Worker]) :
       held[Worker][i] \in Threads =>
         \E j \in 1 .. i - 1 : held[Worker][j] = "thTrackersMt"

OrderInv == HolderInv /\ SortedInv /\ WalkInv /\ OwnTrackerIntact

LEMMA RankFacts ==
  /\ \A l \in Lock : Rank(l) \in 1 .. 7
  /\ \A i, j \in 1 .. 4 : i < j => Rank(PreForkOrder[i]) < Rank(PreForkOrder[j])
<1>1. \A l \in Lock : Rank(l) \in 1 .. 7
  BY DEF Rank
<1>2. Rank("mt") = 1 /\ Rank("thTrackersMt") = 2 /\ Rank("guards") = 3 /\ Rank("postponedMt") = 7
  BY DEF Rank
<1>3. \A i \in 1 .. 4 : i \in {1, 2, 3, 4}
  OBVIOUS
<1> QED BY <1>1, <1>2, <1>3 DEF PreForkOrder

\* What the code takes under a lock ranks above it.
LEMMA NestedRank ==
  ASSUME TypeOK, NEW p \in Procs, held[p] # <<>>, NEW l \in Nested(p), l \in Lock
  PROVE  Rank(Top(p)) < Rank(l)
<1>1. /\ Rank("mt") = 1 /\ Rank("thTrackersMt") = 2 /\ Rank("guards") = 3
      /\ Rank("bt") = 5 /\ Rank("inner") = 6 /\ Rank("innerBt") = 7
      /\ Rank("postponedMt") = 7 /\ Rank("exiting") = 4
  BY DEF Rank
<1>2. \A t \in Threads : Rank(t) = 4
  BY DEF Rank
<1>3. Top(p) \in Lock
  BY DEF TypeOK, Top
<1>4. Top(p) # None
  BY <1>3 DEF Lock, TrackerLocks, ThreadTrackers, TraceLocks, Procs
<1>5. CASE p = Worker
  BY <1>1, <1>2, <1>3, <1>4, <1>5
  DEF Nested, NestedInWorker, InnerOp, TrackerLocks, ThreadTrackers, TraceLocks, Lock
<1>6. CASE p # Worker
  <2>1. p \in Threads /\ l \in NestedInThread(p, Top(p), Len(held[p]))
    BY <1>6 DEF Procs, Nested
  <2> QED
    BY <1>1, <1>2, <1>3, <1>4, <2>1
    DEF NestedInThread, InnerOp, TrackerLocks, ThreadTrackers, TraceLocks, Lock
<1> QED BY <1>5, <1>6

LEMMA InitOrder == Init => OrderInv
<1> SUFFICES ASSUME Init PROVE OrderInv
  OBVIOUS
<1>1. \A p \in Procs : ~ \E i \in 1 .. Len(held[p]) : TRUE
  BY EmptyStacks DEF Init
<1>2. HolderInv /\ OwnTrackerIntact
  BY DEF Init, HolderInv, OwnTrackerIntact
<1>3. SortedInv
  BY <1>1 DEF Init, SortedInv
<1>4. WalkInv
  BY <1>1 DEF Init, WalkInv, Procs
<1> QED BY <1>2, <1>3, <1>4 DEF OrderInv

LEMMA WantOrder ==
  IInv /\ OrderInv /\ (\E p \in Procs, l \in Lock : Want(p, l)) => OrderInv'
<1> SUFFICES ASSUME IInv, OrderInv, NEW p \in Procs, NEW l \in Lock, Want(p, l)
             PROVE  OrderInv'
  OBVIOUS
<1>0. /\ p \in alive /\ l \in Nested(p) /\ want \in [Procs -> Lock \cup {None}]
      /\ want' = [want EXCEPT ![p] = l]
      /\ UNCHANGED <<holder, held, forking, alive, child, torn>>
  BY DEF IInv, TypeOK, Want, Running
<1>1. (HolderInv /\ OwnTrackerIntact)'
  BY <1>0 DEF OrderInv, HolderInv, OwnTrackerIntact
<1>2. SortedInv'
  <2>1. ASSUME NEW i \in 1 .. Len(held[p]) PROVE Rank(held[p][i]) < Rank(l)
    <3>0. held[p] \in Seq(Lock)
      BY DEF IInv, TypeOK
    <3>1. held[p] # <<>> /\ Len(held[p]) \in 1 .. Len(held[p])
      BY <3>0
    <3>2. Top(p) = held[p][Len(held[p])] /\ Rank(Top(p)) < Rank(l)
      BY <1>0, <3>1, NestedRank DEF IInv, Top
    <3>3. Rank(held[p][i]) \in Int /\ Rank(Top(p)) \in Int /\ Rank(l) \in Int
      BY <3>0, <3>1, <3>2, RankFacts
    <3>4. i = Len(held[p]) \/ Rank(held[p][i]) < Rank(held[p][Len(held[p])])
      BY <1>0, <3>1 DEF OrderInv, SortedInv
    <3> QED BY <3>2, <3>3, <3>4
  <2> QED BY <1>0, <2>1 DEF OrderInv, SortedInv, IInv, TypeOK
<1>3. WalkInv'
  <2>1. ASSUME NEW t \in Threads, NEW u \in Threads, want'[u] = t PROVE u = t
    <3>1. CASE u # p
      BY <3>1, <2>1, <1>0 DEF OrderInv, WalkInv, Procs
    <3>2. CASE u = p
      <4>1. u # Worker /\ l = t /\ l \in NestedInThread(u, Top(u), Len(held[u]))
        BY <3>2, <2>1, <1>0 DEF Nested
      <4> QED
        BY <4>1 DEF NestedInThread, InnerOp
    <3> QED BY <3>1, <3>2
  <2>2. ASSUME want'[Worker] \in Threads
        PROVE  \E j \in 1 .. Len(held[Worker]) : held[Worker][j] = "thTrackersMt"
    <3>1. CASE p # Worker
      BY <3>1, <2>2, <1>0 DEF OrderInv, WalkInv, Procs
    <3>2. CASE p = Worker
      <4>1. l \in Threads /\ l \in NestedInWorker(Top(Worker))
        BY <3>2, <2>2, <1>0 DEF Nested
      <4>2. Top(Worker) = "thTrackersMt"
        BY <4>1 DEF NestedInWorker, InnerOp
      <4>3. held[Worker] # <<>> /\ held[Worker] \in Seq(Lock)
        BY <4>2, <3>2 DEF Top, IInv, TypeOK
      <4> QED BY <4>2, <4>3 DEF Top
    <3> QED BY <3>1, <3>2
  <2> QED BY <2>1, <2>2, <1>0 DEF OrderInv, WalkInv
<1> QED BY <1>1, <1>2, <1>3 DEF OrderInv

LEMMA AcquireOrder ==
  IInv /\ OrderInv /\ (\E p \in Procs : Acquire(p)) => OrderInv'
<1> SUFFICES ASSUME IInv, OrderInv, NEW p \in Procs, Acquire(p) PROVE OrderInv'
  OBVIOUS
<1> DEFINE l == want[p]
           n == Len(held[p])
<1>0. /\ l \in Lock /\ l # None /\ p \in alive /\ holder[l] = None
      /\ holder' = [holder EXCEPT ![l] = p]
      /\ held' = [held EXCEPT ![p] = Append(held[p], l)]
      /\ want' = [want EXCEPT ![p] = None]
      /\ UNCHANGED <<forking, alive, child, torn>>
  BY DEF IInv, TypeOK, AliveInv, Acquire, LockFree
<1>n. /\ holder \in [Lock -> Procs \cup {None}] /\ want \in [Procs -> Lock \cup {None}]
      /\ alive \subseteq Procs
  BY DEF IInv, TypeOK
<1>1. /\ held[p] \in Seq(Lock) /\ n \in Nat
      /\ \A q \in Procs : q # p => held'[q] = held[q]
      /\ held'[p] = Append(held[p], l)
      /\ Len(held'[p]) = n + 1 /\ held'[p][n + 1] = l
      /\ \A i \in 1 .. n : held'[p][i] = held[p][i]
  BY <1>0 DEF IInv, TypeOK
<1>w. want[p] = l /\ Len(held[p]) = n
  OBVIOUS
<1> HIDE DEF l, n
<1>2. HolderInv'
  <2> SUFFICES ASSUME NEW m \in Lock, holder'[m] \in alive
               PROVE  \/ \E i \in 1 .. Len(held'[holder'[m]]) : held'[holder'[m]][i] = m
                      \/ /\ holder'[m] \in Threads
                         /\ \E i \in 1 .. 4 : i < forking[holder'[m]] /\ PreForkOrder[i] = m
    BY <1>0 DEF HolderInv
  <2>1. CASE m = l
    <3>1. holder'[m] = p /\ n + 1 \in 1 .. Len(held'[p])
      BY <2>1, <1>0, <1>1, <1>n
    <3> QED BY <3>1, <2>1, <1>1
  <2>2. CASE m # l
    <3>1. holder'[m] = holder[m] /\ holder[m] \in Procs
      BY <2>2, <1>0, <1>n
    <3>2. CASE holder[m] = p
      <4>1. \A i \in 1 .. n : i \in 1 .. n + 1
        BY <1>1
      <4> QED BY <2>2, <3>1, <3>2, <4>1, <1>0, <1>1, <1>w DEF OrderInv, HolderInv
    <3>3. CASE holder[m] # p
      BY <2>2, <3>1, <3>3, <1>0, <1>1 DEF OrderInv, HolderInv
    <3> QED BY <3>2, <3>3
  <2> QED BY <2>1, <2>2
<1>3. SortedInv'
  <2> SUFFICES ASSUME NEW q \in alive
               PROVE  /\ \A i, j \in 1 .. Len(held'[q]) :
                           i < j => Rank(held'[q][i]) < Rank(held'[q][j])
                      /\ want'[q] # None =>
                           \A i \in 1 .. Len(held'[q]) : Rank(held'[q][i]) < Rank(want'[q])
    BY <1>0 DEF SortedInv
  <2>1. CASE q # p
    BY <2>1, <1>0, <1>1, <1>n DEF OrderInv, SortedInv
  <2>2. CASE q = p
    <3>1. want'[q] = None
      BY <2>2, <1>0, <1>n
    <3>2. \A i \in 1 .. n : Rank(held[p][i]) < Rank(l)
      BY <1>0, <1>w DEF OrderInv, SortedInv
    <3>3. ASSUME NEW i \in 1 .. n + 1, NEW j \in 1 .. n + 1, i < j
          PROVE  Rank(held'[p][i]) < Rank(held'[p][j])
      <4>1. CASE j = n + 1
        BY <4>1, <3>2, <3>3, <1>1
      <4>2. CASE j # n + 1
        <5>1. i \in 1 .. n /\ j \in 1 .. n
          BY <4>2, <3>3, <1>1
        <5> QED BY <5>1, <3>3, <1>0, <1>1, <1>w DEF OrderInv, SortedInv
      <4> QED BY <4>1, <4>2
    <3> QED BY <2>2, <3>1, <3>3, <1>1
  <2> QED BY <2>1, <2>2
<1>4. WalkInv'
  <2>1. ASSUME NEW t \in Threads, NEW u \in Threads, want'[u] = t PROVE u = t
    BY <2>1, <1>0, <1>n DEF OrderInv, WalkInv, Procs
  <2>2. ASSUME NEW t \in Threads, NEW u \in Threads, NEW i \in 1 .. Len(held'[u]),
               held'[u][i] = t
        PROVE  u = t
    <3>1. CASE u # p
      BY <3>1, <2>2, <1>1 DEF OrderInv, WalkInv, Procs
    <3>2. CASE u = p
      <4>1. CASE i = n + 1
        BY <3>2, <4>1, <2>2, <1>1, <1>w DEF OrderInv, WalkInv
      <4>2. CASE i # n + 1
        <5>1. i \in 1 .. n
          BY <3>2, <4>2, <1>1
        <5> QED BY <3>2, <5>1, <2>2, <1>1, <1>w DEF OrderInv, WalkInv
      <4> QED BY <4>1, <4>2
    <3> QED BY <3>1, <3>2
  <2>3. ASSUME want'[Worker] \in Threads
        PROVE  \E j \in 1 .. Len(held'[Worker]) : held'[Worker][j] = "thTrackersMt"
    <3>1. Worker # p
      BY <2>3, <1>0, <1>n DEF Procs
    <3> QED BY <3>1, <2>3, <1>0, <1>1 DEF OrderInv, WalkInv, Procs
  <2>4. ASSUME NEW i \in 1 .. Len(held'[Worker]), held'[Worker][i] \in Threads
        PROVE  \E j \in 1 .. i - 1 : held'[Worker][j] = "thTrackersMt"
    <3>1. CASE p # Worker
      BY <3>1, <2>4, <1>1 DEF OrderInv, WalkInv, Procs
    <3>2. CASE p = Worker
      <4>1. CASE i = n + 1
        <5>1. want[Worker] \in Threads
          BY <3>2, <4>1, <2>4, <1>1, <1>w
        <5>2. PICK j \in 1 .. n : held[Worker][j] = "thTrackersMt"
          BY <5>1, <3>2, <1>w DEF OrderInv, WalkInv
        <5>3. j \in 1 .. i - 1 /\ held'[Worker][j] = "thTrackersMt"
          BY <5>2, <4>1, <3>2, <1>1
        <5> QED BY <5>3
      <4>2. CASE i # n + 1
        <5>1. i \in 1 .. n /\ held[Worker][i] \in Threads
          BY <3>2, <4>2, <2>4, <1>1
        <5>2. PICK j \in 1 .. i - 1 : held[Worker][j] = "thTrackersMt"
          BY <5>1, <3>2, <1>w DEF OrderInv, WalkInv
        <5>3. held'[Worker][j] = "thTrackersMt"
          BY <5>1, <5>2, <3>2, <1>1
        <5> QED BY <5>2, <5>3
      <4> QED BY <4>1, <4>2
    <3> QED BY <3>1, <3>2
  <2> QED BY <2>1, <2>2, <2>3, <2>4 DEF WalkInv
<1>5. OwnTrackerIntact'
  BY <1>0 DEF OrderInv, OwnTrackerIntact
<1> QED BY <1>2, <1>3, <1>4, <1>5 DEF OrderInv

LEMMA ReleaseOrder ==
  IInv /\ OrderInv /\ (\E p \in Procs : Release(p)) => OrderInv'
<1> SUFFICES ASSUME IInv, OrderInv, NEW p \in Procs, Release(p) PROVE OrderInv'
  OBVIOUS
<1> DEFINE n == Len(held[p])
           l == held[p][n]
<1>0. /\ p \in alive /\ held[p] \in Seq(Lock) /\ held[p] # <<>> /\ want[p] = None
      /\ n \in Nat \ {0} /\ l \in Lock /\ holder[l] = p
      /\ holder' = [holder EXCEPT ![l] = None]
      /\ held' = [held EXCEPT ![p] = SubSeq(held[p], 1, n - 1)]
      /\ UNCHANGED <<want, forking, alive, child, torn>>
  BY DEF IInv, TypeOK, Release, Running, Top
<1>w. Len(held[p]) = n /\ held[p][n] = l
  OBVIOUS
<1> HIDE DEF l, n
<1>n. /\ holder \in [Lock -> Procs \cup {None}] /\ want \in [Procs -> Lock \cup {None}]
      /\ alive \subseteq Procs
  BY DEF IInv, TypeOK
<1>1. /\ \A q \in Procs : q # p => held'[q] = held[q]
      /\ held'[p] = SubSeq(held[p], 1, n - 1)
      /\ Len(held'[p]) = n - 1
      /\ \A i \in 1 .. n - 1 : held'[p][i] = held[p][i]
  BY <1>0, <1>w DEF IInv, TypeOK
<1>2. HolderInv'
  <2> SUFFICES ASSUME NEW m \in Lock, holder'[m] \in alive
               PROVE  \/ \E i \in 1 .. Len(held'[holder'[m]]) : held'[holder'[m]][i] = m
                      \/ /\ holder'[m] \in Threads
                         /\ \E i \in 1 .. 4 : i < forking[holder'[m]] /\ PreForkOrder[i] = m
    BY <1>0 DEF HolderInv
  <2>1. m # l /\ holder'[m] = holder[m] /\ holder[m] \in Procs
    BY <1>0, <1>n DEF Procs
  <2>2. CASE holder[m] = p
    <3>1. CASE \E i \in 1 .. n : held[p][i] = m
      <4>1. PICK i \in 1 .. n : held[p][i] = m
        BY <3>1
      <4>2. i \in 1 .. n - 1
        BY <4>1, <2>1, <1>0, <1>w
      <4> QED BY <4>1, <4>2, <2>1, <2>2, <1>1
    <3>2. CASE ~ \E i \in 1 .. n : held[p][i] = m
      BY <3>2, <2>1, <2>2, <1>0, <1>w DEF OrderInv, HolderInv
    <3> QED BY <3>1, <3>2
  <2>3. CASE holder[m] # p
    BY <2>1, <2>3, <1>0, <1>1 DEF OrderInv, HolderInv
  <2> QED BY <2>2, <2>3
<1>3. SortedInv'
  <2> SUFFICES ASSUME NEW q \in alive
               PROVE  /\ \A i, j \in 1 .. Len(held'[q]) :
                           i < j => Rank(held'[q][i]) < Rank(held'[q][j])
                      /\ want[q] # None =>
                           \A i \in 1 .. Len(held'[q]) : Rank(held'[q][i]) < Rank(want[q])
    BY <1>0 DEF SortedInv
  <2>1. CASE q # p
    BY <2>1, <1>0, <1>1, <1>n DEF OrderInv, SortedInv
  <2>2. CASE q = p
    <3>1. \A i \in 1 .. n - 1 : i \in 1 .. Len(held[p]) /\ held'[p][i] = held[p][i]
      BY <1>0, <1>1, <1>w
    <3> QED BY <2>2, <3>1, <1>0, <1>1 DEF OrderInv, SortedInv
  <2> QED BY <2>1, <2>2
<1>4. WalkInv'
  <2>0. \A i \in 1 .. n - 1 : i \in 1 .. Len(held[p]) /\ held'[p][i] = held[p][i]
    BY <1>0, <1>1, <1>w
  <2>1. ASSUME NEW t \in Threads, NEW u \in Threads
        PROVE  /\ want[u] = t => u = t
               /\ \A i \in 1 .. Len(held'[u]) : held'[u][i] = t => u = t
    <3>1. CASE u # p
      BY <3>1, <1>1 DEF OrderInv, WalkInv, Procs
    <3>2. CASE u = p
      BY <3>2, <2>0, <1>1 DEF OrderInv, WalkInv
    <3> QED BY <3>1, <3>2
  <2>2. ASSUME want[Worker] \in Threads
        PROVE  \E j \in 1 .. Len(held'[Worker]) : held'[Worker][j] = "thTrackersMt"
    <3>1. Worker # p
      BY <2>2, <1>0 DEF Procs
    <3> QED BY <3>1, <2>2, <1>1 DEF OrderInv, WalkInv, Procs
  <2>3. ASSUME NEW i \in 1 .. Len(held'[Worker]), held'[Worker][i] \in Threads
        PROVE  \E j \in 1 .. i - 1 : held'[Worker][j] = "thTrackersMt"
    <3>1. CASE p # Worker
      BY <3>1, <2>3, <1>1 DEF OrderInv, WalkInv, Procs
    <3>2. CASE p = Worker
      <4>1. i \in 1 .. n - 1 /\ held[Worker][i] \in Threads
        BY <3>2, <2>0, <2>3, <1>1
      <4>2. PICK j \in 1 .. i - 1 : held[Worker][j] = "thTrackersMt"
        BY <4>1, <2>0, <3>2 DEF OrderInv, WalkInv
      <4>3. j \in 1 .. n - 1
        BY <4>1, <4>2, <1>0
      <4> QED BY <4>2, <4>3, <2>0, <3>2
    <3> QED BY <3>1, <3>2
  <2> QED BY <2>1, <2>2, <2>3, <1>0 DEF WalkInv
<1>5. OwnTrackerIntact'
  BY <1>0 DEF OrderInv, OwnTrackerIntact
<1> QED BY <1>2, <1>3, <1>4, <1>5 DEF OrderInv

LEMMA PreForkOrdered ==
  IInv /\ OrderInv /\ (\E t \in Threads : BeginFork(t) \/ PreFork(t)) => OrderInv'
<1> SUFFICES ASSUME IInv, OrderInv, NEW t \in Threads, BeginFork(t) \/ PreFork(t)
             PROVE  OrderInv'
  OBVIOUS
<1>0. UNCHANGED <<held, want, alive, child, torn>>
  BY DEF BeginFork, PreFork
<1>1. (SortedInv /\ WalkInv /\ OwnTrackerIntact)'
  BY <1>0 DEF OrderInv, SortedInv, WalkInv, OwnTrackerIntact
<1>2. HolderInv'
  <2> SUFFICES ASSUME NEW m \in Lock, holder'[m] \in alive
               PROVE  \/ \E i \in 1 .. Len(held[holder'[m]]) : held[holder'[m]][i] = m
                      \/ /\ holder'[m] \in Threads
                         /\ \E i \in 1 .. 4 : i < forking'[holder'[m]] /\ PreForkOrder[i] = m
    BY <1>0 DEF HolderInv
  <2>1. CASE BeginFork(t)
    BY <2>1 DEF BeginFork, Running, OrderInv, HolderInv, IInv, TypeOK
  <2>2. CASE PreFork(t)
    <3> DEFINE k == forking[t]
    <3>1. /\ k \in 1 .. 4 /\ PreForkOrder[k] \in Lock
          /\ holder' = [holder EXCEPT ![PreForkOrder[k]] = t]
          /\ forking' = [forking EXCEPT ![t] = k + 1]
          /\ forking \in [Threads -> 0 .. 5] /\ holder \in [Lock -> Procs \cup {None}]
      BY <2>2, OrderFacts DEF PreFork, IInv, TypeOK
    <3>2. CASE m = PreForkOrder[k]
      BY <3>1, <3>2
    <3>3. CASE m # PreForkOrder[k]
      <4>1. holder'[m] = holder[m]
        BY <3>1, <3>3
      <4> QED BY <4>1, <3>1 DEF OrderInv, HolderInv
    <3> QED BY <3>2, <3>3
  <2> QED BY <2>1, <2>2
<1> QED BY <1>1, <1>2 DEF OrderInv

LEMMA ParentOrder ==
  IInv /\ OrderInv /\ (\E t \in Threads : ParentPostFork(t)) => OrderInv'
<1> SUFFICES ASSUME IInv, OrderInv, NEW t \in Threads, ParentPostFork(t) PROVE OrderInv'
  OBVIOUS
<1>0. UNCHANGED <<held, want, alive, child, torn>>
  BY DEF ParentPostFork
<1>1. (SortedInv /\ WalkInv /\ OwnTrackerIntact)'
  BY <1>0 DEF OrderInv, SortedInv, WalkInv, OwnTrackerIntact
<1>2. HolderInv'
  <2> SUFFICES ASSUME NEW m \in Lock, holder'[m] \in alive
               PROVE  \/ \E i \in 1 .. Len(held[holder'[m]]) : held[holder'[m]][i] = m
                      \/ /\ holder'[m] \in Threads
                         /\ \E i \in 1 .. 4 : i < forking'[holder'[m]] /\ PreForkOrder[i] = m
    BY <1>0 DEF HolderInv
  <2>1. m \notin PreForkLocks /\ holder'[m] = holder[m]
    BY DEF ParentPostFork, IInv, TypeOK, Procs
  <2>2. \A i \in 1 .. 4 : PreForkOrder[i] # m
    BY <2>1, OrderFacts
  <2> QED BY <2>1, <2>2 DEF OrderInv, HolderInv
<1> QED BY <1>1, <1>2 DEF OrderInv

\* The caller's tracker could only be locked by the worker inside its walk,
\* and the walk needs m_thTrackersMt, which the caller holds.
LEMMA ChildOrder ==
  IInv /\ OrderInv /\ (\E t \in Threads : ChildPostFork(t)) => OrderInv'
<1> SUFFICES ASSUME IInv, OrderInv, NEW t \in Threads, ChildPostFork(t) PROVE OrderInv'
  OBVIOUS
<1>0. /\ forking[t] = 5 /\ ~child /\ alive = Procs /\ held[t] = <<>>
      /\ \A i \in 1 .. 4 : holder[PreForkOrder[i]] = t
      /\ t \in Lock /\ holder \in [Lock -> Procs \cup {None}]
      /\ held \in [Procs -> Seq(Lock)]
  BY OrderFacts
  DEF ChildPostFork, IInv, TypeOK, ForkerHolds, AliveInv, Lock, TrackerLocks, ThreadTrackers
<1>1. \A p \in Procs : ~ \E i \in 1 .. Len(held'[p]) : TRUE
  BY EmptyStacks DEF ChildPostFork
<1>2. \A p \in Procs : want'[p] = None
  BY DEF ChildPostFork
<1>3. alive' = {t} /\ t \in Procs /\ Worker \in Procs
  BY DEF ChildPostFork, Procs
<1>4. SortedInv'
  BY <1>1, <1>2, <1>3 DEF SortedInv
<1>5. WalkInv'
  BY <1>1, <1>2 DEF WalkInv, Procs
<1>6. HolderInv'
  <2> SUFFICES ASSUME NEW m \in Lock, holder'[m] \in {t} PROVE FALSE
    BY <1>3 DEF HolderInv
  <2>1. m \notin UnlockedInChild /\ holder[m] = t
    BY DEF ChildPostFork, Procs
  <2>2. \A i \in 1 .. 4 : PreForkOrder[i] # m
    BY <2>1, OrderFacts DEF UnlockedInChild
  <2>3. ~ \E i \in 1 .. Len(held[t]) : TRUE
    BY <1>0
  <2> QED BY <2>1, <2>2, <2>3, <1>0, <1>3 DEF OrderInv, HolderInv
<1>7. OwnTrackerIntact'
  <2> SUFFICES ASSUME holder[t] \notin {None, t} PROVE FALSE
    BY <1>3 DEF OwnTrackerIntact, ChildPostFork
  <2>1. holder[t] \in Procs
    BY <1>0
  <2>2. \A i \in 1 .. 4 : PreForkOrder[i] # t
    BY DEF PreForkOrder
  <2>3. PICK i \in 1 .. Len(held[holder[t]]) : held[holder[t]][i] = t
    BY <2>1, <2>2, <1>0 DEF OrderInv, HolderInv
  <2>4. holder[t] = Worker
    BY <2>1, <2>3 DEF OrderInv, WalkInv, Procs
  <2>5. PICK j \in 1 .. i - 1 : held[Worker][j] = "thTrackersMt"
    BY <2>3, <2>4 DEF OrderInv, WalkInv
  <2>6. j \in 1 .. Len(held[Worker])
    BY <2>3, <2>4, <2>5, <1>0, <1>3
  <2>7. holder["thTrackersMt"] = Worker
    BY <2>5, <2>6, <1>0, <1>3 DEF IInv, TypeOK
  <2>8. holder["thTrackersMt"] = t
    BY <1>0 DEF PreForkOrder
  <2> QED BY <2>7, <2>8
<1> QED BY <1>4, <1>5, <1>6, <1>7 DEF OrderInv

LEMMA NextOrder == IInv /\ OrderInv /\ [Next]_vars => OrderInv'
<1> SUFFICES ASSUME IInv, OrderInv, [Next]_vars PROVE OrderInv'
  OBVIOUS
<1>1. CASE UNCHANGED vars
  BY <1>1 DEF vars, OrderInv, HolderInv, SortedInv, WalkInv, OwnTrackerIntact
<1>2. CASE Next
  BY <1>2, WantOrder, AcquireOrder, ReleaseOrder, PreForkOrdered, ParentOrder, ChildOrder
  DEF Next
<1> QED BY <1>1, <1>2

\* The child's own tracker is never one the worker was in the middle of,
\* whatever the worker and the other threads do during the fork.
THEOREM TrackerIntact == Spec => []OwnTrackerIntact
<1>1. OrderInv => OwnTrackerIntact
  BY DEF OrderInv
<1> QED BY <1>1, InitIInv, NextIInv, InitOrder, NextOrder, PTL DEF Spec

\* What the child gets by fork is whole, but for the locks of the two
\* stack-trace trackers (PreFork, ChildPostFork).
THEOREM ChildIntact == Spec => []ChildIsIntact
BY ChildLocks, TrackerIntact, PTL DEF ChildIsIntact

\* The lock p spins on, in a hook or in PreFork.
WaitedLock(p) == IF want[p] # None THEN want[p] ELSE PreForkOrder[forking[p]]

\* Who is waited for and waits itself, waits for a lock of a higher rank.
LEMMA WaitClimbs ==
  ASSUME IInv, OrderInv, NEW p \in alive, NEW q \in alive,
         WaitsFor(p) = q, WaitsFor(q) \in alive
  PROVE  /\ WaitedLock(p) \in Lock /\ WaitedLock(q) \in Lock
         /\ Rank(WaitedLock(p)) < Rank(WaitedLock(q))
<1>1. ASSUME NEW r \in alive, WaitsFor(r) \in alive
      PROVE  /\ WaitedLock(r) \in Lock /\ WaitsFor(r) = holder[WaitedLock(r)]
             /\ want[r] = None => r \in Threads /\ forking[r] \in 1 .. 4
  <2>1. r \in Procs /\ None \notin alive /\ want[r] \in Lock \cup {None}
    BY DEF IInv, TypeOK
  <2> QED BY <1>1, <2>1, OrderFacts DEF WaitsFor, WaitedLock, Procs
<1>2. /\ WaitedLock(p) \in Lock /\ holder[WaitedLock(p)] = q
      /\ WaitedLock(q) \in Lock
      /\ want[q] = None => q \in Threads /\ forking[q] \in 1 .. 4
  BY <1>1
<1>3. CASE \E i \in 1 .. Len(held[q]) : held[q][i] = WaitedLock(p)
  <2>1. ~ (q \in Threads /\ forking[q] # 0)
    <3> SUFFICES ASSUME q \in Threads, forking[q] # 0 PROVE FALSE
      OBVIOUS
    <3>1. held[q] = <<>>
      BY DEF IInv, ForkerHolds
    <3> QED BY <3>1, <1>3
  <2>2. want[q] # None
    BY <2>1, <1>2
  <2> QED BY <1>2, <1>3, <2>2 DEF OrderInv, SortedInv, WaitedLock
<1>4. CASE ~ \E i \in 1 .. Len(held[q]) : held[q][i] = WaitedLock(p)
  <2>1. PICK i \in 1 .. 4 : q \in Threads /\ i < forking[q] /\ PreForkOrder[i] = WaitedLock(p)
    BY <1>2, <1>4 DEF OrderInv, HolderInv
  <2>2. forking[q] \in 0 .. 5
    BY <2>1, OrderFacts DEF IInv, TypeOK
  <2>3. want[q] = None
    BY <2>1, <2>2 DEF IInv, ForkerHolds
  <2> QED BY <1>2, <2>1, <2>2, <2>3, RankFacts DEF WaitedLock
<1> QED BY <1>2, <1>3, <1>4

\* Hooks, finalizers, the worker and PreFork never wait for each other in a
\* circle, for any number of threads: along a wait the rank grows, and there
\* are seven ranks.
THEOREM NoDeadlock == Spec => []NoCircularWait
<1>1. IInv /\ OrderInv => NoCircularWait
  <2> SUFFICES ASSUME IInv, OrderInv, NEW S \in (SUBSET alive) \ {{}},
                      \A p \in S : WaitsFor(p) \in S
               PROVE  FALSE
    BY DEF NoCircularWait
  <2> DEFINE Above(k) == \E p \in S : Rank(WaitedLock(p)) \in Int
                                        /\ Rank(WaitedLock(p)) > k
  <2>1. ASSUME NEW p \in S
        PROVE  /\ WaitsFor(p) \in S
               /\ Rank(WaitedLock(p)) \in 1 .. 7
               /\ Rank(WaitedLock(WaitsFor(p))) \in 1 .. 7
               /\ Rank(WaitedLock(p)) < Rank(WaitedLock(WaitsFor(p)))
    <3>1. p \in alive /\ WaitsFor(p) \in alive /\ WaitsFor(WaitsFor(p)) \in alive
      OBVIOUS
    <3> QED BY <3>1, WaitClimbs, RankFacts
  <2>2. Above(0)
    <3>1. PICK p \in S : TRUE
      OBVIOUS
    <3> QED BY <3>1, <2>1
  <2>3. ASSUME NEW k \in Nat, Above(k) PROVE Above(k + 1)
    BY <2>1, <2>3
  <2> HIDE DEF Above
  <2>4. Above(1) /\ Above(2) /\ Above(3) /\ Above(4)
    <3>1. Above(0 + 1)
      BY <2>2, <2>3
    <3>2. Above(1 + 1)
      BY <3>1, <2>3
    <3>3. Above(2 + 1)
      BY <3>2, <2>3
    <3>4. Above(3 + 1)
      BY <3>3, <2>3
    <3> QED BY <3>1, <3>2, <3>3, <3>4
  <2>5. Above(7)
    <3>1. Above(4 + 1)
      BY <2>4, <2>3
    <3>2. Above(5 + 1)
      BY <3>1, <2>3
    <3>3. Above(6 + 1)
      BY <3>2, <2>3
    <3> QED BY <3>3
  <2> QED BY <2>1, <2>5 DEF Above
<1> QED BY <1>1, InitIInv, NextIInv, InitOrder, NextOrder, PTL DEF Spec
=============================================================================
